--------------------------- MODULE MCPackSources ----------------------------
(* Small instances of PackSources for TLC. *)
EXTENDS PackSources, FiniteSets

MCFileNames == {"a", "b", "c", "x[1]", "x1"}
MCWild  == {"*", "x[1]"}
MCMatchedBy == [w \in MCWild |-> IF w = "*" THEN MCFileNames ELSE {"x1"}]

(* The strings in byte order; a path has at most three names. *)
Place(n) == CASE n = "a" -> 1 [] n = "b" -> 2 [] n = "c" -> 3
              [] n = "x1" -> 4 [] n = "x[1]" -> 5 [] OTHER -> 6
Short == UNION {[1..n -> MCFileNames \cup {"..", "/"}] : n \in 1..3}
MCRank == [s \in Short |-> 49 * Place(s[1])
             + (IF Len(s) > 1 THEN 7 * Place(s[2]) ELSE 0)
             + (IF Len(s) > 2 THEN Place(s[3]) ELSE 0)]

Glob(p, r)  == [op |-> "glob", pattern |-> p, root |-> r, files |-> {}]
Files(s, r) == [op |-> "files", pattern |-> <<>>, root |-> r, files |-> s]

MCDisks == {S \in SUBSET {<<"a">>, <<"a", "b">>, <<"b", "a">>, <<"b", "c", "a">>,
                          <<"/", "b", "a">>, <<"..", "c">>} :
              ~(<<"a">> \in S /\ <<"a", "b">> \in S)} \cup
           SUBSET {<<"x[1]", "a">>, <<"x1", "b">>} \cup
           {{<<"b", "a">>, <<"c">>, <<"b", "..", "c">>}}

(* Globs with every kind of prefix, ".", ".." and empty segments,          *)
(* directories in several spellings and one that is called like a glob,    *)
(* roots that fit and roots that do not, and lists.                        *)
MCCalls ==
  {Glob(p, r) : p \in {<<"*">>, <<"a">>, <<"b", "*">>, <<".", "b", "*">>, <<"b", "a">>,
                       <<"b", "c", "a">>, <<"*", "a">>, <<"", "b", "*">>, <<"..", "*">>,
                       <<".">>, <<"b">>, <<"b", "">>, <<".", "b", "">>, <<"", "b">>,
                       <<"**", "a">>, <<"b", "**", "*">>,
                       <<"b", "", "c", "*">>, <<"b", "", "*">>, <<"x[1]">>, <<"x[1]", "*">>,
                       <<"", "">>, <<"", "", "b", "*">>, <<"b", "**">>, <<"a", "">>,
                       <<"a", ".">>, <<"*", "..", "c">>},
                r \in {NoRoot}} \cup
  {Glob(p, r) : p \in {<<"b", "*">>, <<"..", "*">>, <<"b">>, <<"", "b", "a">>},
                r \in {<<"">>, <<".">>, <<"b">>, <<"b", "a">>, <<".", "b", "">>}} \cup
  {Files(S, r) : S \in {{}, {<<"a">>}, {<<"a">>, <<".", "a">>}, {<<"b", "a">>, <<"a", "b">>},
                        {<<"..", "c">>}, {<<"b">>}}, r \in {<<"">>, <<"b">>}}
=============================================================================
