----------------------------- MODULE MCListing ------------------------------
(* Small instances of Listing for TLC. *)
EXTENDS Listing

(* The strings "a" < "a-" < "a-/" < "a/" < "b" < "b/". *)
MCSegments == {"a", "a-", "b"}
MCLast     == [s \in MCSegments |-> CASE s = "a" -> 1 [] s = "a-" -> 2 [] s = "b" -> 5]
MCInner    == [s \in MCSegments |-> CASE s = "a" -> 4 [] s = "a-" -> 3 [] s = "b" -> 6]

(* Up to four files, at most three levels deep. *)
Deep   == {<<"a", "a-", "b">>, <<"a", "a", "a">>, <<"a-", "b", "a">>}
Paths  == {<<s>> : s \in MCSegments} \cup (MCSegments \X {"a", "b"}) \cup Deep
MCTrees == {S \in SUBSET Paths : Cardinality(S) \in 0..4}

MCRaws == {<<"">>, <<"a">>, <<"", "a", "">>, <<"a", "", "a">>, <<"b">>,
           <<"a-">>, <<"a", "a-">>}
=============================================================================
