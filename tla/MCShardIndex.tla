--------------------------- MODULE MCShardIndex ---------------------------
(* Small instances of ShardIndex for TLC. *)
EXTENDS ShardIndex, TLC
LOCAL INSTANCE SequencesExt

CONSTANTS u1, u2

MCSegments == {"a", "b", "c"}
MCNames    == {"path", "Path", "KEY", "content", "data", "size"}
MCLower    == [n \in MCNames |-> IF n = "Path" THEN "path"
                                 ELSE IF n = "KEY" THEN "key" ELSE n]
MCRawPaths == {<<"a">>, <<"a", "b">>, <<"", "a", "", "b">>,
               <<"a", "b", "c">>, <<"b", "a", "">>, <<"">>}

Column(name)   == [name |-> name, text |-> name \in {"path", "Path", "KEY"}]
PathAndContent == <<Column("path"), Column("content")>>
File(f, g)     == [fields |-> f, groups |-> g]

(* Two shards with up to three rows of these paths: every division of them *)
(* into row groups, empty ones at either end and in the middle included.   *)
MixedRows == {<<"a", "b">>, <<"", "a", "", "b">>, <<"a", "b", "c">>, <<"b", "a", "">>}
Layouts(rows) ==
  {<<rows>>, <<<<>>, rows>>, <<rows, <<>>>>} \cup
  {<<SubSeq(rows, 1, k), SubSeq(rows, k + 1, Len(rows))>> : k \in 1..(Len(rows) - 1)} \cup
  {<<SubSeq(rows, 1, k), <<>>, SubSeq(rows, k + 1, Len(rows))>> : k \in 1..(Len(rows) - 1)}
RowLists(n) == {rows \in SeqOf(MixedRows, n) : rows # <<>>}

Call(sources, one, two, policy) ==
  [sources |-> sources, store |-> (u1 :> one) @@ (u2 :> two),
   path_column |-> Unset, content_column |-> Unset, on_duplicate |-> policy]

Policies == {"error", "first", "last"}

(* Rows over row groups and shards: a shard listed once, twice, or along   *)
(* with another one.                                                       *)
RowInputs ==
  {Call(<<<<u1>>>>, File(PathAndContent, g), NoFile, d) :
     g \in UNION {Layouts(rows) : rows \in RowLists(3)}, d \in Policies} \cup
  {Call(sources, File(PathAndContent, g), File(PathAndContent, h), d) :
     g \in UNION {Layouts(rows) : rows \in RowLists(2)},
     h \in {<<>>, <<<<>>>>, <<<<<<"a">>>>, <<<<"a", "b">>>>>>},
     sources \in {<<<<u1, u2>>>>, <<<<u2>>, <<u1>>>>}, d \in Policies} \cup
  {Call(<<<<u1>>, <<u1>>>>, File(PathAndContent, <<<<<<"a">>>>>>), NoFile, d) :
     d \in Policies}

(* What a build refuses, and how columns are found. *)
ColumnInputs ==
  {[Call(<<<<u1>>>>, File(f, <<<<<<"a">>>>>>), NoFile, "error")
      EXCEPT !.path_column = p, !.content_column = c] :
     f \in {<<Column("KEY"), Column("data"), Column("Path")>>,
            <<Column("content"), Column("size")>>,
            <<Column("data"), Column("size"), Column("KEY")>>},
     p \in {Unset, "path", "size", "KEY"}, c \in {Unset, "KEY", "data"}}
BadInputs ==
  {Call(sources, File(PathAndContent, g), NoFile, "error") :
     g \in {<<<<<<"a">>, <<"">>>>>>, <<<<<<"a">>>>, <<<<"a", "b">>, NullPath>>>>},
     sources \in {<<>>, <<<<>>>>, <<<<u1>>, <<>>>>, <<<<u1>>>>, <<<<u1, u2>>>>}}

MCInputs == RowInputs \cup ColumnInputs \cup BadInputs
=============================================================================
