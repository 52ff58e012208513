---------------------------- MODULE MCCellValues ----------------------------
(* Small instances of CellValues for TLC: integers of 1, 2, 4 and 8 bits,  *)
(* characters of one and two bytes.                                        *)
EXTENDS CellValues, TLC

MCSpans == {2, 4, 16, 256}

MCUtf8 == ("p" :> <<112>>) @@ ("é" :> <<195, 169>>) @@ ("[" :> <<91>>)
            @@ (", " :> <<44, 32>>) @@ ("]" :> <<93>>)

Scalars ==
  [type : {"bool"}, value : BOOLEAN] \cup [type : {"float"}, value : Floats]
    \cup UNION {[type : {"int"}, span : {s}, value : Signed(s)] : s \in Spans}
    \cup UNION {[type : {"uint"}, span : {s}, value : Unsigned(s)] : s \in Spans}
SmallTexts == SeqOf({"p", "é", ", "}, 2)
Nulls == {[type |-> t, value |-> Null] : t \in {"bool", "float", "text", "binary", "opaque"}}
           \cup {[type |-> t, span |-> s, value |-> Null] : t \in {"int", "uint"}, s \in Spans}
Contents ==
  {[type |-> "text", value |-> t] : t \in SmallTexts}
    \cup {[type |-> "binary", value |-> b] : b \in SeqOf({112, 195}, 2)}
    \cup {[type |-> "list", value |-> <<>>]} \cup Nulls
Lists  == {[type |-> "list", value |-> l] : l \in SeqOf(SmallTexts \ {<<>>}, 2)}
Others == {[type |-> "opaque", value |-> "opaque"]}

(* Every extra cell beside a content, and every content beside an extra.   *)
MCRows ==
  {[content |-> [type |-> "binary", value |-> <<112>>], extra |-> x] :
     x \in Scalars \cup Contents \cup Others}
    \cup {[content |-> c, extra |-> [type |-> "bool", value |-> TRUE]] : c \in Contents \cup Others}

(* With lists as well. *)
ListRows ==
  MCRows \cup {[content |-> [type |-> "text", value |-> <<"p">>], extra |-> x] : x \in Lists}
=============================================================================
