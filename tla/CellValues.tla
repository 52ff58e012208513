------------------------------ MODULE CellValues ------------------------------
(***************************************************************************)
(* What a caller sees of a row of a shard (crates/core/src/archive.rs,     *)
(* binary_value and meta_value, with meta_to_py of crates/py/src/lib.rs):  *)
(* read gives the bytes of the content cell, info their number and, of an  *)
(* extra cell, a Python value.  Both are asked of one row, in any order.   *)
(*                                                                         *)
(* An integer type is given by the number of its values, its span: 2^8 to  *)
(* 2^64 in the code.  A text is a sequence of characters, Utf8 of each     *)
(* character being one to four bytes; a floating point value is one of a   *)
(* set of names, since the code only widens it, which is exact.            *)
(***************************************************************************)
EXTENDS Integers, Sequences, SequencesExt

CONSTANTS
  Spans,      \* of the integer types
  Widest,     \* of i64 and u64
  Utf8,       \* the bytes of a character
  Rows,       \* what a row may be
  Null,       \* a null cell, and None
  Unset,      \* nothing was asked yet
  SchemaError

Chars  == DOMAIN Utf8
Byte   == 0..255
Texts  == Seq(Chars)
Floats == {"1.5", "nan"}

(* i8 to i64, and u8 to u64. *)
Signed(span)   == -(span \div 2)..(span \div 2 - 1)
Unsigned(span) == 0..(span - 1)

(* The values of a cell that is not null, and of a Python value.  Of the   *)
(* types that are neither scalar nor text, lists stand for those arrow's   *)
(* formatter knows and "opaque" for others.                                *)
CellValue(cell) ==
  CASE cell.type = "bool"   -> BOOLEAN
    [] cell.type = "float"  -> Floats
    [] cell.type = "int"    -> Signed(cell.span)
    [] cell.type = "uint"   -> Unsigned(cell.span)
    [] cell.type = "text"   -> Texts
    [] cell.type = "binary" -> Seq(Byte)
    [] cell.type = "list"   -> Seq(Texts)
    [] cell.type = "opaque" -> {"opaque"}
PyValue ==
  [bool |-> BOOLEAN, float |-> Floats, int |-> Signed(Widest),
   str |-> Texts, bytes |-> Seq(Byte), None |-> {Null}]

CellTypes == {"bool", "float", "int", "uint", "text", "binary", "list", "opaque"}
IsCell(cell) ==
  /\ cell.type \in CellTypes
  /\ cell.type \in {"int", "uint"} => cell.span \in Spans
  /\ cell.value = Null \/ cell.value \in CellValue(cell)

(* A narrower integer fits the widest type, signed or not. *)
ASSUME SpansAssumption ==
  /\ Spans \subseteq Nat \ {0} /\ Widest \in Spans
  /\ \A s \in Spans : s % 2 = 0 /\ (s # Widest => s <= Widest \div 2)

ASSUME CellAssumption ==
  /\ {"[", ", ", "]"} \subseteq Chars
  /\ \A c \in Chars : Utf8[c] \in Seq(Byte) /\ Len(Utf8[c]) \in 1..4
  /\ \A r \in Rows : IsCell(r.content) /\ IsCell(r.extra)

VARIABLES
  row,      \* content and one extra cell
  data,     \* what read gave
  detail    \* what info gave

cellVars == <<row, data, detail>>

CellTypeOK ==
  /\ row \in Rows
  /\ data \in Seq(Byte) \cup {Unset, SchemaError}
  /\ \/ detail \in {Unset, SchemaError}
     \/ detail.size \in Nat /\ detail.meta.value \in PyValue[detail.meta.kind]

CellInit == row \in Rows /\ data = Unset /\ detail = Unset
-----------------------------------------------------------------------------
Encode(text) == FlattenSeq([i \in 1..Len(text) |-> Utf8[text[i]]])

(* binary_value: the bytes of a binary or text cell, none of a null one.   *)
HasBytes(cell) == cell.type \in {"binary", "text"}
BinaryValue(cell) ==
  IF cell.value = Null THEN <<>>
  ELSE IF cell.type = "text" THEN Encode(cell.value) ELSE cell.value

(* load_detail: the size that info reports. *)
SizeOf(cell) == Len(BinaryValue(cell))

(* Fault: every integer is taken through a narrower type. *)
CastThroughNarrow(v) ==
  LET h == (CHOOSE s \in Spans : s # Widest) \div 2 IN ((v + h) % (2 * h)) - h

(* Fault: as u64. *)
AsU64(v) == v % Widest

(* v as i64: two's complement. *)
AsI64(v) == ((v + Widest \div 2) % Widest) - Widest \div 2

(* The formatter of arrow: the elements between brackets, as they are. *)
Display(list) ==
  <<"[">> \o FlattenSeq([i \in 1..Len(list) |-> IF i = 1 THEN list[i] ELSE <<", ">> \o list[i]])
    \o <<"]">>

None == [kind |-> "None", value |-> Null]
Meta(kind, v) == [kind |-> kind, value |-> v]

(* meta_value: null first; what the formatter cannot show is None as well. *)
MetaValue(cell) ==
  IF cell.value = Null THEN None
  ELSE CASE cell.type \in {"int", "uint"} -> Meta("int", AsI64(cell.value))
         [] cell.type \in {"bool", "float"} -> Meta(cell.type, cell.value)
         [] cell.type = "text" -> Meta("str", cell.value)
         [] cell.type = "binary" -> Meta("bytes", cell.value)
         [] cell.type = "list" -> Meta("str", Display(cell.value))
         [] cell.type = "opaque" -> None

Detail(r) == [size |-> SizeOf(r.content), meta |-> MetaValue(r.extra)]
-----------------------------------------------------------------------------
Read ==
  /\ data = Unset
  /\ data' = IF HasBytes(row.content) THEN BinaryValue(row.content) ELSE SchemaError
  /\ UNCHANGED <<row, detail>>

(* The size is taken first; a content cell without bytes fails the call.   *)
Info ==
  /\ detail = Unset
  /\ detail' = IF HasBytes(row.content) THEN Detail(row) ELSE SchemaError
  /\ UNCHANGED <<row, data>>

Answered == data # Unset /\ detail # Unset /\ UNCHANGED cellVars

CellNext == Read \/ Info \/ Answered

CellSpec == CellInit /\ [][CellNext]_cellVars
-----------------------------------------------------------------------------
Shown == detail \notin {Unset, SchemaError}

(* Two different cells of one column, lists aside, are never shown alike:  *)
(* no conversion loses what tells them apart, that of u64 included.        *)
ScalarsStayApart ==
  Shown /\ row.extra.type \notin {"list", "opaque"} =>
    \A r \in Rows :
      /\ r.extra.type = row.extra.type
      /\ r.extra.type \in {"int", "uint"} => r.extra.span = row.extra.span
      /\ MetaValue(r.extra) = detail.meta
      => r.extra.value = row.extra.value
=============================================================================
