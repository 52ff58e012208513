------------------------ MODULE PackWriterProofs ------------------------
(***************************************************************************)
(* Theorems about PackWriter, for any number of packers, outputs, inputs   *)
(* and any threshold, provided that no two live calls name the same        *)
(* output.  (Without that the properties fail: see pack_shared_out.)       *)
(***************************************************************************)
EXTENDS PackWriter, SequenceLemmas, SequenceTheorems, TLAPS
-----------------------------------------------------------------------------
(* The inductive invariant, in parts. *)

(* Row groups are not empty and follow each other within the rows. *)
CutsInOrder(rows, cuts) ==
  \A i \in 1..Len(cuts) : GroupStart(cuts, i) <= cuts[i] /\ cuts[i] <= Len(rows)

(* Writer v has written its finished row groups, and nothing else, to c. *)
Consistent(v, c) ==
  /\ v \in Writer
  /\ Len(c) = Len(v.cuts)
  /\ v.pos = Len(v.cuts) + 1
  /\ CutsInOrder(v.rows, v.cuts)
  /\ HoldsGroups(c, v.rows, v.cuts)

(* It has taken the first v.files entries of the input, all different. *)
Follows(v, input) ==
  /\ v.files <= Len(input)
  /\ v.rows = SubSeq(input, 1, v.files)
  /\ Distinct(v.rows)
  /\ v.seen = {v.rows[i].path : i \in 1..Len(v.rows)}

Stores(c, input) ==
  /\ Whole(c)
  /\ RowsOf(c) = input
  /\ input # <<>>
  /\ Distinct(input)

Published(p) == pc[p] = "drop" /\ result[p] = "ok"

CallsOK ==
  \A p \in Packers :
    /\ Live(p) => call[p] \in Calls
    /\ Open(p) => w[p] \in Writer
    /\ result[p] = "ok" => pc[p] = "drop"
    /\ Live(p) /\ call[p].mode = "pairs" => call[p].input # <<>>

Exclusive ==
  \A p, q \in Packers :
    Live(p) /\ Live(q) /\ call[p].out = call[q].out => p = q

OneName ==
  \A m, n \in Names : link[m] = link[n] /\ link[m] # NoFile => m = n

(* The file a writer has open is under its temp name until the rename, and *)
(* under the output after it.                                              *)
Handles ==
  \A p \in Packers : Open(p) =>
    IF Published(p)
    THEN link[Tmp(p)] = NoFile /\ link[call[p].out] = w[p].ino
    ELSE link[Tmp(p)] = w[p].ino

ContentsOf(p) ==
  /\ pc[p] \in {"append", "flush", "finish", "close"} =>
       Consistent(w[p], data[w[p].ino]) /\ Follows(w[p], call[p].input)
  /\ pc[p] \in {"flush", "finish"} => Buffered(w[p])
  /\ pc[p] \in {"finish", "close"} =>
       w[p].files = Len(call[p].input) /\ call[p].input # <<>>
  /\ pc[p] = "close" => LastCut(w[p].cuts) = Len(w[p].rows)
  /\ pc[p] = "rename" \/ Published(p) =>
       /\ Stores(data[w[p].ino], call[p].input)
       /\ w[p].files = Len(call[p].input)

Contents == \A p \in Packers : ContentsOf(p)

(* Why the properties hold: distinct outputs give distinct temp names, so  *)
(* no two writers share a file, and a file under an output has no writer   *)
(* that still writes to it.                                                *)
Inductive ==
  /\ TypeOK /\ CallsOK /\ Exclusive /\ OneName /\ Handles /\ Contents
  /\ OutAlwaysWhole /\ TmpHasOwner
-----------------------------------------------------------------------------
(* Facts about sequences and about the values a writer holds. *)

LEMMA SubSeqOfAppend ==
  ASSUME NEW S, NEW s \in Seq(S), NEW e \in S,
         NEW i \in Nat \ {0}, NEW j \in Nat, j <= Len(s)
  PROVE  SubSeq(Append(s, e), i, j) = SubSeq(s, i, j)
  OBVIOUS

LEMMA SubSeqExtend ==
  ASSUME NEW S, NEW s \in Seq(S), NEW n \in Nat, n < Len(s)
  PROVE  SubSeq(s, 1, n + 1) = Append(SubSeq(s, 1, n), s[n + 1])
  OBVIOUS

LEMMA WriteAtType ==
  ASSUME NEW c \in Seq(Block), NEW k \in Nat \ {0}, NEW b \in Block
  PROVE  WriteAt(c, k, b) \in Seq(Block)
<1> DEFINE n == IF k > Len(c) THEN k ELSE Len(c)
<1>1. n \in Nat
  OBVIOUS
<1>2. \A i \in 1..n : WriteAt(c, k, b)[i] \in Block
  BY DEF WriteAt, Block
<1>3. WriteAt(c, k, b) \in [1..n -> Block]
  BY <1>2 DEF WriteAt
<1> QED
  BY <1>1, <1>3

(* A write at the end of the file keeps the rest and adds the block. *)
LEMMA WriteAtEnd ==
  ASSUME NEW c \in Seq(Block), NEW b \in Block
  PROVE  /\ Len(WriteAt(c, Len(c) + 1, b)) = Len(c) + 1
         /\ \A i \in 1..Len(c) : WriteAt(c, Len(c) + 1, b)[i] = c[i]
         /\ WriteAt(c, Len(c) + 1, b)[Len(c) + 1] = b
<1>1. Len(c) \in Nat
  OBVIOUS
<1>2. (IF Len(c) + 1 > Len(c) THEN Len(c) + 1 ELSE Len(c)) = Len(c) + 1
  BY <1>1
<1>3. WriteAt(c, Len(c) + 1, b) \in Seq(Block)
  BY <1>1, WriteAtType
<1>4. DOMAIN WriteAt(c, Len(c) + 1, b) = 1..(Len(c) + 1)
  BY <1>2 DEF WriteAt
<1> QED
  BY <1>1, <1>2, <1>3, <1>4 DEF WriteAt

LEMMA WriterFields ==
  ASSUME NEW v \in Writer
  PROVE  /\ v.ino \in Inodes /\ v.pos \in Nat \ {0}
         /\ v.rows \in Seq(Entry) /\ Len(v.rows) \in Nat
         /\ v.cuts \in Seq(Nat) /\ Len(v.cuts) \in Nat
         /\ v.pending \in Nat /\ v.seen \in SUBSET Paths
         /\ v.files \in Nat /\ v.bytes \in Nat
<1>1. /\ v.ino \in Inodes /\ v.pos \in Nat \ {0}
      /\ v.rows \in Seq(Entry) /\ v.cuts \in Seq(Nat)
      /\ v.pending \in Nat /\ v.seen \in SUBSET Paths
      /\ v.files \in Nat /\ v.bytes \in Nat
  BY DEF Writer
<1> QED
  BY <1>1

LEMMA EntryFields ==
  ASSUME NEW e \in Entry
  PROVE  e.path \in Paths /\ e.size \in Nat
  BY DataAssumption DEF Entry

LEMMA AddFields ==
  ASSUME NEW v \in Writer, NEW e \in Entry
  PROVE  /\ Add(v, e) \in Writer
         /\ Add(v, e).cuts = v.cuts /\ Add(v, e).pos = v.pos
         /\ Add(v, e).ino = v.ino /\ Add(v, e).files = v.files + 1
         /\ Add(v, e).rows = Append(v.rows, e)
         /\ Add(v, e).seen = v.seen \cup {e.path}
<1>1. Append(v.rows, e) \in Seq(Entry)
  BY WriterFields
<1>2. v.seen \cup {e.path} \in SUBSET Paths
  BY WriterFields, EntryFields
<1>3. /\ v.pending + e.size \in Nat
      /\ v.files + 1 \in Nat
      /\ v.bytes + e.size \in Nat
  BY WriterFields, EntryFields
<1>4. Add(v, e) \in Writer
  BY <1>1, <1>2, <1>3 DEF Add, Writer
<1>5. /\ Add(v, e).cuts = v.cuts
      /\ Add(v, e).pos = v.pos
      /\ Add(v, e).ino = v.ino
  BY DEF Add, Writer
<1>6. /\ Add(v, e).rows = Append(v.rows, e)
      /\ Add(v, e).files = v.files + 1
      /\ Add(v, e).seen = v.seen \cup {e.path}
  BY DEF Add, Writer
<1> QED
  BY <1>4, <1>5, <1>6

(* Where a group starts, and that it starts and ends inside the rows. *)
LEMMA CutBounds ==
  ASSUME NEW rows \in Seq(Entry), NEW cuts \in Seq(Nat), CutsInOrder(rows, cuts),
         NEW i \in 1..Len(cuts)
  PROVE  /\ GroupStart(cuts, i) \in Nat \ {0}
         /\ cuts[i] \in Nat /\ GroupStart(cuts, i) <= cuts[i]
         /\ cuts[i] <= Len(rows)
<1>1. Len(cuts) \in Nat /\ Len(rows) \in Nat
  OBVIOUS
<1>2. cuts[i] \in Nat /\ GroupStart(cuts, i) <= cuts[i] /\ cuts[i] <= Len(rows)
  BY DEF CutsInOrder
<1>3. i # 1 => cuts[i - 1] \in Nat
  BY <1>1
<1> QED
  BY <1>2, <1>3 DEF GroupStart

LEMMA LastCutBounds ==
  ASSUME NEW rows \in Seq(Entry), NEW cuts \in Seq(Nat), CutsInOrder(rows, cuts)
  PROVE  LastCut(cuts) \in 0..Len(rows)
<1>1. Len(cuts) \in Nat /\ Len(rows) \in Nat
  OBVIOUS
<1>2. CASE cuts = <<>>
  BY <1>1, <1>2 DEF LastCut
<1>3. CASE cuts # <<>>
  <2>1. Len(cuts) \in 1..Len(cuts)
    BY <1>1, <1>3
  <2>2. cuts[Len(cuts)] \in Nat /\ cuts[Len(cuts)] <= Len(rows)
    BY <2>1, CutBounds
  <2> QED
    BY <1>1, <1>3, <2>2 DEF LastCut
<1> QED
  BY <1>2, <1>3

(* A row group cut now is not empty, and not longer than one may be.      *)
LEMMA GroupEndBounds ==
  ASSUME NEW v \in Writer, CutsInOrder(v.rows, v.cuts), Buffered(v)
  PROVE  /\ LastCut(v.cuts) \in Nat
         /\ GroupEnd(v) \in (LastCut(v.cuts) + 1)..Len(v.rows)
         /\ GroupEnd(v) <= LastCut(v.cuts) + MaxRows
         /\ GroupEnd(v) # Len(v.rows) => GroupEnd(v) = LastCut(v.cuts) + MaxRows
<1>1. Len(v.rows) \in Nat /\ v.rows \in Seq(Entry) /\ v.cuts \in Seq(Nat)
  BY WriterFields
<1>2. LastCut(v.cuts) \in 0..Len(v.rows) /\ LastCut(v.cuts) < Len(v.rows)
  BY <1>1, LastCutBounds DEF Buffered
<1>3. MaxRows \in Nat \ {0}
  BY DataAssumption
<1> QED
  BY <1>1, <1>2, <1>3 DEF GroupEnd

LEMMA CutFields ==
  ASSUME NEW v \in Writer, GroupEnd(v) \in Nat
  PROVE  /\ Cut(v) \in Writer
         /\ Cut(v).rows = v.rows /\ Cut(v).files = v.files
         /\ Cut(v).seen = v.seen /\ Cut(v).ino = v.ino
         /\ Cut(v).bytes = v.bytes
         /\ Cut(v).cuts = Append(v.cuts, GroupEnd(v))
         /\ Cut(v).pos = v.pos + 1
         /\ GroupEnd(v) = Len(v.rows) => Cut(v).pending = 0
<1> DEFINE more == Append(v.cuts, GroupEnd(v))
           rest == IF GroupEnd(v) = Len(v.rows) THEN 0 ELSE v.pending
<1>1. more \in Seq(Nat) /\ rest \in Nat
  BY WriterFields
<1>2. v.pos + 1 \in Nat \ {0}
  BY WriterFields
<1>3. Cut(v) = [v EXCEPT !.pos = v.pos + 1, !.cuts = more, !.pending = rest]
  BY DEF Cut, Writer
<1> HIDE DEF more, rest
<1>4. Cut(v) \in Writer
  BY <1>1, <1>2, <1>3 DEF Writer
<1>5. /\ Cut(v).rows = v.rows /\ Cut(v).files = v.files
      /\ Cut(v).seen = v.seen /\ Cut(v).ino = v.ino
      /\ Cut(v).bytes = v.bytes
  BY <1>3 DEF Writer
<1>6. /\ Cut(v).cuts = more
      /\ Cut(v).pos = v.pos + 1
      /\ Cut(v).pending = rest
  BY <1>3 DEF Writer
<1> QED
  BY <1>4, <1>5, <1>6 DEF more, rest

(* Row groups already written stay right when rows are added. *)
LEMMA AddConsistent ==
  ASSUME NEW v, NEW c \in Seq(Block), NEW e \in Entry, Consistent(v, c)
  PROVE  Consistent(Add(v, e), c)
<1> DEFINE a == Add(v, e)
<1>1. v \in Writer
  BY DEF Consistent
<1>2. /\ v.rows \in Seq(Entry) /\ Len(v.rows) \in Nat
      /\ v.cuts \in Seq(Nat) /\ Len(v.cuts) \in Nat
  BY <1>1, WriterFields
<1>3. /\ a \in Writer /\ a.cuts = v.cuts /\ a.pos = v.pos
      /\ a.rows = Append(v.rows, e)
  BY <1>1, AddFields
<1>4. Len(a.rows) = Len(v.rows) + 1
  BY <1>2, <1>3
<1> HIDE DEF a
<1>5. ASSUME NEW i \in 1..Len(v.cuts)
      PROVE  /\ c[i] = Group(a.rows, GroupStart(a.cuts, i), a.cuts[i])
             /\ GroupStart(a.cuts, i) <= a.cuts[i] /\ a.cuts[i] <= Len(a.rows)
  <2>1. /\ GroupStart(v.cuts, i) \in Nat \ {0} /\ v.cuts[i] \in Nat
        /\ GroupStart(v.cuts, i) <= v.cuts[i] /\ v.cuts[i] <= Len(v.rows)
    BY <1>2, CutBounds DEF Consistent
  <2>2. SubSeq(Append(v.rows, e), GroupStart(v.cuts, i), v.cuts[i])
          = SubSeq(v.rows, GroupStart(v.cuts, i), v.cuts[i])
    BY <1>2, <2>1, SubSeqOfAppend
  <2>3. c[i] = Group(v.rows, GroupStart(v.cuts, i), v.cuts[i])
    BY DEF Consistent, HoldsGroups
  <2>4. a.cuts[i] <= Len(a.rows)
    BY <1>2, <1>3, <1>4, <2>1
  <2> QED
    BY <1>3, <2>1, <2>2, <2>3, <2>4 DEF Group
<1>6. CutsInOrder(a.rows, a.cuts) /\ HoldsGroups(c, a.rows, a.cuts)
  BY <1>3, <1>5 DEF CutsInOrder, HoldsGroups
<1>7. Consistent(a, c)
  BY <1>3, <1>6 DEF Consistent
<1> QED
  BY <1>7 DEF a

(* A further cut starts after the last one and moves no earlier group.     *)
LEMMA FurtherCut ==
  ASSUME NEW cuts \in Seq(Nat), NEW n \in Nat
  PROVE  LET more == Append(cuts, n) IN
         /\ Len(more) = Len(cuts) + 1 /\ more[Len(cuts) + 1] = n
         /\ GroupStart(more, Len(cuts) + 1) = LastCut(cuts) + 1
         /\ \A i \in 1..Len(cuts) :
              more[i] = cuts[i] /\ GroupStart(more, i) = GroupStart(cuts, i)
         /\ LastCut(more) = n
<1> DEFINE more == Append(cuts, n)
           k == Len(cuts)
<1>1. /\ k \in Nat /\ Len(more) = k + 1 /\ more[k + 1] = n
      /\ \A i \in 1..k : more[i] = cuts[i]
      /\ cuts = <<>> <=> k = 0
      /\ more # <<>>
  OBVIOUS
<1> HIDE DEF more, k
<1>2. LastCut(cuts) = IF k = 0 THEN 0 ELSE cuts[k]
  BY <1>1 DEF LastCut, k
<1>3. GroupStart(more, k + 1) = LastCut(cuts) + 1
  <2>1. CASE k = 0
    BY <1>2, <2>1 DEF GroupStart
  <2>2. CASE k # 0
    <3>1. k + 1 # 1 /\ (k + 1) - 1 = k /\ k \in 1..k
      BY <1>1, <2>2
    <3> QED
      BY <1>1, <1>2, <2>2, <3>1 DEF GroupStart
  <2> QED
    BY <2>1, <2>2
<1>4. ASSUME NEW i \in 1..k PROVE GroupStart(more, i) = GroupStart(cuts, i)
  <2>1. i # 1 => i - 1 \in 1..k
    BY <1>1
  <2> QED
    BY <1>1, <2>1 DEF GroupStart
<1>5. LastCut(more) = n
  BY <1>1 DEF LastCut
<1> QED
  BY <1>1, <1>3, <1>4, <1>5 DEF more, k

LEMMA NextGroupStart ==
  ASSUME NEW cuts \in Seq(Nat)
  PROVE  GroupStart(cuts, Len(cuts) + 1) = LastCut(cuts) + 1
<1>1. Len(cuts) \in Nat /\ (cuts = <<>> <=> Len(cuts) = 0)
  OBVIOUS
<1>2. CASE cuts = <<>>
  BY <1>1, <1>2 DEF GroupStart, LastCut
<1>3. CASE cuts # <<>>
  <2>1. Len(cuts) + 1 # 1 /\ (Len(cuts) + 1) - 1 = Len(cuts)
    BY <1>1, <1>3
  <2> QED
    BY <1>3, <2>1 DEF GroupStart, LastCut
<1> QED
  BY <1>2, <1>3

(* Cutting a row group keeps the file consistent. *)
LEMMA CutConsistent ==
  ASSUME NEW v, NEW c \in Seq(Block), Consistent(v, c), Buffered(v)
  PROVE  /\ Consistent(Cut(v), CutBlock(v, c))
         /\ CutBlock(v, c) \in Seq(Block)
         /\ Cut(v).rows = v.rows /\ Cut(v).files = v.files
         /\ Cut(v).seen = v.seen /\ Cut(v).ino = v.ino
<1> DEFINE n == Len(v.cuts)
           a == Cut(v)
           b == Group(v.rows, LastCut(v.cuts) + 1, GroupEnd(v))
           d == CutBlock(v, c)
           last == GroupEnd(v)
<1>1. v \in Writer
  BY DEF Consistent
<1>2. /\ v.rows \in Seq(Entry) /\ Len(v.rows) \in Nat
      /\ v.cuts \in Seq(Nat) /\ n \in Nat
  BY <1>1, WriterFields
<1>3. v.pos = Len(c) + 1 /\ Len(c) = n
  BY DEF Consistent
<1>4. /\ LastCut(v.cuts) \in Nat /\ last \in Nat
      /\ LastCut(v.cuts) + 1 <= last /\ last <= Len(v.rows)
  BY <1>1, <1>2, GroupEndBounds DEF Consistent
<1> HIDE DEF last
<1>5. /\ a \in Writer /\ a.rows = v.rows /\ a.files = v.files
      /\ a.seen = v.seen /\ a.ino = v.ino
      /\ a.cuts = Append(v.cuts, last) /\ a.pos = v.pos + 1
  BY <1>1, <1>4, CutFields DEF last
<1> HIDE DEF a
<1>6. /\ Len(a.cuts) = n + 1 /\ a.cuts[n + 1] = last
      /\ GroupStart(a.cuts, n + 1) = LastCut(v.cuts) + 1
      /\ \A i \in 1..n : /\ a.cuts[i] = v.cuts[i]
                         /\ GroupStart(a.cuts, i) = GroupStart(v.cuts, i)
  BY <1>2, <1>4, <1>5, FurtherCut
<1>7. b \in Block
  <2>1. SubSeq(v.rows, LastCut(v.cuts) + 1, last) \in Seq(Entry)
    BY <1>2, <1>4
  <2> QED
    BY <2>1 DEF Group, Block, last
<1>8. /\ d \in Seq(Block) /\ Len(d) = n + 1
      /\ \A i \in 1..n : d[i] = c[i]
      /\ d[n + 1] = b
  <2>1. d = WriteAt(c, Len(c) + 1, b)
    BY <1>3 DEF CutBlock
  <2> HIDE DEF b, d
  <2>2. /\ Len(d) = Len(c) + 1
        /\ \A i \in 1..Len(c) : d[i] = c[i]
        /\ d[Len(c) + 1] = b
    BY <2>1, <1>7, WriteAtEnd
  <2>3. d \in Seq(Block)
    BY <2>1, <1>2, <1>3, <1>7, WriteAtType
  <2> QED
    BY <1>3, <2>2, <2>3
<1>9. b = Group(a.rows, GroupStart(a.cuts, n + 1), a.cuts[n + 1])
  BY <1>5, <1>6 DEF last
<1> HIDE DEF b, d
<1>10. ASSUME NEW i \in 1..(n + 1)
       PROVE  /\ d[i] = Group(a.rows, GroupStart(a.cuts, i), a.cuts[i])
              /\ GroupStart(a.cuts, i) <= a.cuts[i] /\ a.cuts[i] <= Len(a.rows)
  <2>1. CASE i = n + 1
    BY <2>1, <1>4, <1>5, <1>6, <1>8, <1>9
  <2>2. CASE i # n + 1
    <3>1. i \in 1..n
      BY <2>2, <1>2
    <3>2. /\ c[i] = Group(v.rows, GroupStart(v.cuts, i), v.cuts[i])
          /\ GroupStart(v.cuts, i) <= v.cuts[i] /\ v.cuts[i] <= Len(v.rows)
      BY <3>1 DEF Consistent, HoldsGroups, CutsInOrder
    <3> QED
      BY <3>1, <3>2, <1>5, <1>6, <1>8
  <2> QED
    BY <2>1, <2>2
<1>11. CutsInOrder(a.rows, a.cuts) /\ HoldsGroups(d, a.rows, a.cuts)
  BY <1>6, <1>10 DEF CutsInOrder, HoldsGroups
<1>12. Consistent(a, d)
  BY <1>2, <1>3, <1>5, <1>6, <1>8, <1>11 DEF Consistent
<1> QED
  BY <1>5, <1>8, <1>12 DEF a, d

(* A row just added is buffered.                                           *)
LEMMA AddBuffered ==
  ASSUME NEW v, NEW c \in Seq(Block), NEW e \in Entry, Consistent(v, c)
  PROVE  Buffered(Add(v, e))
<1>1. /\ v \in Writer /\ v.rows \in Seq(Entry) /\ v.cuts \in Seq(Nat)
      /\ Len(v.rows) \in Nat /\ CutsInOrder(v.rows, v.cuts)
  BY WriterFields DEF Consistent
<1>2. Add(v, e).cuts = v.cuts /\ Add(v, e).rows = Append(v.rows, e)
  BY <1>1, AddFields
<1>3. Len(Append(v.rows, e)) = Len(v.rows) + 1
  BY <1>1
<1>4. LastCut(v.cuts) \in 0..Len(v.rows)
  BY <1>1, LastCutBounds
<1> QED
  BY <1>1, <1>2, <1>3, <1>4 DEF Buffered

LEMMA NothingBuffered ==
  ASSUME NEW v, NEW c, Consistent(v, c), ~Buffered(v)
  PROVE  LastCut(v.cuts) = Len(v.rows)
<1>1. /\ v.rows \in Seq(Entry) /\ v.cuts \in Seq(Nat)
      /\ Len(v.rows) \in Nat /\ CutsInOrder(v.rows, v.cuts)
  BY WriterFields DEF Consistent
<1>2. LastCut(v.cuts) \in 0..Len(v.rows)
  BY <1>1, LastCutBounds
<1> QED
  BY <1>1, <1>2 DEF Buffered

(* Closing a writer that has cut its last row makes a whole shard. *)
LEMMA FooterWhole ==
  ASSUME NEW v, NEW c \in Seq(Block), Consistent(v, c),
         LastCut(v.cuts) = Len(v.rows)
  PROVE  LET d == WriteAt(c, v.pos, Footer(v.rows, v.cuts)) IN
           d \in Seq(Block) /\ Whole(d) /\ RowsOf(d) = v.rows
<1> DEFINE b == Footer(v.rows, v.cuts)
           d == WriteAt(c, v.pos, b)
<1>1. /\ v.rows \in Seq(Entry) /\ v.cuts \in Seq(Nat)
      /\ v.pos = Len(c) + 1 /\ Len(c) = Len(v.cuts) /\ Len(c) \in Nat
  BY DEF Consistent, Writer
<1>2. /\ b \in Block /\ b.kind = "footer" /\ b.rows = v.rows /\ b.cuts = v.cuts
  BY <1>1 DEF Footer, Block
<1>3. /\ d \in Seq(Block) /\ Len(d) = Len(c) + 1
      /\ \A i \in 1..Len(c) : d[i] = c[i]
      /\ d[Len(c) + 1] = b
  <2> HIDE DEF b
  <2>1. WriteAt(c, Len(c) + 1, b) \in Seq(Block)
    BY <1>1, <1>2, WriteAtType
  <2> QED
    BY <2>1, <1>1, <1>2, WriteAtEnd
<1>4. HoldsGroups(d, v.rows, v.cuts)
  BY <1>1, <1>3 DEF Consistent, HoldsGroups
<1>5. d # <<>>
  BY <1>1, <1>3
<1> HIDE DEF b, d
<1>6. d \in Seq(Block) /\ Whole(d) /\ RowsOf(d) = v.rows
  BY <1>1, <1>2, <1>3, <1>4, <1>5 DEF Whole, RowsOf
<1> QED
  BY <1>6 DEF b, d

(* Taking the next entry keeps a writer in step with its input. *)
LEMMA AddFollows ==
  ASSUME NEW v \in Writer, NEW input \in Seq(Entry), Follows(v, input),
         v.files < Len(input), input[v.files + 1].path \notin v.seen
  PROVE  Follows(Add(v, input[v.files + 1]), input)
<1> DEFINE e == input[v.files + 1]
           a == Add(v, e)
<1>1. /\ v.files \in Nat /\ v.rows \in Seq(Entry) /\ Len(v.rows) \in Nat
      /\ Len(input) \in Nat
  BY WriterFields
<1>2. e \in Entry
  BY <1>1
<1>3. /\ a.files = v.files + 1 /\ a.rows = Append(v.rows, e)
      /\ a.seen = v.seen \cup {e.path}
  BY <1>2, AddFields
<1> HIDE DEF a
<1>4. a.rows = SubSeq(input, 1, a.files)
  BY <1>1, <1>3, SubSeqExtend DEF Follows
<1> HIDE DEF e
<1>5. /\ Len(a.rows) = Len(v.rows) + 1
      /\ \A i \in 1..Len(v.rows) : a.rows[i] = v.rows[i]
      /\ a.rows[Len(v.rows) + 1] = e
  BY <1>1, <1>2, <1>3
<1>6. 1..Len(a.rows) = 1..Len(v.rows) \cup {Len(v.rows) + 1}
  BY <1>1, <1>5
<1>7. v.seen = {v.rows[i].path : i \in 1..Len(v.rows)} /\ e.path \notin v.seen
  BY DEF Follows, e
<1>8. a.seen = {a.rows[i].path : i \in 1..Len(a.rows)}
  BY <1>3, <1>5, <1>6, <1>7
<1>9. Distinct(a.rows)
  <2> SUFFICES ASSUME NEW i \in 1..Len(a.rows), NEW j \in 1..Len(a.rows),
                      a.rows[i].path = a.rows[j].path
               PROVE  i = j
    BY DEF Distinct
  <2>1. \A k \in 1..Len(v.rows) : a.rows[k].path # e.path
    BY <1>5, <1>7
  <2>2. CASE i \in 1..Len(v.rows) /\ j \in 1..Len(v.rows)
    BY <2>2, <1>5 DEF Follows, Distinct
  <2>3. CASE ~(i \in 1..Len(v.rows) /\ j \in 1..Len(v.rows))
    BY <2>1, <2>3, <1>5, <1>6
  <2> QED
    BY <2>2, <2>3
<1>10. a.files <= Len(input)
  BY <1>1, <1>3
<1>11. Follows(a, input)
  BY <1>4, <1>8, <1>9, <1>10 DEF Follows
<1> QED
  BY <1>11 DEF a, e
-----------------------------------------------------------------------------
(* Content offsets: what the recursion over the rows computes, and that it *)
(* never decreases.                                                        *)

(* The recursion has a solution, so that Offsets is one.                   *)
LEMMA OffsetsRecursion ==
  ASSUME NEW rows \in Seq(Entry)
  PROVE  /\ Offsets(rows) \in [0..Len(rows) -> Nat]
         /\ Offsets(rows)[0] = 0
         /\ \A n \in 1..Len(rows) :
              Offsets(rows)[n] = Offsets(rows)[n - 1] + rows[n].size
<1> DEFINE N == Len(rows)
           Sum(g, n) == /\ g \in [0..n -> Nat] /\ g[0] = 0
                        /\ \A m \in 1..n : g[m] = g[m - 1] + rows[m].size
           S == {n \in 0..N : \E g : Sum(g, n)}
           P(f) == f = [n \in 0..N |-> IF n = 0 THEN 0 ELSE f[n - 1] + rows[n].size]
<1>1. N \in Nat /\ \A n \in 1..N : rows[n].size \in Nat
  BY EntryFields
<1>2. 0 \in S
  <2>1. Sum([n \in 0..0 |-> 0], 0)
    OBVIOUS
  <2>2. 0 \in 0..N
    BY <1>1
  <2> HIDE DEF Sum, N
  <2> QED
    BY <2>1, <2>2
<1>3. ASSUME NEW m \in 0..(N - 1), m \in S PROVE m + 1 \in S
  <2>1. PICK g : Sum(g, m)
    BY <1>3
  <2> DEFINE h == [n \in 0..(m + 1) |->
                     IF n = m + 1 THEN g[m] + rows[m + 1].size ELSE g[n]]
  <2>2. m + 1 \in 1..N /\ m \in Nat /\ m + 1 \in 0..N /\ g[m] \in Nat
    BY <1>1, <2>1
  <2>3. h \in [0..(m + 1) -> Nat] /\ h[0] = 0
    BY <1>1, <2>1, <2>2
  <2>4. ASSUME NEW k \in 1..(m + 1) PROVE h[k] = h[k - 1] + rows[k].size
    <3>1. CASE k = m + 1
      BY <2>2, <3>1
    <3>2. CASE k # m + 1
      <4>1. k \in 1..m /\ k \in 0..(m + 1) /\ k - 1 \in 0..(m + 1) /\ k - 1 # m + 1
        BY <2>2, <3>2
      <4> QED
        BY <2>1, <3>2, <4>1
    <3> QED
      BY <3>1, <3>2
  <2> HIDE DEF h
  <2>5. Sum(h, m + 1)
    BY <2>3, <2>4
  <2> QED
    BY <2>2, <2>5
<1>4. PICK g : Sum(g, N)
  <2> HIDE DEF S, N, Sum
  <2>1. 0..N \subseteq S
    BY <1>1, <1>2, <1>3, Induction
  <2>2. N \in S
    BY <1>1, <2>1
  <2> QED
    BY <2>2 DEF S
<1>5. P(g)
  <2>1. \A n \in 0..N : n # 0 => n \in 1..N
    BY <1>1
  <2> QED
    BY <1>4, <2>1
<1>6. Offsets(rows) = CHOOSE f : P(f)
  BY DEF Offsets
<1> HIDE DEF P
<1>7. P(Offsets(rows))
  BY <1>5, <1>6
<1> DEFINE f == Offsets(rows)
           R == {n \in 0..N : f[n] \in Nat}
<1>8. /\ f[0] = 0
      /\ \A n \in 1..N : f[n] = f[n - 1] + rows[n].size
      /\ f = [n \in 0..N |-> f[n]]
  <2>1. f = [n \in 0..N |-> IF n = 0 THEN 0 ELSE f[n - 1] + rows[n].size]
    BY <1>7 DEF P
  <2>2. 0 \in 0..N /\ \A n \in 1..N : n \in 0..N /\ n # 0
    BY <1>1
  <2> HIDE DEF f, N
  <2> QED
    BY <2>1, <2>2
<1> HIDE DEF f
<1>9. 0..N \subseteq R
  <2>1. 0 \in R
    BY <1>1, <1>8
  <2>2. ASSUME NEW m \in 0..(N - 1), m \in R PROVE m + 1 \in R
    <3>1. m + 1 \in 1..N /\ m + 1 \in 0..N /\ (m + 1) - 1 = m
      BY <1>1
    <3> HIDE DEF N
    <3>2. f[m + 1] = f[m] + rows[m + 1].size
      BY <1>8, <3>1
    <3> QED
      BY <1>1, <2>2, <3>1, <3>2
  <2> HIDE DEF R, N
  <2> QED
    BY <1>1, <2>1, <2>2, Induction
<1>10. f \in [0..N -> Nat]
  BY <1>8, <1>9
<1> QED
  BY <1>8, <1>10 DEF f

LEMMA OffsetsGrow ==
  ASSUME NEW rows \in Seq(Entry), NEW i \in 0..Len(rows), NEW j \in i..Len(rows)
  PROVE  /\ Offsets(rows)[i] \in Nat /\ Offsets(rows)[j] \in Nat
         /\ Offsets(rows)[i] <= Offsets(rows)[j]
<1> DEFINE N == Len(rows)
           f == Offsets(rows)
           S == {n \in 0..N : i <= n => f[i] <= f[n]}
<1>1. /\ N \in Nat /\ f \in [0..N -> Nat]
      /\ \A n \in 1..N : f[n] = f[n - 1] + rows[n].size /\ rows[n].size \in Nat
  BY OffsetsRecursion, EntryFields
<1> HIDE DEF f, N
<1>2. f[i] \in Nat /\ f[j] \in Nat /\ j \in 0..N
  <2>1. i \in 0..N /\ j \in 0..N
    BY <1>1 DEF N
  <2> QED
    BY <1>1, <2>1
<1>3. 0 \in S
  BY <1>1, <1>2 DEF N
<1>4. ASSUME NEW m \in 0..(N - 1), m \in S PROVE m + 1 \in S
  <2>1. /\ m + 1 \in 1..N /\ m + 1 \in 0..N /\ m \in 0..N /\ (m + 1) - 1 = m
    BY <1>1
  <2>2. f[m + 1] = f[m] + rows[m + 1].size /\ rows[m + 1].size \in Nat /\ f[m] \in Nat
    BY <1>1, <2>1
  <2>3. CASE i = m + 1
    BY <1>2, <2>1, <2>3
  <2>4. CASE i # m + 1
    BY <1>2, <1>4, <2>1, <2>2, <2>4 DEF N
  <2> QED
    BY <2>3, <2>4
<1>5. 0..N \subseteq S
  <2> HIDE DEF S
  <2> QED
    BY <1>1, <1>3, <1>4, Induction
<1>6. f[i] <= f[j]
  BY <1>2, <1>5
<1> QED
  BY <1>2, <1>6 DEF f

(* A further row leaves the offsets of the rows before it alone.           *)
LEMMA OffsetsOfAppend ==
  ASSUME NEW rows \in Seq(Entry), NEW e \in Entry
  PROVE  /\ \A n \in 0..Len(rows) : Offsets(Append(rows, e))[n] = Offsets(rows)[n]
         /\ Total(Append(rows, e)) = Total(rows) + e.size
<1> DEFINE N == Len(rows)
           more == Append(rows, e)
           f == Offsets(rows)
           g == Offsets(more)
           S == {n \in 0..N : g[n] = f[n]}
<1>1. /\ N \in Nat /\ more \in Seq(Entry) /\ Len(more) = N + 1
      /\ more[N + 1] = e /\ \A n \in 1..N : more[n] = rows[n]
  OBVIOUS
<1> HIDE DEF more
<1>2. /\ f \in [0..N -> Nat] /\ f[0] = 0
      /\ \A n \in 1..N : f[n] = f[n - 1] + rows[n].size
  BY OffsetsRecursion
<1>3. /\ g[0] = 0
      /\ \A n \in 1..(N + 1) : g[n] = g[n - 1] + more[n].size
  BY <1>1, OffsetsRecursion
<1> HIDE DEF f, g, N
<1>4. 0 \in S
  BY <1>1, <1>2, <1>3
<1>5. ASSUME NEW m \in 0..(N - 1), m \in S PROVE m + 1 \in S
  <2>1. /\ m + 1 \in 1..N /\ m + 1 \in 0..N /\ m + 1 \in 1..(N + 1)
        /\ (m + 1) - 1 = m
    BY <1>1
  <2>2. f[m + 1] = f[m] + rows[m + 1].size /\ g[m + 1] = g[m] + more[m + 1].size
    BY <1>2, <1>3, <2>1
  <2> QED
    BY <1>1, <1>5, <2>1, <2>2
<1>6. 0..N \subseteq S
  <2> HIDE DEF S
  <2> QED
    BY <1>1, <1>4, <1>5, Induction
<1>7. g[N + 1] = f[N] + e.size
  <2>1. N \in 0..N /\ N + 1 \in 1..(N + 1) /\ (N + 1) - 1 = N
    BY <1>1
  <2>2. g[N + 1] = g[N] + more[N + 1].size /\ g[N] = f[N]
    BY <1>3, <1>6, <2>1
  <2> QED
    BY <1>1, <2>2
<1> QED
  BY <1>1, <1>6, <1>7 DEF f, g, more, N, Total
-----------------------------------------------------------------------------
(* What the invariant says about names and files. *)

LEMMA CallFields ==
  ASSUME CallsOK, NEW p \in Packers, Live(p)
  PROVE  /\ call[p] \in Calls /\ call[p].out \in Outs
         /\ call[p].input \in Inputs /\ call[p].input \in Seq(Entry)
         /\ Tmp(p) \in Names /\ Tmp(p) \notin Outs
<1>1. call[p] \in Calls
  BY DEF CallsOK
<1>2. call[p].out \in Outs /\ call[p].input \in Inputs
  BY <1>1 DEF Calls
<1> QED
  BY <1>1, <1>2, DataAssumption, NamesAssumption DEF Tmp

(* No two writers share a file. *)
LEMMA DistinctFiles ==
  ASSUME CallsOK, Exclusive, OneName, Handles, TypeOK,
         NEW p \in Packers, NEW q \in Packers, p # q, Open(p), Open(q)
  PROVE  w[p].ino # w[q].ino /\ Tmp(p) # Tmp(q) /\ call[p].out # call[q].out
<1>1. Live(p) /\ Live(q)
  BY DEF Open, Live
<1>2. call[p].out # call[q].out
  BY <1>1 DEF Exclusive
<1>3. /\ call[p].out \in Outs /\ call[q].out \in Outs
      /\ Tmp(p) \in Names \ Outs /\ Tmp(q) \in Names \ Outs
  BY <1>1, CallFields
<1>4. Tmp(p) # Tmp(q)
  BY <1>2, <1>3, NamesAssumption DEF Tmp
<1>5. w[p].ino \in Inodes /\ w[q].ino \in Inodes
  BY WriterFields DEF CallsOK
<1>6. /\ link[Tmp(p)] = w[p].ino \/ link[call[p].out] = w[p].ino
      /\ link[Tmp(q)] = w[q].ino \/ link[call[q].out] = w[q].ino
  BY DEF Handles
<1> QED
  BY <1>2, <1>3, <1>4, <1>5, <1>6, NamesAssumption DEF OneName, Names

(* A file that is still being written is under no output. *)
LEMMA NotUnderOutput ==
  ASSUME CallsOK, OneName, Handles, NEW p \in Packers, Open(p), ~Published(p),
         NEW o \in Outs
  PROVE  link[o] # w[p].ino
<1>1. Tmp(p) \in Names /\ Tmp(p) \notin Outs
  BY CallFields DEF Open, Live
<1>2. w[p].ino \in Inodes
  BY WriterFields DEF CallsOK
<1>3. link[Tmp(p)] = w[p].ino
  BY DEF Handles
<1> QED
  BY <1>1, <1>2, <1>3, NamesAssumption DEF OneName, Names
-----------------------------------------------------------------------------
(* Every action preserves the invariant. *)

THEOREM Initially == Init => Inductive
<1> SUFFICES ASSUME Init PROVE Inductive
  OBVIOUS
<1> USE DEF Init
<1>1. TypeOK
  BY DEF TypeOK
<1>2. CallsOK /\ Exclusive /\ Handles /\ Contents
  BY DEF CallsOK, Exclusive, Handles, Contents, ContentsOf, Live, Open, Published
<1>3. OneName /\ OutAlwaysWhole /\ TmpHasOwner
  BY NamesAssumption DEF OneName, OutAlwaysWhole, TmpHasOwner, Names
<1> QED
  BY <1>1, <1>2, <1>3 DEF Inductive

(* Appending, flushing and closing: packer p writes d to its own file and  *)
(* goes on with writer v.                                                  *)
LEMMA WriteStep ==
  ASSUME Inductive, NEW p \in Packers,
         pc[p] \in {"append", "flush", "finish", "close"},
         NEW v \in Writer, v.ino = w[p].ino, NEW d \in Seq(Block),
         NEW s \in {"append", "flush", "finish", "close", "rename"},
         UNCHANGED <<link, call, result, orphaned>>,
         data' = [data EXCEPT ![w[p].ino] = d],
         w' = [w EXCEPT ![p] = v],
         pc' = [pc EXCEPT ![p] = s],
         s # "rename" => Consistent(v, d) /\ Follows(v, call[p].input),
         s \in {"flush", "finish"} => Buffered(v),
         s \in {"finish", "close"} => /\ v.files = Len(call[p].input)
                                      /\ call[p].input # <<>>,
         s = "close" => LastCut(v.cuts) = Len(v.rows),
         s = "rename" => /\ Stores(d, call[p].input)
                         /\ v.files = Len(call[p].input)
  PROVE  Inductive'
<1> USE DEF Inductive
<1>1. Open(p) /\ Live(p) /\ ~Published(p)
  BY DEF Open, Live, Published
<1>2. w[p].ino \in Inodes
  BY <1>1, WriterFields DEF CallsOK
<1>3. \A q \in Packers : /\ Live(q)' <=> Live(q)
                         /\ Open(q)' <=> Open(q)
                         /\ Published(q)' <=> Published(q)
                         /\ Tmp(q)' = Tmp(q)
                         /\ Open(q) => w'[q].ino = w[q].ino
  BY <1>1 DEF Live, Open, Published, Tmp, TypeOK
<1>4. TypeOK'
  BY <1>2 DEF TypeOK
<1>5. CallsOK'
  <2>1. ASSUME NEW q \in Packers, Open(q) PROVE w'[q] \in Writer
    BY <2>1 DEF CallsOK, TypeOK
  <2>2. ASSUME NEW q \in Packers, result[q] = "ok" PROVE pc'[q] = "drop"
    BY <2>2 DEF CallsOK, TypeOK
  <2> QED
    BY <1>3, <2>1, <2>2 DEF CallsOK
<1>6. Exclusive' /\ OneName'
  BY <1>3 DEF Exclusive, OneName
<1>7. Handles'
  BY <1>3 DEF Handles
<1>8. Contents'
  <2> SUFFICES ASSUME NEW q \in Packers, Open(q)
               PROVE  ContentsOf(q)'
    BY <1>3 DEF Contents, ContentsOf, Open, Published
  <2>1. CASE q = p
    <3>1. w'[q] = v /\ pc'[q] = s /\ data'[v.ino] = d /\ call'[q] = call[p]
      BY <2>1, <1>2 DEF TypeOK
    <3> QED
      BY <3>1 DEF ContentsOf, Published
  <2>2. CASE q # p
    <3>1. w[q].ino # w[p].ino
      BY <2>2, <1>1, DistinctFiles
    <3>2. w[q].ino \in Inodes
      BY WriterFields DEF CallsOK
    <3>3. /\ w'[q] = w[q] /\ pc'[q] = pc[q] /\ call'[q] = call[q]
          /\ data'[w[q].ino] = data[w[q].ino] /\ result'[q] = result[q]
      BY <2>2, <3>1, <3>2 DEF TypeOK
    <3> QED
      BY <3>3 DEF Contents, ContentsOf, Published
  <2> QED
    BY <2>1, <2>2
<1>9. OutAlwaysWhole'
  <2> SUFFICES ASSUME NEW o \in Outs, link[o] # NoFile
               PROVE  Whole(data'[link[o]])
    BY DEF OutAlwaysWhole
  <2>1. link[o] # w[p].ino /\ link[o] \in Inodes
    BY <1>1, NotUnderOutput DEF TypeOK, Names
  <2>2. data'[link[o]] = data[link[o]]
    BY <2>1 DEF TypeOK
  <2> QED
    BY <2>2 DEF OutAlwaysWhole
<1>10. TmpHasOwner'
  BY <1>3 DEF TmpHasOwner
<1> QED
  BY <1>4, <1>5, <1>6, <1>7, <1>8, <1>9, <1>10

LEMMA AppendStep ==
  ASSUME Inductive, NEW p \in Packers, AppendRow(p)
  PROVE  Inductive'
<1> DEFINE e == NextEntry(p)
           c == data[w[p].ino]
           a == Add(w[p], e)
           s == IF a.pending >= MaxPending THEN "flush" ELSE "append"
<1>1. pc[p] = "append" /\ Open(p) /\ Live(p)
  BY DEF AppendRow, Open, Live
<1>2. /\ w[p] \in Writer /\ w[p].ino \in Inodes /\ c \in Seq(Block)
      /\ w[p].files \in Nat
  BY <1>1, WriterFields DEF Inductive, CallsOK, TypeOK
<1>3. call[p].input \in Seq(Entry)
  BY <1>1, CallFields DEF Inductive
<1>4. Consistent(w[p], c) /\ Follows(w[p], call[p].input)
  BY <1>1 DEF Inductive, Contents, ContentsOf
<1>5. w[p].files < Len(call[p].input) /\ e.path \notin w[p].seen
  BY DEF AppendRow, MoreInput
<1>6. e \in Entry
  BY <1>2, <1>3, <1>5 DEF NextEntry
<1>7. a \in Writer /\ a.ino = w[p].ino /\ Consistent(a, c)
  BY <1>2, <1>4, <1>6, AddFields, AddConsistent
<1>8. Follows(a, call[p].input)
  BY <1>2, <1>3, <1>4, <1>5, AddFollows DEF NextEntry
<1>9. Buffered(a)
  BY <1>2, <1>4, <1>6, AddBuffered
<1>10. /\ w' = [w EXCEPT ![p] = a] /\ data' = [data EXCEPT ![w[p].ino] = c]
       /\ pc' = [pc EXCEPT ![p] = s] /\ UNCHANGED <<link, call, result, orphaned>>
  BY <1>1, <1>2 DEF AppendRow, Inductive, TypeOK
<1>11. s \in {"flush", "append"}
  OBVIOUS
<1> HIDE DEF a, c, s
<1> QED
  BY <1>1, <1>2, <1>7, <1>8, <1>9, <1>10, <1>11, WriteStep

(* A row group of a flush that goes on, or is complete.                    *)
LEMMA GroupStep ==
  ASSUME Inductive, NEW p \in Packers, WriteGroup(p)
  PROVE  Inductive'
<1> DEFINE c == data[w[p].ino]
           v == Cut(w[p])
           d == CutBlock(w[p], c)
           s == IF Buffered(v) THEN pc[p]
                ELSE IF pc[p] = "flush" THEN "append" ELSE "close"
<1>1. pc[p] \in {"flush", "finish"} /\ Open(p) /\ Live(p)
  BY DEF WriteGroup, Open, Live
<1>2. w[p] \in Writer /\ w[p].ino \in Inodes /\ c \in Seq(Block)
  BY <1>1, WriterFields DEF Inductive, CallsOK, TypeOK
<1>3. /\ Consistent(w[p], c) /\ Follows(w[p], call[p].input) /\ Buffered(w[p])
      /\ pc[p] = "finish" =>
           w[p].files = Len(call[p].input) /\ call[p].input # <<>>
  BY <1>1 DEF Inductive, Contents, ContentsOf
<1>4. /\ w' = [w EXCEPT ![p] = v] /\ data' = [data EXCEPT ![w[p].ino] = d]
      /\ pc' = [pc EXCEPT ![p] = s]
      /\ UNCHANGED <<link, call, result, orphaned>>
  BY <1>1 DEF WriteGroup, Inductive, TypeOK
<1>5. /\ d \in Seq(Block) /\ Consistent(v, d) /\ v.ino = w[p].ino
      /\ v.rows = w[p].rows /\ v.files = w[p].files /\ v.seen = w[p].seen
  BY <1>2, <1>3, CutConsistent
<1> HIDE DEF v, d
<1>6. v \in Writer /\ Follows(v, call[p].input)
  BY <1>3, <1>5 DEF Consistent, Follows
<1>7. ~Buffered(v) => LastCut(v.cuts) = Len(v.rows)
  BY <1>5, <1>6, NothingBuffered
<1>8. /\ s \in {"append", "flush", "finish", "close"}
      /\ s \in {"flush", "finish"} => Buffered(v)
      /\ s \in {"finish", "close"} => pc[p] = "finish"
      /\ s = "close" => ~Buffered(v)
  BY <1>1
<1> HIDE DEF c, s
<1> QED
  BY <1>1, <1>3, <1>4, <1>5, <1>6, <1>7, <1>8, WriteStep

LEMMA FinishStep ==
  ASSUME Inductive, NEW p \in Packers, FinishFlush(p)
  PROVE  Inductive'
<1> DEFINE c == data[w[p].ino]
           s == IF Buffered(w[p]) THEN "finish" ELSE "close"
<1>1. pc[p] = "append" /\ Open(p) /\ Live(p)
  BY DEF FinishFlush, Open, Live
<1>2. /\ w[p] \in Writer /\ w[p].ino \in Inodes /\ c \in Seq(Block)
      /\ w[p].files \in Nat
  BY <1>1, WriterFields DEF Inductive, CallsOK, TypeOK
<1>3. call[p].input \in Seq(Entry) /\ call[p] \in Calls
  BY <1>1, CallFields DEF Inductive
<1>4. Consistent(w[p], c) /\ Follows(w[p], call[p].input)
  BY <1>1 DEF Inductive, Contents, ContentsOf
<1>5. w[p].files = Len(call[p].input)
  BY <1>2, <1>3, <1>4 DEF FinishFlush, MoreInput, Follows
<1>6. call[p].input # <<>>
  <2>1. CASE call[p].mode = "pairs"
    BY <1>1, <2>1 DEF Inductive, CallsOK
  <2>2. CASE call[p].mode = "archive"
    BY <1>5, <2>2, EmptySeq DEF FinishFlush
  <2> QED
    BY <1>3, <2>1, <2>2 DEF Calls, Modes
<1>7. /\ w' = [w EXCEPT ![p] = w[p]] /\ data' = [data EXCEPT ![w[p].ino] = c]
      /\ pc' = [pc EXCEPT ![p] = s]
      /\ UNCHANGED <<link, call, result, orphaned>>
  BY <1>1, <1>2 DEF FinishFlush, Inductive, TypeOK
<1>8. ~Buffered(w[p]) => LastCut(w[p].cuts) = Len(w[p].rows)
  BY <1>2, <1>4, NothingBuffered
<1>9. /\ s \in {"finish", "close"}
      /\ s = "finish" => Buffered(w[p])
      /\ s = "close" => ~Buffered(w[p])
  OBVIOUS
<1> HIDE DEF c, s
<1> QED
  BY <1>1, <1>2, <1>4, <1>5, <1>6, <1>7, <1>8, <1>9, WriteStep

LEMMA CloseStep ==
  ASSUME Inductive, NEW p \in Packers, Close(p)
  PROVE  Inductive'
<1> DEFINE c == data[w[p].ino]
           d == WriteAt(c, w[p].pos, Footer(w[p].rows, w[p].cuts))
<1>1. pc[p] = "close" /\ Open(p) /\ Live(p)
  BY DEF Close, Open, Live
<1>2. w[p] \in Writer /\ w[p].ino \in Inodes /\ c \in Seq(Block)
  BY <1>1, WriterFields DEF Inductive, CallsOK, TypeOK
<1>3. call[p].input \in Seq(Entry)
  BY <1>1, CallFields DEF Inductive
<1>4. /\ Consistent(w[p], c) /\ Follows(w[p], call[p].input)
      /\ LastCut(w[p].cuts) = Len(w[p].rows)
      /\ w[p].files = Len(call[p].input) /\ call[p].input # <<>>
  BY <1>1 DEF Inductive, Contents, ContentsOf
<1>5. w[p].rows = call[p].input /\ Distinct(call[p].input)
  BY <1>3, <1>4, SubSeqFull DEF Follows
<1>6. /\ data' = [data EXCEPT ![w[p].ino] = d]
      /\ w' = [w EXCEPT ![p] = w[p]]
      /\ pc' = [pc EXCEPT ![p] = "rename"]
      /\ UNCHANGED <<link, call, result, orphaned>>
  BY DEF Close, Inductive, TypeOK
<1>7. d \in Seq(Block) /\ Whole(d) /\ RowsOf(d) = w[p].rows
  BY <1>2, <1>4, FooterWhole
<1> HIDE DEF d
<1>8. Stores(d, call[p].input)
  BY <1>4, <1>5, <1>7 DEF Stores
<1> QED
  BY <1>1, <1>2, <1>4, <1>6, <1>7, <1>8, WriteStep

LEMMA FailStep ==
  ASSUME Inductive, NEW p \in Packers, Fail(p),
         pc[p] \in {"append", "flush", "finish", "close", "rename"}
  PROVE  Inductive'
<1> USE DEF Inductive, Fail
<1>1. TypeOK'
  BY DEF TypeOK
<1>2. \A q \in Packers : /\ Live(q)' <=> Live(q)
                         /\ Open(q)' <=> Open(q)
                         /\ Published(q)' <=> Published(q)
                         /\ Tmp(q)' = Tmp(q)
  BY DEF Live, Open, Published, Tmp, TypeOK
<1>3. CallsOK'
  BY <1>2 DEF CallsOK, TypeOK
<1>4. Exclusive' /\ OneName' /\ Handles'
  BY <1>2 DEF Exclusive, OneName, Handles
<1>5. Contents'
  BY <1>2 DEF Contents, ContentsOf, TypeOK
<1>6. OutAlwaysWhole' /\ TmpHasOwner'
  BY <1>2 DEF OutAlwaysWhole, TmpHasOwner
<1> QED
  BY <1>1, <1>3, <1>4, <1>5, <1>6

LEMMA BeginStep ==
  ASSUME SharedOut = FALSE, Inductive, NEW p \in Packers, Begin(p)
  PROVE  Inductive'
<1> USE DEF Inductive
<1>1. PICK c \in Calls :
        /\ c.mode = "pairs" => c.input # <<>> /\ Ordered(c.input)
        /\ \A q \in Packers : Live(q) => call[q].out # c.out
        /\ call' = [call EXCEPT ![p] = c]
  BY DEF Begin
<1>2. /\ pc[p] = "idle" /\ pc' = [pc EXCEPT ![p] = "create"]
      /\ UNCHANGED <<link, data, w, result, orphaned>>
  BY DEF Begin
<1>3. TypeOK'
  BY <1>1, <1>2 DEF TypeOK
<1>4. /\ \A q \in Packers : q # p => /\ pc'[q] = pc[q] /\ call'[q] = call[q]
                                     /\ Tmp(q)' = Tmp(q)
                                     /\ Live(q)' <=> Live(q)
      /\ pc'[p] = "create" /\ call'[p] = c /\ Live(p)'
      /\ \A q \in Packers : /\ Open(q)' <=> Open(q)
                            /\ Published(q)' <=> Published(q)
                            /\ Open(q) => q # p
  BY <1>1, <1>2 DEF TypeOK, Live, Open, Published, Tmp
<1>5. CallsOK'
  BY <1>1, <1>2, <1>4 DEF CallsOK
<1>6. Exclusive'
  BY <1>1, <1>4 DEF Exclusive
<1>7. OneName' /\ Handles'
  BY <1>2, <1>4 DEF OneName, Handles
<1>8. Contents'
  BY <1>2, <1>4 DEF Contents, ContentsOf, Open, Published
<1>9. OutAlwaysWhole' /\ TmpHasOwner'
  BY <1>2, <1>4 DEF OutAlwaysWhole, TmpHasOwner
<1> QED
  BY <1>3, <1>5, <1>6, <1>7, <1>8, <1>9

LEMMA CreateStep ==
  ASSUME Inductive, NEW p \in Packers, Create(p)
  PROVE  Inductive'
<1> USE DEF Inductive
<1>1. /\ pc[p] = "create" /\ Live(p) /\ ~Open(p)
      /\ call[p] \in Calls /\ call[p].out \in Outs
      /\ call[p].input \in Seq(Entry)
      /\ Tmp(p) \in Names /\ Tmp(p) \notin Outs
  BY CallFields DEF Create, Live, Open
<1>2. PICK i \in Inodes :
        /\ IF link[Tmp(p)] = NoFile THEN ~Used(i) ELSE i = link[Tmp(p)]
        /\ link' = [link EXCEPT ![Tmp(p)] = i]
        /\ data' = [data EXCEPT ![i] = <<>>]
        /\ w' = [w EXCEPT ![p] = NewWriter(i)]
  BY DEF Create
<1>3. /\ call' = call /\ orphaned' = orphaned \ {call[p].out}
      /\ \/ pc' = [pc EXCEPT ![p] = "append"] /\ result' = result
         \/ /\ pc' = [pc EXCEPT ![p] = "drop"]
            /\ result' = [result EXCEPT ![p] = "err"]
  BY DEF Create
<1>4. NewWriter(i) \in Writer /\ NewWriter(i).ino = i
  BY EmptySeq DEF NewWriter, Writer
<1>5. /\ w'[p] = NewWriter(i) /\ data'[i] = <<>> /\ link'[Tmp(p)] = i
      /\ \A n \in Names : n # Tmp(p) => link'[n] = link[n]
      /\ \A q \in Packers : q # p => /\ pc'[q] = pc[q] /\ w'[q] = w[q]
                                     /\ result'[q] = result[q]
      /\ \A k \in Inodes : k # i => data'[k] = data[k]
  BY <1>1, <1>2, <1>3 DEF TypeOK
<1>6. /\ \A q \in Packers : /\ Tmp(q)' = Tmp(q)
                            /\ Live(q)' <=> Live(q)
                            /\ q # p => /\ Open(q)' <=> Open(q)
                                        /\ Published(q)' <=> Published(q)
      /\ Open(p)' /\ ~Published(p)'
      /\ pc'[p] \in {"append", "drop"} /\ result'[p] # "ok"
  BY <1>1, <1>3, <1>5 DEF Tmp, Live, Open, Published, TypeOK, CallsOK
<1>7. \A n \in Names : n # Tmp(p) => link[n] # i
  <2>1. CASE link[Tmp(p)] = NoFile
    BY <1>2, <2>1 DEF Used
  <2>2. CASE link[Tmp(p)] # NoFile
    BY <1>1, <1>2, <2>2 DEF OneName
  <2> QED
    BY <2>1, <2>2
<1>8. \A q \in Packers : q # p /\ Open(q) =>
        /\ call[q].out \in Names /\ call[q].out # Tmp(p)
        /\ Tmp(q) \in Names /\ Tmp(q) # Tmp(p)
  <2> TAKE q \in Packers
  <2> HAVE q # p /\ Open(q)
  <2>1. Live(q) /\ call[q].out \in Outs /\ Tmp(q) \in Names
    BY CallFields DEF Open, Live
  <2>2. call[q].out # call[p].out
    BY <1>1, <2>1 DEF Exclusive
  <2> QED
    BY <1>1, <2>1, <2>2, NamesAssumption DEF Tmp, Names
<1>9. \A q \in Packers : q # p /\ Open(q) => w[q].ino # i
  BY <1>7, <1>8 DEF Handles
<1>10. TypeOK'
  BY <1>1, <1>2, <1>3, <1>4, EmptySeq DEF TypeOK
<1>11. CallsOK'
  BY <1>1, <1>3, <1>4, <1>5, <1>6 DEF CallsOK
<1>12. Exclusive'
  BY <1>3, <1>6 DEF Exclusive
<1>13. OneName'
  BY <1>5, <1>7 DEF OneName
<1>14. Handles'
  <2> SUFFICES ASSUME NEW q \in Packers, Open(q)'
               PROVE  (IF Published(q)
                       THEN link[Tmp(q)] = NoFile /\ link[call[q].out] = w[q].ino
                       ELSE link[Tmp(q)] = w[q].ino)'
    BY DEF Handles
  <2>1. CASE q = p
    BY <2>1, <1>4, <1>5, <1>6
  <2>2. CASE q # p
    BY <2>2, <1>3, <1>5, <1>6, <1>8 DEF Handles
  <2> QED
    BY <2>1, <2>2
<1>15. Contents'
  <2>1. Consistent(NewWriter(i), <<>>)
    BY <1>4, EmptySeq DEF Consistent, NewWriter, CutsInOrder, HoldsGroups
  <2>2. Follows(NewWriter(i), call[p].input)
    BY <1>1, EmptySeq, SubSeqEmpty DEF Follows, NewWriter, Distinct
  <2>3. ASSUME NEW q \in Packers, q # p, Open(q)
        PROVE  data'[w[q].ino] = data[w[q].ino]
    BY <2>3, <1>5, <1>9, WriterFields DEF CallsOK
  <2> SUFFICES ASSUME NEW q \in Packers
               PROVE  ContentsOf(q)'
    BY DEF Contents, ContentsOf
  <2>4. CASE q = p
    BY <2>1, <2>2, <2>4, <1>3, <1>4, <1>5, <1>6 DEF ContentsOf
  <2>5. CASE q # p
    BY <2>3, <2>5, <1>3, <1>5, <1>6 DEF Contents, ContentsOf, Open, Published
  <2> QED
    BY <2>4, <2>5
<1>16. OutAlwaysWhole'
  BY <1>1, <1>5, <1>7 DEF OutAlwaysWhole, TypeOK, Names
<1>17. TmpHasOwner'
  <2> SUFFICES ASSUME NEW o \in Outs, link'[TmpOf[o]] # NoFile,
                      o \notin orphaned'
               PROVE  \E q \in Packers : Open(q)' /\ call'[q].out = o
    BY DEF TmpHasOwner
  <2>1. CASE o = call[p].out
    BY <2>1, <1>3, <1>6
  <2>2. CASE o # call[p].out
    <3>1. TmpOf[o] # Tmp(p) /\ TmpOf[o] \in Names
      BY <2>2, <1>1, NamesAssumption DEF Tmp
    <3>2. PICK q \in Packers : Open(q) /\ call[q].out = o
      BY <2>2, <3>1, <1>3, <1>5 DEF TmpHasOwner
    <3> QED
      BY <3>2, <1>1, <1>3, <1>6
  <2> QED
    BY <2>1, <2>2
<1> QED
  BY <1>10, <1>11, <1>12, <1>13, <1>14, <1>15, <1>16, <1>17

LEMMA RenameStep ==
  ASSUME Inductive, NEW p \in Packers, Rename(p)
  PROVE  Inductive'
<1> USE DEF Inductive
<1>1. /\ pc[p] = "rename" /\ Live(p) /\ Open(p) /\ ~Published(p)
      /\ call[p] \in Calls /\ call[p].out \in Outs /\ call[p].out \in Names
      /\ Tmp(p) \in Names /\ Tmp(p) \notin Outs /\ Tmp(p) # call[p].out
  BY CallFields DEF Rename, Live, Open, Published, Names
<1>2. link[Tmp(p)] = w[p].ino /\ w[p].ino \in Inodes /\ w[p].ino # NoFile
  BY <1>1, WriterFields, NamesAssumption DEF Handles, CallsOK
<1>3. /\ link' = [link EXCEPT ![call[p].out] = w[p].ino, ![Tmp(p)] = NoFile]
      /\ pc' = [pc EXCEPT ![p] = "drop"]
      /\ result' = [result EXCEPT ![p] = "ok"]
      /\ call' = call /\ w' = w /\ orphaned' = orphaned
      /\ Reap
  BY <1>2 DEF Rename
<1>4. /\ link'[Tmp(p)] = NoFile /\ link'[call[p].out] = w[p].ino
      /\ \A n \in Names : n # Tmp(p) /\ n # call[p].out => link'[n] = link[n]
      /\ pc'[p] = "drop" /\ result'[p] = "ok"
      /\ \A q \in Packers : q # p => pc'[q] = pc[q] /\ result'[q] = result[q]
  BY <1>1, <1>3 DEF TypeOK
<1>5. /\ \A q \in Packers : /\ Tmp(q)' = Tmp(q)
                            /\ Live(q)' <=> Live(q)
                            /\ Open(q)' <=> Open(q)
                            /\ q # p => Published(q)' <=> Published(q)
      /\ Published(p)'
  BY <1>1, <1>3, <1>4 DEF Tmp, Live, Open, Published
<1>6. \A q \in Packers : Open(q) => data'[w[q].ino] = data[w[q].ino]
  BY <1>3, <1>5, WriterFields DEF Reap, Used, CallsOK
<1>7. TypeOK'
  <2>1. link' \in [Names -> Inodes \cup {NoFile}]
    BY <1>2, <1>3 DEF TypeOK
  <2>2. data' \in [Inodes -> Seq(Block)]
    BY <1>3, EmptySeq DEF TypeOK, Reap
  <2> QED
    BY <1>3, <2>1, <2>2 DEF TypeOK
<1>8. CallsOK' /\ Exclusive'
  BY <1>3, <1>4, <1>5 DEF CallsOK, Exclusive
<1>9. OneName'
  BY <1>1, <1>2, <1>4 DEF OneName
<1>10. Handles'
  <2> SUFFICES ASSUME NEW q \in Packers, Open(q)
               PROVE  (IF Published(q)
                       THEN link[Tmp(q)] = NoFile /\ link[call[q].out] = w[q].ino
                       ELSE link[Tmp(q)] = w[q].ino)'
    BY <1>5 DEF Handles
  <2>1. CASE q = p
    BY <2>1, <1>3, <1>4, <1>5
  <2>2. CASE q # p
    <3>1. Tmp(q) # Tmp(p) /\ call[q].out # call[p].out
      BY <2>2, <1>1, DistinctFiles
    <3>2. /\ Tmp(q) \in Names /\ Tmp(q) \notin Outs
          /\ call[q].out \in Names /\ call[q].out \in Outs
      BY CallFields DEF Open, Live, Names
    <3> QED
      BY <2>2, <3>1, <3>2, <1>1, <1>3, <1>4, <1>5 DEF Handles
  <2> QED
    BY <2>1, <2>2
<1>11. Contents'
  <2> SUFFICES ASSUME NEW q \in Packers, Open(q)
               PROVE  ContentsOf(q)'
    BY <1>5 DEF Contents, ContentsOf, Open, Published
  <2>1. data'[w'[q].ino] = data[w[q].ino] /\ w'[q] = w[q] /\ call'[q] = call[q]
    BY <1>3, <1>6
  <2> QED
    BY <2>1, <1>1, <1>4, <1>5 DEF Contents, ContentsOf
<1>12. OutAlwaysWhole'
  <2> SUFFICES ASSUME NEW o \in Outs, link'[o] # NoFile
               PROVE  Whole(data'[link'[o]])
    BY DEF OutAlwaysWhole
  <2>1. CASE o = call[p].out
    <3>1. Whole(data[w[p].ino])
      BY <1>1 DEF Contents, ContentsOf, Stores
    <3> QED
      BY <2>1, <3>1, <1>1, <1>4, <1>6
  <2>2. CASE o # call[p].out
    <3>1. link'[o] = link[o] /\ o \in Names /\ link[o] \in Inodes
      BY <2>2, <1>1, <1>4 DEF Names, TypeOK
    <3>2. data'[link[o]] = data[link[o]]
      BY <3>1, <1>3 DEF Reap, Used
    <3> QED
      BY <3>1, <3>2 DEF OutAlwaysWhole
  <2> QED
    BY <2>1, <2>2
<1>13. TmpHasOwner'
  <2> SUFFICES ASSUME NEW o \in Outs, link'[TmpOf[o]] # NoFile
               PROVE  o \in orphaned \/ \E q \in Packers : Open(q) /\ call[q].out = o
    BY <1>3, <1>5 DEF TmpHasOwner
  <2>1. TmpOf[o] \in Names /\ TmpOf[o] \notin Outs
    BY NamesAssumption
  <2>2. link'[TmpOf[o]] = link[TmpOf[o]]
    BY <2>1, <1>1, <1>4
  <2> QED
    BY <2>2 DEF TmpHasOwner
<1> QED
  BY <1>7, <1>8, <1>9, <1>10, <1>11, <1>12, <1>13

(* Leaving, by return or by kill: names only go away. *)
LEMMA LeaveStep ==
  ASSUME Inductive, NEW p \in Packers, Live(p), Return(p),
         link' = link \/ link' = [link EXCEPT ![Tmp(p)] = NoFile],
         TypeOK', TmpHasOwner',
         \A i \in Inodes : Used(i)' => data'[i] = data[i]
  PROVE  Inductive'
<1> USE DEF Inductive
<1>1. /\ call[p].out \in Outs /\ Tmp(p) \in Names /\ Tmp(p) \notin Outs
  BY CallFields
<1>2. /\ pc'[p] = "idle" /\ ~Live(p)' /\ ~Open(p)' /\ ~Published(p)'
      /\ result'[p] = "none"
      /\ \A q \in Packers : q # p => /\ pc'[q] = pc[q] /\ call'[q] = call[q]
                                     /\ w'[q] = w[q] /\ result'[q] = result[q]
                                     /\ Tmp(q)' = Tmp(q)
                                     /\ Live(q)' <=> Live(q)
                                     /\ Open(q)' <=> Open(q)
                                     /\ Published(q)' <=> Published(q)
  BY DEF Return, TypeOK, Tmp, Live, Open, Published
<1>3. /\ \A n \in Names : n # Tmp(p) => link'[n] = link[n]
      /\ \A n \in Names : link'[n] # NoFile => link'[n] = link[n]
  BY <1>1 DEF TypeOK
<1>4. ASSUME NEW q \in Packers, q # p, Open(q)
      PROVE  data'[w[q].ino] = data[w[q].ino]
  <2>1. w[q].ino \in Inodes
    BY <1>4, WriterFields DEF CallsOK
  <2> QED
    BY <2>1, <1>2, <1>4 DEF Used
<1>5. CallsOK' /\ Exclusive'
  BY <1>2 DEF CallsOK, Exclusive
<1>6. OneName'
  BY <1>3 DEF OneName
<1>7. Handles'
  <2> SUFFICES ASSUME NEW q \in Packers, q # p, Open(q)
               PROVE  IF Published(q)
                      THEN link'[Tmp(q)] = NoFile /\ link'[call[q].out] = w[q].ino
                      ELSE link'[Tmp(q)] = w[q].ino
    BY <1>2 DEF Handles
  <2>1. /\ Live(q) /\ Tmp(q) \in Names
        /\ call[q].out \in Names /\ call[q].out \in Outs
    BY CallFields DEF Open, Live, Names
  <2>2. Tmp(q) # Tmp(p)
    <3>1. call[q].out # call[p].out
      BY <2>1 DEF Exclusive
    <3> QED
      BY <3>1, <2>1, <1>1, NamesAssumption DEF Tmp
  <2> QED
    BY <2>1, <2>2, <1>1, <1>3 DEF Handles
<1>8. Contents'
  <2> SUFFICES ASSUME NEW q \in Packers, q # p, Open(q)
               PROVE  ContentsOf(q)'
    BY <1>2 DEF Contents, ContentsOf, Open, Published
  <2> QED
    BY <1>2, <1>4 DEF Contents, ContentsOf
<1>9. OutAlwaysWhole'
  <2> SUFFICES ASSUME NEW o \in Outs, link'[o] # NoFile
               PROVE  Whole(data'[link'[o]])
    BY DEF OutAlwaysWhole
  <2>1. link'[o] = link[o] /\ link[o] \in Inodes /\ o \in Names
    BY <1>3 DEF Names, TypeOK
  <2>2. data'[link[o]] = data[link[o]]
    BY <2>1 DEF Used
  <2> QED
    BY <2>1, <2>2 DEF OutAlwaysWhole
<1> QED
  BY <1>5, <1>6, <1>7, <1>8, <1>9

LEMMA RefuseStep ==
  ASSUME Inductive, NEW p \in Packers, Refuse(p)
  PROVE  Inductive'
<1> USE DEF Inductive
<1>1. /\ pc[p] = "create" /\ Live(p) /\ ~Open(p) /\ Return(p)
      /\ link' = link /\ data' = data /\ orphaned' = orphaned
  BY DEF Refuse, Live, Open
<1>2. TypeOK'
  BY <1>1 DEF Return, TypeOK
<1>3. TmpHasOwner'
  BY <1>1 DEF TmpHasOwner, Return, Open, TypeOK
<1> QED
  BY <1>1, <1>2, <1>3, LeaveStep

LEMMA DropStep ==
  ASSUME Inductive, NEW p \in Packers, Drop(p)
  PROVE  Inductive'
<1> USE DEF Inductive
<1>1. /\ Live(p) /\ Return(p) /\ Reap
      /\ \/ /\ link' = [link EXCEPT ![Tmp(p)] = NoFile]
            /\ orphaned' = orphaned \ {call[p].out}
         \/ link' = link /\ orphaned' = orphaned \cup {call[p].out}
      /\ call[p].out \in Outs /\ Tmp(p) \in Names
  BY CallFields DEF Drop, Live
<1>2. /\ \A i \in Inodes : Used(i)' => data'[i] = data[i]
      /\ data' \in [Inodes -> Seq(Block)]
  BY <1>1, EmptySeq DEF Reap, TypeOK
<1>3. TypeOK'
  BY <1>1, <1>2 DEF Return, TypeOK
<1>4. TmpHasOwner'
  <2> SUFFICES ASSUME NEW o \in Outs, link'[TmpOf[o]] # NoFile,
                      o \notin orphaned'
               PROVE  \E q \in Packers : Open(q)' /\ call'[q].out = o
    BY DEF TmpHasOwner
  <2>1. TmpOf[o] \in Names
    BY NamesAssumption
  <2>2. o # call[p].out /\ link[TmpOf[o]] # NoFile /\ o \notin orphaned
    BY <2>1, <1>1 DEF Tmp, TypeOK
  <2>3. PICK q \in Packers : Open(q) /\ call[q].out = o
    BY <2>2 DEF TmpHasOwner
  <2> QED
    BY <2>2, <2>3, <1>1 DEF Return, Open, TypeOK
<1> HIDE DEF Inductive
<1> QED
  BY <1>1, <1>2, <1>3, <1>4, LeaveStep

LEMMA KillStep ==
  ASSUME Inductive, NEW p \in Packers, Kill(p)
  PROVE  Inductive'
<1> USE DEF Inductive
<1>1. /\ Live(p) /\ Return(p) /\ Reap /\ link' = link
      /\ orphaned' = IF Open(p) /\ link[Tmp(p)] # NoFile
                     THEN orphaned \cup {call[p].out} ELSE orphaned
      /\ call[p].out \in Outs
  BY CallFields DEF Kill
<1>2. /\ \A i \in Inodes : Used(i)' => data'[i] = data[i]
      /\ data' \in [Inodes -> Seq(Block)]
  BY <1>1, EmptySeq DEF Reap, TypeOK
<1>3. TypeOK'
  BY <1>1, <1>2 DEF Return, TypeOK
<1>4. TmpHasOwner'
  <2> SUFFICES ASSUME NEW o \in Outs, link[TmpOf[o]] # NoFile,
                      o \notin orphaned'
               PROVE  \E q \in Packers : Open(q)' /\ call'[q].out = o
    BY <1>1 DEF TmpHasOwner
  <2>1. PICK q \in Packers : Open(q) /\ call[q].out = o
    BY <1>1 DEF TmpHasOwner
  <2>2. q # p
    BY <2>1, <1>1 DEF Tmp
  <2> QED
    BY <2>1, <2>2, <1>1 DEF Return, Open, TypeOK
<1> HIDE DEF Inductive
<1> QED
  BY <1>1, <1>2, <1>3, <1>4, LeaveStep
-----------------------------------------------------------------------------
LEMMA InductiveStep ==
  ASSUME SharedOut = FALSE, Inductive, [Next]_vars
  PROVE  Inductive'
<1>1. ASSUME NEW p \in Packers, Step(p) PROVE Inductive'
  <2>1. CASE Begin(p)           BY <2>1, BeginStep
  <2>2. CASE Refuse(p)          BY <2>2, RefuseStep
  <2>3. CASE Create(p)          BY <2>3, CreateStep
  <2>4. CASE AppendRow(p)       BY <2>4, AppendStep
  <2>5. CASE RejectDuplicate(p) BY <2>5, FailStep DEF RejectDuplicate
  <2>6. CASE EmptyArchive(p)    BY <2>6, FailStep DEF EmptyArchive
  <2>7. CASE IoError(p)         BY <2>7, FailStep DEF IoError
  <2>8. CASE FinishFlush(p)     BY <2>8, FinishStep
  <2>9. CASE Close(p)           BY <2>9, CloseStep
  <2>10. CASE Rename(p)         BY <2>10, RenameStep
  <2>11. CASE Drop(p)           BY <2>11, DropStep
  <2>12. CASE Kill(p)           BY <2>12, KillStep
  <2>13. CASE WriteGroup(p)     BY <2>13, GroupStep
  <2> QED
    BY <1>1, <2>1, <2>2, <2>3, <2>4, <2>5, <2>6, <2>7, <2>8, <2>9, <2>10,
       <2>11, <2>12, <2>13 DEF Step
<1>2. CASE UNCHANGED vars
  <2> USE <1>2 DEF vars, Inductive
  <2>1. TypeOK' /\ CallsOK' /\ Exclusive'
    BY DEF TypeOK, CallsOK, Exclusive, Live, Open
  <2>2. OneName' /\ Handles'
    BY DEF OneName, Handles, Live, Open, Published, Tmp
  <2>3. Contents'
    BY DEF Contents, ContentsOf, Published
  <2>4. OutAlwaysWhole' /\ TmpHasOwner'
    BY DEF OutAlwaysWhole, TmpHasOwner, Open
  <2> QED
    BY <2>1, <2>2, <2>3, <2>4
<1> QED
  BY <1>1, <1>2 DEF Next

(* The invariant holds in every reachable state, as long as live calls     *)
(* name different outputs.                                                 *)
THEOREM InductiveInvariant ==
  ASSUME SharedOut = FALSE PROVE Spec => []Inductive
<1>1. Init => Inductive
  BY Initially
<1>2. Inductive /\ [Next]_vars => Inductive'
  BY InductiveStep
<1> QED
  BY <1>1, <1>2, PTL DEF Spec

(* Every variable keeps its type. *)
THEOREM TypeCorrect ==
  ASSUME SharedOut = FALSE PROVE Spec => []TypeOK
<1>1. Inductive => TypeOK
  BY DEF Inductive
<1> QED
  BY <1>1, InductiveInvariant, PTL

(* Whoever opens an output finds a complete shard. *)
THEOREM OutputsAreWhole ==
  ASSUME SharedOut = FALSE PROVE Spec => []OutAlwaysWhole
<1>1. Inductive => OutAlwaysWhole
  BY DEF Inductive
<1> QED
  BY <1>1, InductiveInvariant, PTL

(* A temp file without a running call comes from a kill or from a removal  *)
(* that failed: every other return has removed its own.                    *)
THEOREM NoTempLeftBehind ==
  ASSUME SharedOut = FALSE PROVE Spec => []TmpHasOwner
<1>1. Inductive => TmpHasOwner
  BY DEF Inductive
<1> QED
  BY <1>1, InductiveInvariant, PTL
-----------------------------------------------------------------------------
(* Only a rename changes what is under an output. *)
LEMMA OutputKept ==
  ASSUME Inductive, NEW p \in Packers, Step(p), ~Rename(p), NEW o \in Outs
  PROVE  /\ link'[o] = link[o]
         /\ link[o] # NoFile => data'[link[o]] = data[link[o]]
<1> USE DEF Inductive
<1>1. o \in Names /\ (link[o] # NoFile => link[o] \in Inodes)
  BY DEF Names, TypeOK
<1>2. ASSUME pc[p] \in {"flush", "finish", "close"}, link' = link,
             NEW d, data' = [data EXCEPT ![w[p].ino] = d]
      PROVE  data'[link[o]] = data[link[o]] \/ link[o] = NoFile
  <2>1. Open(p) /\ ~Published(p)
    BY <1>2 DEF Open, Published
  <2>2. link[o] # w[p].ino
    BY <2>1, NotUnderOutput
  <2> QED
    BY <1>1, <1>2, <2>2 DEF TypeOK
<1>3. CASE UNCHANGED <<link, data>>
  BY <1>3
<1>4. CASE AppendRow(p) \/ FinishFlush(p)
  BY <1>4 DEF AppendRow, FinishFlush
<1>5. CASE WriteGroup(p)
  BY <1>2, <1>5 DEF WriteGroup
<1>6. CASE Close(p)
  BY <1>2, <1>6 DEF Close
<1>7. CASE Create(p)
  <2>1. Tmp(p) \in Names /\ Tmp(p) # o
    BY <1>7, CallFields DEF Create, Live
  <2> QED
    BY <1>1, <1>7, <2>1 DEF Create, Used, OneName, TypeOK
<1>8. CASE Drop(p) \/ Kill(p)
  <2>1. Tmp(p) \in Names /\ Tmp(p) # o
    BY <1>8, CallFields DEF Drop, Kill, Live
  <2>2. link'[o] = link[o] /\ Reap
    BY <1>1, <1>8, <2>1 DEF Drop, Kill, TypeOK
  <2> QED
    BY <1>1, <2>2 DEF Reap, Used
<1> QED
  BY <1>3, <1>4, <1>5, <1>6, <1>7, <1>8
     DEF Step, Begin, Refuse, RejectDuplicate, EmptyArchive, IoError, Fail

(* No write, failure, kill or cleanup shows under an output. *)
THEOREM OutputsChangeOnlyByRename ==
  ASSUME SharedOut = FALSE PROVE Spec => OutChangesOnlyByRename
<1>1. ASSUME Inductive, [Next]_vars
      PROVE  [\A o \in Outs : Seen(o)' # Seen(o) =>
                \E p \in Packers : Rename(p) /\ call[p].out = o]_vars
  <2> SUFFICES ASSUME ~UNCHANGED vars, NEW o \in Outs, Seen(o)' # Seen(o)
               PROVE  \E p \in Packers : Rename(p) /\ call[p].out = o
    OBVIOUS
  <2>1. PICK p \in Packers : Step(p)
    BY <1>1 DEF Next
  <2>2. Rename(p)
    BY <1>1, <2>1, OutputKept DEF Seen
  <2>3. call[p].out = o
    <3> SUFFICES ASSUME call[p].out # o PROVE FALSE
      OBVIOUS
    <3>1. Tmp(p) # o /\ o \in Names
      BY <1>1, <2>2, CallFields DEF Inductive, Rename, Live, Names
    <3>2. link'[o] = link[o]
      BY <1>1, <2>2, <3>1 DEF Rename, Inductive, TypeOK
    <3>3. link[o] # NoFile => data'[link[o]] = data[link[o]]
      BY <1>1, <2>2, <3>1, <3>2 DEF Rename, Reap, Used, Inductive, TypeOK
    <3> QED
      BY <3>2, <3>3 DEF Seen
  <2> QED
    BY <2>2, <2>3
<1> QED
  BY <1>1, InductiveInvariant, PTL DEF Spec, OutChangesOnlyByRename

(* The cleanup after a successful finish finds no file by the temp name.   *)
THEOREM CleanupIsNoop ==
  ASSUME SharedOut = FALSE PROVE Spec => DropAfterFinishIsNoop
<1>1. ASSUME Inductive, NEW p \in Packers, Drop(p), result[p] = "ok"
      PROVE  link' = link
  <2>1. link[Tmp(p)] = NoFile
    BY <1>1 DEF Inductive, Handles, Published, Open, Drop
  <2>2. link \in [Names -> Inodes \cup {NoFile}]
    BY <1>1 DEF Inductive, TypeOK
  <2> QED
    BY <1>1, <2>1, <2>2 DEF Drop
<1>2. Inductive /\ [Next]_vars =>
        [\A p \in Packers : Drop(p) /\ result[p] = "ok" => link' = link]_vars
  BY <1>1
<1> QED
  BY <1>2, InductiveInvariant, PTL DEF Spec, DropAfterFinishIsNoop
-----------------------------------------------------------------------------
(* Row group sizes, and the counts of a summary: a second invariant, on    *)
(* top of the first.                                                       *)

(* A row group within both limits; one that may be followed by another.    *)
Fits(rows, cuts, g) ==
  /\ cuts[g] < GroupStart(cuts, g) + MaxRows
  /\ Bytes(rows, GroupStart(cuts, g), cuts[g] - 1) < MaxPending
Ended(rows, cuts, g) == FullOfRows(cuts, g) \/ EndsFlush(rows, cuts, g)

AllEnded(rows, cuts) ==
  \A g \in 1..Len(cuts) : Ended(rows, cuts, g) /\ Fits(rows, cuts, g)

(* The counters say what the rows hold, and the groups written are right.  *)
Counted(v) == v.bytes = Total(v.rows) /\ AllEnded(v.rows, v.cuts)

(* Between two flushes: what is buffered would not fill a row group.       *)
Measured(v) ==
  /\ Counted(v)
  /\ v.pending = Bytes(v.rows, LastCut(v.cuts) + 1, Len(v.rows))
  /\ v.pending < MaxPending

(* Within a flush: it began with group b, the groups written since are     *)
(* full of rows, and its rows do not reach the limit without the last one. *)
FlushFrom(v, b) ==
  /\ GroupStart(v.cuts, b) <= LastCut(v.cuts) + 1
  /\ \A i \in b..Len(v.cuts) : FullOfRows(v.cuts, i)
  /\ Bytes(v.rows, GroupStart(v.cuts, b), Len(v.rows) - 1) < MaxPending

Flushing(v)  == \E b \in 1..(Len(v.cuts) + 1) : FlushFrom(v, b)
Reaching(v) ==
  \E b \in 1..(Len(v.cuts) + 1) :
    FlushFrom(v, b) /\ Bytes(v.rows, GroupStart(v.cuts, b), Len(v.rows)) >= MaxPending

SplitShard(c) == SplitAtThreshold(c[Len(c)].rows, c[Len(c)].cuts)

SizedOf(p) ==
  /\ pc[p] = "append" => Measured(w[p])
  /\ pc[p] = "flush" => Counted(w[p]) /\ Reaching(w[p])
  /\ pc[p] = "finish" => Counted(w[p]) /\ Flushing(w[p])
  /\ pc[p] = "close" => /\ SplitAtThreshold(w[p].rows, w[p].cuts)
                        /\ w[p].bytes = Total(w[p].rows)
  /\ pc[p] = "rename" \/ Published(p) =>
       /\ SplitShard(data[w[p].ino])
       /\ w[p].bytes = Total(call[p].input)

Sized == (\A p \in Packers : SizedOf(p)) /\ GroupsSplitAtThreshold

(* Bytes between two rows that a further row leaves alone.                 *)
LEMMA BytesOfAppend ==
  ASSUME NEW rows \in Seq(Entry), NEW e \in Entry,
         NEW i \in Nat \ {0}, NEW j \in Nat, i <= Len(rows) + 1, j <= Len(rows)
  PROVE  Bytes(Append(rows, e), i, j) = Bytes(rows, i, j)
<1>1. j \in 0..Len(rows) /\ i - 1 \in 0..Len(rows)
  OBVIOUS
<1> QED
  BY <1>1, OffsetsOfAppend DEF Bytes

(* Fewer rows hold no more bytes.                                          *)
LEMMA BytesShrink ==
  ASSUME NEW rows \in Seq(Entry), NEW i \in Nat \ {0}, NEW j \in Nat \ {0},
         NEW k \in Nat, NEW n \in Nat, i <= j, k <= n,
         j <= Len(rows) + 1, n <= Len(rows)
  PROVE  Bytes(rows, j, k) <= Bytes(rows, i, n)
<1>1. /\ Len(rows) \in Nat
      /\ i - 1 \in 0..Len(rows) /\ j - 1 \in (i - 1)..Len(rows)
      /\ k \in 0..Len(rows) /\ n \in k..Len(rows)
  OBVIOUS
<1>2. /\ Offsets(rows)[i - 1] \in Nat /\ Offsets(rows)[j - 1] \in Nat
      /\ Offsets(rows)[i - 1] <= Offsets(rows)[j - 1]
  BY <1>1, OffsetsGrow
<1>3. /\ Offsets(rows)[k] \in Nat /\ Offsets(rows)[n] \in Nat
      /\ Offsets(rows)[k] <= Offsets(rows)[n]
  BY <1>1, OffsetsGrow
<1> QED
  BY <1>2, <1>3 DEF Bytes

(* Groups written stay right when a row is added ...                       *)
LEMMA AddEnded ==
  ASSUME NEW rows \in Seq(Entry), NEW cuts \in Seq(Nat), NEW e \in Entry,
         CutsInOrder(rows, cuts), AllEnded(rows, cuts)
  PROVE  AllEnded(Append(rows, e), cuts)
<1> DEFINE more == Append(rows, e)
<1>1. Len(rows) \in Nat /\ Len(cuts) \in Nat
  OBVIOUS
<1>2. ASSUME NEW h \in 1..Len(cuts), NEW g \in 1..Len(cuts)
      PROVE  /\ Bytes(more, GroupStart(cuts, h), cuts[g])
                  = Bytes(rows, GroupStart(cuts, h), cuts[g])
             /\ Bytes(more, GroupStart(cuts, h), cuts[g] - 1)
                  = Bytes(rows, GroupStart(cuts, h), cuts[g] - 1)
  <2>1. /\ GroupStart(cuts, h) \in Nat \ {0} /\ cuts[h] \in Nat
        /\ GroupStart(cuts, h) <= cuts[h] /\ cuts[h] <= Len(rows)
    BY CutBounds
  <2>2. /\ GroupStart(cuts, g) \in Nat \ {0} /\ cuts[g] \in Nat
        /\ GroupStart(cuts, g) <= cuts[g] /\ cuts[g] <= Len(rows)
    BY CutBounds
  <2>3. /\ cuts[g] - 1 \in Nat /\ cuts[g] - 1 <= Len(rows)
        /\ GroupStart(cuts, h) <= Len(rows) + 1
    BY <1>1, <2>1, <2>2
  <2> QED
    BY <2>1, <2>2, <2>3, BytesOfAppend
<1> HIDE DEF more
<1>3. ASSUME NEW g \in 1..Len(cuts) PROVE Ended(more, cuts, g) /\ Fits(more, cuts, g)
  <2>1. Fits(more, cuts, g)
    BY <1>2 DEF AllEnded, Fits
  <2>2. EndsFlush(rows, cuts, g) => EndsFlush(more, cuts, g)
    <3>1. \A h \in 1..g : h \in 1..Len(cuts)
      BY <1>1
    <3> QED
      BY <1>2, <3>1 DEF EndsFlush
  <2> QED
    BY <2>1, <2>2 DEF AllEnded, Ended
<1> QED
  BY <1>3 DEF AllEnded, more

(* ... and when a group is written.                                        *)
LEMMA CutEnded ==
  ASSUME NEW rows, NEW cuts \in Seq(Nat), NEW n \in Nat, AllEnded(rows, cuts),
         NEW g \in 1..Len(cuts)
  PROVE  Ended(rows, Append(cuts, n), g) /\ Fits(rows, Append(cuts, n), g)
<1> DEFINE more == Append(cuts, n)
<1>1. Len(cuts) \in Nat
  OBVIOUS
<1>2. \A i \in 1..Len(cuts) :
        more[i] = cuts[i] /\ GroupStart(more, i) = GroupStart(cuts, i)
  BY FurtherCut
<1> HIDE DEF more
<1>3. \A i \in 1..Len(cuts) : FullOfRows(more, i) <=> FullOfRows(cuts, i)
  BY <1>2 DEF FullOfRows
<1>4. EndsFlush(rows, cuts, g) => EndsFlush(rows, more, g)
  <2>1. \A h \in 1..g : h \in 1..Len(cuts) /\ \A i \in h..(g - 1) : i \in 1..Len(cuts)
    BY <1>1
  <2> QED
    BY <1>2, <1>3, <2>1 DEF EndsFlush
<1>5. Fits(rows, more, g)
  BY <1>2 DEF AllEnded, Fits
<1> QED
  BY <1>3, <1>4, <1>5 DEF AllEnded, Ended, more

LEMMA AddMeasured ==
  ASSUME NEW v, NEW c \in Seq(Block), NEW e \in Entry, Consistent(v, c), Measured(v)
  PROVE  /\ Counted(Add(v, e))
         /\ Add(v, e).pending < MaxPending => Measured(Add(v, e))
         /\ Add(v, e).pending >= MaxPending => Reaching(Add(v, e))
<1> DEFINE more == Append(v.rows, e)
           a == Add(v, e)
           N == Len(v.rows)
           k == LastCut(v.cuts)
<1>1. /\ v \in Writer /\ v.rows \in Seq(Entry) /\ N \in Nat
      /\ v.cuts \in Seq(Nat) /\ v.bytes \in Nat /\ v.pending \in Nat
      /\ CutsInOrder(v.rows, v.cuts) /\ e.size \in Nat /\ Len(v.cuts) \in Nat
  BY WriterFields, EntryFields DEF Consistent
<1>2. /\ a.rows = more /\ Len(more) = N + 1 /\ a.cuts = v.cuts
      /\ a.bytes = v.bytes + e.size
      /\ a.pending = v.pending + e.size
  <2>1. a.bytes = v.bytes + e.size /\ a.pending = v.pending + e.size
    BY <1>1 DEF Add, Writer
  <2>2. a.rows = more /\ a.cuts = v.cuts
    BY <1>1, AddFields
  <2> QED
    BY <1>1, <2>1, <2>2
<1>3. k \in 0..N /\ (k + 1) - 1 = k
  BY <1>1, LastCutBounds
<1>4. /\ Offsets(more)[k] = Offsets(v.rows)[k] /\ Offsets(more)[N] = Offsets(v.rows)[N]
      /\ Offsets(more)[N + 1] = Offsets(v.rows)[N] + e.size
      /\ Offsets(v.rows)[k] \in Nat /\ Offsets(v.rows)[N] \in Nat
  <2>1. N \in 0..N /\ N \in k..N
    BY <1>1, <1>3
  <2> HIDE DEF k, a
  <2> QED
    BY <1>1, <1>2, <1>3, <2>1, OffsetsOfAppend, OffsetsGrow DEF Total
<1>5. /\ v.bytes = Offsets(v.rows)[N]
      /\ v.pending = Offsets(v.rows)[N] - Offsets(v.rows)[k]
      /\ v.pending < MaxPending
  BY <1>3 DEF Measured, Counted, Total, Bytes
<1>6. AllEnded(more, v.cuts)
  BY <1>1, AddEnded DEF Measured, Counted
<1>7. Bytes(more, k + 1, N + 1) = v.pending + e.size /\ Bytes(more, k + 1, N) = v.pending
  BY <1>1, <1>3, <1>4, <1>5 DEF Bytes
<1> HIDE DEF more, a
<1>8. Counted(a)
  BY <1>1, <1>2, <1>4, <1>5, <1>6 DEF Counted, Total
<1>9. a.pending = Bytes(a.rows, LastCut(a.cuts) + 1, Len(a.rows))
  BY <1>2, <1>7
<1>10. a.pending >= MaxPending => Reaching(a)
  <2> DEFINE b == Len(v.cuts) + 1
  <2>1. GroupStart(v.cuts, b) = k + 1
    BY <1>1, NextGroupStart
  <2>2. b \in 1..(Len(v.cuts) + 1) /\ \A i \in b..Len(v.cuts) : FALSE
    BY <1>1
  <2>3. (N + 1) - 1 = N /\ k + 1 <= k + 1
    BY <1>1, <1>3
  <2> HIDE DEF b, k, N
  <2>4. FlushFrom(a, b)
    BY <1>2, <1>5, <1>7, <2>1, <2>2, <2>3 DEF FlushFrom, k
  <2>5. Bytes(a.rows, GroupStart(a.cuts, b), Len(a.rows)) = a.pending
    BY <1>2, <1>7, <2>1
  <2>6. b \in 1..(Len(a.cuts) + 1)
    BY <1>2, <2>2
  <2> QED
    BY <2>4, <2>5, <2>6 DEF Reaching
<1> QED
  BY <1>8, <1>9, <1>10 DEF Measured, a

(* What is buffered when finish flushes is less than a row group.          *)
LEMMA FinishMeasured ==
  ASSUME NEW v, NEW c \in Seq(Block), Consistent(v, c), Measured(v), Buffered(v)
  PROVE  Flushing(v)
<1> DEFINE N == Len(v.rows)
           k == LastCut(v.cuts)
           b == Len(v.cuts) + 1
<1>1. /\ v \in Writer /\ v.rows \in Seq(Entry) /\ N \in Nat
      /\ v.cuts \in Seq(Nat) /\ Len(v.cuts) \in Nat
      /\ CutsInOrder(v.rows, v.cuts) /\ k \in 0..N /\ k < N
  BY WriterFields, LastCutBounds DEF Consistent, Buffered
<1>2. GroupStart(v.cuts, b) = k + 1
  BY <1>1, NextGroupStart
<1>3. b \in 1..(Len(v.cuts) + 1) /\ \A i \in b..Len(v.cuts) : FALSE
  BY <1>1
<1>4. Bytes(v.rows, k + 1, N - 1) <= Bytes(v.rows, k + 1, N)
  <2>1. k + 1 \in Nat \ {0} /\ N - 1 \in Nat /\ N - 1 <= N /\ k + 1 <= N + 1
    BY <1>1
  <2> HIDE DEF N, k
  <2> QED
    BY <1>1, <2>1, BytesShrink DEF N
<1>5. /\ Bytes(v.rows, k + 1, N - 1) \in Int
      /\ Bytes(v.rows, k + 1, N) \in Int /\ Bytes(v.rows, k + 1, N) < MaxPending
  <2>1. k \in 0..N /\ N - 1 \in 0..N /\ N \in 0..N /\ (k + 1) - 1 = k
    BY <1>1
  <2>2. Offsets(v.rows) \in [0..N -> Nat]
    BY <1>1, OffsetsRecursion
  <2>3. Bytes(v.rows, k + 1, N) < MaxPending
    BY DEF Measured
  <2> HIDE DEF N, k
  <2> QED
    BY <2>1, <2>2, <2>3 DEF Bytes
<1>6. FlushFrom(v, b)
  <2>1. Bytes(v.rows, k + 1, N - 1) < MaxPending
    BY <1>4, <1>5, DataAssumption
  <2>2. k + 1 <= k + 1
    BY <1>1
  <2> HIDE DEF b, k, N
  <2> QED
    BY <1>2, <1>3, <2>1, <2>2 DEF FlushFrom, k, N
<1> HIDE DEF b
<1> QED
  BY <1>3, <1>6 DEF Flushing

(* A row group of the flush that began with group b: within the limits,    *)
(* full of rows unless the flush ends with it.                             *)
LEMMA CutMeasured ==
  ASSUME NEW v, NEW c \in Seq(Block), Consistent(v, c), Buffered(v), Counted(v),
         NEW b \in 1..(Len(v.cuts) + 1), FlushFrom(v, b)
  PROVE  LET a == Cut(v)
             g == Len(v.cuts) + 1 IN
         /\ a.rows = v.rows /\ a.bytes = Total(a.rows) /\ Len(a.cuts) = g
         /\ \A i \in 1..Len(v.cuts) : Ended(a.rows, a.cuts, i) /\ Fits(a.rows, a.cuts, i)
         /\ Fits(a.rows, a.cuts, g)
         /\ b \in 1..g /\ GroupStart(a.cuts, b) = GroupStart(v.cuts, b)
         /\ \A i \in b..Len(v.cuts) : FullOfRows(a.cuts, i)
         /\ LastCut(a.cuts) = a.cuts[g]
         /\ Buffered(a) => FullOfRows(a.cuts, g) /\ FlushFrom(a, b)
         /\ ~Buffered(a) => a.cuts[g] = Len(a.rows) /\ a.pending = 0
<1> DEFINE a == Cut(v)
           k == Len(v.cuts)
           g == k + 1
           N == Len(v.rows)
           last == GroupEnd(v)
           from == LastCut(v.cuts)
<1>1. /\ v \in Writer /\ v.rows \in Seq(Entry) /\ N \in Nat
      /\ v.cuts \in Seq(Nat) /\ k \in Nat /\ CutsInOrder(v.rows, v.cuts)
  BY WriterFields DEF Consistent
<1>2. /\ from \in Nat /\ last \in Nat /\ from + 1 <= last /\ last <= N
      /\ last <= from + MaxRows /\ (last # N => last = from + MaxRows)
      /\ MaxRows \in Nat \ {0}
  <2>1. last \in (from + 1)..N
    BY <1>1, GroupEndBounds
  <2> QED
    BY <1>1, <2>1, GroupEndBounds, DataAssumption
<1> HIDE DEF last
<1>3. /\ a.rows = v.rows /\ a.bytes = v.bytes /\ a.cuts = Append(v.cuts, last)
      /\ last = N => a.pending = 0
  BY <1>1, <1>2, CutFields DEF last
<1> HIDE DEF a
<1>4. /\ Len(a.cuts) = g /\ a.cuts[g] = last
      /\ GroupStart(a.cuts, g) = from + 1
      /\ LastCut(a.cuts) = last
      /\ \A i \in 1..k : /\ a.cuts[i] = v.cuts[i]
                         /\ GroupStart(a.cuts, i) = GroupStart(v.cuts, i)
  BY <1>1, <1>2, <1>3, FurtherCut
<1>5. GroupStart(v.cuts, g) = from + 1
  BY <1>1, NextGroupStart
<1>6. /\ b \in 1..g /\ GroupStart(a.cuts, b) = GroupStart(v.cuts, b)
      /\ GroupStart(v.cuts, b) \in Nat \ {0} /\ GroupStart(v.cuts, b) <= from + 1
  <2>1. CASE b = g
    BY <2>1, <1>1, <1>2, <1>4, <1>5
  <2>2. CASE b # g
    <3>1. b \in 1..k
      BY <1>1, <2>2
    <3>2. GroupStart(v.cuts, b) \in Nat \ {0}
      BY <1>1, <3>1, CutBounds
    <3> QED
      BY <3>1, <3>2, <1>1, <1>4 DEF FlushFrom
  <2> QED
    BY <2>1, <2>2
<1>7. \A i \in b..k : FullOfRows(a.cuts, i)
  <2>1. \A i \in b..k : i \in 1..k
    BY <1>1
  <2> QED
    BY <2>1, <1>4 DEF FlushFrom, FullOfRows
<1>8. \A i \in 1..k : Ended(a.rows, a.cuts, i) /\ Fits(a.rows, a.cuts, i)
  BY <1>1, <1>2, <1>3, CutEnded DEF Counted
<1>9. Fits(a.rows, a.cuts, g)
  <2>1. last < (from + 1) + MaxRows
    BY <1>2
  <2>2. Bytes(v.rows, from + 1, last - 1) < MaxPending
    <3>1. /\ from + 1 \in Nat \ {0} /\ last - 1 \in Nat /\ N - 1 \in Nat
          /\ last - 1 <= N - 1 /\ N - 1 <= N /\ last - 1 <= N /\ from + 1 <= N + 1
          /\ from \in 0..N /\ N - 1 \in 0..N /\ last - 1 \in 0..N
          /\ (from + 1) - 1 = from
      <4> HIDE DEF N, from
      <4> QED
        BY <1>1, <1>2
    <3>2. Bytes(v.rows, from + 1, last - 1) <= Bytes(v.rows, GroupStart(v.cuts, b), N - 1)
      <4> HIDE DEF N, from
      <4> QED
        BY <1>1, <1>6, <3>1, BytesShrink DEF N
    <3>3. /\ Bytes(v.rows, from + 1, last - 1) \in Int
          /\ Bytes(v.rows, GroupStart(v.cuts, b), N - 1) \in Int
      <4>1. Offsets(v.rows) \in [0..N -> Nat]
        BY <1>1, OffsetsRecursion
      <4>2. GroupStart(v.cuts, b) - 1 \in 0..N
        BY <1>1, <1>2, <1>6
      <4> HIDE DEF N, from
      <4>3. /\ Offsets(v.rows)[from] \in Nat /\ Offsets(v.rows)[last - 1] \in Nat
            /\ Offsets(v.rows)[N - 1] \in Nat
            /\ Offsets(v.rows)[GroupStart(v.cuts, b) - 1] \in Nat
        BY <3>1, <4>1, <4>2
      <4> QED
        BY <3>1, <4>3 DEF Bytes
    <3>4. Bytes(v.rows, GroupStart(v.cuts, b), N - 1) < MaxPending
      BY DEF FlushFrom
    <3> HIDE DEF N, from
    <3> QED
      BY <3>2, <3>3, <3>4, DataAssumption
  <2> QED
    BY <2>1, <2>2, <1>3, <1>4 DEF Fits
<1>10. Buffered(a) <=> last # N
  BY <1>1, <1>2, <1>3, <1>4 DEF Buffered
<1>11. ASSUME Buffered(a) PROVE FullOfRows(a.cuts, g) /\ FlushFrom(a, b)
  <2>1. FullOfRows(a.cuts, g)
    <3>1. last = from + MaxRows
      BY <1>2, <1>10, <1>11
    <3>2. last + 1 = (from + 1) + MaxRows
      BY <1>2, <3>1
    <3> HIDE DEF g, from
    <3> QED
      BY <1>4, <3>2 DEF FullOfRows
  <2>2. \A i \in b..g : FullOfRows(a.cuts, i)
    <3>1. \A i \in b..g : i = g \/ i \in b..k
      BY <1>1
    <3> QED
      BY <1>7, <2>1, <3>1
  <2>3. GroupStart(a.cuts, b) <= LastCut(a.cuts) + 1
    BY <1>2, <1>4, <1>6
  <2>4. Bytes(a.rows, GroupStart(a.cuts, b), Len(a.rows) - 1) < MaxPending
    BY <1>3, <1>6 DEF FlushFrom
  <2> HIDE DEF g
  <2> QED
    BY <2>1, <2>2, <2>3, <2>4, <1>4 DEF FlushFrom
<1> HIDE DEF g, k, N, from
<1>12. a.bytes = Total(a.rows)
  BY <1>3 DEF Counted
<1> QED
  BY <1>3, <1>4, <1>6, <1>7, <1>8, <1>9, <1>10, <1>11, <1>12 DEF a, g, k, N

(* A flush because the limit is reached, from one row group to the next.   *)
LEMMA FlushMeasured ==
  ASSUME NEW v, NEW c \in Seq(Block), Consistent(v, c), Buffered(v), Counted(v),
         Reaching(v)
  PROVE  /\ Buffered(Cut(v)) => Counted(Cut(v)) /\ Reaching(Cut(v))
         /\ ~Buffered(Cut(v)) => Measured(Cut(v))
<1> DEFINE a == Cut(v)
           k == Len(v.cuts)
           g == k + 1
<1>1. PICK b \in 1..g :
        /\ FlushFrom(v, b)
        /\ Bytes(v.rows, GroupStart(v.cuts, b), Len(v.rows)) >= MaxPending
  BY DEF Reaching
<1>2. /\ k \in Nat /\ v.rows \in Seq(Entry) /\ Len(v.rows) \in Nat
  BY WriterFields DEF Consistent
<1>3. /\ a.rows = v.rows /\ a.bytes = Total(a.rows) /\ Len(a.cuts) = g
      /\ \A i \in 1..k : Ended(a.rows, a.cuts, i) /\ Fits(a.rows, a.cuts, i)
      /\ Fits(a.rows, a.cuts, g)
      /\ GroupStart(a.cuts, b) = GroupStart(v.cuts, b)
      /\ \A i \in b..k : FullOfRows(a.cuts, i)
      /\ LastCut(a.cuts) = a.cuts[g]
      /\ Buffered(a) => FullOfRows(a.cuts, g) /\ FlushFrom(a, b)
      /\ ~Buffered(a) => a.cuts[g] = Len(a.rows) /\ a.pending = 0
  BY <1>1, CutMeasured
<1> HIDE DEF a
<1>4. ~Buffered(a) => EndsFlush(a.rows, a.cuts, g)
  <2> SUFFICES ASSUME ~Buffered(a) PROVE EndsFlush(a.rows, a.cuts, g)
    OBVIOUS
  <2>1. g - 1 = k
    BY <1>2
  <2>2. /\ Bytes(a.rows, GroupStart(a.cuts, b), a.cuts[g]) >= MaxPending
        /\ Bytes(a.rows, GroupStart(a.cuts, b), a.cuts[g] - 1) < MaxPending
    BY <1>1, <1>3 DEF FlushFrom
  <2> HIDE DEF g, k
  <2> QED
    BY <1>1, <1>3, <2>1, <2>2 DEF EndsFlush
<1>5. AllEnded(a.rows, a.cuts)
  <2>1. \A i \in 1..g : i = g \/ i \in 1..k
    BY <1>2
  <2>2. Ended(a.rows, a.cuts, g)
    BY <1>3, <1>4 DEF Ended
  <2> HIDE DEF g
  <2> QED
    BY <1>3, <2>1, <2>2 DEF AllEnded
<1>6. Counted(a)
  BY <1>3, <1>5 DEF Counted
<1>7. Buffered(a) => Reaching(a)
  <2>1. b \in 1..(Len(a.cuts) + 1)
    BY <1>2, <1>3
  <2> QED
    BY <1>1, <1>3, <2>1 DEF Reaching
<1>8. ~Buffered(a) => Measured(a)
  <2> SUFFICES ASSUME ~Buffered(a) PROVE Measured(a)
    OBVIOUS
  <2>1. Bytes(a.rows, Len(a.rows) + 1, Len(a.rows)) = 0
    <3>1. Len(a.rows) \in 0..Len(a.rows) /\ (Len(a.rows) + 1) - 1 = Len(a.rows)
      BY <1>2, <1>3
    <3>2. Offsets(a.rows)[Len(a.rows)] \in Nat
      BY <1>2, <1>3, <3>1, OffsetsRecursion
    <3> QED
      BY <3>1, <3>2 DEF Bytes
  <2>2. 0 < MaxPending
    BY DataAssumption
  <2> QED
    BY <1>3, <1>6, <2>1, <2>2 DEF Measured
<1> QED
  BY <1>6, <1>7, <1>8 DEF a

(* The last flush: its last row group may be short, but is not too long.   *)
LEMMA LastCutMeasured ==
  ASSUME NEW v, NEW c \in Seq(Block), Consistent(v, c), Buffered(v), Counted(v),
         Flushing(v)
  PROVE  /\ Buffered(Cut(v)) => Counted(Cut(v)) /\ Flushing(Cut(v))
         /\ ~Buffered(Cut(v)) => /\ SplitAtThreshold(Cut(v).rows, Cut(v).cuts)
                                 /\ Cut(v).bytes = Total(Cut(v).rows)
<1> DEFINE a == Cut(v)
           k == Len(v.cuts)
           g == k + 1
<1>1. PICK b \in 1..g : FlushFrom(v, b)
  BY DEF Flushing
<1>2. k \in Nat
  BY WriterFields DEF Consistent
<1>3. /\ a.rows = v.rows /\ a.bytes = Total(a.rows) /\ Len(a.cuts) = g
      /\ \A i \in 1..k : Ended(a.rows, a.cuts, i) /\ Fits(a.rows, a.cuts, i)
      /\ Fits(a.rows, a.cuts, g)
      /\ Buffered(a) => FullOfRows(a.cuts, g) /\ FlushFrom(a, b)
  BY <1>1, CutMeasured
<1> HIDE DEF a
<1>4. \A i \in 1..g : i = g \/ i \in 1..k
  BY <1>2
<1>5. SplitAtThreshold(a.rows, a.cuts)
  <2>1. \A i \in 1..g : i < g => i \in 1..k
    BY <1>2
  <2> HIDE DEF g
  <2> QED
    BY <1>3, <1>4, <2>1 DEF SplitAtThreshold, Ended, Fits
<1>6. Buffered(a) => Counted(a)
  <2> HIDE DEF g
  <2> QED
    BY <1>3, <1>4 DEF Counted, AllEnded, Ended
<1>7. Buffered(a) => Flushing(a)
  <2>1. b \in 1..(Len(a.cuts) + 1)
    BY <1>2, <1>3
  <2> QED
    BY <1>3, <2>1 DEF Flushing
<1> QED
  BY <1>3, <1>5, <1>6, <1>7 DEF a

(* No step touches another packer's call, or the file it has open.         *)
LEMMA OthersKept ==
  ASSUME Inductive, NEW p \in Packers, Step(p), NEW q \in Packers, q # p
  PROVE  /\ pc'[q] = pc[q] /\ call'[q] = call[q]
         /\ result'[q] = result[q] /\ w'[q] = w[q]
         /\ Open(q) => data'[w[q].ino] = data[w[q].ino]
<1>1. /\ pc'[q] = pc[q] /\ call'[q] = call[q]
      /\ result'[q] = result[q] /\ w'[q] = w[q]
  BY DEF Step, Begin, Refuse, Create, AppendRow, WriteGroup, RejectDuplicate, EmptyArchive,
         IoError, FinishFlush, Close, Rename, Drop, Kill, Fail, Return,
         Inductive, TypeOK
<1> SUFFICES ASSUME Open(q) PROVE data'[w[q].ino] = data[w[q].ino]
  BY <1>1
<1>2. w[q].ino \in Inodes
  BY WriterFields DEF Inductive, CallsOK
<1>3. ASSUME Open(p), NEW d, data' = [data EXCEPT ![w[p].ino] = d]
      PROVE  data'[w[q].ino] = data[w[q].ino]
  BY <1>2, <1>3, DistinctFiles DEF Inductive, TypeOK
<1>4. CASE UNCHANGED data
  BY <1>4
<1>5. CASE AppendRow(p) \/ FinishFlush(p)
  BY <1>5 DEF AppendRow, FinishFlush
<1>6. CASE WriteGroup(p)
  BY <1>3, <1>6 DEF WriteGroup, Open
<1>7. CASE Close(p)
  BY <1>3, <1>7 DEF Close, Open
<1>8. CASE Create(p)
  <2>1. PICK i \in Inodes :
          /\ IF link[Tmp(p)] = NoFile THEN ~Used(i) ELSE i = link[Tmp(p)]
          /\ data' = [data EXCEPT ![i] = <<>>]
    BY <1>8 DEF Create
  <2>2. Live(p) /\ Live(q)
    BY <1>8 DEF Create, Open, Live
  <2>3. /\ call[p].out \in Outs /\ call[q].out \in Outs /\ call[p].out # call[q].out
        /\ Tmp(p) \in Names \ Outs /\ Tmp(q) \in Names \ Outs
    BY <2>2, CallFields DEF Inductive, Exclusive
  <2>4. Tmp(p) # Tmp(q)
    BY <2>3, NamesAssumption DEF Tmp
  <2>5. i # w[q].ino
    <3>1. CASE link[Tmp(p)] = NoFile
      BY <2>1, <3>1 DEF Used
    <3>2. CASE link[Tmp(p)] # NoFile
      <4>1. link[Tmp(q)] = w[q].ino \/ link[call[q].out] = w[q].ino
        BY DEF Inductive, Handles
      <4> QED
        BY <2>1, <2>3, <2>4, <3>2, <4>1 DEF Inductive, OneName, Names
    <3> QED
      BY <3>1, <3>2
  <2> QED
    BY <1>2, <2>1, <2>5 DEF Inductive, TypeOK
<1>9. CASE Rename(p) \/ Drop(p) \/ Kill(p)
  <2>1. Open(q)' /\ w'[q].ino = w[q].ino /\ Reap
    BY <1>1, <1>9 DEF Open, Rename, Drop, Kill
  <2> QED
    BY <1>2, <2>1 DEF Reap, Used
<1> QED
  BY <1>4, <1>5, <1>6, <1>7, <1>8, <1>9
     DEF Step, Begin, Refuse, RejectDuplicate, EmptyArchive, IoError, Fail

(* The row groups under an output come from the writer that renamed it.    *)
LEMMA OutputsSized ==
  ASSUME Inductive, Sized, NEW p \in Packers, Step(p)
  PROVE  GroupsSplitAtThreshold'
<1> SUFFICES ASSUME NEW o \in Outs, link'[o] # NoFile
             PROVE  SplitShard(data'[link'[o]])
  BY DEF GroupsSplitAtThreshold, SplitShard
<1>1. link[o] # NoFile => SplitShard(data[link[o]])
  BY DEF Sized, GroupsSplitAtThreshold, SplitShard
<1>2. CASE ~Rename(p)
  BY <1>1, <1>2, OutputKept
<1>3. CASE Rename(p)
  <2>1. /\ Open(p) /\ ~Published(p) /\ o \in Names /\ Tmp(p) \notin Outs
        /\ Tmp(p) \in Names /\ call[p].out \in Names
    BY <1>3, CallFields DEF Rename, Open, Published, Names, Live, Inductive
  <2>2. link[Tmp(p)] = w[p].ino /\ w[p].ino \in Inodes
    BY <2>1, WriterFields DEF Inductive, Handles, CallsOK
  <2>3. link'[o] = IF o = call[p].out THEN w[p].ino ELSE link[o]
    BY <1>3, <2>1, <2>2 DEF Rename, Inductive, TypeOK
  <2>4. link'[o] \in Inodes /\ SplitShard(data[link'[o]])
    BY <1>1, <1>3, <2>1, <2>2, <2>3 DEF Sized, SizedOf, Rename, Inductive, TypeOK
  <2>5. data'[link'[o]] = data[link'[o]]
    BY <1>3, <2>1, <2>4 DEF Rename, Reap, Used
  <2> QED
    BY <2>4, <2>5
<1> QED
  BY <1>2, <1>3

(* What p's own step does to the writer p uses. *)
LEMMA OwnSized ==
  ASSUME Inductive, Sized, NEW p \in Packers, Step(p)
  PROVE  SizedOf(p)'
<1> USE DEF Inductive, SizedOf
<1>1. CASE Create(p)
  <2>1. PICK i \in Inodes : w'[p] = NewWriter(i)
    BY <1>1 DEF Create, TypeOK
  <2>2. pc'[p] \in {"append", "drop"} /\ ~Published(p)'
    BY <1>1 DEF Create, TypeOK, Published, CallsOK
  <2> DEFINE v == NewWriter(i)
  <2>3. /\ v.rows = <<>> /\ v.cuts = <<>> /\ v.pending = 0 /\ v.bytes = 0
        /\ <<>> \in Seq(Entry) /\ LastCut(v.cuts) = 0
    BY DEF NewWriter, LastCut
  <2>4. Total(<<>>) = 0 /\ Bytes(<<>>, 0 + 1, 0) = 0
    <3>1. Offsets(<<>>)[0] = 0
      BY <2>3, OffsetsRecursion
    <3>2. Len(<<>>) = 0 /\ (0 + 1) - 1 = 0
      OBVIOUS
    <3> QED
      BY <3>1, <3>2 DEF Total, Bytes
  <2>5. Measured(v)
    <3>1. AllEnded(<<>>, <<>>)
      BY DEF AllEnded
    <3> QED
      BY <2>3, <2>4, <3>1, DataAssumption DEF Measured, Counted
  <2> QED
    BY <2>1, <2>2, <2>5
<1>2. CASE AppendRow(p)
  <2> DEFINE e == NextEntry(p)
             a == Add(w[p], e)
             c == data[w[p].ino]
  <2>1. pc[p] = "append" /\ Live(p) /\ Open(p)
    BY <1>2 DEF AppendRow, Live, Open
  <2>2. /\ w[p] \in Writer /\ c \in Seq(Block) /\ Consistent(w[p], c) /\ Measured(w[p])
    BY <2>1, WriterFields DEF Contents, ContentsOf, CallsOK, TypeOK, Sized
  <2>3. e \in Entry
    BY <1>2, <2>1, <2>2, CallFields, WriterFields DEF AppendRow, MoreInput, NextEntry
  <2>4. /\ Counted(a)
        /\ a.pending < MaxPending => Measured(a)
        /\ a.pending >= MaxPending => Reaching(a)
        /\ a.pending \in Nat
    <3>1. a \in Writer
      BY <2>2, <2>3, AddFields
    <3> QED
      BY <2>2, <2>3, <3>1, AddMeasured, WriterFields
  <2>5. /\ w'[p] = a
        /\ pc'[p] = IF a.pending >= MaxPending THEN "flush" ELSE "append"
    BY <1>2, <2>1 DEF AppendRow, TypeOK
  <2> HIDE DEF a
  <2>6. CASE a.pending >= MaxPending
    BY <2>4, <2>5, <2>6 DEF Published
  <2>7. CASE ~(a.pending >= MaxPending)
    <3>1. a.pending < MaxPending
      BY <2>4, <2>7, DataAssumption
    <3> QED
      BY <2>4, <2>5, <2>7, <3>1 DEF Published
  <2> QED
    BY <2>6, <2>7
<1>7. CASE WriteGroup(p)
  <2> DEFINE v == Cut(w[p])
  <2>1. /\ pc[p] \in {"flush", "finish"} /\ Open(p)
        /\ w'[p] = v
        /\ pc'[p] = IF Buffered(v) THEN pc[p]
                    ELSE IF pc[p] = "flush" THEN "append" ELSE "close"
    BY <1>7 DEF WriteGroup, TypeOK, Open
  <2>2. /\ w[p] \in Writer /\ data[w[p].ino] \in Seq(Block)
        /\ Consistent(w[p], data[w[p].ino]) /\ Buffered(w[p]) /\ Counted(w[p])
        /\ pc[p] = "flush" => Reaching(w[p])
        /\ pc[p] = "finish" => Flushing(w[p])
    BY <2>1, WriterFields DEF Contents, ContentsOf, CallsOK, TypeOK, Sized
  <2>3. CASE pc[p] = "flush"
    <3>1. /\ Buffered(v) => Counted(v) /\ Reaching(v)
          /\ ~Buffered(v) => Measured(v)
      BY <2>2, <2>3, FlushMeasured
    <3> HIDE DEF v
    <3> QED
      BY <2>1, <2>3, <3>1 DEF Published
  <2>4. CASE pc[p] = "finish"
    <3>1. /\ Buffered(v) => Counted(v) /\ Flushing(v)
          /\ ~Buffered(v) => /\ SplitAtThreshold(v.rows, v.cuts)
                             /\ v.bytes = Total(v.rows)
      BY <2>2, <2>4, LastCutMeasured
    <3> HIDE DEF v
    <3> QED
      BY <2>1, <2>4, <3>1 DEF Published
  <2> QED
    BY <2>1, <2>3, <2>4
<1>3. CASE FinishFlush(p)
  <2>1. /\ pc[p] = "append" /\ Open(p) /\ w'[p] = w[p]
        /\ pc'[p] = IF Buffered(w[p]) THEN "finish" ELSE "close"
    BY <1>3 DEF FinishFlush, TypeOK, Open
  <2>2. /\ w[p] \in Writer /\ data[w[p].ino] \in Seq(Block)
        /\ Consistent(w[p], data[w[p].ino]) /\ Measured(w[p])
    BY <2>1, WriterFields DEF Contents, ContentsOf, CallsOK, TypeOK, Sized
  <2>3. CASE Buffered(w[p])
    <3>1. Flushing(w[p]) /\ Counted(w[p])
      BY <2>2, <2>3, FinishMeasured DEF Measured
    <3> QED
      BY <2>1, <2>3, <3>1 DEF Published
  <2>4. CASE ~Buffered(w[p])
    <3>1. /\ SplitAtThreshold(w[p].rows, w[p].cuts)
          /\ w[p].bytes = Total(w[p].rows)
      BY <2>2 DEF Measured, Counted, AllEnded, Ended, Fits, SplitAtThreshold
    <3> QED
      BY <2>1, <2>4, <3>1 DEF Published
  <2> QED
    BY <2>3, <2>4
<1>4. CASE Close(p)
  <2> DEFINE c == data[w[p].ino]
             b == Footer(w[p].rows, w[p].cuts)
             d == WriteAt(c, w[p].pos, b)
  <2>1. /\ pc[p] = "close" /\ pc'[p] = "rename" /\ Open(p) /\ Live(p) /\ ~Published(p)'
        /\ w' = w /\ call' = call
    BY <1>4 DEF Close, TypeOK, Open, Live, Published
  <2>2. /\ w[p] \in Writer /\ w[p].ino \in Inodes /\ c \in Seq(Block)
        /\ Consistent(w[p], c) /\ Follows(w[p], call[p].input)
        /\ w[p].files = Len(call[p].input)
        /\ SplitAtThreshold(w[p].rows, w[p].cuts) /\ w[p].bytes = Total(w[p].rows)
    BY <2>1, WriterFields DEF Contents, ContentsOf, CallsOK, TypeOK, Sized
  <2>3. data'[w[p].ino] = d
    BY <1>4, <2>2 DEF Close, TypeOK
  <2>4. b \in Block /\ b.rows = w[p].rows /\ b.cuts = w[p].cuts
    BY <2>2, WriterFields DEF Footer, Block
  <2>5. w[p].pos = Len(c) + 1
    BY <2>2 DEF Consistent
  <2> HIDE DEF b, c
  <2>6. Len(d) = Len(c) + 1 /\ d[Len(c) + 1] = b
    BY <2>2, <2>4, <2>5, WriteAtEnd DEF c
  <2>7. SplitShard(d)
    BY <2>2, <2>4, <2>6 DEF SplitShard
  <2>8. w[p].rows = call[p].input
    BY <2>1, <2>2, CallFields, SubSeqFull DEF Follows
  <2> HIDE DEF d
  <2> QED
    BY <2>1, <2>2, <2>3, <2>7, <2>8
<1>5. CASE Rename(p)
  <2>1. /\ pc[p] = "rename" /\ pc'[p] = "drop" /\ w' = w /\ call' = call
        /\ Open(p) /\ Open(p)' /\ Reap
    BY <1>5 DEF Rename, TypeOK, Open
  <2>2. /\ SplitShard(data[w[p].ino]) /\ w[p].bytes = Total(call[p].input)
        /\ w[p].ino \in Inodes
    BY <2>1, WriterFields DEF Sized, CallsOK
  <2>3. data'[w[p].ino] = data[w[p].ino]
    BY <2>1, <2>2 DEF Reap, Used
  <2> QED
    BY <2>1, <2>2, <2>3
<1>6. CASE \/ Begin(p) \/ Refuse(p) \/ RejectDuplicate(p) \/ EmptyArchive(p)
           \/ IoError(p) \/ Drop(p) \/ Kill(p)
  <2>1. pc'[p] \in {"idle", "create", "drop"} /\ ~Published(p)'
    BY <1>6 DEF Begin, Refuse, RejectDuplicate, EmptyArchive, IoError, Drop, Kill,
                Fail, Return, Published, TypeOK
  <2> QED
    BY <2>1
<1> QED
  BY <1>1, <1>2, <1>3, <1>4, <1>5, <1>6, <1>7 DEF Step

LEMMA SizedStep ==
  ASSUME Inductive, Sized, [Next]_vars
  PROVE  Sized'
<1>1. ASSUME NEW p \in Packers, Step(p) PROVE Sized'
  <2>1. ASSUME NEW q \in Packers, q # p PROVE SizedOf(q)'
    <3>1. /\ pc'[q] = pc[q] /\ call'[q] = call[q]
          /\ result'[q] = result[q] /\ w'[q] = w[q]
          /\ Open(q) => data'[w[q].ino] = data[w[q].ino]
      BY <1>1, <2>1, OthersKept
    <3> QED
      BY <3>1 DEF Sized, SizedOf, Published, Open
  <2> QED
    BY <1>1, <2>1, OwnSized, OutputsSized DEF Sized
<1>2. CASE UNCHANGED vars
  BY <1>2 DEF vars, Sized, SizedOf, Published, GroupsSplitAtThreshold
<1> QED
  BY <1>1, <1>2 DEF Next

THEOREM SizedInvariant ==
  ASSUME SharedOut = FALSE PROVE Spec => []Sized
<1>1. Init => Sized
  BY DEF Init, Sized, SizedOf, Published, GroupsSplitAtThreshold, Names
<1>2. Inductive /\ Sized /\ [Next]_vars => Sized'
  BY SizedStep
<1> QED
  BY <1>1, <1>2, InductiveInvariant, PTL DEF Spec

(* The row groups of a published shard are what flushing at the limit, and *)
(* the parquet writer's own limit on rows, make of its rows: any but the   *)
(* last is full of rows or ends a flush that the limit made, and none goes *)
(* on after a row with which it reached either limit.                      *)
THEOREM GroupsAreSplitAtThreshold ==
  ASSUME SharedOut = FALSE PROVE Spec => []GroupsSplitAtThreshold
<1>1. Sized => GroupsSplitAtThreshold
  BY DEF Sized
<1> QED
  BY <1>1, SizedInvariant, PTL

(* A call that returns Ok has stored exactly what it gathered, and its     *)
(* summary counts the files and the bytes.                                 *)
THEOREM OkMeansStored ==
  ASSUME SharedOut = FALSE PROVE Spec => []PublishedIsRequest
<1>1. Inductive /\ Sized => PublishedIsRequest
  <2> SUFFICES ASSUME Inductive, Sized, NEW p \in Packers, Published(p)
               PROVE  /\ link[call[p].out] = w[p].ino
                      /\ Stores(data[w[p].ino], call[p].input)
                      /\ w[p].files = Len(call[p].input)
                      /\ w[p].bytes = Total(call[p].input)
    BY DEF PublishedIsRequest, Published, Stores
  <2>1. Open(p)
    BY DEF Published, Open
  <2> QED
    BY <2>1 DEF Inductive, Handles, Contents, ContentsOf, Sized, SizedOf
<1> QED
  BY <1>1, InductiveInvariant, SizedInvariant, PTL
-----------------------------------------------------------------------------
(* The refinement: Begin accepts, Rename publishes, Refuse, Drop and Kill  *)
(* leave, and nothing else shows.                                          *)

LEMMA MappingKept ==
  ASSUME Inductive, NEW p \in Packers, Step(p)
  PROVE  /\ ~Rename(p) => Visible' = Visible
         /\ \A q \in Packers : q # p => Phase'[q] = Phase[q] /\ Asked'[q] = Asked[q]
<1>1. ~Rename(p) => Visible' = Visible
  <2> SUFFICES ASSUME ~Rename(p), NEW o \in Outs
               PROVE  (IF link[o] = NoFile THEN NoFile ELSE RowsOf(data[link[o]]))'
                        = IF link[o] = NoFile THEN NoFile ELSE RowsOf(data[link[o]])
    BY DEF Visible
  <2> QED
    BY OutputKept
<1>2. ASSUME NEW q \in Packers, q # p
      PROVE  pc'[q] = pc[q] /\ call'[q] = call[q] /\ result'[q] = result[q]
  BY <1>2 DEF Step, Begin, Refuse, Create, AppendRow, WriteGroup, RejectDuplicate, EmptyArchive,
              IoError, FinishFlush, Close, Rename, Drop, Kill, Fail, Return,
              Inductive, TypeOK
<1> QED
  BY <1>1, <1>2 DEF Phase, Asked, Live

LEMMA AbstractStep ==
  ASSUME Inductive, [Next]_vars
  PROVE  [Abstract!ANext]_(Abstract!avars)
<1>1. ASSUME NEW p \in Packers, Begin(p)
      PROVE  Abstract!Accept(p)
  <2>1. PICK c \in Calls : call' = [call EXCEPT ![p] = c]
    BY <1>1 DEF Begin
  <2>2. /\ pc[p] = "idle" /\ pc' = [pc EXCEPT ![p] = "create"] /\ result' = result
        /\ ~Rename(p)
    BY <1>1 DEF Begin, Rename
  <2>3. Visible' = Visible
    BY <1>1, <2>2, MappingKept DEF Step
  <2>4. \A q \in Packers : q # p => Phase'[q] = Phase[q] /\ Asked'[q] = Asked[q]
    BY <1>1, MappingKept DEF Step
  <2> DEFINE a == [out |-> c.out, rows |-> c.input]
  <2>5. a \in Abstract!Order
    BY DEF Calls, Abstract!Order
  <2>6. Asked'[p] = a /\ Phase'[p] = "running" /\ Phase[p] = "idle"
    BY <2>1, <2>2 DEF Asked, Phase, Live, Inductive, TypeOK
  <2>7. Asked' = [Asked EXCEPT ![p] = a] /\ Phase' = [Phase EXCEPT ![p] = "running"]
    BY <2>4, <2>6 DEF Asked, Phase
  <2> HIDE DEF a
  <2> QED
    BY <2>3, <2>5, <2>6, <2>7 DEF Abstract!Accept
<1>2. ASSUME NEW p \in Packers, Rename(p)
      PROVE  Abstract!Publish(p)
  <2> DEFINE o == call[p].out
  <2>1. /\ Live(p) /\ Open(p) /\ pc[p] = "rename" /\ ~Published(p)
        /\ o \in Outs /\ o \in Names /\ call[p].input \in Inputs
        /\ Tmp(p) \in Names /\ Tmp(p) \notin Outs
    BY <1>2, CallFields DEF Inductive, Rename, Live, Open, Published, Names
  <2>2. /\ link[Tmp(p)] = w[p].ino /\ w[p].ino \in Inodes
        /\ Stores(data[w[p].ino], call[p].input)
    BY <2>1, WriterFields DEF Inductive, Handles, Contents, ContentsOf, CallsOK
  <2>3. /\ link'[o] = w[p].ino
        /\ \A q \in Outs : q # o => link'[q] = link[q]
        /\ call' = call /\ Reap
        /\ pc' = [pc EXCEPT ![p] = "drop"] /\ result' = [result EXCEPT ![p] = "ok"]
    BY <1>2, <2>1, <2>2 DEF Rename, Inductive, TypeOK, Names
  <2>4. ASSUME NEW q \in Outs, link'[q] # NoFile
        PROVE  data'[link'[q]] = data[link'[q]]
    <3>1. link'[q] \in Inodes /\ q \in Names
      BY <2>2, <2>3, <2>4 DEF Inductive, TypeOK, Names
    <3>2. data'[link'[q]] = IF Used(link[q])' THEN data[link'[q]] ELSE <<>>
      BY <2>3, <3>1 DEF Reap, Used
    <3> QED
      BY <3>1, <3>2 DEF Used
  <2>5. Visible' = [Visible EXCEPT ![o] = call[p].input]
    <3>1. Visible'[o] = call[p].input
      BY <2>1, <2>2, <2>3, <2>4, NamesAssumption DEF Visible, Stores
    <3>2. ASSUME NEW q \in Outs, q # o PROVE Visible'[q] = Visible[q]
      BY <2>3, <2>4, <3>2 DEF Visible
    <3> QED
      BY <2>1, <3>1, <3>2 DEF Visible
  <2>6. \A q \in Packers : q # p => Phase'[q] = Phase[q]
    BY <1>2, MappingKept DEF Step
  <2>7. Phase[p] = "running" /\ Phase'[p] = "published"
    BY <2>1, <2>3 DEF Phase, Inductive, TypeOK
  <2>8. Phase' = [Phase EXCEPT ![p] = "published"]
    BY <2>6, <2>7 DEF Phase
  <2>9. /\ Asked' = Asked
        /\ Asked[p].out = o /\ Asked[p].rows = call[p].input
    BY <2>1, <2>3 DEF Asked, Live, Inductive, TypeOK
  <2>10. call[p].input \in Acceptable
    BY <2>1, <2>2 DEF Acceptable, Stores
  <2> QED
    BY <2>5, <2>7, <2>8, <2>9, <2>10 DEF Abstract!Publish
<1>3. ASSUME NEW p \in Packers, Refuse(p) \/ Drop(p) \/ Kill(p)
      PROVE  Abstract!Leave(p)
  <2>1. /\ Live(p) /\ Return(p) /\ Step(p)
    BY <1>3 DEF Refuse, Drop, Kill, Live, Step
  <2>2. ~Rename(p)
    BY <2>1 DEF Return, Rename, Inductive, TypeOK
  <2>3. Visible' = Visible
    BY <2>1, <2>2, MappingKept
  <2>4. \A q \in Packers : q # p => Phase'[q] = Phase[q] /\ Asked'[q] = Asked[q]
    BY <2>1, MappingKept
  <2>5. Phase[p] # "idle" /\ Phase'[p] = "idle" /\ Asked'[p] = NoCall
    BY <2>1 DEF Phase, Asked, Return, Live, Inductive, TypeOK
  <2>6. Phase' = [Phase EXCEPT ![p] = "idle"] /\ Asked' = [Asked EXCEPT ![p] = NoCall]
    BY <2>4, <2>5 DEF Phase, Asked
  <2> QED
    BY <2>3, <2>5, <2>6 DEF Abstract!Leave
<1>4. ASSUME NEW p \in Packers, Step(p),
             ~Begin(p), ~Rename(p), ~Refuse(p), ~Drop(p), ~Kill(p)
      PROVE  UNCHANGED Abstract!avars
  <2>1. Visible' = Visible
    BY <1>4, MappingKept
  <2>2. \A q \in Packers : q # p => Phase'[q] = Phase[q] /\ Asked'[q] = Asked[q]
    BY <1>4, MappingKept
  <2>3. /\ call' = call
        /\ pc[p] \notin {"idle", "drop"} /\ pc'[p] # "idle"
        /\ ~(pc'[p] = "drop" /\ result'[p] = "ok")
    BY <1>4 DEF Step, Create, AppendRow, WriteGroup, RejectDuplicate, EmptyArchive, IoError,
                FinishFlush, Close, Fail, Inductive, TypeOK
  <2>4. Phase'[p] = Phase[p] /\ Asked'[p] = Asked[p]
    BY <2>3 DEF Phase, Asked, Live
  <2>5. Phase' = Phase /\ Asked' = Asked
    BY <2>2, <2>4 DEF Phase, Asked
  <2> QED
    BY <2>1, <2>5 DEF Abstract!avars
<1>5. CASE UNCHANGED vars
  BY <1>5 DEF vars, Abstract!avars, Visible, Phase, Asked, Live
<1> QED
  BY <1>1, <1>2, <1>3, <1>4, <1>5 DEF Next, Abstract!ANext

(* The pack calls implement the atomic output. *)
THEOREM ImplementsAtomicOutput ==
  ASSUME SharedOut = FALSE PROVE Spec => AtomicOutputSpec
<1>1. Init => Abstract!AInit
  BY NamesAssumption DEF Init, Abstract!AInit, Visible, Phase, Asked, Live, Names
<1>2. Inductive /\ [Next]_vars => [Abstract!ANext]_(Abstract!avars)
  BY AbstractStep
<1> QED
  BY <1>1, <1>2, InductiveInvariant, PTL DEF Spec, AtomicOutputSpec, Abstract!ASpec
=============================================================================
