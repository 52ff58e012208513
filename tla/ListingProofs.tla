--------------------------- MODULE ListingProofs ---------------------------
(***************************************************************************)
(* Theorems about Listing, for every set of files, with no bound on the    *)
(* depth of the tree or on the names in it.                                *)
(***************************************************************************)
EXTENDS Listing, SequenceLemmas, SequenceTheorems, TLAPS
-----------------------------------------------------------------------------
(* The byte order. *)

LEMMA StringTypes ==
  ASSUME NEW p \in Canonical
  PROVE  /\ Path(p) \in Seq(Nat) /\ Len(Path(p)) = Len(p)
         /\ Slashed(p) \in Seq(Nat) /\ Len(Slashed(p)) = Len(p)
         /\ \A i \in 1..Len(p) : /\ Slashed(p)[i] = Inner[p[i]]
                                 /\ i < Len(p) => Path(p)[i] = Inner[p[i]]
                                 /\ i = Len(p) => Path(p)[i] = Last[p[i]]
<1>1. Len(p) \in Nat /\ \A i \in 1..Len(p) : p[i] \in Segments
  BY DEF Canonical
<1>2. \A i \in 1..Len(p) : Inner[p[i]] \in Nat /\ Last[p[i]] \in Nat
  BY <1>1, OrderAssumption
<1>3. /\ Path(p) \in [1..Len(p) -> Nat]
      /\ Slashed(p) \in [1..Len(p) -> Nat]
  BY <1>2 DEF Path, Slashed
<1> QED
  BY <1>1, <1>3 DEF Path, Slashed

(* The strings that begin with a path and its '/' are the paths below it. *)
LEMMA BelowIsPrefix ==
  ASSUME NEW p \in Canonical, NEW k \in Canonical
  PROVE  Extends(k, p) <=> Extends(Path(k), Slashed(p))
<1>1. /\ \A i \in 1..Len(p) : p[i] \in Segments
      /\ \A i \in 1..Len(k) : k[i] \in Segments
      /\ Len(p) \in Nat /\ Len(k) \in Nat
  BY DEF Canonical
<1>2. ASSUME Len(k) > Len(p), NEW i \in 1..Len(p)
      PROVE  k[i] = p[i] <=> Path(k)[i] = Slashed(p)[i]
  <2>1. i \in 1..Len(k) /\ i < Len(k)
    BY <1>1, <1>2
  <2>2. Path(k)[i] = Inner[k[i]] /\ Slashed(p)[i] = Inner[p[i]]
    BY <2>1, StringTypes
  <2>3. k[i] \in Segments /\ p[i] \in Segments
    BY <1>1, <2>1
  <2> QED
    BY <2>2, <2>3, OrderAssumption
<1>3. Len(Path(k)) = Len(k) /\ Len(Slashed(p)) = Len(p)
  BY StringTypes
<1> QED
  BY <1>2, <1>3 DEF Extends

(* What begins with q does not come before q. *)
LEMMA PrefixComesFirst ==
  ASSUME NEW q \in Seq(Nat), NEW x \in Seq(Nat), Extends(x, q)
  PROVE  ~Before(x, q)
<1>1. \A i \in 1..Len(q) : x[i] = q[i] /\ q[i] \in Nat
  BY DEF Extends
<1>2. ~Extends(q, x)
  BY DEF Extends
<1>3. ASSUME NEW n \in 1..Len(x), n <= Len(q), x[n] < q[n]
      PROVE  FALSE
  <2>1. n \in 1..Len(q)
    BY <1>3
  <2> QED
    BY <1>1, <1>3, <2>1
<1> QED
  BY <1>2, <1>3 DEF Before

(* The strings that begin with q are neighbours: one that comes no earlier *)
(* than q and before a string that begins with q begins with q as well.    *)
LEMMA PrefixesAreNeighbours ==
  ASSUME NEW q \in Seq(Nat), NEW x \in Seq(Nat), NEW y \in Seq(Nat),
         ~Before(x, q), Before(x, y), Extends(y, q), x # q
  PROVE  Extends(x, q)
<1>1. /\ Len(x) \in Nat /\ Len(y) \in Nat /\ Len(q) \in Nat
      /\ \A i \in 1..Len(x) : x[i] \in Nat
      /\ \A i \in 1..Len(q) : q[i] \in Nat /\ y[i] = q[i]
      /\ Len(y) > Len(q)
  BY DEF Extends
<1>2. CASE Extends(y, x)
  <2>1. \A i \in 1..Len(x) : y[i] = x[i]
    BY <1>2 DEF Extends
  <2>2. CASE Len(x) > Len(q)
    BY <1>1, <2>1, <2>2 DEF Extends
  <2>3. CASE Len(x) < Len(q)
    <3>1. \A i \in 1..Len(x) : q[i] = x[i]
      BY <1>1, <2>1, <2>3
    <3> QED
      BY <3>1, <2>3 DEF Before, Extends
  <2>4. CASE Len(x) = Len(q)
    <3>1. \A i \in 1..Len(x) : q[i] = x[i]
      BY <1>1, <2>1, <2>4
    <3>2. x = q
      BY <3>1, <2>4, SeqEqual
    <3> QED
      BY <3>2
  <2> QED
    BY <1>1, <2>2, <2>3, <2>4
<1>3. CASE \E n \in 1..Len(x) : /\ n <= Len(y) /\ x[n] < y[n]
                                /\ \A i \in 1..(n - 1) : x[i] = y[i]
  <2>1. PICK n \in 1..Len(x) : /\ n <= Len(y) /\ x[n] < y[n]
                               /\ \A i \in 1..(n - 1) : x[i] = y[i]
    BY <1>3
  <2>2. CASE n > Len(q)
    <3>1. \A i \in 1..Len(q) : x[i] = q[i]
      BY <1>1, <2>1, <2>2
    <3> QED
      BY <1>1, <2>1, <2>2, <3>1 DEF Extends
  <2>3. CASE n <= Len(q)
    <3>1. n \in 1..Len(q) /\ x[n] < q[n]
      BY <1>1, <2>1, <2>3
    <3>2. \A i \in 1..(n - 1) : x[i] = q[i]
      BY <1>1, <2>1, <2>3
    <3>3. Before(x, q)
      BY <3>1, <3>2, <2>3 DEF Before
    <3> QED
      BY <3>3
  <2> QED
    BY <1>1, <2>2, <2>3
<1> QED
  BY <1>2, <1>3 DEF Before

(* The same of paths: the files below a directory are all in its range,    *)
(* and are neighbours there.                                               *)
LEMMA KeysHaveDirectory ==
  ASSUME TypeOK, NEW p \in Canonical, NEW k \in files, Extends(k, p)
  PROVE  k \in KeysFrom(p)
<1>1. k \in Canonical
  BY DEF TypeOK
<1>2. Extends(Path(k), Slashed(p))
  BY <1>1, BelowIsPrefix
<1>3. ~Before(Path(k), Slashed(p))
  BY <1>1, <1>2, StringTypes, PrefixComesFirst
<1> QED
  BY <1>3 DEF KeysFrom

LEMMA DirectoryIsTogether ==
  ASSUME TypeOK, NEW p \in Canonical, NEW k \in KeysFrom(p), NEW j \in files,
         Extends(j, p), Before(Path(k), Path(j))
  PROVE  Extends(k, p)
<1>1. k \in Canonical \ {<<>>} /\ j \in Canonical /\ ~Before(Path(k), Slashed(p))
  BY DEF TypeOK, KeysFrom
<1>2. Extends(Path(j), Slashed(p))
  BY <1>1, BelowIsPrefix
<1>3. Path(k) # Slashed(p)
  <2> SUFFICES ASSUME Path(k) = Slashed(p) PROVE FALSE
    OBVIOUS
  <2>1. Len(k) = Len(p) /\ Len(k) \in Nat /\ Len(k) # 0
    BY <1>1, StringTypes, EmptySeq DEF Canonical
  <2>2. Path(k)[Len(k)] = Last[k[Len(k)]] /\ Slashed(p)[Len(k)] = Inner[p[Len(k)]]
    BY <1>1, <2>1, StringTypes
  <2>3. k[Len(k)] \in Segments /\ p[Len(k)] \in Segments
    BY <1>1, <2>1 DEF Canonical
  <2> QED
    BY <2>2, <2>3, OrderAssumption
<1>4. /\ Path(k) \in Seq(Nat) /\ Path(j) \in Seq(Nat) /\ Slashed(p) \in Seq(Nat)
  BY <1>1, StringTypes
<1>5. Extends(Path(k), Slashed(p))
  BY <1>1, <1>2, <1>3, <1>4, PrefixesAreNeighbours
<1> QED
  BY <1>1, <1>5, BelowIsPrefix

(* Two different paths are different strings, and one of them comes first. *)
LEMMA OneComesFirst ==
  ASSUME NEW x \in Seq(Nat), NEW y \in Seq(Nat), x # y
  PROVE  Before(x, y) \/ Before(y, x)
<1> DEFINE D == {i \in 1..Len(x) : i <= Len(y) /\ x[i] # y[i]}
<1>1. CASE D = {}
  <2>1. \A i \in 1..Len(x) : i <= Len(y) => x[i] = y[i]
    BY <1>1
  <2>2. CASE Len(x) = Len(y)
    BY <2>1, <2>2, SeqEqual
  <2>3. CASE Len(x) < Len(y)
    BY <2>1, <2>3 DEF Before, Extends
  <2>4. CASE Len(x) > Len(y)
    BY <2>1, <2>4 DEF Before, Extends
  <2> QED
    BY <2>2, <2>3, <2>4
<1>2. CASE D # {}
  <2>1. PICK n \in D : \A i \in D : n <= i
    <3>1. D \subseteq Nat
      OBVIOUS
    <3> QED
      BY <1>2, <3>1, LeastElement
  <2>2. /\ n \in 1..Len(x) /\ n \in 1..Len(y) /\ n <= Len(y) /\ n <= Len(x)
        /\ x[n] # y[n]
        /\ \A i \in 1..(n - 1) : x[i] = y[i]
    <3>1. Len(x) \in Nat /\ Len(y) \in Nat
      OBVIOUS
    <3>2. n \in 1..Len(x) /\ n <= Len(y) /\ x[n] # y[n]
      OBVIOUS
    <3>3. ASSUME NEW i \in 1..(n - 1), x[i] # y[i] PROVE FALSE
      <4>1. i \in 1..Len(x) /\ i <= Len(y) /\ i < n
        BY <3>1, <3>2
      <4>2. i \in D
        BY <4>1, <3>3
      <4> QED
        BY <2>1, <4>1, <4>2, <3>1, <3>2
    <3> QED
      BY <3>1, <3>2, <3>3
  <2>3. x[n] \in Nat /\ y[n] \in Nat
    BY <2>2
  <2>4. x[n] < y[n] \/ y[n] < x[n]
    BY <2>2, <2>3
  <2> QED
    BY <2>2, <2>4 DEF Before
<1> QED
  BY <1>1, <1>2

LEMMA PathIsInjective ==
  ASSUME NEW k \in Canonical, NEW j \in Canonical, Path(k) = Path(j)
  PROVE  k = j
<1>1. Len(k) = Len(j) /\ Len(k) \in Nat
  BY StringTypes DEF Canonical
<1>2. ASSUME NEW i \in 1..Len(k) PROVE k[i] = j[i]
  <2>1. k[i] \in Segments /\ j[i] \in Segments
    BY <1>1 DEF Canonical
  <2>2. CASE i < Len(k)
    <3>1. Inner[k[i]] = Inner[j[i]]
      BY <1>1, <2>2, StringTypes
    <3> QED
      BY <2>1, <3>1, OrderAssumption
  <2>3. CASE i = Len(k)
    <3>1. Last[k[i]] = Last[j[i]]
      BY <1>1, <2>3, StringTypes
    <3> QED
      BY <2>1, <3>1, OrderAssumption
  <2> QED
    BY <1>1, <2>2, <2>3
<1>3. k \in Seq(Segments) /\ j \in Seq(Segments)
  BY DEF Canonical
<1> QED
  BY <1>1, <1>2, <1>3, SeqEqual
-----------------------------------------------------------------------------
(* The loop of ls.  Visited: the files below the directory that it has     *)
(* come to.                                                                *)
Child(k) == SubSeq(k, 1, Len(prefix) + 1)
Visited  == {k \in files \ todo : Extends(k, prefix)}
Direct   == {k \in Visited : Len(k) = Len(prefix) + 1}
Indirect == {k \in Visited : Len(k) > Len(prefix) + 1}
Pushed   == {[name |-> k, is_dir |-> FALSE] : k \in Direct} \cup
            {[name |-> Child(k), is_dir |-> TRUE] :
               k \in {j \in Indirect : Child(j) \notin files}}

LoopState ==
  pc = "keys" =>
    /\ prefix \notin files
    /\ todo \subseteq KeysFrom(prefix)
    /\ {out[i] : i \in 1..Len(out)} = Pushed
    /\ \A i, j \in 1..Len(out) : out[i].name = out[j].name => i = j
    /\ seen_dirs = {Child(k) : k \in Indirect}

Inductive == TypeOK /\ LoopState /\ ListingIsExact

(* A file below the directory is a child, or is below one. *)
LEMMA ChildFacts ==
  ASSUME TypeOK, NEW k \in files, Extends(k, prefix)
  PROVE  /\ Child(k) \in Canonical \ {<<>>}
         /\ Len(Child(k)) = Len(prefix) + 1
         /\ Extends(Child(k), prefix)
         /\ Len(k) \in Nat /\ Len(k) >= Len(prefix) + 1
         /\ Len(k) = Len(prefix) + 1 => Child(k) = k
<1>1. k \in Seq(Segments) /\ prefix \in Seq(Segments)
  BY DEF TypeOK, Canonical
<1>2. /\ Len(k) \in Nat /\ Len(prefix) \in Nat /\ Len(k) > Len(prefix)
      /\ \A i \in 1..Len(prefix) : k[i] = prefix[i]
  BY <1>1 DEF Extends
<1>3. /\ Child(k) \in Seq(Segments)
      /\ Len(Child(k)) = Len(prefix) + 1
      /\ \A i \in 1..(Len(prefix) + 1) : Child(k)[i] = k[i]
  <2>1. \A i \in 1..(Len(prefix) + 1) : k[i] \in Segments
    BY <1>1, <1>2
  <2> QED
    BY <1>1, <1>2, <2>1, SubSeqProperties DEF Child
<1>4. Extends(Child(k), prefix)
  BY <1>2, <1>3 DEF Extends
<1>5. Len(k) = Len(prefix) + 1 => Child(k) = k
  BY <1>1, <1>2, SubSeqFull DEF Child
<1>6. Child(k) # <<>>
  BY <1>2, <1>3
<1> QED
  BY <1>2, <1>3, <1>4, <1>5, <1>6 DEF Canonical

(* Where the loop ends, it has come to every file below the directory. *)
LEMMA NothingIsLeft ==
  ASSUME TypeOK, LoopState, pc = "keys", AtEnd
  PROVE  Visited = {k \in files : Extends(k, prefix)}
<1> SUFFICES ASSUME NEW k \in todo, Extends(k, prefix) PROVE FALSE
  BY DEF Visited
<1>1. prefix \in Canonical /\ todo \subseteq files /\ todo \subseteq KeysFrom(prefix)
  BY DEF TypeOK, LoopState
<1>2. PICK f \in todo : First(f) /\ ~Extends(f, prefix)
  BY DEF AtEnd
<1>3. Before(Path(f), Path(k))
  BY <1>2 DEF First
<1> QED
  BY <1>1, <1>2, <1>3, DirectoryIsTogether

LEMMA PushedAreChildren ==
  ASSUME TypeOK, Visited = {k \in files : Extends(k, prefix)}
  PROVE  Pushed = Children(prefix)
<1>1. ASSUME NEW e \in Pushed PROVE e \in Children(prefix)
  <2>1. CASE \E k \in Direct : e = [name |-> k, is_dir |-> FALSE]
    <3>1. PICK k \in Direct : e = [name |-> k, is_dir |-> FALSE]
      BY <2>1
    <3>2. k \in files /\ Extends(k, prefix) /\ Child(k) = k
      BY <3>1, ChildFacts DEF Direct, Visited
    <3> QED
      BY <3>1, <3>2 DEF Children, Child
  <2>2. CASE \E k \in Indirect : Child(k) \notin files
                               /\ e = [name |-> Child(k), is_dir |-> TRUE]
    BY <2>2 DEF Children, Child, Indirect, Visited
  <2> QED
    BY <2>1, <2>2 DEF Pushed
<1>2. ASSUME NEW e \in Children(prefix) PROVE e \in Pushed
  <2>1. PICK k \in files : /\ Extends(k, prefix)
                           /\ e = [name |-> Child(k), is_dir |-> Child(k) \notin files]
    BY DEF Children, Child
  <2>2. CASE Child(k) \in files
    <3>1. Child(k) \in Direct
      BY <2>1, <2>2, ChildFacts DEF Direct
    <3>2. e = [name |-> Child(k), is_dir |-> FALSE]
      BY <2>1, <2>2
    <3> QED
      BY <3>1, <3>2 DEF Pushed
  <2>3. CASE Child(k) \notin files
    <3>1. Len(k) # Len(prefix) + 1
      BY <2>1, <2>3, ChildFacts
    <3>2. k \in Indirect
      <4>1. Len(k) \in Nat /\ Len(k) >= Len(prefix) + 1 /\ Len(prefix) \in Nat
        BY <2>1, ChildFacts DEF TypeOK, Canonical
      <4> QED
        BY <2>1, <3>1, <4>1 DEF Indirect
    <3>3. e = [name |-> Child(k), is_dir |-> TRUE]
      BY <2>1, <2>3
    <3> QED
      BY <2>3, <3>2, <3>3 DEF Pushed
  <2> QED
    BY <2>2, <2>3
<1> QED
  BY <1>1, <1>2
-----------------------------------------------------------------------------
(* Types. *)

LEMMA CanonicalIsAnywhere == Canonical \subseteq Anywhere
BY SeqMonotonic DEF Canonical, Anywhere

LEMMA AnywhereFacts ==
  /\ <<>> \in Anywhere
  /\ \A raw \in Anywhere : /\ Len(raw) \in Nat
                            /\ \A i \in 1..Len(raw) : raw[i] \in Segments \cup {""}
<1> DEFINE S == Segments \cup {""}
<1> HIDE DEF S
<1>1. /\ <<>> \in Seq(S)
      /\ \A s \in Seq(S) : Len(s) \in Nat /\ \A i \in 1..Len(s) : s[i] \in S
  BY SeqFacts
<1> QED
  BY <1>1 DEF S, Anywhere

LEMMA StripType ==
  ASSUME NEW raw \in Anywhere
  PROVE  Strip(raw) \in Anywhere
<1> DEFINE named == {i \in 1..Len(raw) : raw[i] # ""}
           least == CHOOSE i \in named : \A j \in named : i <= j
           last  == CHOOSE i \in named : \A j \in named : j <= i
<1>1. Len(raw) \in Nat /\ <<>> \in Anywhere
  BY AnywhereFacts
<1>2. ASSUME named # {} PROVE SubSeq(raw, least, last) \in Anywhere
  <2>1. named \subseteq 1..Len(raw)
    BY Zenon
  <2>2. least \in named /\ last \in named
    <3> HIDE DEF named
    <3> QED
      BY <1>1, <1>2, <2>1, ExtremesExist
  <2>3. least \in 1..Len(raw) /\ last \in 1..Len(raw)
    BY <2>1, <2>2, Zenon
  <2> HIDE DEF least, last
  <2> QED
    BY <2>3, SubSeqInside DEF Anywhere
<1> QED
  BY <1>1, <1>2, Zenon DEF Strip

LEMMA DirsType ==
  ASSUME TypeOK
  PROVE  Dirs \subseteq Canonical
<1> SUFFICES ASSUME NEW d \in Dirs PROVE d \in Canonical
  OBVIOUS
<1>1. PICK k \in files : d \in {SubSeq(k, 1, n) : n \in 1..(Len(k) - 1)}
  BY DEF Dirs
<1>2. PICK n \in 1..(Len(k) - 1) : d = SubSeq(k, 1, n)
  BY <1>1
<1>3. k \in Seq(Segments) /\ Len(k) \in Nat
  BY DEF TypeOK, Canonical
<1>4. 1 \in 1..Len(k) /\ n \in 1..Len(k)
  BY <1>3
<1> QED
  BY <1>2, <1>3, <1>4, SubSeqInside DEF Canonical

LEMMA FindType ==
  ASSUME TypeOK, NEW raw \in Anywhere, NEW depth, NEW withdirs
  PROVE  FindNames(raw, depth, withdirs) \in SUBSET (Anywhere \X {"paths", "dirs"})
<1>1. files \subseteq Anywhere /\ Dirs \subseteq Anywhere
  BY DirsType, CanonicalIsAnywhere DEF TypeOK
<1>2. Strip(raw) \in Anywhere
  BY StripType
<1> QED
  BY <1>1, <1>2 DEF FindNames, Below

LEMMA GlobType ==
  ASSUME TypeOK, NEW raw \in Anywhere, NEW wild
  PROVE  GlobNames(raw, wild) \in SUBSET (Anywhere \X {"paths", "dirs"})
<1>1. files \subseteq Anywhere /\ Dirs \subseteq Anywhere
  BY DirsType, CanonicalIsAnywhere DEF TypeOK
<1> QED
  BY <1>1 DEF GlobNames
-----------------------------------------------------------------------------
(* Steps. *)

LEMMA InitInductive == Init => Inductive
<1> SUFFICES ASSUME Init PROVE Inductive
  OBVIOUS
<1>1. files \in SUBSET (Canonical \ {<<>>})
  BY ListingAssumption DEF Init, Canonical
<1>2. asked \in [op : {"walk", "find", "glob"}, path : Anywhere,
                 depth : Nat, withdirs : BOOLEAN]
  BY AnywhereFacts DEF Init, Call
<1>3. out \in Seq(Entries) /\ prefix \in Canonical
  BY DEF Init, Canonical
<1>4. TypeOK
  BY <1>1, <1>2, <1>3 DEF Init, TypeOK
<1> QED
  BY <1>4 DEF Init, Inductive, LoopState, ListingIsExact

(* Steps that leave the loop and its result alone. *)
LEMMA CallsInductive ==
  ASSUME Inductive, NEW raw \in Raws, Walk(raw) \/ Find(raw) \/ Glob(raw)
  PROVE  Inductive'
<1>1. raw \in Anywhere
  BY ListingAssumption DEF Anywhere
<1>2. /\ pc' \in {"walk", "found"}
      /\ UNCHANGED <<files, prefix, todo, seen_dirs, out, found, omitted>>
  BY DEF Walk, Find, Glob
<1>3. TypeOK
  BY DEF Inductive
<1>4. asked' \in [op : {"walk", "find", "glob"}, path : Anywhere,
                  depth : Nat, withdirs : BOOLEAN]
  <2>1. CASE Walk(raw)
    BY <1>1, <2>1 DEF Walk, Call
  <2>2. CASE Find(raw)
    <3>1. PICK depth \in Depths \cup {0}, withdirs \in BOOLEAN :
            asked' = Call("find", raw, depth, withdirs)
      BY <2>2 DEF Find
    <3>2. Depths \subseteq Nat \ {0}
      BY ListingAssumption, Zenon
    <3>3. depth \in Nat
      BY <3>2
    <3> QED
      BY <1>1, <3>1, <3>3 DEF Call
  <2>3. CASE Glob(raw)
    BY <1>1, <2>3 DEF Glob, Call
  <2> QED
    BY <2>1, <2>2, <2>3
<1>5. pending' \in SUBSET Anywhere
  <2>1. CASE Walk(raw)
    BY <1>1, <2>1, StripType DEF Walk
  <2>2. CASE Find(raw) \/ Glob(raw)
    BY <1>3, <2>2 DEF Find, Glob, TypeOK
  <2> QED
    BY <2>1, <2>2
<1>6. reply' \in SUBSET (Anywhere \X {"paths", "dirs"})
  <2>1. CASE Walk(raw)
    BY <1>3, <2>1 DEF Walk, TypeOK
  <2>2. CASE Find(raw)
    <3>1. PICK depth \in Depths \cup {0}, withdirs \in BOOLEAN :
            reply' = FindNames(raw, depth, withdirs)
      BY <2>2 DEF Find
    <3> QED
      BY <1>1, <1>3, <3>1, FindType
  <2>3. CASE Glob(raw)
    <3>1. CASE \E wild \in {"*", "**"} : reply' = GlobNames(raw, wild)
      BY <1>1, <1>3, <3>1, GlobType
    <3>2. CASE reply' = IF Exists(Strip(raw)) THEN {<<Strip(raw), "paths">>} ELSE {}
      BY <1>1, <3>2, StripType
    <3> QED
      BY <2>3, <3>1, <3>2 DEF Glob
  <2> QED
    BY <2>1, <2>2, <2>3
<1>7. TypeOK'
  BY <1>2, <1>3, <1>4, <1>5, <1>6 DEF TypeOK
<1> QED
  BY <1>2, <1>7 DEF Inductive, LoopState, ListingIsExact

LEMMA LsInductive ==
  ASSUME Inductive, NEW path \in pending, Ls(path)
  PROVE  Inductive'
<1> DEFINE norm == Normalize(path)
<1> HIDE DEF norm
<1>1. TypeOK
  BY DEF Inductive
<1>2. /\ pending' = pending \ {path}
      /\ seen_dirs' = {}
      /\ UNCHANGED <<files, asked, found, omitted, reply>>
  BY DEF Ls
<1>3. CASE /\ norm \in files
           /\ out' = <<[name |-> norm, is_dir |-> FALSE]>>
           /\ prefix' = norm /\ todo' = {} /\ pc' = "listed"
  <2>1. norm \in Canonical
    BY <1>1, <1>3 DEF TypeOK
  <2>2. out' \in Seq(Entries)
    BY <1>3, <2>1 DEF Entries
  <2>3. TypeOK'
    BY <1>1, <1>2, <1>3, <2>1, <2>2 DEF TypeOK
  <2> QED
    BY <1>2, <1>3, <2>3 DEF Inductive, LoopState, ListingIsExact
<1>4. CASE /\ norm \notin files /\ IsDir(norm)
           /\ out' = <<>>
           /\ prefix' = norm /\ todo' = KeysFrom(norm) /\ pc' = "keys"
  <2>1. norm \in Canonical
    BY <1>1, <1>4, DirsType, SeqFacts DEF IsDir, Canonical
  <2>2. out' \in Seq(Entries)
    BY <1>4, SeqFacts
  <2>3. todo' \in SUBSET files
    BY <1>4 DEF KeysFrom
  <2>4. TypeOK'
    BY <1>1, <1>2, <1>4, <2>1, <2>2, <2>3 DEF TypeOK
  <2>5. Visited' = {}
    BY <1>1, <1>2, <1>4, <2>1, KeysHaveDirectory DEF Visited
  <2>6. Pushed' = {} /\ Indirect' = {}
    BY <2>5 DEF Pushed, Direct, Indirect
  <2>7. KeysFrom(norm)' = KeysFrom(norm)
    BY <1>2 DEF KeysFrom
  <2>8. todo' \subseteq KeysFrom(prefix)'
    BY <1>2, <1>4 DEF KeysFrom
  <2>9. Len(out') = 0
    BY <1>4
  <2>10. LoopState'
    BY <1>2, <1>4, <2>6, <2>8, <2>9 DEF LoopState
  <2> QED
    BY <1>4, <2>4, <2>10 DEF Inductive, ListingIsExact
<1>5. CASE out' = <<>> /\ todo' = {} /\ UNCHANGED <<prefix, pc>>
  <2>1. out' \in Seq(Entries)
    BY <1>5, SeqFacts
  <2>2. TypeOK'
    BY <1>1, <1>2, <1>5, <2>1 DEF TypeOK
  <2> QED
    BY <1>5, <2>2 DEF Ls, Inductive, LoopState, ListingIsExact
<1> QED
  BY <1>3, <1>4, <1>5 DEF Ls, norm

LEMMA AppendEntries ==
  ASSUME NEW S, NEW s \in Seq(S), NEW e \in S
  PROVE  /\ Append(s, e) \in Seq(S)
         /\ Len(Append(s, e)) = Len(s) + 1
         /\ \A i \in 1..Len(s) : Append(s, e)[i] = s[i]
         /\ Append(s, e)[Len(s) + 1] = e
OBVIOUS

LEMMA AppendRange ==
  ASSUME NEW S, NEW s \in Seq(S), NEW e \in S
  PROVE  {Append(s, e)[i] : i \in 1..Len(Append(s, e))} = {s[i] : i \in 1..Len(s)} \cup {e}
<1> DEFINE t == Append(s, e)
<1>1. /\ Len(s) \in Nat /\ Len(t) = Len(s) + 1
      /\ \A i \in 1..Len(s) : t[i] = s[i]
      /\ t[Len(s) + 1] = e
  BY AppendEntries
<1> HIDE DEF t
<1>2. 1..Len(t) = 1..Len(s) \cup {Len(s) + 1}
  BY <1>1
<1>3. {t[i] : i \in 1..Len(t)} = {s[i] : i \in 1..Len(s)} \cup {e}
  BY <1>1, <1>2
<1> QED
  BY <1>3 DEF t

(* A new name at the end of a list of different names. *)
LEMMA AppendNewName ==
  ASSUME NEW s \in Seq(Entries), NEW e \in Entries,
         \A i, j \in 1..Len(s) : s[i].name = s[j].name => i = j,
         \A i \in 1..Len(s) : s[i].name # e.name
  PROVE  \A i, j \in 1..Len(Append(s, e)) :
           Append(s, e)[i].name = Append(s, e)[j].name => i = j
<1> DEFINE t == Append(s, e)
<1>1. /\ Len(s) \in Nat /\ Len(t) = Len(s) + 1
      /\ \A i \in 1..Len(s) : t[i] = s[i]
      /\ t[Len(s) + 1] = e
  BY AppendEntries
<1> HIDE DEF t
<1>2. ASSUME NEW i \in 1..Len(t), NEW j \in 1..Len(t), t[i].name = t[j].name
      PROVE  i = j
  <2>1. i \in 1..Len(s) \/ i = Len(s) + 1
    BY <1>1
  <2>2. j \in 1..Len(s) \/ j = Len(s) + 1
    BY <1>1
  <2> QED
    BY <1>1, <1>2, <2>1, <2>2
<1> QED
  BY <1>2 DEF t

LEMMA PushInductive ==
  ASSUME Inductive, NEW k \in todo, Push(k)
  PROVE  Inductive'
<1>1. TypeOK /\ LoopState /\ pc = "keys" /\ Extends(k, prefix)
  BY DEF Inductive, Push
<1>2. /\ todo' = todo \ {k}
      /\ UNCHANGED <<files, asked, pc, prefix, pending, found, omitted, reply>>
  BY DEF Push
<1>3. /\ prefix \notin files /\ todo \subseteq KeysFrom(prefix)
      /\ {out[i] : i \in 1..Len(out)} = Pushed
      /\ \A i, j \in 1..Len(out) : out[i].name = out[j].name => i = j
      /\ seen_dirs = {Child(j) : j \in Indirect}
  BY <1>1 DEF LoopState
<1>4. k \in files /\ k \notin Visited /\ out \in Seq(Entries) /\ todo \subseteq files
  BY <1>1 DEF TypeOK, Visited
<1>5. Visited' = Visited \cup {k}
  BY <1>1, <1>2, <1>4 DEF Visited
<1>6. \A j : Child(j)' = Child(j)
  BY <1>2 DEF Child
<1>7. todo' \subseteq KeysFrom(prefix)'
  BY <1>2, <1>3 DEF KeysFrom
<1>8. Len(prefix) \in Nat /\ Len(k) \in Nat
  BY <1>1, <1>4, ChildFacts DEF TypeOK, Canonical
<1>9. Visited \subseteq files /\ \A j \in Visited : Extends(j, prefix)
  BY DEF Visited
<1>10. \A i \in 1..Len(out) : out[i] \in Pushed
  BY <1>3
<1>11. ASSUME /\ TypeOK'
              /\ {out[i] : i \in 1..Len(out)}' = Pushed'
              /\ (\A i, j \in 1..Len(out) : out[i].name = out[j].name => i = j)'
              /\ seen_dirs' = {Child(j) : j \in Indirect'}
       PROVE  Inductive'
  <2>1. seen_dirs' = {Child(j) : j \in Indirect}'
    BY <1>6, <1>11
  <2>2. LoopState'
    BY <1>2, <1>3, <1>7, <1>11, <2>1 DEF LoopState
  <2> QED
    BY <1>1, <1>2, <1>11, <2>2 DEF Inductive, ListingIsExact
<1>12. CASE Len(k) = Len(prefix) + 1
  <2> DEFINE e == [name |-> k, is_dir |-> FALSE]
  <2>1. out' = Append(out, e) /\ UNCHANGED seen_dirs
    BY <1>8, <1>12 DEF Push
  <2>2. e \in Entries
    BY <1>1, <1>4 DEF Entries, TypeOK
  <2>3. TypeOK'
    <3>1. out' \in Seq(Entries)
      BY <1>4, <2>1, <2>2, AppendEntries
    <3> QED
      BY <1>1, <1>2, <2>1, <3>1 DEF TypeOK
  <2>4. Direct' = Direct \cup {k} /\ Indirect' = Indirect
    BY <1>2, <1>5, <1>8, <1>12 DEF Direct, Indirect
  <2>5. Pushed' = Pushed \cup {e}
    BY <1>2, <1>6, <2>4 DEF Pushed
  <2>6. \A d \in Pushed : d.name # k
    BY <1>4 DEF Pushed, Direct
  <2> HIDE DEF e
  <2>7. {out'[i] : i \in 1..Len(out')} = Pushed \cup {e}
    BY <1>3, <1>4, <2>1, <2>2, AppendRange
  <2>8. \A i, j \in 1..Len(out') : out'[i].name = out'[j].name => i = j
    <3>1. e.name = k
      BY DEF e
    <3>2. \A i \in 1..Len(out) : out[i].name # e.name
      BY <1>10, <2>6, <3>1
    <3> QED
      BY <1>3, <1>4, <2>1, <2>2, <3>2, AppendNewName
  <2>9. seen_dirs' = {Child(j) : j \in Indirect'}
    BY <1>3, <2>1, <2>4
  <2> QED
    BY <1>11, <2>3, <2>5, <2>7, <2>8, <2>9
<1>13. CASE Len(k) > Len(prefix) + 1
  <2> DEFINE full == Child(k)
             e    == [name |-> full, is_dir |-> TRUE]
  <2>1. /\ out' = IF full \notin seen_dirs /\ full \notin files
                  THEN Append(out, e) ELSE out
        /\ seen_dirs' = seen_dirs \cup {full}
    BY <1>8, <1>13 DEF Push, PushDir, Child
  <2>2. full \in Canonical /\ e \in Entries
    BY <1>1, <1>4, ChildFacts DEF Entries
  <2>3. Direct' = Direct /\ Indirect' = Indirect \cup {k}
    BY <1>2, <1>5, <1>8, <1>13 DEF Direct, Indirect
  <2>4. seen_dirs' = {Child(j) : j \in Indirect'}
    BY <1>3, <2>1, <2>3
  <2>5. CASE full \notin seen_dirs /\ full \notin files
    <3>1. out' = Append(out, e)
      BY <2>1, <2>5
    <3>2. TypeOK'
      <4>1. out' \in Seq(Entries)
        BY <1>4, <2>2, <3>1, AppendEntries
      <4>2. seen_dirs' \in SUBSET Canonical
        BY <1>1, <2>1, <2>2 DEF TypeOK
      <4> QED
        BY <1>1, <1>2, <4>1, <4>2 DEF TypeOK
    <3>3. Pushed' = Pushed \cup {e}
      BY <1>2, <1>6, <2>3, <2>5 DEF Pushed
    <3>4. \A d \in Pushed : d.name # full
      BY <1>3, <1>9, <2>5 DEF Pushed, Direct
    <3> HIDE DEF e
    <3>5. {out'[i] : i \in 1..Len(out')} = Pushed \cup {e}
      BY <1>3, <1>4, <2>2, <3>1, AppendRange
    <3>6. \A i, j \in 1..Len(out') : out'[i].name = out'[j].name => i = j
      <4>1. e.name = full
        BY DEF e
      <4>2. \A i \in 1..Len(out) : out[i].name # e.name
        BY <1>10, <3>4, <4>1
      <4> QED
        BY <1>3, <1>4, <2>2, <3>1, <4>2, AppendNewName
    <3> QED
      BY <1>11, <2>4, <3>2, <3>3, <3>5, <3>6
  <2>6. CASE full \in seen_dirs \/ full \in files
    <3>1. UNCHANGED out
      BY <2>1, <2>6
    <3>2. TypeOK'
      <4>1. seen_dirs' \in SUBSET Canonical
        BY <1>1, <2>1, <2>2 DEF TypeOK
      <4> QED
        BY <1>1, <1>2, <3>1, <4>1 DEF TypeOK
    <3>3. Pushed' = Pushed
      BY <1>2, <1>3, <1>6, <2>3, <2>6 DEF Pushed
    <3>4. {out'[i] : i \in 1..Len(out')} = Pushed'
      BY <1>3, <3>1, <3>3
    <3>5. \A i, j \in 1..Len(out') : out'[i].name = out'[j].name => i = j
      BY <1>3, <3>1
    <3> QED
      BY <1>11, <2>4, <3>2, <3>4, <3>5
  <2> QED
    BY <2>5, <2>6
<1> QED
  BY <1>12, <1>13 DEF Push

LEMMA EndLsInductive ==
  ASSUME Inductive, EndLs
  PROVE  Inductive'
<1>1. TypeOK /\ LoopState /\ pc = "keys" /\ AtEnd
  BY DEF Inductive, EndLs
<1>2. /\ pc' = "listed"
      /\ UNCHANGED <<files, asked, prefix, todo, seen_dirs, pending, found, omitted, reply>>
  BY DEF EndLs
<1>3. PICK p \in [1..Len(out) -> 1..Len(out)] :
        Sorts(p, out) /\ out' = [i \in 1..Len(out) |-> out[p[i]]]
  BY DEF EndLs
<1>4. /\ \A i, j \in 1..Len(out) : p[i] = p[j] => i = j
      /\ \A j \in 1..Len(out) : \E i \in 1..Len(out) : p[i] = j
      /\ \A i, j \in 1..Len(out) :
           i < j => ~Before(Path(out[p[j]].name), Path(out[p[i]].name))
  BY <1>3 DEF Sorts
<1>5. /\ out \in Seq(Entries) /\ Len(out) \in Nat
      /\ \A i \in 1..Len(out) : out[i] \in Entries
  BY <1>1 DEF TypeOK
<1>6. /\ out' \in Seq(Entries) /\ Len(out') = Len(out)
      /\ \A i \in 1..Len(out) : out'[i] = out[p[i]] /\ p[i] \in 1..Len(out)
  <2>1. \A i \in 1..Len(out) : p[i] \in 1..Len(out)
    BY <1>3
  <2>2. out' \in [1..Len(out) -> Entries]
    BY <1>3, <1>5, <2>1
  <2> QED
    BY <1>3, <1>5, <2>1, <2>2
<1>7. TypeOK'
  BY <1>1, <1>2, <1>6 DEF TypeOK
<1>8. {out[i] : i \in 1..Len(out)} = Children(prefix)
  BY <1>1, NothingIsLeft, PushedAreChildren DEF LoopState
<1>9. {out'[i] : i \in 1..Len(out')} = Children(prefix)
  <2>1. \A i \in 1..Len(out) : \E j \in 1..Len(out) : out[i] = out'[j]
    BY <1>4, <1>6
  <2>2. \A i \in 1..Len(out) : \E j \in 1..Len(out) : out'[i] = out[j]
    BY <1>6
  <2>3. ASSUME NEW e, e \in {out'[i] : i \in 1..Len(out)}
        PROVE  e \in {out[i] : i \in 1..Len(out)}
    <3>1. PICK i \in 1..Len(out) : e = out'[i]
      BY <2>3, Zenon
    <3> QED
      BY <2>2, <3>1, Zenon
  <2>4. ASSUME NEW e, e \in {out[i] : i \in 1..Len(out)}
        PROVE  e \in {out'[i] : i \in 1..Len(out)}
    <3>1. PICK i \in 1..Len(out) : e = out[i]
      BY <2>4, Zenon
    <3> QED
      BY <2>1, <3>1, Zenon
  <2> QED
    BY <1>6, <1>8, <2>3, <2>4, Zenon
<1>10. ASSUME NEW i \in 1..Len(out'), NEW j \in 1..Len(out'), i < j
       PROVE  Before(Path(out'[i].name), Path(out'[j].name))
  <2>1. p[i] # p[j] /\ p[i] \in 1..Len(out) /\ p[j] \in 1..Len(out)
    BY <1>4, <1>5, <1>6, <1>10
  <2>2. out[p[i]].name # out[p[j]].name
    BY <1>1, <2>1 DEF LoopState
  <2>3. out[p[i]].name \in Canonical /\ out[p[j]].name \in Canonical
    BY <1>5, <2>1 DEF Entries
  <2>4. /\ Path(out[p[i]].name) # Path(out[p[j]].name)
        /\ Path(out[p[i]].name) \in Seq(Nat) /\ Path(out[p[j]].name) \in Seq(Nat)
    BY <2>2, <2>3, PathIsInjective, StringTypes
  <2>5. ~Before(Path(out[p[j]].name), Path(out[p[i]].name))
    BY <1>4, <1>6, <1>10
  <2>6. Before(Path(out[p[i]].name), Path(out[p[j]].name))
    BY <2>4, <2>5, OneComesFirst
  <2> QED
    BY <1>6, <1>10, <2>6
<1>11. Children(prefix)' = Children(prefix)
  BY <1>2 DEF Children
<1>12. prefix' \notin files'
  BY <1>1, <1>2 DEF LoopState
<1>13. ListingIsExact'
  BY <1>9, <1>10, <1>11, <1>12 DEF ListingIsExact
<1> QED
  BY <1>2, <1>7, <1>13 DEF Inductive, LoopState

LEMMA DescendInductive ==
  ASSUME Inductive, Descend
  PROVE  Inductive'
<1>1. TypeOK
  BY DEF Inductive
<1>2. /\ pc' = "walk"
      /\ UNCHANGED <<files, asked, prefix, todo, seen_dirs, out, omitted, reply>>
  BY DEF Descend
<1>3. \A i \in 1..Len(out) : /\ out[i] \in Entries
                             /\ Entry(i).name = out[i].name
                             /\ Entry(i).type = "file" => Info(out[i].name) = "file"
  BY <1>1 DEF TypeOK, Entry
<1>4. \A i \in 1..Len(out) : /\ Entry(i).name \in Canonical
                             /\ Entry(i).type = "file" => Entry(i).name \in files
  BY <1>3 DEF Entries, Info
<1>5. pending' \in SUBSET Anywhere
  <2>1. pending \subseteq Anywhere /\ Canonical \subseteq Anywhere
    BY <1>1, CanonicalIsAnywhere DEF TypeOK
  <2>2. pending' \subseteq pending \cup {Entry(i).name : i \in 1..Len(out)}
    BY DEF Descend
  <2> QED
    BY <1>4, <2>1, <2>2
<1>6. found' \in SUBSET files
  <2>1. found' \subseteq found \cup
          {e.name : e \in {f \in {Entry(i) : i \in 1..Len(out)} : f.type = "file"}}
    BY DEF Descend
  <2> QED
    BY <1>1, <1>4, <2>1 DEF TypeOK
<1>7. TypeOK'
  BY <1>1, <1>2, <1>5, <1>6 DEF TypeOK
<1> QED
  BY <1>2, <1>7 DEF Inductive, LoopState, ListingIsExact

LEMMA OmitInductive ==
  ASSUME Inductive, Omit \/ Raise
  PROVE  Inductive'
<1>1. TypeOK
  BY DEF Inductive
<1>2. /\ pc' \in {"walk", "failed"}
      /\ omitted' \subseteq omitted \cup {prefix}
      /\ UNCHANGED <<files, asked, prefix, todo, seen_dirs, out, pending, found, reply>>
  BY DEF Omit, Raise
<1>3. TypeOK'
  BY <1>1, <1>2 DEF TypeOK
<1> QED
  BY <1>2, <1>3 DEF Inductive, LoopState, ListingIsExact

LEMMA StepInductive == Inductive /\ [Next]_vars => Inductive'
<1> SUFFICES ASSUME Inductive, [Next]_vars PROVE Inductive'
  OBVIOUS
<1>1. CASE \E raw \in Raws : Walk(raw) \/ Find(raw) \/ Glob(raw)
  BY <1>1, CallsInductive
<1>2. CASE \E path \in pending : Ls(path)
  BY <1>2, LsInductive
<1>3. CASE \E k \in todo : Push(k)
  BY <1>3, PushInductive
<1>4. CASE EndLs
  BY <1>4, EndLsInductive
<1>5. CASE Descend
  BY <1>5, DescendInductive
<1>6. CASE Omit \/ Raise
  BY <1>6, OmitInductive
<1>7. CASE EndWalk
  <2>1. /\ pc' = "done"
        /\ UNCHANGED <<files, asked, prefix, todo, seen_dirs, out, pending, found, omitted, reply>>
    BY <1>7 DEF EndWalk
  <2>2. TypeOK'
    BY <2>1 DEF Inductive, TypeOK
  <2> QED
    BY <2>1, <2>2 DEF Inductive, LoopState, ListingIsExact
<1>8. CASE UNCHANGED vars
  <2>1. UNCHANGED <<files, asked, pc, prefix, todo, seen_dirs, out, pending, found, omitted, reply>>
    BY <1>8 DEF vars
  <2>2. TypeOK'
    BY <2>1 DEF Inductive, TypeOK
  <2>3. LoopState'
    BY <2>1 DEF Inductive, LoopState, Pushed, Direct, Indirect, Visited, Child, KeysFrom
  <2>4. ListingIsExact'
    BY <2>1 DEF Inductive, ListingIsExact, Children
  <2> QED
    BY <2>2, <2>3, <2>4 DEF Inductive
<1> QED
  BY <1>1, <1>2, <1>3, <1>4, <1>5, <1>6, <1>7, <1>8 DEF Next, WalkStep, Answered

(* The inductive invariant holds in every state. *)
THEOREM Invariance == Spec => []Inductive
<1> QED
  BY InitInductive, StepInductive, PTL DEF Spec

(* Listings are of the right types. *)
THEOREM TypeCorrect == Spec => []TypeOK
<1>1. Inductive => TypeOK
  BY DEF Inductive
<1> QED
  BY <1>1, Invariance, PTL

(* Index::ls leaves its loop at a moment when it has pushed each child of  *)
(* the directory, and none of them twice, in every tree.                   *)
THEOREM LoopExact == Spec => []LoopIsExact
<1>1. Inductive => LoopIsExact
  BY NothingIsLeft, PushedAreChildren DEF Inductive, LoopIsExact, LoopState
<1> QED
  BY <1>1, Invariance, PTL

(* ls, find and glob.  Of what is below a directory, each gives the names  *)
(* one segment longer.                                                     *)
LEMMA StripCanonical ==
  ASSUME NEW p \in Canonical
  PROVE  Strip(p) = p /\ Normalize(p) = p
<1>0. p \in Seq(Segments) /\ Len(p) \in Nat /\ \A i \in 1..Len(p) : p[i] \in Segments
  BY DEF Canonical
<1>1. \A i \in 1..Len(p) : p[i] # ""
  <2>1. \A e \in Segments : e # ""
    BY ListingAssumption, Zenon
  <2> QED
    BY <1>0, <2>1, Zenon
<1>2. Normalize(p) = p
  BY <1>0, <1>1, WithoutNothing DEF Normalize
<1>3. Strip(p) = p
  <2> DEFINE named == {i \in 1..Len(p) : p[i] # ""}
             least == CHOOSE i \in named : \A j \in named : i <= j
             last  == CHOOSE i \in named : \A j \in named : j <= i
  <2>1. named = 1..Len(p)
    BY <1>1
  <2>2. Strip(p) = IF named = {} THEN <<>> ELSE SubSeq(p, least, last)
    BY DEF Strip
  <2>3. CASE named = {}
    <3>1. Len(p) = 0
      <4>1. 1..Len(p) = {}
        BY <2>1, <2>3
      <4> QED
        BY <1>0, <4>1
    <3>2. p = <<>>
      BY <1>0, <3>1, EmptySeq
    <3> QED
      BY <2>2, <2>3, <3>2
  <2>4. CASE named # {}
    <3>1. /\ least \in named /\ \A j \in named : least <= j
          /\ last \in named /\ \A j \in named : j <= last
      <4>1. named \subseteq 1..Len(p)
        BY <2>1
      <4> HIDE DEF named
      <4> QED
        BY <1>0, <2>4, <4>1, ExtremesExist
    <3> HIDE DEF least, last, named
    <3>2. least = 1 /\ last = Len(p)
      <4>1. 1..Len(p) # {}
        BY <2>1, <2>4
      <4>2. 1 \in named /\ Len(p) \in named
        BY <1>0, <2>1, <4>1
      <4>3. least <= 1 /\ Len(p) <= last /\ least \in 1..Len(p) /\ last \in 1..Len(p)
        BY <2>1, <3>1, <4>2
      <4> QED
        BY <1>0, <4>3
    <3> QED
      BY <1>0, <2>2, <2>4, <3>2, SubSeqFull
  <2> QED
    BY <2>3, <2>4
<1> QED
  BY <1>2, <1>3

(* The names below p that are one segment longer, of files and directories. *)
Level(p) == {k \in files \cup Dirs : Extends(k, p) /\ Len(k) = Len(p) + 1}

LEMMA LevelIsChildren ==
  ASSUME TypeOK
  PROVE  {e.name : e \in Children(prefix)} = Level(prefix)
<1>1. prefix \in Seq(Segments) /\ Len(prefix) \in Nat
  BY DEF TypeOK, Canonical
<1>2. ASSUME NEW k \in files, Extends(k, prefix) PROVE Child(k) \in Level(prefix)
  <2>1. /\ Len(k) \in Nat /\ Len(k) >= Len(prefix) + 1
        /\ Len(Child(k)) = Len(prefix) + 1 /\ Extends(Child(k), prefix)
        /\ Len(k) = Len(prefix) + 1 => Child(k) = k
    BY <1>2, ChildFacts
  <2>2. CASE Len(k) = Len(prefix) + 1
    BY <2>1, <2>2 DEF Level
  <2>3. CASE Len(k) # Len(prefix) + 1
    <3>1. Len(prefix) + 1 \in 1..(Len(k) - 1)
      BY <1>1, <2>1, <2>3
    <3>2. Child(k) \in Dirs
      BY <3>1 DEF Dirs, Child
    <3> QED
      BY <2>1, <3>2 DEF Level
  <2> QED
    BY <2>2, <2>3
<1>3. ASSUME NEW d \in Level(prefix) PROVE \E k \in files : Extends(k, prefix) /\ d = Child(k)
  <2>1. Extends(d, prefix) /\ Len(d) = Len(prefix) + 1
    BY DEF Level
  <2>2. CASE d \in files
    BY <2>1, <2>2, ChildFacts
  <2>3. CASE d \in Dirs
    <3> PICK k \in files : d \in {SubSeq(k, 1, n) : n \in 1..(Len(k) - 1)}
      BY <2>3 DEF Dirs
    <3>1. PICK n \in 1..(Len(k) - 1) : d = SubSeq(k, 1, n)
      OBVIOUS
    <3>2. k \in Seq(Segments) /\ Len(k) \in Nat
      BY DEF TypeOK, Canonical
    <3>3. Len(d) = n /\ \A i \in 1..n : d[i] = k[i]
      BY <3>1, <3>2
    <3>4. n = Len(prefix) + 1 /\ \A i \in 1..Len(prefix) : i \in 1..n /\ d[i] = prefix[i]
      BY <1>1, <2>1, <3>2, <3>3 DEF Extends
    <3>5. Extends(k, prefix)
      BY <1>1, <3>2, <3>3, <3>4 DEF Extends
    <3> QED
      BY <3>1, <3>4, <3>5 DEF Child
  <2> QED
    BY <2>2, <2>3 DEF Level
<1>4. {e.name : e \in Children(prefix)} = {Child(k) : k \in {j \in files : Extends(j, prefix)}}
  <2> DEFINE below == {j \in files : Extends(j, prefix)}
             entry(k) == [name |-> Child(k), is_dir |-> Child(k) \notin files]
  <2>1. Children(prefix) = {entry(k) : k \in below}
    BY DEF Children, Child
  <2>2. \A k \in below : entry(k).name = Child(k)
    OBVIOUS
  <2> HIDE DEF below, entry
  <2>3. {e.name : e \in Children(prefix)} = {Child(k) : k \in below}
    BY <2>1, <2>2
  <2> QED
    BY <2>3 DEF below
<1> QED
  BY <1>2, <1>3, <1>4

LEMMA FindGivesLevel ==
  ASSUME TypeOK, prefix \notin files
  PROVE  Names(FindNames(prefix, 1, TRUE)) = Level(prefix)
<1>1. prefix \in Canonical /\ Len(prefix) \in Nat
  BY DEF TypeOK, Canonical
<1>2. Strip(prefix) = prefix /\ Normalize(prefix) = prefix
  BY <1>1, StripCanonical
<1> DEFINE below == Below(files, prefix, "paths")
           dirs  == Below(Dirs, prefix, "dirs")
<1>3. ~(below = {} /\ Exists(prefix) /\ ~IsDir(prefix))
  BY <1>2 DEF Exists
<1>4. FindNames(prefix, 1, TRUE) = {e \in below \cup dirs : Within(e[1], prefix, 1)}
  BY <1>2, <1>3 DEF FindNames
<1>5. ASSUME NEW k \in files \cup Dirs, Extends(k, prefix)
      PROVE  Within(k, prefix, 1) <=> Len(k) = Len(prefix) + 1
  <2>1. Len(k) \in Nat /\ Len(k) > Len(prefix)
    BY <1>5, DirsType DEF TypeOK, Extends, Canonical
  <2> QED
    BY <1>1, <2>1 DEF Within
<1>6. ASSUME NEW k \in Level(prefix) PROVE k \in Names(FindNames(prefix, 1, TRUE))
  <2>1. Within(k, prefix, 1) /\ Extends(k, prefix)
    BY <1>5 DEF Level
  <2>2. CASE k \in files
    <3>1. <<k, "paths">> \in FindNames(prefix, 1, TRUE)
      BY <1>4, <2>1, <2>2 DEF Below
    <3>2. <<k, "paths">>[1] = k
      OBVIOUS
    <3> QED
      BY <3>1, <3>2, Zenon DEF Names
  <2>3. CASE k \in Dirs
    <3>1. <<k, "dirs">> \in FindNames(prefix, 1, TRUE)
      BY <1>4, <2>1, <2>3 DEF Below
    <3>2. <<k, "dirs">>[1] = k
      OBVIOUS
    <3> QED
      BY <3>1, <3>2, Zenon DEF Names
  <2> QED
    BY <2>2, <2>3 DEF Level
<1>7. ASSUME NEW k \in Names(FindNames(prefix, 1, TRUE)) PROVE k \in Level(prefix)
  <2>1. PICK e \in below \cup dirs : k = e[1] /\ Within(e[1], prefix, 1)
    BY <1>4 DEF Names
  <2>2. k \in files \cup Dirs /\ Extends(k, prefix)
    BY <2>1 DEF Below
  <2> QED
    BY <1>5, <2>1, <2>2 DEF Level
<1> QED
  BY <1>6, <1>7

LEMMA GlobGivesLevel ==
  ASSUME TypeOK, \A i \in 1..Len(prefix) : prefix[i] \notin {"*", "**"}
  PROVE  Names(GlobNames(prefix, "*")) = Level(prefix)
<1> DEFINE pattern == Append(prefix, "*")
<1>1. prefix \in Canonical /\ Len(prefix) \in Nat
  BY DEF TypeOK, Canonical
<1>2. Strip(prefix) = prefix
  BY <1>1, StripCanonical
<1>3. /\ Len(pattern) = Len(prefix) + 1 /\ pattern[Len(prefix) + 1] = "*"
      /\ \A i \in 1..Len(prefix) : pattern[i] = prefix[i]
  BY <1>1 DEF Canonical
<1>4. Names(GlobNames(prefix, "*")) = {k \in files \cup Dirs : Matches(pattern, k)}
  <2>1. GlobNames(prefix, "*") = {k \in files : Matches(pattern, k)} \X {"paths"}
                                   \cup {d \in Dirs : Matches(pattern, d)} \X {"dirs"}
    BY <1>2 DEF GlobNames
  <2> HIDE DEF pattern
  <2>2. ASSUME NEW k \in files \cup Dirs, Matches(pattern, k)
        PROVE  k \in Names(GlobNames(prefix, "*"))
    <3>1. <<k, "paths">> \in GlobNames(prefix, "*") \/ <<k, "dirs">> \in GlobNames(prefix, "*")
      BY <2>1, <2>2
    <3> QED
      BY <3>1 DEF Names
  <2>3. ASSUME NEW k \in Names(GlobNames(prefix, "*"))
        PROVE  k \in files \cup Dirs /\ Matches(pattern, k)
    <3>1. PICK e \in GlobNames(prefix, "*") : k = e[1]
      BY DEF Names
    <3> QED
      BY <2>1, <3>1
  <2> QED
    BY <2>2, <2>3
<1> HIDE DEF pattern
<1>5. ASSUME NEW k \in files \cup Dirs
      PROVE  Matches(pattern, k) <=> Extends(k, prefix) /\ Len(k) = Len(prefix) + 1
  <2>1. Matches(pattern, k) <=>
          /\ Len(k) = Len(prefix) + 1
          /\ \A i \in 1..(Len(prefix) + 1) : pattern[i] \in {"*", "**", k[i]}
    BY <1>1, <1>3 DEF Matches
  <2>2. \A i \in 1..Len(prefix) : pattern[i] \in {"*", "**", k[i]} <=> k[i] = prefix[i]
    BY <1>3
  <2>3. (\A i \in 1..(Len(prefix) + 1) : pattern[i] \in {"*", "**", k[i]})
          <=> \A i \in 1..Len(prefix) : k[i] = prefix[i]
    BY <1>1, <1>3, <2>2
  <2> QED
    BY <1>1, <2>1, <2>3 DEF Extends
<1> QED
  BY <1>4, <1>5 DEF Level

(* The three ways to list a directory agree, for every spelling of it that *)
(* has no '/' doubled inside: Index::ls, which walks over the sorted keys, *)
(* and find and glob of fs.py, which filter all paths.                     *)
THEOREM ListingsAreOne == Spec => []ListingsAgree
<1>1. Inductive => ListingsAgree
  <2> DEFINE listed == {out[i].name : i \in 1..Len(out)}
  <2> SUFFICES ASSUME Inductive, pc = "listed", prefix \notin files,
                      NEW raw \in Raws \cup {prefix}, Strip(raw) = prefix
               PROVE  /\ listed = Names(FindNames(raw, 1, TRUE))
                      /\ (\A i \in 1..Len(prefix) : prefix[i] \notin {"*", "**"}) =>
                           listed = Names(GlobNames(raw, "*"))
    BY DEF ListingsAgree
  <2>1. TypeOK
    BY DEF Inductive
  <2>2. {out[i] : i \in 1..Len(out)} = Children(prefix)
    BY DEF Inductive, ListingIsExact
  <2>3. listed = {e.name : e \in {out[i] : i \in 1..Len(out)}}
    OBVIOUS
  <2>4. listed = Level(prefix)
    BY <2>1, <2>2, <2>3, LevelIsChildren
  <2>5. /\ listed = Names(FindNames(prefix, 1, TRUE))
        /\ (\A i \in 1..Len(prefix) : prefix[i] \notin {"*", "**"}) =>
             listed = Names(GlobNames(prefix, "*"))
    BY <2>1, <2>4, FindGivesLevel, GlobGivesLevel
  <2>6. Strip(prefix) = prefix
    BY <2>1, StripCanonical DEF TypeOK
  <2>7. /\ FindNames(raw, 1, TRUE) = FindNames(prefix, 1, TRUE)
        /\ GlobNames(raw, "*") = GlobNames(prefix, "*")
    BY <2>6 DEF FindNames, GlobNames
  <2> QED
    BY <2>5, <2>7
<1> QED
  BY <1>1, Invariance, PTL

(* Normalizing gives a path without empty segments, and does not mind      *)
(* whether the slashes at the ends went before.                            *)
LEMMA NormalizeType ==
  ASSUME NEW raw \in Anywhere
  PROVE  Normalize(raw) \in Canonical
<1> DEFINE S == Segments \cup {""}
           w == Without(raw, {""})
<1>1. w \in Seq(S \ {""})
  BY WithoutType DEF Anywhere
<1>2. S \ {""} \subseteq Segments
  OBVIOUS
<1> HIDE DEF S, w
<1>3. w \in Seq(Segments)
  BY <1>1, <1>2, SeqMonotonic
<1> QED
  BY <1>3 DEF w, Normalize, Canonical

LEMMA NormalizeStrip ==
  ASSUME NEW raw \in Anywhere
  PROVE  Normalize(Strip(raw)) = Normalize(raw)
<1> DEFINE S == Segments \cup {""}
           named == {i \in 1..Len(raw) : raw[i] # ""}
           least == CHOOSE i \in named : \A j \in named : i <= j
           last  == CHOOSE i \in named : \A j \in named : j <= i
<1>1. raw \in Seq(S) /\ Len(raw) \in Nat
  BY AnywhereFacts DEF Anywhere
<1>2. Strip(raw) = IF named = {} THEN <<>> ELSE SubSeq(raw, least, last)
  BY DEF Strip
<1>3. named \subseteq 1..Len(raw)
  BY Zenon
<1>4. ASSUME NEW i \in 1..Len(raw), i \notin named PROVE raw[i] \in {""}
  BY <1>4
<1> HIDE DEF S
<1>5. <<>> \in Seq(S) /\ Without(<<>>, {""}) = <<>>
  <2>1. <<>> \in Seq(S) /\ \A i \in 1..Len(<<>>) : <<>>[i] \notin {""}
    BY SeqFacts
  <2> QED
    BY <2>1, WithoutNothing
<1>6. CASE named = {}
  <2>1. \A i \in 1..Len(raw) : raw[i] \in {""}
    BY <1>4, <1>6
  <2>2. Without(raw, {""}) = <<>>
    BY <1>1, <2>1, WithoutAll
  <2> QED
    BY <1>2, <1>5, <1>6, <2>2 DEF Normalize
<1>7. CASE named # {}
  <2>1. /\ least \in named /\ \A j \in named : least <= j
        /\ last \in named /\ \A j \in named : j <= last
    <3> HIDE DEF named
    <3> QED
      BY <1>1, <1>3, <1>7, ExtremesExist
  <2> HIDE DEF least, last, named
  <2> DEFINE a == SubSeq(raw, 1, least - 1)
             m == SubSeq(raw, least, last)
             b == SubSeq(raw, last + 1, Len(raw))
  <2>2. least \in 1..Len(raw) /\ last \in 1..Len(raw) /\ least <= last
    BY <1>3, <2>1
  <2>3. a \in Seq(S) /\ m \in Seq(S) /\ b \in Seq(S)
    BY <1>1, <2>2
  <2>4. raw = (a \o m) \o b
    <3>1. a \o m = SubSeq(raw, 1, last)
      BY <1>1, <2>2
    <3>2. SubSeq(raw, 1, last) \o b = SubSeq(raw, 1, Len(raw))
      BY <1>1, <2>2
    <3>3. SubSeq(raw, 1, Len(raw)) = raw
      BY <1>1, SubSeqFull
    <3> QED
      BY <3>1, <3>2, <3>3
  <2>5. \A i \in 1..Len(a) : a[i] \in {""}
    <3>1. \A i \in 1..(least - 1) : i \in 1..Len(raw) /\ i \notin named
      BY <1>1, <2>1, <2>2
    <3>2. Len(a) = least - 1 /\ \A i \in 1..(least - 1) : a[i] = raw[i]
      BY <1>1, <2>2
    <3> HIDE DEF a
    <3> QED
      BY <1>4, <3>1, <3>2
  <2>6. \A i \in 1..Len(b) : b[i] \in {""}
    <3>1. \A i \in 1..(Len(raw) - last) : last + i \in 1..Len(raw) /\ last + i \notin named
      BY <1>1, <2>1, <2>2
    <3>2. Len(b) = Len(raw) - last /\ \A i \in 1..(Len(raw) - last) : b[i] = raw[last + i]
      BY <1>1, <2>2
    <3> HIDE DEF b
    <3> QED
      BY <1>4, <3>1, <3>2
  <2>7. Strip(raw) = m
    BY <1>2, <1>7
  <2> HIDE DEF a, m, b
  <2>8. a \o m \in Seq(S)
    BY <2>3
  <2>9. Without(a, {""}) = <<>> /\ Without(b, {""}) = <<>>
    BY <2>3, <2>5, <2>6, WithoutAll
  <2> DEFINE E == {""}
  <2> HIDE DEF E
  <2>10. Without((a \o m) \o b, E) = Without(a \o m, E) \o Without(b, E)
    <3> DEFINE c == a \o m
    <3>1. c \in Seq(S)
      BY <2>8
    <3> HIDE DEF c
    <3>2. Without(c \o b, E) = Without(c, E) \o Without(b, E)
      BY <2>3, <3>1, WithoutConcat
    <3> QED
      BY <3>2 DEF c
  <2>11. Without(a \o m, E) = Without(a, E) \o Without(m, E)
    BY <2>3, WithoutConcat
  <2>12. Without(m, {""}) \in Seq(S \ {""})
    BY <2>3, WithoutType
  <2> DEFINE w == Without(m, {""})
  <2>13. (<<>> \o w) \o <<>> = w
    <3>1. w \in Seq(S \ {""})
      BY <2>12
    <3> HIDE DEF w
    <3> QED
      BY <3>1, ConcatEmptySeq
  <2> QED
    BY <2>4, <2>7, <2>9, <2>10, <2>11, <2>13 DEF Normalize, E
<1> QED
  BY <1>6, <1>7

(* What Index::ls returns is the file, or the children of the directory in *)
(* the order of their names, each once and each with its kind.             *)
THEOREM ListingExact == Spec => []ListingIsExact
<1>1. Inductive => ListingIsExact
  BY DEF Inductive
<1> QED
  BY <1>1, Invariance, PTL
-----------------------------------------------------------------------------
(* The walk.  Waiting: the directories that it has listed nothing of yet.  *)
(* A file is reached if it is below the root and no file is in the way; it *)
(* has been found, or a directory that it is below is waiting or has been  *)
(* left out.                                                               *)
Root == Normalize(asked.path)

AtOrBelow(q, p) == Len(q) >= Len(p) /\ \A i \in 1..Len(p) : q[i] = p[i]

Waiting == {Normalize(p) : p \in pending}
             \cup (IF pc \in {"keys", "listed"} THEN {prefix} ELSE {})

Clear(q, m) == \A n \in (Len(Root) + 1)..m : SubSeq(q, 1, n) \notin files
OnTheWay(q) == AtOrBelow(q, Root) /\ Clear(q, Len(q))
Reached(k)  == Extends(k, Root) /\ Clear(k, Len(k) - 1)

FileWalk ==
  /\ pc # "keys"
  /\ found \subseteq {Root} /\ Waiting \subseteq {Root} /\ omitted \subseteq {Root}
  /\ Waiting = {} => Root \in found \cup omitted

HoldsFile(d) == \E k \in files : Reached(k) /\ Extends(k, d) /\ Len(k) = Len(d) + 1

TreeWalk ==
  /\ \A q \in Waiting : OnTheWay(q)
  /\ \A k \in found : Reached(k)
  /\ \A k \in files : Reached(k) =>
       k \in found \/ \E q \in Waiting \cup omitted : Extends(k, q)
  /\ \A d \in omitted : HoldsFile(d)

Walking == pc \in {"walk", "keys", "listed", "done"}

WalkState ==
  /\ pc = "open" => pending = {} /\ found = {} /\ omitted = {}
  /\ pc = "done" => pending = {}
  /\ Walking => IF Root \in files THEN FileWalk ELSE TreeWalk

(* What the listing of a directory adds to the walk. *)
ChildDirs  == {Child(k) : k \in {j \in files : Extends(j, prefix) /\ Child(j) \notin files}}
ChildFiles == {Child(k) : k \in {j \in files : Extends(j, prefix) /\ Child(j) \in files}}

LEMMA DescendGives ==
  ASSUME Inductive, Descend
  PROVE  IF prefix \in files
         THEN pending' = pending /\ found' = found \cup {prefix}
         ELSE pending' = pending \cup ChildDirs /\ found' = found \cup ChildFiles
<1> DEFINE names(type) == {e.name : e \in {f \in {Entry(i) : i \in 1..Len(out)} : f.type = type}}
<1>1. /\ pending' = pending \cup names("directory")
      /\ found' = found \cup names("file")
  BY DEF Descend
<1>2. TypeOK /\ ListingIsExact /\ pc = "listed"
  BY DEF Inductive, Descend
<1>3. ASSUME NEW type, NEW d
      PROVE  d \in names(type) <=> \E i \in 1..Len(out) : d = Entry(i).name /\ Entry(i).type = type
  OBVIOUS
<1> HIDE DEF names
<1>4. \A i \in 1..Len(out) : /\ Entry(i).name = out[i].name
                             /\ out[i].is_dir => Entry(i).type = "directory"
                             /\ ~out[i].is_dir => Entry(i).type = Info(out[i].name)
  BY DEF Entry
<1>5. CASE prefix \in files
  <2>1. Len(out) = 1 /\ out[1].name = prefix /\ ~out[1].is_dir
    BY <1>2, <1>5 DEF ListingIsExact
  <2>2. Entry(1).name = prefix /\ Entry(1).type = "file"
    <3>1. 1 \in 1..Len(out)
      BY <2>1
    <3>2. Info(prefix) = "file"
      BY <1>5 DEF Info
    <3> QED
      BY <1>4, <2>1, <3>1, <3>2
  <2>3. \A i : i \in 1..Len(out) <=> i = 1
    BY <2>1
  <2>4. names("directory") = {} /\ names("file") = {prefix}
    BY <1>3, <2>2, <2>3
  <2> QED
    BY <1>1, <1>5, <2>4
<1>6. CASE prefix \notin files
  <2>1. {out[i] : i \in 1..Len(out)} = Children(prefix)
    BY <1>2, <1>6 DEF ListingIsExact
  <2> DEFINE below == {j \in files : Extends(j, prefix)}
             entry(k) == [name |-> Child(k), is_dir |-> Child(k) \notin files]
  <2>2. Children(prefix) = {entry(k) : k \in below}
    BY DEF Children, Child
  <2>3. \A k \in below : entry(k).name = Child(k) /\ (entry(k).is_dir <=> Child(k) \notin files)
    OBVIOUS
  <2> HIDE DEF entry, below
  <2>4. \A i \in 1..Len(out) : \E k \in below : out[i] = entry(k)
    BY <2>1, <2>2
  <2>5. \A k \in below : \E i \in 1..Len(out) : out[i] = entry(k)
    BY <2>1, <2>2
  <2>6. ASSUME NEW i \in 1..Len(out), NEW k \in below, out[i] = entry(k)
        PROVE  /\ Entry(i).name = Child(k)
               /\ Child(k) \notin files => Entry(i).type = "directory"
               /\ Child(k) \in files => Entry(i).type = "file"
    BY <1>4, <2>3, <2>6 DEF Info
  <2>7. ASSUME NEW d PROVE d \in names("directory") <=> d \in ChildDirs
    <3>1. d \in ChildDirs <=> \E k \in below : d = Child(k) /\ Child(k) \notin files
      BY DEF ChildDirs, below
    <3> QED
      BY <1>3, <2>4, <2>5, <2>6, <3>1
  <2>8. ASSUME NEW d PROVE d \in names("file") <=> d \in ChildFiles
    <3>1. d \in ChildFiles <=> \E k \in below : d = Child(k) /\ Child(k) \in files
      BY DEF ChildFiles, below
    <3> QED
      BY <1>3, <2>4, <2>5, <2>6, <3>1
  <2>9. names("directory") = ChildDirs /\ names("file") = ChildFiles
    BY <2>7, <2>8
  <2> QED
    BY <1>1, <1>6, <2>9
<1> QED
  BY <1>5, <1>6

(* Paths on the way. *)
LEMMA ChildOnTheWay ==
  ASSUME TypeOK, Root \in Canonical, OnTheWay(prefix), NEW k \in files, Extends(k, prefix)
  PROVE  /\ Extends(Child(k), Root) /\ Clear(Child(k), Len(prefix))
         /\ Child(k) \in files => Reached(Child(k))
         /\ Child(k) \notin files => OnTheWay(Child(k))
<1> DEFINE d == Child(k)
<1>1. /\ d \in Canonical /\ Len(d) = Len(prefix) + 1
      /\ \A i \in 1..Len(prefix) : d[i] = prefix[i]
  BY ChildFacts DEF Extends
<1>2. /\ Len(prefix) \in Nat /\ Len(Root) \in Nat /\ Len(prefix) >= Len(Root)
      /\ \A i \in 1..Len(Root) : prefix[i] = Root[i]
  BY DEF TypeOK, Canonical, OnTheWay, AtOrBelow
<1>3. d \in Seq(Segments) /\ prefix \in Seq(Segments)
  BY <1>1 DEF TypeOK, Canonical
<1> HIDE DEF d
<1>4. Extends(d, Root) /\ AtOrBelow(d, Root)
  BY <1>1, <1>2 DEF Extends, AtOrBelow
<1>5. Clear(d, Len(prefix))
  <2> SUFFICES ASSUME NEW n \in (Len(Root) + 1)..Len(prefix)
               PROVE  SubSeq(d, 1, n) \notin files
    BY DEF Clear
  <2>1. SubSeq(d, 1, n) = SubSeq(prefix, 1, n)
    BY <1>1, <1>2, <1>3
  <2>2. SubSeq(prefix, 1, n) \notin files
    BY DEF OnTheWay, Clear
  <2> QED
    BY <2>1, <2>2
<1>6. d \notin files => Clear(d, Len(d))
  <2> SUFFICES ASSUME d \notin files, NEW n \in (Len(Root) + 1)..Len(d)
               PROVE  SubSeq(d, 1, n) \notin files
    BY DEF Clear
  <2>1. CASE n = Len(d)
    BY <1>3, <2>1, SubSeqFull
  <2>2. CASE n # Len(d)
    <3>1. n \in (Len(Root) + 1)..Len(prefix)
      BY <1>1, <1>2, <2>2
    <3> QED
      BY <1>5, <3>1 DEF Clear
  <2> QED
    BY <2>1, <2>2
<1>7. Len(d) - 1 = Len(prefix)
  BY <1>1, <1>2
<1> QED
  BY <1>4, <1>5, <1>6, <1>7 DEF d, Reached, OnTheWay

LEMMA NotADirectory ==
  ASSUME TypeOK, NEW q \in Canonical, ~IsDir(q), NEW k \in files
  PROVE  ~Extends(k, q)
<1> SUFFICES ASSUME Extends(k, q) PROVE FALSE
  OBVIOUS
<1>1. k \in Seq(Segments) /\ q \in Seq(Segments) /\ Len(k) \in Nat /\ Len(q) \in Nat
  BY DEF TypeOK, Canonical
<1>2. Len(q) # 0
  BY <1>1, EmptySeq DEF IsDir
<1>3. Len(q) \in 1..(Len(k) - 1) /\ \A i \in 1..Len(q) : k[i] = q[i]
  BY <1>1, <1>2 DEF Extends
<1>4. SubSeq(k, 1, Len(q)) = q
  BY <1>1, <1>3
<1>5. q \in {SubSeq(k, 1, n) : n \in 1..(Len(k) - 1)}
  BY <1>3, <1>4
<1>6. q \in Dirs
  BY <1>5 DEF Dirs
<1> QED
  BY <1>6 DEF IsDir

LEMMA RootType ==
  ASSUME TypeOK
  PROVE  Root \in Canonical
BY NormalizeType DEF TypeOK, Root

LEMMA SameRoot ==
  ASSUME UNCHANGED <<files, asked>>
  PROVE  /\ Root' = Root
         /\ \A q : (OnTheWay(q)' <=> OnTheWay(q)) /\ (Reached(q)' <=> Reached(q))
         /\ \A d : HoldsFile(d)' <=> HoldsFile(d)
<1>1. Root' = Root
  BY DEF Root
<1>2. \A q : (OnTheWay(q)' <=> OnTheWay(q)) /\ (Reached(q)' <=> Reached(q))
  BY <1>1 DEF OnTheWay, Reached, Clear
<1> QED
  BY <1>1, <1>2 DEF HoldsFile

(* Steps that list nothing: the same is waiting, and found. *)
LEMMA SameWaiting ==
  ASSUME WalkState, Walking, UNCHANGED <<files, asked, found, omitted>>,
         Waiting' = Waiting, pc' # "open", pc' = "keys" => pc = "keys",
         pc' = "done" => pending' = {}
  PROVE  WalkState'
<1>1. /\ Root' = Root /\ \A d : HoldsFile(d)' <=> HoldsFile(d)
      /\ \A q : (OnTheWay(q)' <=> OnTheWay(q)) /\ (Reached(q)' <=> Reached(q))
  BY SameRoot
<1>2. CASE Root \in files
  <2>1. FileWalk
    BY <1>2 DEF WalkState
  <2>2. FileWalk'
    BY <1>1, <2>1 DEF FileWalk
  <2> QED
    BY <1>1, <1>2, <2>2 DEF WalkState
<1>3. CASE Root \notin files
  <2>1. TreeWalk
    BY <1>3 DEF WalkState
  <2>2. TreeWalk'
    BY <1>1, <2>1 DEF TreeWalk
  <2> QED
    BY <1>1, <1>3, <2>2 DEF WalkState
<1> QED
  BY <1>2, <1>3

LEMMA WalkBegins ==
  ASSUME Inductive, WalkState, NEW raw \in Raws, Walk(raw)
  PROVE  WalkState'
<1>1. /\ pending = {} /\ found = {} /\ omitted = {}
      /\ pending' = {Strip(raw)} /\ pc' = "walk"
      /\ UNCHANGED <<files, found, omitted>> /\ asked'.path = raw
  BY DEF WalkState, Walk, Call
<1>2. raw \in Anywhere
  BY ListingAssumption DEF Anywhere
<1>3. Root' = Normalize(raw)
  BY <1>1 DEF Root
<1>4. Waiting' = {Root'}
  BY <1>1, <1>2, <1>3, NormalizeStrip DEF Waiting
<1>5. Len(Root') \in Nat
  BY <1>2, <1>3, NormalizeType DEF Canonical
<1>6. FileWalk'
  BY <1>1, <1>4 DEF FileWalk
<1>7. TreeWalk'
  <2>1. OnTheWay(Root)'
    BY <1>5 DEF OnTheWay, AtOrBelow, Clear
  <2>2. \A k \in files' : Reached(k)' => Extends(k, Root')
    BY DEF Reached
  <2> QED
    BY <1>1, <1>4, <2>1, <2>2 DEF TreeWalk
<1> QED
  BY <1>1, <1>6, <1>7 DEF WalkState

LEMMA WalkLists ==
  ASSUME Inductive, WalkState, NEW path \in pending, Ls(path)
  PROVE  WalkState'
<1> DEFINE norm == Normalize(path)
<1>1. TypeOK /\ pc = "walk" /\ Walking
  BY DEF Inductive, Ls, Walking
<1>2. pending' = pending \ {path} /\ UNCHANGED <<files, asked, found, omitted>>
  BY DEF Ls
<1>3. norm \in Canonical
  BY <1>1, NormalizeType DEF TypeOK
<1>4. Waiting = {Normalize(p) : p \in pending} /\ norm \in Waiting
  BY <1>1 DEF Waiting
<1>5. Waiting = {Normalize(p) : p \in pending \ {path}} \cup {norm}
  BY <1>4
<1> HIDE DEF norm
<1>6. CASE norm \in files /\ prefix' = norm /\ pc' = "listed"
  <2>1. Waiting' = Waiting
    BY <1>2, <1>5, <1>6 DEF Waiting
  <2> QED
    BY <1>1, <1>2, <1>6, <2>1, SameWaiting
<1>7. CASE norm \notin files /\ prefix' = norm /\ pc' = "keys"
  <2>1. Waiting' = Waiting
    BY <1>2, <1>5, <1>7 DEF Waiting
  <2>2. Root \notin files
    BY <1>1, <1>4, <1>7 DEF WalkState, FileWalk
  <2>3. /\ Root' = Root /\ \A d : HoldsFile(d)' <=> HoldsFile(d)
        /\ \A q : (OnTheWay(q)' <=> OnTheWay(q)) /\ (Reached(q)' <=> Reached(q))
    BY <1>2, SameRoot
  <2>4. TreeWalk
    BY <1>1, <2>2 DEF WalkState
  <2>5. TreeWalk'
    BY <1>2, <2>1, <2>3, <2>4 DEF TreeWalk
  <2> QED
    BY <1>2, <1>7, <2>2, <2>3, <2>5 DEF WalkState
<1>8. CASE norm \notin files /\ ~IsDir(norm) /\ UNCHANGED <<prefix, pc>>
  <2>1. Waiting' \subseteq Waiting /\ Waiting \subseteq Waiting' \cup {norm}
    BY <1>1, <1>2, <1>5, <1>8 DEF Waiting
  <2>2. Root \notin files
    BY <1>1, <1>4, <1>8 DEF WalkState, FileWalk
  <2>3. /\ Root' = Root /\ \A d : HoldsFile(d)' <=> HoldsFile(d)
        /\ \A q : (OnTheWay(q)' <=> OnTheWay(q)) /\ (Reached(q)' <=> Reached(q))
    BY <1>2, SameRoot
  <2>4. TreeWalk
    BY <1>1, <2>2 DEF WalkState
  <2>5. \A k \in files : ~Extends(k, norm)
    BY <1>1, <1>3, <1>8, NotADirectory
  <2>6. TreeWalk'
    BY <1>2, <2>1, <2>3, <2>4, <2>5 DEF TreeWalk
  <2> QED
    BY <1>1, <1>2, <1>8, <2>2, <2>3, <2>6 DEF WalkState
<1> QED
  BY <1>6, <1>7, <1>8 DEF Ls, norm

LEMMA OnTheWayIsNoFile ==
  ASSUME TypeOK, Root \in Canonical, Root \notin files, OnTheWay(prefix)
  PROVE  prefix \notin files
<1>1. Len(prefix) \in Nat /\ Len(Root) \in Nat /\ prefix \in Seq(Segments) /\ Root \in Seq(Segments)
  BY DEF TypeOK, Canonical
<1>2. CASE Len(prefix) = Len(Root)
  <2>1. prefix = Root
    BY <1>1, <1>2, SeqEqual DEF OnTheWay, AtOrBelow
  <2> QED
    BY <2>1
<1>3. CASE Len(prefix) # Len(Root)
  <2>1. Len(prefix) \in (Len(Root) + 1)..Len(prefix)
    BY <1>1, <1>3 DEF OnTheWay, AtOrBelow
  <2>2. SubSeq(prefix, 1, Len(prefix)) = prefix
    BY <1>1, SubSeqFull
  <2> QED
    BY <2>1, <2>2 DEF OnTheWay, Clear
<1> QED
  BY <1>2, <1>3

LEMMA WalkDescends ==
  ASSUME Inductive, Inductive', WalkState, Descend
  PROVE  WalkState'
<1>1. TypeOK /\ pc = "listed" /\ Walking /\ prefix \in Waiting
  BY DEF Inductive, Descend, Walking, Waiting
<1>2. pc' = "walk" /\ UNCHANGED <<files, asked, prefix, omitted>>
  BY DEF Descend
<1>3. /\ Root' = Root /\ \A d : HoldsFile(d)' <=> HoldsFile(d)
      /\ \A q : (OnTheWay(q)' <=> OnTheWay(q)) /\ (Reached(q)' <=> Reached(q))
  BY <1>2, SameRoot
<1>4. /\ Waiting = {Normalize(p) : p \in pending} \cup {prefix}
      /\ Waiting' = {Normalize(p) : p \in pending'}
  BY <1>1, <1>2 DEF Waiting
<1>5. CASE Root \in files
  <2>1. FileWalk
    BY <1>1, <1>5 DEF WalkState
  <2>2. prefix = Root
    BY <1>1, <2>1 DEF FileWalk
  <2>3. pending' = pending /\ found' = found \cup {Root}
    BY <1>5, <2>2, DescendGives
  <2>4. Waiting' \subseteq {Root} /\ found' = {Root}
    BY <1>4, <2>1, <2>3 DEF FileWalk
  <2>5. FileWalk'
    BY <1>2, <1>3, <2>1, <2>4 DEF FileWalk
  <2> QED
    BY <1>2, <1>3, <1>5, <2>5 DEF WalkState
<1>6. CASE Root \notin files
  <2>1. TreeWalk
    BY <1>1, <1>6 DEF WalkState
  <2>2. OnTheWay(prefix) /\ Root \in Canonical
    BY <1>1, <2>1, RootType DEF TreeWalk
  <2>3. prefix \notin files
    BY <1>1, <1>6, <2>2, OnTheWayIsNoFile
  <2>4. pending' = pending \cup ChildDirs /\ found' = found \cup ChildFiles
    BY <2>3, DescendGives
  <2>5. \A d \in ChildDirs : Normalize(d) = d
    <3>1. ChildDirs \subseteq Canonical
      BY <1>1, ChildFacts DEF ChildDirs
    <3> QED
      BY <3>1, StripCanonical
  <2>6. Waiting' = {Normalize(p) : p \in pending} \cup ChildDirs
    <3>1. {Normalize(d) : d \in ChildDirs} = ChildDirs
      BY <2>5
    <3> QED
      BY <1>4, <2>4, <3>1
  <2>7. \A q \in Waiting' : OnTheWay(q)
    <3>1. \A d \in ChildDirs : OnTheWay(d)
      BY <1>1, <2>2, ChildOnTheWay DEF ChildDirs
    <3> QED
      BY <1>4, <2>1, <2>6, <3>1 DEF TreeWalk
  <2>8. \A k \in found' : Reached(k)
    <3>1. \A k \in ChildFiles : Reached(k)
      BY <1>1, <2>2, ChildOnTheWay DEF ChildFiles
    <3> QED
      BY <2>1, <2>4, <3>1 DEF TreeWalk
  <2>9. ASSUME NEW k \in files, Reached(k)
        PROVE  k \in found' \/ \E q \in Waiting' \cup omitted' : Extends(k, q)
    <3>1. CASE k \in found
      BY <2>4, <3>1
    <3>2. CASE \E q \in (Waiting \ {prefix}) \cup omitted : Extends(k, q)
      BY <1>2, <1>4, <2>6, <3>2
    <3>3. CASE Extends(k, prefix)
      <4>1. /\ Len(Child(k)) = Len(prefix) + 1 /\ Child(k) \in Seq(Segments) \ {<<>>}
            /\ Len(k) \in Nat /\ Len(k) >= Len(prefix) + 1
            /\ Len(k) = Len(prefix) + 1 => Child(k) = k
        BY <1>1, <3>3, ChildFacts DEF Canonical
      <4>2. Len(prefix) \in Nat /\ Len(Root) \in Nat /\ Len(prefix) >= Len(Root) /\ k \in Seq(Segments)
        BY <1>1, <2>2 DEF TypeOK, Canonical, OnTheWay, AtOrBelow
      <4>3. CASE Child(k) \in files
        <5>1. Len(k) = Len(prefix) + 1
          <6> SUFFICES ASSUME Len(k) # Len(prefix) + 1 PROVE FALSE
            OBVIOUS
          <6>1. Len(prefix) + 1 \in (Len(Root) + 1)..(Len(k) - 1)
            BY <4>1, <4>2
          <6> QED
            BY <2>9, <4>3, <6>1 DEF Reached, Clear, Child
        <5>2. k \in ChildFiles
          BY <3>3, <4>1, <4>3, <5>1 DEF ChildFiles
        <5> QED
          BY <2>4, <5>2
      <4>4. CASE Child(k) \notin files
        <5>1. Child(k) \in ChildDirs
          BY <3>3, <4>4 DEF ChildDirs
        <5>2. Len(k) > Len(prefix) + 1
          BY <4>1, <4>2, <4>4
        <5>3. \A i \in 1..(Len(prefix) + 1) : Child(k)[i] = k[i]
          BY <4>2, <5>2 DEF Child
        <5>4. Extends(k, Child(k))
          BY <4>1, <5>2, <5>3 DEF Extends
        <5> QED
          BY <2>6, <5>1, <5>4
      <4> QED
        BY <4>3, <4>4
    <3> QED
      BY <2>1, <2>9, <3>1, <3>2, <3>3 DEF TreeWalk
  <2>10. \A d \in omitted' : HoldsFile(d)
    BY <1>2, <2>1 DEF TreeWalk
  <2>11. TreeWalk'
    BY <1>2, <1>3, <2>7, <2>8, <2>9, <2>10 DEF TreeWalk
  <2> QED
    BY <1>2, <1>3, <1>6, <2>11 DEF WalkState
<1> QED
  BY <1>5, <1>6

(* A directory whose listing fails has a file of its own. *)
LEMMA FailingHoldsFile ==
  ASSUME Inductive, InfoFails, Root \in Canonical, Root \notin files, OnTheWay(prefix)
  PROVE  HoldsFile(prefix)
<1>1. TypeOK /\ ListingIsExact /\ pc = "listed"
  BY DEF Inductive, InfoFails
<1>2. prefix \notin files
  BY <1>1, OnTheWayIsNoFile
<1>3. {out[i] : i \in 1..Len(out)} = Children(prefix)
  BY <1>1, <1>2 DEF ListingIsExact
<1>4. PICK i \in 1..Len(out) : ~out[i].is_dir
  BY DEF InfoFails
<1>5. out[i] \in Children(prefix)
  BY <1>3
<1>6. PICK k \in files : /\ Extends(k, prefix)
                         /\ out[i] = [name |-> Child(k), is_dir |-> Child(k) \notin files]
  BY <1>5 DEF Children, Child
<1>7. Child(k) \in files
  <2>1. [name |-> Child(k), is_dir |-> Child(k) \notin files].is_dir <=> Child(k) \notin files
    OBVIOUS
  <2> QED
    BY <1>4, <1>6, <2>1, Zenon
<1>8. Reached(Child(k))
  BY <1>1, <1>6, <1>7, ChildOnTheWay
<1>9. /\ Len(Child(k)) = Len(prefix) + 1 /\ Len(prefix) \in Nat
      /\ \A n \in 1..Len(prefix) : Child(k)[n] = prefix[n]
  BY <1>1, <1>6, ChildFacts DEF TypeOK, Canonical, Extends
<1>10. Extends(Child(k), prefix)
  BY <1>9 DEF Extends
<1> QED
  BY <1>7, <1>8, <1>9, <1>10 DEF HoldsFile

LEMMA WalkOmits ==
  ASSUME Inductive, WalkState, Omit
  PROVE  WalkState'
<1>1. TypeOK /\ InfoFails /\ pc = "listed" /\ Walking /\ prefix \in Waiting
  BY DEF Inductive, Omit, InfoFails, Walking, Waiting
<1>2. /\ pc' = "walk" /\ omitted' = omitted \cup {prefix}
      /\ UNCHANGED <<files, asked, prefix, pending, found>>
  BY DEF Omit
<1>3. /\ Root' = Root /\ \A d : HoldsFile(d)' <=> HoldsFile(d)
      /\ \A q : (OnTheWay(q)' <=> OnTheWay(q)) /\ (Reached(q)' <=> Reached(q))
  BY <1>2, SameRoot
<1>4. Waiting' \subseteq Waiting /\ Waiting \subseteq Waiting' \cup {prefix}
  BY <1>1, <1>2 DEF Waiting
<1>5. CASE Root \in files
  <2>1. FileWalk
    BY <1>1, <1>5 DEF WalkState
  <2>2. prefix = Root
    BY <1>1, <2>1 DEF FileWalk
  <2>3. FileWalk'
    BY <1>2, <1>3, <1>4, <2>1, <2>2 DEF FileWalk
  <2> QED
    BY <1>2, <1>3, <1>5, <2>3 DEF WalkState
<1>6. CASE Root \notin files
  <2>1. TreeWalk
    BY <1>1, <1>6 DEF WalkState
  <2>2. HoldsFile(prefix)
    BY <1>1, <1>6, <2>1, RootType, FailingHoldsFile DEF TreeWalk
  <2>3. TreeWalk'
    BY <1>2, <1>3, <1>4, <2>1, <2>2 DEF TreeWalk
  <2> QED
    BY <1>2, <1>3, <1>6, <2>3 DEF WalkState
<1> QED
  BY <1>5, <1>6

LEMMA WalkKeeps ==
  ASSUME Inductive, Inductive', WalkState, [Next]_vars
  PROVE  WalkState'
<1>1. CASE \E raw \in Raws : Walk(raw)
  BY <1>1, WalkBegins
<1>2. CASE \E raw \in Raws : Find(raw) \/ Glob(raw)
  BY <1>2 DEF Find, Glob, WalkState, Walking
<1>3. CASE \E path \in pending : Ls(path)
  BY <1>3, WalkLists
<1>4. CASE \E k \in todo : Push(k)
  <2>1. pc = "keys" /\ pc' = "keys" /\ UNCHANGED <<files, asked, prefix, pending, found, omitted>>
    BY <1>4 DEF Push
  <2>2. Waiting' = Waiting
    BY <2>1 DEF Waiting
  <2> QED
    BY <2>1, <2>2, SameWaiting DEF Walking
<1>5. CASE EndLs
  <2>1. pc = "keys" /\ pc' = "listed" /\ UNCHANGED <<files, asked, prefix, pending, found, omitted>>
    BY <1>5 DEF EndLs
  <2>2. Waiting' = Waiting
    BY <2>1 DEF Waiting
  <2> QED
    BY <2>1, <2>2, SameWaiting DEF Walking
<1>6. CASE Descend
  BY <1>6, WalkDescends
<1>7. CASE Omit
  BY <1>7, WalkOmits
<1>8. CASE Raise
  <2>1. pc' = "failed"
    BY <1>8 DEF Raise
  <2> QED
    BY <2>1 DEF WalkState, Walking
<1>9. CASE EndWalk
  <2>1. /\ pc = "walk" /\ pending = {} /\ pc' = "done"
        /\ UNCHANGED <<files, asked, prefix, pending, found, omitted>>
    BY <1>9 DEF EndWalk
  <2>2. Waiting' = Waiting
    BY <2>1 DEF Waiting
  <2> QED
    BY <2>1, <2>2, SameWaiting DEF Walking
<1>10. CASE UNCHANGED vars
  <2>1. UNCHANGED <<files, asked, pc, prefix, pending, found, omitted>>
    BY <1>10 DEF vars
  <2>2. Waiting' = Waiting
    BY <2>1 DEF Waiting
  <2>3. CASE Walking
    BY <2>1, <2>2, <2>3, SameWaiting DEF WalkState, Walking
  <2>4. CASE ~Walking
    BY <2>1, <2>4 DEF WalkState, Walking
  <2> QED
    BY <2>3, <2>4
<1> QED
  BY <1>1, <1>2, <1>3, <1>4, <1>5, <1>6, <1>7, <1>8, <1>9, <1>10 DEF Next, WalkStep, Answered

(* The whole tree: find without a bound on the depth, and of files only. *)
LEMMA FindGivesTree ==
  ASSUME TypeOK, NEW root \in Canonical, root \notin files
  PROVE  Names(FindNames(root, 0, FALSE)) = {k \in files : Extends(k, root)}
<1>1. Strip(root) = root /\ Normalize(root) = root
  BY StripCanonical
<1> DEFINE below == {k \in files : Extends(k, root)} \X {"paths"}
<1>2. ~(below = {} /\ Exists(root) /\ ~IsDir(root))
  BY <1>1 DEF Exists
<1>3. FindNames(root, 0, FALSE) = below
  BY <1>1, <1>2 DEF FindNames, Below, Within
<1>4. \A k : k \in {j \in files : Extends(j, root)} => <<k, "paths">> \in below /\ <<k, "paths">>[1] = k
  OBVIOUS
<1>5. \A e \in below : e[1] \in {j \in files : Extends(j, root)}
  OBVIOUS
<1> QED
  BY <1>3, <1>4, <1>5 DEF Names

(* A walk finds each file of the tree that find gives, once no directory   *)
(* is left to list, and nothing else.  A file below a name that is a file  *)
(* too stays hidden from it, and so do the files below a directory where   *)
(* the info of a file could not be had.                                    *)
THEOREM WalkFindsAll == Spec => []WalkFindsTree
<1>1. Init => WalkState
  BY DEF Init, WalkState, Walking
<1>2. Inductive /\ Inductive' /\ WalkState /\ [Next]_vars => WalkState'
  BY WalkKeeps
<1>3. Inductive /\ WalkState => WalkFindsTree
  <2> DEFINE tree    == Names(FindNames(Root, 0, FALSE))
             Hidden(k) == \E n \in (Len(Root) + 1)..(Len(k) - 1) : SubSeq(k, 1, n) \in files
             wanted  == IF Root \in files THEN {Root} ELSE {k \in tree : ~Hidden(k)}
  <2> SUFFICES ASSUME Inductive, WalkState, pc = "done"
               PROVE  /\ found \subseteq wanted
                      /\ \A k \in wanted \ found : \E d \in omitted : k = d \/ Extends(k, d)
                      /\ \A d \in omitted : \E k \in wanted :
                           k = d \/ (Extends(k, d) /\ Len(k) = Len(d) + 1)
    BY DEF WalkFindsTree, Root
  <2>1. TypeOK /\ Root \in Canonical /\ pending = {} /\ Waiting = {}
    BY RootType DEF Inductive, WalkState, Waiting
  <2>2. CASE Root \in files
    <3>1. /\ found \subseteq {Root} /\ omitted \subseteq {Root}
          /\ Root \in found \cup omitted
      BY <2>1, <2>2 DEF WalkState, Walking, FileWalk
    <3>2. wanted = {Root}
      BY <2>2
    <3> HIDE DEF wanted
    <3> QED
      BY <3>1, <3>2
  <2>3. CASE Root \notin files
    <3>1. TreeWalk
      BY <2>3 DEF WalkState, Walking
    <3>2. tree = {j \in files : Extends(j, Root)}
      BY <2>1, <2>3, FindGivesTree
    <3>3. \A k : Hidden(k) <=> ~Clear(k, Len(k) - 1)
      BY DEF Clear
    <3>4. \A k : k \in wanted <=> k \in files /\ Reached(k)
      BY <2>3, <3>2, <3>3 DEF Reached
    <3> HIDE DEF wanted
    <3>5. found \subseteq files
      BY <2>1 DEF TypeOK
    <3> QED
      BY <2>1, <3>1, <3>4, <3>5 DEF TreeWalk, HoldsFile
  <2> QED
    BY <2>2, <2>3
<1> QED
  BY <1>1, <1>2, <1>3, Invariance, PTL DEF Spec
=============================================================================
