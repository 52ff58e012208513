--------------------------- MODULE ArchiveProofs ---------------------------
(***************************************************************************)
(* Theorems about an open archive: ArchiveCache, for any number of         *)
(* threads, row groups and cached chunks, and CellValues, for any cells    *)
(* and any spans of the integer types.                                     *)
(***************************************************************************)
EXTENDS ArchiveCache, CellValues, SequenceLemmas, TLAPS
-----------------------------------------------------------------------------
(* The inductive invariant: the properties, and that a call that got past  *)
(* the index is about a file and of the kind its place in the code says.   *)

CallFits ==
  \A t \in Threads :
    /\ pc[t] # "idle" => call[t].path \in Files
    /\ pc[t] \in {"details", "in_details", "extra", "insert", "in_insert", "answer"}
         => call[t].op = "info"

Inductive ==
  /\ TypeOK /\ CallFits /\ CachesCoherent /\ CacheIsMostRecent
  /\ RepliesRight /\ NeverPoisoned /\ LocksAreShort
-----------------------------------------------------------------------------
(* The two ways an entry gets to the front. *)

LEMMA ToFrontFacts ==
  ASSUME NEW S, NEW s \in Seq(S), NEW i \in 1..Len(s)
  PROVE  /\ ToFront(s, i) \in Seq(S)
         /\ Len(ToFront(s, i)) = Len(s)
         /\ ToFront(s, i)[1] = s[i]
         /\ \A j \in 2..i : ToFront(s, i)[j] = s[j - 1]
         /\ \A j \in (i + 1)..Len(s) : ToFront(s, i)[j] = s[j]
<1>1. Len(s) \in Nat
  OBVIOUS
<1>2. \A j \in 1..Len(s) : ToFront(s, i)[j] \in S
  BY <1>1 DEF ToFront
<1>3. ToFront(s, i) \in [1..Len(s) -> S]
  BY <1>2 DEF ToFront
<1>4. ToFront(s, i) \in Seq(S) /\ Len(ToFront(s, i)) = Len(s)
  BY <1>1, <1>3
<1> QED
  BY <1>1, <1>4 DEF ToFront

LEMMA PushFrontFacts ==
  ASSUME NEW S, NEW s \in Seq(S), NEW e \in S, NEW n \in 1..(Len(s) + 1)
  PROVE  /\ PushFront(s, e, n) \in Seq(S)
         /\ Len(PushFront(s, e, n)) = n
         /\ PushFront(s, e, n)[1] = e
         /\ \A j \in 2..n : PushFront(s, e, n)[j] = s[j - 1]
<1>1. Len(s) \in Nat /\ n \in Nat
  OBVIOUS
<1>2. \A j \in 1..n : PushFront(s, e, n)[j] \in S
  BY <1>1 DEF PushFront
<1>3. PushFront(s, e, n) \in [1..n -> S]
  BY <1>2 DEF PushFront
<1>4. PushFront(s, e, n) \in Seq(S) /\ Len(PushFront(s, e, n)) = n
  BY <1>1, <1>3
<1> QED
  BY <1>1, <1>4 DEF PushFront

(* A cache c of the row groups used last, according to the order r. *)
MostRecent(c, r) ==
  /\ Len(c) = Least(Len(r), Capacity)
  /\ \A i \in 1..Len(c) : c[i].key = r[i]
  /\ \A i, j \in 1..Len(r) : r[i] = r[j] => i = j

Holds(c) == \A i \in 1..Len(c) : c[i].value = Chunk[c[i].key]

(* Moving an entry to the front keeps the order free of duplicates. *)
LEMMA UsedFacts ==
  ASSUME NEW r \in Seq(Groups), NEW g \in Groups,
         \A i, j \in 1..Len(r) : r[i] = r[j] => i = j
  PROVE  /\ Used(r, g) \in Seq(Groups)
         /\ \A i, j \in 1..Len(Used(r, g)) : Used(r, g)[i] = Used(r, g)[j] => i = j
<1>1. Len(r) \in Nat
  OBVIOUS
<1>2. CASE Listed(r, g)
  <2> DEFINE k == RankOf(r, g)
             u == ToFront(r, k)
  <2>1. k \in 1..Len(r) /\ r[k] = g
    BY <1>2 DEF Listed, RankOf
  <2>2. Used(r, g) = u
    BY <1>2 DEF Used
  <2> HIDE DEF k
  <2>3. /\ u \in Seq(Groups) /\ Len(u) = Len(r) /\ u[1] = r[k]
        /\ \A j \in 2..k : u[j] = r[j - 1]
        /\ \A j \in (k + 1)..Len(r) : u[j] = r[j]
    BY <2>1, ToFrontFacts
  <2> HIDE DEF u
  <2>4. ASSUME NEW i \in 1..Len(r), NEW j \in 1..Len(r), u[i] = u[j]
        PROVE  i = j
    <3> DEFINE from(n) == IF n = 1 THEN k ELSE IF n <= k THEN n - 1 ELSE n
    <3>1. from(i) \in 1..Len(r) /\ from(j) \in 1..Len(r)
      BY <1>1, <2>1
    <3>2. u[i] = r[from(i)] /\ u[j] = r[from(j)]
      BY <1>1, <2>1, <2>3
    <3>3. from(i) = from(j)
      <4> HIDE DEF from
      <4> QED
        BY <2>4, <3>1, <3>2
    <3> QED
      BY <1>1, <2>1, <3>3
  <2> QED
    BY <2>2, <2>3, <2>4
<1>3. CASE ~Listed(r, g)
  <2> DEFINE u == PushFront(r, g, Len(r) + 1)
  <2>1. Used(r, g) = u
    BY <1>3 DEF Used
  <2>2. /\ u \in Seq(Groups) /\ Len(u) = Len(r) + 1 /\ u[1] = g
        /\ \A j \in 2..(Len(r) + 1) : u[j] = r[j - 1]
    BY <1>1, PushFrontFacts
  <2> HIDE DEF u
  <2>3. ASSUME NEW i \in 1..(Len(r) + 1), NEW j \in 1..(Len(r) + 1), u[i] = u[j]
        PROVE  i = j
    <3>1. \A n \in 2..(Len(r) + 1) : n - 1 \in 1..Len(r) /\ u[n] # g
      BY <1>1, <1>3, <2>2 DEF Listed
    <3>2. CASE i = 1 \/ j = 1
      BY <1>1, <2>2, <2>3, <3>1, <3>2
    <3>3. CASE i # 1 /\ j # 1
      <4>1. i \in 2..(Len(r) + 1) /\ j \in 2..(Len(r) + 1)
        BY <1>1, <3>3
      <4>2. r[i - 1] = r[j - 1] /\ i - 1 \in 1..Len(r) /\ j - 1 \in 1..Len(r)
        BY <2>2, <2>3, <3>1, <4>1
      <4>3. i - 1 = j - 1
        BY <4>2
      <4> QED
        BY <1>1, <4>3
    <3> QED
      BY <3>2, <3>3
  <2> QED
    BY <2>1, <2>2, <2>3
<1> QED
  BY <1>2, <1>3

(* A hit keeps the cache the most recent row groups. *)
LEMMA TouchKeeps ==
  ASSUME NEW c \in Seq(Entries), NEW r \in Seq(Groups), MostRecent(c, r), Holds(c),
         NEW i \in 1..Len(c)
  PROVE  /\ ToFront(c, i) \in Seq(Entries)
         /\ ToFront(c, i)[1] = c[i]
         /\ MostRecent(ToFront(c, i), Used(r, c[i].key))
         /\ Holds(ToFront(c, i))
<1> DEFINE g == c[i].key
           d == ToFront(c, i)
           u == Used(r, g)
<1>1. /\ Len(c) \in Nat /\ Len(r) \in Nat /\ Capacity \in Nat
      /\ Len(c) = Least(Len(r), Capacity) /\ Len(c) <= Len(r)
  BY CacheAssumption DEF MostRecent, Least
<1>2. c[i] \in Entries /\ g \in Groups
  <2>1. c[i] \in Entries
    BY ElementOfSeq
  <2> QED
    BY <2>1 DEF Entries
<1>3. /\ d \in Seq(Entries) /\ Len(d) = Len(c) /\ d[1] = c[i]
      /\ \A j \in 2..i : d[j] = c[j - 1]
      /\ \A j \in (i + 1)..Len(c) : d[j] = c[j]
  BY ToFrontFacts
<1>4. r[i] = g /\ i \in 1..Len(r)
  BY <1>1 DEF MostRecent
<1>5. Listed(r, g) /\ RankOf(r, g) = i
  BY <1>4 DEF Listed, RankOf, MostRecent
<1>6. /\ Len(u) = Len(r) /\ u[1] = r[i]
      /\ \A j \in 2..i : u[j] = r[j - 1]
      /\ \A j \in (i + 1)..Len(r) : u[j] = r[j]
  BY <1>4, <1>5, ToFrontFacts DEF Used
<1>7. \A j, k \in 1..Len(u) : u[j] = u[k] => j = k
  BY <1>2, UsedFacts DEF MostRecent
<1> HIDE DEF d, u
<1>8. \A j \in 1..Len(c) : d[j].key = u[j]
  <2> TAKE j \in 1..Len(c)
  <2>1. CASE j = 1
    BY <2>1, <1>3, <1>4, <1>6
  <2>2. CASE j # 1 /\ j <= i
    <3>1. j - 1 \in 1..Len(c) /\ j \in 2..i
      BY <2>2, <1>1
    <3> QED
      BY <3>1, <1>3, <1>6 DEF MostRecent
  <2>3. CASE j > i
    <3>1. j \in (i + 1)..Len(c) /\ j \in (i + 1)..Len(r)
      BY <2>3, <1>1
    <3> QED
      BY <3>1, <1>3, <1>6 DEF MostRecent
  <2> QED
    BY <1>1, <2>1, <2>2, <2>3
<1>9. Holds(d)
  <2> SUFFICES ASSUME NEW j \in 1..Len(c) PROVE d[j].value = Chunk[d[j].key]
    BY <1>3 DEF Holds
  <2>1. PICK k \in 1..Len(c) : d[j] = c[k]
    <3>1. CASE j = 1
      BY <3>1, <1>3
    <3>2. CASE j # 1 /\ j <= i
      <4>1. j \in 2..i /\ j - 1 \in 1..Len(c)
        BY <3>2, <1>1
      <4> QED
        BY <4>1, <1>3
    <3>3. CASE j > i
      <4>1. j \in (i + 1)..Len(c)
        BY <3>3, <1>1
      <4> QED
        BY <4>1, <1>3
    <3> QED
      BY <1>1, <3>1, <3>2, <3>3
  <2> QED
    BY <2>1 DEF Holds
<1>10. MostRecent(d, u)
  BY <1>1, <1>3, <1>6, <1>7, <1>8 DEF MostRecent
<1> QED
  BY <1>3, <1>9, <1>10 DEF d, u

(* So does an insertion of what decoding the row group gave. *)
LEMMA PutKeeps ==
  ASSUME NEW c \in Seq(Entries), NEW r \in Seq(Groups), MostRecent(c, r), Holds(c),
         NEW e \in Entries, e.value = Chunk[e.key]
  PROVE  /\ Put(c, e) \in Seq(Entries)
         /\ MostRecent(Put(c, e), Used(r, e.key))
         /\ Holds(Put(c, e))
<1>1. CASE Cached(c, e.key)
  <2> DEFINE i == PlaceOf(c, e.key)
             d == ToFront(c, i)
  <2>1. i \in 1..Len(c) /\ c[i].key = e.key
    BY <1>1 DEF Cached, PlaceOf
  <2> HIDE DEF i
  <2>2. c[i] = e
    <3>1. c[i].value = e.value /\ c[i] \in Entries
      BY <2>1 DEF Holds
    <3> QED
      BY <2>1, <3>1 DEF Entries
  <2>3. /\ d \in Seq(Entries) /\ d[1] = e /\ MostRecent(d, Used(r, e.key)) /\ Holds(d)
    BY <2>1, <2>2, TouchKeeps
  <2> HIDE DEF d
  <2>4. [d EXCEPT ![1] = e] = d
    BY <2>3
  <2> QED
    BY <1>1, <2>3, <2>4 DEF Put, d, i
<1>2. CASE ~Cached(c, e.key)
  <2> DEFINE g == e.key
             n == Least(Len(c) + 1, Capacity)
             d == PushFront(c, e, n)
             u == Used(r, g)
  <2>1. /\ Len(c) \in Nat /\ Len(r) \in Nat /\ Capacity \in Nat \ {0}
        /\ Len(c) = Least(Len(r), Capacity) /\ g \in Groups
    BY CacheAssumption DEF MostRecent, Entries
  <2>2. n \in 1..(Len(c) + 1) /\ n \in Nat
    BY <2>1 DEF Least
  <2> HIDE DEF n
  <2>3. /\ d \in Seq(Entries) /\ Len(d) = n /\ d[1] = e
        /\ \A j \in 2..n : d[j] = c[j - 1]
    BY <2>2, PushFrontFacts
  <2>4. /\ u \in Seq(Groups)
        /\ \A j, k \in 1..Len(u) : u[j] = u[k] => j = k
    BY <2>1, UsedFacts DEF MostRecent
  <2>5. /\ n = Least(Len(u), Capacity) /\ u[1] = g
        /\ \A j \in 2..n : u[j] = r[j - 1]
    <3>1. CASE Listed(r, g)
      <4> DEFINE k == RankOf(r, g)
      <4>1. k \in 1..Len(r) /\ r[k] = g
        BY <3>1 DEF Listed, RankOf
      <4>2. u = ToFront(r, k)
        BY <3>1 DEF Used
      <4> HIDE DEF k, u
      <4>3. /\ Len(u) = Len(r) /\ u[1] = r[k]
            /\ \A j \in 2..k : u[j] = r[j - 1]
        BY <4>1, <4>2, ToFrontFacts
      <4>4. k \notin 1..Len(c)
        BY <1>2, <4>1 DEF Cached, MostRecent
      <4>5. Len(c) = Capacity /\ k > Capacity /\ n = Capacity
        BY <2>1, <4>1, <4>4 DEF Least, n
      <4> QED
        BY <2>1, <4>1, <4>3, <4>5 DEF Least
    <3>2. CASE ~Listed(r, g)
      <4>1. u = PushFront(r, g, Len(r) + 1)
        BY <3>2 DEF Used
      <4> HIDE DEF u
      <4>2. /\ Len(u) = Len(r) + 1 /\ u[1] = g
            /\ \A j \in 2..(Len(r) + 1) : u[j] = r[j - 1]
        <5> DEFINE m == Len(r) + 1
        <5>1. m \in 1..(Len(r) + 1) /\ g \in Groups /\ u = PushFront(r, g, m)
          BY <2>1, <4>1
        <5> HIDE DEF m, g
        <5>2. /\ Len(PushFront(r, g, m)) = m /\ PushFront(r, g, m)[1] = g
              /\ \A j \in 2..m : PushFront(r, g, m)[j] = r[j - 1]
          BY <5>1, PushFrontFacts
        <5> QED
          BY <5>1, <5>2 DEF m
      <4> QED
        BY <2>1, <4>2 DEF Least, n
    <3> QED
      BY <3>1, <3>2
  <2> HIDE DEF d, u
  <2>6. \A j \in 1..n : d[j].key = u[j] /\ d[j].value = Chunk[d[j].key]
    <3> TAKE j \in 1..n
    <3>1. CASE j = 1
      BY <3>1, <2>3, <2>5
    <3>2. CASE j # 1
      <4>1. j \in 2..n /\ j - 1 \in 1..Len(c)
        BY <3>2, <2>1, <2>2
      <4> QED
        BY <4>1, <2>3, <2>5 DEF MostRecent, Holds
    <3> QED
      BY <3>1, <3>2
  <2>7. MostRecent(d, u) /\ Holds(d)
    BY <2>3, <2>4, <2>5, <2>6 DEF MostRecent, Holds
  <2> QED
    BY <1>2, <2>3, <2>7 DEF Put, d, u, n
<1> QED
  BY <1>1, <1>2
-----------------------------------------------------------------------------
(* Every action preserves the invariant. *)

LEMMA CallFacts ==
  ASSUME TypeOK, CallFits, NEW t \in Threads, pc[t] # "idle"
  PROVE  /\ call[t] \in Calls /\ call[t].path \in Files
         /\ Group(t) \in Groups /\ Chunk[Group(t)] \in Columns
<1>1. call[t] \in Calls /\ call[t].path \in Files
  BY DEF TypeOK, CallFits
<1> QED
  BY <1>1, CacheAssumption DEF Group

THEOREM Initially == Init => Inductive
<1> SUFFICES ASSUME Init PROVE Inductive
  OBVIOUS
<1> USE DEF Init
<1>1. TypeOK
  <2>1. PICK c \in Calls : call = [t \in Threads |-> c]
    OBVIOUS
  <2>2. MaxCalls \in 0..MaxCalls
    BY CacheAssumption
  <2> QED
    BY <2>1, <2>2, EmptySeq DEF TypeOK, Mutexes, Replies, Plain, Kinds
<1>2. CallFits /\ NeverPoisoned
  BY DEF CallFits, NeverPoisoned
<1>3. CachesCoherent
  BY EmptySeq DEF CachesCoherent
<1>4. CacheIsMostRecent
  BY EmptySeq, CacheAssumption DEF CacheIsMostRecent, Least
<1>5. RepliesRight
  BY DEF RepliesRight, Plain
<1>6. LocksAreShort
  BY CacheAssumption DEF LocksAreShort, Mutexes
<1> QED
  BY <1>1, <1>2, <1>3, <1>4, <1>5, <1>6 DEF Inductive

LEMMA BeginStep ==
  ASSUME Inductive, NEW t \in Threads, Begin(t)
  PROVE  Inductive'
<1> USE DEF Inductive
<1>1. PICK c \in Calls :
        /\ call' = [call EXCEPT ![t] = c]
        /\ IF c.path \in Files
           THEN /\ Goto(t, IF c.op = "read" THEN "chunks" ELSE "details")
                /\ reply' = [reply EXCEPT ![t] = Plain("none")]
           ELSE Return(t, Plain(IF c.op = "info" /\ c.path \in Dirs
                                THEN "dir" ELSE "not_found"))
  BY DEF Begin
<1>2. /\ pc[t] = "idle" /\ left[t] > 0
      /\ col' = [col EXCEPT ![t] = NoColumn] /\ left' = [left EXCEPT ![t] = @ - 1]
      /\ UNCHANGED <<chunks, details, holder, poisoned, recent>>
  BY DEF Begin
<1>3. PICK s \in {"idle", "chunks", "details"}, k \in {"none", "dir", "not_found"} :
        /\ pc' = [pc EXCEPT ![t] = s]
        /\ reply' = [reply EXCEPT ![t] = Plain(k)]
        /\ s # "idle" => c.path \in Files
        /\ s = "details" => c.op = "info"
        /\ k = "not_found" => c.path \notin Files
  BY <1>1 DEF Goto, Return, Calls
<1>4. TypeOK'
  <2>1. left' \in [Threads -> 0..MaxCalls]
    BY <1>2, CacheAssumption DEF TypeOK
  <2>2. pc' \in [Threads -> {"idle", "details", "in_details", "chunks", "in_chunks",
                             "decode", "put", "in_put", "use", "extra",
                             "insert", "in_insert", "answer"}]
    BY <1>3 DEF TypeOK
  <2>3. reply' \in [Threads -> Replies]
    BY <1>3 DEF TypeOK, Replies, Kinds, Plain
  <2> QED
    BY <1>1, <1>2, <2>1, <2>2, <2>3 DEF TypeOK
<1>5. /\ pc'[t] = s /\ call'[t] = c /\ reply'[t].kind = k
      /\ \A u \in Threads : u # t => /\ pc'[u] = pc[u] /\ call'[u] = call[u]
                                     /\ col'[u] = col[u] /\ reply'[u] = reply[u]
                                     /\ Group(u)' = Group(u)
  BY <1>1, <1>2, <1>3 DEF TypeOK, Group, Plain
<1>6. CallFits'
  BY <1>3, <1>5 DEF CallFits
<1>7. CachesCoherent'
  BY <1>2, <1>5 DEF CachesCoherent
<1>8. CacheIsMostRecent' /\ NeverPoisoned'
  BY <1>2 DEF CacheIsMostRecent, NeverPoisoned
<1>9. RepliesRight'
  BY <1>3, <1>5 DEF RepliesRight
<1>10. LocksAreShort'
  <2> SUFFICES ASSUME NEW u \in Threads, NEW l \in Mutexes
               PROVE  holder[l] = u <=>
                        pc'[u] \in (IF l = "chunks" THEN {"in_chunks", "in_put"}
                                    ELSE {"in_details", "in_insert"})
    BY <1>2 DEF LocksAreShort
  <2> QED
    BY <1>2, <1>5 DEF LocksAreShort
<1> QED
  BY <1>4, <1>6, <1>7, <1>8, <1>9, <1>10

LEMMA GetDetailStep ==
  ASSUME Inductive, NEW t \in Threads, GetDetail(t)
  PROVE  Inductive'
<1> USE DEF Inductive, GetDetail, Goto, Unlock
<1>1. TypeOK'
  BY CallFacts DEF TypeOK, Calls, Replies, Kinds, Mutexes
<1>2. CallFits'
  BY DEF CallFits, TypeOK
<1>3. CachesCoherent'
  BY CallFacts DEF CachesCoherent, TypeOK, Group
<1>4. CacheIsMostRecent'
  BY DEF CacheIsMostRecent
<1>5. RepliesRight'
  BY CallFacts DEF RepliesRight, TypeOK, Group, CachesCoherent, CallFits
<1>6. NeverPoisoned' /\ LocksAreShort'
  BY CacheAssumption DEF NeverPoisoned, LocksAreShort, TypeOK, Mutexes
<1> QED
  BY <1>1, <1>2, <1>3, <1>4, <1>5, <1>6

LEMMA DecodeStep ==
  ASSUME Inductive, NEW t \in Threads, Decode(t)
  PROVE  Inductive'
<1> USE DEF Inductive, Decode, Goto
<1>1. TypeOK'
  BY CallFacts DEF TypeOK, Calls, Replies, Kinds, Mutexes
<1>2. CallFits'
  BY DEF CallFits, TypeOK
<1>3. CachesCoherent'
  BY CallFacts DEF CachesCoherent, TypeOK, Group
<1>4. CacheIsMostRecent'
  BY DEF CacheIsMostRecent
<1>5. RepliesRight'
  BY CallFacts DEF RepliesRight, TypeOK, Group, CachesCoherent, CallFits
<1>6. NeverPoisoned' /\ LocksAreShort'
  BY CacheAssumption DEF NeverPoisoned, LocksAreShort, TypeOK, Mutexes
<1> QED
  BY <1>1, <1>2, <1>3, <1>4, <1>5, <1>6

LEMMA ReadStep ==
  ASSUME Inductive, NEW t \in Threads, ReadValue(t)
  PROVE  Inductive'
<1> USE DEF Inductive, ReadValue, Return, Goto, Found
<1>1. TypeOK'
  BY CallFacts DEF TypeOK, Calls, Replies, Kinds, Mutexes
<1>2. CallFits'
  BY DEF CallFits, TypeOK
<1>3. CachesCoherent'
  BY CallFacts DEF CachesCoherent, TypeOK, Group
<1>4. CacheIsMostRecent'
  BY DEF CacheIsMostRecent
<1>5. RepliesRight'
  BY CallFacts DEF RepliesRight, TypeOK, Group, CachesCoherent, CallFits
<1>6. NeverPoisoned' /\ LocksAreShort'
  BY CacheAssumption DEF NeverPoisoned, LocksAreShort, TypeOK, Mutexes
<1> QED
  BY <1>1, <1>2, <1>3, <1>4, <1>5, <1>6

LEMMA SizesStep ==
  ASSUME Inductive, NEW t \in Threads, ComputeSizes(t)
  PROVE  Inductive'
<1> USE DEF Inductive, ComputeSizes, Goto
<1>1. TypeOK'
  BY CallFacts DEF TypeOK, Calls, Replies, Kinds, Mutexes
<1>2. CallFits'
  BY DEF CallFits, TypeOK
<1>3. CachesCoherent'
  BY CallFacts DEF CachesCoherent, TypeOK, Group
<1>4. CacheIsMostRecent'
  BY DEF CacheIsMostRecent
<1>5. RepliesRight'
  BY CallFacts DEF RepliesRight, TypeOK, Group, CachesCoherent, CallFits
<1>6. NeverPoisoned' /\ LocksAreShort'
  BY CacheAssumption DEF NeverPoisoned, LocksAreShort, TypeOK, Mutexes
<1> QED
  BY <1>1, <1>2, <1>3, <1>4, <1>5, <1>6

LEMMA ExtraStep ==
  ASSUME Inductive, NEW t \in Threads, DecodeExtra(t)
  PROVE  Inductive'
<1> USE DEF Inductive, DecodeExtra, Goto
<1>1. TypeOK'
  BY CallFacts DEF TypeOK, Calls, Replies, Kinds, Mutexes
<1>2. CallFits'
  BY DEF CallFits, TypeOK
<1>3. CachesCoherent'
  BY CallFacts DEF CachesCoherent, TypeOK, Group
<1>4. CacheIsMostRecent'
  BY DEF CacheIsMostRecent
<1>5. RepliesRight'
  BY CallFacts DEF RepliesRight, TypeOK, Group, CachesCoherent, CallFits
<1>6. NeverPoisoned' /\ LocksAreShort'
  BY CacheAssumption DEF NeverPoisoned, LocksAreShort, TypeOK, Mutexes
<1> QED
  BY <1>1, <1>2, <1>3, <1>4, <1>5, <1>6

LEMMA InsertStep ==
  ASSUME Inductive, NEW t \in Threads, InsertDetail(t)
  PROVE  Inductive'
<1> USE DEF Inductive, InsertDetail, Goto, Unlock
<1>1. TypeOK'
  BY CallFacts DEF TypeOK, Calls, Replies, Kinds, Mutexes
<1>2. CallFits'
  BY DEF CallFits, TypeOK
<1>3. CachesCoherent'
  BY CallFacts DEF CachesCoherent, TypeOK, Group
<1>4. CacheIsMostRecent'
  BY DEF CacheIsMostRecent
<1>5. RepliesRight'
  BY CallFacts DEF RepliesRight, TypeOK, Group, CachesCoherent, CallFits
<1>6. NeverPoisoned' /\ LocksAreShort'
  BY CacheAssumption DEF NeverPoisoned, LocksAreShort, TypeOK, Mutexes
<1> QED
  BY <1>1, <1>2, <1>3, <1>4, <1>5, <1>6

LEMMA AnswerStep ==
  ASSUME Inductive, NEW t \in Threads, AnswerInfo(t)
  PROVE  Inductive'
<1> USE DEF Inductive, AnswerInfo, Return, Goto, Found
<1>1. TypeOK'
  BY CallFacts DEF TypeOK, Calls, Replies, Kinds, Mutexes
<1>2. CallFits'
  BY DEF CallFits, TypeOK
<1>3. CachesCoherent'
  BY CallFacts DEF CachesCoherent, TypeOK, Group
<1>4. CacheIsMostRecent'
  BY DEF CacheIsMostRecent
<1>5. RepliesRight'
  BY CallFacts DEF RepliesRight, TypeOK, Group, CachesCoherent, CallFits
<1>6. NeverPoisoned' /\ LocksAreShort'
  BY CacheAssumption DEF NeverPoisoned, LocksAreShort, TypeOK, Mutexes
<1> QED
  BY <1>1, <1>2, <1>3, <1>4, <1>5, <1>6

LEMMA FailStep ==
  ASSUME Inductive, NEW t \in Threads, ReadFails(t)
  PROVE  Inductive'
<1> USE DEF Inductive, ReadFails, Return, Goto, Plain
<1>1. TypeOK'
  BY CallFacts DEF TypeOK, Calls, Replies, Kinds, Mutexes
<1>2. CallFits'
  BY DEF CallFits, TypeOK
<1>3. CachesCoherent'
  BY CallFacts DEF CachesCoherent, TypeOK, Group
<1>4. CacheIsMostRecent'
  BY DEF CacheIsMostRecent
<1>5. RepliesRight'
  BY CallFacts DEF RepliesRight, TypeOK, Group, CachesCoherent, CallFits
<1>6. NeverPoisoned' /\ LocksAreShort'
  BY CacheAssumption DEF NeverPoisoned, LocksAreShort, TypeOK, Mutexes
<1> QED
  BY <1>1, <1>2, <1>3, <1>4, <1>5, <1>6

LEMMA GetChunkStep ==
  ASSUME Inductive, NEW t \in Threads, GetChunk(t)
  PROVE  Inductive'
<1> USE DEF Inductive
<1> DEFINE g == Group(t)
           i == PlaceOf(chunks, g)
<1>1. /\ pc[t] = "in_chunks" /\ holder' = [holder EXCEPT !["chunks"] = NoThread]
      /\ UNCHANGED <<details, poisoned, call, reply, left>>
  BY DEF GetChunk, Unlock
<1>2. /\ g \in Groups /\ call[t].path \in Files
      /\ MostRecent(chunks, recent) /\ Holds(chunks)
  BY <1>1, CallFacts DEF CacheIsMostRecent, MostRecent, CachesCoherent, Holds
<1>3. \E s \in {"use", "decode"} :
        /\ pc' = [pc EXCEPT ![t] = s]
        /\ chunks' \in Seq(Entries) /\ recent' \in Seq(Groups)
        /\ MostRecent(chunks', recent') /\ Holds(chunks')
        /\ IF s = "use" THEN col' = [col EXCEPT ![t] = Chunk[g]] ELSE col' = col
  <2>1. CASE Cached(chunks, g)
    <3>1. /\ col' = [col EXCEPT ![t] = chunks[i].value]
          /\ chunks' = ToFront(chunks, i) /\ recent' = Used(recent, g)
          /\ pc' = [pc EXCEPT ![t] = "use"]
      BY <2>1 DEF GetChunk, Goto
    <3>2. i \in 1..Len(chunks) /\ chunks[i].key = g
      BY <2>1 DEF Cached, PlaceOf
    <3> HIDE DEF i
    <3>3. chunks[i].value = Chunk[g]
      BY <1>2, <3>2 DEF Holds
    <3>4. /\ ToFront(chunks, i) \in Seq(Entries)
          /\ MostRecent(ToFront(chunks, i), Used(recent, g))
          /\ Holds(ToFront(chunks, i))
      BY <1>2, <3>2, TouchKeeps DEF TypeOK
    <3>5. Used(recent, g) \in Seq(Groups)
      BY <1>2, UsedFacts DEF TypeOK, MostRecent
    <3> QED
      BY <3>1, <3>3, <3>4, <3>5
  <2>2. CASE ~Cached(chunks, g)
    <3>1. /\ pc' = [pc EXCEPT ![t] = "decode"]
          /\ col' = col /\ chunks' = chunks /\ recent' = recent
      BY <2>2 DEF GetChunk, Goto
    <3> QED
      BY <1>2, <3>1 DEF TypeOK
  <2> QED
    BY <2>1, <2>2
<1>4. PICK s \in {"use", "decode"} :
        /\ pc' = [pc EXCEPT ![t] = s]
        /\ chunks' \in Seq(Entries) /\ recent' \in Seq(Groups)
        /\ MostRecent(chunks', recent') /\ Holds(chunks')
        /\ IF s = "use" THEN col' = [col EXCEPT ![t] = Chunk[g]] ELSE col' = col
  BY <1>3
<1>5. \A u \in Threads : /\ u # t => pc'[u] = pc[u] /\ col'[u] = col[u]
                         /\ Group(u)' = Group(u)
  BY <1>1, <1>4 DEF TypeOK, Group
<1>6. TypeOK'
  BY <1>1, <1>2, <1>4, CacheAssumption DEF TypeOK
<1>7. CallFits'
  BY <1>1, <1>2, <1>4 DEF CallFits, TypeOK
<1>8. CachesCoherent'
  <2> SUFFICES ASSUME NEW u \in Threads,
                      pc'[u] \in {"put", "in_put", "use", "extra", "insert",
                                  "in_insert", "answer"}
               PROVE  col'[u] = Chunk[Group(u)]
    BY <1>1, <1>4, <1>5 DEF CachesCoherent, Holds
  <2>1. CASE u = t
    BY <2>1, <1>4 DEF TypeOK
  <2>2. CASE u # t
    BY <2>2, <1>5 DEF CachesCoherent
  <2> QED
    BY <2>1, <2>2
<1>9. CacheIsMostRecent'
  BY <1>4 DEF CacheIsMostRecent, MostRecent
<1>10. RepliesRight'
  BY <1>1, <1>4, <1>5 DEF RepliesRight, TypeOK
<1>11. NeverPoisoned' /\ LocksAreShort'
  BY <1>1, <1>4, CacheAssumption DEF NeverPoisoned, LocksAreShort, TypeOK, Mutexes
<1> QED
  BY <1>6, <1>7, <1>8, <1>9, <1>10, <1>11

LEMMA PutStep ==
  ASSUME Inductive, NEW t \in Threads, PutChunk(t)
  PROVE  Inductive'
<1> USE DEF Inductive
<1> DEFINE g == Group(t)
           e == [key |-> g, value |-> col[t]]
<1>1. /\ pc[t] = "in_put" /\ holder' = [holder EXCEPT !["chunks"] = NoThread]
      /\ pc' = [pc EXCEPT ![t] = "use"]
      /\ chunks' = Put(chunks, e) /\ recent' = Used(recent, g)
      /\ UNCHANGED <<details, poisoned, call, col, reply, left>>
  BY DEF PutChunk, Unlock, Goto
<1>2. /\ g \in Groups /\ call[t].path \in Files /\ col[t] = Chunk[g]
      /\ MostRecent(chunks, recent) /\ Holds(chunks)
  BY <1>1, CallFacts DEF CacheIsMostRecent, MostRecent, CachesCoherent, Holds
<1>3. e \in Entries /\ e.key = g /\ e.value = Chunk[e.key]
  BY <1>2, CacheAssumption DEF Entries
<1>4. /\ chunks' \in Seq(Entries) /\ recent' \in Seq(Groups)
      /\ MostRecent(chunks', recent') /\ Holds(chunks')
  <2>1. recent' \in Seq(Groups)
    BY <1>1, <1>2, UsedFacts DEF TypeOK, MostRecent
  <2> HIDE DEF e
  <2> QED
    BY <1>1, <1>2, <1>3, <2>1, PutKeeps DEF TypeOK
<1>5. \A u \in Threads : /\ u # t => pc'[u] = pc[u]
                         /\ Group(u)' = Group(u)
  BY <1>1 DEF TypeOK, Group
<1>6. TypeOK'
  BY <1>1, <1>4 DEF TypeOK
<1>7. CallFits'
  BY <1>1, <1>2 DEF CallFits, TypeOK
<1>8. CachesCoherent'
  BY <1>1, <1>2, <1>4, <1>5 DEF CachesCoherent, Holds
<1>9. CacheIsMostRecent'
  BY <1>4 DEF CacheIsMostRecent, MostRecent
<1>10. RepliesRight'
  BY <1>1, <1>5 DEF RepliesRight, TypeOK
<1>11. NeverPoisoned' /\ LocksAreShort'
  BY <1>1, CacheAssumption DEF NeverPoisoned, LocksAreShort, TypeOK, Mutexes
<1> QED
  BY <1>6, <1>7, <1>8, <1>9, <1>10, <1>11

LEMMA PanicStep ==
  ASSUME Inductive, NEW t \in Threads, Panic(t)
  PROVE  Inductive'
<1> USE DEF Inductive
<1>1. /\ pc[t] \in {"decode", "use", "extra", "answer"}
      /\ pc' = [pc EXCEPT ![t] = "idle"]
      /\ reply' = [reply EXCEPT ![t] = Plain("panic")]
      /\ UNCHANGED <<chunks, details, call, col, left, recent>>
  BY DEF Panic, Return, Goto
<1>2. \A l \in Mutexes : holder[l] # t
  BY <1>1 DEF LocksAreShort
<1>3. poisoned' = poisoned /\ holder' = holder
  BY <1>2 DEF Panic, TypeOK, NeverPoisoned
<1>4. TypeOK'
  BY <1>1, <1>3 DEF TypeOK, Replies, Kinds, Plain
<1>5. CallFits' /\ CacheIsMostRecent' /\ NeverPoisoned'
  BY <1>1, <1>3 DEF CallFits, TypeOK, CacheIsMostRecent, NeverPoisoned
<1>6. CachesCoherent'
  BY <1>1 DEF CachesCoherent, TypeOK, Group
<1>7. RepliesRight'
  BY <1>1, CallFacts DEF RepliesRight, TypeOK, Group, Plain
<1>8. LocksAreShort'
  <2> SUFFICES ASSUME NEW u \in Threads, NEW l \in Mutexes
               PROVE  holder[l] = u <=>
                        pc'[u] \in (IF l = "chunks" THEN {"in_chunks", "in_put"}
                                    ELSE {"in_details", "in_insert"})
    BY <1>3 DEF LocksAreShort
  <2>1. CASE u = t
    BY <2>1, <1>1, <1>2 DEF TypeOK
  <2>2. CASE u # t
    BY <2>2, <1>1 DEF LocksAreShort, TypeOK
  <2> QED
    BY <2>1, <2>2
<1> QED
  BY <1>4, <1>5, <1>6, <1>7, <1>8

LEMMA LockStep ==
  ASSUME Inductive, NEW t \in Threads, NEW l \in Mutexes, NEW from, NEW to,
         Lock(t, l, from, to),
         <<l, from, to>> \in {<<"details", "details", "in_details">>,
                              <<"chunks", "chunks", "in_chunks">>,
                              <<"chunks", "put", "in_put">>,
                              <<"details", "insert", "in_insert">>}
  PROVE  Inductive'
<1> USE DEF Inductive
<1>1. /\ pc[t] = from /\ holder[l] = NoThread
      /\ holder' = [holder EXCEPT ![l] = t]
      /\ pc' = [pc EXCEPT ![t] = to]
      /\ UNCHANGED <<chunks, details, poisoned, call, col, reply, left, recent>>
  BY DEF Lock, Goto, NeverPoisoned
<1>2. \/ l = "details" /\ from = "details" /\ to = "in_details"
      \/ l = "chunks" /\ from = "chunks" /\ to = "in_chunks"
      \/ l = "chunks" /\ from = "put" /\ to = "in_put"
      \/ l = "details" /\ from = "insert" /\ to = "in_insert"
  OBVIOUS
<1>3. TypeOK'
  BY <1>1, <1>2 DEF TypeOK
<1>4. CallFits'
  BY <1>1, <1>2 DEF CallFits, TypeOK
<1>5. CachesCoherent' /\ CacheIsMostRecent' /\ NeverPoisoned'
  BY <1>1, <1>2 DEF CachesCoherent, CacheIsMostRecent, NeverPoisoned, TypeOK, Group
<1>6. RepliesRight'
  BY <1>1, <1>2 DEF RepliesRight, TypeOK, Group
<1>7. LocksAreShort'
  BY <1>1, <1>2, CacheAssumption DEF LocksAreShort, TypeOK, Mutexes
<1> QED
  BY <1>3, <1>4, <1>5, <1>6, <1>7
-----------------------------------------------------------------------------
LEMMA InductiveStep ==
  ASSUME Inductive, [Next]_vars
  PROVE  Inductive'
<1>1. ASSUME NEW t \in Threads, Step(t) PROVE Inductive'
  <2> USE DEF Mutexes
  <2>1. CASE Begin(t)        BY <2>1, BeginStep
  <2>2. CASE GetDetail(t)    BY <2>2, GetDetailStep
  <2>3. CASE GetChunk(t)     BY <2>3, GetChunkStep
  <2>4. CASE Decode(t)       BY <2>4, DecodeStep
  <2>5. CASE PutChunk(t)     BY <2>5, PutStep
  <2>6. CASE ReadValue(t)    BY <2>6, ReadStep
  <2>7. CASE ComputeSizes(t) BY <2>7, SizesStep
  <2>8. CASE DecodeExtra(t)  BY <2>8, ExtraStep
  <2>9. CASE InsertDetail(t) BY <2>9, InsertStep
  <2>10. CASE AnswerInfo(t)  BY <2>10, AnswerStep
  <2>11. CASE ReadFails(t)   BY <2>11, FailStep
  <2>12. CASE Panic(t)       BY <2>12, PanicStep
  <2>13. CASE Lock(t, "details", "details", "in_details") BY <2>13, LockStep
  <2>14. CASE Lock(t, "chunks", "chunks", "in_chunks")    BY <2>14, LockStep
  <2>15. CASE Lock(t, "chunks", "put", "in_put")          BY <2>15, LockStep
  <2>16. CASE Lock(t, "details", "insert", "in_insert")   BY <2>16, LockStep
  <2> QED
    BY <1>1, <2>1, <2>2, <2>3, <2>4, <2>5, <2>6, <2>7, <2>8, <2>9, <2>10,
       <2>11, <2>12, <2>13, <2>14, <2>15, <2>16 DEF Step
<1>2. CASE UNCHANGED vars
  <2> USE <1>2 DEF vars, Inductive
  <2>1. TypeOK' /\ CallFits'
    BY DEF TypeOK, CallFits
  <2>2. CachesCoherent' /\ CacheIsMostRecent'
    BY DEF CachesCoherent, CacheIsMostRecent, Group
  <2>3. RepliesRight' /\ NeverPoisoned' /\ LocksAreShort'
    BY DEF RepliesRight, NeverPoisoned, LocksAreShort, Group
  <2> QED
    BY <2>1, <2>2, <2>3
<1> QED
  BY <1>1, <1>2 DEF Next

(* The invariant holds in every reachable state. *)
THEOREM InductiveInvariant == Spec => []Inductive
<1>1. Inductive /\ [Next]_vars => Inductive'
  BY InductiveStep
<1> QED
  BY <1>1, Initially, PTL DEF Spec

(* Every variable keeps its type. *)
THEOREM TypeCorrect == Spec => []TypeOK
<1>1. Inductive => TypeOK
  BY DEF Inductive
<1> QED
  BY <1>1, InductiveInvariant, PTL

(* Cached columns and details are what decoding their row group gives, in  *)
(* spite of simultaneous misses, evictions and failures.                   *)
THEOREM Coherence == Spec => []CachesCoherent
<1>1. Inductive => CachesCoherent
  BY DEF Inductive
<1> QED
  BY <1>1, InductiveInvariant, PTL

(* The LruCache stays within its capacity, without duplicates, and keeps   *)
(* the row groups used last.                                               *)
THEOREM Recency == Spec => []CacheIsMostRecent
<1>1. Inductive => CacheIsMostRecent
  BY DEF Inductive
<1> QED
  BY <1>1, InductiveInvariant, PTL

(* Calls return what they were asked for. *)
THEOREM RepliesCorrect == Spec => []RepliesRight
<1>1. Inductive => RepliesRight
  BY DEF Inductive
<1> QED
  BY <1>1, InductiveInvariant, PTL

(* No mutex is held while the shard is read or while waiting for another   *)
(* mutex, so that no panic poisons one.                                    *)
THEOREM LockDiscipline == Spec => [](LocksAreShort /\ NeverPoisoned)
<1>1. Inductive => LocksAreShort /\ NeverPoisoned
  BY DEF Inductive
<1> QED
  BY <1>1, InductiveInvariant, PTL
-----------------------------------------------------------------------------
(* CellValues: what a call answers depends on the row alone, so that the   *)
(* inductive invariant is that each answer is that of the row.             *)

DataOf(r)   == IF HasBytes(r.content) THEN BinaryValue(r.content) ELSE SchemaError
DetailOf(r) == IF HasBytes(r.content) THEN Detail(r) ELSE SchemaError

Answers ==
  /\ row \in Rows
  /\ data \in {Unset, DataOf(row)}
  /\ detail \in {Unset, DetailOf(row)}

(* The parts of a sequence of sequences, one behind the other.             *)
LEMMA FlattenSeqType ==
  ASSUME NEW S, NEW ss \in Seq(Seq(S))
  PROVE  FlattenSeq(ss) \in Seq(S)
<1> DEFINE N == Len(ss)
           Q == Seq(S)
           Joins(g, n) == \A i \in 1..n : g[i] = IF i = 1 THEN ss[i] ELSE g[i - 1] \o ss[i]
           Has(n) == \E g \in [1..n -> Q] : Joins(g, n)
           T == {n \in 0..N : Has(n)}
           P(f) == f = [i \in 1..N |-> IF i = 1 THEN ss[i] ELSE f[i - 1] \o ss[i]]
<1>1. N \in Nat /\ \A i \in 1..N : ss[i] \in Q
  OBVIOUS
<1>2. \A q, r \in Q : q \o r \in Q
  OBVIOUS
<1>3. CASE N = 0
  <2>1. ss = <<>> /\ <<>> \in Q
    BY <1>3, EmptySeq
  <2> QED
    BY <1>3, <2>1 DEF FlattenSeq
<1>4. CASE N # 0
  <2>1. FlattenSeq(ss) = (CHOOSE f : P(f))[N]
    BY <1>4 DEF FlattenSeq
  <2> HIDE DEF N, Q
  <2>2. 0 \in T
    <3> DEFINE g == [n \in 1..0 |-> <<>>]
    <3>1. g \in [1..0 -> Q] /\ Joins(g, 0)
      OBVIOUS
    <3>2. Has(0)
      BY <3>1
    <3> HIDE DEF Has
    <3> QED
      BY <1>1, <3>2
  <2>3. ASSUME NEW m \in 0..(N - 1), m \in T PROVE m + 1 \in T
    <3>1. PICK g \in [1..m -> Q] : Joins(g, m)
      BY <2>3
    <3> DEFINE last == IF m = 0 THEN ss[1] ELSE g[m] \o ss[m + 1]
               h == [n \in 1..(m + 1) |-> IF n = m + 1 THEN last ELSE g[n]]
    <3>2. m + 1 \in 1..N /\ m + 1 \in 0..N /\ m \in Nat
      BY <1>1
    <3>3. last \in Q
      <4>1. m # 0 => g[m] \in Q
        BY <3>2
      <4>2. ss[m + 1] \in Q
        BY <1>1, <3>2
      <4> QED
        BY <1>2, <4>1, <4>2
    <3> HIDE DEF last
    <3>4. h \in [1..(m + 1) -> Q]
      BY <3>2, <3>3
    <3>5. ASSUME NEW k \in 1..(m + 1)
          PROVE  h[k] = IF k = 1 THEN ss[k] ELSE h[k - 1] \o ss[k]
      <4>1. CASE k = m + 1
        <5>1. h[k] = last /\ (k # 1 => h[k - 1] = g[m]) /\ (k = 1 <=> m = 0)
          BY <3>2, <4>1
        <5> HIDE DEF h
        <5> QED
          BY <4>1, <5>1 DEF last
      <4>2. CASE k # m + 1
        <5>1. k \in 1..m /\ (k # 1 => k - 1 \in 1..(m + 1) /\ k - 1 # m + 1)
          BY <3>2, <4>2
        <5>2. h[k] = g[k] /\ (k # 1 => h[k - 1] = g[k - 1])
          BY <4>2, <5>1
        <5> HIDE DEF h
        <5> QED
          BY <3>1, <5>1, <5>2
      <4> QED
        BY <4>1, <4>2
    <3> HIDE DEF h
    <3>6. Has(m + 1)
      BY <3>4, <3>5
    <3> HIDE DEF Has
    <3> QED
      BY <3>2, <3>6
  <2>4. PICK g \in [1..N -> Q] : Joins(g, N)
    <3> HIDE DEF Has
    <3>1. 0..N \subseteq T
      <4> HIDE DEF T
      <4> QED
        BY <1>1, <2>2, <2>3, Induction
    <3>2. Has(N)
      BY <1>1, <3>1
    <3> QED
      BY <3>2 DEF Has
  <2>5. P(g)
    BY <2>4
  <2> DEFINE f == CHOOSE f : P(f)
  <2>6. P(f)
    <3> HIDE DEF P
    <3> QED
      BY <2>5
  <2> HIDE DEF f
  <2>7. Joins(f, N)
    BY <2>6
  <2> HIDE DEF P
  <2> DEFINE R == {n \in 0..N : n = 0 \/ f[n] \in Q}
  <2>8. 0..N \subseteq R
    <3>1. 0 \in R
      BY <1>1
    <3>2. ASSUME NEW m \in 0..(N - 1), m \in R PROVE m + 1 \in R
      <4>1. /\ m + 1 \in 1..N /\ m + 1 \in 0..N /\ (m + 1) - 1 = m
            /\ (m + 1 = 1 <=> m = 0)
        BY <1>1
      <4>2. f[m + 1] = IF m + 1 = 1 THEN ss[m + 1] ELSE f[(m + 1) - 1] \o ss[m + 1]
        BY <2>7, <4>1
      <4>3. f[m + 1] = IF m = 0 THEN ss[m + 1] ELSE f[m] \o ss[m + 1]
        BY <4>1, <4>2
      <4>4. ss[m + 1] \in Q
        BY <1>1, <4>1
      <4>5. m # 0 => f[m] \in Q
        BY <3>2
      <4>6. f[m + 1] \in Q
        BY <1>2, <4>3, <4>4, <4>5
      <4> QED
        BY <4>1, <4>6
    <3> HIDE DEF R
    <3> QED
      BY <1>1, <3>1, <3>2, Induction
  <2>9. N \in R
    <3> HIDE DEF R
    <3> QED
      BY <1>1, <2>8
  <2>10. f[N] \in Q
    BY <1>4, <2>9
  <2> QED
    BY <2>1, <2>10 DEF f, Q
<1> QED
  BY <1>3, <1>4

(* binary_value gives bytes, whatever the cell. *)
LEMMA BytesOfCell ==
  ASSUME NEW cell, IsCell(cell), HasBytes(cell)
  PROVE  BinaryValue(cell) \in Seq(Byte)
<1>1. CASE cell.value = Null
  BY <1>1 DEF BinaryValue
<1>2. CASE cell.value # Null /\ cell.type = "text"
  <2> DEFINE text == cell.value
             parts == [i \in 1..Len(text) |-> Utf8[text[i]]]
  <2>1. text \in Seq(Chars)
    BY <1>2 DEF IsCell, CellValue, Texts
  <2>2. BinaryValue(cell) = FlattenSeq(parts)
    BY <1>2 DEF BinaryValue, Encode
  <2> HIDE DEF text
  <2>3. Len(text) \in Nat /\ \A i \in 1..Len(text) : text[i] \in Chars
    BY <2>1
  <2>4. \A i \in 1..Len(text) : Utf8[text[i]] \in Seq(Byte)
    BY <2>3, CellAssumption
  <2>5. parts \in Seq(Seq(Byte))
    BY <2>3, <2>4, IsASeq
  <2> HIDE DEF parts
  <2> QED
    BY <2>2, <2>5, FlattenSeqType
<1>3. CASE cell.value # Null /\ cell.type = "binary"
  <2>1. cell.value \in Seq(Byte)
    BY <1>3 DEF IsCell, CellValue
  <2>2. BinaryValue(cell) = cell.value
    BY <1>3 DEF BinaryValue
  <2> QED
    BY <2>1, <2>2
<1> QED
  BY <1>1, <1>2, <1>3 DEF HasBytes

(* What the formatter of arrow writes of a list of texts.                  *)
LEMMA DisplayIsText ==
  ASSUME NEW list \in Seq(Texts)
  PROVE  Display(list) \in Texts
<1> DEFINE comma == <<", ">>
           part(i) == IF i = 1 THEN list[i] ELSE comma \o list[i]
           parts == [i \in 1..Len(list) |-> part(i)]
<1>1. Len(list) \in Nat /\ \A i \in 1..Len(list) : list[i] \in Texts
  OBVIOUS
<1>2. comma \in Texts /\ <<"[">> \in Texts /\ <<"]">> \in Texts
  <2>1. ", " \in Chars /\ "[" \in Chars /\ "]" \in Chars
    BY CellAssumption
  <2>2. \A c \in Chars : <<c>> \in Seq(Chars)
    OBVIOUS
  <2> QED
    BY <2>1, <2>2 DEF Texts
<1>3. Display(list) = <<"[">> \o FlattenSeq(parts) \o <<"]">>
  BY DEF Display
<1> HIDE DEF comma
<1>4. \A s, t \in Texts : s \o t \in Texts
  BY DEF Texts
<1>5. \A i \in 1..Len(list) : part(i) \in Texts
  BY <1>1, <1>2, <1>4
<1> HIDE DEF part
<1>6. parts \in Seq(Texts)
  BY <1>1, <1>5, IsASeq
<1> HIDE DEF parts
<1>7. FlattenSeq(parts) \in Texts
  BY <1>6, FlattenSeqType DEF Texts
<1> QED
  BY <1>2, <1>3, <1>4, <1>7

(* `v as i64` gives an i64, and for the values of one integer type never   *)
(* the same i64 twice.                                                     *)
LEMMA CastFacts ==
  ASSUME NEW span \in Spans
  PROVE  /\ \A v \in Signed(span) \cup Unsigned(span) : AsI64(v) \in Signed(Widest)
         /\ \A v, w \in Signed(span) : AsI64(v) = AsI64(w) => v = w
         /\ \A v, w \in Unsigned(span) : AsI64(v) = AsI64(w) => v = w
<1> DEFINE H == Widest \div 2
<1>1. /\ span \in Nat \ {0} /\ Widest \in Nat \ {0}
      /\ Widest % 2 = 0 /\ span % 2 = 0 /\ (span # Widest => span <= H)
  BY SpansAssumption
<1>2. H \in Nat /\ 2 * H = Widest /\ H > 0
  BY <1>1
<1>3. span \div 2 \in Nat /\ 2 * (span \div 2) = span
  BY <1>1
<1> DEFINE k == span \div 2
<1>4. k \in Nat /\ 2 * k = span /\ k <= H /\ span <= Widest
  BY <1>1, <1>2, <1>3
<1> HIDE DEF H, k
<1>5. \A x \in 0..(Widest - 1) : x % Widest = x
  BY <1>1
<1>6. \A x \in Widest..(2 * Widest - 1) : x % Widest = x - Widest
  BY <1>1
<1>7. \A v : AsI64(v) = ((v + H) % Widest) - H
  BY DEF AsI64, H
<1>8. Signed(Widest) = (-H)..(H - 1) /\ Signed(span) = (-k)..(k - 1) /\ Unsigned(span) = 0..(span - 1)
  BY DEF Signed, Unsigned, H, k
<1>9. \A v \in (-H)..(H - 1) : AsI64(v) = v
  <2> TAKE v \in (-H)..(H - 1)
  <2>1. v + H \in 0..(Widest - 1)
    BY <1>2
  <2> QED
    BY <1>2, <1>5, <1>7, <2>1
<1>10. \A v \in H..(Widest - 1) : AsI64(v) = v - Widest
  <2> TAKE v \in H..(Widest - 1)
  <2>1. v + H \in Widest..(2 * Widest - 1) /\ v \in Int
    BY <1>1, <1>2
  <2>2. (v + H) % Widest = (v + H) - Widest
    BY <1>6, <2>1
  <2>3. AsI64(v) = ((v + H) - Widest) - H
    BY <1>7, <2>2
  <2> QED
    BY <1>1, <1>2, <2>1, <2>3
<1>11. Signed(span) \subseteq (-H)..(H - 1)
  BY <1>2, <1>4, <1>8
<1>12. \A v \in Unsigned(span) : v \in (-H)..(H - 1) \/ v \in H..(Widest - 1)
  BY <1>1, <1>2, <1>4, <1>8
<1>13. \A v \in H..(Widest - 1) : v - Widest \in (-H)..(-1)
  BY <1>1, <1>2
<1> QED
  <2>1. \A v \in Signed(span) \cup Unsigned(span) : AsI64(v) \in (-H)..(H - 1)
    <3> TAKE v \in Signed(span) \cup Unsigned(span)
    <3>1. CASE v \in (-H)..(H - 1)
      BY <1>9, <3>1
    <3>2. CASE v \in H..(Widest - 1)
      BY <1>2, <1>10, <1>13, <3>2
    <3> QED
      BY <1>11, <1>12, <3>1, <3>2
  <2>2. \A v, w \in Signed(span) : AsI64(v) = AsI64(w) => v = w
    BY <1>9, <1>11
  <2>3. ASSUME NEW v \in Unsigned(span), NEW w \in Unsigned(span), AsI64(v) = AsI64(w)
        PROVE  v = w
    <3>1. v \in 0..(span - 1) /\ w \in 0..(span - 1)
      BY <1>8
    <3>2. CASE v \in (-H)..(H - 1) /\ w \in (-H)..(H - 1)
      BY <1>9, <2>3, <3>2
    <3>3. CASE v \in H..(Widest - 1) /\ w \in H..(Widest - 1)
      <4>1. v - Widest = w - Widest
        BY <1>10, <2>3, <3>3
      <4> QED
        BY <1>1, <3>1, <4>1
    <3>4. CASE v \in (-H)..(H - 1) /\ w \in H..(Widest - 1)
      <4>1. v = w - Widest /\ w - Widest \in (-H)..(-1)
        BY <1>9, <1>10, <1>13, <2>3, <3>4
      <4> QED
        BY <1>1, <1>2, <1>4, <3>1, <4>1
    <3>5. CASE v \in H..(Widest - 1) /\ w \in (-H)..(H - 1)
      <4>1. w = v - Widest /\ v - Widest \in (-H)..(-1)
        BY <1>9, <1>10, <1>13, <2>3, <3>5
      <4> QED
        BY <1>1, <1>2, <1>4, <3>1, <4>1
    <3> QED
      BY <1>12, <3>2, <3>3, <3>4, <3>5
  <2> QED
    BY <1>8, <2>1, <2>2, <2>3

(* A Python value is of the kind that it says. *)
LEMMA MetaHasKind ==
  ASSUME NEW cell, IsCell(cell)
  PROVE  MetaValue(cell).value \in PyValue[MetaValue(cell).kind]
<1> DEFINE v == cell.value
<1>1. CASE v = Null \/ cell.type = "opaque"
  BY <1>1 DEF MetaValue, None, PyValue
<1>2. CASE v # Null /\ cell.type \in {"int", "uint"}
  <2>1. MetaValue(cell) = [kind |-> "int", value |-> AsI64(v)]
    BY <1>2 DEF MetaValue, Meta
  <2>2. v \in Signed(cell.span) \cup Unsigned(cell.span) /\ cell.span \in Spans
    BY <1>2 DEF IsCell, CellValue
  <2>3. AsI64(v) \in Signed(Widest)
    BY <2>2, CastFacts
  <2> QED
    BY <2>1, <2>3 DEF PyValue
<1>3. CASE v # Null /\ cell.type = "bool"
  BY <1>3 DEF MetaValue, Meta, PyValue, IsCell, CellValue
<1>4. CASE v # Null /\ cell.type = "float"
  BY <1>4 DEF MetaValue, Meta, PyValue, IsCell, CellValue
<1>5. CASE v # Null /\ cell.type = "text"
  BY <1>5 DEF MetaValue, Meta, PyValue, IsCell, CellValue
<1>6. CASE v # Null /\ cell.type = "binary"
  BY <1>6 DEF MetaValue, Meta, PyValue, IsCell, CellValue
<1>7. CASE v # Null /\ cell.type = "list"
  <2>1. MetaValue(cell) = [kind |-> "str", value |-> Display(v)]
    BY <1>7 DEF MetaValue, Meta
  <2>2. v \in Seq(Texts)
    BY <1>7 DEF IsCell, CellValue
  <2>3. Display(v) \in Texts
    BY <2>2, DisplayIsText
  <2> QED
    BY <2>1, <2>3 DEF PyValue
<1> QED
  BY <1>1, <1>2, <1>3, <1>4, <1>5, <1>6, <1>7 DEF IsCell, CellTypes

(* Cells of one scalar or text type that are shown alike are alike.        *)
LEMMA MetaTellsApart ==
  ASSUME NEW a, NEW b, IsCell(a), IsCell(b),
         a.type \notin {"list", "opaque"}, b.type = a.type,
         a.type \in {"int", "uint"} => b.span = a.span,
         MetaValue(b) = MetaValue(a)
  PROVE  b.value = a.value
<1>1. ASSUME NEW c, IsCell(c), c.type = a.type, c.value # Null
      PROVE  /\ MetaValue(c) = IF c.type \in {"int", "uint"} THEN Meta("int", AsI64(c.value))
                               ELSE IF c.type \in {"bool", "float"} THEN Meta(c.type, c.value)
                               ELSE IF c.type = "text" THEN Meta("str", c.value)
                               ELSE Meta("bytes", c.value)
             /\ MetaValue(c).kind # "None"
  BY <1>1 DEF MetaValue, Meta, IsCell, CellTypes
<1>2. \A c : c.value = Null => MetaValue(c) = None
  BY DEF MetaValue
<1>3. CASE a.value = Null \/ b.value = Null
  <2>1. MetaValue(a).kind = "None" /\ MetaValue(b).kind = "None"
    BY <1>2, <1>3 DEF None
  <2> QED
    BY <1>1, <2>1
<1>4. CASE a.value # Null /\ b.value # Null /\ a.type \in {"int", "uint"}
  <2>1. AsI64(a.value) = AsI64(b.value)
    BY <1>1, <1>4 DEF Meta
  <2>2. a.span \in Spans /\ b.span = a.span
    BY <1>4 DEF IsCell
  <2>3. CASE a.type = "int"
    <3>1. a.value \in Signed(a.span) /\ b.value \in Signed(a.span)
      BY <1>4, <2>2, <2>3 DEF IsCell, CellValue
    <3> QED
      BY <2>1, <2>2, <3>1, CastFacts
  <2>4. CASE a.type = "uint"
    <3>1. a.value \in Unsigned(a.span) /\ b.value \in Unsigned(a.span)
      BY <1>4, <2>2, <2>4 DEF IsCell, CellValue
    <3> QED
      BY <2>1, <2>2, <3>1, CastFacts
  <2> QED
    BY <1>4, <2>3, <2>4
<1>5. CASE a.value # Null /\ b.value # Null /\ a.type \notin {"int", "uint"}
  BY <1>1, <1>5 DEF Meta
<1> QED
  BY <1>3, <1>4, <1>5

LEMMA AnswersInvariant == CellSpec => []Answers
<1>1. CellInit => Answers
  BY DEF CellInit, Answers
<1>2. Answers /\ [CellNext]_cellVars => Answers'
  <2> SUFFICES ASSUME Answers, [CellNext]_cellVars PROVE Answers'
    OBVIOUS
  <2>1. CASE Read
    BY <2>1 DEF Read, Answers, DataOf
  <2>2. CASE Info
    BY <2>2 DEF Info, Answers, DetailOf
  <2>3. CASE Answered \/ UNCHANGED cellVars
    BY <2>3 DEF Answered, cellVars, Answers
  <2> QED
    BY <2>1, <2>2, <2>3 DEF CellNext
<1> QED
  BY <1>1, <1>2, PTL DEF CellSpec

(* read gives bytes, info a size and a value of the kind it says: read and *)
(* load_detail with binary_value and meta_value.                           *)
THEOREM CellTypeCorrect == CellSpec => []CellTypeOK
<1>1. Answers => CellTypeOK
  <2> SUFFICES ASSUME Answers PROVE CellTypeOK
    OBVIOUS
  <2>1. row \in Rows /\ IsCell(row.content) /\ IsCell(row.extra)
    BY CellAssumption DEF Answers
  <2>2. data \in Seq(Byte) \cup {Unset, SchemaError}
    BY <2>1, BytesOfCell DEF Answers, DataOf
  <2>3. \/ detail \in {Unset, SchemaError}
        \/ detail.size \in Nat /\ detail.meta.value \in PyValue[detail.meta.kind]
    <3>1. CASE HasBytes(row.content) /\ detail # Unset
      <4>1. detail = [size |-> SizeOf(row.content), meta |-> MetaValue(row.extra)]
        BY <3>1 DEF Answers, DetailOf, Detail
      <4>2. BinaryValue(row.content) \in Seq(Byte)
        BY <2>1, <3>1, BytesOfCell
      <4>3. SizeOf(row.content) \in Nat
        BY <4>2 DEF SizeOf
      <4>4. detail.size \in Nat /\ detail.meta = MetaValue(row.extra)
        BY <4>1, <4>3
      <4> QED
        BY <2>1, <4>4, MetaHasKind
    <3> QED
      BY <3>1 DEF Answers, DetailOf
  <2> QED
    BY <2>1, <2>2, <2>3 DEF CellTypeOK
<1> QED
  BY <1>1, AnswersInvariant, PTL

(* No conversion of a scalar, text or binary cell loses what tells it from *)
(* another of its column: meta_value, u64 included.                        *)
THEOREM ScalarsAreTold == CellSpec => []ScalarsStayApart
<1>1. Answers => ScalarsStayApart
  <2> SUFFICES ASSUME Answers, Shown, row.extra.type \notin {"list", "opaque"},
                      NEW r \in Rows, r.extra.type = row.extra.type,
                      r.extra.type \in {"int", "uint"} => r.extra.span = row.extra.span,
                      MetaValue(r.extra) = detail.meta
               PROVE  r.extra.value = row.extra.value
    BY DEF ScalarsStayApart
  <2>1. detail = Detail(row)
    BY DEF Answers, DetailOf, Shown
  <2>2. MetaValue(r.extra) = MetaValue(row.extra)
    BY <2>1 DEF Detail
  <2>3. IsCell(r.extra) /\ IsCell(row.extra)
    BY CellAssumption DEF Answers
  <2> QED
    BY <2>2, <2>3, MetaTellsApart
<1> QED
  BY <1>1, AnswersInvariant, PTL
=============================================================================
