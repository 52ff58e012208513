-------------------------- MODULE RegistryProofs --------------------------
(***************************************************************************)
(* Theorems about Registry, for any number of threads, schemes and         *)
(* adapters, and whichever of the adapters have finalizers that give the   *)
(* GIL up.                                                                 *)
(***************************************************************************)
EXTENDS Registry, SequenceTheorems, TLAPS
-----------------------------------------------------------------------------
(* Who holds a lock is told by the places in the code. *)
LocksByPlace ==
  \A t \in Threads :
    /\ writer = t <=> pc[t] \in {"insert", "finalize", "finalize_gil"}
    /\ t \in readers => pc[t] = "lookup"
    /\ gil = t <=> pc[t] \in {"register", "insert", "finalize", "python"}

(* What a call works with, by place. *)
WorkByPlace ==
  \A t \in Threads :
    /\ pc[t] \in {"register", "insert"} => adapter[t] \in Adapters
    /\ pc[t] \in {"finalize", "finalize_gil"} => adapter[t] \in Yielding
    /\ pc[t] = "lookup" => Expanding(t) \/ Loading(t)
    /\ pc[t] \in {"call", "python"} =>
         /\ Expanding(t) \/ Loading(t)
         /\ adapter[t] \in Adapters \cup {Native}
         /\ <<Wanted(t), adapter[t]>> \in seen[t]

(* The registry keeps its promise, and a running call has seen it. *)
PromiseKept ==
  /\ \A s \in Schemes : promised[s] = Resolve(s)
  /\ \A t \in Threads : pc[t] # "idle" =>
       \A s \in Schemes : <<s, promised[s]>> \in seen[t]

Inductive ==
  TypeOK /\ LocksByPlace /\ WorkByPlace /\ PromiseKept /\ AdaptersAreCurrent
-----------------------------------------------------------------------------
LEMMA WantedType ==
  ASSUME TypeOK, NEW t \in Threads, Expanding(t) \/ Loading(t)
  PROVE  Wanted(t) \in Schemes
<1>1. todo[t] \in Seq(Schemes) /\ urls[t] \in Seq(Schemes)
  BY DEF TypeOK
<1>2. CASE Expanding(t)
  <2>1. Head(todo[t]) \in Schemes
    BY <1>1, <1>2 DEF Expanding
  <2> QED
    BY <1>2, <2>1 DEF Wanted
<1>3. CASE ~Expanding(t) /\ Loading(t)
  <2>1. Head(urls[t]) \in Schemes
    BY <1>1, <1>3 DEF Loading
  <2> QED
    BY <1>3, <2>1 DEF Wanted
<1> QED
  BY <1>2, <1>3

LEMMA ListsAreSequences == Lists \subseteq Seq(Schemes)
<1> SUFFICES ASSUME NEW l \in Lists PROVE l \in Seq(Schemes)
  OBVIOUS
<1>1. PICK n \in 0..MaxUrls : l \in [1..n -> Schemes]
  BY DEF Lists
<1>2. n \in Nat
  BY <1>1, RegistryAssumption
<1> QED
  BY <1>1, <1>2

(* The part of TypeOK that a step of opening an archive disturbs. *)
TypesOfWork ==
  /\ pc' \in [Threads -> {"idle", "register", "insert", "finalize", "finalize_gil",
                         "next", "lookup", "call", "python", "leave"}]
  /\ adapter' \in [Threads -> Anyone]
  /\ todo' \in [Threads -> Seq(Schemes)]
  /\ urls' \in [Threads -> Seq(Schemes)]
  /\ shards' \in [Threads -> Seq(Shards)]
  /\ reply' \in [Threads -> {"none", "registered", "opened", "unknown", "error"}]

LEMMA FailTypes ==
  ASSUME TypeOK, NEW t \in Threads, NEW kind \in {"unknown", "error"}, Fail(t, kind)
  PROVE  TypesOfWork
<1>1. <<>> \in Seq(Shards) /\ <<>> \in Seq(Schemes)
  OBVIOUS
<1>2. /\ todo' \in [Threads -> Seq(Schemes)]
      /\ urls' \in [Threads -> Seq(Schemes)]
      /\ shards' \in [Threads -> Seq(Shards)]
  BY <1>1 DEF TypeOK, Fail
<1> QED
  BY <1>2 DEF TypeOK, TypesOfWork, Fail, Goto, Anyone

LEMMA InitInductive == Init => Inductive
<1> SUFFICES ASSUME Init PROVE Inductive
  OBVIOUS
<1>1. TypeOK
  <2>1. promised \in [Schemes -> Anyone]
    BY DEF Init, Fallback, Anyone
  <2>2. /\ todo \in [Threads -> Seq(Schemes)] /\ urls \in [Threads -> Seq(Schemes)]
        /\ shards \in [Threads -> Seq(Shards)]
    BY DEF Init
  <2>3. MaxCalls \in 0..MaxCalls
    BY RegistryAssumption
  <2> QED
    BY <2>1, <2>2, <2>3 DEF Init, TypeOK, Anyone
<1>2. LocksByPlace /\ WorkByPlace
  BY RegistryAssumption DEF Init, LocksByPlace, WorkByPlace
<1>3. PromiseKept
  BY DEF Init, PromiseKept, Resolve
<1>4. AdaptersAreCurrent
  <2>1. \A t \in Threads : shards[t] = <<>> /\ reply[t] = "none"
    BY DEF Init
  <2>2. 1..Len(<<>>) = {}
    OBVIOUS
  <2> QED
    BY <2>1, <2>2 DEF AdaptersAreCurrent
<1> QED
  BY <1>1, <1>2, <1>3, <1>4 DEF Inductive
-----------------------------------------------------------------------------
(* One lemma for each part of the invariant, with a step for each action.  *)

LEMMA StepTypeOK == Inductive /\ [Next]_vars => TypeOK'
<1> SUFFICES ASSUME Inductive, [Next]_vars PROVE TypeOK'
  OBVIOUS
<1> USE RegistryAssumption
<1>0. TypeOK
  BY DEF Inductive
<1>1. ASSUME NEW t \in Threads, BeginRegister(t) PROVE TypeOK'
  <2>1. Current \in SUBSET Pairs
    BY <1>0 DEF Current, Pairs, TypeOK
  <2>2. left[t] - 1 \in 0..MaxCalls
    BY <1>0, <1>1 DEF Enter, BeginRegister, TypeOK
  <2>3. <<>> \in Seq(Shards) /\ <<>> \in Seq(Schemes)
    OBVIOUS
  <2> QED
    BY <1>0, <1>1, <2>1, <2>2, <2>3
    DEF TypeOK, BeginRegister, Enter, Goto, locks, Anyone
<1>2. ASSUME NEW t \in Threads, BeginOpen(t) PROVE TypeOK'
  <2>1. Current \in SUBSET Pairs
    BY <1>0 DEF Current, Pairs, TypeOK
  <2>2. left[t] - 1 \in 0..MaxCalls
    BY <1>0, <1>2 DEF Enter, BeginOpen, TypeOK
  <2>3. <<>> \in Seq(Shards) /\ <<>> \in Seq(Schemes)
    OBVIOUS
  <2> QED
    BY <1>0, <1>2, <2>1, <2>2, <2>3, ListsAreSequences
    DEF TypeOK, BeginOpen, Enter, Goto, locks, Anyone
<1>3. ASSUME NEW t \in Threads, LockWrite(t) PROVE TypeOK'
  BY <1>0, <1>3 DEF TypeOK, LockWrite, Goto, work
<1>4. ASSUME NEW t \in Threads, Replace(t) PROVE TypeOK'
  <2>1. adapter[t] \in Adapters
    BY <1>4 DEF Inductive, WorkByPlace, Replace
  <2>2. scheme[t] \in Schemes /\ <<scheme[t], adapter[t]>> \in Pairs
    BY <1>0, <2>1 DEF TypeOK, Pairs, Anyone
  <2>3. registry' \in [Schemes -> Adapters \cup {NoAdapter}]
    BY <1>0, <1>4, <2>1 DEF TypeOK, Replace, Insert
  <2>4. promised' \in [Schemes -> Anyone]
    BY <1>0, <1>4, <2>1 DEF TypeOK, Replace, Anyone
  <2>5. seen' \in [Threads -> SUBSET Pairs]
    BY <1>0, <1>4, <2>2 DEF TypeOK, Replace
  <2>6. adapter' \in [Threads -> Anyone]
    BY <1>0, <1>4 DEF TypeOK, Replace, Anyone
  <2>7. /\ writer' \in Threads \cup {NoThread} /\ gil' \in Threads \cup {NoThread}
        /\ pc' \in [Threads -> {"idle", "register", "insert", "finalize", "finalize_gil",
                         "next", "lookup", "call", "python", "leave"}]
        /\ reply' \in [Threads -> {"none", "registered", "opened", "unknown", "error"}]
    BY <1>0, <1>4 DEF TypeOK, Replace, Return, Goto
  <2> QED
    BY <1>0, <1>4, <2>3, <2>4, <2>5, <2>6, <2>7 DEF TypeOK, Replace, work
<1>5. ASSUME NEW t \in Threads, YieldGil(t) PROVE TypeOK'
  BY <1>0, <1>5 DEF TypeOK, YieldGil, Goto, locks, work
<1>6. ASSUME NEW t \in Threads, EndFinalizer(t) PROVE TypeOK'
  BY <1>0, <1>6 DEF TypeOK, EndFinalizer, Goto, Return, work, Anyone
<1>7. ASSUME NEW t \in Threads, LockRead(t) PROVE TypeOK'
  BY <1>0, <1>7 DEF TypeOK, LockRead, Goto, work
<1>8. ASSUME NEW t \in Threads, Lookup(t) PROVE TypeOK'
  <2>1. Resolve(Wanted(t)) \in Anyone
    <3>1. Wanted(t) \in Schemes
      BY <1>0, <1>8, WantedType DEF Inductive, WorkByPlace, Lookup
    <3> QED
      BY <1>0, <3>1 DEF TypeOK, Resolve, Fallback, Anyone
  <2>3. CASE Resolve(Wanted(t)) = NoAdapter
    <3>1. Fail(t, "unknown")
      BY <1>8, <2>3 DEF Lookup
    <3>2. TypesOfWork
      BY <1>0, <3>1, FailTypes
    <3> QED
      BY <1>0, <1>8, <3>2 DEF TypeOK, TypesOfWork, Lookup, UnlockRead
  <2>4. CASE Resolve(Wanted(t)) # NoAdapter
    <3>1. /\ adapter' = [adapter EXCEPT ![t] = Resolve(Wanted(t))]
          /\ pc' = [pc EXCEPT ![t] = "call"]
          /\ UNCHANGED <<todo, urls, shards, reply>>
      BY <1>8, <2>4 DEF Lookup, Goto, work
    <3>2. TypesOfWork
      BY <1>0, <2>1, <3>1 DEF TypeOK, TypesOfWork
    <3> QED
      BY <1>0, <1>8, <3>2 DEF TypeOK, TypesOfWork, Lookup, UnlockRead
  <2> QED
    BY <2>3, <2>4
<1>9. ASSUME NEW t \in Threads, TakeGil(t) PROVE TypeOK'
  BY <1>0, <1>9 DEF TypeOK, TakeGil, Goto, locks, work
<1>10. ASSUME NEW t \in Threads, Answer(t) PROVE TypeOK'
  <2>1. gil' \in Threads \cup {NoThread}
    BY <1>0, <1>10 DEF TypeOK, Answer
  <2>3. CASE Fail(t, "error")
    <3>1. TypesOfWork
      BY <1>0, <2>3, FailTypes
    <3> QED
      BY <1>0, <1>10, <2>1, <3>1 DEF TypeOK, TypesOfWork, Answer, locks
  <2>4. CASE Expand(t) /\ ~Fail(t, "error")
    <3>1. PICK l \in Lists : urls' = [urls EXCEPT ![t] = @ \o l]
      BY <2>4 DEF Expand
    <3>2. l \in Seq(Schemes) /\ urls[t] \in Seq(Schemes) /\ todo[t] \in Seq(Schemes)
      BY <1>0, ListsAreSequences DEF TypeOK
    <3>3. urls[t] \o l \in Seq(Schemes)
      BY <3>2
    <3>4. Tail(todo[t]) \in Seq(Schemes)
      BY <2>4, <3>2 DEF Expand, Expanding
    <3>5. /\ todo' \in [Threads -> Seq(Schemes)] /\ urls' \in [Threads -> Seq(Schemes)]
          /\ shards' \in [Threads -> Seq(Shards)]
      <4>1. todo' \in [Threads -> Seq(Schemes)]
        BY <1>0, <2>4, <3>4 DEF TypeOK, Expand
      <4>2. urls' \in [Threads -> Seq(Schemes)]
        BY <1>0, <2>4, <3>1, <3>3, <3>4 DEF TypeOK, Expand
      <4>3. shards' \in [Threads -> Seq(Shards)]
        BY <1>0, <2>4, <3>1, <3>3 DEF TypeOK, Expand
      <4> QED
        BY <4>1, <4>2, <4>3
    <3>6. TypesOfWork
      BY <1>0, <2>4, <3>5 DEF TypeOK, TypesOfWork, Expand, Goto, Anyone
    <3> QED
      BY <1>0, <1>10, <2>1, <3>6 DEF TypeOK, TypesOfWork, Answer, locks
  <2>5. CASE Load(t) /\ ~Fail(t, "error")
    <3> DEFINE e == [scheme |-> Wanted(t), adapter |-> adapter[t]]
    <3>1. e \in Shards
      BY <1>0, <2>5, WantedType DEF Load, Shards, TypeOK
    <3>2. shards' = [shards EXCEPT ![t] = Append(@, e)]
      BY <2>5 DEF Load
    <3> HIDE DEF e
    <3>3. Append(shards[t], e) \in Seq(Shards)
      BY <1>0, <3>1 DEF TypeOK
    <3>4. Tail(urls[t]) \in Seq(Schemes)
      BY <1>0, <2>5 DEF Load, Loading, TypeOK
    <3>5. /\ todo' \in [Threads -> Seq(Schemes)] /\ urls' \in [Threads -> Seq(Schemes)]
          /\ shards' \in [Threads -> Seq(Shards)]
      <4>1. todo' \in [Threads -> Seq(Schemes)]
        BY <1>0, <2>5 DEF TypeOK, Load
      <4>2. urls' \in [Threads -> Seq(Schemes)]
        <5>1. urls' = [urls EXCEPT ![t] = Tail(@)]
          BY <2>5 DEF Load
        <5>2. urls \in [Threads -> Seq(Schemes)]
          BY <1>0 DEF TypeOK
        <5> QED
          BY <3>4, <5>1, <5>2
      <4>3. shards' \in [Threads -> Seq(Shards)]
        BY <1>0, <2>5, <3>2, <3>3 DEF TypeOK, Load
      <4> QED
        BY <4>1, <4>2, <4>3
    <3>6. TypesOfWork
      BY <1>0, <2>5, <3>5 DEF TypeOK, TypesOfWork, Load, Goto, Anyone
    <3> QED
      BY <1>0, <1>10, <2>1, <3>6 DEF TypeOK, TypesOfWork, Answer, locks
  <2> QED
    BY <1>10, <2>3, <2>4, <2>5 DEF Answer
<1>11. ASSUME NEW t \in Threads, Finish(t) PROVE TypeOK'
  BY <1>0, <1>11 DEF TypeOK, Finish, Goto, locks, work
<1>12. ASSUME NEW t \in Threads, Leave(t) PROVE TypeOK'
  BY <1>0, <1>12 DEF TypeOK, Leave, Goto, locks, work
<1>13. ASSUME UNCHANGED vars PROVE TypeOK'
  BY <1>0, <1>13 DEF TypeOK, vars, locks, work
<1> QED
  BY <1>1, <1>2, <1>3, <1>4, <1>5, <1>6, <1>7, <1>8, <1>9, <1>10, <1>11, <1>12, <1>13
  DEF Next, Step, Terminating

(* Only the thread that moves changes what it holds. *)
LEMMA StepLocks == Inductive /\ [Next]_vars => LocksByPlace'
<1> SUFFICES ASSUME Inductive, [Next]_vars PROVE LocksByPlace'
  OBVIOUS
<1> USE RegistryAssumption
<1>0. TypeOK /\ LocksByPlace
  BY DEF Inductive
<1>1. ASSUME NEW t \in Threads, BeginRegister(t) PROVE LocksByPlace'
  BY <1>0, <1>1 DEF TypeOK, LocksByPlace, BeginRegister, Enter, Goto, locks
<1>2. ASSUME NEW t \in Threads, BeginOpen(t) PROVE LocksByPlace'
  BY <1>0, <1>2 DEF TypeOK, LocksByPlace, BeginOpen, Enter, Goto, locks
<1>3. ASSUME NEW t \in Threads, LockWrite(t) PROVE LocksByPlace'
  BY <1>0, <1>3 DEF TypeOK, LocksByPlace, LockWrite, Goto
<1>4. ASSUME NEW t \in Threads, Replace(t) PROVE LocksByPlace'
  BY <1>0, <1>4 DEF TypeOK, LocksByPlace, Replace, Return, Goto
<1>5. ASSUME NEW t \in Threads, YieldGil(t) PROVE LocksByPlace'
  BY <1>0, <1>5 DEF TypeOK, LocksByPlace, YieldGil, Goto, locks
<1>6. ASSUME NEW t \in Threads, EndFinalizer(t) PROVE LocksByPlace'
  BY <1>0, <1>6 DEF TypeOK, LocksByPlace, EndFinalizer, Return, Goto
<1>7. ASSUME NEW t \in Threads, LockRead(t) PROVE LocksByPlace'
  BY <1>0, <1>7 DEF TypeOK, LocksByPlace, LockRead, Goto
<1>8. ASSUME NEW t \in Threads, Lookup(t) PROVE LocksByPlace'
  BY <1>0, <1>8 DEF TypeOK, LocksByPlace, Lookup, UnlockRead, Fail, Goto
<1>9. ASSUME NEW t \in Threads, TakeGil(t) PROVE LocksByPlace'
  BY <1>0, <1>9 DEF TypeOK, LocksByPlace, TakeGil, Goto, locks
<1>10. ASSUME NEW t \in Threads, Answer(t) PROVE LocksByPlace'
  <2>1. pc' \in {[pc EXCEPT ![t] = "leave"], [pc EXCEPT ![t] = "next"]}
    BY <1>10 DEF Answer, Expand, Load, Fail, Goto
  <2> QED
    BY <1>0, <1>10, <2>1 DEF TypeOK, LocksByPlace, Answer, locks
<1>11. ASSUME NEW t \in Threads, Finish(t) PROVE LocksByPlace'
  BY <1>0, <1>11 DEF TypeOK, LocksByPlace, Finish, Goto, locks
<1>12. ASSUME NEW t \in Threads, Leave(t) PROVE LocksByPlace'
  BY <1>0, <1>12 DEF TypeOK, LocksByPlace, Leave, Goto, locks
<1>13. ASSUME UNCHANGED vars PROVE LocksByPlace'
  BY <1>0, <1>13 DEF LocksByPlace, vars, locks
<1> QED
  BY <1>1, <1>2, <1>3, <1>4, <1>5, <1>6, <1>7, <1>8, <1>9, <1>10, <1>11, <1>12, <1>13
  DEF Next, Step, Terminating

(* What others have seen only grows while they are inside a call. *)
LEMMA StepWork == Inductive /\ [Next]_vars => WorkByPlace'
<1> SUFFICES ASSUME Inductive, [Next]_vars PROVE WorkByPlace'
  OBVIOUS
<1> USE RegistryAssumption DEF Expanding, Loading, Wanted
<1>0. TypeOK /\ WorkByPlace
  BY DEF Inductive
<1>1. ASSUME NEW t \in Threads, BeginRegister(t) PROVE WorkByPlace'
  BY <1>0, <1>1 DEF TypeOK, WorkByPlace, BeginRegister, Enter, Goto
<1>2. ASSUME NEW t \in Threads, BeginOpen(t) PROVE WorkByPlace'
  BY <1>0, <1>2 DEF TypeOK, WorkByPlace, BeginOpen, Enter, Goto
<1>3. ASSUME NEW t \in Threads, LockWrite(t) PROVE WorkByPlace'
  BY <1>0, <1>3 DEF TypeOK, WorkByPlace, LockWrite, Goto, work
<1>4. ASSUME NEW t \in Threads, Replace(t) PROVE WorkByPlace'
  <2>1. \A u \in Threads : pc[u] # "idle" => seen[u] \subseteq seen'[u]
    BY <1>0, <1>4 DEF TypeOK, Replace
  <2>2. /\ pc[t] = "insert" /\ UNCHANGED <<todo, urls, shards>>
        /\ \/ /\ pc' = [pc EXCEPT ![t] = "finalize"]
              /\ adapter' = [adapter EXCEPT ![t] = registry[scheme[t]]]
              /\ registry[scheme[t]] \in Yielding
           \/ /\ pc' = [pc EXCEPT ![t] = "idle"]
              /\ adapter' = [adapter EXCEPT ![t] = NoAdapter]
    BY <1>4 DEF Replace, Return, Goto, work
  <2> QED
    BY <1>0, <2>1, <2>2 DEF TypeOK, WorkByPlace
<1>5. ASSUME NEW t \in Threads, YieldGil(t) PROVE WorkByPlace'
  BY <1>0, <1>5 DEF TypeOK, WorkByPlace, YieldGil, Goto, work
<1>6. ASSUME NEW t \in Threads, EndFinalizer(t) PROVE WorkByPlace'
  BY <1>0, <1>6 DEF TypeOK, WorkByPlace, EndFinalizer, Return, Goto, work
<1>7. ASSUME NEW t \in Threads, LockRead(t) PROVE WorkByPlace'
  BY <1>0, <1>7 DEF TypeOK, WorkByPlace, LockRead, Goto, work
<1>8. ASSUME NEW t \in Threads, Lookup(t) PROVE WorkByPlace'
  <2>1. Wanted(t) \in Schemes /\ (Expanding(t) \/ Loading(t))
    BY <1>0, <1>8, WantedType DEF WorkByPlace, Lookup
  <2>2. Resolve(Wanted(t)) \in Anyone
    BY <1>0, <2>1 DEF TypeOK, Resolve, Fallback, Anyone
  <2>3. <<Wanted(t), Resolve(Wanted(t))>> \in seen[t]
    BY <1>8, <2>1 DEF Inductive, PromiseKept, Lookup
  <2>4. CASE Resolve(Wanted(t)) = NoAdapter
    BY <1>0, <1>8, <2>4 DEF TypeOK, WorkByPlace, Lookup, Fail, Goto
  <2>5. CASE Resolve(Wanted(t)) # NoAdapter
    <3>1. Resolve(Wanted(t)) \in Adapters \cup {Native}
      BY <2>2, <2>5 DEF Anyone
    <3>2. /\ adapter' = [adapter EXCEPT ![t] = Resolve(Wanted(t))]
          /\ pc' = [pc EXCEPT ![t] = "call"]
          /\ UNCHANGED <<todo, urls, seen>>
      BY <1>8, <2>5 DEF Lookup, Goto, work
    <3>3. adapter'[t] = Resolve(Wanted(t)) /\ pc'[t] = "call"
      BY <1>0, <3>2 DEF TypeOK
    <3> QED
      BY <1>0, <2>1, <2>3, <3>1, <3>2, <3>3 DEF TypeOK, WorkByPlace
  <2> QED
    BY <2>4, <2>5
<1>9. ASSUME NEW t \in Threads, TakeGil(t) PROVE WorkByPlace'
  BY <1>0, <1>9 DEF TypeOK, WorkByPlace, TakeGil, Goto, work
<1>10. ASSUME NEW t \in Threads, Answer(t) PROVE WorkByPlace'
  <2>1. pc' \in {[pc EXCEPT ![t] = "leave"], [pc EXCEPT ![t] = "next"]}
    BY <1>10 DEF Answer, Expand, Load, Fail, Goto
  <2>2. \A u \in Threads \ {t} :
          todo'[u] = todo[u] /\ urls'[u] = urls[u] /\ adapter'[u] = adapter[u]
    BY <1>0, <1>10 DEF TypeOK, Answer, Expand, Load, Fail
  <2>3. seen' = seen
    BY <1>10 DEF Answer
  <2>4. pc'[t] \in {"leave", "next"} /\ \A u \in Threads \ {t} : pc'[u] = pc[u]
    BY <1>0, <2>1 DEF TypeOK
  <2> QED
    BY <1>0, <2>2, <2>3, <2>4 DEF WorkByPlace
<1>11. ASSUME NEW t \in Threads, Finish(t) PROVE WorkByPlace'
  BY <1>0, <1>11 DEF TypeOK, WorkByPlace, Finish, Goto, work
<1>12. ASSUME NEW t \in Threads, Leave(t) PROVE WorkByPlace'
  BY <1>0, <1>12 DEF TypeOK, WorkByPlace, Leave, Goto, work
<1>13. ASSUME UNCHANGED vars PROVE WorkByPlace'
  BY <1>0, <1>13 DEF WorkByPlace, vars
<1> QED
  BY <1>1, <1>2, <1>3, <1>4, <1>5, <1>6, <1>7, <1>8, <1>9, <1>10, <1>11, <1>12, <1>13
  DEF Next, Step, Terminating

LEMMA StepPromise == Inductive /\ [Next]_vars => PromiseKept'
<1> SUFFICES ASSUME Inductive, [Next]_vars PROVE PromiseKept'
  OBVIOUS
<1>0. TypeOK /\ PromiseKept
  BY DEF Inductive
<1>1. ASSUME NEW t \in Threads, Enter(t), \A u \in Threads \ {t} : pc'[u] = pc[u]
      PROVE  PromiseKept'
  <2>1. \A s \in Schemes : <<s, promised[s]>> \in Current
    BY DEF Current
  <2>2. seen' = [seen EXCEPT ![t] = Current] /\ UNCHANGED <<registry, promised>>
    BY <1>1 DEF Enter
  <2>3. seen'[t] = Current /\ \A u \in Threads \ {t} : seen'[u] = seen[u]
    BY <1>0, <2>2 DEF TypeOK
  <2> QED
    BY <1>0, <1>1, <2>1, <2>2, <2>3 DEF PromiseKept, Resolve
<1>2. ASSUME NEW t \in Threads, pc'[t] = "idle" \/ pc[t] # "idle",
             \A u \in Threads \ {t} : pc'[u] = pc[u],
             UNCHANGED <<registry, promised, seen>>
      PROVE  PromiseKept'
  BY <1>0, <1>2 DEF PromiseKept, Resolve
<1>3. ASSUME NEW t \in Threads, BeginRegister(t) \/ BeginOpen(t) PROVE PromiseKept'
  <2>1. Enter(t) /\ \A u \in Threads \ {t} : pc'[u] = pc[u]
    BY <1>0, <1>3 DEF TypeOK, BeginRegister, BeginOpen, Goto
  <2> QED
    BY <1>1, <2>1
<1>4. ASSUME NEW t \in Threads, Replace(t) PROVE PromiseKept'
  <2>1. scheme[t] \in Schemes /\ adapter[t] \in Adapters /\ adapter[t] # NoAdapter
    BY <1>0, <1>4, RegistryAssumption DEF TypeOK, Inductive, WorkByPlace, Replace
  <2>2. /\ registry' = [registry EXCEPT ![scheme[t]] = adapter[t]]
        /\ promised' = [promised EXCEPT ![scheme[t]] = adapter[t]]
    BY <1>4 DEF Replace, Insert
  <2>3. \A s \in Schemes : promised'[s] = Resolve(s)'
    BY <1>0, <2>1, <2>2 DEF TypeOK, PromiseKept, Resolve
  <2>4. ASSUME NEW u \in Threads, pc'[u] # "idle", NEW s \in Schemes
        PROVE  <<s, promised'[s]>> \in seen'[u]
    <3>1. pc[u] # "idle"
      BY <1>0, <1>4, <2>4 DEF TypeOK, Replace, Return, Goto
    <3>2. seen'[u] = seen[u] \cup {<<scheme[t], adapter[t]>>}
      BY <1>0, <1>4, <3>1 DEF TypeOK, Replace
    <3>3. promised'[s] = promised[s] \/ (s = scheme[t] /\ promised'[s] = adapter[t])
      BY <1>0, <2>2 DEF TypeOK
    <3> QED
      BY <1>0, <3>1, <3>2, <3>3 DEF PromiseKept
  <2> QED
    BY <2>3, <2>4 DEF PromiseKept
<1>5. ASSUME NEW t \in Threads, Step(t), ~Replace(t) PROVE PromiseKept'
  <2>1. UNCHANGED <<registry, promised, seen>>
    BY <1>5 DEF Step, LockWrite, YieldGil, EndFinalizer, LockRead, Lookup, TakeGil,
                Answer, Finish, Leave
  <2>2. ASSUME NEW u \in Threads \ {t} PROVE pc'[u] = pc[u]
    <3>1. CASE Lookup(t) \/ Answer(t)
      BY <1>0, <3>1 DEF TypeOK, Lookup, Answer, Expand, Load, Fail, Goto
    <3>2. CASE ~(Lookup(t) \/ Answer(t))
      BY <1>0, <1>5, <3>2 DEF TypeOK, Step, LockWrite, YieldGil, EndFinalizer, LockRead,
                TakeGil, Finish, Leave, Return, Goto
    <3> QED
      BY <3>1, <3>2
  <2>4. pc[t] # "idle"
    BY <1>5 DEF Step, LockWrite, YieldGil, EndFinalizer, LockRead, Lookup, TakeGil,
                Answer, Finish, Leave
  <2> QED
    BY <1>2, <2>1, <2>2, <2>4
<1>6. ASSUME UNCHANGED vars PROVE PromiseKept'
  BY <1>0, <1>6 DEF PromiseKept, Resolve, vars
<1> QED
  BY <1>3, <1>4, <1>5, <1>6 DEF Next, Terminating

(* A shard enters with the pair its lookup saw; nothing seen is forgotten  *)
(* before the next call.                                                   *)
LEMMA StepCurrent == Inductive /\ [Next]_vars => AdaptersAreCurrent'
<1> SUFFICES ASSUME Inductive, [Next]_vars PROVE AdaptersAreCurrent'
  OBVIOUS
<1>0. TypeOK /\ AdaptersAreCurrent
  BY DEF Inductive
<1> DEFINE Fits(t) ==
      /\ \A i \in 1..Len(shards[t]) :
           <<shards[t][i].scheme, shards[t][i].adapter>> \in seen[t]
      /\ reply[t] = "unknown" => \E s \in Schemes : <<s, NoAdapter>> \in seen[t]
<1>a. \A t \in Threads : Fits(t)
  BY <1>0 DEF AdaptersAreCurrent
<1>b. SUFFICES ASSUME NEW u \in Threads PROVE Fits(u)'
  BY DEF AdaptersAreCurrent
<1>c. ASSUME shards'[u] = shards[u], seen[u] \subseteq seen'[u],
             reply'[u] # "unknown" \/ reply'[u] = reply[u]
      PROVE  Fits(u)'
  BY <1>a, <1>c
<1>d. ASSUME shards'[u] = <<>>,
             reply'[u] = "unknown" => \E s \in Schemes : <<s, NoAdapter>> \in seen'[u]
      PROVE  Fits(u)'
  <2>1. 1..Len(<<>>) = {}
    OBVIOUS
  <2> QED
    BY <1>d, <2>1
<1> HIDE DEF Fits
<1>1. ASSUME NEW t \in Threads, BeginRegister(t) \/ BeginOpen(t) PROVE Fits(u)'
  <2>1. /\ shards' = [shards EXCEPT ![t] = <<>>]
        /\ seen' = [seen EXCEPT ![t] = Current]
        /\ reply' = [reply EXCEPT ![t] = "none"]
    BY <1>1 DEF BeginRegister, BeginOpen, Enter
  <2>2. CASE u = t
    <3>1. shards'[u] = <<>> /\ reply'[u] = "none"
      BY <1>0, <2>1, <2>2 DEF TypeOK
    <3> QED
      BY <1>d, <3>1
  <2>3. CASE u # t
    <3>1. shards'[u] = shards[u] /\ seen'[u] = seen[u] /\ reply'[u] = reply[u]
      BY <1>0, <2>1, <2>3 DEF TypeOK
    <3> QED
      BY <1>c, <3>1
  <2> QED
    BY <2>2, <2>3
<1>2. ASSUME NEW t \in Threads,
             LockWrite(t) \/ YieldGil(t) \/ EndFinalizer(t) \/ LockRead(t)
               \/ TakeGil(t) \/ Finish(t) \/ Leave(t)
      PROVE  Fits(u)'
  <2>1. UNCHANGED <<shards, seen>>
    BY <1>2 DEF LockWrite, YieldGil, EndFinalizer, LockRead, TakeGil, Finish, Leave, work
  <2>2. reply' \in {reply, [reply EXCEPT ![t] = "registered"], [reply EXCEPT ![t] = "opened"]}
    BY <1>2 DEF LockWrite, YieldGil, EndFinalizer, LockRead, TakeGil, Finish, Leave, Return
  <2>3. reply'[u] # "unknown" \/ reply'[u] = reply[u]
    BY <1>0, <2>2 DEF TypeOK
  <2> QED
    BY <1>c, <2>1, <2>3
<1>3. ASSUME NEW t \in Threads, Replace(t) PROVE Fits(u)'
  <2>1. shards' = shards /\ seen[u] \subseteq seen'[u]
    BY <1>0, <1>3 DEF TypeOK, Replace, work
  <2>2. reply' \in {reply, [reply EXCEPT ![t] = "registered"]}
    BY <1>3 DEF Replace, Return
  <2>3. reply'[u] # "unknown" \/ reply'[u] = reply[u]
    BY <1>0, <2>2 DEF TypeOK
  <2> QED
    BY <1>c, <2>1, <2>3
<1>4. ASSUME NEW t \in Threads, NEW kind \in {"unknown", "error"}, Fail(t, kind),
             UNCHANGED seen,
             kind = "unknown" => \E s \in Schemes : <<s, NoAdapter>> \in seen[t]
      PROVE  Fits(u)'
  <2>1. CASE u = t
    <3>1. shards'[u] = <<>> /\ reply'[u] = kind
      BY <1>0, <1>4, <2>1 DEF TypeOK, Fail
    <3> QED
      BY <1>4, <1>d, <2>1, <3>1
  <2>2. CASE u # t
    <3>1. shards'[u] = shards[u] /\ reply'[u] = reply[u]
      BY <1>0, <1>4, <2>2 DEF TypeOK, Fail
    <3> QED
      BY <1>4, <1>c, <3>1
  <2> QED
    BY <2>1, <2>2
<1>5. ASSUME NEW t \in Threads, Lookup(t) PROVE Fits(u)'
  <2>1. UNCHANGED seen
    BY <1>5 DEF Lookup
  <2>2. Wanted(t) \in Schemes
    BY <1>0, <1>5, WantedType DEF Inductive, WorkByPlace, Lookup
  <2>3. <<Wanted(t), Resolve(Wanted(t))>> \in seen[t]
    BY <1>5, <2>2 DEF Inductive, PromiseKept, Lookup
  <2>4. CASE Resolve(Wanted(t)) = NoAdapter
    <3>1. Fail(t, "unknown")
      BY <1>5, <2>4 DEF Lookup
    <3> QED
      BY <1>4, <2>1, <2>2, <2>3, <2>4, <3>1
  <2>5. CASE Resolve(Wanted(t)) # NoAdapter
    <3>1. UNCHANGED <<shards, reply>>
      BY <1>5, <2>5 DEF Lookup, work
    <3> QED
      BY <1>c, <2>1, <3>1
  <2> QED
    BY <2>4, <2>5
<1>6. ASSUME NEW t \in Threads, Answer(t) PROVE Fits(u)'
  <2>1. UNCHANGED seen
    BY <1>6 DEF Answer
  <2>2. CASE Fail(t, "error")
    BY <1>4, <2>1, <2>2
  <2>3. CASE Expand(t) /\ ~Fail(t, "error")
    <3>1. UNCHANGED <<shards, reply>>
      BY <2>3 DEF Expand
    <3> QED
      BY <1>c, <2>1, <3>1
  <2>4. CASE Load(t) /\ ~Fail(t, "error")
    <3> DEFINE e == [scheme |-> Wanted(t), adapter |-> adapter[t]]
    <3>1. shards' = [shards EXCEPT ![t] = Append(@, e)] /\ UNCHANGED reply
      BY <2>4 DEF Load
    <3>2. <<e.scheme, e.adapter>> \in seen[t]
      BY <1>6 DEF Inductive, WorkByPlace, Answer
    <3>3. e \in Shards
      BY <1>0, <2>4, WantedType DEF Load, Shards, TypeOK
    <3> HIDE DEF e
    <3>4. CASE u = t
      <4>1. shards[u] \in Seq(Shards) /\ shards'[u] = Append(shards[u], e)
        BY <1>0, <3>1, <3>4 DEF TypeOK
      <4>2. \A i \in 1..Len(shards'[u]) :
              shards'[u][i] = e \/ (i \in 1..Len(shards[u]) /\ shards'[u][i] = shards[u][i])
        BY <3>3, <4>1
      <4> QED
        BY <1>a, <2>1, <3>1, <3>2, <3>4, <4>2 DEF Fits
    <3>5. CASE u # t
      <4>1. shards'[u] = shards[u]
        BY <1>0, <3>1, <3>5 DEF TypeOK
      <4> QED
        BY <1>c, <2>1, <3>1, <4>1
    <3> QED
      BY <3>4, <3>5
  <2> QED
    BY <1>6, <2>2, <2>3, <2>4 DEF Answer
<1>7. ASSUME UNCHANGED vars PROVE Fits(u)'
  BY <1>7, <1>c DEF vars
<1> QED
  BY <1>1, <1>2, <1>3, <1>5, <1>6, <1>7 DEF Next, Step, Terminating
-----------------------------------------------------------------------------
(* Every reachable state satisfies the inductive invariant. *)
THEOREM Invariance == Spec => []Inductive
<1>1. Inductive /\ [Next]_vars => Inductive'
  BY StepTypeOK, StepLocks, StepWork, StepPromise, StepCurrent DEF Inductive
<1> QED
  BY <1>1, InitInductive, PTL DEF Spec

(* The registry and its calls stay well typed. *)
THEOREM TypeCorrect == Spec => []TypeOK
<1>1. Inductive => TypeOK
  BY DEF Inductive
<1> QED
  BY <1>1, Invariance, PTL

(* Each shard is read with an adapter its scheme had during the open, and  *)
(* unknown schemes had none.                                               *)
THEOREM Currency == Spec => []AdaptersAreCurrent
<1>1. Inductive => AdaptersAreCurrent
  BY DEF Inductive
<1> QED
  BY <1>1, Invariance, PTL

(* Holders of the registry's lock wait for nothing but a finalizer. *)
THEOREM LockOrder == Spec => []LockHoldersRun
<1>1. Inductive => LockHoldersRun
  BY DEF Inductive, LocksByPlace, WorkByPlace, LockHoldersRun, HoldsRegistry,
         WaitsForLock, WaitsForGil
<1> QED
  BY <1>1, Invariance, PTL
=============================================================================
