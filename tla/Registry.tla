----------------------------- MODULE Registry -----------------------------
(***************************************************************************)
(* The process-wide map of URL schemes to adapters (crates/core/src/       *)
(* adapter.rs), filled by register_adapter and read by every Archive that  *)
(* is opened, through the Python bindings (crates/py/src/lib.rs).          *)
(*                                                                         *)
(* Two locks meet here.  register_adapter runs with Python's global lock   *)
(* (the GIL) and takes the registry's RwLock; opening an archive gives the *)
(* GIL up first, resolves an adapter for each source and again for each    *)
(* shard, and takes the GIL back for every call of an adapter written in   *)
(* Python.  An adapter that is replaced is dropped before the write guard  *)
(* is: if nobody else refers to it, its finalizer runs then, and Python    *)
(* code may give the GIL up at any point.                                  *)
(***************************************************************************)
EXTENDS Naturals, Sequences

CONSTANTS
  Threads,
  Schemes,
  BuiltIn,    \* schemes resolve knows without a registration
  Adapters,   \* Python objects that get registered
  Yielding,   \* those with a finalizer in which the GIL is given up
  MaxCalls,   \* bound: calls a thread makes
  MaxUrls,    \* bound: sources of a call, and URLs a source expands to
  NoThread, NoAdapter, Native

ASSUME RegistryAssumption ==
  /\ BuiltIn \subseteq Schemes
  /\ Yielding \subseteq Adapters
  /\ MaxCalls \in Nat /\ MaxUrls \in Nat
  /\ NoThread \notin Threads
  /\ NoAdapter \notin Adapters /\ Native \notin Adapters /\ NoAdapter # Native

VARIABLES
  registry,   \* REGISTRY: scheme -> registered adapter, or NoAdapter
  writer,     \* the thread with the write guard
  readers,    \* the threads with a read guard
  gil,        \* the thread that holds the GIL
  pc,
  scheme,     \* what a register call names
  adapter,    \* the adapter to register, to drop or to call
  todo,       \* schemes of the sources still to expand
  urls,       \* schemes of the shard URLs still to load
  shards,     \* scheme and adapter of the shards loaded
  reply,
  left,       \* the calls a thread may still make
  promised,   \* history: the adapter each scheme has, by the calls made
  seen        \* history: what was promised while a thread's call ran

vars == <<registry, writer, readers, gil, pc, scheme, adapter, todo, urls,
          shards, reply, left, promised, seen>>
locks == <<writer, readers>>
work  == <<todo, urls, shards>>

Anyone == Adapters \cup {NoAdapter, Native}
Pairs  == Schemes \X Anyone
Shards == [scheme : Schemes, adapter : Anyone]
Lists  == UNION {[1..n -> Schemes] : n \in 0..MaxUrls}

TypeOK ==
  /\ registry \in [Schemes -> Adapters \cup {NoAdapter}]
  /\ writer \in Threads \cup {NoThread}
  /\ readers \in SUBSET Threads
  /\ gil \in Threads \cup {NoThread}
  /\ pc \in [Threads -> {"idle", "register", "insert", "finalize", "finalize_gil",
                         "next", "lookup", "call", "python", "leave"}]
  /\ scheme \in [Threads -> Schemes]
  /\ adapter \in [Threads -> Anyone]
  /\ todo \in [Threads -> Seq(Schemes)]
  /\ urls \in [Threads -> Seq(Schemes)]
  /\ shards \in [Threads -> Seq(Shards)]
  /\ reply \in [Threads -> {"none", "registered", "opened", "unknown", "error"}]
  /\ left \in [Threads -> 0..MaxCalls]
  /\ promised \in [Schemes -> Anyone]
  /\ seen \in [Threads -> SUBSET Pairs]

(* What resolve does without registrations. *)
Fallback(s) == IF s \in BuiltIn THEN Native ELSE NoAdapter

Init ==
  /\ registry = [s \in Schemes |-> NoAdapter]
  /\ writer = NoThread /\ readers = {} /\ gil = NoThread
  /\ pc = [t \in Threads |-> "idle"]
  /\ \E s \in Schemes : scheme = [t \in Threads |-> s]
  /\ adapter = [t \in Threads |-> NoAdapter]
  /\ todo = [t \in Threads |-> <<>>]
  /\ urls = [t \in Threads |-> <<>>]
  /\ shards = [t \in Threads |-> <<>>]
  /\ reply = [t \in Threads |-> "none"]
  /\ left = [t \in Threads |-> MaxCalls]
  /\ promised = [s \in Schemes |-> Fallback(s)]
  /\ seen = [t \in Threads |-> {}]
-----------------------------------------------------------------------------
(* Fault: built-in schemes come first. *)
BuiltInFirst(s) == IF s \in BuiltIn THEN Native ELSE registry[s]

(* resolve: a registered adapter, else a built-in one. *)
Resolve(s)   == IF registry[s] # NoAdapter THEN registry[s] ELSE Fallback(s)
Insert(s, a) == registry' = [registry EXCEPT ![s] = a]

(* Someone other than the registry's entry for s refers to a: an entry of  *)
(* another scheme, a call that resolved it, or an archive.                 *)
Held(a, s, t) ==
  \/ \E r \in Schemes \ {s} : registry[r] = a
  \/ \E u \in Threads \ {t} : adapter[u] = a
  \/ \E u \in Threads : \E i \in 1..Len(shards[u]) : shards[u][i].adapter = a

Goto(t, l)   == pc' = [pc EXCEPT ![t] = l]
Current      == {<<s, promised[s]>> : s \in Schemes}

(* A call enters from Python, with the GIL; what the last one left behind  *)
(* is dropped.                                                             *)
Enter(t) ==
  /\ pc[t] = "idle"
  /\ left[t] > 0
  /\ gil = NoThread
  /\ left' = [left EXCEPT ![t] = @ - 1]
  /\ shards' = [shards EXCEPT ![t] = <<>>]
  /\ urls' = [urls EXCEPT ![t] = <<>>]
  /\ reply' = [reply EXCEPT ![t] = "none"]
  /\ seen' = [seen EXCEPT ![t] = Current]
  /\ UNCHANGED <<registry, locks, promised>>

(* register_adapter keeps the GIL. *)
BeginRegister(t) ==
  /\ Enter(t)
  /\ gil' = t
  /\ \E s \in Schemes, a \in Adapters :
       /\ \A u \in Threads : pc[u] \in {"finalize", "finalize_gil"} => adapter[u] # a
       /\ scheme' = [scheme EXCEPT ![t] = s]
       /\ adapter' = [adapter EXCEPT ![t] = a]
  /\ todo' = [todo EXCEPT ![t] = <<>>]
  /\ Goto(t, "register")

LockWrite(t) ==
  /\ pc[t] = "register"
  /\ writer = NoThread /\ readers = {}
  /\ writer' = t
  /\ Goto(t, "insert")
  /\ UNCHANGED <<registry, readers, gil, scheme, adapter, work, reply, left, promised, seen>>

Return(t, kind) ==
  /\ Goto(t, "idle")
  /\ gil' = NoThread
  /\ reply' = [reply EXCEPT ![t] = kind]

(* insert returns the adapter it replaced, a temporary of the statement    *)
(* that is dropped before the guard.  Python may refer to it elsewhere.    *)
Replace(t) ==
  LET s   == scheme[t]
      a   == adapter[t]
      old == registry[s]
  IN
  /\ pc[t] = "insert"
  /\ Insert(s, a)
  /\ promised' = [promised EXCEPT ![s] = a]
  /\ seen' = [u \in Threads |->
               IF pc[u] = "idle" THEN seen[u] ELSE seen[u] \cup {<<s, a>>}]
  /\ \/ /\ old \in Yielding /\ old # a /\ ~Held(old, s, t)
        /\ Goto(t, "finalize")
        /\ adapter' = [adapter EXCEPT ![t] = old]
        /\ UNCHANGED <<writer, gil, reply>>
     \/ /\ Return(t, "registered")
        /\ writer' = NoThread
        /\ adapter' = [adapter EXCEPT ![t] = NoAdapter]
  /\ UNCHANGED <<readers, scheme, work, left>>

(* The finalizer gives the GIL up, under the write guard, ... *)
YieldGil(t) ==
  /\ pc[t] = "finalize"
  /\ gil' = NoThread
  /\ Goto(t, "finalize_gil")
  /\ UNCHANGED <<registry, locks, scheme, adapter, work, reply, left, promised, seen>>

(* ... and ends once it has the GIL back; then the guard goes. *)
EndFinalizer(t) ==
  /\ pc[t] = "finalize_gil"
  /\ gil = NoThread
  /\ Return(t, "registered")
  /\ writer' = NoThread
  /\ adapter' = [adapter EXCEPT ![t] = NoAdapter]
  /\ UNCHANGED <<registry, readers, scheme, work, left, promised, seen>>
-----------------------------------------------------------------------------
(* Opening an archive: the GIL is given up for the whole of build_index. *)

BeginOpen(t) ==
  /\ Enter(t)
  /\ \E l \in Lists : todo' = [todo EXCEPT ![t] = l]
  /\ adapter' = [adapter EXCEPT ![t] = NoAdapter]
  /\ Goto(t, "next")
  /\ UNCHANGED <<gil, scheme>>

(* Sources are expanded first, each with the adapter of its own scheme;    *)
(* then the URLs are loaded, each with the adapter of its own.             *)
Expanding(t) == todo[t] # <<>>
Loading(t)   == todo[t] = <<>> /\ urls[t] # <<>>
Wanted(t)    == IF Expanding(t) THEN Head(todo[t]) ELSE Head(urls[t])

LockRead(t) ==
  /\ pc[t] = "next"
  /\ Expanding(t) \/ Loading(t)
  /\ writer = NoThread
  /\ readers' = readers \cup {t}
  /\ Goto(t, "lookup")
  /\ UNCHANGED <<registry, writer, gil, scheme, adapter, work, reply, left, promised, seen>>

(* An error drops what was built. *)
Fail(t, kind) ==
  /\ Goto(t, "leave")
  /\ reply' = [reply EXCEPT ![t] = kind]
  /\ todo' = [todo EXCEPT ![t] = <<>>]
  /\ urls' = [urls EXCEPT ![t] = <<>>]
  /\ shards' = [shards EXCEPT ![t] = <<>>]
  /\ adapter' = [adapter EXCEPT ![t] = NoAdapter]

(* Fault: the guard outlives the statement. *)
KeepReadGuard(t) == UNCHANGED readers
UnlockRead(t)    == readers' = readers \ {t}

(* The read guard is a temporary of the `if let` and lives to its end. *)
Lookup(t) ==
  LET a == Resolve(Wanted(t)) IN
  /\ pc[t] = "lookup"
  /\ UnlockRead(t)
  /\ \/ /\ a = NoAdapter
        /\ Fail(t, "unknown")
     \/ /\ a # NoAdapter
        /\ adapter' = [adapter EXCEPT ![t] = a]
        /\ Goto(t, "call")
        /\ UNCHANGED <<work, reply>>
  /\ UNCHANGED <<registry, writer, gil, scheme, left, promised, seen>>

(* PyAdapter's methods call Python in with_gil. *)
TakeGil(t) ==
  /\ pc[t] = "call"
  /\ adapter[t] # Native
  /\ gil = NoThread
  /\ gil' = t
  /\ Goto(t, "python")
  /\ UNCHANGED <<registry, locks, scheme, adapter, work, reply, left, promised, seen>>

(* list: a source that expands to nothing is an error. *)
Expand(t) ==
  /\ Expanding(t)
  /\ \/ Fail(t, "error")
     \/ \E l \in Lists \ {<<>>} :
          /\ urls' = [urls EXCEPT ![t] = @ \o l]
          /\ todo' = [todo EXCEPT ![t] = Tail(@)]
          /\ adapter' = [adapter EXCEPT ![t] = NoAdapter]
          /\ Goto(t, "next")
          /\ UNCHANGED <<shards, reply>>

(* Fault: a shard that cannot be loaded is tried again. *)
LoadAgain(t) ==
  /\ Loading(t)
  /\ adapter' = [adapter EXCEPT ![t] = NoAdapter]
  /\ Goto(t, "next")
  /\ UNCHANGED <<work, reply>>

(* size and the reads of the footer and the path column.  The shard keeps  *)
(* the adapter.                                                            *)
Load(t) ==
  /\ Loading(t)
  /\ \/ Fail(t, "error")
     \/ /\ shards' = [shards EXCEPT ![t] =
                        Append(@, [scheme |-> Wanted(t), adapter |-> adapter[t]])]
        /\ urls' = [urls EXCEPT ![t] = Tail(@)]
        /\ adapter' = [adapter EXCEPT ![t] = NoAdapter]
        /\ Goto(t, "next")
        /\ UNCHANGED <<todo, reply>>

Answer(t) ==
  /\ \/ pc[t] = "python" /\ gil' = NoThread
     \/ pc[t] = "call" /\ adapter[t] = Native /\ UNCHANGED gil
  /\ Expand(t) \/ Load(t)
  /\ UNCHANGED <<registry, locks, scheme, left, promised, seen>>

Finish(t) ==
  /\ pc[t] = "next"
  /\ ~Expanding(t) /\ ~Loading(t)
  /\ reply' = [reply EXCEPT ![t] = "opened"]
  /\ Goto(t, "leave")
  /\ UNCHANGED <<registry, locks, gil, scheme, adapter, work, left, promised, seen>>

(* allow_threads takes the GIL back before the call returns. *)
Leave(t) ==
  /\ pc[t] = "leave"
  /\ gil = NoThread
  /\ Goto(t, "idle")
  /\ UNCHANGED <<registry, locks, gil, scheme, adapter, work, reply, left, promised, seen>>
-----------------------------------------------------------------------------
Step(t) ==
  \/ LockWrite(t) \/ Replace(t) \/ YieldGil(t) \/ EndFinalizer(t)
  \/ LockRead(t) \/ Lookup(t) \/ TakeGil(t) \/ Answer(t) \/ Finish(t) \/ Leave(t)

Terminating ==
  /\ \A t \in Threads : pc[t] = "idle" /\ left[t] = 0
  /\ UNCHANGED vars

Next ==
  \/ \E t \in Threads : BeginRegister(t) \/ BeginOpen(t) \/ Step(t)
  \/ Terminating

Spec     == Init /\ [][Next]_vars
FairSpec == Spec /\ \A t \in Threads : WF_vars(Step(t))
-----------------------------------------------------------------------------
(* Properties. *)

(* Registering a scheme, a built-in one too, replaces its adapter for      *)
(* every archive opened from then on: each shard of an archive is read     *)
(* with an adapter its own scheme had while the archive was being opened,  *)
(* and a scheme is unknown only if it had none then.                       *)
AdaptersAreCurrent ==
  \A t \in Threads :
    /\ \A i \in 1..Len(shards[t]) :
         <<shards[t][i].scheme, shards[t][i].adapter>> \in seen[t]
    /\ reply[t] = "unknown" => \E s \in Schemes : <<s, NoAdapter>> \in seen[t]

HoldsRegistry(t) == writer = t \/ t \in readers
WaitsForGil(t)   == \/ pc[t] \in {"leave", "finalize_gil"}
                    \/ pc[t] = "call" /\ adapter[t] # Native
WaitsForLock(t)  == pc[t] \in {"register", "next"}

(* Whoever holds the registry's lock waits neither for it nor for the GIL, *)
(* except in the finalizer of an adapter it replaced, and whoever has the  *)
(* GIL waits for the registry at most.  So every wait but that one ends    *)
(* with the step of a thread that can take it.                             *)
LockHoldersRun ==
  \A t \in Threads :
    /\ HoldsRegistry(t) =>
         /\ ~WaitsForLock(t)
         /\ WaitsForGil(t) => pc[t] = "finalize_gil" /\ adapter[t] \in Yielding
    /\ gil = t => ~WaitsForGil(t)

(* No register call and no open waits for ever, unless the finalizer of an *)
(* adapter that was replaced gives the GIL up (then another register call  *)
(* may take it and wait for the lock, see LockHoldersRun).                 *)
EveryCallReturns ==
  \A t \in Threads :
    (pc[t] # "idle") ~>
      (pc[t] = "idle" \/ \E u \in Threads : pc[u] = "finalize_gil")
=============================================================================
