--------------------------- MODULE ArchiveCache ---------------------------
(***************************************************************************)
(* Archive::read and Archive::info (crates/core/src/archive.rs) called by  *)
(* several threads on one open archive.                                    *)
(*                                                                         *)
(* The index is immutable, so calls meet only in two caches, each behind   *)
(* a std Mutex: `chunks`, an LruCache of decoded content columns, and      *)
(* `details`, an unbounded map of sizes and metadata, both keyed by row    *)
(* group.  A lookup, the decode after a miss and the insertion are three   *)
(* steps with two separate lock scopes; another thread may do anything in  *)
(* between.  A decode can fail (it reads the shard), and library code or   *)
(* an index out of range can panic, which unwinds into a Python exception  *)
(* and poisons every mutex the thread holds.                               *)
(***************************************************************************)
EXTENDS Naturals, Sequences

CONSTANTS
  Threads,
  Groups,     \* row groups (shard, rg)
  Columns,    \* content columns
  Chunk,      \* Chunk[g]: the column that decoding row group g yields
  Paths,      \* normalized virtual paths callers ask for
  Files,      \* those that are files
  Dirs,       \* those that are directories
  GroupOf,    \* the row group of each file
  WithExtra,  \* row groups of shards that have extra columns
  Capacity,   \* LruCache::new(4)
  MaxCalls,   \* bound: calls a thread makes
  NoThread, NoColumn

ASSUME CacheAssumption ==
  /\ Files \subseteq Paths /\ Dirs \subseteq Paths
  /\ GroupOf \in [Files -> Groups]
  /\ Chunk \in [Groups -> Columns]
  /\ Capacity \in Nat \ {0}
  /\ MaxCalls \in Nat
  /\ NoThread \notin Threads
  /\ NoColumn \notin Columns

VARIABLES
  chunks,    \* the LruCache: [key, value] entries, most recently used first
  details,   \* the HashMap: the column each detail was made from, or NoColumn
  holder,    \* holder[l]: the thread that has locked mutex l
  poisoned,  \* mutexes whose holder panicked
  pc,
  call,      \* the current or last call of each thread
  col,       \* the column it works on
  reply,     \* what its last call returned
  left,      \* the calls it may still make
  recent     \* history: row groups by last use of their chunk, newest first

vars == <<chunks, details, holder, poisoned, pc, call, col, reply, left, recent>>

Mutexes == {"chunks", "details"}
Calls   == [op : {"read", "info"}, path : Paths]
Entries == [key : Groups, value : Columns]
Kinds   == {"none", "content", "size", "dir", "not_found", "error", "panic"}
Replies == [kind : Kinds, of : Columns \cup {NoColumn}]

Plain(kind)     == [kind |-> kind, of |-> NoColumn]
Found(kind, c)  == [kind |-> kind, of |-> c]
Group(t)        == GroupOf[call[t].path]

TypeOK ==
  /\ chunks \in Seq(Entries)
  /\ details \in [Groups -> Columns \cup {NoColumn}]
  /\ holder \in [Mutexes -> Threads \cup {NoThread}]
  /\ poisoned \in SUBSET Mutexes
  /\ pc \in [Threads -> {"idle", "details", "in_details", "chunks", "in_chunks",
                         "decode", "put", "in_put", "use", "extra",
                         "insert", "in_insert", "answer"}]
  /\ call \in [Threads -> Calls]
  /\ col \in [Threads -> Columns \cup {NoColumn}]
  /\ reply \in [Threads -> Replies]
  /\ left \in [Threads -> 0..MaxCalls]
  /\ recent \in Seq(Groups)

Init ==
  /\ chunks = <<>>
  /\ details = [g \in Groups |-> NoColumn]
  /\ holder = [l \in Mutexes |-> NoThread]
  /\ poisoned = {}
  /\ pc = [t \in Threads |-> "idle"]
  /\ \E c \in Calls : call = [t \in Threads |-> c]
  /\ col = [t \in Threads |-> NoColumn]
  /\ reply = [t \in Threads |-> Plain("none")]
  /\ left = [t \in Threads |-> MaxCalls]
  /\ recent = <<>>
-----------------------------------------------------------------------------
(* The LruCache, as a sequence. *)

(* Fault: a hit takes the first entry, whatever its key. *)
PlaceAtFront(s, g) == 1

Cached(s, g)   == \E i \in 1..Len(s) : s[i].key = g
PlaceOf(s, g)  == CHOOSE i \in 1..Len(s) : s[i].key = g
ToFront(s, i)  == [j \in 1..Len(s) |->
                     IF j = 1 THEN s[i] ELSE IF j <= i THEN s[j - 1] ELSE s[j]]
PushFront(s, e, n) == [j \in 1..n |-> IF j = 1 THEN e ELSE s[j - 1]]
Least(m, n)        == IF m < n THEN m ELSE n

(* Fault: a cached key is not looked for. *)
PutTwice(s, e) == PushFront(s, e, Least(Len(s) + 1, Capacity))

(* put: replaces the value of a cached key, or evicts the last entry of a  *)
(* full cache; the key becomes the most recently used.                     *)
Put(s, e) ==
  IF Cached(s, e.key)
  THEN [ToFront(s, PlaceOf(s, e.key)) EXCEPT ![1] = e]
  ELSE PushFront(s, e, Least(Len(s) + 1, Capacity))

(* The same order without values and without the limit. *)
Listed(r, g) == \E i \in 1..Len(r) : r[i] = g
RankOf(r, g) == CHOOSE i \in 1..Len(r) : r[i] = g
Used(r, g)   == IF Listed(r, g) THEN ToFront(r, RankOf(r, g))
                ELSE PushFront(r, g, Len(r) + 1)
-----------------------------------------------------------------------------
(* Fault: the guard of the chunk cache is never dropped. *)
UnlockDetailsOnly(l) ==
  holder' = IF l = "details" THEN [holder EXCEPT ![l] = NoThread] ELSE holder

Goto(t, l)   == pc' = [pc EXCEPT ![t] = l]
Unlock(l)    == holder' = [holder EXCEPT ![l] = NoThread]
Return(t, r) == Goto(t, "idle") /\ reply' = [reply EXCEPT ![t] = r]

(* A call looks its path up in the immutable index first. *)
Begin(t) ==
  /\ pc[t] = "idle"
  /\ left[t] > 0
  /\ \E c \in Calls :
       /\ call' = [call EXCEPT ![t] = c]
       /\ IF c.path \in Files
          THEN /\ Goto(t, IF c.op = "read" THEN "chunks" ELSE "details")
               /\ reply' = [reply EXCEPT ![t] = Plain("none")]
          ELSE Return(t, Plain(IF c.op = "info" /\ c.path \in Dirs
                               THEN "dir" ELSE "not_found"))
  /\ col' = [col EXCEPT ![t] = NoColumn]
  /\ left' = [left EXCEPT ![t] = @ - 1]
  /\ UNCHANGED <<chunks, details, holder, poisoned, recent>>

(* lock().unwrap(): waits for the mutex, and panics if it is poisoned. *)
Lock(t, l, from, to) ==
  LET sound == l \notin poisoned IN
  /\ pc[t] = from
  /\ holder[l] = NoThread
  /\ holder' = IF sound THEN [holder EXCEPT ![l] = t] ELSE holder
  /\ Goto(t, IF sound THEN to ELSE "idle")
  /\ reply' = IF sound THEN reply ELSE [reply EXCEPT ![t] = Plain("panic")]
  /\ UNCHANGED <<chunks, details, poisoned, call, col, left, recent>>


(* load_detail: the lookup. *)
GetDetail(t) ==
  /\ pc[t] = "in_details"
  /\ Goto(t, IF details[Group(t)] # NoColumn THEN "answer" ELSE "chunks")
  /\ col' = [col EXCEPT ![t] = details[Group(t)]]
  /\ Unlock("details")
  /\ UNCHANGED <<chunks, details, poisoned, call, reply, left, recent>>

(* load_content_chunk: the lookup.  get() makes a hit the most recently    *)
(* used entry.  The guard, a temporary of the `if let`, lives to the end   *)
(* of that statement and no longer.                                        *)
GetChunk(t) ==
  /\ pc[t] = "in_chunks"
  /\ IF Cached(chunks, Group(t))
     THEN LET i == PlaceOf(chunks, Group(t)) IN
          /\ col' = [col EXCEPT ![t] = chunks[i].value]
          /\ chunks' = ToFront(chunks, i)
          /\ recent' = Used(recent, Group(t))
          /\ Goto(t, "use")
     ELSE Goto(t, "decode") /\ UNCHANGED <<col, chunks, recent>>
  /\ Unlock("chunks")
  /\ UNCHANGED <<details, poisoned, call, reply, left>>

(* read_rg_columns. *)
Decode(t) ==
  /\ pc[t] = "decode"
  /\ col' = [col EXCEPT ![t] = Chunk[Group(t)]]
  /\ Goto(t, "put")
  /\ UNCHANGED <<chunks, details, holder, poisoned, call, reply, left, recent>>

(* load_content_chunk: the insertion.  Another thread may have inserted    *)
(* the same row group since the lookup.                                    *)
PutChunk(t) ==
  /\ pc[t] = "in_put"
  /\ chunks' = Put(chunks, [key |-> Group(t), value |-> col[t]])
  /\ recent' = Used(recent, Group(t))
  /\ Unlock("chunks")
  /\ Goto(t, "use")
  /\ UNCHANGED <<details, poisoned, call, col, reply, left>>

(* read: the value of the row. *)
ReadValue(t) ==
  /\ pc[t] = "use"
  /\ call[t].op = "read"
  /\ Return(t, Found("content", col[t]))
  /\ UNCHANGED <<chunks, details, holder, poisoned, call, col, left, recent>>

(* load_detail: the sizes of all rows, then the extra columns if any. *)
ComputeSizes(t) ==
  /\ pc[t] = "use"
  /\ call[t].op = "info"
  /\ Goto(t, IF Group(t) \in WithExtra THEN "extra" ELSE "insert")
  /\ UNCHANGED <<chunks, details, holder, poisoned, call, col, reply, left, recent>>

DecodeExtra(t) ==
  /\ pc[t] = "extra"
  /\ Goto(t, "insert")
  /\ UNCHANGED <<chunks, details, holder, poisoned, call, col, reply, left, recent>>

InsertDetail(t) ==
  /\ pc[t] = "in_insert"
  /\ details' = [details EXCEPT ![Group(t)] = col[t]]
  /\ Unlock("details")
  /\ Goto(t, "answer")
  /\ UNCHANGED <<chunks, poisoned, call, col, reply, left, recent>>

(* info: the size and metadata of the row. *)
AnswerInfo(t) ==
  /\ pc[t] = "answer"
  /\ Return(t, Found("size", col[t]))
  /\ UNCHANGED <<chunks, details, holder, poisoned, call, col, left, recent>>

(* `?`: reading the shard failed, the row group is empty, or the content   *)
(* column is neither binary nor string.  Nothing is cached.                *)
ReadFails(t) ==
  /\ pc[t] \in {"decode", "use", "extra"}
  /\ Return(t, Plain("error"))
  /\ UNCHANGED <<chunks, details, holder, poisoned, call, col, left, recent>>

(* The decoder, a downcast or a row index out of range panics.  Unwinding  *)
(* drops, and poisons, whatever guards the thread has.                     *)
Panic(t) ==
  /\ pc[t] \in {"decode", "use", "extra", "answer"}
  /\ Return(t, Plain("panic"))
  /\ poisoned' = poisoned \cup {l \in Mutexes : holder[l] = t}
  /\ holder' = [l \in Mutexes |-> IF holder[l] = t THEN NoThread ELSE holder[l]]
  /\ UNCHANGED <<chunks, details, call, col, left, recent>>
-----------------------------------------------------------------------------
Step(t) ==
  \/ Begin(t) \/ GetDetail(t) \/ GetChunk(t) \/ Decode(t) \/ PutChunk(t)
  \/ ReadValue(t) \/ ComputeSizes(t) \/ DecodeExtra(t) \/ InsertDetail(t)
  \/ AnswerInfo(t) \/ ReadFails(t) \/ Panic(t)
  \/ Lock(t, "details", "details", "in_details")
  \/ Lock(t, "chunks", "chunks", "in_chunks")
  \/ Lock(t, "chunks", "put", "in_put")
  \/ Lock(t, "details", "insert", "in_insert")

Next == \E t \in Threads : Step(t)

Spec == Init /\ [][Next]_vars

(* A thread that can run eventually does; a std Mutex promises no order    *)
(* among its waiters, so nothing stronger is assumed.                      *)
FairSpec == Spec /\ \A t \in Threads : WF_vars(Step(t))
-----------------------------------------------------------------------------
(* Every cached column, and the one behind every cached detail, is what    *)
(* decoding its row group gives, and so is what a thread works on: two     *)
(* threads that miss together, an eviction or a failed decode mix up       *)
(* nothing.                                                                *)
CachesCoherent ==
  /\ \A i \in 1..Len(chunks) : chunks[i].value = Chunk[chunks[i].key]
  /\ \A g \in Groups : details[g] \in {Chunk[g], NoColumn}
  /\ \A t \in Threads :
       pc[t] \in {"put", "in_put", "use", "extra", "insert", "in_insert", "answer"}
         => col[t] = Chunk[Group(t)]

(* The LruCache holds the row groups used last, in that order, at most     *)
(* Capacity of them and none twice, although threads decode and insert the *)
(* same row group side by side ("a small LRU cache").                      *)
CacheIsMostRecent ==
  /\ Len(chunks) = Least(Len(recent), Capacity)
  /\ \A i \in 1..Len(chunks) : chunks[i].key = recent[i]
  /\ \A i, j \in 1..Len(recent) : recent[i] = recent[j] => i = j

(* What a call returns fits what it was asked, whatever ran beside it.     *)
RepliesRight ==
  \A t \in Threads : pc[t] = "idle" =>
    /\ reply[t].kind = "content" =>
         call[t].op = "read" /\ reply[t].of = Chunk[Group(t)]
    /\ reply[t].kind = "size" =>
         call[t].op = "info" /\ reply[t].of = Chunk[Group(t)]
    /\ reply[t].kind \in {"content", "size", "error", "panic"} =>
         call[t].path \in Files
    /\ reply[t].kind = "not_found" => call[t].path \notin Files

(* No mutex is ever poisoned: a call that panics does not take the archive *)
(* away from the other threads.                                            *)
NeverPoisoned == poisoned = {}

(* A mutex is held only inside its own short section, one at a time: never *)
(* while the shard is read (an adapter may call back into Python, or into  *)
(* this archive) and never while waiting for the other mutex.              *)
LocksAreShort ==
  \A t \in Threads, l \in Mutexes :
    holder[l] = t <=> pc[t] \in (IF l = "chunks" THEN {"in_chunks", "in_put"}
                                 ELSE {"in_details", "in_insert"})

(* Every call returns, also when others fail or panic. *)
EveryCallReturns == \A t \in Threads : pc[t] # "idle" ~> pc[t] = "idle"
=============================================================================
