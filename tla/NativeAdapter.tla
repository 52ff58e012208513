-------------------------- MODULE NativeAdapter ---------------------------
(***************************************************************************)
(* The built-in adapter for s3, http and https URLs (crates/core/src/      *)
(* native.rs), called by any number of threads.                            *)
(*                                                                         *)
(* `stores` keeps one object store client per scheme and authority, behind *)
(* a mutex that is held while a client is looked up or built and not       *)
(* during a request.  `list` turns a glob into a listing of the part of    *)
(* the bucket below the last '/' before its first wildcard, and filters.   *)
(* A path is a sequence of segments; what a client sees of a name has been *)
(* encoded by Url::parse and by object_store::path::Path::from.            *)
(*                                                                         *)
(* A segment of a pattern is [text, wild, valid, matches]: its text up to  *)
(* the first of `*`, `?` and `[`, whether there is one, whether the glob   *)
(* library can read it, and the sequences of names it matches there.  That *)
(* is one name for most, and any number for `**`, but one at least if that *)
(* is the last segment.  The library knows more special characters than    *)
(* the code looks for, braces and the backslash: a segment that is not     *)
(* wild need not match its own text.                                       *)
(***************************************************************************)
EXTENDS Naturals, Sequences

CONSTANTS
  Threads,
  Schemes,     \* "s3", "http" and "https"
  Hosts,       \* authorities; NoHost is the empty one
  Names,       \* names of objects and of the levels above them
  Paths,       \* paths of the URLs and globs asked for
  Objects,     \* Objects[h]: the paths of the objects on host h
  Sent,        \* Sent[n]: what name n of a URL is in a request
  Stalled,     \* hosts whose requests never end
  MaxCalls,    \* bound: calls a thread makes
  NoThread, NoHost

ASSUME NativeAssumption ==
  /\ Schemes \subseteq {"s3", "http", "https"}
  /\ NoHost \in Hosts
  /\ Paths \subseteq Seq([text : Names, wild : BOOLEAN, valid : BOOLEAN,
                          matches : SUBSET Seq(Names)])
  /\ \A p \in Paths : p # <<>> => <<>> \notin p[Len(p)].matches
  /\ Objects \in [Hosts -> SUBSET Seq(Names)]
  /\ Sent \in [Names -> Names]
  /\ MaxCalls \in Nat
  /\ NoThread \notin Threads

VARIABLES
  stores,   \* the HashMap, as a set of entries
  holder,   \* the thread that has locked the mutex
  pc,
  call,     \* the current or last call of each thread
  store,    \* the clients store_for gave it, at most one
  answer,
  left,     \* the calls it may still make
  built     \* history: clients built so far

nativeVars == <<stores, holder, pc, call, store, answer, left, built>>

Calls  == [op : {"size", "list"}, scheme : Schemes, host : Hosts, path : Paths]
Keys   == Schemes \X Hosts
Stores == [key : Keys, id : Nat, host : Hosts, cleartext : BOOLEAN]

NativeTypeOK ==
  /\ stores \in SUBSET Stores
  /\ holder \in Threads \cup {NoThread}
  /\ pc \in [Threads -> {"idle", "lock", "build", "ask"}]
  /\ call \in [Threads -> Calls]
  /\ store \in [Threads -> SUBSET Stores]
  /\ answer \in [Threads ->
       [kind : {"none", "found", "error", "pattern"}, paths : SUBSET Seq(Names)]]
  /\ left \in [Threads -> 0..MaxCalls]
  /\ built \in Nat

Nothing == [kind |-> "none", paths |-> {}]
Error   == [kind |-> "error", paths |-> {}]

NativeInit ==
  /\ stores = {} /\ holder = NoThread /\ built = 0
  /\ pc = [t \in Threads |-> "idle"]
  /\ \E c \in Calls : call = [t \in Threads |-> c]
  /\ store = [t \in Threads |-> {}]
  /\ answer = [t \in Threads |-> Nothing]
  /\ left = [t \in Threads |-> MaxCalls]
-----------------------------------------------------------------------------
(* Globs. *)

IsGlob(p)     == \E i \in 1..Len(p) : p[i].wild
Parses(p)     == \A i \in 1..Len(p) : p[i].valid
Texts(p, n)   == [i \in 1..n |-> p[i].text]
Below(d, k)   == Len(k) > Len(d) /\ \A i \in 1..Len(d) : k[i] = d[i]

(* The glob matches k: k is cut into what the segments match, one after    *)
(* the other.                                                              *)
Cuts(p, k)    == [1..(Len(p) + 1) -> 0..Len(k)]
Matches(p, k) ==
  \E at \in Cuts(p, k) :
    /\ at[1] = 0 /\ at[Len(p) + 1] = Len(k)
    /\ \A i \in 1..Len(p) : /\ at[i] <= at[i + 1]
                           /\ SubSeq(k, at[i] + 1, at[i + 1]) \in p[i].matches

(* The first segment with a wildcard. *)
FirstWild(p)  == CHOOSE i \in 1..Len(p) : p[i].wild /\ \A j \in 1..(i - 1) : ~p[j].wild

(* Segments left of the last '/' before the first wildcard; all without. *)
Front(p) == IF IsGlob(p) THEN FirstWild(p) - 1 ELSE Len(p)

(* Fault: the prefix is cut at the wildcard and not at the '/' before it. *)
CutAtWildcard(p) == Texts(p, IF IsGlob(p) THEN FirstWild(p) ELSE Len(p))

(* glob_split, the text it returns. *)
Prefix(p) == Texts(p, Front(p))

(* Url::parse and Path::from, on the way to a request. *)
Requested(names) == [i \in 1..Len(names) |-> Sent[names[i]]]

(* list: the objects below the prefix, without those that do not match.    *)
(* Locations come back as they are stored.                                 *)
Listing(h, p) ==
  {k \in Objects[h] : Below(Requested(Prefix(p)), k) /\ Matches(p, k)}

(* head: the object of that name. *)
Named(h, names) == {k \in Objects[h] : k = Requested(names)}
HeadOf(h, p)     == Named(h, Texts(p, Len(p)))
-----------------------------------------------------------------------------
Goto(t, l)   == pc' = [pc EXCEPT ![t] = l]
Return(t, r) == Goto(t, "idle") /\ answer' = [answer EXCEPT ![t] = r]

(* A glob needs s3, and a bucket left of the first wildcard.  Without a    *)
(* matcher, list answers the text of glob_split: a pattern without         *)
(* wildcards lists itself, and a glob that the library cannot read lists   *)
(* what is left of its wildcard, whatever the scheme.                      *)
Begin(t) ==
  /\ pc[t] = "idle"
  /\ left[t] > 0
  /\ \E c \in Calls :
       /\ c.op = "size" => ~IsGlob(c.path)
       /\ call' = [call EXCEPT ![t] = c]
       /\ IF c.op = "list" /\ ~(IsGlob(c.path) /\ Parses(c.path))
          THEN Return(t, [kind |-> "pattern", paths |-> {Prefix(c.path)}])
          ELSE IF c.scheme # "s3" /\ (c.op = "list" \/ c.host = NoHost)
          THEN Return(t, Error)
          ELSE Goto(t, "lock") /\ answer' = [answer EXCEPT ![t] = Nothing]
  /\ store' = [store EXCEPT ![t] = {}]
  /\ left' = [left EXCEPT ![t] = @ - 1]
  /\ UNCHANGED <<stores, holder, built>>

Lock(t) ==
  /\ pc[t] = "lock"
  /\ holder = NoThread
  /\ holder' = t
  /\ Goto(t, "build")
  /\ UNCHANGED <<stores, call, store, answer, left, built>>

(* Fault: the guard is not dropped when a client has been found. *)
UnlockOnError(t, ok) == IF ok THEN UNCHANGED holder ELSE holder' = NoThread

KeyOf(c)      == <<c.scheme, c.host>>
Remember(s)   == stores' = stores \cup {s}
Unlock(t, ok) == holder' = NoThread

(* The client builders.  Only http:// URLs get a client that may use http. *)
NewStore(c) ==
  [key |-> KeyOf(c), id |-> built, host |-> c.host, cleartext |-> c.scheme = "http"]

(* The rest of store_for, under the lock.  A build can fail, and does      *)
(* without a bucket; then nothing is kept.                                 *)
StoreFor(t) ==
  LET c     == call[t]
      known == {s \in stores : s.key = KeyOf(c)}
      got(s) == store' = [store EXCEPT ![t] = {s}] /\ Goto(t, "ask") /\ Unlock(t, TRUE)
  IN
  /\ pc[t] = "build"
  /\ \/ /\ \E s \in known : got(s)
        /\ UNCHANGED <<stores, answer, built>>
     \/ /\ known = {} /\ c.host # NoHost
        /\ got(NewStore(c))
        /\ Remember(NewStore(c))
        /\ built' = built + 1
        /\ UNCHANGED answer
     \/ /\ known = {}
        /\ Return(t, Error)
        /\ Unlock(t, FALSE)
        /\ UNCHANGED <<stores, store, built>>
  /\ UNCHANGED <<call, left>>

(* The request: block_on. *)
Request(t) ==
  LET c == call[t]
      paths == IF c.op = "list" THEN Listing(c.host, c.path) ELSE HeadOf(c.host, c.path)
  IN
  /\ pc[t] = "ask"
  /\ c.host \notin Stalled
  /\ \/ Return(t, Error)
     \/ /\ c.op = "list" \/ paths # {}
        /\ Return(t, [kind |-> "found", paths |-> paths])
  /\ UNCHANGED <<stores, holder, call, store, left, built>>
-----------------------------------------------------------------------------
Step(t) == Lock(t) \/ StoreFor(t) \/ Request(t)

Terminating ==
  /\ \A t \in Threads : pc[t] = "idle" /\ left[t] = 0
  /\ UNCHANGED nativeVars

NativeNext == (\E t \in Threads : Begin(t) \/ Step(t)) \/ Terminating

NativeSpec     == NativeInit /\ [][NativeNext]_nativeVars
NativeFairSpec == NativeSpec /\ \A t \in Threads : WF_nativeVars(Step(t))
-----------------------------------------------------------------------------
(* Properties. *)

(* A request goes to the host of its URL, and over http only if the URL    *)
(* says so: "an https:// URL still can't be downgraded".                   *)
StoresFitUrls ==
  \A t \in Threads : \A s \in store[t] :
    /\ s.host = call[t].host
    /\ s.cleartext => call[t].scheme = "http"

(* Threads that use one scheme and host share one client, whoever built    *)
(* it and whichever builds failed before.                                  *)
StoresAreShared ==
  \A t, u \in Threads : \A r \in store[t], s \in store[u] :
    call[t].scheme = call[u].scheme /\ call[t].host = call[u].host => r = s

(* Where patterns mean to the library what they mean to the code: the      *)
(* library can read them, and takes the front for what it says.            *)
Understood(p) ==
  /\ IsGlob(p) => Parses(p)
  /\ \A i \in 1..Front(p) : p[i].matches = {<<p[i].text>>}

(* "Expand a glob pattern into concrete URLs.  Non-glob inputs return      *)
(* themselves": the answer is every object that matches, none of which     *)
(* lies outside the listed prefix, or the pattern.                         *)
ListsEveryMatch ==
  \A t \in Threads :
    LET p == call[t].path IN
    call[t].op = "list" /\ answer[t].kind \in {"found", "pattern"} /\ Understood(p) =>
      answer[t].paths = IF IsGlob(p) THEN {k \in Objects[call[t].host] : Matches(p, k)}
                                     ELSE {Texts(p, Len(p))}

(* A host that stops answering stops the calls to that host only. *)
OthersReturn ==
  \A t \in Threads :
    (pc[t] # "idle" /\ call[t].host \notin Stalled) ~> (pc[t] = "idle")
=============================================================================
