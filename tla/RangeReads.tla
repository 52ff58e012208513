---------------------------- MODULE RangeReads ----------------------------
(***************************************************************************)
(* Reading a shard through its adapter (crates/core/src/chunk_reader.rs).  *)
(*                                                                         *)
(* build_index asks the adapter for the size of a shard once and keeps it  *)
(* in an AdapterChunkReader for as long as the index lives.  The parquet   *)
(* crate reads through that reader in two ways: get_bytes, one range in    *)
(* one piece, and get_read, a stream (AdapterRead).  Meanwhile the shard   *)
(* may be replaced: a pack call renames a new file over it.                *)
(*                                                                         *)
(* An adapter answers each request from the shard as it is at that moment  *)
(* (LocalAdapter opens the file anew for each).  The local one answers     *)
(* exactly or fails; of the others, which run a user's Python code or a    *)
(* server, it is only assumed that they start at the offset asked for.     *)
(***************************************************************************)
EXTENDS Naturals, Sequences

CONSTANTS
  Contents,  \* what the shard may contain, as sequences of bytes
  Bytes,
  Adapters,  \* kinds of adapter, see Answers
  Buffers,   \* sizes of the buffer given to one read
  NoReader

ASSUME ContentsAssumption == Contents \subseteq Seq(Bytes)

ASSUME ParametersAssumption ==
  /\ Adapters \subseteq {"local", "loose"}
  /\ Buffers \subseteq Nat \ {0}

Reader == [size : Nat, adapter : Adapters]

ASSUME NoReaderAssumption == NoReader \notin Reader

VARIABLES
  file,    \* the shard as it is now
  reader,  \* the AdapterChunkReader of the index, if there is one
  stream,  \* an AdapterRead and the bytes its owner got so far
  reply,   \* the result of a get_bytes
  seen,    \* history: what the shard contained since the reader was made
  asked    \* history: the range this step requested, and the shard's end

vars == <<file, reader, stream, reply, seen, asked>>
-----------------------------------------------------------------------------
Lesser(a, b)      == IF a < b THEN a ELSE b
SaturatingSub(a, b) == IF a < b THEN 0 ELSE a - b

(* len bytes at offset at, as many of them as there are. *)
Slice(c, at, len) == SubSeq(c, at + 1, Lesser(at + len, Len(c)))

(* read_range: LocalAdapter's read_exact fails when the range is cut off;  *)
(* another adapter may give less than asked for, or more.  A request to    *)
(* any of them may also fail, see ReadFails and GetBytes.                  *)
Answers(adapter, c, at, len) ==
  IF adapter = "local"
  THEN IF len = 0 \/ at + len <= Len(c) THEN {Slice(c, at, len)} ELSE {}
  ELSE {Slice(c, at, n) : n \in 0..Len(c)}

Stream == [state : {"none", "open", "eof", "failed"},
           start : Nat, pos : Nat, got : Seq(Bytes)]
NoStream == [state |-> "none", start |-> 0, pos |-> 0, got |-> <<>>]

StreamAt(start) ==
  [state |-> "open", start |-> start, pos |-> start, got |-> <<>>]

Reply == [ok : BOOLEAN, at : Nat, len : Nat, data : Seq(Bytes)]
NoReply == [ok |-> FALSE, at |-> 0, len |-> 0, data |-> <<>>]

Asked == [from : Nat, to : Nat, end : Nat]
NothingAsked == [from |-> 0, to |-> 0, end |-> 0]

TypeOK ==
  /\ file \in Contents
  /\ reader \in Reader \cup {NoReader}
  /\ stream \in Stream
  /\ reply \in Reply
  /\ seen \subseteq Contents
  /\ asked \in Asked

Init ==
  /\ file \in Contents
  /\ reader = NoReader
  /\ stream = NoStream
  /\ reply = NoReply
  /\ seen = {}
  /\ asked = NothingAsked
-----------------------------------------------------------------------------
Open == reader # NoReader

Ask(at, len) ==
  asked' = [from |-> at, to |-> at + len, end |-> Len(file)]
AskNothing == asked' = NothingAsked

(* build_index: adapter.size, once. *)
OpenShard ==
  /\ ~Open
  /\ \E a \in Adapters : reader' = [size |-> Len(file), adapter |-> a]
  /\ seen' = {file}
  /\ AskNothing
  /\ UNCHANGED <<file, stream, reply>>

(* The index is dropped, and the reader with its streams. *)
DropIndex ==
  /\ Open
  /\ reader' = NoReader
  /\ stream' = NoStream
  /\ reply' = NoReply
  /\ seen' = {}
  /\ AskNothing
  /\ UNCHANGED file

(* Someone renames another file over the shard. *)
Replace ==
  /\ file' \in Contents
  /\ seen' = IF Open THEN seen \cup {file'} ELSE seen
  /\ AskNothing
  /\ UNCHANGED <<reader, stream, reply>>

(* get_read at an offset a footer gave, which is never past the size.  One *)
(* owner at a time: what other threads read shares only the reader.        *)
GetRead ==
  /\ Open
  /\ stream.state # "open"
  /\ \E start \in 0..reader.size : stream' = StreamAt(start)
  /\ reply' = NoReply
  /\ AskNothing
  /\ UNCHANGED <<file, reader, seen>>
-----------------------------------------------------------------------------
(* Faults: the last byte is taken for the end; the buffer alone limits a   *)
(* request.                                                                *)
RemainingButOne(s) == SaturatingSub(reader.size - 1, s.pos)
WantBuffer(s, n) == n

Remaining(s) == SaturatingSub(reader.size, s.pos)
Want(s, n)   == Lesser(n, Remaining(s))

(* Faults: surplus bytes are skipped over; a short answer is asked for     *)
(* again until it is long enough.                                          *)
TakeSkippingSurplus(s, n, data) ==
  [s EXCEPT !.got = @ \o SubSeq(data, 1, Lesser(Len(data), n)),
            !.pos = @ + Len(data)]
TakeOnlyAll(s, n, data) ==
  IF Len(data) < Want(s, n) THEN s
  ELSE [s EXCEPT !.got = @ \o SubSeq(data, 1, Lesser(Len(data), n)),
                 !.pos = @ + Lesser(Len(data), n)]

(* What fits in a buffer of n bytes is handed on. *)
Take(s, n, data) ==
  LET taken == SubSeq(data, 1, Lesser(Len(data), n)) IN
    [s EXCEPT !.got = @ \o taken, !.pos = @ + Len(taken)]

(* AdapterRead::read.  Its owner takes Ok(0) for the end of the stream.    *)
ReadEnd ==
  /\ Open /\ stream.state = "open"
  /\ Remaining(stream) = 0
  /\ stream' = [stream EXCEPT !.state = "eof"]
  /\ AskNothing
  /\ UNCHANGED <<file, reader, reply, seen>>

ReadSome ==
  /\ Open /\ stream.state = "open"
  /\ Remaining(stream) # 0
  /\ \E n \in Buffers :
       /\ Ask(stream.pos, Want(stream, n))
       /\ \E data \in Answers(reader.adapter, file, stream.pos, Want(stream, n)) :
            stream' = IF data = <<>> THEN [stream EXCEPT !.state = "eof"]
                      ELSE Take(stream, n, data)
  /\ UNCHANGED <<file, reader, reply, seen>>

ReadFails ==
  /\ Open /\ stream.state = "open"
  /\ Remaining(stream) # 0
  /\ \E n \in Buffers : Ask(stream.pos, Want(stream, n))
  /\ stream' = [stream EXCEPT !.state = "failed"]
  /\ UNCHANGED <<file, reader, reply, seen>>
-----------------------------------------------------------------------------
(* Fault: the length of an answer is not looked at. *)
AcceptsAny(data, len) == TRUE

Accepts(data, len) == Len(data) = len

(* get_bytes, for a range a footer gave; the parquet crate checks it       *)
(* against the size.                                                       *)
GetBytes ==
  /\ Open
  /\ stream.state # "open"
  /\ stream' = NoStream
  /\ \E at \in 0..reader.size : \E len \in 0..(reader.size - at) :
       /\ Ask(at, len)
       /\ \/ \E data \in Answers(reader.adapter, file, at, len) :
               /\ Accepts(data, len)
               /\ reply' = [ok |-> TRUE, at |-> at, len |-> len, data |-> data]
          \/ reply' = [ok |-> FALSE, at |-> at, len |-> len, data |-> <<>>]
  /\ UNCHANGED <<file, reader, seen>>

Next == \/ OpenShard \/ DropIndex \/ Replace
        \/ GetRead \/ ReadEnd \/ ReadSome \/ ReadFails \/ GetBytes

Read == ReadEnd \/ ReadSome \/ ReadFails

Spec == Init /\ [][Next]_vars

(* The owner of a stream reads on until the end or an error. *)
FairSpec == Spec /\ WF_vars(Read)
-----------------------------------------------------------------------------
(* The bytes of a stream are the bytes of the shard from its start on,     *)
(* none skipped, repeated or out of place, whatever lengths the adapter    *)
(* answers with.  If the shard was replaced, each byte is from where it    *)
(* belongs in one of the contents since the index was built.               *)
StreamFollowsShard ==
  \A i \in 1..Len(stream.got) :
    \E c \in seen : /\ stream.start + i <= Len(c)
                    /\ stream.got[i] = c[stream.start + i]

(* get_bytes gives the whole range it was asked for or an error, and never *)
(* a piece of one content next to a piece of another, nor bytes that do    *)
(* not exist.                                                              *)
RangeIsWhole ==
  reply.ok =>
    /\ Len(reply.data) = reply.len
    /\ \E c \in seen : \A i \in 1..reply.len :
         reply.at + i <= Len(c) /\ reply.data[i] = c[reply.at + i]

(* From the local adapter a stream ends at the size the index knows and    *)
(* nowhere else; with StreamFollowsShard this makes it the tail of a shard *)
(* that was not replaced.                                                  *)
EndIsTheEnd ==
  (stream.state = "eof" /\ reader.adapter = "local") =>
    Len(stream.got) = reader.size - stream.start

(* "callers never request past EOF" (adapters.py:6). *)
NeverPastEof == asked.to <= asked.end

(* That holds as long as the shard contains what it did when its size was  *)
(* read, so neither the size of a buffer nor a short answer leads past the *)
(* end.                                                                    *)
InsideUntilReplaced == seen = {file} => NeverPastEof

(* A stream ends, however little the adapter gives at a time. *)
StreamEnds == stream.state = "open" ~> stream.state # "open"
=============================================================================
