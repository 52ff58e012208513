--------------------------- MODULE AtomicOutput ---------------------------
(***************************************************************************)
(* What a pack call promises to everyone who looks at its output file.     *)
(*                                                                         *)
(* A call either publishes, in one step, the shard that holds exactly the  *)
(* rows it was given, or returns an error and has not touched the output;  *)
(* rows that make no shard (none at all, or a path twice) are an error.    *)
(* A killed call may have done either, never something in between.  This   *)
(* is the contract of write_pairs, pack_files, pack_glob and pack_archive. *)
(***************************************************************************)
CONSTANTS
  Packers,    \* who may run a pack call
  Outs,       \* the output files
  Requests,   \* the row sequences a call may be asked to store
  Valid,      \* those it has to accept: not empty, no path twice
  NoOrder,    \* the order of a packer that runs no call
  Absent      \* there is no file under that name

VARIABLES
  visible,    \* visible[o]: the rows a reader of o finds, or Absent
  phase,      \* phase[p]: "idle", "running" or "published"
  order       \* order[p]: what p is asked for

avars == <<visible, phase, order>>

Order == [out : Outs, rows : Requests]

AInit ==
  /\ visible = [o \in Outs |-> Absent]
  /\ phase = [p \in Packers |-> "idle"]
  /\ order = [p \in Packers |-> NoOrder]

Accept(p) ==
  /\ phase[p] = "idle"
  /\ \E c \in Order : order' = [order EXCEPT ![p] = c]
  /\ phase' = [phase EXCEPT ![p] = "running"]
  /\ UNCHANGED visible

Publish(p) ==
  /\ phase[p] = "running"
  /\ order[p].rows \in Valid
  /\ visible' = [visible EXCEPT ![order[p].out] = order[p].rows]
  /\ phase' = [phase EXCEPT ![p] = "published"]
  /\ UNCHANGED order

(* Ok from "published", an error from "running", either when killed. *)
Leave(p) ==
  /\ phase[p] # "idle"
  /\ phase' = [phase EXCEPT ![p] = "idle"]
  /\ order' = [order EXCEPT ![p] = NoOrder]
  /\ UNCHANGED visible

ANext == \E p \in Packers : Accept(p) \/ Publish(p) \/ Leave(p)

ASpec == AInit /\ [][ANext]_avars
=============================================================================
