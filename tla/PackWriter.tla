---------------------------- MODULE PackWriter ----------------------------
(***************************************************************************)
(* Pack calls (crates/core/src/pack.rs) over a shared directory.           *)
(*                                                                         *)
(* A call gathers its inputs, creates `out.tmp`, streams one row per input *)
(* into a parquet writer, flushes it whenever enough content is buffered,  *)
(* closes it (which writes the footer), renames the temp file over `out`,  *)
(* and finally runs PackWriter's Drop, which tries to remove the temp file *)
(* on every path.  Each step that touches the directory or the file is an  *)
(* action, so calls interleave where system calls do.                      *)
(*                                                                         *)
(* The file system (names, inodes, offsets) and the parquet writer are     *)
(* external: they are modelled by what the code relies on.  A file is a    *)
(* sequence of blocks, one per row group and one for the footer, and every *)
(* open handle has its own write position.                                 *)
(***************************************************************************)
EXTENDS Naturals, Sequences

CONSTANTS
  Packers,     \* threads or processes that may run a pack call
  Outs,        \* output paths callers name
  TmpOf,       \* TmpOf[o] is the sibling `o.tmp`
  Inodes,      \* file system objects: enough of them for every open file
  Paths,       \* stored paths, numbered in lexicographic order
  Sizes,       \* content lengths
  Inputs,      \* what a call may gather: sequences of regular-file entries
  MaxPending,  \* opts.max_row_group_bytes.max(1)
  MaxRows,     \* the parquet writer's own limit: 1,048,576 rows in a row group
  SharedOut,   \* may two live calls name the same output?
  NoFile,      \* a name that is not linked
  NoCall,      \* the call of an idle packer
  NoWriter     \* no PackWriter exists

Entry == [path : Paths, size : Sizes]
Names == Outs \cup {TmpOf[o] : o \in Outs}

ASSUME NamesAssumption ==
  /\ TmpOf \in [Outs -> Names \ Outs]
  /\ \A o, q \in Outs : TmpOf[o] = TmpOf[q] => o = q
  /\ NoFile \notin Inodes

ASSUME DataAssumption ==
  /\ Paths \subseteq Nat
  /\ Sizes \subseteq Nat
  /\ Inputs \subseteq Seq(Entry)
  /\ MaxPending \in Nat \ {0}
  /\ MaxRows \in Nat \ {0}
  /\ SharedOut \in BOOLEAN

VARIABLES
  link,      \* the directory: link[n] is the inode of name n, or NoFile
  data,      \* data[i]: the blocks of inode i
  pc,        \* where each packer is
  call,      \* the arguments of each running call, after gathering
  w,         \* its PackWriter, from create to drop
  result,    \* what the call will return, once that is decided
  orphaned   \* history: outputs whose temp file a kill or a failed removal left

vars == <<link, data, pc, call, w, result, orphaned>>
-----------------------------------------------------------------------------
(* Blocks, and the file a reader can open. *)

Group(rows, from, to) == [kind |-> "group", rows |-> SubSeq(rows, from, to)]
Footer(rows, cuts)    == [kind |-> "footer", rows |-> rows, cuts |-> cuts]
Hole                  == [kind |-> "hole"]   \* zeros a sparse write leaves

Block == [kind : {"group"}, rows : Seq(Entry)]
         \cup [kind : {"footer"}, rows : Seq(Entry), cuts : Seq(Nat)]
         \cup {Hole}

LastCut(cuts)      == IF cuts = <<>> THEN 0 ELSE cuts[Len(cuts)]
GroupStart(cuts, i) == IF i = 1 THEN 1 ELSE cuts[i - 1] + 1

(* The first Len(cuts) blocks of c are the row groups of rows cut at cuts. *)
HoldsGroups(c, rows, cuts) ==
  \A i \in 1..Len(cuts) : c[i] = Group(rows, GroupStart(cuts, i), cuts[i])

(* A complete shard: a footer at the end, and at the place of every row    *)
(* group the footer names exactly that group, with no row left out.        *)
Whole(c) ==
  /\ c # <<>>
  /\ LET f == c[Len(c)] IN
       /\ f.kind = "footer"
       /\ Len(c) = Len(f.cuts) + 1
       /\ LastCut(f.cuts) = Len(f.rows)
       /\ HoldsGroups(c, f.rows, f.cuts)

RowsOf(c) == c[Len(c)].rows

(* write(2) at position k: overwrites, extends, or leaves a hole. *)
WriteAt(c, k, b) ==
  [i \in 1..(IF k > Len(c) THEN k ELSE Len(c)) |->
     IF i = k THEN b ELSE IF i <= Len(c) THEN c[i] ELSE Hole]
-----------------------------------------------------------------------------
Modes == {"pairs", "archive"}   \* write_pairs, or a pack_archive entry loop
Calls == [mode : Modes, out : Outs, input : Inputs]

Writer == [ino : Inodes, pos : Nat \ {0}, rows : Seq(Entry), cuts : Seq(Nat),
           pending : Nat, seen : SUBSET Paths, files : Nat, bytes : Nat]

NewWriter(i) == [ino |-> i, pos |-> 1, rows |-> <<>>, cuts |-> <<>>,
                 pending |-> 0, seen |-> {}, files |-> 0, bytes |-> 0]

(* Fault: the shard is written in place. *)
TmpIsOut(p) == call[p].out

Tmp(p)  == TmpOf[call[p].out]
Live(p) == pc[p] # "idle"
Open(p) == pc[p] \notin {"idle", "create"}   \* p owns a PackWriter

(* A file lives while it has a name or an open handle. *)
Used(i) == \/ \E n \in Names : link[n] = i
           \/ \E p \in Packers : Open(p) /\ w[p].ino = i

(* The step removes names or handles: unused files are gone after it. *)
Reap == data' = [i \in Inodes |-> IF Used(i)' THEN data[i] ELSE <<>>]

Ordered(s) == \A i, j \in 1..Len(s) : i < j => s[i].path <= s[j].path

TypeOK ==
  /\ link \in [Names -> Inodes \cup {NoFile}]
  /\ data \in [Inodes -> Seq(Block)]
  /\ pc \in [Packers -> {"idle", "create", "append", "flush", "finish", "close",
                        "rename", "drop"}]
  /\ call \in [Packers -> Calls \cup {NoCall}]
  /\ w \in [Packers -> Writer \cup {NoWriter}]
  /\ result \in [Packers -> {"none", "ok", "err"}]
  /\ orphaned \in SUBSET Outs

Init ==
  /\ link = [n \in Names |-> NoFile]
  /\ data = [i \in Inodes |-> <<>>]
  /\ pc = [p \in Packers |-> "idle"]
  /\ call = [p \in Packers |-> NoCall]
  /\ w = [p \in Packers |-> NoWriter]
  /\ result = [p \in Packers |-> "none"]
  /\ orphaned = {}
-----------------------------------------------------------------------------
Return(p) ==
  /\ pc' = [pc EXCEPT ![p] = "idle"]
  /\ call' = [call EXCEPT ![p] = NoCall]
  /\ w' = [w EXCEPT ![p] = NoWriter]
  /\ result' = [result EXCEPT ![p] = "none"]

(* pack_files and pack_glob gather (stored path, source) pairs, refuse an  *)
(* empty list and sort it, so the traversal order does not matter;         *)
(* pack_archive takes the entries as the archive orders them.  Directories *)
(* and other non-file entries are skipped while gathering or looping.      *)
Begin(p) ==
  /\ pc[p] = "idle"
  /\ \E c \in Calls :
       /\ c.mode = "pairs" => c.input # <<>> /\ Ordered(c.input)
       /\ SharedOut \/ \A q \in Packers : Live(q) => call[q].out # c.out
       /\ call' = [call EXCEPT ![p] = c]
  /\ pc' = [pc EXCEPT ![p] = "create"]
  /\ UNCHANGED <<link, data, w, result, orphaned>>

(* Stat, root, glob, sniffing or File::create failed: there is no writer   *)
(* yet, so there is no Drop.                                               *)
Refuse(p) ==
  /\ pc[p] = "create"
  /\ Return(p)
  /\ UNCHANGED <<link, data, orphaned>>

(* PackWriter::create.  File::create truncates the inode already linked    *)
(* under the temp name, if there is one.  When ArrowWriter::try_new then   *)
(* fails, create removes the temp file itself, as Drop does.               *)
Create(p) ==
  /\ pc[p] = "create"
  /\ \E i \in Inodes :
       /\ IF link[Tmp(p)] = NoFile THEN ~Used(i) ELSE i = link[Tmp(p)]
       /\ link' = [link EXCEPT ![Tmp(p)] = i]
       /\ data' = [data EXCEPT ![i] = <<>>]
       /\ w' = [w EXCEPT ![p] = NewWriter(i)]
  /\ \/ /\ pc' = [pc EXCEPT ![p] = "append"]
        /\ UNCHANGED result
     \/ /\ pc' = [pc EXCEPT ![p] = "drop"]
        /\ result' = [result EXCEPT ![p] = "err"]
  /\ orphaned' = orphaned \ {call[p].out}
  /\ UNCHANGED call
-----------------------------------------------------------------------------
MoreInput(p) == w[p].files < Len(call[p].input)
NextEntry(p) == call[p].input[w[p].files + 1]

(* How far a row group cut now reaches: over all buffered rows, or over as *)
(* many of them as the parquet writer puts into one.                       *)
Buffered(v) == LastCut(v.cuts) < Len(v.rows)
GroupEnd(v) ==
  IF Len(v.rows) > LastCut(v.cuts) + MaxRows THEN LastCut(v.cuts) + MaxRows
  ELSE Len(v.rows)

(* Faults: the next block goes where the row group went; the count of      *)
(* pending bytes is not reset.                                             *)
CutInPlace(v) ==
  [v EXCEPT !.cuts = Append(@, GroupEnd(v)),
            !.pending = IF GroupEnd(v) = Len(v.rows) THEN 0 ELSE @]
CutKeepsPending(v) ==
  [v EXCEPT !.pos = @ + 1, !.cuts = Append(@, GroupEnd(v))]

(* One row group of a flush.  flush_row_group sets `pending` to 0 when the *)
(* parquet writer has taken all of them.                                   *)
Cut(v) ==
  [v EXCEPT !.pos = @ + 1, !.cuts = Append(@, GroupEnd(v)),
            !.pending = IF GroupEnd(v) = Len(v.rows) THEN 0 ELSE @]

CutBlock(v, c) ==
  WriteAt(c, v.pos, Group(v.rows, LastCut(v.cuts) + 1, GroupEnd(v)))

(* Fault: the path is not remembered. *)
AddUnseen(v, e) ==
  [v EXCEPT !.rows = Append(@, e),
            !.pending = @ + e.size, !.files = @ + 1, !.bytes = @ + e.size]

(* PackWriter::append after its duplicate check. *)
Add(v, e) ==
  [v EXCEPT !.rows = Append(@, e), !.seen = @ \cup {e.path},
            !.pending = @ + e.size, !.files = @ + 1, !.bytes = @ + e.size]

AppendRow(p) ==
  /\ pc[p] = "append"
  /\ MoreInput(p)
  /\ NextEntry(p).path \notin w[p].seen
  /\ LET v == Add(w[p], NextEntry(p)) IN
       /\ w' = [w EXCEPT ![p] = v]
       /\ pc' = [pc EXCEPT ![p] = IF v.pending >= MaxPending THEN "flush" ELSE @]
  /\ UNCHANGED <<link, data, call, result, orphaned>>

(* flush_row_group, from append ("flush") or from finish ("finish"): the   *)
(* parquet writer writes the buffered rows as one row group after another. *)
WriteGroup(p) ==
  /\ pc[p] \in {"flush", "finish"}
  /\ LET v == Cut(w[p]) IN
       /\ w' = [w EXCEPT ![p] = v]
       /\ pc' = [pc EXCEPT ![p] = IF Buffered(v) THEN @
                                 ELSE IF @ = "flush" THEN "append" ELSE "close"]
  /\ data' = [data EXCEPT ![w[p].ino] = CutBlock(w[p], @)]
  /\ UNCHANGED <<link, call, result, orphaned>>

(* The call fails: the stored path was seen before, the archive held no    *)
(* file, the rename found no temp file, or any read or write on the way    *)
(* failed.  PackWriter is dropped next.                                    *)
Fail(p) ==
  /\ pc' = [pc EXCEPT ![p] = "drop"]
  /\ result' = [result EXCEPT ![p] = "err"]
  /\ UNCHANGED <<link, data, call, w, orphaned>>

IoError(p) == pc[p] \in {"append", "flush", "finish", "close", "rename"} /\ Fail(p)

RejectDuplicate(p) ==
  /\ pc[p] = "append"
  /\ MoreInput(p)
  /\ NextEntry(p).path \in w[p].seen
  /\ Fail(p)

EmptyArchive(p) ==
  /\ pc[p] = "append"
  /\ ~MoreInput(p)
  /\ call[p].mode = "archive" /\ w[p].files = 0
  /\ Fail(p)

(* Fault: an archive without files is finished, too. *)
FinishAnything(p) ==
  /\ pc[p] = "append"
  /\ ~MoreInput(p)
  /\ pc' = [pc EXCEPT ![p] = IF Buffered(w[p]) THEN "finish" ELSE "close"]
  /\ UNCHANGED <<link, data, call, w, result, orphaned>>

(* finish: what is still buffered is flushed before the writer is closed.  *)
FinishFlush(p) ==
  /\ pc[p] = "append"
  /\ ~MoreInput(p)
  /\ ~(call[p].mode = "archive" /\ w[p].files = 0)
  /\ pc' = [pc EXCEPT ![p] = IF Buffered(w[p]) THEN "finish" ELSE "close"]
  /\ UNCHANGED <<link, data, call, w, result, orphaned>>

(* finish: ArrowWriter::close writes the footer. *)
Close(p) ==
  /\ pc[p] = "close"
  /\ data' = [data EXCEPT ![w[p].ino] =
                WriteAt(@, w[p].pos, Footer(w[p].rows, w[p].cuts))]
  /\ pc' = [pc EXCEPT ![p] = "rename"]
  /\ UNCHANGED <<link, call, w, result, orphaned>>

(* Fault: the temp name stays, as it does after a copy. *)
RenameAsLink(p) ==
  /\ pc[p] = "rename"
  /\ link[Tmp(p)] # NoFile
  /\ link' = [link EXCEPT ![call[p].out] = link[Tmp(p)]]
  /\ pc' = [pc EXCEPT ![p] = "drop"]
  /\ result' = [result EXCEPT ![p] = "ok"]
  /\ UNCHANGED <<call, w, orphaned>>
  /\ Reap

(* finish: rename(2) replaces whatever was linked under `out`. *)
Rename(p) ==
  /\ pc[p] = "rename"
  /\ link[Tmp(p)] # NoFile
  /\ link' = [link EXCEPT ![call[p].out] = link[Tmp(p)], ![Tmp(p)] = NoFile]
  /\ pc' = [pc EXCEPT ![p] = "drop"]
  /\ result' = [result EXCEPT ![p] = "ok"]
  /\ UNCHANGED <<call, w, orphaned>>
  /\ Reap

(* Fault: the temp file stays though its removal would not have failed.    *)
DropKeepsTmp(p) ==
  /\ pc[p] = "drop"
  /\ Return(p)
  /\ UNCHANGED <<link, orphaned>>
  /\ Reap

(* Drop closes the handle and unlinks the temp name, whoever owns it now.  *)
(* The removal may fail; its error is thrown away, and the call returns    *)
(* what was decided.                                                       *)
Drop(p) ==
  /\ pc[p] = "drop"
  /\ \/ /\ link' = [link EXCEPT ![Tmp(p)] = NoFile]
        /\ orphaned' = orphaned \ {call[p].out}
     \/ /\ link[Tmp(p)] # NoFile
        /\ orphaned' = orphaned \cup {call[p].out}
        /\ UNCHANGED link
  /\ Return(p)
  /\ Reap

(* The process is killed: no Drop runs, the directory stays as it is. *)
Kill(p) ==
  /\ Live(p)
  /\ Return(p)
  /\ orphaned' = IF Open(p) /\ link[Tmp(p)] # NoFile
                 THEN orphaned \cup {call[p].out} ELSE orphaned
  /\ UNCHANGED link
  /\ Reap

Step(p) ==
  \/ Begin(p) \/ Refuse(p) \/ Create(p)
  \/ AppendRow(p) \/ WriteGroup(p) \/ RejectDuplicate(p) \/ EmptyArchive(p)
  \/ IoError(p) \/ FinishFlush(p) \/ Close(p) \/ Rename(p) \/ Drop(p) \/ Kill(p)

Next == \E p \in Packers : Step(p)

Spec == Init /\ [][Next]_vars
-----------------------------------------------------------------------------
(* What a reader of o finds. *)
Seen(o) == IF link[o] = NoFile THEN <<>> ELSE data[link[o]]

(* Whoever opens an output finds a complete shard, whatever calls are      *)
(* running, failing or killed, and whatever a killed call left in the temp *)
(* file this call wrote over.                                              *)
OutAlwaysWhole == \A o \in Outs : link[o] # NoFile => Whole(data[link[o]])

Distinct(s) == \A i, j \in 1..Len(s) : s[i].path = s[j].path => i = j

(* Where content lies in rows: Offsets(rows)[n] bytes in the first n.      *)
Offsets(rows) ==
  LET f[n \in 0..Len(rows)] == IF n = 0 THEN 0 ELSE f[n - 1] + rows[n].size IN f

Total(rows)        == Offsets(rows)[Len(rows)]
Bytes(rows, from, to) == Offsets(rows)[to] - Offsets(rows)[from - 1]

(* A call that returns Ok has stored exactly the rows it gathered, in that *)
(* order, none of them twice and at least one, and its summary counts them *)
(* and their bytes right.                                                  *)
PublishedIsRequest ==
  \A p \in Packers : pc[p] = "drop" /\ result[p] = "ok" =>
    /\ link[call[p].out] = w[p].ino
    /\ Whole(data[w[p].ino])
    /\ RowsOf(data[w[p].ino]) = call[p].input
    /\ w[p].files = Len(call[p].input)
    /\ w[p].bytes = Total(call[p].input)
    /\ call[p].input # <<>>
    /\ Distinct(call[p].input)

(* Group g is as large as the parquet writer lets it be. *)
FullOfRows(cuts, g) == cuts[g] + 1 = GroupStart(cuts, g) + MaxRows

(* A flush ends with group g.  It began with group h, all but the last of  *)
(* its groups are full of rows, and its rows reach the limit, but do not   *)
(* without the last one.                                                   *)
EndsFlush(rows, cuts, g) ==
  \E h \in 1..g :
    /\ \A i \in h..(g - 1) : FullOfRows(cuts, i)
    /\ Bytes(rows, GroupStart(cuts, h), cuts[g]) >= MaxPending
    /\ Bytes(rows, GroupStart(cuts, h), cuts[g] - 1) < MaxPending

(* Row groups that end where a flush ends or the parquet writer's limit is *)
(* met, but for the last, and of which none goes on after a row with which *)
(* it reached either limit.                                                *)
SplitAtThreshold(rows, cuts) ==
  \A g \in 1..Len(cuts) :
    /\ g < Len(cuts) => FullOfRows(cuts, g) \/ EndsFlush(rows, cuts, g)
    /\ cuts[g] < GroupStart(cuts, g) + MaxRows
    /\ Bytes(rows, GroupStart(cuts, g), cuts[g] - 1) < MaxPending

(* "Flush a row group once buffered content reaches this many bytes": so   *)
(* are the row groups of a published shard, and reading one costs at most  *)
(* one row more than the limit.                                            *)
GroupsSplitAtThreshold ==
  \A o \in Outs : link[o] # NoFile =>
    LET f == data[link[o]][Len(data[link[o]])] IN SplitAtThreshold(f.rows, f.cuts)

(* A temp file exists only while its call is running, after a kill, or     *)
(* after a removal that failed: every other return, Ok or Err, has removed *)
(* it, and the next call that names the output takes the file over.        *)
TmpHasOwner ==
  \A o \in Outs : link[TmpOf[o]] # NoFile =>
    o \in orphaned \/ \E p \in Packers : Open(p) /\ call[p].out = o

(* What readers see under an output changes only by a rename onto it: no   *)
(* write, failure, kill or cleanup of any call shows ("on any error before *)
(* finish() [...] `out` is left untouched").                               *)
OutChangesOnlyByRename ==
  [][\A o \in Outs : Seen(o)' # Seen(o) =>
       \E p \in Packers : Rename(p) /\ call[p].out = o]_vars

(* After a successful finish, Drop "becomes a best-effort no-op": it       *)
(* removes no file, as long as no other call has made one by that name.    *)
DropAfterFinishIsNoop ==
  [][\A p \in Packers : Drop(p) /\ result[p] = "ok" => link' = link]_vars

(* The refinement mapping. *)
Visible == [o \in Outs |-> IF link[o] = NoFile THEN NoFile ELSE RowsOf(data[link[o]])]

Phase == [p \in Packers |->
            IF pc[p] = "idle" THEN "idle"
            ELSE IF pc[p] = "drop" /\ result[p] = "ok" THEN "published"
            ELSE "running"]

Asked == [p \in Packers |->
            IF Live(p) THEN [out |-> call[p].out, rows |-> call[p].input]
            ELSE NoCall]

Acceptable == {s \in Inputs : s # <<>> /\ Distinct(s)}

Abstract == INSTANCE AtomicOutput WITH
  Requests <- Inputs, Valid <- Acceptable, Absent <- NoFile, NoOrder <- NoCall,
  visible <- Visible, phase <- Phase, order <- Asked

(* Every behaviour of the pack calls is one of the atomic output: the      *)
(* rename is the single step in which a call takes effect.                 *)
AtomicOutputSpec == Abstract!ASpec
=============================================================================
