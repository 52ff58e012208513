---------------------------- MODULE ShardIndex ----------------------------
(***************************************************************************)
(* build_index (crates/core/src/index.rs): from a list of sources to the   *)
(* map of virtual files to row locations and the set of directories.       *)
(*                                                                         *)
(* It is one sequential loop nest, modelled a step at a time: expand the   *)
(* sources into shard urls; for each shard find the columns, add up the    *)
(* row group offsets, and file the rows one by one under the duplicate     *)
(* policy; then derive the directories from the files.  Every call of an   *)
(* adapter or of the parquet reader may fail, which ends the build with an *)
(* error and drops the index.  The parquet reader delivers the rows of the *)
(* row groups in order; the code never asks it where a row lies but works  *)
(* that out from a running count, which is what the invariants test.       *)
(*                                                                         *)
(* A path is the sequence of its segments, "" the empty one: "/a//b" is    *)
(* <<"", "a", "", "b">>.  Shards, row groups and rows count from 1.        *)
(***************************************************************************)
EXTENDS Naturals, Sequences, PathSegments

CONSTANTS
  Urls,
  Segments,    \* nonempty path segments
  RawPaths,    \* values of a path column
  NullPath,    \* a null in a path column
  Names,       \* column names
  Lower,       \* Lower[n]: column name n in ASCII lower case
  Unset,       \* path_column=None, content_column=None
  NoFile,      \* what a url is that is no readable parquet file
  Inputs       \* calls of build_index, with the storage they find

Fields == [name : Names, text : BOOLEAN]
Shards == [fields : Seq(Fields),
           groups : Seq(Seq(RawPaths \cup {NullPath}))]

(* sources[i] is what listing the i-th source gives. *)
Builds == [sources        : Seq(Seq(Urls)),
           store          : [Urls -> Shards \cup {NoFile}],
           path_column    : Names \cup {Unset},
           content_column : Names \cup {Unset},
           on_duplicate   : {"error", "first", "last"}]

ASSUME InputAssumption == Inputs \subseteq Builds

(* normalize: drops the empty segments. *)
Normalize(raw) == Without(raw, {""})

ASSUME PathAssumption ==
  /\ NullPath \notin RawPaths
  /\ NoFile \notin Shards
  /\ RawPaths \subseteq Seq(Segments \cup {""})

VARIABLES
  input,     \* arguments and storage
  pc,
  expanded,  \* sources listed so far
  urls,      \* the shard urls they gave
  shards,    \* index.shards
  acc,       \* rows in the row groups whose offset is known
  at,        \* the parquet reader: the row it delivers next
  global,    \* rows of this shard indexed so far
  files,     \* index.files, a function from normalized paths to locations
  dirs,      \* index.dirs
  todo       \* files whose parents are not in dirs yet

vars == <<input, pc, expanded, urls, shards, acc, at, global, files, dirs, todo>>

Locations == [shard : Nat, row_group : Nat, row : Nat]
Opened    == [url : Urls, path_col : Nat, content_col : Nat,
              extra_cols : SUBSET Nat, row_group_offsets : Seq(Nat)]
Ended     == {"done", "failed", "duplicate"}

TypeOK ==
  /\ input \in Builds
  /\ pc \in {"next", "groups", "rows", "dirs"} \cup Ended
  /\ expanded \in 0..Len(input.sources)
  /\ urls \in Seq(Urls)
  /\ shards \in Seq(Opened)
  /\ acc \in Nat
  /\ at \in [row_group : Nat, row : Nat]
  /\ global \in Nat
  /\ DOMAIN files \subseteq Seq(Segments)
  /\ \A p \in DOMAIN files : files[p] \in Locations
  /\ dirs \subseteq Seq(Segments)
  /\ todo \subseteq DOMAIN files

Init ==
  /\ input \in Inputs
  /\ pc = "next"
  /\ expanded = 0
  /\ urls = <<>>
  /\ shards = <<>>
  /\ acc = 0
  /\ at = [row_group |-> 1, row |-> 1]
  /\ global = 0
  /\ files = [p \in {} |-> 0]
  /\ dirs = {}
  /\ todo = {}
-----------------------------------------------------------------------------
PathNames    == <<"path", "filename", "file_name", "key">>
ContentNames == <<"content", "data", "bytes">>

(* position: the least of a set of indices, 0 if it is empty. *)
First(S) == IF S = {} THEN 0 ELSE CHOOSE i \in S : \A j \in S : i <= j

(* detect_column: the named column, compared exactly, or the first of the  *)
(* usual names that some column has, in any case; 0 if there is none.      *)
Detect(fields, candidates, explicit) ==
  LET Called(n) == First({i \in 1..Len(fields) : fields[i].name = n})
      Like(n)   == First({i \in 1..Len(fields) : Lower[fields[i].name] = n})
      c         == First({k \in 1..Len(candidates) : Like(candidates[k]) # 0})
  IN  IF explicit # Unset THEN Called(explicit)
      ELSE IF c = 0 THEN 0 ELSE Like(candidates[c])

(* Fault: a search that stops at the first of several equal offsets. *)
FirstNotAfter(s, x) ==
  CHOOSE n \in 1..Len(s) : /\ s[n] <= x
                           /\ \A k \in 1..(n - 1) : s[k] < s[n]
                           /\ \A k \in (n + 1)..Len(s) : s[k] = s[n] \/ s[k] > x

(* partition_point of a sorted sequence. *)
PartitionPoint(s, x) ==
  CHOOSE n \in 0..Len(s) : /\ \A k \in 1..n : s[k] <= x
                           /\ \A k \in (n + 1)..Len(s) : s[k] > x

Locate(shard, offsets, n) ==
  LET g == PartitionPoint(offsets, n)
  IN  [shard |-> shard, row_group |-> g, row |-> n - offsets[g] + 1]

(* The parent directories of a path. *)
Parents(p) == {SubSeq(p, 1, n) : n \in 1..(Len(p) - 1)}

(* Fault: the last shard is left out. *)
AllOpenedButOne == expanded = Len(input.sources) /\ Len(shards) + 1 >= Len(urls)

Current    == Len(shards)
FileOf(s)  == input.store[shards[s].url]
Groups     == FileOf(Current).groups
Offsets    == shards[Current].row_group_offsets
AllListed  == expanded = Len(input.sources)
AllOpened  == AllListed /\ Len(shards) = Len(urls)
HasRow     == at.row_group <= Len(Groups) /\ at.row <= Len(Groups[at.row_group])
Raw        == Groups[at.row_group][at.row]
IsText     == FileOf(Current).fields[shards[Current].path_col].text
Fail(kind) ==
  pc' = kind /\ UNCHANGED <<input, expanded, urls, shards, acc, at, global,
                            files, dirs, todo>>
-----------------------------------------------------------------------------
(* A source that lists nothing is an error. *)
Expand ==
  /\ pc = "next" /\ ~AllListed
  /\ LET found == input.sources[expanded + 1] IN
     \/ found = <<>> /\ Fail("failed")
     \/ /\ found # <<>>
        /\ urls' = urls \o found
        /\ expanded' = expanded + 1
        /\ UNCHANGED <<input, pc, shards, acc, at, global, files, dirs, todo>>

(* Size and footer are read and the columns chosen. *)
OpenShard ==
  /\ pc = "next" /\ AllListed /\ ~AllOpened
  /\ LET url     == urls[Len(shards) + 1]
         file    == input.store[url]
         path    == Detect(file.fields, PathNames, input.path_column)
         content == Detect(file.fields, ContentNames, input.content_column)
     IN
     /\ file # NoFile
     /\ \/ (0 \in {path, content} \/ path = content) /\ Fail("failed")
        \/ /\ 0 \notin {path, content} /\ path # content
           /\ shards' = Append(shards,
                [url |-> url, path_col |-> path, content_col |-> content,
                 extra_cols |-> (1..Len(file.fields)) \ {path, content},
                 row_group_offsets |-> <<>>])
           /\ acc' = 0
           /\ at' = [row_group |-> 1, row |-> 1]
           /\ pc' = "groups"
           /\ UNCHANGED <<input, expanded, urls, global, files, dirs, todo>>

AddGroup ==
  /\ pc = "groups" /\ Len(Offsets) < Len(Groups)
  /\ shards' = [shards EXCEPT ![Current].row_group_offsets = Append(@, acc)]
  /\ acc' = acc + Len(Groups[Len(Offsets) + 1])
  /\ UNCHANGED <<input, pc, expanded, urls, at, global, files, dirs, todo>>

ReadRows ==
  /\ pc = "groups" /\ Len(Offsets) = Len(Groups)
  /\ global' = 0
  /\ pc' = "rows"
  /\ UNCHANGED <<input, expanded, urls, shards, acc, at, files, dirs, todo>>

(* Fault: every policy refuses a duplicate. *)
AddFileOnce(norm, loc) ==
  IF norm \in DOMAIN files THEN pc' = "duplicate" /\ UNCHANGED files
  ELSE /\ files' = [p \in DOMAIN files \cup {norm} |->
                      IF p = norm THEN loc ELSE files[p]]
       /\ pc' = pc

(* The entry of a row goes in, or meets an older one of its path. *)
AddFile(norm, loc) ==
  \/ /\ norm \notin DOMAIN files \/ input.on_duplicate = "last"
     /\ files' = [p \in DOMAIN files \cup {norm} |->
                    IF p = norm THEN loc ELSE files[p]]
     /\ pc' = pc
  \/ norm \in DOMAIN files /\ input.on_duplicate = "first"
     /\ UNCHANGED <<files, pc>>
  \/ norm \in DOMAIN files /\ input.on_duplicate = "error"
     /\ pc' = "duplicate" /\ UNCHANGED files

(* A row.  No row may have an empty path. *)
IndexRow ==
  /\ pc = "rows" /\ HasRow
  /\ IsText /\ Raw # NullPath
  /\ LET norm == Normalize(Raw)
         loc  == Locate(Current, Offsets, global)
     IN  \/ norm # <<>> /\ AddFile(norm, loc)
         \/ norm = <<>> /\ pc' = "failed" /\ UNCHANGED files
  /\ global' = global + 1
  /\ at' = [at EXCEPT !.row = @ + 1]
  /\ UNCHANGED <<input, expanded, urls, shards, acc, dirs, todo>>

(* path_strings refuses a batch with a null, or of another type than text, *)
(* before it files any row of the batch.  The reader chooses the batches.  *)
BadBatch ==
  /\ pc = "rows" /\ HasRow
  /\ \/ ~IsText
     \/ \E g \in at.row_group..Len(Groups) : \E r \in 1..Len(Groups[g]) :
          /\ Groups[g][r] = NullPath
          /\ g > at.row_group \/ r >= at.row
  /\ Fail("failed")

(* The parquet reader goes on to its next row group. *)
NextGroup ==
  /\ pc = "rows" /\ ~HasRow /\ at.row_group < Len(Groups)
  /\ at' = [row_group |-> at.row_group + 1, row |-> 1]
  /\ UNCHANGED <<input, pc, expanded, urls, shards, acc, global, files, dirs, todo>>

EndShard ==
  /\ pc = "rows" /\ ~HasRow /\ at.row_group >= Len(Groups)
  /\ pc' = "next"
  /\ UNCHANGED <<input, expanded, urls, shards, acc, at, global, files, dirs, todo>>

DeriveDirs ==
  /\ pc = "next" /\ AllOpened
  /\ pc' = "dirs"
  /\ todo' = DOMAIN files
  /\ UNCHANGED <<input, expanded, urls, shards, acc, at, global, files, dirs>>

(* Fault: the climb ends after one parent. *)
NearestParent(k) == {d \in Parents(k) : Len(d) = Len(k) - 1}

(* The climb inserts the parents from the longest up to the first one that *)
(* is already there.                                                       *)
NewParents(k) ==
  {d \in Parents(k) : \A e \in Parents(k) \cap dirs : Len(e) < Len(d)}

(* The order of the files is left open: the outcome must not depend on it. *)
AddParents(k) ==
  /\ pc = "dirs" /\ k \in todo
  /\ dirs' = dirs \cup NewParents(k)
  /\ todo' = todo \ {k}
  /\ UNCHANGED <<input, pc, expanded, urls, shards, acc, at, global, files>>

Finish ==
  /\ pc = "dirs" /\ todo = {}
  /\ pc' = "done"
  /\ UNCHANGED <<input, expanded, urls, shards, acc, at, global, files, dirs, todo>>

(* resolve, list, size, the footer, the reader or a batch of rows fails. *)
IoError ==
  /\ (pc = "rows" /\ HasRow) \/ (pc = "next" /\ ~AllOpened)
  /\ Fail("failed")

Terminated == pc \in Ended /\ UNCHANGED vars

Step ==
  \/ Expand \/ OpenShard \/ AddGroup \/ ReadRows
  \/ IndexRow \/ BadBatch \/ NextGroup \/ EndShard
  \/ DeriveDirs \/ (\E k \in todo : AddParents(k)) \/ Finish
  \/ IoError

Next == Step \/ Terminated

Spec == Init /\ [][Next]_vars
-----------------------------------------------------------------------------
(* The rows the reader has delivered, in the order it delivers them. *)
RowsIn(s)     == UNION {{[shard |-> s, row_group |-> g, row |-> r] :
                           r \in 1..Len(FileOf(s).groups[g])} :
                        g \in 1..Len(FileOf(s).groups)}
Earlier(l, m) == \/ l.shard < m.shard
                 \/ l.shard = m.shard /\ l.row_group < m.row_group
                 \/ l.shard = m.shard /\ l.row_group = m.row_group /\ l.row < m.row
Reader        == [shard |-> Len(shards), row_group |-> at.row_group, row |-> at.row]
RowsRead      == {l \in UNION {RowsIn(s) : s \in 1..Len(shards)} : Earlier(l, Reader)}
PathAt(l)     == Normalize(FileOf(l.shard).groups[l.row_group][l.row])

(* While the build has not failed, the files are exactly the paths of the  *)
(* rows read, and the entry of a path locates a row that has this path:    *)
(* the only one, the first or the last, as on_duplicate says.  It relates  *)
(* the running count and the offsets to where the rows really are, empty   *)
(* row groups included.                                                    *)
FilesFollowRows ==
  pc \notin {"failed", "duplicate"} =>
    /\ DOMAIN files = {PathAt(l) : l \in RowsRead}
    /\ \A p \in DOMAIN files :
         /\ files[p] \in RowsRead /\ PathAt(files[p]) = p
         /\ \A l \in RowsRead : PathAt(l) = p =>
              \/ l = files[p]
              \/ input.on_duplicate = "first" /\ Earlier(files[p], l)
              \/ input.on_duplicate = "last"  /\ Earlier(l, files[p])

(* An index that opens has all of it: every source listed something, and   *)
(* every row of every shard listed has a nonempty path that is a file.     *)
IndexIsComplete ==
  pc = "done" =>
    \A i \in 1..Len(input.sources) :
      LET found == input.sources[i] IN
      /\ found # <<>>
      /\ \A j \in 1..Len(found) :
           LET groups == input.store[found[j]].groups IN
           \A g \in 1..Len(groups) : \A r \in 1..Len(groups[g]) :
             Normalize(groups[g][r]) \in DOMAIN files \ {<<>>}

(* The directories are the parents of the files, all of them and no other: *)
(* leaving the climb at the first known parent loses none.                 *)
DirsAreParents ==
  pc = "done" => dirs = UNION {Parents(p) : p \in DOMAIN files}

(* The duplicate error is raised only under on_duplicate = "error" and for *)
(* two different rows with one path.                                       *)
DuplicateIsReal ==
  pc = "duplicate" =>
    /\ input.on_duplicate = "error"
    /\ \E l, m \in RowsRead : l # m /\ PathAt(l) = PathAt(m)
=============================================================================
