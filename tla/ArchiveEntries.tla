--------------------------- MODULE ArchiveEntries ---------------------------
(***************************************************************************)
(* Expanding an archive (crates/core/src/pack.rs): how its format is told, *)
(* and the loop over its entries, which is the code's own for zip, tar and *)
(* rar and the library's for 7z.  That one takes block after block, asks a *)
(* closure for every entry, and takes the empty files when all blocks are  *)
(* done.  The closure can say stop, which ends the block, or fail, which   *)
(* ends the loop; the error it fails with is of the library's type, so the *)
(* closure leaves the real one in `inner`.                                 *)
(*                                                                         *)
(* The name of an entry is the sequence of what lies between its '/'s and  *)
(* '\'s.  Rows go to a PackWriter; here a row is its stored path.          *)
(***************************************************************************)
EXTENDS Naturals, Sequences, PathSegments

CONSTANTS
  Names,      \* names of files and directories
  RawNames,   \* names that entries have
  Archives,   \* what a call may be given
  Unset       \* no format

Formats == {"zip", "tar", "tar.gz", "tar.bz2", "tar.xz", "tar.zst", "rar", "7z"}

(* A file, a directory or another thing; its data can be read or not. *)
Entries == [name : RawNames, kind : {"file", "dir", "other"},
            readable : BOOLEAN]

(* head and suffix: the format that the first bytes and the extension are  *)
(* those of; format: the one the caller gives; rar: the build has that     *)
(* feature.  Only a 7z archive has more than one block, and a tail: the    *)
(* entries without data.                                                   *)
Inputs == [rar : BOOLEAN, head : Formats \cup {Unset}, suffix : Formats \cup {Unset},
           format : Formats \cup {Unset},
           blocks : Seq(Seq(Entries)), tail : Seq(Entries)]

ASSUME ArchiveAssumption ==
  /\ {"", ".", ".."} \cap Names = {}
  /\ RawNames \subseteq Seq(Names \cup {"", ".", ".."})
  /\ Archives \subseteq Inputs
  /\ Unset \notin Formats

VARIABLES
  archive,
  pc,
  format,
  todo,     \* the blocks that are still to come, the current one first
  tail,     \* the entries that come after them
  rows,     \* stored paths appended to the writer
  inner,    \* 7z: the error the closure has kept
  error,    \* the error of the loop, in the end that of the call
  visited,  \* history: the entries the loop came to
  raised    \* history: the errors met, in that order

vars == <<archive, pc, format, todo, tail, rows, inner, error, visited, raised>>

Errors == {"none", "unknown format", "no rar", "io", "unreadable", "dots",
           "empty path", "duplicate", "carrier", "no files"}

TypeOK ==
  /\ archive \in Inputs
  /\ pc \in {"start", "entries", "ended", "check", "packed", "failed"}
  /\ format \in Formats \cup {Unset}
  /\ todo \in Seq(Seq(Entries)) /\ tail \in Seq(Entries)
  /\ rows \in Seq(Seq(Names))
  /\ inner \in Errors /\ error \in Errors
  /\ visited \in Seq(Entries)
  /\ raised \in Seq(Errors)

Init ==
  /\ archive \in Archives
  /\ pc = "start" /\ format = Unset
  /\ todo = <<>> /\ tail = <<>> /\ rows = <<>>
  /\ inner = "none" /\ error = "none"
  /\ visited = <<>> /\ raised = <<>>
-----------------------------------------------------------------------------
(* Names and formats. *)

(* sniff_format: the first bytes, then the extension. *)
Sniff(a) == IF a.head # Unset THEN a.head ELSE a.suffix

(* entry_stored_path: what a name is stored by, and what is wrong with it. *)
StoredPath(name) == Without(name, {"", "."})

Wrong(name) ==
  IF \E i \in 1..Len(name) : name[i] = ".." THEN "dots"
  ELSE IF StoredPath(name) = <<>> THEN "empty path" ELSE "none"

Duplicate(path) == \E i \in 1..Len(rows) : rows[i] = path

(* What is no file is left out; the 7z closure leaves out directories.     *)
IsFile(e) == IF format = "7z" THEN e.kind # "dir" ELSE e.kind = "file"

(* What is wrong with an entry.  rar and 7z read it before they look at    *)
(* its name.                                                               *)
Reads == {"rar", "7z"}
Problem(e) ==
  IF format = "7z" /\ e.kind = "dir" THEN IF e.readable THEN "none" ELSE "unreadable"
  ELSE IF ~IsFile(e) THEN "none"
  ELSE IF format \in Reads /\ ~e.readable THEN "unreadable"
  ELSE IF Wrong(e.name) # "none" THEN Wrong(e.name)
  ELSE IF ~e.readable THEN "unreadable"
  ELSE IF Duplicate(StoredPath(e.name)) THEN "duplicate" ELSE "none"
-----------------------------------------------------------------------------
Raise(kind) == raised' = Append(raised, kind)
Fail(kind)  == pc' = "failed" /\ error' = kind /\ Raise(kind)

(* pack_archive: the format, the writer, the archive. *)
Open ==
  /\ pc = "start"
  /\ format' = IF archive.format # Unset THEN archive.format ELSE Sniff(archive)
  /\ \/ format' = Unset /\ Fail("unknown format")
     \/ format' = "rar" /\ ~archive.rar /\ Fail("no rar")
     \/ /\ format' \in Formats /\ (format' = "rar" => archive.rar)
        /\ pc' = "entries" /\ UNCHANGED <<error, raised>>
  /\ todo' = archive.blocks /\ tail' = archive.tail
  /\ UNCHANGED <<archive, rows, inner, visited>>

(* The entry whose turn it is; a block that has been read is left behind.  *)
Current  == IF todo # <<>> THEN Head(Head(todo)) ELSE Head(tail)
HasEntry == IF todo # <<>> THEN Head(todo) # <<>> ELSE tail # <<>>

EndBlock ==
  /\ pc = "entries" /\ todo # <<>> /\ Head(todo) = <<>>
  /\ todo' = Tail(todo)
  /\ UNCHANGED <<archive, pc, format, tail, rows, inner, error, visited, raised>>

GoOn ==
  IF todo # <<>> THEN todo' = <<Tail(Head(todo))>> \o Tail(todo) /\ UNCHANGED tail
  ELSE tail' = Tail(tail) /\ UNCHANGED todo

Pack ==
  /\ pc = "entries" /\ HasEntry /\ Problem(Current) = "none"
  /\ rows' = IF IsFile(Current) THEN Append(rows, StoredPath(Current.name)) ELSE rows
  /\ visited' = Append(visited, Current)
  /\ GoOn
  /\ UNCHANGED <<archive, pc, format, inner, error, raised>>

(* zip, tar and rar return with the error. *)
Refuse(kind) ==
  /\ format # "7z"
  /\ Fail(kind)
  /\ visited' = Append(visited, Current)
  /\ UNCHANGED <<archive, format, todo, tail, rows, inner>>

(* Fault: the closure says stop, which ends this block and no other. *)
KeepAndStop(kind) ==
  /\ format = "7z"
  /\ inner' = kind /\ Raise(kind)
  /\ visited' = Append(visited, Current)
  /\ IF todo # <<>> THEN todo' = Tail(todo) /\ UNCHANGED tail
     ELSE tail' = <<>> /\ UNCHANGED todo
  /\ UNCHANGED <<archive, pc, format, rows, error>>

(* The 7z closure keeps the error and fails with another one, which ends   *)
(* the loop over the blocks.                                               *)
Keep(kind) ==
  /\ format = "7z"
  /\ inner' = kind /\ error' = "carrier" /\ Raise(kind)
  /\ visited' = Append(visited, Current)
  /\ pc' = "ended"
  /\ UNCHANGED <<archive, format, todo, tail, rows>>

(* It passes an error of the reader on. *)
PassOn(kind) ==
  /\ format = "7z"
  /\ error' = kind /\ Raise(kind)
  /\ visited' = Append(visited, Current)
  /\ pc' = "ended"
  /\ UNCHANGED <<archive, format, todo, tail, rows, inner>>

(* An entry that cannot be packed; append may fail for any file.           *)
Stumble ==
  /\ pc = "entries" /\ HasEntry
  /\ \/ Problem(Current) = "unreadable"
        /\ (Refuse("unreadable") \/ PassOn("unreadable"))
     \/ /\ Problem(Current) \in {"dots", "empty path", "duplicate"}
        /\ (Refuse(Problem(Current)) \/ Keep(Problem(Current)))
     \/ /\ Problem(Current) = "none" /\ IsFile(Current)
        /\ (Refuse("io") \/ Keep("io"))

(* The archive cannot be opened or read on, or the writer not be created   *)
(* or finished.                                                            *)
IoError ==
  /\ \/ pc = "start" /\ Fail("io")
     \/ pc = "entries" /\ format # "7z" /\ Fail("io")
     \/ /\ pc = "entries" /\ format = "7z"
        /\ error' = "io" /\ Raise("io") /\ pc' = "ended"
     \/ pc = "check" /\ rows # <<>> /\ Fail("io")
  /\ UNCHANGED <<archive, format, todo, tail, rows, inner, visited>>

EndLoop ==
  /\ pc = "entries" /\ todo = <<>> /\ tail = <<>>
  /\ pc' = IF format = "7z" THEN "ended" ELSE "check"
  /\ UNCHANGED <<archive, format, todo, tail, rows, inner, error, visited, raised>>

(* Fault: the error of the library is looked at first. *)
LibraryFirst == IF error # "none" THEN error ELSE inner

(* Fault: the library's result is not looked at. *)
InnerAlone == inner

(* pack_7z_entries: the error that was kept counts more than the other.    *)
InnerFirst == IF inner # "none" THEN inner ELSE error

EndSevenZ ==
  /\ pc = "ended"
  /\ error' = InnerFirst
  /\ pc' = IF error' = "none" THEN "check" ELSE "failed"
  /\ UNCHANGED <<archive, format, todo, tail, rows, inner, visited, raised>>

(* An archive without files is refused before the writer finishes. *)
Check ==
  /\ pc = "check"
  /\ \/ rows = <<>> /\ Fail("no files")
     \/ rows # <<>> /\ pc' = "packed" /\ UNCHANGED <<error, raised>>
  /\ UNCHANGED <<archive, format, todo, tail, rows, inner, visited>>

Returned == pc \in {"packed", "failed"} /\ UNCHANGED vars

Next ==
  \/ Open \/ EndBlock \/ Pack \/ Stumble \/ IoError \/ EndLoop \/ EndSevenZ \/ Check
  \/ Returned

Spec == Init /\ [][Next]_vars
-----------------------------------------------------------------------------
(* The call returns the first error that was met, in the 7z loop as well,  *)
(* where the library's error and those of later blocks could hide it.      *)
FirstErrorIsReturned ==
  pc = "failed" => raised # <<>> /\ error = raised[1]

(* The rows are the files that the loop came to, in its order and by their *)
(* stored paths, except the one it stumbled over; after an error it comes  *)
(* to no other.                                                            *)
Files == Without(visited, {e \in Entries : ~IsFile(e)})
RowsFollowEntries ==
  /\ Len(rows) \in {Len(Files), Len(Files) - Len(raised)}
  /\ \A i \in 1..Len(rows) : rows[i] = StoredPath(Files[i].name)
  /\ Len(raised) <= 1

(* A stored path is what the index makes of it, and none is there twice.   *)
NoPathTwice == \A i, j \in 1..Len(rows) : rows[i] = rows[j] => i = j
StoredPathsAreCanonical ==
  /\ \A i \in 1..Len(rows) :
       rows[i] # <<>> /\ \A n \in 1..Len(rows[i]) : rows[i][n] \in Names
  /\ NoPathTwice

(* A call that succeeds has packed all: each file of each block and of the *)
(* tail has its row.                                                       *)
Has(e) == \E i \in 1..Len(rows) : rows[i] = StoredPath(e.name)
PackedIsWhole ==
  pc = "packed" =>
    /\ \A b \in 1..Len(archive.blocks) : \A i \in 1..Len(archive.blocks[b]) :
         IsFile(archive.blocks[b][i]) => Has(archive.blocks[b][i])
    /\ \A i \in 1..Len(archive.tail) : IsFile(archive.tail[i]) => Has(archive.tail[i])
    /\ rows # <<>>
=============================================================================
