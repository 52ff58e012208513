---------------------------- MODULE PackSources ----------------------------
(***************************************************************************)
(* Packing a glob, a directory or a list of files (crates/core/src/        *)
(* pack.rs): which files a call takes, under which root, and the path each *)
(* is stored by.  The call gathers (stored path, source) pairs first, then *)
(* sorts them and reads the files; the directory may change all the while. *)
(* The writer they go to is PackWriter's; here a row is its stored path.   *)
(*                                                                         *)
(* A path is the sequence of what lies between its slashes: "/a//b" is     *)
(* <<"", "a", "", "b">> and "./b" is <<".", "b">>.  A file of the disk is  *)
(* named by its components, with "/" before those of an absolute path.     *)
(* A segment with a wildcard stands for the set of names it matches; a     *)
(* file may have such a name itself, as "a[1]".                            *)
(***************************************************************************)
EXTENDS Naturals, Sequences, PathSegments

CONSTANTS
  FileNames,   \* names of files and directories
  Wild,        \* segments with a wildcard
  MatchedBy,   \* MatchedBy[w]: the names that w matches
  Rank,        \* Rank[s]: the place of stored path s in the byte order
  Disks,       \* sets of files that a call may find
  Calls,       \* calls of pack_glob and pack_files
  NoRoot,      \* root=None
  MaxChanges   \* bound: files that come or go during a call

Paths      == Seq(FileNames \cup {"", ".", ".."})
Patterns   == {p \in Seq(FileNames \cup Wild \cup {"", ".", "..", "**"}) \ {<<>>} :
                 \A i, j \in 1..Len(p) : p[i] = "**" /\ p[j] = "**" => i = j}
Components == Seq(FileNames \cup {"/", ".."})
FoundPaths == Seq(FileNames \cup {"", ".", "..", "/"})

ASSUME SourcesAssumption ==
  /\ {"", ".", "..", "/", "**"} \cap (FileNames \cup Wild) = {}
  /\ MatchedBy \in [Wild -> SUBSET FileNames]
  /\ "*" \in Wild /\ MatchedBy["*"] = FileNames
  /\ MaxChanges \in Nat

ASSUME FilesAssumption ==
  \A f \in UNION Disks : /\ f \in Components \ {<<>>} /\ f[Len(f)] \in FileNames
                         /\ \A i \in 2..Len(f) : f[i] # "/"

ASSUME CallsAssumption ==
  \A c \in Calls :
    \/ c.op = "glob" /\ c.pattern \in Patterns /\ c.root \in {NoRoot} \cup Paths
    \/ c.op = "files" /\ c.files \subseteq Paths /\ c.root \in Paths

VARIABLES
  disk,      \* the files
  stage,
  call,
  pattern,   \* the glob, after a directory has been made one
  root,
  found,     \* what the glob or the list has yet to give
  pairs,     \* (stored path, file) pairs gathered
  packed,    \* stored paths appended
  failure,
  changes,
  stayed     \* history: files that have been there since the call began

sourcesVars == <<disk, stage, call, pattern, root, found, pairs, packed, failure, changes, stayed>>

Extends(f, d) == Len(f) > Len(d) /\ SubSeq(f, 1, Len(d)) = d
Rest(f, d)    == SubSeq(f, Len(d) + 1, Len(f))
Below(f, d)   == Extends(f, d) /\ \A i \in 1..Len(Rest(f, d)) : Rest(f, d)[i] \in FileNames

(* Path::components without CurDir: clean. *)
Clean(path) ==
  LET names(p) == Without(p, {"", "."})
  IN  IF Len(path) > 1 /\ Head(path) = "" THEN <<"/">> \o names(path) ELSE names(path)
-----------------------------------------------------------------------------
(* Fault: components that leave the root go into the stored path. *)
StoredAnyway(file, dir) ==
  IF file # dir /\ ~Extends(file, dir) THEN [kind |-> "outside"]
  ELSE IF file = dir THEN [kind |-> "empty"]
  ELSE [kind |-> "ok", path |-> Rest(file, dir)]

(* stored_path, of a file and a root without CurDir. *)
Stored(file, dir) ==
  IF file # dir /\ ~Extends(file, dir) THEN [kind |-> "outside"]
  ELSE IF file = dir THEN [kind |-> "empty"]
  ELSE IF \E i \in 1..Len(Rest(file, dir)) : Rest(file, dir)[i] \in {"/", ".."}
  THEN [kind |-> "escapes"]
  ELSE [kind |-> "ok", path |-> Rest(file, dir)]

(* Faults: the prefix is not cleaned; the last segment counts, too. *)
UncleanPrefix(p) ==
  LET stops == {n \in 0..(Len(p) - 1) : n = Len(p) - 1 \/ p[n + 1] \in Wild \cup {"**"}}
  IN  SubSeq(p, 1, CHOOSE n \in stops : \A m \in stops : n <= m)
PrefixWithFile(p) ==
  LET stops == {n \in 0..Len(p) : n = Len(p) \/ p[n + 1] \in Wild \cup {"**"}}
  IN  Clean(SubSeq(p, 1, CHOOSE n \in stops : \A m \in stops : n <= m))

(* glob_fixed_prefix.  An empty segment is pushed as "/", which replaces   *)
(* all that was pushed before it.                                          *)
FixedPrefix(p) ==
  LET stops == {n \in 0..(Len(p) - 1) : n = Len(p) - 1 \/ p[n + 1] \in Wild \cup {"**"}}
      stop  == CHOOSE n \in stops : \A m \in stops : n <= m
      roots == {0} \cup {n \in 1..stop : p[n] = ""}
      from  == CHOOSE n \in roots : \A m \in roots : m <= n
  IN  IF from = 0 THEN Clean(SubSeq(p, 1, stop))
      ELSE <<"/">> \o Clean(SubSeq(p, from + 1, stop))

(* glob::glob, of files: an empty segment of a pattern and "." match       *)
(* nothing of a path, "**" any number of directories.  The last segment is *)
(* none of them, or the pattern matches only directories.  (Of a pattern   *)
(* with two "**" this would say too little; Patterns has none.)            *)
Fits(seg, name) == IF seg \in Wild THEN name \in MatchedBy[seg] ELSE name = seg
MatchesAll(p, f) ==
  \/ Len(p) = Len(f) /\ \A i \in 1..Len(p) : p[i] # "**" /\ Fits(p[i], f[i])
  \/ \E n \in 1..Len(p) : \E k \in n..(Len(f) + 1) :
       /\ p[n] = "**"
       /\ Len(p) - n = Len(f) + 1 - k
       /\ \A i \in 1..(n - 1) : Fits(p[i], f[i])
       /\ \A i \in n..(k - 1) : f[i] \in FileNames
       /\ \A i \in 1..(Len(p) - n) : Fits(p[n + i], f[k + i - 1])
Matches(p, f) == p[Len(p)] \notin {"", ".", "**"} /\ MatchesAll(Clean(p), f)

IsDir(path) ==
  /\ path # <<"">>
  /\ Clean(path) = <<>> \/ \E f \in disk : Below(f, Clean(path))

(* trim_end_matches('/') *)
Trim(path) ==
  LET n == CHOOSE n \in 0..Len(path) : /\ n = 0 \/ path[n] # ""
                                       /\ \A i \in (n + 1)..Len(path) : path[i] = ""
  IN  IF n = 0 THEN <<"">> ELSE SubSeq(path, 1, n)
-----------------------------------------------------------------------------
SourcesTypeOK ==
  /\ disk \subseteq UNION Disks
  /\ call \in Calls
  /\ stage \in {"idle", "gather", "write", "packed", "failed"}
  /\ root \in Components
  /\ found \subseteq FoundPaths
  /\ \A pair \in pairs : pair[1] \in Components /\ Clean(pair[2]) \in Components
  /\ packed \in Seq(Components)
  /\ failure \in {"none", "no files", "not a file", "outside", "empty", "escapes",
                  "io", "duplicate"}
  /\ changes \in 0..MaxChanges
  /\ stayed \subseteq disk

SourcesInit ==
  /\ disk \in Disks
  /\ stage = "idle" /\ failure = "none" /\ changes = 0
  /\ call \in Calls /\ pattern = <<>> /\ root = <<>>
  /\ found = {} /\ pairs = {} /\ packed = <<>>
  /\ stayed = disk

GiveUp(kind) == stage' = "failed" /\ failure' = kind

(* Fault: a directory stands for the files just in it. *)
FilesOfDir(dir) == dir \o <<"*">>

(* What a directory stands for: "dir/**/*". *)
AllOfDir(dir) == dir \o <<"**", "*">>

(* pack_glob.  A pattern that names a directory is made one for all that   *)
(* is in it; the root is the caller's, the directory or the fixed prefix.  *)
PackGlob ==
  /\ stage = "idle" /\ call.op = "glob"
  /\ LET dir   == Trim(call.pattern)
         isdir == IsDir(call.pattern)
     IN  /\ pattern' = IF isdir THEN AllOfDir(dir) ELSE call.pattern
         /\ root' = IF call.root # NoRoot THEN Clean(call.root)
                    ELSE IF isdir THEN Clean(dir) ELSE FixedPrefix(call.pattern)
  /\ found' = {f \in disk : Matches(pattern', f)}
  /\ stage' = "gather"
  /\ UNCHANGED <<disk, call, pairs, packed, failure, changes, stayed>>

(* pack_files; an empty list is refused.  The list is a set: one that has  *)
(* the same spelling of a path twice is not among the calls, one with two  *)
(* spellings of a file is.                                                 *)
PackFiles ==
  /\ stage = "idle" /\ call.op = "files"
  /\ found' = call.files
  /\ root' = Clean(call.root)
  /\ \/ call.files = {} /\ GiveUp("no files")
     \/ call.files # {} /\ stage' = "gather" /\ UNCHANGED failure
  /\ UNCHANGED <<disk, call, pattern, pairs, packed, changes, stayed>>

(* The next of them.  pack_glob leaves out what is no file (any more),     *)
(* pack_files refuses it.                                                  *)
Gather(path) ==
  /\ stage = "gather" /\ path \in found
  /\ found' = found \ {path}
  /\ LET file == Clean(path) IN
     \/ /\ file \notin disk /\ call.op = "glob"
        /\ UNCHANGED <<stage, pairs, failure>>
     \/ /\ file \notin disk /\ call.op = "files"
        /\ GiveUp("not a file") /\ UNCHANGED pairs
     \/ /\ file \in disk /\ Stored(file, root).kind # "ok"
        /\ GiveUp(Stored(file, root).kind) /\ UNCHANGED pairs
     \/ /\ file \in disk /\ Stored(file, root).kind = "ok"
        /\ pairs' = pairs \cup {<<Stored(file, root).path, path>>}
        /\ UNCHANGED <<stage, failure>>
  /\ UNCHANGED <<disk, call, pattern, root, packed, changes, stayed>>

Gathered ==
  /\ stage = "gather" /\ found = {}
  /\ \/ pairs = {} /\ GiveUp("no files")
     \/ pairs # {} /\ stage' = "write" /\ UNCHANGED failure
  /\ UNCHANGED <<disk, call, pattern, root, found, pairs, packed, changes, stayed>>

(* sort: the pairs are taken in the order of their stored paths. *)
First(pair) == pair \in pairs /\ \A q \in pairs : Rank[pair[1]] <= Rank[q[1]]

(* write_pairs: the file is read and its row appended. *)
Write(pair) ==
  /\ stage = "write" /\ First(pair)
  /\ pairs' = pairs \ {pair}
  /\ \/ Clean(pair[2]) \notin disk /\ GiveUp("io") /\ UNCHANGED packed
     \/ /\ Clean(pair[2]) \in disk /\ \E i \in 1..Len(packed) : packed[i] = pair[1]
        /\ GiveUp("duplicate") /\ UNCHANGED packed
     \/ /\ Clean(pair[2]) \in disk /\ \A i \in 1..Len(packed) : packed[i] # pair[1]
        /\ packed' = Append(packed, pair[1])
        /\ UNCHANGED <<stage, failure>>
  /\ UNCHANGED <<disk, call, pattern, root, found, changes, stayed>>

Finish ==
  /\ stage = "write" /\ pairs = {}
  /\ stage' = "packed"
  /\ UNCHANGED <<disk, call, pattern, root, found, pairs, packed, failure, changes, stayed>>

(* Reading a directory or a file, or the writer, fails. *)
SourceFails ==
  /\ stage \in {"gather", "write"}
  /\ GiveUp("io")
  /\ UNCHANGED <<disk, call, pattern, root, found, pairs, packed, changes, stayed>>

(* Someone else makes or removes a file. *)
Change ==
  /\ stage \in {"idle", "gather", "write"}
  /\ changes < MaxChanges
  /\ \E f \in UNION Disks : disk' \in {disk \cup {f}, disk \ {f}} \ {disk}
  /\ stayed' = stayed \cap disk'
  /\ changes' = changes + 1
  /\ UNCHANGED <<stage, call, pattern, root, found, pairs, packed, failure>>

CallReturned == stage \in {"packed", "failed"} /\ UNCHANGED sourcesVars

PackStep ==
  \/ PackGlob \/ PackFiles \/ (\E path \in found : Gather(path)) \/ Gathered
  \/ (\E pair \in pairs : Write(pair)) \/ Finish

SourcesNext == PackStep \/ SourceFails \/ Change \/ CallReturned

SourcesSpec == SourcesInit /\ [][SourcesNext]_sourcesVars
-----------------------------------------------------------------------------
(* A stored path is what the index makes of it: it is not empty and has no *)
(* segment that normalize would drop or that leads out of the archive.  A  *)
(* shard that was packed can be opened, and its files are found by the     *)
(* paths they were stored by.                                              *)
PackedPathsAreCanonical ==
  \A i \in 1..Len(packed) :
    /\ Len(packed[i]) > 0
    /\ \A n \in 1..Len(packed[i]) : packed[i][n] \in FileNames

(* Four kinds of call go wrong.  The default root of a pattern with an     *)
(* empty segment inside is not above its matches: that of "b//c/*" is      *)
(* "/c".  A pattern with ".." behind a wildcard leads out of its root and  *)
(* in again.  The glob made of a directory with a wildcard in its name is  *)
(* one for other directories.  The root of the disk is trimmed to nothing. *)
HollowInside  == \E i \in 2..(Len(call.pattern) - 1) : /\ call.pattern[i] = ""
                                                     /\ \E j \in 1..i : call.pattern[j] # ""
UpFromWild    == \E i, j \in 1..Len(call.pattern) :
                   i < j /\ call.pattern[i] \in Wild \cup {"**"} /\ call.pattern[j] = ".."
GlobLikeName  == \E i \in 1..Len(call.pattern) : call.pattern[i] \in Wild
RootOfDisk    == \A i \in 1..Len(call.pattern) : call.pattern[i] = ""

(* What any other glob matches lies below its default root: without root=  *)
(* no call fails because a file is outside the root, is the root, or       *)
(* leaves it.                                                              *)
GoesWrong == IF pattern # call.pattern THEN GlobLikeName \/ RootOfDisk
             ELSE HollowInside \/ UpFromWild
DefaultRootHolds ==
  call.op = "glob" /\ call.root = NoRoot /\ ~GoesWrong =>
    failure \notin {"outside", "empty", "escapes"}

(* A file that was there all the time and that the call asks for (below    *)
(* the directory, matched by the glob, or in the list) is in the archive   *)
(* when the call succeeds, under its path below the root; and a call does  *)
(* not say there is nothing to pack when there is such a file.  Only the   *)
(* name of the directory must not be like a glob.                          *)
Wanted(f) ==
  IF call.op = "files" THEN \E p \in call.files : f = Clean(p)
  ELSE IF pattern # call.pattern
  THEN ~GlobLikeName /\ Below(f, Clean(call.pattern))
  ELSE Matches(call.pattern, f)
NothingIsLeftOut ==
  /\ stage = "packed" =>
       \A f \in {g \in stayed : Wanted(g)} :
         \E i \in 1..Len(packed) : root \o packed[i] = f
  /\ failure = "no files" => \A f \in stayed : ~Wanted(f)
=============================================================================
