------------------------------ MODULE Listing ------------------------------
(***************************************************************************)
(* The listings of an open archive: Index::ls (crates/core/src/index.rs),  *)
(* a loop over the sorted files; info, exists and is_dir (archive.rs); and *)
(* what the filesystem makes of them (python/parquet_file_fs/fs.py): ls,   *)
(* find and glob, and fsspec's walk, a tree of calls of ls.                *)
(*                                                                         *)
(* A path is a sequence of segments, as in ShardIndex; "" in the path of a *)
(* caller is an empty segment.  The files are sorted as strings, where '/' *)
(* is a byte among others and has its place between '-' and 'a', so that   *)
(* "a-b" comes between "a" and "a/b".  Inner[s] and Last[s] are the places *)
(* of "s/" and of "s" among all these.                                     *)
(***************************************************************************)
EXTENDS Naturals, Sequences, FiniteSets, PathSegments

CONSTANTS
  Segments,   \* nonempty path segments
  Inner,      \* Inner[s]: the place of segment s with a '/' after it
  Last,       \* Last[s]: its place where a path ends
  Trees,      \* sets of files that an archive may have
  Raws,       \* paths that a caller may name
  Depths      \* values of maxdepth

ASSUME ListingAssumption ==
  /\ Trees \subseteq SUBSET (Seq(Segments) \ {<<>>})
  /\ Raws \subseteq Seq(Segments \cup {""})
  /\ "" \notin Segments
  /\ Depths \subseteq Nat \ {0}

ASSUME OrderAssumption ==
  /\ Inner \in [Segments -> Nat] /\ Last \in [Segments -> Nat]
  /\ \A s, t \in Segments : /\ Inner[s] # Last[t]
                            /\ s # t => Inner[s] # Inner[t] /\ Last[s] # Last[t]
                            /\ s = t => Last[s] < Inner[t]

VARIABLES
  files,      \* the keys of index.files
  asked,      \* the call
  pc,
  prefix,     \* ls: the normalized path
  todo,       \* files of the range that the loop has not reached
  seen_dirs,
  out,        \* the entries so far
  pending,    \* walk: directories it has not listed
  found,      \* walk: files it has come upon
  omitted,    \* history: what it has left out, as a file there had no info
  reply       \* find and glob: the names, each with the list it is from

vars == <<files, asked, pc, prefix, todo, seen_dirs, out, pending, found, omitted, reply>>

(* A depth of 0 stands for maxdepth=None. *)
Call(op, raw, depth, withdirs) ==
  [op |-> op, path |-> raw, depth |-> depth, withdirs |-> withdirs]

Canonical == Seq(Segments)
Entries   == [name : Canonical, is_dir : BOOLEAN]
Anywhere  == Seq(Segments \cup {""})

TypeOK ==
  /\ files \in SUBSET (Canonical \ {<<>>})
  /\ asked \in [op : {"walk", "find", "glob"}, path : Anywhere,
                depth : Nat, withdirs : BOOLEAN]
  /\ pc \in {"open", "walk", "keys", "listed", "done", "failed", "found"}
  /\ prefix \in Canonical
  /\ todo \in SUBSET files
  /\ seen_dirs \in SUBSET Canonical
  /\ out \in Seq(Entries)
  /\ pending \in SUBSET Anywhere
  /\ found \in SUBSET files
  /\ omitted \in SUBSET Canonical
  /\ reply \in SUBSET (Anywhere \X {"paths", "dirs"})

Init ==
  /\ files \in Trees
  /\ pc = "open"
  /\ asked = Call("walk", <<>>, 0, FALSE) /\ prefix = <<>>
  /\ todo = {} /\ seen_dirs = {} /\ out = <<>>
  /\ pending = {} /\ found = {} /\ omitted = {} /\ reply = {}
-----------------------------------------------------------------------------
(* Paths. *)
(* _strip_protocol: only the slashes at both ends go. *)
Strip(raw) ==
  LET named == {i \in 1..Len(raw) : raw[i] # ""}
      least == CHOOSE i \in named : \A j \in named : i <= j
      last  == CHOOSE i \in named : \A j \in named : j <= i
  IN  IF named = {} THEN <<>> ELSE SubSeq(raw, least, last)

(* normalize: drops the empty segments. *)
Normalize(raw) == Without(raw, {""})

Extends(k, p) == Len(k) > Len(p) /\ \A i \in 1..Len(p) : k[i] = p[i]

(* The byte order of strings, a path and the path with a '/' after it. *)
Path(p)    == [i \in 1..Len(p) |-> IF i = Len(p) THEN Last[p[i]] ELSE Inner[p[i]]]
Slashed(p) == [i \in 1..Len(p) |-> Inner[p[i]]]
Before(x, y) ==
  \/ Extends(y, x)
  \/ \E n \in 1..Len(x) : /\ n <= Len(y) /\ x[n] < y[n]
                          /\ \A i \in 1..(n - 1) : x[i] = y[i]

(* The directories of the index are the parents of its files. *)
Dirs ==
  UNION {{SubSeq(k, 1, n) : n \in 1..(Len(k) - 1)} : k \in files}

IsDir(norm)  == norm = <<>> \/ norm \in Dirs
Exists(path) == Normalize(path) \in files \/ IsDir(Normalize(path))

(* info, of a path that was normalized. *)
Info(norm) == IF norm \in files THEN "file"
              ELSE IF IsDir(norm) THEN "directory" ELSE "not found"
-----------------------------------------------------------------------------
(* Index::ls, as fsspec's walk calls it for one directory after another.   *)

Walk(raw) ==
  /\ pc = "open"
  /\ asked' = Call("walk", raw, 0, FALSE)
  /\ pending' = {Strip(raw)}
  /\ pc' = "walk"
  /\ UNCHANGED <<files, prefix, todo, seen_dirs, out, found, omitted, reply>>

(* Fault: the range starts at the path without its '/'. *)
KeysFromPath(p) == {k \in files : ~Before(Path(k), Path(p))}

KeysFrom(p) == {k \in files : ~Before(Path(k), Slashed(p))}

Ls(path) ==
  /\ pc = "walk" /\ path \in pending
  /\ LET norm == Normalize(path) IN
     \/ /\ norm \in files
        /\ out' = <<[name |-> norm, is_dir |-> FALSE]>>
        /\ prefix' = norm /\ todo' = {} /\ pc' = "listed"
     \/ /\ norm \notin files /\ IsDir(norm)
        /\ out' = <<>>
        /\ prefix' = norm /\ todo' = KeysFrom(norm) /\ pc' = "keys"
     \/ /\ norm \notin files /\ ~IsDir(norm)
        /\ out' = <<>>
        /\ todo' = {} /\ UNCHANGED <<prefix, pc>>
  /\ pending' = pending \ {path}
  /\ seen_dirs' = {}
  /\ UNCHANGED <<files, asked, found, omitted, reply>>

First(k) == k \in todo /\ \A j \in todo \ {k} : Before(Path(k), Path(j))

(* Fault: a directory is pushed although there is a file of that name. *)
PushClash(full) ==
  out' = IF full \notin seen_dirs THEN Append(out, [name |-> full, is_dir |-> TRUE]) ELSE out

PushDir(full) ==
  out' = IF full \notin seen_dirs /\ full \notin files
         THEN Append(out, [name |-> full, is_dir |-> TRUE]) ELSE out

(* The next file below the directory: a child of it, or the sign of one. *)
Push(k) ==
  /\ pc = "keys" /\ First(k)
  /\ Extends(k, prefix)
  /\ \/ /\ Len(k) = Len(prefix) + 1
        /\ out' = Append(out, [name |-> k, is_dir |-> FALSE])
        /\ UNCHANGED seen_dirs
     \/ /\ Len(k) > Len(prefix) + 1
        /\ LET full == SubSeq(k, 1, Len(prefix) + 1)
           IN  PushDir(full) /\ seen_dirs' = seen_dirs \cup {full}
  /\ todo' = todo \ {k}
  /\ UNCHANGED <<files, asked, pc, prefix, pending, found, omitted, reply>>

(* The permutation p puts the entries of s in the order of their names. *)
Sorts(p, s) ==
  /\ \A i, j \in 1..Len(s) : p[i] = p[j] => i = j
  /\ \A j \in 1..Len(s) : \E i \in 1..Len(s) : p[i] = j
  /\ \A i, j \in 1..Len(s) :
       i < j => ~Before(Path(s[p[j]].name), Path(s[p[i]].name))

(* The loop is over, or leaves at the first file that is not below the     *)
(* directory.                                                              *)
AtEnd == todo = {} \/ \E k \in todo : First(k) /\ ~Extends(k, prefix)

EndLs ==
  /\ pc = "keys"
  /\ AtEnd
  /\ \E p \in [1..Len(out) -> 1..Len(out)] :
       Sorts(p, out) /\ out' = [i \in 1..Len(out) |-> out[p[i]]]
  /\ pc' = "listed"
  /\ UNCHANGED <<files, asked, prefix, todo, seen_dirs, pending, found, omitted, reply>>

(* fs.ls asks for the info of each file, which decodes its row group; walk *)
(* goes down to each directory.                                            *)
Entry(i) == [name |-> out[i].name,
             type |-> IF out[i].is_dir THEN "directory" ELSE Info(out[i].name)]
Descend ==
  /\ pc = "listed"
  /\ LET entries == {Entry(i) : i \in 1..Len(out)}
     IN  /\ pending' = pending \cup {e.name : e \in {f \in entries : f.type = "directory"}}
         /\ found' = found \cup {e.name : e \in {f \in entries : f.type = "file"}}
  /\ pc' = "walk"
  /\ UNCHANGED <<files, asked, prefix, todo, seen_dirs, out, omitted, reply>>

(* There is an info to ask for, and it fails. *)
InfoFails == pc = "listed" /\ \E i \in 1..Len(out) : ~out[i].is_dir

(* With an OSError: walk passes over it, and over what the ls has given. *)
Omit ==
  /\ InfoFails
  /\ omitted' = omitted \cup {prefix}
  /\ pc' = "walk"
  /\ UNCHANGED <<files, asked, prefix, todo, seen_dirs, out, pending, found, reply>>

(* With anything else: so does walk. *)
Raise ==
  /\ InfoFails
  /\ pc' = "failed"
  /\ UNCHANGED <<files, asked, prefix, todo, seen_dirs, out, pending, found, omitted, reply>>

EndWalk ==
  /\ pc = "walk" /\ pending = {}
  /\ pc' = "done"
  /\ UNCHANGED <<files, asked, prefix, todo, seen_dirs, out, pending, found, omitted, reply>>
-----------------------------------------------------------------------------
(* fs.find and fs.glob.  Their answer is a list: a name from both of paths *)
(* and dirs is there twice.                                                *)
Names(answer) == {e[1] : e \in answer}

Below(S, path, from) == {k \in S : Extends(k, path)} \X {from}

(* Fault: the levels are counted from the path without its '/'. *)
WithinOneLess(k, path, depth) == depth = 0 \/ Len(k) - Len(path) < depth

Within(k, path, depth) == depth = 0 \/ Len(k) - (Len(path) + 1) < depth

FindNames(raw, depth, withdirs) ==
  LET path  == Strip(raw)
      below == Below(files, path, "paths")
      names == IF below = {} /\ Exists(path) /\ ~IsDir(Normalize(path))
               THEN {<<path, "paths">>} ELSE below
      dirs  == IF withdirs THEN Below(Dirs, path, "dirs") ELSE {}
  IN  {e \in names \cup dirs : Within(e[1], path, depth)}

(* glob_translate: '*' is one segment, '**' at the end any number of them, *)
(* and none.                                                               *)
Matches(pattern, k) ==
  LET n == Len(pattern) IN
  /\ IF n > 0 /\ pattern[n] = "**" THEN Len(k) >= n ELSE Len(k) = n
  /\ \A i \in 1..n : pattern[i] \in {"*", "**", k[i]}

GlobNames(raw, wild) ==
  LET path == Strip(raw)
      pattern == Append(path, wild)
  IN  {k \in files : Matches(pattern, k)} \X {"paths"}
        \cup {d \in Dirs : Matches(pattern, d)} \X {"dirs"}

Find(raw) ==
  /\ pc = "open"
  /\ \E depth \in Depths \cup {0}, withdirs \in BOOLEAN :
       /\ asked' = Call("find", raw, depth, withdirs)
       /\ reply' = FindNames(raw, depth, withdirs)
  /\ pc' = "found"
  /\ UNCHANGED <<files, prefix, todo, seen_dirs, out, pending, found, omitted>>

(* A glob without a wildcard answers with the path if there is one. *)
Glob(raw) ==
  /\ pc = "open"
  /\ asked' = Call("glob", raw, 0, FALSE)
  /\ \/ \E wild \in {"*", "**"} : reply' = GlobNames(raw, wild)
     \/ reply' = IF Exists(Strip(raw)) THEN {<<Strip(raw), "paths">>} ELSE {}
  /\ pc' = "found"
  /\ UNCHANGED <<files, prefix, todo, seen_dirs, out, pending, found, omitted>>

Answered == pc \in {"done", "failed", "found"} /\ UNCHANGED vars

WalkStep ==
  \/ (\E path \in pending : Ls(path)) \/ (\E k \in todo : Push(k))
  \/ EndLs \/ Descend \/ Omit \/ Raise \/ EndWalk

Next ==
  \/ \E raw \in Raws : Walk(raw) \/ Find(raw) \/ Glob(raw)
  \/ WalkStep
  \/ Answered

Spec == Init /\ [][Next]_vars
-----------------------------------------------------------------------------
(* What a directory holds: the files just below it, and as directories the *)
(* names below which there are files and that are not files themselves.    *)
Children(p) ==
  {[name |-> SubSeq(k, 1, Len(p) + 1), is_dir |-> SubSeq(k, 1, Len(p) + 1) \notin files] :
     k \in {j \in files : Extends(j, p)}}

(* Where the loop of ls ends or breaks off, it has pushed each child of    *)
(* the directory and has pushed no name twice.  It rests on the byte order *)
(* of the keys: they start after the path with its '/', and those that are *)
(* below the directory are neighbours.                                     *)
LoopIsExact ==
  pc = "keys" /\ AtEnd =>
    /\ {out[i] : i \in 1..Len(out)} = Children(prefix)
    /\ \A i, j \in 1..Len(out) : out[i].name = out[j].name => i = j

(* What ls returns is this, in the order of names, or the file it was      *)
(* asked for.                                                              *)
ListingIsExact ==
  pc = "listed" =>
    IF prefix \in files THEN out = <<[name |-> prefix, is_dir |-> FALSE]>>
    ELSE /\ {out[i] : i \in 1..Len(out)} = Children(prefix)
         /\ \A i, j \in 1..Len(out) : i < j => Before(Path(out[i].name), Path(out[j].name))

(* ls, find and glob are three computations of one thing: for a directory, *)
(* the names that ls gives are those of find down to one level and, if its *)
(* own name has no wildcard, those of the glob "directory/*".  That is so  *)
(* for any way to write the directory without a doubled '/' in it.         *)
ListingsAgree ==
  pc = "listed" /\ prefix \notin files =>
    LET listed == {out[i].name : i \in 1..Len(out)} IN
    \A raw \in Raws \cup {prefix} : Strip(raw) = prefix =>
      /\ listed = Names(FindNames(raw, 1, TRUE))
      /\ (\A i \in 1..Len(prefix) : prefix[i] \notin {"*", "**"}) =>
           listed = Names(GlobNames(raw, "*"))

(* A walk comes upon the files that find gives, except those that have a   *)
(* file among the names they are below, where the walk does not go down,   *)
(* and those in or below a directory that it has left out.  It leaves out  *)
(* no directory that has no file of its own.                               *)
WalkFindsTree ==
  pc = "done" =>
    LET root == Normalize(asked.path)
        tree == Names(FindNames(root, 0, FALSE))
        Hidden(k) == \E n \in (Len(root) + 1)..(Len(k) - 1) : SubSeq(k, 1, n) \in files
        wanted == IF root \in files THEN {root} ELSE {k \in tree : ~Hidden(k)}
    IN  /\ found \subseteq wanted
        /\ \A k \in wanted \ found : \E d \in omitted : k = d \/ Extends(k, d)
        /\ \A d \in omitted : \E k \in wanted :
             k = d \/ (Extends(k, d) /\ Len(k) = Len(d) + 1)
=============================================================================
