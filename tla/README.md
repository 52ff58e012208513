# Verification of parquet-file-fs

parquet-file-fs stores many small files in a few parquet shards and serves
them as a read-only file system: a Rust core (`crates/core`), Python bindings
(`crates/py`), an fsspec layer (`python/parquet_file_fs`) and a packing command
(`crates/cli`). This directory holds TLA+ models of its core, the TLC runs that
check them, and theorems that TLAPS proves about them.

    tlc -config MCPackWriter.cfg MCPackWriter     # one run
    tlapm PackWriterProofs.tla                    # one module of proofs

## The system

| Component | State | Operations | Talks to |
|---|---|---|---|
| pack writer (`pack.rs`) | `out.tmp`, the parquet writer, buffered rows, the set of paths seen | `create`, `append`, `flush_row_group`, `finish`, `Drop`, driven by `write_pairs` and `pack_archive` | file system, parquet writer |
| pack sources (`pack.rs`) | none | `pack_files`, `pack_glob`, the zip, tar, 7z and rar loops; from names to stored paths | file system, archive readers, the pack writer |
| shard index (`index.rs`) | `shards`, `files`, `dirs`; immutable once built | `build_index` with `normalize`, `locate`, `detect_column`, `path_strings` | adapters, parquet reader |
| listings (`index.rs`, `fs.py`) | none | `ls`, `info`, `exists`, `find`, `glob`, and fsspec's `walk` | the index |
| value conversion (`archive.rs`, `lib.rs`) | none | `binary_value`, `meta_value`, `meta_to_py` | arrow |
| archive (`archive.rs`) | the LRU cache of decoded content columns and the map of row group details, each behind a mutex | `open`, `read`, `info` | the index, parquet reader |
| chunk reader (`chunk_reader.rs`) | a length taken when the index was built | `read`, `get_bytes` | adapters |
| adapters, registry (`adapter.rs`) | a process-wide map of scheme to adapter behind an `RwLock` | `register`, `resolve`, local `size`, `read_range`, `list` | Python objects, through the bindings, under the GIL |
| native adapter (`native.rs`) | object stores per host behind a mutex | `size`, `read_range`, `list` | S3, HTTP |
| bindings, fsspec layer, command line | none | conversions and delegation; the bindings release the GIL during core calls | everything above |

What is hard here:

* *Packing* is about failure and other callers. `out` must change in one step
  or not at all, whatever fails, is killed or runs next to it; and the temp
  file has a fixed name.
* *Reading* is about threads. The bindings release the GIL, so any number of
  threads are inside one `Archive`; a lookup, the decode after a miss and the
  insertion are separate critical sections.
* *Indexing* is about bookkeeping. The parquet reader hands out rows, not
  places; the code infers the place from a count and a binary search, and the
  directories from a climb that stops early.
* *Storage* changes under an open archive, and adapters are foreign code that
  may fail, answer in the wrong length, stall or call back into the process.
* *Adapters* are written in Python and kept in Rust: the registry's lock and
  Python's global lock are taken in both orders, and dropping an object may run
  Python code.
* *Names* are compared in four places (the index, `find` and `glob` in Python,
  the packing of files and of archives) and sorted as bytes, where `/` is a
  byte among others.

What makes each component correct:

* pack writer: an output is always a whole shard; a call that returns Ok
  published exactly its rows; an error leaves the output alone and, if it can
  be removed, no temp file behind; row groups end where the byte threshold or
  the parquet writer's limit on rows says.
* shard index: a file's location is the row the duplicate policy selects; no
  row is missing; the directories are the files' parents.
* chunk reader: a stream yields the shard's bytes in order, whatever lengths
  the adapter answers with; a range is whole or an error; a stream ends, at the
  size and not before.
* archive: cached values are those of their key; the cache is a true LRU;
  replies fit their calls; no deadlock, no mutex poisoned for good.
* registry: a shard is read with an adapter its scheme had while the archive
  was being opened; who holds the lock does not wait; every call returns.
* native adapter: a request goes to its host; threads share one client; a glob
  that code and library read alike lists what matches; a host that hangs stops
  nobody else.
* listings: `ls` gives each child once; `ls`, `find`, `glob` and `walk` agree,
  as long as every file that is listed has an info.
* pack sources, archive entries: stored paths are what the index reads; nothing
  that was asked for is left out of a call that succeeds; the first error is
  the one returned.
* value conversion: values that differ look different.

The hazards these properties are for are listed in `PROJECT.json`, each with
its line and the properties that cover it, or the reason why none does.

## The models

### AtomicOutput, PackWriter

`AtomicOutput` is the promise of a pack call: it publishes, in one step, the
rows it was given, or returns an error and has not touched the output. Rows
that are empty or name a path twice are an error.

`PackWriter` is the code. A *packer* is a thread or process; it runs one call
at a time and then may run another. `call` holds the call's arguments after
gathering, `w` the fields of the `PackWriter` struct, `pc` the place between
two system calls, `result` what will be returned.

| Action | Code |
|---|---|
| `Begin`, `Refuse` | gathering and sorting pairs; an early return before a writer exists |
| `Create` | `PackWriter::create`: open and truncate `out.tmp`, new or left over; `ArrowWriter::try_new` may fail |
| `AppendRow`, `RejectDuplicate` | `append`; at the threshold the flush begins |
| `WriteGroup` | one row group of a `flush_row_group` |
| `EmptyArchive` | the check before `finish` in `pack_archive` |
| `FinishFlush`, `Close`, `Rename` | `finish`: the last flush, footer, rename |
| `IoError` | any read, write or rename that fails |
| `Drop` | `Drop for PackWriter`, whose removal may fail unnoticed, and the return |
| `Kill` | the process dies; no `Drop` |

The file system is modelled as far as the code relies on it: names link to
inodes, an inode lives while it has a name or an open handle, every handle has
its own position, and a write behind the end leaves a hole. That is what makes
two calls on one temp file visible. A file is a sequence of blocks, one per row
group and one for the footer; the encoding inside a block is left out. The
parquet writer may buffer and write a block later than the call that produced
it; a kill in between is the same as a kill before the write.

The writer's properties (`pack.rs:112`) leave the parquet library's own limit on
the rows of a group as it is: 1,048,576, here `MaxRows`. A flush of more rows
than that, which only tiny or empty files come to below the byte threshold, is
several row groups, and fails between two of them as well. `orphaned` is a
history variable: the outputs whose temp file was left behind, by a kill or
because `remove_file` failed and `Drop` ignores that (`pack.rs:194`).

What a call gathers (`Inputs`) is any sequence of path and size; `write_pairs`
sorts, `pack_archive` keeps the order of the archive.

### ArchiveCache

Threads call `read` and `info`. The index is immutable, so calls meet only in
`chunks`, a sequence with the most recent entry first, and `details`. Each lock
scope of the code is a `Lock` step and one action that works under the lock and
releases it (`GetDetail`, `GetChunk`, `PutChunk`, `InsertDetail`); decoding
(`Decode`, `ComputeSizes`, `DecodeExtra`) runs between the scopes. `ReadFails`
is every `?` on the way; `Panic` is a panic in the decoder or an index out of
range, which unwinds to a Python exception, so the process and the other
threads go on, and poisons the mutexes whose guards it drops. `lock().unwrap()`
on a poisoned mutex panics. `recent` is a history variable: the row groups by
last use.

### ShardIndex

`build_index` step by step. A build's `input` is its arguments and the storage
they find: what each source lists and what each url holds. `Expand` lists one
source, `OpenShard` reads a footer and finds the columns, `AddGroup` adds one
row group offset, `IndexRow` files one row, `AddParents` climbs from one file.
`at` is the parquet reader's real position; the code does not have it, it has
`global` and the offsets. `BadBatch` refuses a null or a path column of another
type before any row of the batch is filed; how rows form batches is left open,
and so is the order in which files give their directories, because the outcome
must not depend on either. Paths are sequences of segments, which keeps
`normalize` (`Without` of `PathSegments`) and `rfind('/')` exact; shards, row
groups and rows count from 1. The path column's values are given as such: a
shard has one column of paths, the one detection chooses.

### RangeReads

One shard, its adapter and a reader over it. `file` is what the shard contains
now, `reader` the `AdapterChunkReader` with the size `build_index` took
(`OpenShard`), `stream` an `AdapterRead`. `ReadSome`, `ReadEnd` and `ReadFails`
are the ways out of `AdapterRead::read`, `GetBytes` is `get_bytes`, `Replace`
is someone who renames another file over the shard, as a pack call does. The
adapter is `local`, which answers exactly or fails, or `loose`, which starts at
the right offset but gives what it likes, as Python code behind `PyAdapter`
may. One request is answered from one content. What the parquet crate asks for
is external: any range within the size it was told, one reading at a time,
since several readings have only the immutable reader in common. `seen` and
`asked` are history variables.

### Registry

The registry with its two locks. A thread enters from Python and so holds the
GIL: `BeginRegister` keeps it while it waits for the write lock, `BeginOpen`
gives it up for the whole of `build_index`. `LockWrite` and `Replace` are
`register`: `insert` returns the adapter it replaced, which is dropped before
the guard is. If it was the last reference and the object has a finalizer that
gives the GIL up (`Yielding`), the drop is the steps `YieldGil` and
`EndFinalizer`. `LockRead` and `Lookup` are `resolve`; `TakeGil` and `Answer`
are a call of an adapter, `Expand` (a source) or `Load` (a shard). What an
archive keeps are the scheme and the adapter of its shards. `promised` and
`seen` are history variables: the adapter of each scheme by the registrations
made, and what it was while a call ran. That only a finalizer is Python code
that runs here is a reading of `PyAdapter`, whose drop does nothing else.

### NativeAdapter

The adapter for s3, http and https. `Begin` is `list` or `size` up to the
mutex, `StoreFor` the rest of `store_for` under it, `Request` the request.
`read_range` takes the steps of `size`. `Sent` is what `Url::parse` and
`Path::from` make of a name. A host that is `Stalled` never answers.

A pattern is a sequence of segments, each with its text up to the first `*`,
`?` or `[`, whether it has one (`wild`), whether the glob library can read it
(`valid`) and what it matches there: sequences of names, as `**` matches any
number of levels. The library knows more than the code looks for, so what a
segment matches need not be its text though it is not wild: `{a,b}` and `\`.
Where the library reads nothing, there is no matcher and `Begin` answers the
text of `glob_split`, as the code does. Left out are patterns in which braces
hold a `/`. A build that panics in the client library, which would poison the
mutex, is not modelled.

### Listing

An archive is a set of paths in the byte order of strings (`Inner`, `Last`).
`Ls` starts a call of `Index::ls`, `Push` is an iteration of its loop, `EndLs`
the end or the `break`, with the sort. `Walk`, `Descend` and `EndWalk` are
fsspec's `walk`, which calls `ls` for every directory that `ls` gave. That `ls`
asks for the info of each file (`fs.py:51`), which decodes its row group and
may fail: with an OSError, `walk` leaves out the directory and all below it
without a word (`Omit`; its default is `on_error="omit"`), with any other
exception it ends (`Raise`). `omitted` is a history variable: the directories
left out. `find` and `glob` are single steps, since they work on one copy of
the paths; their answer keeps from which of the two lists, files or
directories, a name came. Globs are those that end in `*` or `**`, and plain
paths.

### PackSources

`pack_glob` and `pack_files` up to the writer. `PackGlob` tells a directory
from a glob, works out the pattern and the root; `Gather` takes one match or
one file of the list; `Gathered`, `Write` and `Finish` are the rest, with the
pairs sorted. Files come and go in between (`Change`). Paths are what lies
between slashes, so that `Clean`, `FixedPrefix` and `Trim` do to `.`, empty
segments and trailing slashes what `Path` and `PathBuf` do. A pattern has at
most one `**`, and one that ends in `.`, `**` or a slash matches directories
only. Not among the calls is a list with one spelling of a path twice.

A call without `root=` may fail because of the root that the code chose, in four
cases that `GoesWrong` names: a pattern with an empty segment inside
(`HollowInside`), a pattern with `..` behind a wildcard, which leads out of its
root and in again (`UpFromWild`), a directory whose name has a wildcard
(`GlobLikeName`), and the root of the disk, which is trimmed to nothing
(`RootOfDisk`).

### ArchiveEntries

`pack_archive`: `Open` chooses the format, then the loop. For zip, tar and rar
it is the code's own: `Pack` and `Refuse`. For 7z it is the library's, block by
block with the empty files at the end (`EndBlock`, `tail`), and the code's
closure keeps its error in `inner` and stops the loop with another one
(`Keep`), or passes an error of the reader on (`PassOn`); `EndSevenZ` decides
which is returned. `visited` and `raised` are history variables. The names of
entries are cut at both kinds of slash.

### CellValues

One row: its content cell and one extra cell. `Read` is what `read` makes of the
content, `Info` the size of it and the Python value that `info` gives. An
integer type is given by its span, the number of its values: any set of even
numbers (`Spans`) of which the widest, 2^64 in the code, is at least twice every
other, so that the casts of `meta_value` wrap as they do in the code. Texts are
sequences of characters with their UTF-8 bytes. Lists stand for all types that
are shown by arrow's formatter.

## The runs

| Run | Question | Instance |
|---|---|---|
| `pack_exclusive` | Are outputs whole, row groups cut where they should be, and is a call atomic, next to another caller? | 2 packers, 2 outputs never shared at once, 4 inodes, 5 inputs, threshold 2 bytes, at most 2 rows in a group |
| `pack_shared_out` | Is `out` left alone when two calls share it? (No.) | 2 packers, 1 output |
| `cache_safety` | Do racing misses, evictions, failures and panics keep both caches right, and does every call return? | 2 threads, 3 row groups, capacity 2, 2 calls per thread |
| `index_build` | Are locations, policy and directories right, and is no row missing? | 2 urls, up to 3 rows, every division into row groups, 3 policies |
| `reads_replaced` | Are bytes in place and streams complete while the shard changes, and requests inside it before that? Do streams end? | 5 contents of 0 to 4 bytes, 3 buffer sizes, both adapters |
| `reads_past_eof` | Do requests stay inside once it has been replaced? (No.) | the same |
| `registry` | Are adapters current, does a holder of the lock run, does every call return? | 2 threads, 1 own and 1 built-in scheme, 2 adapters, one with a finalizer that gives the GIL up, archives of up to 1 source with up to 1 url, 2 calls each |
| `native` | Does a glob list every match? Does a stalled host stop others? | 2 threads, 3 schemes, 2 hosts and none, 8 patterns of up to 2 segments, 6 objects, 1 call each |
| `listings` | Is `ls` exact, do `ls`, `find` and `glob` agree, and what does a walk miss? | every tree of up to 4 of 12 paths, 7 paths to ask for |
| `pack_sources` | Are stored paths right, is nothing left out, is the root above the matches? | 52 directories, 58 calls, 1 change meanwhile |
| `archive_entries` | Is the first error returned, and is a success whole? | up to 3 entries; for 7z 2 blocks of up to 2, and a tail |
| `cell_values` | Do scalars reach the caller as different values? | all integers of 1, 2, 4 and 8 bits, texts and lists of up to 2 |

TLAPS proves for all ten models that every variable keeps its type. Only two
runs still check it, those of PackSources and CellValues, where the type says
what a conversion gives; the others are spent on what is less obvious. The same
goes for a few further invariants that are proved (`NeverPoisoned`,
`StoresFitUrls`, `StoresAreShared`, `LoopIsExact`).

Why the bounds are enough:

* `pack_*`: the inputs are an empty archive; zero-byte files only (nothing is
  flushed before `finish`); a duplicate; unsorted rows, the first a full group
  by itself, the others one together; and two rows that pass the threshold
  together, with a third behind them. Groups end at and above the threshold, the
  last one below it; with `MaxRows = 2` the zero-byte files and two rows before
  a third reach the other limit, and one flush makes two groups. Two packers
  give every pair of steps; a third would share its output with one of them or
  have its own. Calls repeat without limit, so leftovers of killed calls are met
  again. Inodes are reused.
* `cache_safety`: three row groups for two places make evictions, and two
  threads asking for one row group make racing misses on one key; one row
  group has extra columns, so that `detail` takes its second path too.
  `MaxCalls` bounds the calls per thread; the four calls of both fill the
  cache, evict and come back. The library's capacity is 4. No symmetry is used,
  because liveness is checked.
* `index_build`: three rows are enough for first, middle and last row of a
  group, an empty group before, between and after, a duplicate across groups
  and, with the second shard, across shards; a shard listed twice is an input.
  Paths with doubled and trailing slashes are among them.
* `reads_*`: the contents are a shorter, a longer, an equally long and an empty
  one; buffers are smaller than, as large as and larger than what is left, so
  that short, exact and surplus answers meet each of them.
* `registry`: with two adapters, two schemes and two calls each, an adapter is
  replaced while a call uses it, while the other scheme has it, and when nobody
  does, so that its finalizer runs. An archive looks its scheme up once for the
  source and once for the shard, and a register call may come in between.
* `native`: one segment before and one after the wildcard; the names are such
  that a prefix cut elsewhere would miss an object. `**` matches none, one or
  two levels; braces stand before the wildcard and behind it; one glob does not
  parse. Two threads build one
  client at once, or two of one host in two schemes, or one for the host that
  stalls and one for the other.
* `listings`: `a-` sorts between `a` and `a/`, so a name comes between another
  one and its children, and the range of `ls` has something before it, in it and
  behind it; names that are a file and a directory are among the trees. Any ls
  of a walk that lists a file may fail, in either way.
* `pack_sources`: patterns with every kind of first and last segment, relative,
  absolute, with `.`, `..` and empty segments, a directory called like a glob,
  and roots that fit and do not; one change is enough to remove or add the file
  a step is about.
* `archive_entries`: a good entry before, between and after every kind of bad
  one, in the first block, the second and the tail.
* `cell_values`: the values at and on both sides of every width's limits.

Deadlock is checked except where the threads stop: in `cache_safety` and
`native` after `MaxCalls` calls (in the latter a stalled host may also keep them
all), and in `registry` when a finalizer blocks the rest. The specifications of
single calls may stay where they ended.

*Fairness.* `cache_safety`, `registry` and `native` assume that a thread that
can take a step eventually does (weak fairness per thread). Neither a std mutex
nor the GIL promises an order among its waiters; weak fairness is enough because
the calls are bounded, so nobody can overtake forever. `reads_replaced` assumes
that the owner of a stream reads on. An adapter that never answers is outside
all of them but `native`, which is about it. The other models are about what a
call returns and assume no fairness.

Every property has been tried against a fault put into the code's model: the
definitions marked *Fault* in the modules, each standing before the definition
it replaces and used by no specification. `PROJECT.json` pairs them.

## Findings

1. `pack.rs:238` says that on an error before `finish()` "`out` is left
   untouched". Two calls for the same output share `out.tmp`
   (`pack_shared_out`): A creates it, B opens the same inode and truncates it,
   A closes and renames it onto `out`; now B writes into the file readers see,
   and when B fails `out` stays as B left it. With one call per output at a time
   (`SharedOut = FALSE`) this does not happen, and that is what the theorems
   assume. A temp name that no two calls share would do as well.
2. `adapters.py:6` promises the author of an adapter that "callers never
   request past EOF". The size of a shard is taken once (`index.rs:226`), while
   the footer is read again for each row group (`archive.rs:141`); when a
   shorter shard has replaced the indexed one, the request goes past the end
   (`reads_past_eof`). Until a replacement it does not (`RequestsAreInside`).

The models show further places where code and words differ. They have no run of
their own: the properties name them as exceptions or the modules state them in a
constant, and hold for everything else.

* `pack.rs:190` calls the `Drop` after a successful `finish()` "a best-effort
  no-op". If another call for this output has created `out.tmp` between A's
  rename and A's drop, A removes B's file, and B's rename fails.
  `DropAfterFinishIsNoop` holds in `pack_exclusive` only because outputs are not
  shared.
* `adapters.py:44` says that registering a scheme again replaces its adapter,
  always. If the finalizer of the replaced one gives the GIL up, the call that
  replaced it waits for the GIL with the write lock (`adapter.rs:92`), and
  another `register_adapter` waits for the lock with the GIL: neither returns.
  It is the exception in `LockHoldersRun` and `EveryCallReturns`. Dropping the
  adapter after the guard would do.
* `adapter.rs:36`: "Expand a glob pattern into concrete URLs". The URL listed
  for a key with a space is encoded twice on its way to a request
  (`native.rs:113`), which then names another key. `ListsComplete` assumes that
  names are sent as they are written (`Sent`).
* The same line, for patterns that code and library read differently.
  `native.rs:26` looks for `*`, `?` and `[`, while globset knows `{a,b}` and `\`
  too: `s3://b/{x,y}/*.parquet` is listed below the prefix `{x,y}/`, where no
  match is, and `s3://b/{x,y}.parquet` lists itself. A glob that globset cannot
  read (`native.rs:30`) has no matcher, and `list` answers the text left of its
  wildcard as if it were a URL (`native.rs:138`), whatever the scheme.
  `ListsEveryMatch` is about the other patterns (`Understood`).
* `pack.rs:189-192` and `pack.rs:238-239` ("the temp file is cleaned up"): `Drop`
  throws the error of `remove_file` away (`pack.rs:194`), so a call may return
  and leave its temp file, and nobody is told. `TmpHasOwner` has it as an
  exception (`orphaned`); the next call for the output takes the file over, and
  `OutAlwaysWhole` holds all the same.
* `pack.rs:50`: "Flush a row group once buffered content reaches this many
  bytes". A row group also ends at the parquet writer's own limit on rows
  (`MaxRows`), within a flush.
* `walk`, and what fsspec builds on it, gives an incomplete tree without an
  error: when the info of one file raises an OSError (`fs.py:51`; `lib.rs:13-22`
  says which errors do), the files and directories of its directory are left
  out. `WalkFindsTree` says that nothing else is missing.
* The design says (lines 23-24) that listings show a name once that is a file
  and a directory. `find` with `withdirs` and `glob` give it twice
  (`fs.py:70`): in the model, from `paths` and from `dirs`. `ListingsAgree`
  compares the sets of names.
* The design says (lines 20-22) that `a//b` names what `a/b` does. `find` of
  `a//b` finds nothing below it (`fs.py:65`); `ListingsAgree` asks `find` and
  `glob` about every spelling that has no doubled `/` inside.
* `pack.rs:277`: "Longest wildcard-free directory prefix". An empty segment
  within a pattern makes the prefix start anew at `/` (`pack.rs:287`), and the
  call fails with a file outside its own root (`HollowInside`).
* `pack.py:10`: "an existing directory (packs everything under it)". The name
  of the directory becomes part of a glob (`pack.rs:303`): for `x[1]`, no
  files match (`GlobLikeName`). The root directory fails in a similar way
  (`RootOfDisk`).
* `test_core.py:60`: "Extra columns of any arrow type reach metadata". A u64
  of 2^63 or more comes out negative (`archive.rs:92`), which loses nothing:
  `ScalarsStayApart`.
* The design says (line 105) that non-scalar values become their Python
  equivalents. Lists become a text in which two lists can look alike
  (`archive.rs:107`); `ScalarsStayApart` leaves them out.

## What is proved

Every invariant and every action property that a run checks is also a theorem,
for every value of the constants that satisfies the named assumptions, and so is
the refinement; the proofs are checked to the last leaf. The induction follows
the same pattern each time: an invariant that implies the properties, one step
per action, and a temporal step.

The assumptions say of which kind a constant is: `CacheAssumption`,
`ArchiveAssumption`, `ListingAssumption`, `InputAssumption`, `PathAssumption`,
`ContentsAssumption`, `SourcesAssumption`, `CallsAssumption` and so on; TLC
evaluates each. Those that say more are about the world outside the code:
`NamesAssumption` (no output is named like another's temp file),
`OrderAssumption` (names are ordered as strings are), `FilesAssumption` (a file
of the disk ends in a name and has a `/` in front only), `SpansAssumption` (see
CellValues), `CellAssumption` (a character has one to four bytes) and a part of
`NativeAssumption` (the last segment of a pattern matches one name at least).

**SequenceLemmas** holds what several proofs need. The provers do not take an
induction theorem that has an operator as its parameter, so induction over
numbers is stated in terms of a set (`Induction`: a set with 0 and with the
successor of each member has all numbers), which follows from the library's
theorem on well-founded orders. With it, what a recursive function computes can
be proved: `Without`, the filter of `PathSegments` that `normalize`,
`Path::components` and the tests of entries' names come down to, is unfolded by
`WithoutRecursion`, and the other `Without` lemmas say what it keeps, in which
order, and what it does to two sequences in a row.

**PackWriterProofs**, assuming that no two live calls name one output:
`OutputsAreWhole`, `NoTempLeftBehind`, `OkMeansStored`,
`GroupsAreSplitAtThreshold`, `OutputsChangeOnlyByRename`, `CleanupIsNoop`, and
`ImplementsAtomicOutput`, the refinement of `AtomicOutput`. The properties are
not inductive alone. Added are: a temp inode is open by its own call only
(`Exclusive`, `OneName`, `Handles`), and the blocks in it are the row groups the
writer believes it wrote, at their positions, whatever a killed call had left
there (`Contents`). Then the file is whole when it is renamed. For the
threshold, `Sized` adds that the writer's counters are the sums of the sizes of
the rows they stand for (`Measured`): the code adds a size at a time and starts
anew at a cut, while the property speaks of the rows between two cuts.
A group may also be one the parquet writer closed at its own limit (`MaxRows`,
any number of rows): a flush is then the groups since the last one that ended
at the threshold, all but its last full of rows.
`OffsetsRecursion` is the induction behind these sums. The files and bytes that
an Ok call reports are right for the same reason (`OkMeansStored`).

**ArchiveProofs** is about ArchiveCache and CellValues. `Coherence`, `Recency`,
`RepliesCorrect` and `LockDiscipline` hold for any number of threads, row groups
and places. The properties are inductive together with `CallFits` (a thread past
the lookup has a file, and on the way to a detail it runs `info`);
`LocksAreShort` is what makes `NeverPoisoned` inductive, since a panic can only
meet a thread without a guard. `CellTypeCorrect` and
`ScalarsAreTold` hold for any cells and any widths of the integer types: an
answer depends on the row alone (`Answers`), so that the work is in the
conversions. `CastFacts` is the one that could be wrong: the cast to i64 is the
identity below half of the widest span and takes the span off above it, hence
never gives two values of one type the same number.

**ShardIndexProofs**: `FilesAreLocated`, `NothingIsMissing`, `DirsAreRight`,
`DuplicatesExist`, for any shards, row groups and paths. The heart is
`CountIsPlace` with `OffsetsAreRight`: the count of rows equals the offset of
the reader's row group plus the rows delivered from it, and by
`LocateFindsReader` the binary search then returns exactly that place, since an
empty group has the offset of its successor and the search takes the last of
equals. `DirsAreClosed` says that every known directory has its parents, which
is why the climb may stop.

**AdapterProofs** is about RangeReads and NativeAdapter. `StreamsFollowShards`,
`RangesAreWhole`, `EndsAreEnds`, and, until a shard is replaced,
`RequestsAreInside`: what makes them inductive is that a stream's position is
its start plus the bytes it yielded (`PosFollowsBytes`), that the present
content is among those seen, and that its length is the reader's size while
nobody replaces it (`SeenHoldsFile`). `RequestsFit`, `ClientsShared`, and
`ListsComplete`, which has a hypothesis: that requests leave names alone (`Sent`
is the identity, which is not so for a name with a space). It speaks of the
patterns that code and library read alike, and there for globs of any length,
`**` included: the front of such a pattern matches its own names alone, one
after the other, so whatever matches lies below them (`FrontMatches`). The map
has one client per key, made for it (`MapCoherent`), and a client that a call
has is in the map. That a pattern has a first wildcard rests on the order of the
natural numbers.

**RegistryProofs**: `Currency` and `LockOrder`, for any threads, schemes,
adapters and finalizers. A lock's holder is told by its place in the code
(`LocksByPlace`), and a call works with the adapter its own scheme had when it
looked it up. `LockOrder` names the one wait that may not end, so that the
finalizer above is the only way for these calls to block each other.

**ListingProofs**: `LoopExact`, `ListingExact`, `ListingsAreOne` and
`WalkFindsAll`, for every set of files and every order of names that is that of
strings. The argument for `ls` is about the byte order: the files below a
directory are neighbours in it and come first among those not before the
directory's name with its `/`. Hence what the loop has not reached is what is
left of the range, and what it has pushed are the children among the files it
has passed. `ListingsAreOne` then shows that one level of `find`
(`FindGivesLevel`) and of `glob` (`GlobGivesLevel`) are the children too; for
`glob` only where the directory's own name has no wildcard, since `glob` would
match it; every spelling without a doubled `/` inside is stripped to the same
text. `WalkFindsAll` needs an invariant of the whole walk (`WalkState`): every
file with no file in its way has been found, or is in or below a directory that
is still to be listed, or in or below one that was left out.

**PackInputProofs** is about ArchiveEntries and PackSources. Archives:
`FirstError`, `PathsCanonical`, `RowsAreFiles`, `PackedWhole`, for every
archive. No error leaves the loop running; at its end the error of a 7z archive
is in `inner` or in `error`, and `WhereErrorsAre` says when. As long as there is
none, every file is in a row or still to come (`NothingLost`), and the loop ends
when nothing is (`Drained`). The rows are the files among the entries visited,
in their order, but for the entry that raised an error (`FilesHaveRows`).

Files: `SourcesTypeCorrect`, `PathsOfFilesCanonical`, `DefaultRootIsAbove` and
`AllIsPacked`, for all files, patterns and roots, and however the disk changes
during the call (`SourcesInv`). `DefaultRootIsAbove` rests on a fact about
texts: a pattern without its `.` and empty segments is its default root followed
by the rest, with every wildcard in the rest (`PrefixFacts`), and a pattern that
matches a file segment by segment matches its front against the front of the
file (`MatchesBelow`). It is there that the four exceptions are needed, each in
a step of its own. `AllIsPacked` says of every file wanted and never touched
that it is among the matches, the pairs or the rows (`WantedAreOnTheirWay`); for
a directory the glob made of it matches all below it, and nothing else
(`DirGlob`).

## What is only model-checked

* Liveness (`EveryCallReturns`, twice, `StreamEnds`, `OthersReturn`): fairness
  and ENABLED are out of the prover's reach.
* The findings, which are counterexamples.

## What is not modelled

* What a read of an open archive gives when a shard was replaced by one with
  other rows (`archive.rs:209`): it is what the parquet reader makes of a footer
  and of pages of two files, and depends on its file format. RangeReads has the
  bytes.
* A write-back cache of the file system: the code does not sync before its
  rename, and promises nothing about a power failure (`pack.rs:179`).
* Packing a directory that holds the output, or a temp file of a killed call
  (`pack.rs:316`): the files of PackSources are any, the output is none of them.
* `LocalAdapter::list` and `FsspecAdapter`: their matches and errors are those
  of the glob crate and of other filesystems. `LocalAdapter::list` leaves out
  what it could not read (`adapter.rs:79`).
* Panics in the libraries under the mutex of the native adapter.
* `cat_file`, `_open` and the methods that refuse to write: a Python slice, a
  wrapper and a `raise`.
* Parsing of arguments, printing, exception classes, compression, the text of
  error messages; platforms where an open file cannot be removed; shards that
  are changed in place; release tooling.

## How the modules came about

The order was that of what can go wrong most: `PackWriter` with `AtomicOutput`
(data can be destroyed), `ArchiveCache` (threads meet), `ShardIndex` (every read
depends on it), `RangeReads` (storage changes); then `Registry` and
`NativeAdapter` (locks around foreign code), `Listing`, `PackSources` and
`ArchiveEntries` (names), `CellValues`. Proofs about two models that share their
lemmas share a module. The modules meet at data: what
`PackSources` and `ArchiveEntries` append are inputs of `PackWriter`, sorted or
not, with duplicates or without;
`PackedPathsAreCanonical` and `StoredPathsAreCanonical` are what `ShardIndex`
asks of a path; `Listing` takes
the files and `DirsAreParents` from `ShardIndex`; failures of adapters are steps
of `ArchiveCache`. Left for later is a module that composes them into the round
trip: what was packed under a path is what a read of that path returns.
