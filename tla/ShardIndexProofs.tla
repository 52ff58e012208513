------------------------- MODULE ShardIndexProofs -------------------------
(***************************************************************************)
(* Theorems about ShardIndex, for any urls, paths, shards and arguments.   *)
(***************************************************************************)
EXTENDS ShardIndex, SequenceLemmas, SequenceTheorems, TLAPS
-----------------------------------------------------------------------------
(* The inductive invariant. *)

Alive == pc \notin {"failed", "duplicate"}

(* The urls are those of the sources listed so far, none of them empty.    *)
UrlsAreListed ==
  \A i \in 1..expanded :
    /\ input.sources[i] # <<>>
    /\ \A j \in 1..Len(input.sources[i]) :
         \E k \in 1..Len(urls) : urls[k] = input.sources[i][j]

(* The shards are the first of the urls. *)
ShardsFollowUrls ==
  /\ Len(shards) <= Len(urls)
  /\ \A s \in 1..Len(shards) : shards[s].url = urls[s] /\ FileOf(s) # NoFile

(* n offsets, each the number of rows in the groups before it. *)
AreOffsets(offsets, groups, rows) ==
  /\ Len(offsets) <= Len(groups)
  /\ \A j \in 1..Len(offsets) :
       /\ j = 1 => offsets[j] = 0
       /\ offsets[j] + Len(groups[j]) <= rows
       /\ j = Len(offsets) => rows = offsets[j] + Len(groups[j])
       /\ j < Len(offsets) => offsets[j + 1] = offsets[j] + Len(groups[j])
       /\ \A k \in 1..Len(offsets) :
            j < k => offsets[j] + Len(groups[j]) <= offsets[k]
  /\ offsets = <<>> => rows = 0

OffsetsAreRight ==
  pc \in {"groups", "rows"} =>
    /\ shards # <<>>
    /\ AreOffsets(Offsets, Groups, acc)
    /\ pc = "rows" => Len(Offsets) = Len(Groups)

(* The count of rows agrees with the place of the reader. *)
CountIsPlace ==
  /\ at.row_group > 0 /\ at.row > 0
  /\ pc = "groups" => at = [row_group |-> 1, row |-> 1]
  /\ pc = "rows" /\ Groups # <<>> =>
       /\ at.row_group <= Len(Groups)
       /\ at.row <= Len(Groups[at.row_group]) + 1
       /\ global = Offsets[at.row_group] + at.row - 1

(* Between two shards the reader has delivered everything. *)
NothingIsSkipped ==
  /\ pc \in {"next", "dirs", "done"} =>
       \A s \in 1..Len(shards) : \A l \in RowsIn(s) : Earlier(l, Reader)
  /\ pc \in {"dirs", "done"} => AllOpened

NamesAreNotEmpty == <<>> \notin DOMAIN files

(* The directories are closed under parents, which is why the climb may    *)
(* stop at the first one it meets.                                         *)
DirsAreClosed ==
  /\ \A d \in dirs : Parents(d) \subseteq dirs
  /\ dirs \subseteq UNION {Parents(p) : p \in DOMAIN files}
  /\ pc \in {"next", "groups", "rows"} => dirs = {}
  /\ pc \in {"dirs", "done"} =>
       \A p \in DOMAIN files \ todo : Parents(p) \subseteq dirs
  /\ pc = "done" => todo = {}

Inductive ==
  /\ TypeOK /\ UrlsAreListed /\ ShardsFollowUrls /\ OffsetsAreRight
  /\ CountIsPlace /\ NothingIsSkipped /\ NamesAreNotEmpty /\ FilesFollowRows
  /\ DirsAreClosed /\ DuplicateIsReal
-----------------------------------------------------------------------------
(* Helpers. *)

(* Whatever is in a path column, its normalized paths are of segments. *)
LEMMA NormalizeType ==
  ASSUME NEW raw \in RawPaths
  PROVE  Normalize(raw) \in Seq(Segments)
<1> DEFINE S == Segments \cup {""}
           R == S \ {""}
           norm == Without(raw, {""})
<1>1. raw \in Seq(S)
  BY PathAssumption
<1>2. R \subseteq Segments
  OBVIOUS
<1>3. norm \in Seq(R)
  <2> HIDE DEF S
  <2> QED
    BY <1>1, WithoutType
<1> HIDE DEF R, norm
<1>4. norm \in Seq(Segments)
  BY <1>2, <1>3
<1> QED
  BY <1>4 DEF Normalize, norm

LEMMA FirstIsNat ==
  ASSUME NEW S \in SUBSET Nat
  PROVE  First(S) \in Nat
<1>1. CASE S = {}
  BY <1>1 DEF First
<1>2. CASE S # {}
  <2>1. \E m \in S : \A j \in S : m <= j
    BY <1>2, LeastElement
  <2> QED
    BY <1>2, <2>1 DEF First
<1> QED
  BY <1>1, <1>2

LEMMA DetectIsNat ==
  ASSUME NEW fields, NEW candidates, NEW explicit,
         Len(fields) \in Nat, Len(candidates) \in Nat
  PROVE  Detect(fields, candidates, explicit) \in Nat
<1>1. \A n : First({i \in 1..Len(fields) : fields[i].name = n}) \in Nat
  BY FirstIsNat
<1>2. \A n : First({i \in 1..Len(fields) : Lower[fields[i].name] = n}) \in Nat
  BY FirstIsNat
<1> QED
  BY <1>1, <1>2 DEF Detect

(* The binary search finds the row group of a row, empty row groups before *)
(* it or behind it notwithstanding.                                        *)
LEMMA LocateFindsReader ==
  ASSUME NEW offsets \in Seq(Nat), NEW groups, NEW rows \in Nat,
         \A j \in 1..Len(groups) : Len(groups[j]) \in Nat,
         Len(groups) = Len(offsets),
         AreOffsets(offsets, groups, rows),
         NEW g \in 1..Len(offsets), NEW r \in 1..Len(groups[g]), NEW s,
         NEW n \in Nat, n = offsets[g] + r - 1
  PROVE  Locate(s, offsets, n) = [shard |-> s, row_group |-> g, row |-> r]
<1> DEFINE Splits(m) == /\ \A k \in 1..m : offsets[k] <= n
                        /\ \A k \in (m + 1)..Len(offsets) : offsets[k] > n
<1>1. /\ Len(offsets) \in Nat /\ r \in Nat /\ r >= 1 /\ Len(groups[g]) \in Nat
      /\ \A k \in 1..Len(offsets) : offsets[k] \in Nat
  OBVIOUS
<1>2. ASSUME NEW k \in 1..g PROVE offsets[k] <= n
  <2>1. CASE k = g
    BY <2>1, <1>1
  <2>2. CASE k < g
    <3>1. k \in 1..Len(offsets) /\ Len(groups[k]) \in Nat /\ offsets[k] \in Nat
      BY <1>1
    <3>2. offsets[k] + Len(groups[k]) <= offsets[g]
      BY <2>2, <3>1 DEF AreOffsets
    <3> QED
      BY <3>1, <3>2, <1>1
  <2> QED
    BY <2>1, <2>2
<1>3. ASSUME NEW k \in (g + 1)..Len(offsets) PROVE offsets[k] > n
  <2>1. k \in 1..Len(offsets) /\ g < k /\ offsets[k] \in Nat
    BY <1>1
  <2>2. offsets[g] + Len(groups[g]) <= offsets[k]
    BY <2>1 DEF AreOffsets
  <2> QED
    BY <2>1, <2>2, <1>1
<1>4. Splits(g)
  BY <1>2, <1>3
<1>5. ASSUME NEW m \in 0..Len(offsets), Splits(m) PROVE m = g
  <2>1. CASE m < g
    <3>1. g \in (m + 1)..Len(offsets)
      BY <2>1, <1>1
    <3>2. offsets[g] > n
      BY <3>1, <1>5
    <3> QED
      BY <3>2, <1>1
  <2>2. CASE g < m
    <3>1. g + 1 \in 1..m /\ g + 1 \in (g + 1)..Len(offsets)
      BY <2>2, <1>1
    <3>2. offsets[g + 1] <= n /\ offsets[g + 1] > n
      BY <3>1, <1>3, <1>5
    <3> QED
      BY <3>1, <3>2, <1>1
  <2> QED
    BY <2>1, <2>2, <1>1
<1>6. PartitionPoint(offsets, n) = g
  <2>1. g \in 0..Len(offsets)
    BY <1>1
  <2>2. PartitionPoint(offsets, n) = CHOOSE m \in 0..Len(offsets) : Splits(m)
    BY DEF PartitionPoint
  <2> HIDE DEF Splits
  <2> QED
    BY <2>1, <2>2, <1>4, <1>5
<1>7. n - offsets[g] + 1 = r
  BY <1>1
<1> QED
  BY <1>6, <1>7 DEF Locate

LEMMA RowsInFacts ==
  ASSUME NEW s, NEW l
  PROVE  l \in RowsIn(s) <=>
           \E g \in 1..Len(FileOf(s).groups) : \E r \in 1..Len(FileOf(s).groups[g]) :
             l = [shard |-> s, row_group |-> g, row |-> r]
BY DEF RowsIn

LEMMA RowsReadFacts ==
  ASSUME NEW l
  PROVE  l \in RowsRead <=>
           \E s \in 1..Len(shards) : l \in RowsIn(s) /\ Earlier(l, Reader)
BY DEF RowsRead

(* What a step leaves alone when it moves neither the reader nor a shard.  *)
LEMMA SameRows ==
  ASSUME input' = input, at' = at, Len(shards') = Len(shards),
         \A s \in 1..Len(shards) : shards'[s].url = shards[s].url
  PROVE  /\ \A s \in 1..Len(shards) :
              FileOf(s)' = FileOf(s) /\ RowsIn(s)' = RowsIn(s)
         /\ Reader' = Reader
         /\ RowsRead' = RowsRead
         /\ \A l \in RowsRead : PathAt(l)' = PathAt(l)
<1>1. \A s \in 1..Len(shards) : FileOf(s)' = FileOf(s) /\ RowsIn(s)' = RowsIn(s)
  BY DEF FileOf, RowsIn
<1>2. Reader' = Reader
  BY DEF Reader
<1>3. ASSUME NEW l PROVE l \in RowsRead' <=> l \in RowsRead
  BY <1>1, <1>2, RowsReadFacts DEF RowsRead, Earlier
<1>4. ASSUME NEW l \in RowsRead PROVE PathAt(l)' = PathAt(l)
  <2>1. l.shard \in 1..Len(shards)
    BY RowsReadFacts, RowsInFacts
  <2> QED
    BY <2>1, <1>1 DEF PathAt
<1> QED
  BY <1>1, <1>2, <1>3, <1>4

LEMMA SameFiles ==
  ASSUME FilesFollowRows, Alive, input' = input, files' = files,
         RowsRead' = RowsRead, \A l \in RowsRead : PathAt(l)' = PathAt(l)
  PROVE  FilesFollowRows'
BY DEF FilesFollowRows, Alive, Earlier

(* A build that fails leaves everything else as it was. *)
LEMMA FailKeeps ==
  ASSUME Inductive, Fail("failed")
  PROVE  Inductive'
<1> USE DEF Fail
<1>1. TypeOK'
  BY DEF Inductive, TypeOK, Ended
<1>2. UrlsAreListed'
  BY DEF Inductive, UrlsAreListed
<1>3. ShardsFollowUrls'
  BY DEF Inductive, ShardsFollowUrls, FileOf
<1>4. OffsetsAreRight' /\ NothingIsSkipped' /\ FilesFollowRows' /\ DuplicateIsReal'
  BY DEF OffsetsAreRight, NothingIsSkipped, FilesFollowRows, DuplicateIsReal
<1>5. CountIsPlace' /\ NamesAreNotEmpty' /\ DirsAreClosed'
  BY DEF Inductive, CountIsPlace, NamesAreNotEmpty, DirsAreClosed
<1> QED
  BY <1>1, <1>2, <1>3, <1>4, <1>5 DEF Inductive
-----------------------------------------------------------------------------
(* One lemma per action. *)

LEMMA InitHolds ==
  ASSUME Init
  PROVE  Inductive
<1> USE DEF Init
<1>1. TypeOK
  <2>1. input \in Builds /\ Len(input.sources) \in Nat
    BY InputAssumption DEF Builds
  <2> QED
    BY <2>1 DEF TypeOK
<1>2. UrlsAreListed /\ ShardsFollowUrls /\ OffsetsAreRight /\ CountIsPlace
  BY DEF UrlsAreListed, ShardsFollowUrls, OffsetsAreRight, CountIsPlace
<1>3. NothingIsSkipped /\ NamesAreNotEmpty /\ DuplicateIsReal
  BY DEF NothingIsSkipped, NamesAreNotEmpty, DuplicateIsReal
<1>4. RowsRead = {}
  BY DEF RowsRead
<1>5. FilesFollowRows
  BY <1>4 DEF FilesFollowRows
<1>6. DirsAreClosed
  BY DEF DirsAreClosed
<1> QED
  BY <1>1, <1>2, <1>3, <1>5, <1>6 DEF Inductive

LEMMA ExpandKeeps ==
  ASSUME Inductive, Expand
  PROVE  Inductive'
<1> DEFINE found == input.sources[expanded + 1]
<1>1. CASE Fail("failed")
  BY <1>1, FailKeeps
<1>2. CASE /\ found # <<>>
           /\ urls' = urls \o found
           /\ expanded' = expanded + 1
           /\ UNCHANGED <<input, pc, shards, acc, at, global, files, dirs, todo>>
  <2>1. /\ pc = "next" /\ pc' = "next" /\ expanded \in Nat
        /\ expanded + 1 \in 1..Len(input.sources)
        /\ input.sources \in Seq(Seq(Urls)) /\ urls \in Seq(Urls)
    BY <1>2 DEF Expand, AllListed, Inductive, TypeOK, Builds
  <2>2. found \in Seq(Urls)
    BY <2>1
  <2>3. /\ urls' \in Seq(Urls) /\ Len(urls') = Len(urls) + Len(found)
        /\ \A k \in 1..Len(urls) : urls'[k] = urls[k]
        /\ \A k \in 1..Len(found) : urls'[Len(urls) + k] = found[k]
    <3>1. urls \o found \in Seq(Urls) /\ Len(urls \o found) = Len(urls) + Len(found)
      BY <2>1, <2>2
    <3>2. \A k \in 1..Len(urls) : (urls \o found)[k] = urls[k]
      BY <2>1, <2>2
    <3>3. \A k \in 1..Len(found) : (urls \o found)[Len(urls) + k] = found[k]
      BY <2>1, <2>2
    <3> HIDE DEF found
    <3> QED
      BY <1>2, <3>1, <3>2, <3>3
  <2>4. TypeOK'
    BY <1>2, <2>1, <2>3 DEF Inductive, TypeOK
  <2>5. UrlsAreListed'
    <3> SUFFICES ASSUME NEW i \in 1..(expanded + 1)
                 PROVE  /\ input.sources[i] # <<>>
                        /\ \A j \in 1..Len(input.sources[i]) :
                             \E k \in 1..Len(urls') : urls'[k] = input.sources[i][j]
      BY <1>2 DEF UrlsAreListed
    <3>1. CASE i = expanded + 1
      <4>1. ASSUME NEW j \in 1..Len(found)
            PROVE  \E k \in 1..Len(urls') : urls'[k] = found[j]
        <5>1. Len(urls) + j \in 1..Len(urls')
          BY <2>1, <2>2, <2>3
        <5> QED
          BY <5>1, <2>3
      <4> QED
        BY <3>1, <4>1, <1>2
    <3>2. CASE i \in 1..expanded
      <4>1. \A k \in 1..Len(urls) : k \in 1..Len(urls')
        BY <2>1, <2>2, <2>3
      <4> QED
        BY <3>2, <4>1, <2>3 DEF Inductive, UrlsAreListed
    <3> QED
      BY <3>1, <3>2, <2>1
  <2>6. ShardsFollowUrls'
    <3>1. \A s \in 1..Len(shards) : FileOf(s)' = FileOf(s)
      BY <1>2 DEF FileOf
    <3>2. /\ Len(shards) \in Nat /\ Len(urls) \in Nat /\ Len(found) \in Nat
          /\ Len(shards) <= Len(urls)
      BY <2>2 DEF Inductive, TypeOK, ShardsFollowUrls
    <3>3. \A s \in 1..Len(shards) : s \in 1..Len(urls)
      BY <3>2
    <3> QED
      BY <1>2, <2>3, <3>1, <3>2, <3>3 DEF Inductive, ShardsFollowUrls
  <2>7. FilesFollowRows' /\ NothingIsSkipped'
    <3>1. /\ RowsRead' = RowsRead /\ \A l \in RowsRead : PathAt(l)' = PathAt(l)
          /\ \A s \in 1..Len(shards) : RowsIn(s)' = RowsIn(s)
          /\ Reader' = Reader
      BY <1>2, SameRows
    <3> QED
      BY <1>2, <2>1, <3>1, SameFiles DEF Inductive, NothingIsSkipped, Alive, Earlier
  <2>8. OffsetsAreRight' /\ CountIsPlace' /\ NamesAreNotEmpty' /\ DuplicateIsReal'
    BY <1>2, <2>1 DEF Inductive, OffsetsAreRight, CountIsPlace, NamesAreNotEmpty,
                      DuplicateIsReal
  <2>9. DirsAreClosed'
    BY <1>2, <2>1 DEF Inductive, DirsAreClosed
  <2> QED
    BY <2>4, <2>5, <2>6, <2>7, <2>8, <2>9 DEF Inductive
<1> QED
  BY <1>1, <1>2 DEF Expand

LEMMA OpenShardKeeps ==
  ASSUME Inductive, OpenShard
  PROVE  Inductive'
<1> DEFINE url     == urls[Len(shards) + 1]
           file    == input.store[url]
           path    == Detect(file.fields, PathNames, input.path_column)
           content == Detect(file.fields, ContentNames, input.content_column)
           shard   == [url |-> url, path_col |-> path, content_col |-> content,
                       extra_cols |-> (1..Len(file.fields)) \ {path, content},
                       row_group_offsets |-> <<>>]
<1>1. CASE Fail("failed")
  BY <1>1, FailKeeps
<1>2. CASE /\ shards' = Append(shards, shard)
           /\ acc' = 0
           /\ at' = [row_group |-> 1, row |-> 1]
           /\ pc' = "groups"
           /\ UNCHANGED <<input, expanded, urls, global, files, dirs, todo>>
  <2>1. /\ pc = "next" /\ file # NoFile
        /\ shards \in Seq(Opened)
        /\ Len(shards) <= Len(urls) /\ Len(shards) # Len(urls)
        /\ urls \in Seq(Urls) /\ input.store \in [Urls -> Shards \cup {NoFile}]
    BY DEF OpenShard, AllOpened, AllListed, Inductive, TypeOK, Builds, ShardsFollowUrls
  <2>2. url \in Urls /\ file \in Shards /\ Len(file.fields) \in Nat
    BY <2>1 DEF Shards
  <2>3. path \in Nat /\ content \in Nat
    <3>1. Len(PathNames) \in Nat /\ Len(ContentNames) \in Nat
      BY DEF PathNames, ContentNames
    <3> QED
      BY <2>2, <3>1, DetectIsNat
  <2>4. shard \in Opened
    <3>1. (1..Len(file.fields)) \ {path, content} \in SUBSET Nat
      BY <2>2
    <3> HIDE DEF path, content, file, url
    <3> QED
      BY <2>2, <2>3, <3>1 DEF Opened
  <2>5. /\ shard.url = url /\ shard.row_group_offsets = <<>>
    OBVIOUS
  <2> HIDE DEF shard
  <2>6. /\ Len(shards') = Len(shards) + 1
        /\ \A s \in 1..Len(shards) : shards'[s] = shards[s]
        /\ shards'[Len(shards) + 1] = shard
        /\ shards' \in Seq(Opened)
    BY <1>2, <2>1, <2>4
  <2>7. TypeOK'
    BY <1>2, <2>1, <2>6 DEF Inductive, TypeOK
  <2>8. UrlsAreListed'
    BY <1>2 DEF Inductive, UrlsAreListed
  <2>9. /\ \A s \in 1..Len(shards) : FileOf(s)' = FileOf(s) /\ RowsIn(s)' = RowsIn(s)
        /\ \A s : s = Len(shards) + 1 => FileOf(s)' = file
    BY <1>2, <2>5, <2>6 DEF FileOf, RowsIn
  <2>10. ShardsFollowUrls'
    <3> SUFFICES ASSUME NEW s \in 1..(Len(shards) + 1)
                 PROVE  shards'[s].url = urls[s] /\ FileOf(s)' # NoFile
      BY <1>2, <2>1, <2>6 DEF ShardsFollowUrls
    <3>1. CASE s = Len(shards) + 1
      BY <3>1, <2>1, <2>5, <2>6, <2>9
    <3>2. CASE s \in 1..Len(shards)
      BY <3>2, <2>6, <2>9 DEF Inductive, ShardsFollowUrls
    <3> QED
      BY <3>1, <3>2, <2>1
  <2>11. OffsetsAreRight'
    <3>1. shards' # <<>> /\ Offsets' = <<>>
      BY <2>1, <2>5, <2>6 DEF Offsets, Current
    <3>2. Groups' = file.groups /\ Len(file.groups) \in Nat
      BY <2>2, <2>6, <2>9 DEF Groups, Current, Shards
    <3> QED
      BY <1>2, <3>1, <3>2 DEF OffsetsAreRight, AreOffsets
  <2>12. CountIsPlace'
    BY <1>2 DEF CountIsPlace
  <2>13. NothingIsSkipped' /\ NamesAreNotEmpty' /\ DuplicateIsReal'
    BY <1>2, <2>1 DEF Inductive, NothingIsSkipped, NamesAreNotEmpty, DuplicateIsReal
  <2>14. FilesFollowRows'
    <3>1. ASSUME NEW s \in 1..Len(shards), NEW l \in RowsIn(s)
          PROVE  /\ l.shard = s /\ s \in Nat /\ Len(shards) \in Nat
                 /\ Earlier(l, Reader) /\ Earlier(l, Reader')
      <4>1. l.shard = s
        BY <3>1, RowsInFacts
      <4>2. Earlier(l, Reader)
        BY <2>1 DEF Inductive, NothingIsSkipped
      <4>3. Reader'.shard = Len(shards) + 1
        BY <2>6 DEF Reader
      <4> QED
        BY <4>1, <4>2, <4>3, <2>1 DEF Earlier
    <3>2. ASSUME NEW s, s = Len(shards) + 1, NEW l \in RowsIn(s)'
          PROVE  ~Earlier(l, Reader')
      <4>0. FileOf(s)' = file
        BY <3>2, <2>9
      <4>1. PICK g \in 1..Len(file.groups) : \E r \in 1..Len(file.groups[g]) :
              l = [shard |-> s, row_group |-> g, row |-> r]
        BY <4>0 DEF RowsIn
      <4>2. Len(file.groups) \in Nat /\ Len(file.groups[g]) \in Nat
        BY <2>2, <4>1 DEF Shards
      <4>3. Reader' = [shard |-> Len(shards) + 1, row_group |-> 1, row |-> 1]
        BY <1>2, <2>6 DEF Reader
      <4> QED
        BY <3>2, <4>1, <4>2, <4>3, <2>1 DEF Earlier
    <3>3. ASSUME NEW l PROVE l \in RowsRead' <=> l \in RowsRead
      <4>1. l \in RowsRead' <=>
              \E s \in 1..(Len(shards) + 1) : l \in RowsIn(s)' /\ Earlier(l, Reader')
        BY <2>6, RowsReadFacts DEF RowsRead, Earlier
      <4>2. \A s \in 1..(Len(shards) + 1) : s \in 1..Len(shards) \/ s = Len(shards) + 1
        BY <2>1
      <4>3. \A s \in 1..Len(shards) : s \in 1..(Len(shards) + 1)
        BY <2>1
      <4> QED
        BY <4>1, <4>2, <4>3, <3>1, <3>2, <2>9, RowsReadFacts
    <3>4. ASSUME NEW l \in RowsRead PROVE PathAt(l)' = PathAt(l)
      <4>1. l.shard \in 1..Len(shards)
        BY RowsReadFacts, RowsInFacts
      <4> QED
        BY <4>1, <2>9 DEF PathAt
    <3> QED
      BY <1>2, <2>1, <3>3, <3>4, SameFiles DEF Inductive, Alive
  <2>15. DirsAreClosed'
    BY <1>2, <2>1 DEF Inductive, DirsAreClosed
  <2> QED
    BY <2>7, <2>8, <2>10, <2>11, <2>12, <2>13, <2>14, <2>15 DEF Inductive
<1> QED
  BY <1>1, <1>2 DEF OpenShard

(* What is known of the shard being read. *)
LEMMA CurrentShard ==
  ASSUME Inductive, pc \in {"groups", "rows"}
  PROVE  /\ Current \in 1..Len(shards) /\ Len(shards) \in Nat
         /\ Offsets \in Seq(Nat) /\ acc \in Nat
         /\ Groups \in Seq(Seq(RawPaths \cup {NullPath}))
         /\ FileOf(Current) \in Shards
         /\ AreOffsets(Offsets, Groups, acc)
<1>1. /\ shards \in Seq(Opened)
      /\ shards # <<>> /\ acc \in Nat
      /\ input.store \in [Urls -> Shards \cup {NoFile}]
  BY DEF Inductive, TypeOK, Builds, OffsetsAreRight
<1>2. Current \in 1..Len(shards) /\ Len(shards) \in Nat
  BY <1>1 DEF Current
<1>3. shards[Current].url \in Urls /\ Offsets \in Seq(Nat)
  <2>1. shards[Current] \in Opened
    BY <1>1, <1>2
  <2> QED
    BY <2>1 DEF Offsets, Opened
<1>4. FileOf(Current) \in Shards
  BY <1>1, <1>2, <1>3 DEF Inductive, ShardsFollowUrls, FileOf
<1>5. Groups \in Seq(Seq(RawPaths \cup {NullPath}))
  BY <1>4 DEF Groups, Shards
<1> QED
  BY <1>1, <1>2, <1>3, <1>4, <1>5 DEF Inductive, OffsetsAreRight

LEMMA OneMoreOffset ==
  ASSUME NEW offsets \in Seq(Nat), NEW groups \in Seq(Seq(RawPaths \cup {NullPath})),
         NEW rows \in Nat, AreOffsets(offsets, groups, rows),
         Len(offsets) < Len(groups)
  PROVE  AreOffsets(Append(offsets, rows), groups,
                    rows + Len(groups[Len(offsets) + 1]))
<1> DEFINE n    == Len(offsets)
           more == Append(offsets, rows)
           size == Len(groups[n + 1])
<1>1. /\ n \in Nat /\ n + 1 \in 1..Len(groups) /\ size \in Nat
      /\ Len(more) = n + 1 /\ more[n + 1] = rows
      /\ \A j \in 1..n : more[j] = offsets[j] /\ offsets[j] \in Nat
                           /\ Len(groups[j]) \in Nat
  OBVIOUS
<1>2. \A j \in 1..n : offsets[j] + Len(groups[j]) <= rows
  BY DEF AreOffsets
<1>3. ASSUME NEW j \in 1..(n + 1)
      PROVE  /\ j = 1 => more[j] = 0
             /\ more[j] + Len(groups[j]) <= rows + size
             /\ j = n + 1 => rows + size = more[j] + Len(groups[j])
             /\ j < n + 1 => more[j + 1] = more[j] + Len(groups[j])
             /\ \A k \in 1..(n + 1) : j < k => more[j] + Len(groups[j]) <= more[k]
  <2>1. CASE j = n + 1
    <3>1. j = 1 => offsets = <<>>
      BY <2>1, <1>1
    <3>2. j = 1 => more[j] = 0
      BY <2>1, <3>1, <1>1 DEF AreOffsets
    <3> HIDE DEF more, size
    <3> QED
      BY <2>1, <3>2, <1>1 DEF size
  <2>2. CASE j \in 1..n
    <3>1. more[j] = offsets[j] /\ offsets[j] \in Nat /\ Len(groups[j]) \in Nat
      BY <2>2, <1>1
    <3>2. j = 1 => more[j] = 0
      BY <2>2, <3>1 DEF AreOffsets
    <3>3. more[j] + Len(groups[j]) <= rows + size
      BY <2>2, <3>1, <1>1, <1>2
    <3>4. more[j + 1] = more[j] + Len(groups[j])
      <4>1. CASE j = n
        <5>1. rows = offsets[j] + Len(groups[j])
          BY <2>2, <4>1 DEF AreOffsets
        <5> QED
          BY <4>1, <5>1, <3>1, <1>1
      <4>2. CASE j < n
        <5>1. offsets[j + 1] = offsets[j] + Len(groups[j])
          BY <2>2, <4>2 DEF AreOffsets
        <5>2. j + 1 \in 1..n
          BY <2>2, <4>2, <1>1
        <5> QED
          BY <5>1, <5>2, <3>1, <1>1
      <4> QED
        BY <2>2, <4>1, <4>2, <1>1
    <3>5. ASSUME NEW k \in 1..(n + 1), j < k
          PROVE  more[j] + Len(groups[j]) <= more[k]
      <4>1. CASE k = n + 1
        BY <4>1, <2>2, <3>1, <1>1, <1>2
      <4>2. CASE k \in 1..n
        <5>1. offsets[j] + Len(groups[j]) <= offsets[k]
          BY <2>2, <3>5, <4>2 DEF AreOffsets
        <5> QED
          BY <5>1, <3>1, <4>2, <1>1
      <4> QED
        BY <4>1, <4>2, <1>1
    <3> HIDE DEF more, size
    <3> QED
      BY <2>2, <3>2, <3>3, <3>4, <3>5, <1>1
  <2>3. j = n + 1 \/ j \in 1..n
    BY <1>1
  <2> HIDE DEF more, size
  <2> QED
    BY <2>1, <2>2, <2>3
<1>4. more # <<>>
  BY <1>1
<1> HIDE DEF more, size
<1>5. AreOffsets(more, groups, rows + size)
  BY <1>1, <1>3, <1>4 DEF AreOffsets
<1> QED
  BY <1>5 DEF more, size

LEMMA AddGroupKeeps ==
  ASSUME Inductive, AddGroup
  PROVE  Inductive'
<1> DEFINE c == Len(shards)
           more == Append(Offsets, acc)
<1>1. /\ pc = "groups" /\ Len(Offsets) < Len(Groups)
      /\ shards' = [shards EXCEPT ![c].row_group_offsets = more]
      /\ acc' = acc + Len(Groups[Len(Offsets) + 1])
      /\ UNCHANGED <<input, pc, expanded, urls, at, global, files, dirs, todo>>
  BY DEF AddGroup, Offsets, Current
<1>2. /\ c \in 1..Len(shards) /\ Len(shards) \in Nat
      /\ Offsets \in Seq(Nat) /\ acc \in Nat
      /\ Groups \in Seq(Seq(RawPaths \cup {NullPath}))
      /\ AreOffsets(Offsets, Groups, acc)
      /\ FileOf(c) \in Shards /\ Groups = FileOf(c).groups
  BY <1>1, CurrentShard DEF Current, Groups
<1>3. more \in Seq(Nat) /\ acc' \in Nat
  <2>1. Len(Offsets) + 1 \in 1..Len(Groups)
    BY <1>1, <1>2
  <2> QED
    BY <1>1, <1>2, <2>1
<1> HIDE DEF more
<1>4. /\ Len(shards') = Len(shards)
      /\ \A s \in 1..Len(shards) : shards'[s].url = shards[s].url
      /\ shards'[c].row_group_offsets = more
      /\ shards' \in Seq(Opened)
  <2>1. shards \in Seq(Opened)
    BY DEF Inductive, TypeOK
  <2> DEFINE e == [shards[c] EXCEPT !.row_group_offsets = more]
  <2>2. shards[c] \in Opened
    BY <2>1, <1>2
  <2>3. /\ e \in Opened
        /\ e.url = shards[c].url /\ e.row_group_offsets = more
    BY <2>2, <1>3 DEF Opened
  <2>4. shards' = [shards EXCEPT ![c] = e]
    BY <1>1
  <2> HIDE DEF e, c
  <2> QED
    BY <2>1, <2>3, <2>4, <1>2
<1>5. /\ \A s \in 1..Len(shards) : FileOf(s)' = FileOf(s) /\ RowsIn(s)' = RowsIn(s)
      /\ Reader' = Reader
      /\ RowsRead' = RowsRead /\ \A l \in RowsRead : PathAt(l)' = PathAt(l)
  BY <1>1, <1>4, SameRows
<1>6. TypeOK'
  BY <1>1, <1>3, <1>4 DEF Inductive, TypeOK
<1>7. UrlsAreListed' /\ CountIsPlace' /\ NamesAreNotEmpty' /\ DirsAreClosed'
  BY <1>1 DEF Inductive, UrlsAreListed, CountIsPlace, NamesAreNotEmpty, DirsAreClosed
<1>8. ShardsFollowUrls'
  BY <1>1, <1>4, <1>5 DEF Inductive, ShardsFollowUrls
<1>9. OffsetsAreRight'
  <2>1. Offsets' = more /\ Groups' = Groups
    BY <1>2, <1>4, <1>5 DEF Offsets, Groups, Current
  <2>2. AreOffsets(more, Groups, acc')
    BY <1>1, <1>2, OneMoreOffset DEF more
  <2>3. shards' # <<>>
    BY <1>2, <1>4
  <2> QED
    BY <1>1, <2>1, <2>2, <2>3 DEF OffsetsAreRight
<1>10. NothingIsSkipped' /\ DuplicateIsReal'
  BY <1>1 DEF NothingIsSkipped, DuplicateIsReal
<1>11. FilesFollowRows'
  BY <1>1, <1>5, SameFiles DEF Inductive, Alive
<1> QED
  BY <1>6, <1>7, <1>8, <1>9, <1>10, <1>11 DEF Inductive

LEMMA ReadRowsKeeps ==
  ASSUME Inductive, ReadRows
  PROVE  Inductive'
<1>1. /\ pc = "groups" /\ Len(Offsets) = Len(Groups) /\ global' = 0 /\ pc' = "rows"
      /\ UNCHANGED <<input, expanded, urls, shards, acc, at, files, dirs, todo>>
  BY DEF ReadRows
<1>2. /\ Offsets \in Seq(Nat) /\ AreOffsets(Offsets, Groups, acc)
      /\ Groups \in Seq(Seq(RawPaths \cup {NullPath}))
  BY <1>1, CurrentShard
<1>3. Offsets' = Offsets /\ Groups' = Groups
  BY <1>1 DEF Offsets, Groups, FileOf, Current
<1>4. TypeOK'
  BY <1>1 DEF Inductive, TypeOK
<1>5. /\ UrlsAreListed' /\ NamesAreNotEmpty' /\ DirsAreClosed'
      /\ NothingIsSkipped' /\ DuplicateIsReal'
  BY <1>1 DEF Inductive, UrlsAreListed, NamesAreNotEmpty, DirsAreClosed,
              NothingIsSkipped, DuplicateIsReal
<1>6. ShardsFollowUrls'
  BY <1>1 DEF Inductive, ShardsFollowUrls, FileOf
<1>7. OffsetsAreRight'
  BY <1>1, <1>2, <1>3 DEF Inductive, OffsetsAreRight
<1>8. CountIsPlace'
  <2>1. at = [row_group |-> 1, row |-> 1]
    BY <1>1 DEF Inductive, CountIsPlace
  <2>2. ASSUME Groups # <<>>
        PROVE  /\ 1 <= Len(Groups) /\ 1 <= Len(Groups[1]) + 1
               /\ 0 = Offsets[1] + 1 - 1
    <3>1. 1 \in 1..Len(Offsets) /\ Len(Groups) \in Nat /\ Len(Groups[1]) \in Nat
      BY <2>2, <1>1, <1>2
    <3>2. Offsets[1] = 0
      BY <3>1, <1>2 DEF AreOffsets
    <3> QED
      BY <3>1, <3>2, <1>1
  <2> QED
    BY <1>1, <1>3, <2>1, <2>2 DEF CountIsPlace
<1>9. FilesFollowRows'
  BY <1>1, SameRows, SameFiles DEF Inductive, Alive
<1> QED
  BY <1>4, <1>5, <1>6, <1>7, <1>8, <1>9 DEF Inductive

(* Every row has a place in numbers. *)
LEMMA PlaceOfRow ==
  ASSUME Inductive, NEW s \in 1..Len(shards), NEW l \in RowsIn(s)
  PROVE  /\ s \in Nat /\ l.shard = s
         /\ Len(FileOf(s).groups) \in Nat
         /\ l.row_group \in 1..Len(FileOf(s).groups)
         /\ Len(FileOf(s).groups[l.row_group]) \in Nat
         /\ l.row \in 1..Len(FileOf(s).groups[l.row_group])
         /\ l = [shard |-> s, row_group |-> l.row_group, row |-> l.row]
<1>1. /\ shards \in Seq(Opened) /\ input.store \in [Urls -> Shards \cup {NoFile}]
  BY DEF Inductive, TypeOK, Builds
<1>2. shards[s].url \in Urls /\ s \in Nat
  <2>1. shards[s] \in Opened /\ s \in Nat
    BY <1>1
  <2> QED
    BY <2>1 DEF Opened
<1>3. FileOf(s).groups \in Seq(Seq(RawPaths \cup {NullPath}))
  BY <1>1, <1>2 DEF Inductive, ShardsFollowUrls, FileOf, Shards
<1>4. PICK g \in 1..Len(FileOf(s).groups) : \E r \in 1..Len(FileOf(s).groups[g]) :
        l = [shard |-> s, row_group |-> g, row |-> r]
  BY RowsInFacts
<1>5. PICK r \in 1..Len(FileOf(s).groups[g]) :
        l = [shard |-> s, row_group |-> g, row |-> r]
  BY <1>4
<1>6. l.shard = s /\ l.row_group = g /\ l.row = r
  BY <1>5
<1> QED
  BY <1>2, <1>3, <1>4, <1>5, <1>6

(* Filing the row at the reader and moving past it.  The case of an error  *)
(* is the third.                                                           *)
LEMMA AddFileFollows ==
  ASSUME NEW norm, FilesFollowRows, Alive, pc' # "failed", UNCHANGED input,
         AddFile(norm, Reader),
         RowsRead' = RowsRead \cup {Reader}, Reader \notin RowsRead,
         \A l : PathAt(l)' = PathAt(l), PathAt(Reader) = norm,
         \A l \in RowsRead : Earlier(l, Reader),
         input.on_duplicate \in {"error", "first", "last"}
  PROVE  FilesFollowRows' /\ (pc' = "duplicate" => DuplicateIsReal')
<1>1. /\ DOMAIN files = {PathAt(l) : l \in RowsRead}
      /\ \A p \in DOMAIN files :
           /\ files[p] \in RowsRead /\ PathAt(files[p]) = p
           /\ \A l \in RowsRead : PathAt(l) = p =>
                \/ l = files[p]
                \/ input.on_duplicate = "first" /\ Earlier(files[p], l)
                \/ input.on_duplicate = "last"  /\ Earlier(l, files[p])
  BY DEF FilesFollowRows, Alive
<1>2. CASE /\ norm \notin DOMAIN files \/ input.on_duplicate = "last"
           /\ files' = [p \in DOMAIN files \cup {norm} |->
                          IF p = norm THEN Reader ELSE files[p]]
           /\ pc' = pc
  <2>1. DOMAIN files' = DOMAIN files \cup {norm}
    BY <1>2
  <2>2. DOMAIN files' = {PathAt(l)' : l \in RowsRead'}
    BY <1>1, <2>1
  <2>3. ASSUME NEW p \in DOMAIN files'
        PROVE  /\ files'[p] \in RowsRead' /\ PathAt(files'[p]) = p
               /\ \A l \in RowsRead' : PathAt(l) = p =>
                    \/ l = files'[p]
                    \/ input.on_duplicate = "first" /\ Earlier(files'[p], l)
                    \/ input.on_duplicate = "last"  /\ Earlier(l, files'[p])
    <3>1. CASE p = norm
      <4>1. files'[p] = Reader
        BY <1>2, <2>1, <3>1
      <4>2. ASSUME NEW l \in RowsRead, PathAt(l) = p
            PROVE  input.on_duplicate = "last" /\ Earlier(l, Reader)
        BY <1>1, <1>2, <3>1, <4>2
      <4> QED
        BY <3>1, <4>1, <4>2
    <3>2. CASE p # norm
      <4>1. p \in DOMAIN files /\ files'[p] = files[p]
        BY <1>2, <2>1, <3>2
      <4> QED
        BY <1>1, <3>2, <4>1
    <3> QED
      BY <3>1, <3>2
  <2>4. \A l, m : Earlier(l, m)' <=> Earlier(l, m)
    BY DEF Earlier
  <2>5. FilesFollowRows'
    BY <2>2, <2>3, <2>4 DEF FilesFollowRows
  <2> QED
    BY <1>2, <2>5 DEF Alive
<1>3. CASE /\ norm \in DOMAIN files /\ input.on_duplicate = "first"
           /\ UNCHANGED <<files, pc>>
  <2>1. DOMAIN files' = {PathAt(l)' : l \in RowsRead'}
    BY <1>1, <1>3
  <2>2. ASSUME NEW p \in DOMAIN files
        PROVE  /\ files[p] \in RowsRead' /\ PathAt(files[p]) = p
               /\ \A l \in RowsRead' : PathAt(l) = p =>
                    l = files[p] \/ Earlier(files[p], l)
    BY <1>1, <1>3
  <2>3. \A l, m : Earlier(l, m)' <=> Earlier(l, m)
    BY DEF Earlier
  <2>4. FilesFollowRows'
    BY <1>3, <2>1, <2>2, <2>3 DEF FilesFollowRows
  <2> QED
    BY <1>3, <2>4 DEF Alive
<1>4. CASE /\ norm \in DOMAIN files /\ input.on_duplicate = "error"
           /\ pc' = "duplicate" /\ UNCHANGED files
  <2>1. files[norm] \in RowsRead /\ PathAt(files[norm]) = norm
    BY <1>1, <1>4
  <2>2. files[norm] # Reader /\ files[norm] \in RowsRead' /\ Reader \in RowsRead'
    BY <2>1
  <2>3. DuplicateIsReal'
    BY <1>4, <2>1, <2>2 DEF DuplicateIsReal
  <2> QED
    BY <1>4, <2>3 DEF FilesFollowRows
<1> QED
  BY <1>2, <1>3, <1>4 DEF AddFile

LEMMA IndexRowKeeps ==
  ASSUME Inductive, IndexRow
  PROVE  Inductive'
<1> DEFINE norm == Normalize(Raw)
           g    == at.row_group
           r    == at.row
<1>1. /\ pc = "rows" /\ HasRow /\ Raw # NullPath
      /\ \/ norm # <<>> /\ AddFile(norm, Locate(Current, Offsets, global))
         \/ norm = <<>> /\ pc' = "failed" /\ UNCHANGED files
      /\ global' = global + 1
      /\ at' = [at EXCEPT !.row = @ + 1]
      /\ UNCHANGED <<input, expanded, urls, shards, acc, dirs, todo>>
  BY DEF IndexRow
<1>2. /\ Current \in 1..Len(shards) /\ Len(shards) \in Nat
      /\ Offsets \in Seq(Nat) /\ acc \in Nat
      /\ Groups \in Seq(Seq(RawPaths \cup {NullPath}))
      /\ AreOffsets(Offsets, Groups, acc) /\ Len(Offsets) = Len(Groups)
  BY <1>1, CurrentShard DEF Inductive, OffsetsAreRight
<1>3. /\ at \in [row_group : Nat, row : Nat] /\ g \in Nat /\ r \in Nat /\ global \in Nat
      /\ g > 0 /\ r > 0
  BY DEF Inductive, TypeOK, CountIsPlace
<1>4. g \in 1..Len(Groups) /\ Len(Groups[g]) \in Nat /\ r \in 1..Len(Groups[g])
  <2>1. g \in 1..Len(Groups)
    BY <1>1, <1>2, <1>3 DEF HasRow
  <2> QED
    BY <2>1, <1>1, <1>2, <1>3 DEF HasRow
<1>5. global = Offsets[g] + r - 1
  BY <1>1, <1>2, <1>4 DEF Inductive, CountIsPlace
<1> HIDE DEF norm, g, r
<1>6. Locate(Current, Offsets, global) = Reader
  <2>1. g \in 1..Len(Offsets) /\ \A j \in 1..Len(Groups) : Len(Groups[j]) \in Nat
    BY <1>2, <1>4
  <2>2. Locate(Current, Offsets, global) =
          [shard |-> Current, row_group |-> g, row |-> r]
    <3> DEFINE offsets == Offsets
               groups  == Groups
               c       == Current
    <3>1. /\ offsets \in Seq(Nat) /\ acc \in Nat /\ Len(groups) = Len(offsets)
          /\ AreOffsets(offsets, groups, acc)
          /\ \A j \in 1..Len(groups) : Len(groups[j]) \in Nat
          /\ g \in 1..Len(offsets) /\ r \in 1..Len(groups[g])
          /\ global \in Nat /\ global = offsets[g] + r - 1
      BY <2>1, <1>2, <1>3, <1>4, <1>5
    <3> HIDE DEF offsets, groups, c
    <3>2. Locate(c, offsets, global) = [shard |-> c, row_group |-> g, row |-> r]
      BY <3>1, LocateFindsReader
    <3> QED
      BY <3>2 DEF offsets, groups, c
  <2> QED
    BY <2>2 DEF Reader, Current, g, r
<1>7. at'.row_group = g /\ at'.row = r + 1 /\ at' \in [row_group : Nat, row : Nat]
  BY <1>1, <1>3 DEF g, r
<1>8. norm \in Seq(Segments)
  <2>1. Groups[g] \in Seq(RawPaths \cup {NullPath})
    BY <1>2, <1>4
  <2>2. Raw \in RawPaths
    BY <2>1, <1>1, <1>4 DEF Raw, g, r
  <2> QED
    BY <2>2, NormalizeType DEF norm
<1>9. Reader \in Locations /\ Reader = [shard |-> Current, row_group |-> g, row |-> r]
  BY <1>2, <1>3 DEF Reader, Locations, Current, g, r
<1>10. Reader \in RowsIn(Current) /\ PathAt(Reader) = norm
  BY <1>4, <1>9, RowsInFacts DEF Groups, PathAt, Raw, norm, g, r
<1>11. /\ \A s : FileOf(s)' = FileOf(s) /\ RowsIn(s)' = RowsIn(s)
       /\ \A l : PathAt(l)' = PathAt(l)
  BY <1>1 DEF FileOf, RowsIn, PathAt
<1>12. Reader' = [shard |-> Current, row_group |-> g, row |-> r + 1]
  BY <1>1, <1>7 DEF Reader, Current
<1>13. ASSUME NEW s \in 1..Len(shards), NEW l \in RowsIn(s)
       PROVE  Earlier(l, Reader') <=> Earlier(l, Reader) \/ l = Reader
  <2>1. /\ s \in Nat /\ l.shard = s /\ l.row_group \in Nat /\ l.row \in Nat
        /\ l = [shard |-> s, row_group |-> l.row_group, row |-> l.row]
    BY PlaceOfRow
  <2> QED
    BY <2>1, <1>2, <1>3, <1>9, <1>12 DEF Earlier
<1>14. RowsRead' = RowsRead \cup {Reader}
  <2>1. ASSUME NEW l PROVE l \in RowsRead' <=>
                \E s \in 1..Len(shards) : l \in RowsIn(s) /\ Earlier(l, Reader')
    BY <1>1, <1>11, RowsReadFacts DEF RowsRead, Earlier
  <2> QED
    BY <2>1, <1>2, <1>10, <1>13, RowsReadFacts
<1>15. Reader \notin RowsRead /\ \A l \in RowsRead : Earlier(l, Reader)
  <2>1. ~Earlier(Reader, Reader)
    <3>1. Reader.shard \in Nat /\ Reader.row_group \in Nat /\ Reader.row \in Nat
      BY <1>9 DEF Locations
    <3> QED
      BY <3>1 DEF Earlier
  <2> QED
    BY <2>1, RowsReadFacts
<1>16. input.on_duplicate \in {"error", "first", "last"}
  BY DEF Inductive, TypeOK, Builds
<1>17. norm = <<>> \/ AddFile(norm, Reader)
  BY <1>1, <1>6
<1>18. TypeOK'
  <2>1. /\ DOMAIN files' \subseteq Seq(Segments)
        /\ \A p \in DOMAIN files' : files'[p] \in Locations
        /\ DOMAIN files \subseteq DOMAIN files'
        /\ pc' \in {"rows", "duplicate", "failed"}
    BY <1>1, <1>8, <1>9, <1>17 DEF Inductive, TypeOK, AddFile
  <2> QED
    BY <2>1, <1>1, <1>3, <1>7 DEF Inductive, TypeOK, Ended
<1>19. UrlsAreListed' /\ ShardsFollowUrls'
  BY <1>1, <1>11 DEF Inductive, UrlsAreListed, ShardsFollowUrls
<1>20. Offsets' = Offsets /\ Groups' = Groups
  BY <1>1, <1>11 DEF Offsets, Groups, Current
<1>21. pc' \in {"rows", "duplicate", "failed"}
  BY <1>1, <1>17 DEF AddFile
<1>22. OffsetsAreRight'
  BY <1>1, <1>20, <1>21 DEF Inductive, OffsetsAreRight
<1>23. CountIsPlace'
  <2>1. /\ at'.row_group > 0 /\ at'.row > 0
        /\ at'.row_group <= Len(Groups) /\ at'.row <= Len(Groups[at'.row_group]) + 1
    BY <1>2, <1>3, <1>4, <1>7
  <2>2. Offsets[g] \in Nat
    BY <1>2, <1>4
  <2>3. global' = Offsets[at'.row_group] + at'.row - 1
    BY <1>1, <1>3, <1>5, <1>7, <2>2
  <2> QED
    BY <1>20, <1>21, <2>1, <2>3 DEF CountIsPlace
<1>24. NothingIsSkipped'
  BY <1>21 DEF NothingIsSkipped
<1>25. NamesAreNotEmpty'
  BY <1>1 DEF Inductive, NamesAreNotEmpty, AddFile
<1>26. DirsAreClosed'
  <2>1. DOMAIN files \subseteq DOMAIN files'
    BY <1>1, <1>17 DEF AddFile
  <2> QED
    BY <2>1, <1>1, <1>21 DEF Inductive, DirsAreClosed
<1>27. FilesFollowRows' /\ DuplicateIsReal'
  <2>1. CASE norm = <<>>
    BY <1>1, <2>1, <1>21 DEF FilesFollowRows, DuplicateIsReal, AddFile
  <2>2. CASE norm # <<>>
    <3>1. AddFile(norm, Reader)
      BY <1>17, <2>2
    <3>2. pc' # "failed"
      BY <1>1, <3>1 DEF AddFile
    <3>3. FilesFollowRows' /\ (pc' = "duplicate" => DuplicateIsReal')
      BY <1>1, <1>10, <1>11, <1>14, <1>15, <1>16, <3>1, <3>2, AddFileFollows
         DEF Inductive, Alive
    <3> QED
      BY <3>3 DEF DuplicateIsReal
  <2> QED
    BY <2>1, <2>2
<1> QED
  BY <1>18, <1>19, <1>22, <1>23, <1>24, <1>25, <1>26, <1>27 DEF Inductive

(* A reader behind the last row of its row group. *)
LEMMA GroupIsRead ==
  ASSUME Inductive, pc = "rows", ~HasRow, at.row_group <= Len(Groups)
  PROVE  /\ at.row_group \in 1..Len(Groups)
         /\ Len(Groups[at.row_group]) \in Nat
         /\ at.row = Len(Groups[at.row_group]) + 1
         /\ global = Offsets[at.row_group] + Len(Groups[at.row_group])
<1>1. /\ Groups \in Seq(Seq(RawPaths \cup {NullPath})) /\ Offsets \in Seq(Nat)
      /\ Len(Offsets) = Len(Groups)
  BY CurrentShard DEF Inductive, OffsetsAreRight
<1>2. at.row_group \in Nat /\ at.row \in Nat /\ at.row_group > 0 /\ global \in Nat
  BY DEF Inductive, TypeOK, CountIsPlace
<1>3. /\ at.row_group \in 1..Len(Groups) /\ Groups # <<>>
      /\ Len(Groups[at.row_group]) \in Nat /\ Offsets[at.row_group] \in Nat
  BY <1>1, <1>2
<1>4. /\ at.row <= Len(Groups[at.row_group]) + 1
      /\ global = Offsets[at.row_group] + at.row - 1
  BY <1>3 DEF Inductive, CountIsPlace
<1>5. ~(at.row <= Len(Groups[at.row_group]))
  BY DEF HasRow
<1>6. at.row = Len(Groups[at.row_group]) + 1
  BY <1>2, <1>3, <1>4, <1>5
<1> QED
  BY <1>2, <1>3, <1>4, <1>6

LEMMA NextGroupKeeps ==
  ASSUME Inductive, NextGroup
  PROVE  Inductive'
<1> DEFINE g == at.row_group
<1>1. /\ pc = "rows" /\ ~HasRow /\ g < Len(Groups)
      /\ at' = [row_group |-> g + 1, row |-> 1]
      /\ UNCHANGED <<input, pc, expanded, urls, shards, acc, global, files, dirs, todo>>
  BY DEF NextGroup
<1>2. /\ Current \in 1..Len(shards) /\ Len(shards) \in Nat
      /\ Offsets \in Seq(Nat) /\ AreOffsets(Offsets, Groups, acc)
      /\ Groups \in Seq(Seq(RawPaths \cup {NullPath})) /\ Len(Offsets) = Len(Groups)
  BY <1>1, CurrentShard DEF Inductive, OffsetsAreRight
<1>3. g \in Nat /\ g > 0 /\ at.row \in Nat
  BY DEF Inductive, TypeOK, CountIsPlace
<1>4. /\ g \in 1..Len(Groups) /\ Len(Groups[g]) \in Nat
      /\ at.row = Len(Groups[g]) + 1 /\ global = Offsets[g] + Len(Groups[g])
  BY <1>1, <1>2, <1>3, GroupIsRead
<1>5. /\ \A s : FileOf(s)' = FileOf(s) /\ RowsIn(s)' = RowsIn(s)
      /\ \A l : PathAt(l)' = PathAt(l)
      /\ Offsets' = Offsets /\ Groups' = Groups
  BY <1>1 DEF FileOf, RowsIn, PathAt, Offsets, Groups, Current
<1>6. TypeOK'
  BY <1>1, <1>3 DEF Inductive, TypeOK
<1>7. UrlsAreListed' /\ ShardsFollowUrls' /\ OffsetsAreRight' /\ DirsAreClosed'
  BY <1>1, <1>5 DEF Inductive, UrlsAreListed, ShardsFollowUrls, OffsetsAreRight,
                    DirsAreClosed
<1>8. NothingIsSkipped' /\ NamesAreNotEmpty' /\ DuplicateIsReal'
  BY <1>1 DEF Inductive, NothingIsSkipped, NamesAreNotEmpty, DuplicateIsReal
<1>9. CountIsPlace'
  <2>1. Offsets[g + 1] = Offsets[g] + Len(Groups[g])
    BY <1>1, <1>2, <1>4 DEF AreOffsets
  <2>2. Offsets[g] \in Nat /\ g + 1 \in 1..Len(Groups) /\ Len(Groups[g + 1]) \in Nat
    <3> HIDE DEF g
    <3>1. Len(Groups) \in Nat
      BY <1>2
    <3>2. g < Len(Groups) /\ Len(Offsets) = Len(Groups)
      BY <1>1, <1>2
    <3>3. g + 1 \in 1..Len(Groups) /\ g \in 1..Len(Offsets)
      BY <1>4, <3>1, <3>2
    <3>4. Groups[g + 1] \in Seq(RawPaths \cup {NullPath})
      BY <3>3, <1>2
    <3> QED
      BY <3>3, <3>4, <1>2
  <2>3. at'.row_group = g + 1 /\ at'.row = 1
    BY <1>1
  <2>4. global' = Offsets[at'.row_group] + at'.row - 1
    BY <1>1, <1>4, <2>1, <2>2, <2>3
  <2>5. /\ at'.row_group > 0 /\ at'.row > 0 /\ at'.row_group <= Len(Groups)
        /\ at'.row <= Len(Groups[at'.row_group]) + 1
    BY <1>3, <2>2, <2>3
  <2> QED
    BY <1>1, <1>5, <2>4, <2>5 DEF CountIsPlace
<1>10. RowsRead' = RowsRead
  <2>1. Reader = [shard |-> Current, row_group |-> g, row |-> Len(Groups[g]) + 1]
    BY <1>4 DEF Reader, Current
  <2>2. Reader' = [shard |-> Current, row_group |-> g + 1, row |-> 1]
    BY <1>1 DEF Reader, Current
  <2> HIDE DEF g
  <2>3. ASSUME NEW s \in 1..Len(shards), NEW l \in RowsIn(s)
        PROVE  Earlier(l, Reader') <=> Earlier(l, Reader)
    <3>1. /\ s \in Nat /\ l.shard = s /\ l.row_group \in Nat /\ l.row \in Nat
          /\ l.row >= 1
          /\ s = Current /\ l.row_group = g => l.row <= Len(Groups[g])
      BY PlaceOfRow DEF Groups
    <3>2. Earlier(l, Reader) <=>
            \/ s < Current
            \/ s = Current /\ l.row_group < g
            \/ s = Current /\ l.row_group = g /\ l.row < Len(Groups[g]) + 1
      BY <3>1, <2>1 DEF Earlier
    <3>3. Earlier(l, Reader') <=>
            \/ s < Current
            \/ s = Current /\ l.row_group < g + 1
            \/ s = Current /\ l.row_group = g + 1 /\ l.row < 1
      BY <3>1, <2>2 DEF Earlier
    <3>4. g \in Nat /\ Len(Groups[g]) \in Nat
      BY <1>3, <1>4
    <3> QED
      BY <3>1, <3>2, <3>3, <3>4
  <2>4. ASSUME NEW l PROVE l \in RowsRead' <=>
                \E s \in 1..Len(shards) : l \in RowsIn(s) /\ Earlier(l, Reader')
    BY <1>1, <1>5, RowsReadFacts DEF RowsRead, Earlier
  <2> QED
    BY <2>3, <2>4, RowsReadFacts
<1>11. FilesFollowRows'
  BY <1>1, <1>5, <1>10, SameFiles DEF Inductive, Alive
<1> QED
  BY <1>6, <1>7, <1>8, <1>9, <1>10, <1>11 DEF Inductive

LEMMA EndShardKeeps ==
  ASSUME Inductive, EndShard
  PROVE  Inductive'
<1>1. /\ pc = "rows" /\ ~HasRow /\ at.row_group >= Len(Groups) /\ pc' = "next"
      /\ UNCHANGED <<input, expanded, urls, shards, acc, at, global, files, dirs, todo>>
  BY DEF EndShard
<1>2. /\ Current \in 1..Len(shards) /\ Len(shards) \in Nat
      /\ Groups \in Seq(Seq(RawPaths \cup {NullPath}))
  BY <1>1, CurrentShard
<1>3. /\ \A s \in 1..Len(shards) : FileOf(s)' = FileOf(s) /\ RowsIn(s)' = RowsIn(s)
      /\ Reader' = Reader
      /\ RowsRead' = RowsRead /\ \A l \in RowsRead : PathAt(l)' = PathAt(l)
  BY <1>1, SameRows
<1>4. TypeOK'
  BY <1>1 DEF Inductive, TypeOK
<1>5. UrlsAreListed' /\ ShardsFollowUrls' /\ OffsetsAreRight' /\ CountIsPlace'
  BY <1>1, <1>3 DEF Inductive, UrlsAreListed, ShardsFollowUrls, OffsetsAreRight,
                    CountIsPlace
<1>6. NamesAreNotEmpty' /\ DuplicateIsReal' /\ DirsAreClosed'
  BY <1>1 DEF Inductive, NamesAreNotEmpty, DuplicateIsReal, DirsAreClosed
<1>7. ASSUME NEW s \in 1..Len(shards), NEW l \in RowsIn(s)
      PROVE  Earlier(l, Reader)
  <2>1. /\ s \in Nat /\ l.shard = s /\ l.row_group \in Nat /\ l.row \in Nat
        /\ l.row_group \in 1..Len(FileOf(s).groups)
        /\ l.row <= Len(FileOf(s).groups[l.row_group])
    BY PlaceOfRow
  <2>2. /\ Reader.shard = Len(shards) /\ Reader.row_group = at.row_group
        /\ Reader.row = at.row
    BY DEF Reader
  <2>3. at.row_group \in Nat /\ at.row \in Nat
    BY DEF Inductive, TypeOK
  <2>4. CASE s < Len(shards)
    BY <2>1, <2>2, <2>4 DEF Earlier
  <2>5. CASE s = Len(shards)
    <3>1. /\ l.row_group \in 1..Len(Groups) /\ Groups # <<>>
          /\ l.row <= Len(Groups[l.row_group])
      BY <2>1, <2>5, <1>2 DEF Groups, Current
    <3>2. at.row_group <= Len(Groups)
      BY <1>1, <3>1 DEF Inductive, CountIsPlace
    <3>3. /\ at.row = Len(Groups[at.row_group]) + 1 /\ Len(Groups[at.row_group]) \in Nat
          /\ at.row_group = Len(Groups)
      BY <1>1, <1>2, <2>3, <3>2, GroupIsRead
    <3> QED
      BY <2>1, <2>2, <2>3, <2>5, <3>1, <3>3, <1>2 DEF Earlier
  <2> QED
    BY <2>1, <2>4, <2>5, <1>2
<1>8. NothingIsSkipped'
  BY <1>1, <1>3, <1>7 DEF NothingIsSkipped, Earlier
<1>9. FilesFollowRows'
  BY <1>1, <1>3, SameFiles DEF Inductive, Alive
<1> QED
  BY <1>4, <1>5, <1>6, <1>8, <1>9 DEF Inductive

LEMMA DeriveDirsKeeps ==
  ASSUME Inductive, DeriveDirs
  PROVE  Inductive'
<1>1. /\ pc = "next" /\ AllOpened /\ pc' = "dirs" /\ todo' = DOMAIN files
      /\ UNCHANGED <<input, expanded, urls, shards, acc, at, global, files, dirs>>
  BY DEF DeriveDirs
<1>2. /\ \A s \in 1..Len(shards) : FileOf(s)' = FileOf(s) /\ RowsIn(s)' = RowsIn(s)
      /\ Reader' = Reader
      /\ RowsRead' = RowsRead /\ \A l \in RowsRead : PathAt(l)' = PathAt(l)
  BY <1>1, SameRows
<1>3. TypeOK'
  BY <1>1 DEF Inductive, TypeOK
<1>4. UrlsAreListed' /\ ShardsFollowUrls' /\ OffsetsAreRight' /\ CountIsPlace'
  BY <1>1, <1>2 DEF Inductive, UrlsAreListed, ShardsFollowUrls, OffsetsAreRight,
                    CountIsPlace
<1>5. NamesAreNotEmpty' /\ DuplicateIsReal' /\ DirsAreClosed'
  BY <1>1 DEF Inductive, NamesAreNotEmpty, DuplicateIsReal, DirsAreClosed
<1>6. NothingIsSkipped'
  BY <1>1, <1>2 DEF Inductive, NothingIsSkipped, Earlier, AllOpened, AllListed
<1>7. FilesFollowRows'
  BY <1>1, <1>2, SameFiles DEF Inductive, Alive
<1> QED
  BY <1>3, <1>4, <1>5, <1>6, <1>7 DEF Inductive

LEMMA ParentsOf ==
  ASSUME NEW S, NEW p \in Seq(S), NEW d \in Parents(p)
  PROVE  /\ d \in Seq(S) /\ Len(d) \in 1..(Len(p) - 1) /\ d = SubSeq(p, 1, Len(d))
         /\ \A e \in Parents(p) : Len(e) < Len(d) => e \in Parents(d)
         /\ \A e \in Parents(p) : Len(e) = Len(d) => e = d
         /\ Parents(d) \subseteq Parents(p)
         /\ \A e \in Parents(d) : Len(e) < Len(d)
<1>1. ASSUME NEW e \in Parents(p)
      PROVE  e \in Seq(S) /\ Len(e) \in 1..(Len(p) - 1) /\ e = SubSeq(p, 1, Len(e))
  <2>1. PICK n \in 1..(Len(p) - 1) : e = SubSeq(p, 1, n)
    BY DEF Parents
  <2>2. \A i \in 1..n : p[i] \in S
    BY <2>1
  <2>3. SubSeq(p, 1, n) \in Seq(S) /\ Len(SubSeq(p, 1, n)) = n
    BY <2>1, <2>2, SubSeqProperties
  <2> QED
    BY <2>1, <2>3
<1>2. ASSUME NEW m \in 1..(Len(d) - 1) PROVE SubSeq(d, 1, m) = SubSeq(p, 1, m)
  <2>1. Len(d) \in Nat /\ Len(d) \in 1..Len(p) /\ 1 \in 1..Len(p)
    BY <1>1
  <2>2. SubSeq(SubSeq(p, 1, Len(d)), 1, m) = SubSeq(p, 1 + 1 - 1, 1 + m - 1)
    BY <2>1, SubSeqOfSubSeq
  <2> QED
    BY <1>1, <2>1, <2>2
<1>3. ASSUME NEW e \in Parents(p), Len(e) < Len(d) PROVE e \in Parents(d)
  <2>1. Len(e) \in 1..(Len(d) - 1)
    BY <1>1, <1>3
  <2> QED
    BY <1>1, <1>2, <2>1 DEF Parents
<1>4. ASSUME NEW e \in Parents(d) PROVE e \in Parents(p) /\ Len(e) < Len(d)
  <2>1. PICK m \in 1..(Len(d) - 1) : e = SubSeq(d, 1, m)
    BY DEF Parents
  <2>2. m \in 1..(Len(p) - 1) /\ e = SubSeq(p, 1, m) /\ m < Len(d)
    BY <1>1, <1>2, <2>1
  <2>3. Len(e) = m
    <3>1. \A i \in 1..m : p[i] \in S
      BY <2>2
    <3> QED
      BY <2>2, <3>1, SubSeqProperties
  <2> QED
    BY <2>2, <2>3 DEF Parents
<1> QED
  BY <1>1, <1>3, <1>4

LEMMA AddParentsKeeps ==
  ASSUME Inductive, NEW k \in todo, AddParents(k)
  PROVE  Inductive'
<1> DEFINE new == NewParents(k)
<1>1. /\ pc = "dirs" /\ dirs' = dirs \cup new /\ todo' = todo \ {k}
      /\ UNCHANGED <<input, pc, expanded, urls, shards, acc, at, global, files>>
  BY DEF AddParents, NewParents
<1>2. k \in DOMAIN files /\ k \in Seq(Segments) /\ todo \subseteq DOMAIN files
  BY DEF Inductive, TypeOK
<1>3. \A d \in new : d \in Parents(k) /\ d \in Seq(Segments)
  BY <1>2, ParentsOf DEF NewParents
<1>4. Parents(k) \subseteq dirs'
  <2> SUFFICES ASSUME NEW d \in Parents(k), d \notin new PROVE d \in dirs
    BY <1>1
  <2>1. PICK e \in Parents(k) \cap dirs : ~(Len(e) < Len(d))
    BY DEF NewParents
  <2>2. Len(e) \in Nat /\ Len(d) \in Nat
    BY <1>2, ParentsOf
  <2>3. d = e \/ d \in Parents(e)
    BY <1>2, <2>1, <2>2, ParentsOf
  <2> QED
    BY <2>1, <2>3 DEF Inductive, DirsAreClosed
<1>5. \A d \in new : Parents(d) \subseteq Parents(k)
  BY <1>2, <1>3, ParentsOf
<1> HIDE DEF new
<1>6. DirsAreClosed'
  <2>1. \A d \in dirs' : Parents(d) \subseteq dirs'
    BY <1>1, <1>4, <1>5 DEF Inductive, DirsAreClosed
  <2>2. dirs' \subseteq UNION {Parents(p) : p \in DOMAIN files'}
    BY <1>1, <1>2, <1>3 DEF Inductive, DirsAreClosed
  <2>3. \A p \in DOMAIN files' \ todo' : Parents(p) \subseteq dirs'
    BY <1>1, <1>4 DEF Inductive, DirsAreClosed
  <2> QED
    BY <1>1, <2>1, <2>2, <2>3 DEF DirsAreClosed
<1>7. TypeOK'
  BY <1>1, <1>3 DEF Inductive, TypeOK
<1>8. /\ \A s \in 1..Len(shards) : FileOf(s)' = FileOf(s) /\ RowsIn(s)' = RowsIn(s)
      /\ Reader' = Reader
      /\ RowsRead' = RowsRead /\ \A l \in RowsRead : PathAt(l)' = PathAt(l)
  BY <1>1, SameRows
<1>9. UrlsAreListed' /\ ShardsFollowUrls' /\ OffsetsAreRight' /\ CountIsPlace'
  BY <1>1, <1>8 DEF Inductive, UrlsAreListed, ShardsFollowUrls, OffsetsAreRight,
                    CountIsPlace
<1>10. NamesAreNotEmpty' /\ DuplicateIsReal'
  BY <1>1 DEF Inductive, NamesAreNotEmpty, DuplicateIsReal
<1>11. NothingIsSkipped'
  BY <1>1, <1>8 DEF Inductive, NothingIsSkipped, Earlier, AllOpened, AllListed
<1>12. FilesFollowRows'
  BY <1>1, <1>8, SameFiles DEF Inductive, Alive
<1> QED
  BY <1>6, <1>7, <1>9, <1>10, <1>11, <1>12 DEF Inductive

LEMMA FinishKeeps ==
  ASSUME Inductive, Finish
  PROVE  Inductive'
<1>1. /\ pc = "dirs" /\ todo = {} /\ pc' = "done"
      /\ UNCHANGED <<input, expanded, urls, shards, acc, at, global, files, dirs, todo>>
  BY DEF Finish
<1>2. /\ \A s \in 1..Len(shards) : FileOf(s)' = FileOf(s) /\ RowsIn(s)' = RowsIn(s)
      /\ Reader' = Reader
      /\ RowsRead' = RowsRead /\ \A l \in RowsRead : PathAt(l)' = PathAt(l)
  BY <1>1, SameRows
<1>3. TypeOK'
  BY <1>1 DEF Inductive, TypeOK, Ended
<1>4. UrlsAreListed' /\ ShardsFollowUrls' /\ OffsetsAreRight' /\ CountIsPlace'
  BY <1>1, <1>2 DEF Inductive, UrlsAreListed, ShardsFollowUrls, OffsetsAreRight,
                    CountIsPlace
<1>5. NamesAreNotEmpty' /\ DuplicateIsReal' /\ DirsAreClosed'
  BY <1>1 DEF Inductive, NamesAreNotEmpty, DuplicateIsReal, DirsAreClosed
<1>6. NothingIsSkipped'
  BY <1>1, <1>2 DEF Inductive, NothingIsSkipped, Earlier, AllOpened, AllListed
<1>7. FilesFollowRows'
  BY <1>1, <1>2, SameFiles DEF Inductive, Alive
<1> QED
  BY <1>3, <1>4, <1>5, <1>6, <1>7 DEF Inductive
-----------------------------------------------------------------------------
LEMMA StepKeeps ==
  ASSUME Inductive, [Next]_vars
  PROVE  Inductive'
<1>1. CASE Step
  <2>1. CASE Expand
    BY <2>1, ExpandKeeps
  <2>2. CASE OpenShard
    BY <2>2, OpenShardKeeps
  <2>3. CASE AddGroup
    BY <2>3, AddGroupKeeps
  <2>4. CASE ReadRows
    BY <2>4, ReadRowsKeeps
  <2>5. CASE IndexRow
    BY <2>5, IndexRowKeeps
  <2>6. CASE BadBatch \/ IoError
    BY <2>6, FailKeeps DEF BadBatch, IoError
  <2>7. CASE NextGroup
    BY <2>7, NextGroupKeeps
  <2>8. CASE EndShard
    BY <2>8, EndShardKeeps
  <2>9. CASE DeriveDirs
    BY <2>9, DeriveDirsKeeps
  <2>10. CASE \E k \in todo : AddParents(k)
    BY <2>10, AddParentsKeeps
  <2>11. CASE Finish
    BY <2>11, FinishKeeps
  <2> QED
    BY <1>1, <2>1, <2>2, <2>3, <2>4, <2>5, <2>6, <2>7, <2>8, <2>9, <2>10, <2>11
       DEF Step
<1>2. CASE UNCHANGED vars
  <2> USE <1>2 DEF vars
  <2>1. /\ \A s \in 1..Len(shards) : FileOf(s)' = FileOf(s) /\ RowsIn(s)' = RowsIn(s)
        /\ Reader' = Reader
        /\ RowsRead' = RowsRead /\ \A l : PathAt(l)' = PathAt(l)
    BY SameRows DEF PathAt, FileOf
  <2>2. TypeOK' /\ UrlsAreListed' /\ CountIsPlace'
    BY DEF Inductive, TypeOK, UrlsAreListed, CountIsPlace, Groups, Offsets, FileOf,
           Current
  <2>3. ShardsFollowUrls' /\ OffsetsAreRight'
    BY <2>1 DEF Inductive, ShardsFollowUrls, OffsetsAreRight, Groups, Offsets, FileOf,
           Current
  <2>4. NamesAreNotEmpty' /\ DirsAreClosed'
    BY DEF Inductive, NamesAreNotEmpty, DirsAreClosed
  <2>5. NothingIsSkipped'
    BY <2>1 DEF Inductive, NothingIsSkipped, Earlier, AllOpened, AllListed
  <2>6. FilesFollowRows'
    BY <2>1, SameFiles DEF Inductive, Alive, FilesFollowRows
  <2>7. DuplicateIsReal'
    BY <2>1 DEF Inductive, DuplicateIsReal
  <2> QED
    BY <2>2, <2>3, <2>4, <2>5, <2>6, <2>7 DEF Inductive
<1> QED
  BY <1>1, <1>2 DEF Next, Terminated

(* The invariant holds in every reachable state. *)
THEOREM InductiveInvariant == Spec => []Inductive
<1>1. Inductive /\ [Next]_vars => Inductive'
  BY StepKeeps
<1>2. Init => Inductive
  BY InitHolds
<1> QED
  BY <1>1, <1>2, PTL DEF Spec

(* Every variable keeps its type. *)
THEOREM TypeCorrect == Spec => []TypeOK
<1>1. Inductive => TypeOK
  BY DEF Inductive
<1> QED
  BY <1>1, InductiveInvariant, PTL

(* However the rows are divided into shards and row groups, the location   *)
(* worked out for a file is that of the row the duplicate policy selects.  *)
THEOREM FilesAreLocated == Spec => []FilesFollowRows
<1>1. Inductive => FilesFollowRows
  BY DEF Inductive
<1> QED
  BY <1>1, InductiveInvariant, PTL

(* Leaving the climb at the first known directory loses no directory.      *)
THEOREM DirsAreRight == Spec => []DirsAreParents
<1>1. Inductive => DirsAreParents
  BY DEF Inductive, DirsAreClosed, DirsAreParents
<1> QED
  BY <1>1, InductiveInvariant, PTL

(* The duplicate error has two rows to show for it. *)
THEOREM DuplicatesExist == Spec => []DuplicateIsReal
<1>1. Inductive => DuplicateIsReal
  BY DEF Inductive
<1> QED
  BY <1>1, InductiveInvariant, PTL

(* An index that opens lacks no row of any shard. *)
THEOREM NothingIsMissing == Spec => []IndexIsComplete
<1>1. ASSUME Inductive PROVE IndexIsComplete
  <2> SUFFICES ASSUME pc = "done",
                      NEW i \in 1..Len(input.sources),
                      NEW j \in 1..Len(input.sources[i])
               PROVE  LET groups == input.store[input.sources[i][j]].groups IN
                      \A g \in 1..Len(groups) : \A r \in 1..Len(groups[g]) :
                        Normalize(groups[g][r]) \in DOMAIN files \ {<<>>}
    <3>1. pc = "done" => expanded = Len(input.sources)
      BY <1>1 DEF Inductive, NothingIsSkipped, AllOpened, AllListed
    <3> QED
      BY <1>1, <3>1 DEF Inductive, UrlsAreListed, IndexIsComplete
  <2>1. expanded = Len(input.sources) /\ Len(shards) = Len(urls)
    BY <1>1 DEF Inductive, NothingIsSkipped, AllOpened, AllListed
  <2>2. PICK k \in 1..Len(urls) : urls[k] = input.sources[i][j]
    BY <1>1, <2>1 DEF Inductive, UrlsAreListed
  <2>3. k \in 1..Len(shards) /\ FileOf(k) = input.store[input.sources[i][j]]
    BY <1>1, <2>1, <2>2 DEF Inductive, ShardsFollowUrls, FileOf
  <2>4. ASSUME NEW g \in 1..Len(FileOf(k).groups), NEW r \in 1..Len(FileOf(k).groups[g])
        PROVE  Normalize(FileOf(k).groups[g][r]) \in DOMAIN files \ {<<>>}
    <3> DEFINE l == [shard |-> k, row_group |-> g, row |-> r]
    <3>1. l \in RowsIn(k) /\ PathAt(l) = Normalize(FileOf(k).groups[g][r])
      BY RowsInFacts DEF PathAt
    <3>2. Earlier(l, Reader)
      BY <1>1, <2>3, <3>1 DEF Inductive, NothingIsSkipped
    <3>3. l \in RowsRead
      BY <2>3, <3>1, <3>2, RowsReadFacts
    <3> HIDE DEF l
    <3> QED
      BY <1>1, <3>1, <3>3 DEF Inductive, FilesFollowRows, NamesAreNotEmpty
  <2> QED
    BY <2>3, <2>4
<1> QED
  BY <1>1, InductiveInvariant, PTL
=============================================================================
