-------------------------- MODULE PackInputProofs --------------------------
(***************************************************************************)
(* Proofs about what is packed: about ArchiveEntries, for every set of     *)
(* archives, and about PackSources, for all files and calls.               *)
(*                                                                         *)
(* Archives.  The error a call returns is the first it met because none of *)
(* the ways an error is raised leaves the loop running.  That is not       *)
(* enough for 7z, where the error is in one of two places between the end  *)
(* of the loop and the return: WhereErrorsAre says in which.  A call that  *)
(* succeeds has packed all since every file is in a row or still to come   *)
(* (NothingLost) as long as there is no error, and the loop ends when      *)
(* nothing is to come (Drained).  The rows are the files visited, but for  *)
(* the one that raised an error (FilesHaveRows), since every entry appends *)
(* to both or neither.                                                     *)
(*                                                                         *)
(* Files.  A glob is its default root and the rest, once both are without  *)
(* "." and empty segments, and only the rest has wildcards; so what it     *)
(* matches is below the root (PrefixIsRoot).  What a directory is made is  *)
(* its path and two segments, which match all below it (DirGlob).          *)
(***************************************************************************)
EXTENDS ArchiveEntries, PackSources, SequenceLemmas, SequenceTheorems, TLAPS

(* The error is nowhere before one is raised, in `error` when the call has *)
(* failed, and at the end of a 7z loop in `inner` if the closure raised    *)
(* it, else in `error`.                                                    *)
Clear    == raised = <<>> /\ inner = "none" /\ error = "none"
KeptHere == inner # "none" /\ raised = <<inner>>
ErrorIn  == inner = "none" /\ error # "none" /\ raised = <<error>>

WhereErrorsAre ==
  /\ pc \in {"start", "entries", "check", "packed"} => Clear
  /\ pc = "ended" => Clear \/ KeptHere \/ ErrorIn
  /\ pc = "failed" => raised = <<error>>

(* The rows have paths, no path twice. *)
RowsHavePaths == (\A i \in 1..Len(rows) : rows[i] # <<>>) /\ NoPathTwice

InArchive(e) ==
  \/ \E b \in 1..Len(archive.blocks) : \E i \in 1..Len(archive.blocks[b]) :
       archive.blocks[b][i] = e
  \/ \E i \in 1..Len(archive.tail) : archive.tail[i] = e
ToCome(e) ==
  \/ \E b \in 1..Len(todo) : \E i \in 1..Len(todo[b]) : todo[b][i] = e
  \/ \E i \in 1..Len(tail) : tail[i] = e

NothingLost ==
  pc # "start" /\ Clear =>
    \A e \in Entries : InArchive(e) /\ IsFile(e) => Has(e) \/ ToCome(e)

Drained ==
  /\ pc \in {"check", "packed"} => todo = <<>> /\ tail = <<>>
  /\ pc = "ended" /\ Clear => todo = <<>> /\ tail = <<>>
  /\ pc = "packed" => rows # <<>>

NotFiles == {e \in Entries : ~IsFile(e)}
FilesHaveRows ==
  /\ pc = "start" => visited = <<>> /\ rows = <<>>
  /\ Clear => Len(rows) = Len(Files)
  /\ Len(rows) \in {Len(Files), Len(Files) - 1}
  /\ \A i \in 1..Len(rows) : rows[i] = StoredPath(Files[i].name)

IInv ==
  TypeOK /\ WhereErrorsAre /\ RowsHavePaths /\ NothingLost /\ Drained /\ FilesHaveRows
-----------------------------------------------------------------------------
(* The entry whose turn it is is one of the archive's. *)
LEMMA CurrentIsEntry ==
  ASSUME TypeOK, HasEntry
  PROVE  Current \in Entries
<1>1. CASE todo # <<>>
  <2>1. Head(todo) \in Seq(Entries) BY <1>1 DEF TypeOK
  <2>2. Head(todo) # <<>> BY <1>1 DEF HasEntry
  <2>3. Head(Head(todo)) \in Entries BY <2>1, <2>2
  <2> QED BY <1>1, <2>3 DEF Current
<1>2. CASE todo = <<>>
  BY <1>2 DEF TypeOK, HasEntry, Current
<1> QED BY <1>1, <1>2

(* What a sequence is when one more of its kind is appended. *)
LEMMA AppendType ==
  ASSUME NEW S, NEW s \in Seq(S), NEW e \in S
  PROVE  Append(s, e) \in Seq(S)
  OBVIOUS

(* The first error that is raised. *)
LEMMA FirstRaised ==
  ASSUME NEW kind, raised = <<>>, Raise(kind)
  PROVE  raised' = <<kind>>
  BY DEF Raise

(* r is the blocks s without the first entry; r has all others of s.       *)
Shorter(r, s) == s # <<>> /\ Head(s) # <<>> /\ r = <<Tail(Head(s))>> \o Tail(s)
LosesOnlyHead(r, s) ==
  \A b \in 1..Len(s) : \A i \in 1..Len(s[b]) :
    \/ s[b][i] = Head(Head(s))
    \/ \E c \in 1..Len(r) : \E j \in 1..Len(r[c]) : r[c][j] = s[b][i]

(* What going on to the next entry of a block takes from the blocks.       *)
LEMMA WithoutFirst ==
  ASSUME NEW S, NEW s \in Seq(Seq(S)), NEW r, Shorter(r, s)
  PROVE  r \in Seq(Seq(S)) /\ LosesOnlyHead(r, s)
<1> DEFINE T == Seq(S)
           first == Tail(Head(s))
           rest == Tail(s)
<1>0. s # <<>> /\ Head(s) # <<>> /\ r = <<first>> \o rest BY DEF Shorter
<1>1. Head(s) \in Seq(S) /\ Head(s) = s[1] /\ Len(s) \in Nat \ {0} BY <1>0
<1>2. first \in T BY <1>0, <1>1
<1>3. rest \in Seq(T) BY <1>0
<1>4. r \in Seq(T) /\ Len(r) = Len(s) /\ r[1] = first
        /\ \A b \in 2..Len(s) : r[b] = s[b]
  <2>1. Len(rest) = Len(s) - 1 /\ \A i \in 1..Len(rest) : rest[i] = s[i + 1] BY <1>0
  <2> HIDE DEF first, rest, T
  <2>2. r \in Seq(T)
    <3>1. <<first>> \o rest \in Seq(T) BY <1>2, <1>3
    <3> QED BY <1>0, <3>1
  <2>3. Len(r) = Len(s) BY <1>0, <1>2, <1>3, <2>1, <1>1
  <2>4. r[1] = first BY <1>0, <1>2, <1>3
  <2>5. ASSUME NEW b \in 2..Len(s) PROVE r[b] = s[b]
    <3>1. b - 1 \in 1..Len(rest) BY <2>1, <1>1
    <3>2. r[b] = rest[b - 1] BY <1>0, <1>2, <1>3, <2>1, <1>1, <3>1
    <3>3. rest[b - 1] = s[(b - 1) + 1] BY <2>1, <3>1
    <3>4. (b - 1) + 1 = b BY <1>1
    <3> QED BY <3>2, <3>3, <3>4
  <2> QED BY <2>2, <2>3, <2>4, <2>5
<1>5. ASSUME NEW b \in 1..Len(s), NEW i \in 1..Len(s[b]), s[b][i] # Head(Head(s))
      PROVE  \E c \in 1..Len(r) : \E j \in 1..Len(r[c]) : r[c][j] = s[b][i]
  <2>1. CASE b # 1
    <3>1. b \in 2..Len(s) BY <2>1, <1>1
    <3>2. r[b] = s[b] /\ b \in 1..Len(r) BY <3>1, <1>4
    <3> QED BY <3>2
  <2>2. CASE b = 1
    <3>1. i # 1 BY <1>1, <1>5, <2>2
    <3>2. i - 1 \in 1..Len(first) /\ first[i - 1] = s[1][i] BY <1>0, <1>1, <2>2, <3>1
    <3>3. 1 \in 1..Len(r) BY <1>1, <1>4
    <3> HIDE DEF first
    <3> QED BY <1>4, <3>2, <3>3, <2>2
  <2> QED BY <2>1, <2>2
<1> QED BY <1>4, <1>5 DEF LosesOnlyHead

(* Going on to the next entry leaves all but the current one to come. *)
LEMMA GoOnKeeps ==
  ASSUME TypeOK, HasEntry, GoOn
  PROVE  /\ todo' \in Seq(Seq(Entries)) /\ tail' \in Seq(Entries)
         /\ \A e \in Entries : ToCome(e) => e = Current \/ ToCome(e)'
<1>1. CASE todo # <<>>
  <2>1. Head(todo) # <<>> BY <1>1 DEF HasEntry
  <2>2. todo \in Seq(Seq(Entries)) BY DEF TypeOK
  <2>3. todo' = <<Tail(Head(todo))>> \o Tail(todo) /\ tail' = tail BY <1>1 DEF GoOn
  <2>4. todo' \in Seq(Seq(Entries)) /\ LosesOnlyHead(todo', todo)
    <3>1. Shorter(todo', todo) BY <1>1, <2>1, <2>3 DEF Shorter
    <3> QED BY <2>2, <3>1, WithoutFirst
  <2>5. Current = Head(Head(todo)) BY <1>1 DEF Current
  <2>6. tail' \in Seq(Entries) BY <2>3 DEF TypeOK
  <2>7. ASSUME NEW e \in Entries, ToCome(e) PROVE e = Current \/ ToCome(e)'
    BY <2>3, <2>4, <2>5, <2>7, Zenon DEF ToCome, LosesOnlyHead
  <2> QED BY <2>4, <2>6, <2>7
<1>2. CASE todo = <<>>
  <2>1. tail # <<>> /\ tail \in Seq(Entries) /\ tail' = Tail(tail) /\ todo' = todo
    BY <1>2 DEF HasEntry, GoOn, TypeOK
  <2>2. Current = tail[1] BY <1>2, <2>1 DEF Current
  <2>3. tail' \in Seq(Entries) /\ todo' \in Seq(Seq(Entries)) BY <2>1 DEF TypeOK
  <2>4. ASSUME NEW i \in 1..Len(tail), i # 1
        PROVE  \E j \in 1..Len(tail') : tail'[j] = tail[i]
    <3>1. i - 1 \in 1..Len(tail') /\ tail'[i - 1] = tail[i] BY <2>1, <2>4
    <3> QED BY <3>1
  <2>5. ASSUME NEW e \in Entries, ToCome(e) PROVE e = Current \/ ToCome(e)'
    <3>1. \E i \in 1..Len(tail) : tail[i] = e BY <1>2, <2>5 DEF ToCome
    <3>2. PICK i \in 1..Len(tail) : tail[i] = e BY <3>1
    <3>3. CASE i = 1 BY <2>2, <3>2, <3>3
    <3>4. CASE i # 1
      <4>1. \E j \in 1..Len(tail') : tail'[j] = e BY <2>4, <3>2, <3>4
      <4> QED BY <4>1 DEF ToCome
    <3> QED BY <3>3, <3>4
  <2> QED BY <2>3, <2>5
<1> QED BY <1>1, <1>2

(* A row is appended by a path that no row has. *)
LEMMA AppendKeepsPathsApart ==
  ASSUME NEW S, NEW s \in Seq(S), NEW p \in S, p # <<>>,
         \A i \in 1..Len(s) : s[i] # <<>>,
         \A i, j \in 1..Len(s) : s[i] = s[j] => i = j,
         ~\E i \in 1..Len(s) : s[i] = p
  PROVE  /\ Append(s, p) \in Seq(S)
         /\ \A i \in 1..Len(Append(s, p)) : Append(s, p)[i] # <<>>
         /\ \A i, j \in 1..Len(Append(s, p)) :
              Append(s, p)[i] = Append(s, p)[j] => i = j
         /\ \E i \in 1..Len(Append(s, p)) : Append(s, p)[i] = p
         /\ \A i \in 1..Len(s) : \E j \in 1..Len(Append(s, p)) : Append(s, p)[j] = s[i]
  OBVIOUS

(* An entry without a problem is packed by a path of names that no row has. *)
LEMMA PackedPath ==
  ASSUME TypeOK, HasEntry, IsFile(Current), Problem(Current) = "none"
  PROVE  /\ StoredPath(Current.name) \in Seq(Names)
         /\ StoredPath(Current.name) # <<>>
         /\ ~Duplicate(StoredPath(Current.name))
<1>1. Current.name \in RawNames
  BY CurrentIsEntry DEF Entries
<1>2. ~(format = "7z" /\ Current.kind = "dir") BY DEF IsFile
<1>3. Wrong(Current.name) = "none" /\ ~Duplicate(StoredPath(Current.name))
  BY <1>2 DEF Problem
<1>4. StoredPath(Current.name) # <<>> /\ ~\E i \in 1..Len(Current.name) : Current.name[i] = ".."
  BY <1>3 DEF Wrong
<1>5. StoredPath(Current.name) \in Seq(Names)
  <2> DEFINE raw == Current.name
             S == Names \cup {"", ".", ".."}
  <2>1. raw \in Seq(S)
    BY <1>1, ArchiveAssumption
  <2>2. \A i \in 1..Len(raw) : raw[i] # ".."
    BY <1>4
  <2> HIDE DEF raw
  <2>3. raw \in Seq(S \ {".."})
    <3> HIDE DEF S
    <3> QED
      BY <2>1, <2>2
  <2>4. Without(raw, {"", "."}) \in Seq((S \ {".."}) \ {"", "."})
    <3> HIDE DEF S
    <3> QED
      BY <2>3, WithoutType
  <2> DEFINE R == (S \ {".."}) \ {"", "."}
             p == Without(raw, {"", "."})
  <2>5. R \subseteq Names /\ p \in Seq(R)
    BY <2>4
  <2> HIDE DEF R, p
  <2>6. p \in Seq(Names)
    BY <2>5
  <2> QED
    BY <2>6 DEF StoredPath, raw, p
<1> QED BY <1>3, <1>4, <1>5

(* The files visited are entries. *)
LEMMA FilesType ==
  ASSUME TypeOK
  PROVE  Files \in Seq(Entries) /\ Files = Without(visited, NotFiles)
<1>1. visited \in Seq(Entries) BY DEF TypeOK
<1>2. Files = Without(visited, NotFiles) BY DEF Files, NotFiles
<1>3. Without(visited, NotFiles) \in Seq(Entries \ NotFiles) BY <1>1, WithoutType
<1> QED BY <1>2, <1>3

(* A visit adds a file or nothing to them. *)
LEMMA VisitFiles ==
  ASSUME TypeOK, format' = format, NEW e \in Entries, visited' = Append(visited, e)
  PROVE  Files' = IF IsFile(e) THEN Append(Files, e) ELSE Files
<1>1. visited \in Seq(Entries) BY DEF TypeOK
<1>2. NotFiles' = NotFiles BY DEF NotFiles, IsFile
<1>3. Files' = Without(Append(visited, e), NotFiles) BY <1>2 DEF Files, NotFiles
<1>4. Without(Append(visited, e), NotFiles)
        = IF e \in NotFiles THEN Without(visited, NotFiles)
          ELSE Append(Without(visited, NotFiles), e)
  BY <1>1, WithoutAppend
<1>5. e \in NotFiles <=> ~IsFile(e) BY DEF NotFiles
<1> QED BY <1>3, <1>4, <1>5, FilesType

(* There are none before the first visit. *)
LEMMA NoFiles == visited = <<>> => Files = <<>>
<1>1. <<>> \in Seq(Entries) /\ \A i \in 1..Len(<<>>) : <<>>[i] \notin NotFiles OBVIOUS
<1>2. Without(<<>>, NotFiles) = <<>> BY <1>1, WithoutNothing
<1> QED BY <1>2 DEF Files, NotFiles

LEMMA SameFiles ==
  ASSUME UNCHANGED <<format, visited>>
  PROVE  Files' = Files
  BY DEF Files, IsFile

(* While no error is raised and rows and visits stay, so does their relation. *)
LEMMA KeepsFilesHaveRows ==
  ASSUME FilesHaveRows, UNCHANGED <<format, rows, visited>>, Clear' => Clear, pc' # "start"
  PROVE  FilesHaveRows'
<1>1. Files' = Files BY SameFiles
<1> QED BY <1>1 DEF FilesHaveRows
-----------------------------------------------------------------------------
LEMMA InitIInv == Init => IInv
<1> SUFFICES ASSUME Init PROVE IInv OBVIOUS
<1>1. archive \in Inputs BY ArchiveAssumption DEF Init
<1>2. TypeOK BY <1>1 DEF Init, TypeOK, Errors
<1>3. WhereErrorsAre BY DEF Init, WhereErrorsAre, Clear
<1>4. RowsHavePaths BY DEF Init, RowsHavePaths, NoPathTwice
<1>5. NothingLost /\ Drained BY DEF Init, NothingLost, Drained
<1>6. FilesHaveRows BY NoFiles DEF Init, FilesHaveRows
<1> QED BY <1>2, <1>3, <1>4, <1>5, <1>6 DEF IInv

(* The types after an error of a given kind. *)
LEMMA RaisedType ==
  ASSUME TypeOK, NEW kind \in Errors, Raise(kind)
  PROVE  raised' \in Seq(Errors)
  BY DEF TypeOK, Raise

LEMMA OpenIInv == IInv /\ Open => IInv'
<1> SUFFICES ASSUME IInv, Open PROVE IInv' OBVIOUS
<1> USE DEF IInv
<1>1. Clear BY DEF Open, WhereErrorsAre
<1>2. \/ pc' = "entries" /\ UNCHANGED <<error, raised>>
      \/ Fail("unknown format") \/ Fail("no rar")
  BY DEF Open
<1>3. {"unknown format", "no rar"} \subseteq Errors BY DEF Errors
<1>4. archive \in Inputs /\ archive' = archive BY DEF Open, TypeOK
<1>5. todo' = archive.blocks /\ tail' = archive.tail BY DEF Open
<1>6. archive.blocks \in Seq(Seq(Entries)) /\ archive.tail \in Seq(Entries)
  BY <1>4 DEF Inputs
<1>7. error' \in Errors /\ raised' \in Seq(Errors)
        /\ pc' \in {"start", "entries", "ended", "check", "packed", "failed"}
  <2>1. CASE pc' = "entries" /\ UNCHANGED <<error, raised>> BY <2>1 DEF TypeOK
  <2>2. CASE Fail("unknown format") BY <2>2, <1>3, RaisedType DEF Fail
  <2>3. CASE Fail("no rar") BY <2>3, <1>3, RaisedType DEF Fail
  <2> QED BY <1>2, <2>1, <2>2, <2>3
<1>8. format' \in Formats \cup {Unset}
  <2>1. archive.format \in Formats \cup {Unset} /\ archive.head \in Formats \cup {Unset}
          /\ archive.suffix \in Formats \cup {Unset}
    BY <1>4 DEF Inputs
  <2>2. format' = IF archive.format # Unset THEN archive.format ELSE Sniff(archive)
    BY DEF Open
  <2> QED BY <2>1, <2>2 DEF Sniff
<1>9. TypeOK' BY <1>4, <1>5, <1>6, <1>7, <1>8 DEF Open, TypeOK
<1>10. WhereErrorsAre'
  <2>1. CASE pc' = "entries" /\ UNCHANGED <<error, raised>>
    BY <1>1, <2>1 DEF Open, WhereErrorsAre, Clear
  <2>2. CASE Fail("unknown format")
    BY <1>1, <2>2, FirstRaised DEF Fail, WhereErrorsAre, Clear
  <2>3. CASE Fail("no rar")
    BY <1>1, <2>3, FirstRaised DEF Fail, WhereErrorsAre, Clear
  <2> QED BY <1>2, <2>1, <2>2, <2>3
<1>11. RowsHavePaths' BY DEF Open, RowsHavePaths, NoPathTwice
<1>12. NothingLost'
  <2>1. ASSUME NEW e \in Entries, InArchive(e)' PROVE ToCome(e)'
    BY <2>1, <1>4, <1>5 DEF InArchive, ToCome
  <2> QED BY <2>1 DEF NothingLost
<1>13. Drained' BY <1>2 DEF Drained, Fail
<1>14. FilesHaveRows'
  <2>1. visited' = <<>> /\ rows' = <<>> BY DEF Open, FilesHaveRows
  <2>2. (visited = <<>> => Files = <<>>)' BY NoFiles, PTL
  <2> QED BY <2>1, <2>2 DEF FilesHaveRows
<1> QED BY <1>9, <1>10, <1>11, <1>12, <1>13, <1>14

LEMMA EndBlockIInv == IInv /\ EndBlock => IInv'
<1> SUFFICES ASSUME IInv, EndBlock PROVE IInv' OBVIOUS
<1> USE DEF IInv
<1>1. todo \in Seq(Seq(Entries)) /\ todo # <<>> /\ Head(todo) = <<>> /\ todo' = Tail(todo)
  BY DEF EndBlock, TypeOK
<1>2. todo' \in Seq(Seq(Entries)) BY <1>1
<1>3. TypeOK' BY <1>2 DEF EndBlock, TypeOK
<1>4. WhereErrorsAre' BY DEF EndBlock, WhereErrorsAre, Clear
<1>5. RowsHavePaths' BY DEF EndBlock, RowsHavePaths, NoPathTwice
<1>6. ASSUME NEW e \in Entries, ToCome(e) PROVE ToCome(e)'
  <2>1. CASE \E i \in 1..Len(tail) : tail[i] = e
    BY <2>1 DEF EndBlock, ToCome
  <2>2. ASSUME NEW b \in 1..Len(todo), NEW i \in 1..Len(todo[b]), todo[b][i] = e
        PROVE  ToCome(e)'
    <3>1. b # 1 BY <1>1, <2>2
    <3>2. b - 1 \in 1..Len(todo') /\ todo'[b - 1] = todo[b] BY <1>1, <3>1
    <3>3. \E c \in 1..Len(todo') : \E j \in 1..Len(todo'[c]) : todo'[c][j] = e
      BY <2>2, <3>2
    <3> QED BY <3>3 DEF ToCome
  <2> QED BY <1>6, <2>1, <2>2 DEF ToCome
<1>7. NothingLost'
  <2>1. pc' = pc /\ Clear' = Clear /\ pc = "entries" BY DEF EndBlock, Clear
  <2>2. \A e \in Entries : InArchive(e)' = InArchive(e) /\ IsFile(e)' = IsFile(e) /\ Has(e)' = Has(e)
    BY DEF EndBlock, InArchive, IsFile, Has
  <2> QED BY <1>6, <2>1, <2>2 DEF NothingLost
<1>8. Drained' BY DEF EndBlock, Drained
<1>9. FilesHaveRows' BY KeepsFilesHaveRows DEF EndBlock, Clear
<1> QED BY <1>3, <1>4, <1>5, <1>7, <1>8, <1>9

LEMMA PackIInv == IInv /\ Pack => IInv'
<1> SUFFICES ASSUME IInv, Pack PROVE IInv' OBVIOUS
<1> USE DEF IInv
<1>1. HasEntry /\ GoOn /\ Problem(Current) = "none" BY DEF Pack
<1>2. /\ todo' \in Seq(Seq(Entries)) /\ tail' \in Seq(Entries)
      /\ \A e \in Entries : ToCome(e) => e = Current \/ ToCome(e)'
  BY <1>1, GoOnKeeps
<1>3. /\ rows' \in Seq(Seq(Names)) /\ RowsHavePaths'
      /\ \A i \in 1..Len(rows) : \E j \in 1..Len(rows') : rows'[j] = rows[i]
      /\ IsFile(Current) => \E i \in 1..Len(rows') : rows'[i] = StoredPath(Current.name)
  <2>1. CASE IsFile(Current)
    <3> DEFINE p == StoredPath(Current.name)
               S == Seq(Names)
    <3>1. p \in S /\ p # <<>> /\ ~Duplicate(p) BY <1>1, <2>1, PackedPath
    <3>2. rows' = Append(rows, p) BY <2>1 DEF Pack
    <3>3. rows \in Seq(S) BY DEF TypeOK
    <3>4. /\ \A i \in 1..Len(rows) : rows[i] # <<>>
          /\ \A i, j \in 1..Len(rows) : rows[i] = rows[j] => i = j
      BY DEF RowsHavePaths, NoPathTwice
    <3>5. ~\E i \in 1..Len(rows) : rows[i] = p BY <3>1 DEF Duplicate
    <3> HIDE DEF p, S
    <3>6. /\ Append(rows, p) \in Seq(S)
          /\ \A i \in 1..Len(Append(rows, p)) : Append(rows, p)[i] # <<>>
          /\ \A i, j \in 1..Len(Append(rows, p)) :
               Append(rows, p)[i] = Append(rows, p)[j] => i = j
          /\ \E i \in 1..Len(Append(rows, p)) : Append(rows, p)[i] = p
          /\ \A i \in 1..Len(rows) : \E j \in 1..Len(Append(rows, p)) : Append(rows, p)[j] = rows[i]
      BY <3>1, <3>3, <3>4, <3>5, AppendKeepsPathsApart
    <3>7. RowsHavePaths' BY <3>2, <3>6 DEF RowsHavePaths, NoPathTwice
    <3> QED BY <3>2, <3>6, <3>7 DEF p, S
  <2>2. CASE ~IsFile(Current)
    <3>1. rows' = rows BY <2>2 DEF Pack
    <3> QED BY <2>2, <3>1 DEF TypeOK, RowsHavePaths, NoPathTwice
  <2> QED BY <2>1, <2>2
<1>4. Current \in Entries BY <1>1, CurrentIsEntry
<1>5. TypeOK' BY <1>2, <1>3, <1>4 DEF Pack, TypeOK
<1>6. WhereErrorsAre' BY DEF Pack, WhereErrorsAre, Clear
<1>7. NothingLost'
  <2>1. pc # "start" /\ Clear BY DEF Pack, WhereErrorsAre
  <2>2. ASSUME NEW e \in Entries, InArchive(e)', IsFile(e)' PROVE Has(e)' \/ ToCome(e)'
    <3>1. InArchive(e) /\ IsFile(e) BY <2>2 DEF Pack, InArchive, IsFile
    <3>2. Has(e) \/ ToCome(e) BY <2>1, <3>1 DEF NothingLost
    <3>3. Has(e) => Has(e)' BY <1>3, Zenon DEF Has
    <3>4. e = Current => Has(e)' BY <1>3, <3>1 DEF Has
    <3> QED BY <1>2, <3>2, <3>3, <3>4
  <2> QED BY <2>2 DEF NothingLost
<1>8. Drained' BY DEF Pack, Drained
<1>9. FilesHaveRows'
  <2>1. Clear /\ pc' # "start" /\ visited' = Append(visited, Current) /\ format' = format
    BY DEF Pack, WhereErrorsAre
  <2>2. Files' = IF IsFile(Current) THEN Append(Files, Current) ELSE Files
    BY <1>4, <2>1, VisitFiles
  <2>3. Len(rows) = Len(Files) /\ Files \in Seq(Entries) /\ rows \in Seq(Seq(Names))
    BY <2>1, FilesType DEF FilesHaveRows, TypeOK
  <2>4. CASE IsFile(Current)
    <3>1. rows' = Append(rows, StoredPath(Current.name)) BY <2>4 DEF Pack
    <3>2. Files' = Append(Files, Current) BY <2>2, <2>4
    <3>3. Len(rows') = Len(Files') BY <2>3, <3>1, <3>2
    <3>4. ASSUME NEW i \in 1..Len(rows') PROVE rows'[i] = StoredPath(Files'[i].name)
      BY <2>3, <3>1, <3>2 DEF FilesHaveRows
    <3> QED BY <2>1, <3>3, <3>4 DEF FilesHaveRows
  <2>5. CASE ~IsFile(Current)
    <3>1. rows' = rows /\ Files' = Files BY <2>2, <2>5 DEF Pack
    <3> QED BY <2>1, <2>3, <3>1 DEF FilesHaveRows
  <2> QED BY <2>4, <2>5
<1> QED BY <1>3, <1>5, <1>6, <1>7, <1>8, <1>9

(* An error ends the loop: where it goes, and what it leaves alone. *)
LEMMA ErrorIInv ==
  ASSUME IInv, NEW kind \in Errors, kind # "none", Raise(kind),
         pc \in {"start", "entries", "check"},
         UNCHANGED <<archive, format, todo, tail, rows>>,
         visited' = visited \/ (HasEntry /\ visited' = Append(visited, Current)),
         \/ pc' = "failed" /\ error' = kind /\ inner' = inner
         \/ pc' = "ended" /\ error' = kind /\ inner' = inner
         \/ pc' = "ended" /\ error' = "carrier" /\ inner' = kind
  PROVE  IInv'
<1> USE DEF IInv
<1>1. Clear BY DEF WhereErrorsAre
<1>2. raised' = <<kind>> BY <1>1, FirstRaised DEF Clear
<1>3. raised' # <<>> /\ ~Clear' BY <1>2 DEF Clear
<1>4. "carrier" \in Errors BY DEF Errors
<1>5. TypeOK'
  <2>1. visited' \in Seq(Entries) BY CurrentIsEntry, AppendType DEF TypeOK
  <2> QED BY <1>4, <2>1, RaisedType DEF TypeOK
<1>6. WhereErrorsAre'
  BY <1>1, <1>2 DEF WhereErrorsAre, Clear, KeptHere, ErrorIn
<1>7. RowsHavePaths' BY DEF RowsHavePaths, NoPathTwice
<1>8. NothingLost' BY <1>3 DEF NothingLost
<1>9. Drained' BY <1>3 DEF Drained
<1>10. FilesHaveRows'
  <2>1. Len(rows) = Len(Files) /\ Files \in Seq(Entries) BY <1>1, FilesType DEF FilesHaveRows
  <2>2. Files' = Files \/ \E e \in Entries : Files' = Append(Files, e)
    <3>1. CASE visited' = visited BY <3>1, SameFiles
    <3>2. CASE HasEntry /\ visited' = Append(visited, Current)
      BY <3>2, CurrentIsEntry, VisitFiles
    <3> QED BY <3>1, <3>2
  <2>3. Len(rows') \in {Len(Files'), Len(Files') - 1} BY <2>1, <2>2
  <2>4. ASSUME NEW i \in 1..Len(rows) PROVE Files'[i] = Files[i] BY <2>1, <2>2
  <2>5. pc' # "start" OBVIOUS
  <2> QED BY <1>3, <2>3, <2>4, <2>5 DEF FilesHaveRows
<1> QED BY <1>5, <1>6, <1>7, <1>8, <1>9, <1>10

LEMMA StumbleIInv == IInv /\ Stumble => IInv'
<1> SUFFICES ASSUME IInv, Stumble PROVE IInv' OBVIOUS
<1>1. PICK kind \in {"unreadable", "dots", "empty path", "duplicate", "io"} :
        pc = "entries" /\ HasEntry /\ (Refuse(kind) \/ Keep(kind) \/ PassOn(kind))
  BY DEF Stumble
<1>2. kind \in Errors /\ kind # "none" BY <1>1 DEF Errors
<1>3. Raise(kind) BY <1>1 DEF Refuse, Keep, PassOn, Fail
<1>4. HasEntry /\ visited' = Append(visited, Current)
  BY <1>1 DEF Refuse, Keep, PassOn
<1>5. UNCHANGED <<archive, format, todo, tail, rows>>
  BY <1>1 DEF Refuse, Keep, PassOn
<1>6. \/ pc' = "failed" /\ error' = kind /\ inner' = inner
      \/ pc' = "ended" /\ error' = kind /\ inner' = inner
      \/ pc' = "ended" /\ error' = "carrier" /\ inner' = kind
  BY <1>1 DEF Refuse, Keep, PassOn, Fail
<1> QED BY <1>1, <1>2, <1>3, <1>4, <1>5, <1>6, ErrorIInv

LEMMA IoErrorIInv == IInv /\ IoError => IInv'
<1> SUFFICES ASSUME IInv, IoError PROVE IInv' OBVIOUS
<1>1. "io" \in Errors /\ "io" # "none" BY DEF Errors
<1>2. Raise("io") /\ pc \in {"start", "entries", "check"} BY DEF IoError, Fail
<1>3. visited' = visited BY DEF IoError
<1>4. UNCHANGED <<archive, format, todo, tail, rows>> BY DEF IoError
<1>5. \/ pc' = "failed" /\ error' = "io" /\ inner' = inner
      \/ pc' = "ended" /\ error' = "io" /\ inner' = inner
  BY DEF IoError, Fail
<1> QED BY <1>1, <1>2, <1>3, <1>4, <1>5, ErrorIInv

LEMMA EndIInv == IInv /\ (EndLoop \/ EndSevenZ) => IInv'
<1> SUFFICES ASSUME IInv, EndLoop \/ EndSevenZ PROVE IInv' OBVIOUS
<1> USE DEF IInv
<1>1. UNCHANGED <<archive, format, todo, tail, rows, inner, visited, raised>>
  BY DEF EndLoop, EndSevenZ
<1>2. RowsHavePaths' BY <1>1 DEF RowsHavePaths, NoPathTwice
<1>3. \A e \in Entries : /\ InArchive(e)' = InArchive(e) /\ IsFile(e)' = IsFile(e)
                         /\ Has(e)' = Has(e) /\ ToCome(e)' = ToCome(e)
  BY <1>1 DEF InArchive, IsFile, Has, ToCome
<1>4. CASE EndLoop
  <2>1. Clear /\ Clear' /\ pc = "entries" BY <1>4 DEF EndLoop, WhereErrorsAre, Clear
  <2>2. TypeOK' BY <1>1, <1>4 DEF EndLoop, TypeOK
  <2>3. WhereErrorsAre' BY <1>4, <2>1 DEF EndLoop, WhereErrorsAre
  <2>4. NothingLost' BY <1>3, <2>1 DEF NothingLost
  <2>5. Drained' BY <1>4 DEF EndLoop, Drained
  <2>6. FilesHaveRows' BY <1>1, <1>4, <2>1, KeepsFilesHaveRows DEF EndLoop
  <2> QED BY <1>2, <2>2, <2>3, <2>4, <2>5, <2>6
<1>5. CASE EndSevenZ
  <2>1. TypeOK' BY <1>1, <1>5 DEF EndSevenZ, InnerFirst, TypeOK
  <2>2. WhereErrorsAre'
    BY <1>5 DEF EndSevenZ, InnerFirst, WhereErrorsAre, Clear, KeptHere, ErrorIn
  <2>3. Clear' => Clear
    BY <1>1, <1>5 DEF EndSevenZ, InnerFirst, WhereErrorsAre, Clear, KeptHere, ErrorIn
  <2>4. NothingLost' BY <1>3, <1>5, <2>3 DEF EndSevenZ, NothingLost
  <2>5. pc' = "check" => Clear'
    BY <2>2 DEF WhereErrorsAre
  <2>6. Drained' BY <1>1, <1>5, <2>3, <2>5 DEF EndSevenZ, Drained
  <2>7. FilesHaveRows' BY <1>1, <1>5, <2>3, KeepsFilesHaveRows DEF EndSevenZ
  <2> QED BY <1>2, <2>1, <2>2, <2>4, <2>6, <2>7
<1> QED BY <1>4, <1>5

LEMMA CheckIInv == IInv /\ Check => IInv'
<1> SUFFICES ASSUME IInv, Check PROVE IInv' OBVIOUS
<1> USE DEF IInv
<1>1. UNCHANGED <<archive, format, todo, tail, rows, inner, visited>> /\ pc = "check" BY DEF Check
<1>2. Clear BY <1>1 DEF WhereErrorsAre
<1>3. RowsHavePaths' BY <1>1 DEF RowsHavePaths, NoPathTwice
<1>4. CASE Fail("no files")
  <2>1. "no files" \in Errors BY DEF Errors
  <2>2. raised' = <<"no files">> BY <1>2, <1>4, FirstRaised DEF Fail, Clear
  <2>3. ~Clear' BY <2>2 DEF Clear
  <2>4. TypeOK' BY <1>1, <1>4, <2>1, RaisedType DEF Fail, TypeOK
  <2>5. WhereErrorsAre' BY <1>4, <2>2 DEF Fail, WhereErrorsAre
  <2>6. NothingLost' /\ Drained' BY <1>4, <2>3 DEF Fail, NothingLost, Drained
  <2>7. FilesHaveRows' BY <1>1, <1>2, <1>4, KeepsFilesHaveRows DEF Fail
  <2> QED BY <1>3, <2>4, <2>5, <2>6, <2>7
<1>5. CASE rows # <<>> /\ pc' = "packed" /\ UNCHANGED <<error, raised>>
  <2>1. TypeOK' BY <1>1, <1>5 DEF TypeOK
  <2>2. WhereErrorsAre' BY <1>1, <1>2, <1>5 DEF WhereErrorsAre, Clear
  <2>3. Drained' BY <1>1, <1>5 DEF Drained
  <2>4. \A e \in Entries : /\ InArchive(e)' = InArchive(e) /\ IsFile(e)' = IsFile(e)
                           /\ Has(e)' = Has(e) /\ ToCome(e)' = ToCome(e)
    BY <1>1 DEF InArchive, IsFile, Has, ToCome
  <2>5. NothingLost' BY <1>1, <1>2, <2>4 DEF NothingLost
  <2>6. FilesHaveRows' BY <1>1, <1>2, <1>5, KeepsFilesHaveRows
  <2> QED BY <1>3, <2>1, <2>2, <2>3, <2>5, <2>6
<1> QED BY <1>4, <1>5 DEF Check

LEMMA StepIInv == IInv /\ [Next]_vars => IInv'
<1> SUFFICES ASSUME IInv, [Next]_vars PROVE IInv' OBVIOUS
<1>1. CASE Returned \/ UNCHANGED vars
  <2>1. UNCHANGED vars BY <1>1 DEF Returned
  <2>2. TypeOK' /\ RowsHavePaths' BY <2>1 DEF vars, IInv, TypeOK, RowsHavePaths, NoPathTwice
  <2>3. WhereErrorsAre' /\ Drained'
    BY <2>1 DEF vars, IInv, WhereErrorsAre, Drained, Clear, KeptHere, ErrorIn
  <2>4. NothingLost'
    BY <2>1 DEF vars, IInv, NothingLost, Clear, InArchive, IsFile, Has, ToCome
  <2>5. FilesHaveRows'
    <3>1. Files' = Files BY <2>1, SameFiles DEF vars
    <3> QED BY <2>1, <3>1 DEF vars, IInv, FilesHaveRows, Clear
  <2> QED BY <2>2, <2>3, <2>4, <2>5 DEF IInv
<1> QED
  BY <1>1, OpenIInv, EndBlockIInv, PackIInv, StumbleIInv, IoErrorIInv, EndIInv, CheckIInv DEF Next

(* The inductive invariant holds in every reachable state. *)
THEOREM Invariance == Spec => []IInv
  BY InitIInv, StepIInv, PTL DEF Spec

(* Every variable keeps its type; in particular rows are paths of names. *)
THEOREM TypeCorrect == Spec => []TypeOK
<1>1. IInv => TypeOK BY DEF IInv
<1> QED BY <1>1, Invariance, PTL

(* The call returns the first error it met, whatever the format and the    *)
(* archive (the three kinds of loop and `inner` of pack_7z_entries).       *)
THEOREM FirstError == Spec => []FirstErrorIsReturned
<1>1. IInv => FirstErrorIsReturned
  BY DEF IInv, WhereErrorsAre, FirstErrorIsReturned
<1> QED BY <1>1, Invariance, PTL

(* The rows are the files that the loop came to, in its order, each by the *)
(* path that entry_stored_path gives its name; the entry an error was      *)
(* raised for has no row, and none is visited after it.                    *)
THEOREM RowsAreFiles == Spec => []RowsFollowEntries
<1>1. IInv => RowsFollowEntries
  <2> SUFFICES ASSUME IInv PROVE RowsFollowEntries OBVIOUS
  <2>1. Clear \/ \E e \in Errors : raised = <<e>>
    BY DEF IInv, TypeOK, WhereErrorsAre, KeptHere, ErrorIn
  <2>2. \/ Clear /\ Len(raised) = 0
        \/ Len(raised) = 1
    BY <2>1 DEF Clear
  <2>3. /\ Clear => Len(rows) = Len(Files)
        /\ Len(rows) \in {Len(Files), Len(Files) - 1}
        /\ \A i \in 1..Len(rows) : rows[i] = StoredPath(Files[i].name)
    BY DEF IInv, FilesHaveRows
  <2>4. Len(rows) \in {Len(Files), Len(Files) - Len(raised)} /\ Len(raised) <= 1
    <3>1. Clear => Len(raised) = 0 BY DEF Clear
    <3>2. CASE Clear BY <2>3, <3>1, <3>2
    <3>3. CASE Len(raised) = 1 BY <2>3, <3>3
    <3> QED BY <2>2, <3>2, <3>3
  <2> QED BY <2>3, <2>4 DEF RowsFollowEntries
<1> QED BY <1>1, Invariance, PTL

(* Stored paths are canonical and distinct (entry_stored_path, and the     *)
(* check of PackWriter::append).                                           *)
THEOREM PathsCanonical == Spec => []StoredPathsAreCanonical
<1>1. IInv => StoredPathsAreCanonical
  <2> SUFFICES ASSUME IInv PROVE StoredPathsAreCanonical OBVIOUS
  <2> DEFINE S == Seq(Names)
  <2>1. rows \in Seq(S) BY DEF IInv, TypeOK
  <2>2. ASSUME NEW i \in 1..Len(rows), NEW n \in 1..Len(rows[i]) PROVE rows[i][n] \in Names
    <3>1. rows[i] \in S
      <4> HIDE DEF S
      <4> QED BY <2>1
    <3> QED BY <3>1
  <2> QED BY <2>2 DEF IInv, RowsHavePaths, StoredPathsAreCanonical
<1> QED BY <1>1, Invariance, PTL

(* A call that succeeds has packed every file of every block and of the    *)
(* tail, in every format.                                                  *)
THEOREM PackedWhole == Spec => []PackedIsWhole
<1>1. IInv => PackedIsWhole
  <2> SUFFICES ASSUME IInv, pc = "packed" PROVE PackedIsWhole BY DEF PackedIsWhole
  <2>1. archive.blocks \in Seq(Seq(Entries)) /\ archive.tail \in Seq(Entries)
    BY DEF IInv, TypeOK, Inputs
  <2>2. Clear /\ todo = <<>> /\ tail = <<>> /\ rows # <<>> BY DEF IInv, WhereErrorsAre, Drained
  <2>3. ASSUME NEW e \in Entries, InArchive(e), IsFile(e) PROVE Has(e)
    <3>1. ~ToCome(e) BY <2>2 DEF ToCome
    <3> QED BY <2>2, <2>3, <3>1 DEF IInv, NothingLost
  <2>4. ASSUME NEW b \in 1..Len(archive.blocks), NEW i \in 1..Len(archive.blocks[b]),
               IsFile(archive.blocks[b][i])
        PROVE  Has(archive.blocks[b][i])
    <3> DEFINE B == Seq(Entries)
    <3>1. archive.blocks[b] \in B
      <4>1. archive.blocks \in Seq(B) BY <2>1
      <4> HIDE DEF B
      <4> QED BY <4>1
    <3>2. archive.blocks[b][i] \in Entries BY <3>1
    <3>3. InArchive(archive.blocks[b][i]) BY DEF InArchive
    <3> QED BY <2>3, <2>4, <3>2, <3>3
  <2>5. ASSUME NEW i \in 1..Len(archive.tail), IsFile(archive.tail[i])
        PROVE  Has(archive.tail[i])
    <3>1. archive.tail[i] \in Entries BY <2>1
    <3>2. InArchive(archive.tail[i]) BY DEF InArchive
    <3> QED BY <2>3, <2>5, <3>1, <3>2
  <2> QED BY <2>2, <2>4, <2>5 DEF PackedIsWhole
<1> QED BY <1>1, Invariance, PTL
-----------------------------------------------------------------------------
(* Paths, and what they are without the segments that clean drops. *)
Hollow   == ""
Dropped  == {Hollow, "."}
Segments == FileNames \cup Wild \cup {Hollow, ".", "..", "**"}
FileSegments == FileNames \cup {"/", ".."}

(* The segments are all different.                                         *)
LEMMA SegmentFacts ==
  /\ \A s \in {Hollow, ".", "..", "/", "**"} : s \notin FileNames /\ s \notin Wild
  /\ Hollow \notin {".", "..", "/", "**"}
  /\ \A w \in Wild : MatchedBy[w] \subseteq FileNames
  /\ "*" \in Wild /\ MatchedBy["*"] = FileNames /\ MaxChanges \in Nat
BY SourcesAssumption, Zenon DEF Hollow

LEMMA FileFacts ==
  ASSUME NEW f \in UNION Disks
  PROVE  /\ f \in Seq(FileSegments) /\ f # <<>> /\ Len(f) \in Nat /\ Len(f) >= 1
         /\ \A i \in 1..Len(f) : f[i] \in FileSegments /\ f[i] # "**"
         /\ f[Len(f)] \in FileNames
<1>1. f \in Seq(FileSegments) /\ f # <<>> /\ f[Len(f)] \in FileNames
  BY FilesAssumption DEF Components, FileSegments
<1>2. Len(f) \in Nat /\ Len(f) >= 1
  BY <1>1, EmptySeq
<1>3. "**" \notin FileSegments
  BY SegmentFacts DEF FileSegments
<1> QED
  BY <1>1, <1>2, <1>3

(* What lies below a directory, element by element.                        *)
LEMMA BelowIs ==
  ASSUME NEW f \in Seq(FileSegments), NEW d \in Seq(FileSegments)
  PROVE  /\ Extends(f, d) <=> /\ Len(f) > Len(d)
                              /\ \A i \in 1..Len(d) : f[i] = d[i]
         /\ Below(f, d) <=> /\ Len(f) > Len(d)
                            /\ \A i \in 1..Len(d) : f[i] = d[i]
                            /\ \A i \in (Len(d) + 1)..Len(f) : f[i] \in FileNames
         /\ Extends(f, d) => /\ Rest(f, d) \in Seq(FileSegments) /\ Len(Rest(f, d)) > 0
                             /\ d \o Rest(f, d) = f
<1>1. Len(f) \in Nat /\ Len(d) \in Nat
  OBVIOUS
<1>2. ASSUME Len(f) > Len(d)
      PROVE  /\ SubSeq(f, 1, Len(d)) = d <=> \A i \in 1..Len(d) : f[i] = d[i]
             /\ Rest(f, d) \in Seq(FileSegments) /\ Len(Rest(f, d)) = Len(f) - Len(d)
             /\ \A i \in 1..(Len(f) - Len(d)) : Rest(f, d)[i] = f[Len(d) + i]
             /\ SubSeq(f, 1, Len(d)) \o Rest(f, d) = f
  <2> DEFINE a == SubSeq(f, 1, Len(d))
  <2>1. Len(d) \in 0..Len(f)
    BY <1>1, <1>2
  <2>2. /\ a \in Seq(FileSegments) /\ Len(a) = Len(d)
        /\ \A i \in 1..Len(d) : a[i] = f[i]
        /\ Rest(f, d) \in Seq(FileSegments) /\ Len(Rest(f, d)) = Len(f) - Len(d)
        /\ \A i \in 1..(Len(f) - Len(d)) : Rest(f, d)[i] = f[Len(d) + i]
        /\ a \o Rest(f, d) = f
    BY <2>1, SplitSeq DEF Rest
  <2> HIDE DEF a
  <2>3. (\A i \in 1..Len(d) : a[i] = d[i]) => a = d
    BY <2>2, SeqEqual
  <2>4. a = d <=> \A i \in 1..Len(d) : f[i] = d[i]
    BY <2>2, <2>3
  <2> QED
    BY <2>2, <2>4 DEF a
<1>3. ASSUME Len(f) > Len(d)
      PROVE  (\A i \in 1..Len(Rest(f, d)) : Rest(f, d)[i] \in FileNames)
               <=> \A i \in (Len(d) + 1)..Len(f) : f[i] \in FileNames
  <2> DEFINE r == Rest(f, d)
  <2>1. Len(r) = Len(f) - Len(d) /\ \A i \in 1..(Len(f) - Len(d)) : r[i] = f[Len(d) + i]
    BY <1>2, <1>3
  <2> HIDE DEF r
  <2>2. ASSUME \A i \in 1..Len(r) : r[i] \in FileNames, NEW i \in (Len(d) + 1)..Len(f)
        PROVE  f[i] \in FileNames
    <3>1. i - Len(d) \in 1..(Len(f) - Len(d)) /\ Len(d) + (i - Len(d)) = i
      BY <1>1
    <3> QED
      BY <2>1, <2>2, <3>1
  <2>3. ASSUME \A i \in (Len(d) + 1)..Len(f) : f[i] \in FileNames, NEW i \in 1..Len(r)
        PROVE  r[i] \in FileNames
    <3>1. i \in 1..(Len(f) - Len(d)) /\ Len(d) + i \in (Len(d) + 1)..Len(f)
      BY <1>1, <2>1
    <3> QED
      BY <2>1, <2>3, <3>1
  <2> QED
    BY <2>2, <2>3 DEF r
<1>4. Extends(f, d) <=> Len(f) > Len(d) /\ \A i \in 1..Len(d) : f[i] = d[i]
  BY <1>2 DEF Extends
<1>5. Below(f, d) <=> Extends(f, d) /\ \A i \in (Len(d) + 1)..Len(f) : f[i] \in FileNames
  BY <1>3, <1>4 DEF Below
<1>6. ASSUME Extends(f, d)
      PROVE  /\ Rest(f, d) \in Seq(FileSegments) /\ Len(Rest(f, d)) > 0
             /\ d \o Rest(f, d) = f
  <2>1. Len(f) > Len(d) /\ SubSeq(f, 1, Len(d)) = d
    BY <1>6 DEF Extends
  <2>2. Len(f) - Len(d) > 0
    BY <1>1, <2>1
  <2> QED
    BY <1>2, <2>1, <2>2
<1> QED
  BY <1>4, <1>5, <1>6

LEMMA StoredKind ==
  ASSUME NEW f, NEW d
  PROVE  Stored(f, d).kind \in {"outside", "empty", "escapes", "ok"}
BY DEF Stored

(* What stored_path gives for a file below the root is the rest of its     *)
(* path, and it gives nothing else.                                        *)
LEMMA StoredBelow ==
  ASSUME NEW f \in Seq(FileSegments), NEW d \in Seq(FileSegments)
  PROVE  /\ Below(f, d) => Stored(f, d).kind = "ok"
         /\ Stored(f, d).kind = "ok" =>
              /\ Stored(f, d).path \in Seq(FileNames) /\ Len(Stored(f, d).path) > 0
              /\ d \o Stored(f, d).path = f
<1> DEFINE r == Rest(f, d)
           Leaves == \E i \in 1..Len(r) : r[i] \in {"/", ".."}
<1>1. Extends(f, d) => f # d
  BY DEF Extends
<1>2. Below(f, d) => Extends(f, d) /\ ~Leaves
  BY SegmentFacts DEF Below
<1>3. Stored(f, d) = IF f # d /\ ~Extends(f, d) THEN [kind |-> "outside"]
                     ELSE IF f = d THEN [kind |-> "empty"]
                     ELSE IF Leaves THEN [kind |-> "escapes"]
                     ELSE [kind |-> "ok", path |-> r]
  BY DEF Stored
<1>4. ASSUME Extends(f, d), ~Leaves
      PROVE  r \in Seq(FileNames) /\ Len(r) > 0 /\ d \o r = f
  <2>1. r \in Seq(FileSegments) /\ Len(r) > 0 /\ d \o r = f
    BY <1>4, BelowIs
  <2>2. \A i \in 1..Len(r) : r[i] \in FileNames
    <3>1. \A i \in 1..Len(r) : r[i] \in FileSegments
      <4> HIDE DEF r
      <4> QED
        BY <2>1, SeqFacts
    <3> QED
      BY <1>4, <3>1 DEF FileSegments
  <2> HIDE DEF r
  <2> QED
    BY <2>1, <2>2
<1> HIDE DEF r, Leaves
<1>5. Stored(f, d).kind = "ok" => Extends(f, d) /\ ~Leaves /\ Stored(f, d).path = r
  BY <1>3
<1>6. Extends(f, d) /\ ~Leaves => Stored(f, d).kind = "ok"
  BY <1>1, <1>3
<1> QED
  BY <1>2, <1>4, <1>5, <1>6

Kept(p) == Without(p, Dropped)

LEMMA KeptType ==
  ASSUME NEW S, NEW p \in Seq(S)
  PROVE  Kept(p) \in Seq(S \ Dropped)
BY WithoutType DEF Kept

LEMMA KeptConcat ==
  ASSUME NEW S, NEW p \in Seq(S), NEW q \in Seq(S)
  PROVE  Kept(p \o q) = Kept(p) \o Kept(q)
BY WithoutConcat DEF Kept

LEMMA KeptSame ==
  ASSUME NEW S, NEW p \in Seq(S), \A i \in 1..Len(p) : p[i] \notin Dropped
  PROVE  Kept(p) = p
BY WithoutNothing DEF Kept

LEMMA KeptNone ==
  ASSUME NEW S, NEW p \in Seq(S), \A i \in 1..Len(p) : p[i] = Hollow
  PROVE  Kept(p) = <<>>
<1>0. Hollow \in Dropped
  BY Zenon DEF Dropped, Hollow
<1>1. \A i \in 1..Len(p) : p[i] \in Dropped
  BY <1>0
<1> QED
  BY <1>1, WithoutAll DEF Kept

LEMMA CleanIs ==
  ASSUME NEW p
  PROVE  Clean(p) = IF Len(p) > 1 /\ Head(p) = Hollow THEN <<"/">> \o Kept(p) ELSE Kept(p)
BY Zenon DEF Clean, Kept, Dropped, Hollow

LEMMA CleanType ==
  ASSUME NEW S, NEW p \in Seq(S)
  PROVE  Clean(p) \in Seq((S \ Dropped) \cup {"/"})
<1> DEFINE T == (S \ Dropped) \cup {"/"}
<1>1. Kept(p) \in Seq(T)
  BY KeptType, SeqMonotonic
<1>2. "/" \in T
  OBVIOUS
<1> HIDE DEF T
<1>3. <<"/">> \in Seq(T)
  BY <1>2
<1>4. <<"/">> \o Kept(p) \in Seq(T)
  BY <1>1, <1>3
<1>5. Clean(p) \in Seq(T)
  BY <1>1, <1>4, CleanIs
<1> QED
  BY <1>5 DEF T

(* A path of a caller, and the name of a file. *)
LEMMA CleanPath ==
  ASSUME NEW S, NEW p \in Seq(S), S \subseteq FileNames \cup {Hollow, ".", ".."}
  PROVE  Clean(p) \in Components
<1>1. (S \ Dropped) \cup {"/"} \subseteq FileNames \cup {"/", ".."}
  BY DEF Dropped
<1>2. Clean(p) \in Seq((S \ Dropped) \cup {"/"})
  BY CleanType
<1> DEFINE T == (S \ Dropped) \cup {"/"}
<1> HIDE DEF T
<1>3. T \subseteq FileNames \cup {"/", ".."} /\ Clean(p) \in Seq(T)
  BY <1>1, <1>2 DEF T
<1> QED
  BY <1>3, SeqMonotonic DEF Components

LEMMA CleanFile ==
  ASSUME NEW f \in UNION Disks
  PROVE  f \in Components /\ Clean(f) = f
<1>1. f \in Seq(FileNames \cup {"/", ".."})
  BY FilesAssumption DEF Components
<1> DEFINE S == FileNames \cup {"/", ".."}
<1>2. ASSUME NEW s \in S PROVE s \notin Dropped
  BY SegmentFacts DEF Dropped
<1> HIDE DEF S
<1>3. f \in Seq(S)
  BY <1>1 DEF S
<1>4. \A i \in 1..Len(f) : f[i] \notin Dropped
  BY <1>2, <1>3
<1>5. Kept(f) = f
  BY <1>3, <1>4, KeptSame
<1>6. ~(Len(f) > 1 /\ Head(f) = Hollow)
  <2> SUFFICES ASSUME Len(f) > 1, Head(f) = Hollow PROVE FALSE
    OBVIOUS
  <2>0. 1 \in 1..Len(f) /\ Head(f) = f[1]
    <3>1. f # <<>>
      BY FilesAssumption
    <3> QED
      BY <1>3, <3>1, HeadIsFirst
  <2>1. 1 \in 1..Len(f) /\ f[1] = Hollow
    BY <2>0
  <2>2. Hollow \in Dropped
    BY Zenon DEF Dropped, Hollow
  <2> QED
    BY <1>4, <2>1, <2>2
<1> QED
  BY <1>1, <1>5, <1>6, CleanIs DEF Components

(* trim_end_matches leaves the first n segments, and at least one.         *)
LEMMA TrimFacts ==
  ASSUME NEW p \in Seq(Segments), p # <<>>
  PROVE  \E n \in 1..Len(p) : /\ Trim(p) = SubSeq(p, 1, n)
                              /\ \A i \in (n + 1)..Len(p) : p[i] = Hollow
                              /\ n > 1 => p[n] # Hollow
<1> DEFINE named == {i \in 1..Len(p) : p[i] # Hollow}
           Cut(n) == /\ n = 0 \/ p[n] # Hollow
                     /\ \A i \in (n + 1)..Len(p) : p[i] = Hollow
           n == CHOOSE n \in 0..Len(p) : Cut(n)
<1>1. p \in Seq(Segments) /\ p # <<>>
  OBVIOUS
<1>2. Len(p) \in Nat /\ Len(p) >= 1 /\ 1 \in 1..Len(p) /\ Head(p) = p[1]
  BY <1>1, EmptySeq, HeadIsFirst
<1>3. \E m \in 0..Len(p) : Cut(m)
  <2>1. CASE named = {}
    <3>1. \A i \in 1..Len(p) : p[i] = Hollow
      BY <2>1
    <3>2. Cut(0)
      BY <3>1
    <3> QED
      BY <1>2, <3>2
  <2>2. CASE named # {}
    <3>1. named \subseteq 1..Len(p)
      OBVIOUS
    <3>2. PICK m \in named : \A j \in named : j <= m
      <4> HIDE DEF named
      <4> QED
        BY <1>2, <2>2, <3>1, ExtremesExist
    <3>3. Cut(m)
      BY <1>2, <3>2
    <3>4. m \in 0..Len(p)
      BY <3>2
    <3> QED
      BY <3>3, <3>4
  <2> QED
    BY <2>1, <2>2
<1>4. n \in 0..Len(p) /\ Cut(n)
  <2> HIDE DEF Cut
  <2> QED
    BY <1>3
<1>5. Trim(p) = IF n = 0 THEN <<Hollow>> ELSE SubSeq(p, 1, n)
  BY Zenon DEF Trim, Hollow
<1> HIDE DEF n
<1>6. CASE n = 0
  <2>1. \A i \in 1..Len(p) : p[i] = Hollow
    BY <1>4, <1>6
  <2>2. SubSeq(p, 1, 1) = <<p[1]>>
    <3> DEFINE q == SubSeq(p, 1, 1)
               r == <<p[1]>>
    <3>1. q \in Seq(Segments) /\ Len(q) = 1 /\ q[1] = p[1]
      BY <1>1, <1>2, SplitSeq
    <3>2. r \in Seq(Segments) /\ Len(r) = 1 /\ r[1] = p[1]
      BY <1>1, <1>2
    <3> HIDE DEF q, r
    <3>3. q = r
      BY <3>1, <3>2, SeqEqual
    <3> QED
      BY <3>3 DEF q, r
  <2>3. Trim(p) = SubSeq(p, 1, 1)
    BY <1>2, <1>5, <1>6, <2>1, <2>2
  <2> QED
    BY <1>2, <2>1, <2>3
<1>7. CASE n # 0
  BY <1>4, <1>5, <1>7
<1> QED
  BY <1>6, <1>7

(* A directory and what it is made: the same path, and two segments more.  *)
AllEmpty(p) == \A i \in 1..Len(p) : p[i] = Hollow

LEMMA CleanDir ==
  ASSUME NEW p \in Seq(Segments), p # <<>>, Len(p) = 1 => p[1] # Hollow
  PROVE  /\ Clean(AllOfDir(Trim(p))) = Clean(p) \o <<"**", "*">>
         /\ ~AllEmpty(p) => Clean(Trim(p)) = Clean(p)
<1>1. p \in Seq(Segments) /\ p # <<>>
  OBVIOUS
<1>2. Len(p) \in Nat /\ Len(p) >= 1 /\ 1 \in 1..Len(p) /\ Head(p) = p[1]
  BY <1>1, EmptySeq, HeadIsFirst
<1>3. PICK n \in 1..Len(p) : /\ Trim(p) = SubSeq(p, 1, n)
                             /\ \A i \in (n + 1)..Len(p) : p[i] = Hollow
                             /\ n > 1 => p[n] # Hollow
  BY TrimFacts
<1> DEFINE a == SubSeq(p, 1, n)
           b == SubSeq(p, n + 1, Len(p))
           all == <<"**", "*">>
<1>4. /\ a \in Seq(Segments) /\ b \in Seq(Segments) /\ p = a \o b
      /\ Len(a) = n /\ Head(a) = p[1] /\ a[1] = p[1] /\ a # <<>>
  <2>0. n \in 0..Len(p) /\ 1 \in 1..n
    BY <1>2
  <2>1. /\ a \in Seq(Segments) /\ b \in Seq(Segments) /\ p = a \o b
        /\ Len(a) = n /\ a[1] = p[1]
    BY <1>1, <2>0, SplitSeq
  <2> HIDE DEF a, b
  <2>2. a # <<>>
    BY <2>0, <2>1
  <2> QED
    BY <2>1, <2>2, HeadIsFirst
<1>5. Kept(b) = <<>>
  <2>1. \A i \in 1..Len(b) : b[i] = Hollow
    <3>1. Len(b) = Len(p) - n /\ \A i \in 1..(Len(p) - n) : b[i] = p[n + i] /\ n + i \in (n + 1)..Len(p)
      BY <1>1, <1>2
    <3> QED
      BY <1>3, <3>1
  <2> QED
    BY <1>4, <2>1, KeptNone
<1>6. all \in Seq(Segments) /\ Kept(all) = all /\ Len(all) = 2
  <2>1. "**" \in Segments /\ "*" \in Segments
    BY SourcesAssumption DEF Segments
  <2>2. all \in Seq(Segments) /\ Len(all) = 2 /\ all[1] = "**" /\ all[2] = "*"
    BY <2>1
  <2>3. "**" \notin Dropped /\ "*" \notin Dropped
    BY SegmentFacts DEF Dropped
  <2>4. \A i \in 1..Len(all) : all[i] \notin Dropped
    <3> HIDE DEF all
    <3>1. \A i \in 1..2 : i = 1 \/ i = 2
      OBVIOUS
    <3> QED
      BY <2>2, <2>3, <3>1
  <2> HIDE DEF all
  <2> QED
    BY <2>2, <2>4, KeptSame
<1> HIDE DEF a, b, all
<1>7. Kept(p) \in Seq(Segments \ Dropped) /\ Kept(a) \in Seq(Segments \ Dropped)
  BY <1>1, <1>4, KeptType
<1>8. Kept(p) = Kept(a)
  <2>1. Kept(p) = Kept(a) \o Kept(b)
    BY <1>4, KeptConcat
  <2> QED
    BY <1>5, <1>7, <2>1, ConcatEmptySeq
<1>9. Kept(a \o all) = Kept(p) \o all /\ Len(a \o all) = n + 2
  <2>1. a \in Seq(Segments) /\ Len(a) = n
    BY <1>4
  <2>2. all \in Seq(Segments) /\ Kept(all) = all /\ Len(all) = 2
    BY <1>6
  <2>3. Kept(a \o all) = Kept(a) \o Kept(all)
    BY <2>1, <2>2, KeptConcat
  <2>4. Len(a \o all) = Len(a) + Len(all)
    BY <2>1, <2>2, ConcatProperties
  <2> QED
    BY <1>8, <2>1, <2>2, <2>3, <2>4
<1>10. Len(a \o all) > 1 /\ Head(a \o all) = p[1]
  BY <1>2, <1>4, <1>6, <1>9, HeadOfConcat
<1>11. Len(p) = 1 => p[1] # Hollow
  OBVIOUS
<1>12. Clean(p) = IF p[1] = Hollow THEN <<"/">> \o Kept(p) ELSE Kept(p)
  BY <1>2, <1>11, CleanIs
<1>13. Clean(a \o all) = IF p[1] = Hollow THEN <<"/">> \o (Kept(p) \o all) ELSE Kept(p) \o all
  BY <1>9, <1>10, CleanIs
<1>14. <<"/">> \o (Kept(p) \o all) = (<<"/">> \o Kept(p)) \o all
  <2> DEFINE S == Segments \cup {"/"}
             k == Kept(p)
             r == <<"/">>
  <2>1. k \in Seq(S) /\ all \in Seq(S) /\ r \in Seq(S)
    <3>1. k \in Seq(S)
      BY <1>7, SeqMonotonic
    <3>2. all \in Seq(S)
      BY <1>6, SeqMonotonic
    <3>3. "/" \in S
      OBVIOUS
    <3> HIDE DEF S
    <3> QED
      BY <3>1, <3>2, <3>3
  <2> HIDE DEF S, k, r
  <2>2. r \o (k \o all) = (r \o k) \o all
    BY <2>1
  <2> QED
    BY <2>2 DEF k, r
<1>15. Clean(a \o all) = Clean(p) \o all
  BY <1>12, <1>13, <1>14
<1>16. ASSUME ~AllEmpty(p) PROVE Clean(a) = Clean(p)
  <2>1. n = 1 => p[1] # Hollow
    <3> SUFFICES ASSUME n = 1, p[1] = Hollow PROVE FALSE
      OBVIOUS
    <3>1. \A i \in 1..Len(p) : i = 1 \/ i \in (n + 1)..Len(p)
      BY <1>2
    <3> QED
      BY <1>3, <1>16, <3>1 DEF AllEmpty
  <2>2. Clean(a) = IF n > 1 /\ p[1] = Hollow THEN <<"/">> \o Kept(p) ELSE Kept(p)
    BY <1>4, <1>8, CleanIs
  <2> QED
    BY <1>12, <2>1, <2>2
<1> QED
  BY <1>3, <1>15, <1>16 DEF a, all, AllOfDir

(* Segments that stand for themselves, as those of the root do.            *)
Plain == (Segments \ (Wild \cup {"**"} \cup Dropped)) \cup {"/"}

LEMMA PlainFacts ==
  Plain \subseteq FileSegments /\ \A s \in Plain : s \notin Wild /\ s # "**"
BY SegmentFacts DEF Plain, Segments, Dropped, FileSegments

(* What a glob matches is below what stands before its first wildcard.     *)
LEMMA MatchesBelow ==
  ASSUME NEW f \in UNION Disks, NEW r \in Seq(Plain),
         NEW u \in Seq(FileNames \cup Wild \cup {"**"}), NEW x, x # "**",
         MatchesAll(r \o (u \o <<x>>), f)
  PROVE  Below(f, r)
<1> DEFINE Any == FileNames \cup Wild \cup {"**"}
           All == Plain \cup Any \cup {x}
           q == r \o (u \o <<x>>)
           L == Len(r) + Len(u) + 1
<1>1. /\ Len(r) \in Nat /\ Len(u) \in Nat
      /\ \A i \in 1..Len(r) : r[i] \in Plain
      /\ \A i \in 1..Len(u) : u[i] \in Any
  OBVIOUS
<1>2. /\ Len(q) = L
      /\ \A i \in 1..Len(r) : q[i] \in Plain /\ q[i] = r[i]
      /\ \A i \in (Len(r) + 1)..(L - 1) : q[i] \in Any
      /\ q[L] = x
  <2>1. r \in Seq(All) /\ u \in Seq(All) /\ x \in All
    OBVIOUS
  <2> HIDE DEF All, Any
  <2>2. /\ Len(q) = L /\ q[L] = x
        /\ \A i \in 1..Len(r) : q[i] = r[i]
        /\ \A i \in 1..Len(u) : q[Len(r) + i] = u[i]
    BY <2>1, ConcatThree
  <2> HIDE DEF q
  <2>3. ASSUME NEW i \in (Len(r) + 1)..(L - 1) PROVE q[i] \in Any
    <3>1. i - Len(r) \in 1..Len(u) /\ Len(r) + (i - Len(r)) = i
      BY <1>1
    <3> QED
      BY <1>1, <2>2, <3>1
  <2> QED
    BY <1>1, <2>2, <2>3
<1> HIDE DEF q
<1>3. /\ f \in Seq(FileSegments) /\ Len(f) \in Nat /\ Len(f) >= 1
      /\ \A i \in 1..Len(f) : f[i] \in FileSegments /\ f[i] # "**"
      /\ f[Len(f)] \in FileNames
  BY FileFacts
<1> HIDE DEF Any
<1>4. ASSUME NEW i \in 1..Len(f), NEW j \in 1..L, Fits(q[j], f[i]), j = L => i = Len(f)
      PROVE  IF j <= Len(r) THEN f[i] = r[j] ELSE f[i] \in FileNames
  <2>1. CASE j <= Len(r)
    <3>1. j \in 1..Len(r)
      BY <1>1, <2>1
    <3>2. q[j] = r[j] /\ q[j] \notin Wild
      BY <1>2, <3>1, PlainFacts
    <3> QED
      BY <1>4, <2>1, <3>2 DEF Fits
  <2>2. CASE ~(j <= Len(r)) /\ j # L
    <3>1. j \in (Len(r) + 1)..(L - 1)
      BY <1>1, <2>2
    <3>2. q[j] \in FileNames \cup Wild \cup {"**"}
      BY <1>2, <3>1 DEF Any
    <3>3. f[i] # "**"
      BY <1>3
    <3>4. f[i] \in FileNames
      BY <1>4, <3>2, <3>3, SegmentFacts DEF Fits
    <3> QED
      BY <2>2, <3>4
  <2>3. CASE ~(j <= Len(r)) /\ j = L
    BY <1>3, <1>4, <2>3
  <2> QED
    BY <2>1, <2>2, <2>3
<1>5. SUFFICES /\ Len(f) > Len(r)
               /\ \A i \in 1..Len(f) : IF i <= Len(r) THEN f[i] = r[i] ELSE f[i] \in FileNames
  <2>1. r \in Seq(FileSegments)
    BY PlainFacts, SeqMonotonic
  <2>2. \A i \in 1..Len(r) : i \in 1..Len(f) /\ i <= Len(r)
    BY <1>1, <1>3, <1>5
  <2>3. \A i \in (Len(r) + 1)..Len(f) : i \in 1..Len(f) /\ ~(i <= Len(r))
    BY <1>1, <1>3
  <2> QED
    BY <1>3, <1>5, <2>1, <2>2, <2>3, BelowIs
<1> HIDE DEF L
<1>6. L = Len(r) + Len(u) + 1
  BY DEF L
<1>7. MatchesAll(q, f)
  BY DEF q
<1>8. CASE Len(q) = Len(f) /\ \A i \in 1..Len(q) : q[i] # "**" /\ Fits(q[i], f[i])
  <2>1. Len(f) > Len(r)
    BY <1>1, <1>2, <1>6, <1>8
  <2> QED
    BY <1>2, <1>4, <1>8, <2>1
<1>9. ASSUME NEW n \in 1..Len(q), NEW k \in n..(Len(f) + 1),
             q[n] = "**", Len(q) - n = Len(f) + 1 - k,
             \A i \in 1..(n - 1) : Fits(q[i], f[i]),
             \A i \in n..(k - 1) : f[i] \in FileNames,
             \A i \in 1..(Len(q) - n) : Fits(q[n + i], f[k + i - 1])
      PROVE  /\ Len(f) > Len(r)
             /\ \A i \in 1..Len(f) : IF i <= Len(r) THEN f[i] = r[i] ELSE f[i] \in FileNames
  <2>1. n \in 1..L /\ k \in n..(Len(f) + 1) /\ L - n = Len(f) + 1 - k
    BY <1>2, <1>9
  <2>2. n > Len(r)
    <3> SUFFICES ASSUME n <= Len(r) PROVE FALSE
      BY <1>1, <2>1
    <3>1. n \in 1..Len(r)
      BY <1>1
    <3> QED
      BY <1>2, <1>9, <3>1, PlainFacts
  <2>3. n < L
    <3>1. n # L
      BY <1>2, <1>9
    <3> QED
      BY <1>1, <1>6, <2>1, <3>1
  <2>4. k <= Len(f) /\ Len(f) > Len(r)
    BY <1>1, <1>3, <1>6, <2>1, <2>2, <2>3
  <2>5. ASSUME NEW i \in 1..Len(f)
        PROVE  IF i <= Len(r) THEN f[i] = r[i] ELSE f[i] \in FileNames
    <3>1. CASE i < n
      <4>1. i \in 1..(n - 1) /\ i \in 1..L /\ i # L
        BY <1>1, <1>6, <2>1, <2>3, <3>1
      <4> QED
        BY <1>4, <1>9, <4>1
    <3>2. CASE i >= n /\ i < k
      <4>1. i \in n..(k - 1) /\ ~(i <= Len(r))
        BY <1>1, <2>1, <2>2, <3>2
      <4> QED
        BY <1>9, <4>1
    <3>3. CASE i >= k
      <4> DEFINE m == i - k + 1
                 j == n + m
      <4>1. /\ m \in 1..(L - n) /\ k + m - 1 = i
            /\ j \in 1..L /\ ~(j <= Len(r)) /\ (j = L => i = Len(f))
        BY <1>1, <1>3, <1>6, <2>1, <2>2, <2>4, <3>3
      <4>2. m \in 1..(Len(q) - n)
        BY <1>2, <4>1
      <4> HIDE DEF m
      <4>3. Fits(q[n + m], f[k + m - 1])
        BY <1>9, <4>2
      <4>4. Fits(q[j], f[i])
        BY <4>1, <4>3
      <4>5. ~(i <= Len(r))
        BY <1>1, <2>1, <2>2, <3>3
      <4> HIDE DEF j
      <4> QED
        BY <1>4, <4>1, <4>4, <4>5
    <3> QED
      BY <2>1, <3>1, <3>2, <3>3
  <2> QED
    BY <2>4, <2>5
<1> QED
  BY <1>7, <1>8, <1>9 DEF MatchesAll

(* The glob made of a directory matches what is below it.                  *)
LEMMA DirGlob ==
  ASSUME NEW f \in UNION Disks, NEW d \in Seq(Plain)
  PROVE  MatchesAll(d \o <<"**", "*">>, f) <=> Below(f, d)
<1> DEFINE u == <<"**">>
           q == d \o (u \o <<"*">>)
<1>1. d \o <<"**", "*">> = q
  OBVIOUS
<1>2. u \in Seq(FileNames \cup Wild \cup {"**"})
  OBVIOUS
<1>3. MatchesAll(q, f) => Below(f, d)
  <2>1. "*" # "**"
    BY SegmentFacts
  <2> HIDE DEF u
  <2> QED
    BY <1>2, <2>1, MatchesBelow
<1>4. ASSUME Below(f, d) PROVE MatchesAll(q, f)
  <2> DEFINE N == Len(d)
             All == Plain \cup {"**", "*"}
  <2>1. N \in Nat /\ Len(u) = 1 /\ u[1] = "**"
    OBVIOUS
  <2>2. d \in Seq(All) /\ u \in Seq(All) /\ "*" \in All
    OBVIOUS
  <2> HIDE DEF All, u
  <2>3. /\ Len(q) = N + Len(u) + 1 /\ q[N + Len(u) + 1] = "*"
        /\ \A i \in 1..N : q[i] = d[i]
        /\ \A i \in 1..Len(u) : q[N + i] = u[i]
    BY <2>2, ConcatThree
  <2>4. /\ Len(q) = N + 2 /\ q[N + 2] = "*" /\ q[N + 1] = "**"
        /\ \A i \in 1..N : q[i] = d[i] /\ d[i] \notin Wild
    <3>1. 1 \in 1..Len(u) /\ N + Len(u) + 1 = N + 2
      BY <2>1
    <3>2. \A i \in 1..N : d[i] \in Plain
      OBVIOUS
    <3> QED
      BY <2>1, <2>3, <3>1, <3>2, PlainFacts
  <2>5. f \in Seq(FileSegments) /\ Len(f) \in Nat /\ f[Len(f)] \in FileNames
    BY FileFacts
  <2>6. /\ Len(f) > N /\ \A i \in 1..N : f[i] = d[i]
        /\ \A i \in (N + 1)..Len(f) : f[i] \in FileNames
    <3>1. d \in Seq(FileSegments)
      BY PlainFacts, SeqMonotonic
    <3> QED
      BY <1>4, <2>5, <3>1, BelowIs
  <2> DEFINE n == N + 1
             k == Len(f)
  <2>7. n \in 1..Len(q) /\ k \in n..(Len(f) + 1) /\ Len(q) - n = Len(f) + 1 - k
    BY <2>1, <2>4, <2>5, <2>6
  <2>8. \A i \in 1..(n - 1) : Fits(q[i], f[i])
    <3>1. \A i \in 1..(n - 1) : i \in 1..N
      BY <2>1
    <3> HIDE DEF q
    <3> QED
      BY <2>4, <2>6, <3>1 DEF Fits
  <2>9. \A i \in n..(k - 1) : f[i] \in FileNames
    <3>1. \A i \in n..(k - 1) : i \in (N + 1)..Len(f)
      BY <2>1, <2>5
    <3> QED
      BY <2>6, <3>1
  <2>10. \A i \in 1..(Len(q) - n) : Fits(q[n + i], f[k + i - 1])
    <3>1. \A i \in 1..(Len(q) - n) : n + i = N + 2 /\ k + i - 1 = Len(f)
      BY <2>1, <2>4, <2>5
    <3>2. Fits(q[N + 2], f[Len(f)])
      BY <2>4, <2>5, SegmentFacts DEF Fits
    <3> HIDE DEF q, n, k
    <3> QED
      BY <3>1, <3>2
  <2>11. q[n] = "**"
    BY <2>4
  <2> HIDE DEF q, n, k
  <2> QED
    BY <2>7, <2>8, <2>9, <2>10, <2>11 DEF MatchesAll
<1> HIDE DEF q
<1> QED
  BY <1>1, <1>3, <1>4

LEMMA OneSegment ==
  ASSUME NEW S, NEW p \in Seq(S), Len(p) = 1
  PROVE  p = <<p[1]>>
<1> DEFINE r == <<p[1]>>
<1>1. r \in Seq(S) /\ Len(r) = 1 /\ r[1] = p[1]
  OBVIOUS
<1> HIDE DEF r
<1>2. p = r
  BY <1>1, SeqEqual
<1> QED
  BY <1>2 DEF r

(* A pattern that names a directory: with "clean" it is the path of the    *)
(* directory, and the glob made of it matches the files below.             *)
LEMMA DirFacts ==
  ASSUME NEW p \in Seq(Segments), p # <<>>, disk \subseteq UNION Disks, IsDir(p)
  PROVE  /\ Clean(p) \in Seq(FileSegments)
         /\ Clean(AllOfDir(Trim(p))) = Clean(p) \o <<"**", "*">>
         /\ Clean(Trim(p)) = IF AllEmpty(p) THEN <<>> ELSE Clean(p)
         /\ (\A i \in 1..Len(p) : p[i] \notin Wild) => Clean(p) \in Seq(Plain)
<1>1. p # <<Hollow>> /\ (Clean(p) = <<>> \/ \E f \in disk : Below(f, Clean(p)))
  BY Zenon DEF IsDir, Hollow
<1>2. Len(p) = 1 => p[1] # Hollow
  BY <1>1, OneSegment
<1>3. Clean(p) \in Seq(FileSegments)
  <2>1. CASE Clean(p) = <<>>
    BY <2>1
  <2>2. ASSUME NEW f \in disk, Below(f, Clean(p)) PROVE Clean(p) \in Seq(FileSegments)
    <3> DEFINE c == Clean(p)
    <3>1. Len(f) > Len(c) /\ SubSeq(f, 1, Len(c)) = c
      BY <2>2 DEF Below, Extends
    <3>2. c \in Seq((Segments \ Dropped) \cup {"/"})
      BY CleanType
    <3> HIDE DEF c
    <3>3. Len(c) \in Nat /\ f \in Seq(FileSegments) /\ Len(f) \in Nat
      <4>1. f \in UNION Disks
        OBVIOUS
      <4> QED
        BY <3>2, <4>1, FileFacts
    <3>4. Len(c) \in 0..Len(f)
      BY <3>1, <3>3
    <3>5. SubSeq(f, 1, Len(c)) \in Seq(FileSegments)
      BY <3>3, <3>4, SplitSeq
    <3> QED
      BY <3>1, <3>5 DEF c
  <2> QED
    BY <1>1, <2>1, <2>2
<1>4. Clean(AllOfDir(Trim(p))) = Clean(p) \o <<"**", "*">>
  BY <1>2, CleanDir
<1>5. ASSUME AllEmpty(p) PROVE Clean(Trim(p)) = <<>>
  <2>1. PICK n \in 1..Len(p) : /\ Trim(p) = SubSeq(p, 1, n)
                               /\ n > 1 => p[n] # Hollow
    BY TrimFacts
  <2> DEFINE t == SubSeq(p, 1, n)
  <2>2. n = 1
    BY <1>5, <2>1 DEF AllEmpty
  <2>3. n \in 0..Len(p) /\ n \in 1..n
    BY <2>2
  <2>4. t \in Seq(Segments) /\ Len(t) = 1 /\ t[1] = p[1]
    BY <2>2, <2>3, SplitSeq
  <2> HIDE DEF t
  <2>5. \A i \in 1..Len(t) : t[i] = Hollow
    <3>1. \A i \in 1..1 : i = 1
      OBVIOUS
    <3> QED
      BY <1>5, <2>2, <2>4, <3>1 DEF AllEmpty
  <2>6. Kept(t) = <<>>
    BY <2>4, <2>5, KeptNone
  <2>7. Clean(t) = Kept(t)
    <3>1. ~(Len(t) > 1)
      BY <2>4
    <3>2. Clean(t) = IF Len(t) > 1 /\ Head(t) = Hollow THEN <<"/">> \o Kept(t) ELSE Kept(t)
      BY CleanIs
    <3> QED
      BY <3>1, <3>2, Zenon
  <2> QED
    BY <2>1, <2>6, <2>7 DEF t
<1>6. ~AllEmpty(p) => Clean(Trim(p)) = Clean(p)
  BY <1>2, CleanDir
<1>7. ASSUME \A i \in 1..Len(p) : p[i] \notin Wild
      PROVE  Clean(p) \in Seq(Plain)
  <2> DEFINE S == Segments \ Wild
             T == (S \ Dropped) \cup {"/"}
             c == Clean(p)
  <2>1. p \in Seq(S)
    <3>1. \A i \in 1..Len(p) : p[i] \in S
      BY <1>7
    <3> QED
      BY <3>1
  <2>2. c \in Seq(T)
    <3> HIDE DEF S
    <3> QED
      BY <2>1, CleanType
  <2>3. T \cap FileSegments \subseteq Plain
    BY SegmentFacts DEF Plain, FileSegments
  <2> HIDE DEF c, T
  <2>4. \A i \in 1..Len(c) : c[i] \in T /\ c[i] \in FileSegments
    BY <1>3, <2>2, SeqFacts DEF c
  <2>5. \A i \in 1..Len(c) : c[i] \in Plain
    BY <2>3, <2>4
  <2> QED
    BY <2>2, <2>5 DEF c
<1> QED
  BY <1>3, <1>4, <1>5, <1>6, <1>7

(* glob_fixed_prefix: where it stops, and from which segment it starts.    *)
LEMMA PrefixFacts ==
  ASSUME NEW p \in Seq(Segments), p # <<>>
  PROVE  \E stop \in 0..(Len(p) - 1) : \E from \in 0..stop :
           /\ stop = Len(p) - 1 \/ p[stop + 1] \in Wild \cup {"**"}
           /\ \A i \in 1..stop : p[i] \notin Wild \cup {"**"}
           /\ from > 0 => p[from] = Hollow
           /\ \A i \in (from + 1)..stop : p[i] # Hollow
           /\ FixedPrefix(p) = IF from = 0 THEN Clean(SubSeq(p, 1, stop))
                               ELSE <<"/">> \o Clean(SubSeq(p, from + 1, stop))
<1> DEFINE Last == Len(p) - 1
           stops == {n \in 0..Last : n = Last \/ p[n + 1] \in Wild \cup {"**"}}
           stop == CHOOSE n \in stops : \A m \in stops : n <= m
           roots == {0} \cup {n \in 1..stop : p[n] = Hollow}
           from == CHOOSE n \in roots : \A m \in roots : m <= n
<1>1. Len(p) \in Nat /\ Last \in Nat
  BY EmptySeq
<1>2. FixedPrefix(p) = IF from = 0 THEN Clean(SubSeq(p, 1, stop))
                       ELSE <<"/">> \o Clean(SubSeq(p, from + 1, stop))
  BY Zenon DEF FixedPrefix, Hollow
<1>3. stop \in stops /\ \A m \in stops : stop <= m
  <2>1. stops \subseteq Nat /\ Last \in stops
    BY <1>1
  <2>2. \E n \in stops : \A m \in stops : n <= m
    <3> HIDE DEF stops
    <3> QED
      BY <2>1, LeastElement
  <2> HIDE DEF stops
  <2> QED
    BY <2>2
<1> HIDE DEF stop
<1>4. stop \in 0..Last /\ (stop = Last \/ p[stop + 1] \in Wild \cup {"**"})
  BY <1>3
<1>5. ASSUME NEW i \in 1..stop PROVE p[i] \notin Wild \cup {"**"}
  <2>1. i - 1 \in 0..Last /\ ~(stop <= i - 1) /\ (i - 1) + 1 = i
    BY <1>1, <1>4
  <2>2. i - 1 \notin stops
    <3> HIDE DEF stops
    <3> QED
      BY <1>3, <2>1
  <2> QED
    BY <2>1, <2>2
<1> HIDE DEF stops
<1>6. from \in roots /\ \A m \in roots : m <= from
  <2>1. \E n \in roots : \A m \in roots : m <= n
    <3> DEFINE hollow == {n \in 1..stop : p[n] = Hollow}
    <3>1. CASE hollow = {}
      BY <3>1
    <3>2. CASE hollow # {}
      <4>1. hollow \subseteq 1..stop /\ stop \in Nat
        BY <1>1, <1>4
      <4>2. PICK n \in hollow : \A m \in hollow : m <= n
        <5> HIDE DEF hollow
        <5> QED
          BY <3>2, <4>1, ExtremesExist
      <4>3. 0 <= n
        BY <4>1, <4>2
      <4>4. roots = {0} \cup hollow
        OBVIOUS
      <4> HIDE DEF hollow, roots
      <4> QED
        BY <4>2, <4>3, <4>4
    <3> QED
      BY <3>1, <3>2
  <2> HIDE DEF roots
  <2> QED
    BY <2>1
<1> HIDE DEF from
<1>7. from \in 0..stop /\ (from > 0 => p[from] = Hollow)
  BY <1>1, <1>4, <1>6
<1>8. ASSUME NEW i \in (from + 1)..stop PROVE p[i] # Hollow
  <2>1. i \in 1..stop /\ ~(i <= from)
    BY <1>1, <1>4, <1>7
  <2>2. i \notin roots
    <3> HIDE DEF roots
    <3> QED
      BY <1>6, <2>1
  <2> QED
    BY <2>1, <2>2
<1> QED
  BY <1>2, <1>4, <1>5, <1>7, <1>8

(* A part of a sequence, for any two bounds.                               *)
LEMMA PartOf ==
  ASSUME NEW S, NEW p \in Seq(S), NEW m \in 1..(Len(p) + 1), NEW n \in (m - 1)..Len(p)
  PROVE  /\ SubSeq(p, m, n) \in Seq(S) /\ Len(SubSeq(p, m, n)) = n - m + 1
         /\ \A i \in 1..(n - m + 1) : SubSeq(p, m, n)[i] = p[m + i - 1] /\ m + i - 1 \in m..n
<1>1. Len(p) \in Nat /\ m \in Int /\ n \in Int /\ 1 <= m /\ m <= n + 1 /\ n <= Len(p)
  OBVIOUS
<1>2. \A i \in m..n : p[i] \in S
  BY <1>1
<1>3. /\ SubSeq(p, m, n) \in Seq(S)
      /\ Len(SubSeq(p, m, n)) = IF m <= n THEN n - m + 1 ELSE 0
      /\ \A i \in 1..(n - m + 1) : SubSeq(p, m, n)[i] = p[m + i - 1]
  BY <1>1, <1>2, SubSeqProperties
<1> QED
  BY <1>1, <1>3

(* Two ways in which a pattern goes wrong, of any pattern. *)
HollowIn(p) == \E i \in 2..(Len(p) - 1) : p[i] = Hollow /\ \E j \in 1..i : p[j] # Hollow
GoesUp(p)   == \E i, j \in 1..Len(p) : i < j /\ p[i] \in Wild \cup {"**"} /\ p[j] = ".."

(* The fixed prefix has no wildcard; and where the pattern does not go     *)
(* wrong it is what the cleaned pattern begins with, and behind it nothing *)
(* leads up but, at most, the last segment.                                *)
LEMMA PrefixOfPattern ==
  ASSUME NEW p \in Seq(Segments), p # <<>>
  PROVE  /\ FixedPrefix(p) \in Seq(Plain)
         /\ ~HollowIn(p) /\ ~GoesUp(p) /\ p[Len(p)] \notin {Hollow, ".", "**"} =>
              \E u \in Seq(FileNames \cup Wild \cup {"**"}) :
                Clean(p) = FixedPrefix(p) \o (u \o <<p[Len(p)]>>)
<1> DEFINE N == Len(p)
<1>1. N \in Nat /\ N >= 1 /\ 1 \in 1..N /\ N \in 1..N /\ Head(p) = p[1]
  BY EmptySeq, HeadIsFirst
<1>2. PICK stop \in 0..(N - 1) : \E from \in 0..stop :
           /\ stop = N - 1 \/ p[stop + 1] \in Wild \cup {"**"}
           /\ \A i \in 1..stop : p[i] \notin Wild \cup {"**"}
           /\ from > 0 => p[from] = Hollow
           /\ \A i \in (from + 1)..stop : p[i] # Hollow
           /\ FixedPrefix(p) = IF from = 0 THEN Clean(SubSeq(p, 1, stop))
                               ELSE <<"/">> \o Clean(SubSeq(p, from + 1, stop))
  BY PrefixFacts
<1>3. PICK from \in 0..stop :
           /\ stop = N - 1 \/ p[stop + 1] \in Wild \cup {"**"}
           /\ \A i \in 1..stop : p[i] \notin Wild \cup {"**"}
           /\ from > 0 => p[from] = Hollow
           /\ \A i \in (from + 1)..stop : p[i] # Hollow
           /\ FixedPrefix(p) = IF from = 0 THEN Clean(SubSeq(p, 1, stop))
                               ELSE <<"/">> \o Clean(SubSeq(p, from + 1, stop))
  BY <1>2
<1>4. stop \in Nat /\ from \in Nat /\ from <= stop /\ stop <= N - 1
  BY <1>1
<1> DEFINE mid  == SubSeq(p, from + 1, stop)
           lead == SubSeq(p, 1, from)
           a    == SubSeq(p, 1, stop)
           b    == SubSeq(p, stop + 1, N)
           before == SubSeq(p, stop + 1, N - 1)
           x    == p[N]
           Fixed == Segments \ (Wild \cup {"**"})
<1>5. /\ mid \in Seq(Fixed) /\ \A i \in 1..Len(mid) : mid[i] # Hollow
      /\ mid \in Seq(Segments)
  <2> DEFINE m == from + 1
             q == SubSeq(p, m, stop)
  <2>1. m \in 1..(Len(p) + 1) /\ stop \in (m - 1)..Len(p)
    BY <1>1, <1>4
  <2>2. \A i \in m..stop : i \in 1..stop /\ i \in (from + 1)..stop
    BY <1>1, <1>4
  <2> HIDE DEF m
  <2>3. /\ q \in Seq(Segments) /\ Len(q) = stop - m + 1
        /\ \A i \in 1..(stop - m + 1) : q[i] = p[m + i - 1] /\ m + i - 1 \in m..stop
    BY <2>1, PartOf
  <2> HIDE DEF q
  <2>4. \A i \in 1..Len(q) : q[i] \notin Wild \cup {"**"} /\ q[i] # Hollow
    BY <1>3, <2>2, <2>3
  <2>5. \A i \in 1..Len(q) : q[i] \in Fixed
    BY <2>3, <2>4, SeqFacts
  <2> HIDE DEF Fixed
  <2>6. q \in Seq(Fixed)
    BY <2>3, <2>5
  <2>7. mid = q
    BY DEF q, m
  <2> HIDE DEF mid
  <2> QED
    BY <2>3, <2>4, <2>6, <2>7
<1>6. Kept(mid) \in Seq(Plain) /\ Clean(mid) = Kept(mid) /\ <<"/">> \in Seq(Plain)
  <2> HIDE DEF mid
  <2>1. Kept(mid) \in Seq(Fixed \ Dropped)
    <3> HIDE DEF Fixed
    <3> QED
      BY <1>5, KeptType
  <2>2. Fixed \ Dropped \subseteq Plain /\ "/" \in Plain
    BY DEF Plain
  <2>3. Kept(mid) \in Seq(Plain)
    <3> DEFINE T == Fixed \ Dropped
    <3> HIDE DEF T
    <3>1. Kept(mid) \in Seq(T) /\ T \subseteq Plain
      BY <2>1, <2>2 DEF T
    <3> QED
      BY <3>1, SeqMonotonic
  <2>4. ~(Len(mid) > 1 /\ Head(mid) = Hollow)
    <3> SUFFICES ASSUME Len(mid) > 1, Head(mid) = Hollow PROVE FALSE
      OBVIOUS
    <3>1. mid \in Seq(Segments)
      BY <1>5
    <3>2. mid # <<>>
      OBVIOUS
    <3>3. Head(mid) = mid[1] /\ 1 \in 1..Len(mid)
      BY <3>1, <3>2, HeadIsFirst
    <3> QED
      BY <1>5, <3>3
  <2> QED
    BY <2>2, <2>3, <2>4, CleanIs
<1>7. FixedPrefix(p) = IF from = 0 THEN Kept(mid) ELSE <<"/">> \o Kept(mid)
  <2>1. from = 0 => SubSeq(p, 1, stop) = mid
    OBVIOUS
  <2>2. from # 0 => FixedPrefix(p) = <<"/">> \o Clean(mid)
    BY <1>3
  <2>3. from = 0 => FixedPrefix(p) = Clean(mid)
    BY <1>3, <2>1
  <2> HIDE DEF mid
  <2> QED
    BY <1>6, <2>2, <2>3
<1>8. FixedPrefix(p) \in Seq(Plain)
  <2> HIDE DEF mid
  <2>1. <<"/">> \o Kept(mid) \in Seq(Plain)
    BY <1>6, ConcatProperties
  <2> QED
    BY <1>6, <1>7, <2>1
<1> HIDE DEF mid, Fixed
<1>9. ASSUME ~HollowIn(p), ~GoesUp(p), x \notin {Hollow, ".", "**"}
      PROVE  \E u \in Seq(FileNames \cup Wild \cup {"**"}) :
               Clean(p) = FixedPrefix(p) \o (u \o <<x>>)
  <2>1. \A i \in 1..from : p[i] = Hollow
    <3>1. CASE from < 2
      <4>1. \A i \in 1..from : i = from /\ from > 0
        BY <1>4, <3>1
      <4> QED
        BY <1>3, <4>1
    <3>2. CASE from >= 2
      <4>1. from \in 2..(Len(p) - 1) /\ from > 0
        BY <1>1, <1>4, <3>2
      <4> QED
        BY <1>3, <1>9, <4>1 DEF HollowIn
    <3> QED
      BY <1>4, <3>1, <3>2
  <2>2. /\ lead \in Seq(Segments) /\ Kept(lead) = <<>>
        /\ a \in Seq(Segments) /\ b \in Seq(Segments) /\ p = a \o b /\ a = lead \o mid
    <3>1. from \in 0..Len(p) /\ stop \in 0..Len(p) /\ 1 \in 1..(Len(p) + 1)
          /\ from \in (1 - 1)..Len(p) /\ stop \in from..Len(p)
      BY <1>1, <1>4
    <3>2. /\ lead \in Seq(Segments) /\ Len(lead) = from
          /\ \A i \in 1..from : lead[i] = p[i]
      BY <3>1, SplitSeq
    <3>3. a \in Seq(Segments) /\ b \in Seq(Segments) /\ p = a \o b
      BY <3>1, SplitSeq
    <3>4. a = lead \o mid
      BY <3>1, ConcatAdjacentSubSeq DEF mid
    <3> HIDE DEF lead, a, b
    <3>5. \A i \in 1..Len(lead) : lead[i] = Hollow
      BY <2>1, <3>2
    <3>6. Kept(lead) = <<>>
      BY <3>2, <3>5, KeptNone
    <3> QED
      BY <3>2, <3>3, <3>4, <3>6
  <2>3. /\ before \in Seq(Segments) /\ b = before \o <<x>>
        /\ Kept(before) \in Seq(FileNames \cup Wild \cup {"**"})
    <3> DEFINE m == stop + 1
               T == Segments \ {".."}
               U == FileNames \cup Wild \cup {"**"}
    <3>1. m \in 1..Len(p) /\ N \in m..Len(p) /\ m \in 1..(Len(p) + 1)
          /\ N - 1 \in (m - 1)..Len(p)
      BY <1>1, <1>4
    <3>2. b = before \o <<x>>
      <4> HIDE DEF m
      <4>1. SubSeq(p, m, N) = SubSeq(p, m, N - 1) \o <<p[N]>>
        BY <3>1, SubSeqRecursiveSecond
      <4> QED
        BY <4>1 DEF m
    <3>3. /\ before \in Seq(Segments) /\ Len(before) = N - m
          /\ \A i \in 1..(N - m) : before[i] = p[m + i - 1] /\ m + i - 1 \in m..(N - 1)
      <4> DEFINE k == N - 1
      <4>1. k \in (m - 1)..Len(p) /\ k - m + 1 = N - m
        BY <1>1, <3>1
      <4> HIDE DEF m, k
      <4>2. /\ SubSeq(p, m, k) \in Seq(Segments) /\ Len(SubSeq(p, m, k)) = k - m + 1
            /\ \A i \in 1..(k - m + 1) : SubSeq(p, m, k)[i] = p[m + i - 1] /\ m + i - 1 \in m..k
        BY <3>1, <4>1, PartOf
      <4> QED
        BY <4>1, <4>2 DEF m, k
    <3>4. ASSUME NEW i \in m..(N - 1) PROVE p[i] # ".."
      <4>1. p[m] \in Wild \cup {"**"} /\ m \in 1..Len(p)
        BY <1>1, <1>3, <1>4, <3>1
      <4>2. CASE i = m
        BY <4>1, <4>2, SegmentFacts
      <4>3. CASE i # m
        <5>1. m < i /\ i \in 1..Len(p)
          BY <1>1, <1>4, <4>3
        <5> HIDE DEF m
        <5> QED
          BY <1>9, <4>1, <5>1 DEF GoesUp
      <4> QED
        BY <4>2, <4>3
    <3> HIDE DEF m, before
    <3>5. before \in Seq(T)
      <4>1. \A i \in 1..Len(before) : before[i] \in Segments /\ before[i] # ".."
        BY <3>3, <3>4, SeqFacts
      <4>2. \A i \in 1..Len(before) : before[i] \in T
        BY <4>1
      <4> HIDE DEF T
      <4> QED
        BY <3>3, <4>2
    <3>6. T \ Dropped \subseteq U
      BY DEF Segments, Dropped
    <3>7. Kept(before) \in Seq(T \ Dropped)
      <4> HIDE DEF T
      <4> QED
        BY <3>5, KeptType
    <3>8. Kept(before) \in Seq(U)
      <4> DEFINE V == T \ Dropped
      <4>1. Kept(before) \in Seq(V) /\ V \subseteq U
        BY <3>6, <3>7
      <4> HIDE DEF V, U
      <4> QED
        BY <4>1, SeqMonotonic
    <3> QED
      BY <3>2, <3>3, <3>8
  <2> DEFINE last == <<x>>
             u == Kept(before)
             All == Plain \cup Segments
  <2>4. last \in Seq(Segments) /\ Kept(last) = last
    <3>1. x \in Segments /\ x \notin Dropped
      BY <1>1, <1>9 DEF Dropped
    <3>2. last \in Seq(Segments) /\ Len(last) = 1 /\ last[1] = x
      BY <3>1
    <3> HIDE DEF last
    <3>3. \A i \in 1..Len(last) : last[i] \notin Dropped
      <4>1. \A i \in 1..1 : i = 1
        OBVIOUS
      <4> QED
        BY <3>1, <3>2, <4>1
    <3> QED
      BY <3>2, <3>3, KeptSame
  <2> HIDE DEF lead, a, b, before, x, last, All
  <2>5. Kept(p) = Kept(mid) \o (u \o last)
    <3>1. Kept(p) = Kept(a) \o Kept(b)
      BY <2>2, KeptConcat
    <3>2. Kept(a) = Kept(lead) \o Kept(mid)
      BY <1>5, <2>2, KeptConcat
    <3>3. Kept(a) = Kept(mid)
      BY <1>6, <2>2, <3>2, ConcatEmptySeq
    <3>4. b = before \o last
      BY <2>3 DEF last
    <3>5. Kept(b) = Kept(before) \o Kept(last)
      BY <2>3, <2>4, <3>4, KeptConcat
    <3> QED
      BY <2>4, <3>1, <3>3, <3>5
  <2>6. Clean(p) = IF from = 0 THEN Kept(p) ELSE <<"/">> \o Kept(p)
    <3>1. CASE from = 0
      <4>1. ~(Len(p) > 1 /\ Head(p) = Hollow)
        <5> SUFFICES ASSUME Len(p) > 1, p[1] = Hollow PROVE FALSE
          BY <1>1
        <5>1. CASE stop = 0
          <6>0. stop + 1 = 1 /\ stop # N - 1
            <7>1. N \in Nat /\ N > 1
              BY <1>1
            <7> HIDE DEF N
            <7> QED
              BY <5>1, <7>1
          <6>1. p[1] \in Wild \cup {"**"}
            BY <1>3, <6>0
          <6> QED
            BY <6>1, SegmentFacts
        <5>2. CASE stop # 0
          <6>1. 1 \in (from + 1)..stop
            BY <1>4, <3>1, <5>2
          <6> QED
            BY <1>3, <6>1
        <5> QED
          BY <5>1, <5>2
      <4> QED
        BY <3>1, <4>1, CleanIs
    <3>2. CASE from # 0
      <4>1. Len(p) > 1 /\ 1 \in 1..from
        BY <1>1, <1>4, <3>2
      <4>2. Head(p) = Hollow
        BY <1>1, <2>1, <4>1
      <4> QED
        BY <3>2, <4>1, <4>2, CleanIs
    <3> QED
      BY <3>1, <3>2
  <2>7. <<"/">> \o (Kept(mid) \o (u \o last)) = (<<"/">> \o Kept(mid)) \o (u \o last)
    <3> DEFINE r == <<"/">>
               k == Kept(mid)
               t == u \o last
    <3>1. r \in Seq(All) /\ k \in Seq(All)
      BY <1>6, SeqMonotonic DEF All
    <3>2. t \in Seq(All)
      <4>1. u \in Seq(Segments)
        <5>1. FileNames \cup Wild \cup {"**"} \subseteq Segments
          BY DEF Segments
        <5> QED
          BY <2>3, <5>1, SeqMonotonic
      <4>2. u \o last \in Seq(Segments)
        BY <2>4, <4>1, ConcatProperties
      <4> QED
        BY <4>2, SeqMonotonic DEF All
    <3> HIDE DEF r, k, t
    <3>3. (r \o k) \o t = r \o (k \o t)
      BY <3>1, <3>2, ConcatAssociative
    <3> QED
      BY <3>3 DEF r, k, t
  <2>8. Clean(p) = FixedPrefix(p) \o (u \o last)
    BY <1>7, <2>5, <2>6, <2>7
  <2> QED
    BY <2>3, <2>8 DEF last
<1> QED
  BY <1>8, <1>9
-----------------------------------------------------------------------------
(* Packing the files a call names.  The rows: every pair and every row is  *)
(* the file's path below the root, without a segment that leaves it.       *)
PairsFit == \A pair \in pairs : /\ pair[1] \in Seq(FileNames) /\ Len(pair[1]) > 0
                                /\ root \o pair[1] = Clean(pair[2])
RowsFit  == \A i \in 1..Len(packed) : packed[i] \in Seq(FileNames) /\ Len(packed[i]) > 0

(* What is done in each stage. *)
StagesFit ==
  /\ stage = "idle" => found = {} /\ pairs = {}
  /\ stage \in {"idle", "gather"} => packed = <<>>
  /\ stage \in {"write", "packed"} => found = {}
  /\ stage = "packed" => pairs = {}
  /\ stage # "failed" => failure = "none"

(* No file that is wanted gets lost between the listing and the rows. *)
OnItsWay(f) == \/ \E path \in found : Clean(path) = f
               \/ \E pair \in pairs : Clean(pair[2]) = f
               \/ \E i \in 1..Len(packed) : root \o packed[i] = f
WantedAreOnTheirWay ==
  stage \in {"gather", "write", "packed"} => \A f \in stayed : Wanted(f) => OnItsWay(f)
NoneWasWanted == failure = "no files" => \A f \in stayed : ~Wanted(f)

(* With the default root, all that the glob gave is below it. *)
ByDefault == call.op = "glob" /\ call.root = NoRoot /\ ~GoesWrong
FoundBelowRoot ==
  /\ stage # "idle" /\ call.op = "glob" => found \subseteq UNION Disks
  /\ stage # "idle" /\ ByDefault => \A f \in found : Below(f, root)

SourcesInv ==
  /\ SourcesTypeOK /\ PairsFit /\ RowsFit /\ StagesFit
  /\ WantedAreOnTheirWay /\ NoneWasWanted
  /\ FoundBelowRoot /\ DefaultRootHolds

(* The calls, in the terms of these proofs.                                *)
LEMMA CallFacts ==
  ASSUME call \in Calls
  PROVE  /\ call.op \in {"glob", "files"}
         /\ call.op = "glob" => call.pattern \in Seq(Segments) /\ call.pattern # <<>>
         /\ call.op = "glob" /\ call.root # NoRoot => Clean(call.root) \in Seq(FileSegments)
         /\ call.op = "files" => /\ call.files \subseteq FoundPaths
                                 /\ Clean(call.root) \in Seq(FileSegments)
<1>1. \/ call.op = "glob" /\ call.pattern \in Patterns /\ call.root \in {NoRoot} \cup Paths
      \/ call.op = "files" /\ call.files \subseteq Paths /\ call.root \in Paths
  BY CallsAssumption
<1>2. \A p \in Patterns : p \in Seq(Segments) /\ p # <<>>
  BY Zenon DEF Patterns, Segments, Hollow
<1> DEFINE S == FileNames \cup {Hollow, ".", ".."}
           T == FileNames \cup {Hollow, ".", "..", "/"}
<1>3. Paths = Seq(S) /\ FoundPaths = Seq(T)
  BY Zenon DEF Paths, FoundPaths, Hollow
<1>4. S \subseteq T /\ S \subseteq FileNames \cup {Hollow, ".", ".."}
  OBVIOUS
<1> HIDE DEF S, T
<1>5. \A p \in Paths : p \in FoundPaths
  BY <1>3, <1>4, SeqMonotonic
<1>6. \A p \in Paths : Clean(p) \in Seq(FileSegments)
  BY <1>3, <1>4, CleanPath DEF Components, FileSegments
<1> QED
  BY <1>1, <1>2, <1>5, <1>6

LEMMA GoesWrongIs ==
  /\ HollowInside <=> HollowIn(call.pattern)
  /\ UpFromWild <=> GoesUp(call.pattern)
  /\ RootOfDisk <=> AllEmpty(call.pattern)
BY Zenon DEF HollowInside, HollowIn, UpFromWild, GoesUp, RootOfDisk, AllEmpty, Hollow

LEMMA MatchesIs ==
  ASSUME NEW p, NEW f
  PROVE  Matches(p, f) <=> p[Len(p)] \notin {Hollow, ".", "**"} /\ MatchesAll(Clean(p), f)
BY Zenon DEF Matches, Hollow

LEMMA FilesAreFound == UNION Disks \subseteq FoundPaths
<1>1. Seq(FileSegments) \subseteq FoundPaths
  <2> DEFINE T == FileNames \cup {Hollow, ".", "..", "/"}
  <2>1. FileSegments \subseteq T
    BY DEF FileSegments
  <2>2. FoundPaths = Seq(T)
    BY Zenon DEF FoundPaths, Hollow
  <2> HIDE DEF T
  <2> QED
    BY <2>1, <2>2, SeqMonotonic
<1> QED
  BY <1>1, FileFacts

(* What the call is does not change any more.                              *)
LEMMA SameCall ==
  ASSUME call' = call, pattern' = pattern
  PROVE  /\ \A f : Wanted(f)' <=> Wanted(f)
         /\ GoesWrong' <=> GoesWrong
         /\ ByDefault' <=> ByDefault
<1>1. /\ HollowInside' <=> HollowInside
      /\ UpFromWild' <=> UpFromWild
      /\ GlobLikeName' <=> GlobLikeName
      /\ RootOfDisk' <=> RootOfDisk
  BY Zenon DEF HollowInside, UpFromWild, GlobLikeName, RootOfDisk
<1>2. GoesWrong' <=> GoesWrong
  BY <1>1, Zenon DEF GoesWrong
<1>3. \A f : Wanted(f)' <=> Wanted(f)
  BY <1>1, Zenon DEF Wanted
<1> QED
  BY <1>2, <1>3, Zenon DEF ByDefault

LEMMA NoPath == <<>> \in Components /\ <<>> \in Seq(Components) /\ Len(<<>>) = 0
BY DEF Components

LEMMA SourcesInitInv == SourcesInit => SourcesInv
<1> SUFFICES ASSUME SourcesInit PROVE SourcesInv
  OBVIOUS
<1> USE DEF SourcesInit
<1>1. SourcesTypeOK
  BY SegmentFacts, NoPath DEF SourcesTypeOK
<1>2. PairsFit /\ RowsFit /\ StagesFit
  BY NoPath DEF PairsFit, RowsFit, StagesFit
<1>3. WantedAreOnTheirWay /\ NoneWasWanted /\ FoundBelowRoot /\ DefaultRootHolds
  BY DEF WantedAreOnTheirWay, NoneWasWanted, FoundBelowRoot, DefaultRootHolds
<1> QED
  BY <1>1, <1>2, <1>3 DEF SourcesInv

LEMMA PackGlobInv == SourcesInv /\ PackGlob => SourcesInv'
<1> SUFFICES ASSUME SourcesInv, PackGlob PROVE SourcesInv'
  OBVIOUS
<1> DEFINE p == call.pattern
           isdir == IsDir(p)
<1>1. /\ stage = "idle" /\ call.op = "glob" /\ stage' = "gather"
      /\ pattern' = IF isdir THEN AllOfDir(Trim(p)) ELSE p
      /\ root' = IF call.root # NoRoot THEN Clean(call.root)
                 ELSE IF isdir THEN Clean(Trim(p)) ELSE FixedPrefix(p)
      /\ found' = {f \in disk : Matches(pattern', f)}
      /\ UNCHANGED <<disk, call, pairs, packed, failure, changes, stayed>>
  BY DEF PackGlob
<1>2. /\ disk \subseteq UNION Disks /\ call \in Calls /\ stayed \subseteq disk
      /\ pairs = {} /\ packed = <<>> /\ failure = "none"
  BY <1>1 DEF SourcesInv, SourcesTypeOK, StagesFit
<1>3. /\ p \in Seq(Segments) /\ p # <<>>
      /\ call.root # NoRoot => Clean(call.root) \in Seq(FileSegments)
  BY <1>1, <1>2, CallFacts
<1>4. found' \subseteq UNION Disks /\ found' \subseteq FoundPaths
  BY <1>1, <1>2, FilesAreFound
<1> HIDE DEF p, isdir
<1>5. ASSUME isdir
      PROVE  /\ Clean(p) \in Seq(FileSegments)
             /\ Clean(AllOfDir(Trim(p))) = Clean(p) \o <<"**", "*">>
             /\ Clean(Trim(p)) = IF AllEmpty(p) THEN <<>> ELSE Clean(p)
             /\ (\A i \in 1..Len(p) : p[i] \notin Wild) => Clean(p) \in Seq(Plain)
  BY <1>2, <1>3, <1>5, DirFacts DEF isdir
<1>6. FixedPrefix(p) \in Seq(FileSegments)
  BY <1>3, PrefixOfPattern, PlainFacts, SeqMonotonic
<1>7. root' \in Components
  <2>1. <<>> \in Seq(FileSegments)
    OBVIOUS
  <2>2. isdir => Clean(Trim(p)) \in Seq(FileSegments)
    BY <1>5, <2>1
  <2> QED
    BY <1>1, <1>3, <1>6, <2>2 DEF Components, FileSegments
<1>8. SourcesTypeOK'
  BY <1>1, <1>4, <1>7 DEF SourcesInv, SourcesTypeOK
<1>9. PairsFit' /\ RowsFit' /\ StagesFit' /\ NoneWasWanted' /\ DefaultRootHolds'
  BY <1>1, <1>2, NoPath DEF PairsFit, RowsFit, StagesFit, NoneWasWanted, DefaultRootHolds
<1>10. GlobLikeName' <=> GlobLikeName
  BY <1>1, Zenon DEF GlobLikeName
<1>11. GlobLikeName <=> \E i \in 1..Len(p) : p[i] \in Wild
  BY DEF GlobLikeName, p
(* What stands for the directory is found by the glob made of it. *)
<1>12. ASSUME NEW f \in UNION Disks, isdir, ~GlobLikeName
       PROVE  Matches(AllOfDir(Trim(p)), f) <=> Below(f, Clean(p))
  <2> DEFINE q == AllOfDir(Trim(p))
  <2>1. Clean(q) = Clean(p) \o <<"**", "*">> /\ Clean(p) \in Seq(Plain)
    BY <1>5, <1>11, <1>12
  <2>2. MatchesAll(Clean(q), f) <=> Below(f, Clean(p))
    BY <2>1, DirGlob
  <2>3. q[Len(q)] \notin {Hollow, ".", "**"}
    <3> DEFINE t == Trim(p)
    <3>1. t \in Seq(Segments)
      <4>1. PICK n \in 1..Len(p) : Trim(p) = SubSeq(p, 1, n)
        BY <1>3, TrimFacts
      <4>2. n \in 0..Len(p)
        OBVIOUS
      <4> QED
        BY <1>3, <4>1, <4>2, SplitSeq
    <3> HIDE DEF t
    <3>2. q = t \o <<"**", "*">>
      BY DEF AllOfDir, t
    <3>3. Len(t \o <<"**", "*">>) = Len(t) + 2 /\ (t \o <<"**", "*">>)[Len(t) + 2] = "*"
      BY <3>1
    <3>4. q[Len(q)] = "*"
      BY <3>2, <3>3
    <3> QED
      BY <3>4, SegmentFacts
  <2> HIDE DEF q
  <2>4. Matches(q, f) <=> Below(f, Clean(p))
    BY <2>2, <2>3, MatchesIs
  <2> QED
    BY <2>4 DEF q
<1>13. WantedAreOnTheirWay'
  <2> SUFFICES ASSUME NEW f \in stayed', Wanted(f)' PROVE OnItsWay(f)'
    BY DEF WantedAreOnTheirWay
  <2>1. f \in disk /\ f \in UNION Disks /\ Clean(f) = f
    BY <1>1, <1>2, CleanFile
  <2>2. Matches(pattern', f)
    <3>1. CASE pattern' # p
      <4>1. isdir /\ pattern' = AllOfDir(Trim(p))
        BY <1>1, <3>1
      <4>2. ~GlobLikeName /\ Below(f, Clean(p))
        BY <1>1, <1>10, <3>1 DEF Wanted, p
      <4> QED
        BY <1>12, <2>1, <4>1, <4>2
    <3>2. CASE pattern' = p
      BY <1>1, <3>2 DEF Wanted, p
    <3> QED
      BY <3>1, <3>2
  <2>3. f \in found'
    BY <1>1, <2>1, <2>2
  <2> QED
    BY <2>1, <2>3 DEF OnItsWay
<1>14. FoundBelowRoot'
  <2> SUFFICES ASSUME ByDefault', NEW f \in found' PROVE Below(f, root)'
    BY <1>4 DEF FoundBelowRoot
  <2>1. f \in UNION Disks /\ Matches(pattern', f) /\ call.root = NoRoot /\ ~GoesWrong'
    BY <1>1, <1>4 DEF ByDefault
  <2>2. /\ HollowInside' <=> HollowIn(p)
        /\ UpFromWild' <=> GoesUp(p)
        /\ RootOfDisk' <=> AllEmpty(p)
    <3>1. /\ HollowInside' <=> HollowInside
          /\ UpFromWild' <=> UpFromWild
          /\ RootOfDisk' <=> RootOfDisk
      BY <1>1, Zenon DEF HollowInside, UpFromWild, RootOfDisk
    <3> QED
      BY <3>1, GoesWrongIs DEF p
  <2>3. ASSUME pattern' # p PROVE Below(f, root')
    <3>1. isdir /\ pattern' = AllOfDir(Trim(p)) /\ root' = Clean(Trim(p))
      BY <1>1, <2>1, <2>3
    <3>2. ~GlobLikeName /\ ~AllEmpty(p)
      BY <1>1, <1>10, <2>1, <2>2, <2>3 DEF GoesWrong, p
    <3>3. Below(f, Clean(p))
      BY <1>12, <2>1, <3>1, <3>2
    <3> QED
      BY <1>5, <3>1, <3>2, <3>3
  <2>4. ASSUME pattern' = p PROVE Below(f, root')
    <3>1. ~isdir
      <4> SUFFICES ASSUME isdir PROVE FALSE
        OBVIOUS
      <4>1. p = AllOfDir(Trim(p))
        BY <1>1, <2>4
      <4>2. PICK n \in 1..Len(p) : /\ Trim(p) = SubSeq(p, 1, n)
                                   /\ \A i \in (n + 1)..Len(p) : p[i] = Hollow
        BY <1>3, TrimFacts
      <4> DEFINE t == SubSeq(p, 1, n)
      <4>3. t \in Seq(Segments) /\ Len(t) = n
        <5>1. n \in 0..Len(p)
          OBVIOUS
        <5> QED
          BY <1>3, <5>1, SplitSeq
      <4> HIDE DEF t
      <4>4. Len(t \o <<"**", "*">>) = n + 2 /\ (t \o <<"**", "*">>)[n + 1] = "**"
        BY <4>3
      <4>5. p = t \o <<"**", "*">>
        BY <4>1, <4>2 DEF AllOfDir, t
      <4>6. Len(p) = n + 2 /\ p[n + 1] = "**" /\ n + 1 \in (n + 1)..Len(p)
        BY <4>4, <4>5
      <4> QED
        BY <4>2, <4>6, SegmentFacts
    <3>2. root' = FixedPrefix(p)
      BY <1>1, <2>1, <3>1
    <3>3. ~HollowIn(p) /\ ~GoesUp(p)
      BY <1>1, <2>1, <2>2, <2>4 DEF GoesWrong, p
    <3>4. p[Len(p)] \notin {Hollow, ".", "**"} /\ MatchesAll(Clean(p), f)
      BY <2>1, <2>4, MatchesIs
    <3>5. PICK u \in Seq(FileNames \cup Wild \cup {"**"}) :
            Clean(p) = FixedPrefix(p) \o (u \o <<p[Len(p)]>>)
      BY <1>3, <3>3, <3>4, PrefixOfPattern
    <3> DEFINE x == p[Len(p)]
    <3>6. x # "**" /\ MatchesAll(FixedPrefix(p) \o (u \o <<x>>), f)
      BY <3>4, <3>5
    <3>7. FixedPrefix(p) \in Seq(Plain)
      BY <1>3, PrefixOfPattern
    <3> HIDE DEF x
    <3>8. Below(f, FixedPrefix(p))
      BY <2>1, <3>6, <3>7, MatchesBelow
    <3> QED
      BY <3>2, <3>8
  <2>5. Below(f, root)' <=> Below(f, root')
    BY DEF Below, Extends, Rest
  <2> QED
    BY <2>3, <2>4, <2>5
<1> QED
  BY <1>8, <1>9, <1>13, <1>14 DEF SourcesInv

LEMMA PackFilesInv == SourcesInv /\ PackFiles => SourcesInv'
<1> SUFFICES ASSUME SourcesInv, PackFiles PROVE SourcesInv'
  OBVIOUS
<1>1. /\ stage = "idle" /\ call.op = "files" /\ found' = call.files
      /\ root' = Clean(call.root)
      /\ \/ call.files = {} /\ stage' = "failed" /\ failure' = "no files"
         \/ call.files # {} /\ stage' = "gather" /\ failure' = failure
      /\ UNCHANGED <<disk, call, pattern, pairs, packed, changes, stayed>>
  BY DEF PackFiles, GiveUp
<1>2. /\ call \in Calls /\ pairs = {} /\ packed = <<>> /\ failure = "none"
  BY <1>1 DEF SourcesInv, SourcesTypeOK, StagesFit
<1>3. call.files \subseteq FoundPaths /\ root' \in Components
  BY <1>1, <1>2, CallFacts DEF Components, FileSegments
<1>4. SourcesTypeOK'
  BY <1>1, <1>3 DEF SourcesInv, SourcesTypeOK
<1>5. PairsFit' /\ RowsFit' /\ StagesFit' /\ DefaultRootHolds' /\ FoundBelowRoot'
  <2>1. PairsFit' /\ RowsFit'
    <3>1. pairs' = {} /\ packed' = <<>>
      BY <1>1, <1>2
    <3> QED
      BY <3>1, NoPath DEF PairsFit, RowsFit
  <2>2. StagesFit'
    BY <1>1, <1>2 DEF StagesFit
  <2>3. DefaultRootHolds' /\ FoundBelowRoot'
    <3>1. call'.op # "glob"
      BY <1>1
    <3>2. ~ByDefault'
      BY <3>1 DEF ByDefault
    <3> QED
      BY <3>1, <3>2 DEF DefaultRootHolds, FoundBelowRoot
  <2> QED
    BY <2>1, <2>2, <2>3
<1>6. \A f : Wanted(f)' <=> \E path \in call.files : f = Clean(path)
  BY <1>1 DEF Wanted
<1>7. WantedAreOnTheirWay' /\ NoneWasWanted'
  <2>1. \A f : Wanted(f)' => OnItsWay(f)'
    BY <1>1, <1>6 DEF OnItsWay
  <2>2. call.files = {} => \A f : ~Wanted(f)'
    BY <1>6
  <2>3. WantedAreOnTheirWay'
    BY <2>1 DEF WantedAreOnTheirWay
  <2>4. NoneWasWanted'
    BY <1>1, <1>2, <2>2 DEF NoneWasWanted
  <2> QED
    BY <2>3, <2>4
<1> QED
  BY <1>4, <1>5, <1>7 DEF SourcesInv

LEMMA GatherInv == ASSUME NEW path \in found, SourcesInv, Gather(path) PROVE SourcesInv'
<1> DEFINE file == Clean(path)
           kept == Stored(file, root)
<1>1. /\ stage = "gather" /\ found' = found \ {path}
      /\ UNCHANGED <<disk, call, pattern, root, packed, changes, stayed>>
      /\ \/ file \notin disk /\ call.op = "glob" /\ UNCHANGED <<stage, pairs, failure>>
         \/ /\ file \notin disk /\ call.op = "files"
            /\ stage' = "failed" /\ failure' = "not a file" /\ pairs' = pairs
         \/ /\ file \in disk /\ kept.kind # "ok"
            /\ stage' = "failed" /\ failure' = kept.kind /\ pairs' = pairs
         \/ /\ file \in disk /\ kept.kind = "ok"
            /\ pairs' = pairs \cup {<<kept.path, path>>}
            /\ UNCHANGED <<stage, failure>>
  BY DEF Gather, GiveUp
<1>2. /\ disk \subseteq UNION Disks /\ stayed \subseteq disk /\ root \in Seq(FileSegments)
      /\ packed = <<>> /\ failure = "none"
  BY <1>1 DEF SourcesInv, SourcesTypeOK, StagesFit, Components, FileSegments
<1>3. kept.kind \in {"outside", "empty", "escapes", "ok"}
  BY StoredKind
<1>4. ASSUME file \in disk, kept.kind = "ok"
      PROVE  /\ kept.path \in Seq(FileNames) /\ kept.path \in Components
             /\ Len(kept.path) > 0 /\ root \o kept.path = file /\ file \in Components
  <2>1. file \in Seq(FileSegments)
    BY <1>2, <1>4, FileFacts
  <2>2. kept.path \in Seq(FileNames) /\ Len(kept.path) > 0 /\ root \o kept.path = file
    BY <1>2, <1>4, <2>1, StoredBelow
  <2>3. kept.path \in Seq(FileSegments)
    BY <2>2, SeqMonotonic DEF FileSegments
  <2> QED
    BY <2>1, <2>2, <2>3 DEF Components, FileSegments
<1>5. file \in disk /\ kept.kind # "ok" => ~ByDefault
  <2> SUFFICES ASSUME file \in disk, kept.kind # "ok", ByDefault PROVE FALSE
    OBVIOUS
  <2>1. path \in UNION Disks /\ Below(path, root)
    BY <1>1 DEF SourcesInv, FoundBelowRoot, ByDefault
  <2>2. file = path /\ path \in Seq(FileSegments)
    BY <2>1, CleanFile, FileFacts
  <2> QED
    BY <1>2, <2>1, <2>2, StoredBelow
<1>6. path \in FoundPaths
  BY DEF SourcesInv, SourcesTypeOK
<1> HIDE DEF kept
<1> DEFINE new == <<kept.path, path>>
<1>15. /\ new[1] = kept.path /\ new[2] = path
       /\ file \in disk /\ kept.kind = "ok" => pairs' = pairs \cup {new}
       /\ ~(file \in disk /\ kept.kind = "ok") => pairs' = pairs
  <2>1. /\ file \in disk /\ kept.kind = "ok" => pairs' = pairs \cup {new}
        /\ ~(file \in disk /\ kept.kind = "ok") => pairs' = pairs
    BY <1>1
  <2>2. new[1] = kept.path /\ new[2] = path
    OBVIOUS
  <2> QED
    BY <2>1, <2>2
<1> HIDE DEF new
<1>7. SourcesTypeOK'
  <2> DEFINE Failures == {"none", "no files", "not a file", "outside", "empty", "escapes",
                          "io", "duplicate"}
  <2>1. failure' \in Failures /\ stage' \in {"idle", "gather", "write", "packed", "failed"}
    BY <1>1, <1>2, <1>3
  <2>2. \A pair \in pairs' : pair[1] \in Components /\ Clean(pair[2]) \in Components
    BY <1>4, <1>15 DEF SourcesInv, SourcesTypeOK
  <2>3. found' \subseteq FoundPaths
    BY <1>1 DEF SourcesInv, SourcesTypeOK
  <2> QED
    BY <1>1, <2>1, <2>2, <2>3 DEF SourcesInv, SourcesTypeOK
<1>8. PairsFit'
  BY <1>1, <1>4, <1>15 DEF SourcesInv, PairsFit
<1>9. RowsFit' /\ StagesFit'
  BY <1>1, <1>2 DEF SourcesInv, RowsFit, StagesFit
<1>10. (\A f : Wanted(f)' <=> Wanted(f)) /\ (ByDefault' <=> ByDefault)
       /\ (GoesWrong' <=> GoesWrong)
  BY <1>1, SameCall
<1>11. WantedAreOnTheirWay'
  <2> SUFFICES ASSUME stage' # "failed", NEW f \in stayed', Wanted(f)' PROVE OnItsWay(f)'
    BY DEF WantedAreOnTheirWay
  <2>1. f \in stayed /\ f \in disk /\ OnItsWay(f)
    BY <1>1, <1>2, <1>10 DEF SourcesInv, WantedAreOnTheirWay
  <2>2. CASE \E q \in found : q # path /\ Clean(q) = f
    BY <1>1, <2>2 DEF OnItsWay
  <2>3. CASE file = f
    <3>1. new \in pairs'
      BY <1>1, <1>15, <2>1, <2>3
    <3>2. Clean(new[2]) = f
      BY <1>15, <2>3
    <3> QED
      BY <3>1, <3>2 DEF OnItsWay
  <2>4. CASE \E pair \in pairs : Clean(pair[2]) = f
    BY <1>1, <2>4 DEF OnItsWay
  <2>5. CASE \E i \in 1..Len(packed) : root \o packed[i] = f
    BY <1>1, <2>5 DEF OnItsWay
  <2> QED
    BY <2>1, <2>2, <2>3, <2>4, <2>5 DEF OnItsWay
<1>12. NoneWasWanted'
  BY <1>1, <1>2, <1>3 DEF NoneWasWanted
<1>13. FoundBelowRoot'
  <2>1. \A f : Below(f, root)' <=> Below(f, root)
    BY <1>1 DEF Below, Extends, Rest
  <2> QED
    BY <1>1, <1>10, <2>1 DEF SourcesInv, FoundBelowRoot
<1>14. DefaultRootHolds'
  <2>1. ByDefault => failure' \notin {"outside", "empty", "escapes"}
    BY <1>1, <1>2, <1>5
  <2> QED
    BY <1>1, <1>10, <2>1 DEF DefaultRootHolds, ByDefault
<1> QED
  BY <1>7, <1>8, <1>9, <1>11, <1>12, <1>13, <1>14 DEF SourcesInv

LEMMA GatheredInv == SourcesInv /\ Gathered => SourcesInv'
<1> SUFFICES ASSUME SourcesInv, Gathered PROVE SourcesInv'
  OBVIOUS
<1>1. /\ stage = "gather" /\ found = {}
      /\ UNCHANGED <<disk, call, pattern, root, found, pairs, packed, changes, stayed>>
      /\ \/ pairs = {} /\ stage' = "failed" /\ failure' = "no files"
         \/ pairs # {} /\ stage' = "write" /\ failure' = failure
  BY DEF Gathered, GiveUp
<1>2. packed = <<>> /\ failure = "none"
  BY <1>1 DEF SourcesInv, StagesFit
<1>3. SourcesTypeOK' /\ PairsFit' /\ RowsFit' /\ StagesFit'
  <2>1. SourcesTypeOK'
    BY <1>1 DEF SourcesInv, SourcesTypeOK
  <2> QED
    BY <1>1, <2>1 DEF SourcesInv, PairsFit, RowsFit, StagesFit
<1>4. (\A f : Wanted(f)' <=> Wanted(f)) /\ (ByDefault' <=> ByDefault)
      /\ (GoesWrong' <=> GoesWrong)
  BY <1>1, SameCall
<1>5. WantedAreOnTheirWay' /\ NoneWasWanted'
  <2>1. \A f \in stayed : Wanted(f) => OnItsWay(f)
    BY <1>1 DEF SourcesInv, WantedAreOnTheirWay
  <2>2. \A f : OnItsWay(f)' <=> OnItsWay(f)
    BY <1>1 DEF OnItsWay
  <2>3. pairs = {} => \A f \in stayed : ~Wanted(f)
    <3>1. \A i \in 1..Len(packed) : FALSE
      BY <1>2, NoPath
    <3>2. pairs = {} => \A f : ~OnItsWay(f)
      BY <1>1, <3>1 DEF OnItsWay
    <3> QED
      BY <2>1, <3>2
  <2> QED
    BY <1>1, <1>2, <1>4, <2>1, <2>2, <2>3 DEF WantedAreOnTheirWay, NoneWasWanted
<1>6. FoundBelowRoot' /\ DefaultRootHolds'
  BY <1>1, <1>2 DEF FoundBelowRoot, DefaultRootHolds
<1> QED
  BY <1>3, <1>5, <1>6 DEF SourcesInv

LEMMA WriteInv == ASSUME NEW pair \in pairs, SourcesInv, Write(pair) PROVE SourcesInv'
<1>1. /\ stage = "write" /\ pairs' = pairs \ {pair}
      /\ UNCHANGED <<disk, call, pattern, root, found, changes, stayed>>
      /\ \/ Clean(pair[2]) \notin disk /\ stage' = "failed" /\ failure' = "io" /\ packed' = packed
         \/ stage' = "failed" /\ failure' = "duplicate" /\ packed' = packed
         \/ packed' = Append(packed, pair[1]) /\ UNCHANGED <<stage, failure>>
  BY DEF Write, GiveUp
<1>2. /\ stayed \subseteq disk /\ packed \in Seq(Components) /\ pair[1] \in Components
      /\ failure = "none" /\ found = {}
  BY <1>1 DEF SourcesInv, SourcesTypeOK, StagesFit
<1>3. /\ pair[1] \in Seq(FileNames) /\ Len(pair[1]) > 0 /\ root \o pair[1] = Clean(pair[2])
  BY DEF SourcesInv, PairsFit
<1> DEFINE more == Append(packed, pair[1])
<1>4. /\ more \in Seq(Components) /\ Len(packed) \in Nat /\ Len(more) = Len(packed) + 1
      /\ \A i \in 1..Len(packed) : more[i] = packed[i] /\ i \in 1..Len(more)
      /\ more[Len(more)] = pair[1] /\ Len(more) \in 1..Len(more)
      /\ \A i \in 1..Len(more) : i \in 1..Len(packed) \/ i = Len(more)
  BY <1>2, AppendProperties
<1> HIDE DEF more
<1>5. packed' = packed \/ packed' = more
  BY <1>1 DEF more
<1>6. SourcesTypeOK'
  BY <1>1, <1>2, <1>4, <1>5 DEF SourcesInv, SourcesTypeOK
<1>7. PairsFit' /\ StagesFit'
  BY <1>1 DEF SourcesInv, PairsFit, StagesFit
<1>8. RowsFit'
  BY <1>3, <1>4, <1>5 DEF SourcesInv, RowsFit
<1>9. \A f : Wanted(f)' <=> Wanted(f)
  BY <1>1, SameCall
<1>10. WantedAreOnTheirWay'
  <2> SUFFICES ASSUME stage' # "failed", NEW f \in stayed', Wanted(f)' PROVE OnItsWay(f)'
    BY DEF WantedAreOnTheirWay
  <2>1. f \in stayed /\ OnItsWay(f) /\ packed' = more /\ root' = root
    BY <1>1, <1>9 DEF SourcesInv, WantedAreOnTheirWay, more
  <2>2. CASE Clean(pair[2]) = f
    BY <1>3, <1>4, <2>1, <2>2 DEF OnItsWay
  <2>3. CASE \E q \in pairs : q # pair /\ Clean(q[2]) = f
    BY <1>1, <2>3 DEF OnItsWay
  <2>4. CASE \E i \in 1..Len(packed) : root \o packed[i] = f
    BY <1>4, <2>1, <2>4 DEF OnItsWay
  <2> QED
    BY <1>2, <2>1, <2>2, <2>3, <2>4 DEF OnItsWay
<1>11. NoneWasWanted' /\ FoundBelowRoot' /\ DefaultRootHolds'
  BY <1>1, <1>2 DEF NoneWasWanted, FoundBelowRoot, DefaultRootHolds
<1> QED
  BY <1>6, <1>7, <1>8, <1>10, <1>11 DEF SourcesInv

LEMMA EndOfCallInv == SourcesInv /\ (Finish \/ SourceFails) => SourcesInv'
<1> SUFFICES ASSUME SourcesInv, Finish \/ SourceFails PROVE SourcesInv'
  OBVIOUS
<1>1. /\ stage \in {"gather", "write"}
      /\ UNCHANGED <<disk, call, pattern, root, found, pairs, packed, changes, stayed>>
      /\ \/ stage = "write" /\ pairs = {} /\ stage' = "packed" /\ failure' = failure
         \/ stage' = "failed" /\ failure' = "io"
  BY DEF Finish, SourceFails, GiveUp
<1>2. failure = "none"
  BY <1>1 DEF SourcesInv, StagesFit
<1>3. SourcesTypeOK'
  BY <1>1 DEF SourcesInv, SourcesTypeOK
<1>4. PairsFit' /\ RowsFit' /\ StagesFit'
  BY <1>1 DEF SourcesInv, PairsFit, RowsFit, StagesFit
<1>5. (\A f : Wanted(f)' <=> Wanted(f)) /\ (ByDefault' <=> ByDefault)
  BY <1>1, SameCall
<1>6. WantedAreOnTheirWay'
  <2>1. \A f : OnItsWay(f)' <=> OnItsWay(f)
    BY <1>1 DEF OnItsWay
  <2> QED
    BY <1>1, <1>5, <2>1 DEF SourcesInv, WantedAreOnTheirWay
<1>7. FoundBelowRoot'
  <2>1. \A f : Below(f, root)' <=> Below(f, root)
    BY <1>1 DEF Below, Extends, Rest
  <2> QED
    BY <1>1, <1>5, <2>1 DEF SourcesInv, FoundBelowRoot
<1>8. NoneWasWanted' /\ DefaultRootHolds'
  BY <1>1, <1>2 DEF NoneWasWanted, DefaultRootHolds
<1> QED
  BY <1>3, <1>4, <1>6, <1>7, <1>8 DEF SourcesInv

LEMMA ChangeInv == SourcesInv /\ Change => SourcesInv'
<1> SUFFICES ASSUME SourcesInv, Change PROVE SourcesInv'
  OBVIOUS
<1>1. PICK f \in UNION Disks : disk' \in {disk \cup {f}, disk \ {f}} \ {disk}
  BY DEF Change
<1>2. /\ stage \in {"idle", "gather", "write"} /\ changes < MaxChanges
      /\ stayed' = stayed \cap disk' /\ changes' = changes + 1
      /\ UNCHANGED <<stage, call, pattern, root, found, pairs, packed, failure>>
  BY DEF Change
<1>3. failure = "none"
  BY <1>2 DEF SourcesInv, StagesFit
<1>4. SourcesTypeOK'
  <2>1. disk' \subseteq UNION Disks /\ stayed' \subseteq disk'
    BY <1>1, <1>2 DEF SourcesInv, SourcesTypeOK
  <2>2. changes' \in 0..MaxChanges
    <3>1. changes \in 0..MaxChanges /\ MaxChanges \in Nat
      BY SegmentFacts DEF SourcesInv, SourcesTypeOK
    <3>2. changes < MaxChanges /\ changes' = changes + 1
      BY <1>2
    <3> QED
      BY <3>1, <3>2
  <2> QED
    BY <1>2, <2>1, <2>2 DEF SourcesInv, SourcesTypeOK
<1>5. PairsFit' /\ RowsFit' /\ StagesFit'
  BY <1>2 DEF SourcesInv, PairsFit, RowsFit, StagesFit
<1>6. (\A g : Wanted(g)' <=> Wanted(g)) /\ (ByDefault' <=> ByDefault)
  BY <1>2, SameCall
<1>7. WantedAreOnTheirWay'
  <2>1. \A g : OnItsWay(g)' <=> OnItsWay(g)
    BY <1>2 DEF OnItsWay
  <2> QED
    BY <1>2, <1>6, <2>1 DEF SourcesInv, WantedAreOnTheirWay
<1>8. FoundBelowRoot'
  <2>1. \A g : Below(g, root)' <=> Below(g, root)
    BY <1>2 DEF Below, Extends, Rest
  <2> QED
    BY <1>2, <1>6, <2>1 DEF SourcesInv, FoundBelowRoot
<1>9. NoneWasWanted' /\ DefaultRootHolds'
  BY <1>2, <1>3 DEF NoneWasWanted, DefaultRootHolds
<1> QED
  BY <1>4, <1>5, <1>7, <1>8, <1>9 DEF SourcesInv

LEMMA SourcesStepInv == SourcesInv /\ [SourcesNext]_sourcesVars => SourcesInv'
<1> SUFFICES ASSUME SourcesInv, [SourcesNext]_sourcesVars PROVE SourcesInv'
  OBVIOUS
<1>1. CASE PackGlob
  BY <1>1, PackGlobInv
<1>2. CASE PackFiles
  BY <1>2, PackFilesInv
<1>3. CASE \E path \in found : Gather(path)
  BY <1>3, GatherInv
<1>4. CASE Gathered
  BY <1>4, GatheredInv
<1>5. CASE \E pair \in pairs : Write(pair)
  BY <1>5, WriteInv
<1>6. CASE Finish \/ SourceFails
  BY <1>6, EndOfCallInv
<1>7. CASE Change
  BY <1>7, ChangeInv
<1>8. CASE UNCHANGED sourcesVars
  <2>1. (\A f : Wanted(f)' <=> Wanted(f)) /\ (ByDefault' <=> ByDefault)
        /\ (GoesWrong' <=> GoesWrong)
    BY <1>8, SameCall DEF sourcesVars
  <2>2. /\ \A f : OnItsWay(f)' <=> OnItsWay(f)
        /\ \A f : Below(f, root)' <=> Below(f, root)
    BY <1>8 DEF sourcesVars, OnItsWay, Below, Extends, Rest
  <2>3. SourcesTypeOK' /\ PairsFit' /\ RowsFit' /\ StagesFit'
    BY <1>8 DEF sourcesVars, SourcesInv, SourcesTypeOK, PairsFit, RowsFit, StagesFit
  <2>4. WantedAreOnTheirWay' /\ NoneWasWanted' /\ FoundBelowRoot' /\ DefaultRootHolds'
    BY <1>8, <2>1, <2>2
       DEF sourcesVars, SourcesInv, WantedAreOnTheirWay, NoneWasWanted, FoundBelowRoot,
           DefaultRootHolds
  <2> QED
    BY <2>3, <2>4 DEF SourcesInv
<1> QED
  BY <1>1, <1>2, <1>3, <1>4, <1>5, <1>6, <1>7, <1>8 DEF SourcesNext, PackStep, CallReturned

LEMMA SourcesInvariance == SourcesSpec => []SourcesInv
BY SourcesInitInv, SourcesStepInv, PTL DEF SourcesSpec

THEOREM SourcesTypeCorrect == SourcesSpec => []SourcesTypeOK
<1>1. SourcesInv => SourcesTypeOK
  BY DEF SourcesInv
<1> QED
  BY <1>1, SourcesInvariance, PTL

(* Every path that pack_glob and pack_files store a file by is one that    *)
(* the index keeps as it is: stored_path refuses what would leave the      *)
(* archive, and clean what normalize would drop.                           *)
THEOREM PathsOfFilesCanonical == SourcesSpec => []PackedPathsAreCanonical
<1>1. SourcesInv => PackedPathsAreCanonical
  <2> SUFFICES ASSUME SourcesInv, NEW i \in 1..Len(packed)
               PROVE  /\ Len(packed[i]) > 0
                      /\ \A n \in 1..Len(packed[i]) : packed[i][n] \in FileNames
    BY DEF PackedPathsAreCanonical
  <2>1. packed[i] \in Seq(FileNames) /\ Len(packed[i]) > 0
    BY DEF SourcesInv, RowsFit
  <2> QED
    BY <2>1, SeqFacts
<1> QED
  BY <1>1, SourcesInvariance, PTL

(* But for the calls that GoesWrong names, a file that a glob matches is   *)
(* below the root that glob_fixed_prefix takes from the glob.              *)
THEOREM DefaultRootIsAbove == SourcesSpec => []DefaultRootHolds
<1>1. SourcesInv => DefaultRootHolds
  BY DEF SourcesInv
<1> QED
  BY <1>1, SourcesInvariance, PTL

(* A call that succeeds has packed all that it was to pack and that stayed *)
(* where it was; and none says that there is nothing when there is.        *)
THEOREM AllIsPacked == SourcesSpec => []NothingIsLeftOut
<1>1. SourcesInv => NothingIsLeftOut
  <2> SUFFICES ASSUME SourcesInv PROVE NothingIsLeftOut
    OBVIOUS
  <2>1. ASSUME stage = "packed", NEW f \in stayed, Wanted(f)
        PROVE  \E i \in 1..Len(packed) : root \o packed[i] = f
    <3>1. OnItsWay(f) /\ found = {} /\ pairs = {}
      BY <2>1 DEF SourcesInv, WantedAreOnTheirWay, StagesFit
    <3> QED
      BY <3>1 DEF OnItsWay
  <2>2. failure = "no files" => \A f \in stayed : ~Wanted(f)
    BY DEF SourcesInv, NoneWasWanted
  <2> QED
    BY <2>1, <2>2 DEF NothingIsLeftOut
<1> QED
  BY <1>1, SourcesInvariance, PTL
=============================================================================
