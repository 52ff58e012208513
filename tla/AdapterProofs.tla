----------------------------- MODULE AdapterProofs -----------------------------
(***************************************************************************)
(* Theorems about what adapters are asked and answer: about RangeReads,    *)
(* for any contents, buffers and adapters, and about NativeAdapter, for    *)
(* any number of threads, hosts and objects, and globs of any length.      *)
(***************************************************************************)
EXTENDS RangeReads, NativeAdapter, SequenceLemmas, SequenceTheorems, TLAPS
-----------------------------------------------------------------------------
(* The inductive invariant: the properties; nothing is read without a      *)
(* reader; a stream is where its bytes end, and with the local adapter     *)
(* never past the size; what the shard contains is among what it           *)
(* contained, and its length is the size while it has been nothing else.   *)

NothingWithoutReader ==
  /\ stream.state = "none" => stream = NoStream
  /\ ~Open => stream = NoStream /\ reply = NoReply

PosFollowsBytes ==
  /\ stream.pos = stream.start + Len(stream.got)
  /\ stream.state # "none" => Open /\ stream.start <= reader.size
  /\ Open /\ reader.adapter = "local" => stream.pos <= reader.size

SeenHoldsFile ==
  /\ Open => file \in seen
  /\ Open /\ seen = {file} => reader.size = Len(file)

Inductive ==
  /\ TypeOK /\ NothingWithoutReader /\ PosFollowsBytes /\ SeenHoldsFile
  /\ StreamFollowsShard /\ RangeIsWhole /\ EndIsTheEnd
  /\ InsideUntilReplaced
-----------------------------------------------------------------------------
(* What slices and answers are. *)

LEMMA SliceFacts ==
  ASSUME NEW c \in Seq(Bytes), NEW at \in Nat, NEW len \in Nat
  PROVE  /\ Slice(c, at, len) \in Seq(Bytes)
         /\ Len(Slice(c, at, len)) <= len
         /\ at + len <= Len(c) => Slice(c, at, len) = SubSeq(c, at + 1, at + len)
         /\ at + len <= Len(c) => Len(Slice(c, at, len)) = len
         /\ \A i \in 1..Len(Slice(c, at, len)) :
              at + i <= Len(c) /\ Slice(c, at, len)[i] = c[at + i]
<1> DEFINE m == Lesser(at + len, Len(c))
<1>1. m \in Nat /\ m <= at + len /\ m <= Len(c) /\ (at + len <= Len(c) => m = at + len)
  BY DEF Lesser
<1>2. /\ SubSeq(c, at + 1, m) \in Seq(Bytes)
      /\ Len(SubSeq(c, at + 1, m)) = IF at + 1 <= m THEN m - (at + 1) + 1 ELSE 0
      /\ \A i \in 1..(m - (at + 1) + 1) : SubSeq(c, at + 1, m)[i] = c[(at + 1) + i - 1]
  <2> HIDE DEF m
  <2> QED
    BY <1>1, SubSeqProperties
<1>3. Slice(c, at, len) = SubSeq(c, at + 1, m)
  BY DEF Slice
<1> HIDE DEF m
<1> QED
  BY <1>1, <1>2, <1>3

(* data is what c has from at on. *)
FromOn(data, c, at) ==
  /\ data \in Seq(Bytes)
  /\ \A i \in 1..Len(data) : at + i <= Len(c) /\ data[i] = c[at + i]

LEMMA AnswerFacts ==
  ASSUME NEW c \in Seq(Bytes), NEW a, NEW at \in Nat, NEW len \in Nat,
         NEW data \in Answers(a, c, at, len)
  PROVE  FromOn(data, c, at) /\ (a = "local" => Len(data) = len)
<1>1. PICK n \in Nat : /\ data = Slice(c, at, n)
                       /\ a = "local" => n = len /\ (len = 0 \/ at + len <= Len(c))
  BY DEF Answers
<1>2. Slice(c, at, n) \in Seq(Bytes)
  BY SliceFacts
<1>3. \A i \in 1..Len(Slice(c, at, n)) :
        at + i <= Len(c) /\ Slice(c, at, n)[i] = c[at + i]
  BY SliceFacts
<1>4. at + n <= Len(c) => Len(Slice(c, at, n)) = n
  BY SliceFacts
<1>5. Len(Slice(c, at, n)) <= n
  BY SliceFacts
<1>6. Len(Slice(c, at, n)) \in Nat
  BY <1>2
<1>7. a = "local" => Len(data) = len
  BY <1>1, <1>4, <1>5, <1>6
<1> QED
  BY <1>1, <1>2, <1>3, <1>7 DEF FromOn

(* A stream that takes an answer to its request. *)
LEMMA TakeFacts ==
  ASSUME NEW s \in Stream, NEW n \in Nat, NEW data \in Seq(Bytes)
  PROVE  LET t == Take(s, n, data)
             k == Lesser(Len(data), n) IN
           /\ t \in Stream
           /\ k \in Nat /\ k <= Len(data) /\ k <= n
           /\ t.state = s.state /\ t.start = s.start
           /\ t.pos = s.pos + k
           /\ Len(t.got) = Len(s.got) + k
           /\ \A i \in 1..Len(t.got) :
                /\ i <= Len(s.got) => t.got[i] = s.got[i]
                /\ i > Len(s.got) => t.got[i] = data[i - Len(s.got)]
<1> DEFINE k == Lesser(Len(data), n)
           taken == SubSeq(data, 1, k)
<1>1. k \in Nat /\ k <= Len(data) /\ k <= n
  BY DEF Lesser
<1>2. taken \in Seq(Bytes) /\ Len(taken) = k /\ \A i \in 1..k : taken[i] = data[i]
  <2> HIDE DEF k
  <2> QED
    BY <1>1, SubSeqProperties
<1>3. Take(s, n, data) = [s EXCEPT !.got = @ \o taken, !.pos = @ + Len(taken)]
  BY DEF Take
<1> HIDE DEF taken
<1>4. s.got \in Seq(Bytes) /\ Len(s.got) \in Nat /\ s.pos \in Nat
  BY DEF Stream
<1> HIDE DEF k
<1>5. /\ s.got \o taken \in Seq(Bytes)
      /\ Len(s.got \o taken) = Len(s.got) + k
      /\ \A i \in 1..(Len(s.got) + k) :
           (s.got \o taken)[i] = IF i <= Len(s.got) THEN s.got[i]
                                 ELSE taken[i - Len(s.got)]
  BY <1>1, <1>2, <1>4, ConcatProperties
<1>6. Take(s, n, data) = [state |-> s.state, start |-> s.start,
                          pos |-> s.pos + k, got |-> s.got \o taken]
  BY <1>2, <1>3 DEF Stream
<1>7. Take(s, n, data) \in Stream
  BY <1>1, <1>4, <1>5, <1>6 DEF Stream
<1>8. ASSUME NEW i \in 1..(Len(s.got) + k)
      PROVE  /\ i <= Len(s.got) => (s.got \o taken)[i] = s.got[i]
             /\ i > Len(s.got) => (s.got \o taken)[i] = data[i - Len(s.got)]
  BY <1>1, <1>2, <1>4, <1>5
<1> DEFINE t == Take(s, n, data)
<1>9. /\ t \in Stream /\ t.state = s.state /\ t.start = s.start /\ t.pos = s.pos + k
      /\ t.got = s.got \o taken
  BY <1>6, <1>7
<1> HIDE DEF t
<1>10. Len(t.got) = Len(s.got) + k
  BY <1>5, <1>9
<1>11. \A i \in 1..Len(t.got) :
         /\ i <= Len(s.got) => t.got[i] = s.got[i]
         /\ i > Len(s.got) => t.got[i] = data[i - Len(s.got)]
  BY <1>8, <1>9, <1>10
<1> USE DEF k, t
<1> QED
  BY <1>1, <1>9, <1>10, <1>11, Zenon

LEMMA TakeBytes ==
  ASSUME NEW s \in Stream, NEW n \in Nat, NEW data \in Seq(Bytes),
         NEW i \in 1..Len(Take(s, n, data).got)
  PROVE  /\ i <= Len(s.got) => Take(s, n, data).got[i] = s.got[i]
         /\ i > Len(s.got) => /\ i - Len(s.got) \in 1..Len(data)
                              /\ Take(s, n, data).got[i] = data[i - Len(s.got)]
<1>1. /\ Len(Take(s, n, data).got) = Len(s.got) + Lesser(Len(data), n)
      /\ Lesser(Len(data), n) \in Nat /\ Lesser(Len(data), n) <= Len(data)
  BY TakeFacts
<1>2. /\ i <= Len(s.got) => Take(s, n, data).got[i] = s.got[i]
      /\ i > Len(s.got) => Take(s, n, data).got[i] = data[i - Len(s.got)]
  BY TakeFacts
<1>3. Len(s.got) \in Nat /\ Len(data) \in Nat
  BY DEF Stream
<1> QED
  BY <1>1, <1>2, <1>3

-----------------------------------------------------------------------------
(* What holds of one step, for the actions that read from a stream and for *)
(* the others.                                                             *)

LEMMA InitInductive == Init => Inductive
<1> SUFFICES ASSUME Init PROVE Inductive
  OBVIOUS
<1> USE ContentsAssumption DEF Init
<1>1. TypeOK
  BY DEF TypeOK, NoStream, NoReply, NothingAsked, Stream, Reply, Asked
<1>2. NothingWithoutReader /\ PosFollowsBytes /\ SeenHoldsFile
  BY DEF NothingWithoutReader, PosFollowsBytes, SeenHoldsFile, NoStream, Open
<1>3. StreamFollowsShard /\ RangeIsWhole /\ EndIsTheEnd /\ InsideUntilReplaced
  BY DEF StreamFollowsShard, RangeIsWhole, EndIsTheEnd, InsideUntilReplaced,
         NeverPastEof, NoStream, NoReply, NothingAsked
<1> QED
  BY <1>1, <1>2, <1>3 DEF Inductive

LEMMA AskFacts ==
  ASSUME TypeOK, NEW at \in Nat, NEW len \in Nat, Ask(at, len)
  PROVE  asked' \in Asked /\ (at + len <= Len(file) => NeverPastEof')
<1>1. Len(file) \in Nat
  BY ContentsAssumption DEF TypeOK
<1> QED
  BY <1>1 DEF Ask, Asked, NeverPastEof

LEMMA AskNothingFacts ==
  ASSUME AskNothing
  PROVE  asked' \in Asked /\ InsideUntilReplaced'
BY DEF AskNothing, NothingAsked, Asked, InsideUntilReplaced, NeverPastEof

(* An index comes or goes, or the shard is replaced. *)
LEMMA OpenShardInductive == Inductive /\ OpenShard => Inductive'
<1> SUFFICES ASSUME Inductive, OpenShard PROVE Inductive'
  OBVIOUS
<1> USE DEF Inductive, OpenShard
<1>1. Len(file) \in Nat /\ file \in Contents
  BY ContentsAssumption DEF TypeOK
<1>2. AskNothing /\ asked' \in Asked /\ InsideUntilReplaced'
  BY AskNothingFacts
<1>3. PICK a \in Adapters : reader' = [size |-> Len(file), adapter |-> a]
  OBVIOUS
<1>4. reader' \in Reader /\ reader'.size = Len(file) /\ Open'
  BY <1>1, <1>3, NoReaderAssumption DEF Reader, Open
<1>5. TypeOK'
  BY <1>1, <1>2, <1>4 DEF TypeOK
<1>6. stream' = NoStream /\ reply' = NoReply
  BY DEF NothingWithoutReader, Open
<1>7. NothingWithoutReader' /\ PosFollowsBytes' /\ SeenHoldsFile'
  BY <1>3, <1>4, <1>6 DEF NothingWithoutReader, PosFollowsBytes, SeenHoldsFile, NoStream
<1>8. StreamFollowsShard' /\ RangeIsWhole' /\ EndIsTheEnd'
  BY <1>6 DEF StreamFollowsShard, RangeIsWhole, EndIsTheEnd, NoStream, NoReply
<1> QED
  BY <1>2, <1>5, <1>7, <1>8

LEMMA DropIndexInductive == Inductive /\ DropIndex => Inductive'
<1> SUFFICES ASSUME Inductive, DropIndex PROVE Inductive'
  OBVIOUS
<1> USE DEF Inductive, DropIndex
<1>1. AskNothing /\ asked' \in Asked /\ InsideUntilReplaced'
  BY AskNothingFacts
<1>2. TypeOK'
  BY <1>1 DEF TypeOK, NoStream, Stream, NoReply, Reply
<1>3. NothingWithoutReader' /\ PosFollowsBytes' /\ SeenHoldsFile'
  BY DEF NothingWithoutReader, PosFollowsBytes, SeenHoldsFile, NoStream, Open
<1>4. StreamFollowsShard' /\ RangeIsWhole' /\ EndIsTheEnd'
  BY DEF StreamFollowsShard, RangeIsWhole, EndIsTheEnd, NoStream, NoReply
<1> QED
  BY <1>1, <1>2, <1>3, <1>4

LEMMA ReplaceInductive == Inductive /\ Replace => Inductive'
<1> SUFFICES ASSUME Inductive, Replace PROVE Inductive'
  OBVIOUS
<1> USE DEF Inductive, Replace
<1>1. AskNothing /\ asked' \in Asked /\ InsideUntilReplaced'
  BY AskNothingFacts
<1>2. seen \subseteq seen' /\ seen' \subseteq Contents /\ (Open => file' \in seen')
  BY DEF TypeOK
<1>3. TypeOK'
  BY <1>1, <1>2 DEF TypeOK
<1>4. NothingWithoutReader' /\ PosFollowsBytes' /\ SeenHoldsFile'
  BY <1>2 DEF NothingWithoutReader, PosFollowsBytes, SeenHoldsFile, Open
<1>5. StreamFollowsShard'
  BY <1>2 DEF StreamFollowsShard
<1>6. RangeIsWhole' /\ EndIsTheEnd'
  BY <1>2 DEF RangeIsWhole, EndIsTheEnd
<1> QED
  BY <1>1, <1>3, <1>4, <1>5, <1>6

(* A stream starts, and one that reads without an answer. *)
LEMMA GetReadInductive == Inductive /\ GetRead => Inductive'
<1> SUFFICES ASSUME Inductive, GetRead PROVE Inductive'
  OBVIOUS
<1> USE DEF Inductive, GetRead
<1>1. AskNothing /\ asked' \in Asked /\ InsideUntilReplaced'
  BY AskNothingFacts
<1>2. reader \in Reader /\ reader.size \in Nat
  BY DEF TypeOK, Open, Reader
<1>3. PICK start \in 0..reader.size : stream' = StreamAt(start)
  OBVIOUS
<1>4. TypeOK'
  BY <1>1, <1>2, <1>3 DEF TypeOK, StreamAt, Stream, NoReply, Reply
<1>5. NothingWithoutReader' /\ PosFollowsBytes' /\ SeenHoldsFile'
  BY <1>2, <1>3 DEF NothingWithoutReader, PosFollowsBytes, SeenHoldsFile, StreamAt, Open
<1>6. StreamFollowsShard' /\ RangeIsWhole' /\ EndIsTheEnd'
  BY <1>3 DEF StreamFollowsShard, RangeIsWhole, EndIsTheEnd, StreamAt, NoReply
<1> QED
  BY <1>1, <1>4, <1>5, <1>6

(* A stream that only changes its state keeps its place and its bytes. *)
LEMMA SameBytes ==
  ASSUME Inductive, stream.state = "open", Open,
         NEW st \in {"eof", "failed"}, stream' = [stream EXCEPT !.state = st],
         UNCHANGED <<file, reader, reply, seen>>, asked' \in Asked
  PROVE  /\ TypeOK' /\ NothingWithoutReader' /\ PosFollowsBytes' /\ SeenHoldsFile'
         /\ StreamFollowsShard' /\ RangeIsWhole'
<1> USE DEF Inductive
<1>1. /\ stream' \in Stream /\ stream'.state = st
      /\ stream'.start = stream.start /\ stream'.pos = stream.pos
      /\ stream'.got = stream.got
  BY DEF TypeOK, Stream
<1>2. TypeOK'
  BY <1>1 DEF TypeOK
<1>3. NothingWithoutReader' /\ PosFollowsBytes' /\ SeenHoldsFile'
  BY <1>1 DEF NothingWithoutReader, PosFollowsBytes, SeenHoldsFile, Open
<1>4. StreamFollowsShard' /\ RangeIsWhole'
  BY <1>1 DEF StreamFollowsShard, RangeIsWhole
<1> QED
  BY <1>2, <1>3, <1>4

LEMMA ReadEndInductive == Inductive /\ ReadEnd => Inductive'
<1> SUFFICES ASSUME Inductive, ReadEnd PROVE Inductive'
  OBVIOUS
<1>1. asked' \in Asked /\ InsideUntilReplaced'
  BY AskNothingFacts DEF ReadEnd
<1>2. /\ TypeOK' /\ NothingWithoutReader' /\ PosFollowsBytes' /\ SeenHoldsFile'
      /\ StreamFollowsShard' /\ RangeIsWhole'
  BY <1>1, SameBytes DEF ReadEnd
<1>3. EndIsTheEnd'
  <2> SUFFICES ASSUME reader.adapter = "local"
               PROVE  Len(stream'.got) = reader.size - stream'.start
    BY DEF EndIsTheEnd, ReadEnd
  <2>1. /\ stream \in Stream /\ reader.size \in Nat /\ Open
        /\ stream'.got = stream.got /\ stream'.start = stream.start
    BY NoReaderAssumption DEF Inductive, TypeOK, Stream, Reader, Open, ReadEnd
  <2>2. /\ stream.pos \in Nat /\ stream.start \in Nat /\ Len(stream.got) \in Nat
    BY <2>1 DEF Stream
  <2>3. stream.pos <= reader.size /\ stream.pos = stream.start + Len(stream.got)
    BY <2>1 DEF Inductive, PosFollowsBytes
  <2>4. stream.pos = reader.size
    BY <2>1, <2>2, <2>3 DEF ReadEnd, Remaining, SaturatingSub
  <2> QED
    BY <2>1, <2>2, <2>3, <2>4
<1> QED
  BY <1>1, <1>2, <1>3 DEF Inductive

(* A stream gets an answer: its bytes are the shard's from its offset on.  *)
LEMMA ReadSomeInductive == Inductive /\ ReadSome => Inductive'
<1> SUFFICES ASSUME Inductive, ReadSome PROVE Inductive'
  OBVIOUS
<1>1. /\ reader \in Reader /\ reader.size \in Nat /\ Open
      /\ stream \in Stream /\ stream.state = "open" /\ stream.pos \in Nat
      /\ stream.start \in Nat /\ stream.got \in Seq(Bytes) /\ Len(stream.got) \in Nat
      /\ file \in Contents /\ file \in Seq(Bytes) /\ Len(file) \in Nat
      /\ file \in seen /\ stream.pos = stream.start + Len(stream.got)
  BY ContentsAssumption
  DEF Inductive, TypeOK, Open, Reader, Stream, ReadSome, SeenHoldsFile, PosFollowsBytes
<1>2. PICK n \in Buffers :
        /\ Ask(stream.pos, Want(stream, n))
        /\ \E data \in Answers(reader.adapter, file, stream.pos, Want(stream, n)) :
             stream' = IF data = <<>> THEN [stream EXCEPT !.state = "eof"]
                       ELSE Take(stream, n, data)
  BY DEF ReadSome
<1> DEFINE want == Want(stream, n)
<1>3. n \in Nat \ {0}
  BY ParametersAssumption
<1>4. /\ want \in Nat /\ want # 0 /\ want <= n /\ stream.pos + want <= reader.size
      /\ Remaining(stream) = reader.size - stream.pos
  BY <1>1, <1>3 DEF ReadSome, Want, Remaining, SaturatingSub, Lesser
<1>5. Ask(stream.pos, want)
  BY <1>2
<1>6. PICK data \in Answers(reader.adapter, file, stream.pos, want) :
        stream' = IF data = <<>> THEN [stream EXCEPT !.state = "eof"]
                  ELSE Take(stream, n, data)
  BY <1>2
<1> HIDE DEF want
<1>7. /\ data \in Seq(Bytes) /\ Len(data) \in Nat
      /\ \A i \in 1..Len(data) :
           stream.pos + i <= Len(file) /\ data[i] = file[stream.pos + i]
      /\ reader.adapter = "local" => Len(data) = want
  <2>1. FromOn(data, file, stream.pos) /\ (reader.adapter = "local" => Len(data) = want)
    BY <1>1, <1>4, <1>6, AnswerFacts
  <2> QED
    BY <2>1 DEF FromOn
<1>8. asked' \in Asked /\ (stream.pos + want <= Len(file) => NeverPastEof')
  BY <1>1, <1>4, <1>5, AskFacts DEF Inductive
<1>9. InsideUntilReplaced'
  <2>1. file' = file /\ seen' = seen
    BY DEF ReadSome
  <2>2. seen = {file} => reader.size = Len(file)
    BY <1>1 DEF Inductive, SeenHoldsFile
  <2> QED
    BY <1>1, <1>4, <1>8, <2>1, <2>2 DEF InsideUntilReplaced
<1>10. UNCHANGED <<file, reader, reply, seen>>
  BY DEF ReadSome
<1>11. CASE data = <<>>
  <2>1. stream' = [stream EXCEPT !.state = "eof"]
    BY <1>6, <1>11
  <2>2. /\ TypeOK' /\ NothingWithoutReader' /\ PosFollowsBytes' /\ SeenHoldsFile'
        /\ StreamFollowsShard' /\ RangeIsWhole'
    BY <1>1, <1>8, <1>10, <2>1, SameBytes
  <2>3. reader.adapter # "local"
    BY <1>4, <1>7, <1>11
  <2>4. EndIsTheEnd'
    BY <1>10, <2>3 DEF EndIsTheEnd
  <2> QED
    BY <1>9, <2>2, <2>4 DEF Inductive
<1>12. CASE data # <<>>
  <2> DEFINE k == Lesser(Len(data), n)
  <2>1. stream' = Take(stream, n, data)
    BY <1>6, <1>12
  <2>2. n \in Nat /\ data \in Seq(Bytes) /\ stream \in Stream
    BY <1>1, <1>3, <1>7
  <2>3. k \in Nat /\ k <= Len(data) /\ k <= n
    BY <2>2, TakeFacts
  <2>4. /\ stream' \in Stream
        /\ stream'.state = "open" /\ stream'.start = stream.start
    BY <1>1, <2>1, <2>2, TakeFacts
  <2>5. stream'.pos = stream.pos + k /\ Len(stream'.got) = Len(stream.got) + k
    BY <2>1, <2>2, TakeFacts
  <2> HIDE DEF k
  <2>6. TypeOK'
    BY <1>8, <1>10, <2>4 DEF Inductive, TypeOK
  <2>7. NothingWithoutReader' /\ SeenHoldsFile'
    BY <1>1, <1>10, <2>4
    DEF Inductive, NothingWithoutReader, SeenHoldsFile, Open
  <2>8. PosFollowsBytes'
    <3>1. stream'.pos = stream'.start + Len(stream'.got)
      BY <1>1, <2>3, <2>4, <2>5
    <3>2. Open' /\ stream'.start <= reader'.size
      BY <1>1, <1>10, <2>4 DEF Inductive, PosFollowsBytes, Open
    <3>3. reader'.adapter = "local" => stream'.pos <= reader'.size
      BY <1>1, <1>4, <1>7, <1>10, <2>3, <2>5
    <3> QED
      BY <3>1, <3>2, <3>3 DEF PosFollowsBytes
  <2>9. StreamFollowsShard'
    <3> SUFFICES ASSUME NEW i \in 1..Len(stream'.got)
                 PROVE  \E c \in seen : /\ stream.start + i <= Len(c)
                                        /\ stream'.got[i] = c[stream.start + i]
      BY <1>10, <2>4 DEF StreamFollowsShard
    <3>1. i \in Nat /\ i >= 1
      BY <1>1, <2>3, <2>5
    <3>2. CASE i <= Len(stream.got)
      <4>1. stream'.got[i] = stream.got[i]
        BY <2>1, <2>2, <3>2, TakeBytes
      <4>2. i \in 1..Len(stream.got)
        BY <1>1, <3>1, <3>2
      <4> QED
        BY <4>1, <4>2 DEF Inductive, StreamFollowsShard
    <3>3. CASE i > Len(stream.got)
      <4> DEFINE j == i - Len(stream.got)
      <4>1. j \in 1..Len(data) /\ stream'.got[i] = data[j]
        BY <2>1, <2>2, <3>3, TakeBytes
      <4>2. stream.pos + j = stream.start + i
        BY <1>1, <3>1
      <4> HIDE DEF j
      <4>3. stream.pos + j <= Len(file) /\ data[j] = file[stream.pos + j]
        BY <1>7, <4>1
      <4>4. stream.start + i <= Len(file) /\ stream'.got[i] = file[stream.start + i]
        BY <4>1, <4>2, <4>3
      <4> QED
        BY <1>1, <4>4
    <3> QED
      BY <1>1, <3>1, <3>2, <3>3
  <2>10. RangeIsWhole' /\ EndIsTheEnd'
    BY <1>10, <2>4 DEF Inductive, RangeIsWhole, EndIsTheEnd
  <2> QED
    BY <1>9, <2>6, <2>7, <2>8, <2>9, <2>10 DEF Inductive
<1> QED
  BY <1>11, <1>12

LEMMA ReadFailsInductive == Inductive /\ ReadFails => Inductive'
<1> SUFFICES ASSUME Inductive, ReadFails PROVE Inductive'
  OBVIOUS
<1>1. /\ reader.size \in Nat /\ stream.pos \in Nat /\ Len(file) \in Nat /\ TypeOK
      /\ Open /\ stream.state = "open"
  BY ContentsAssumption DEF Inductive, TypeOK, Open, Reader, Stream, ReadFails
<1>2. PICK n \in Buffers : Ask(stream.pos, Want(stream, n))
  BY DEF ReadFails
<1>3. Want(stream, n) \in Nat /\ stream.pos + Want(stream, n) <= reader.size
  BY <1>1, ParametersAssumption DEF ReadFails, Want, Remaining, SaturatingSub, Lesser
<1>4. asked' \in Asked /\ (stream.pos + Want(stream, n) <= Len(file) => NeverPastEof')
  BY <1>1, <1>2, <1>3, AskFacts
<1>5. InsideUntilReplaced'
  <2>1. file' = file /\ seen' = seen
    BY DEF ReadFails
  <2>2. seen = {file} => reader.size = Len(file)
    BY <1>1 DEF Inductive, SeenHoldsFile
  <2> QED
    BY <1>1, <1>3, <1>4, <2>1, <2>2 DEF InsideUntilReplaced
<1>6. /\ TypeOK' /\ NothingWithoutReader' /\ PosFollowsBytes' /\ SeenHoldsFile'
      /\ StreamFollowsShard' /\ RangeIsWhole'
  BY <1>1, <1>4, SameBytes DEF ReadFails
<1>7. EndIsTheEnd'
  BY DEF Inductive, TypeOK, Stream, EndIsTheEnd, ReadFails
<1> QED
  BY <1>5, <1>6, <1>7 DEF Inductive

(* A range is accepted only in its full length. *)
LEMMA GetBytesInductive == Inductive /\ GetBytes => Inductive'
<1> SUFFICES ASSUME Inductive, GetBytes PROVE Inductive'
  OBVIOUS
<1>1. /\ reader.size \in Nat /\ Open /\ TypeOK
      /\ file \in seen /\ file \in Seq(Bytes) /\ Len(file) \in Nat
  BY ContentsAssumption DEF Inductive, TypeOK, Open, Reader, SeenHoldsFile, GetBytes
<1>2. PICK at \in 0..reader.size : \E len \in 0..(reader.size - at) :
       /\ Ask(at, len)
       /\ \/ \E data \in Answers(reader.adapter, file, at, len) :
               /\ Accepts(data, len)
               /\ reply' = [ok |-> TRUE, at |-> at, len |-> len, data |-> data]
          \/ reply' = [ok |-> FALSE, at |-> at, len |-> len, data |-> <<>>]
  BY DEF GetBytes
<1> DEFINE Lens == 0..(reader.size - at)
<1>3. PICK len \in Lens :
       /\ Ask(at, len)
       /\ \/ \E data \in Answers(reader.adapter, file, at, len) :
               /\ Accepts(data, len)
               /\ reply' = [ok |-> TRUE, at |-> at, len |-> len, data |-> data]
          \/ reply' = [ok |-> FALSE, at |-> at, len |-> len, data |-> <<>>]
  BY <1>2
<1>4. at \in Nat /\ len \in Nat /\ at + len <= reader.size
  BY <1>1
<1>5. asked' \in Asked /\ (at + len <= Len(file) => NeverPastEof')
  BY <1>1, <1>3, <1>4, AskFacts
<1>6. InsideUntilReplaced'
  <2>1. file' = file /\ seen' = seen
    BY DEF GetBytes
  <2>2. seen = {file} => reader.size = Len(file)
    BY <1>1 DEF Inductive, SeenHoldsFile
  <2> QED
    BY <1>1, <1>4, <1>5, <2>1, <2>2 DEF InsideUntilReplaced
<1>7. /\ stream' = NoStream /\ UNCHANGED <<file, reader, seen>>
  BY DEF GetBytes
<1>8. reply' \in Reply /\ RangeIsWhole'
  <2>1. CASE \E data \in Answers(reader.adapter, file, at, len) :
               /\ Accepts(data, len)
               /\ reply' = [ok |-> TRUE, at |-> at, len |-> len, data |-> data]
    <3>1. PICK data \in Answers(reader.adapter, file, at, len) :
               /\ Accepts(data, len)
               /\ reply' = [ok |-> TRUE, at |-> at, len |-> len, data |-> data]
      BY <2>1
    <3>2. /\ data \in Seq(Bytes) /\ Len(data) = len
          /\ \A i \in 1..Len(data) : at + i <= Len(file) /\ data[i] = file[at + i]
      <4>1. FromOn(data, file, at)
        BY <1>1, <1>4, <3>1, AnswerFacts
      <4> QED
        BY <3>1, <4>1 DEF Accepts, FromOn
    <3> QED
      BY <1>1, <1>4, <1>7, <3>1, <3>2 DEF Reply, RangeIsWhole
  <2>2. CASE reply' = [ok |-> FALSE, at |-> at, len |-> len, data |-> <<>>]
    BY <1>4, <2>2 DEF Reply, RangeIsWhole
  <2> QED
    BY <1>3, <2>1, <2>2
<1>9. TypeOK'
  BY <1>1, <1>5, <1>7, <1>8 DEF TypeOK, NoStream, Stream
<1>10. NothingWithoutReader' /\ PosFollowsBytes' /\ SeenHoldsFile'
  BY <1>1, <1>7
  DEF Inductive, NothingWithoutReader, PosFollowsBytes, SeenHoldsFile, NoStream, Open
<1>11. StreamFollowsShard' /\ EndIsTheEnd'
  BY <1>7 DEF StreamFollowsShard, EndIsTheEnd, NoStream
<1> QED
  BY <1>6, <1>8, <1>9, <1>10, <1>11 DEF Inductive
-----------------------------------------------------------------------------
THEOREM InductiveInvariant == Spec => []Inductive
<1>1. Inductive /\ [Next]_vars => Inductive'
  <2> SUFFICES ASSUME Inductive, [Next]_vars PROVE Inductive'
    OBVIOUS
  <2>1. CASE OpenShard
    BY <2>1, OpenShardInductive
  <2>2. CASE DropIndex
    BY <2>2, DropIndexInductive
  <2>3. CASE Replace
    BY <2>3, ReplaceInductive
  <2>4. CASE GetRead
    BY <2>4, GetReadInductive
  <2>5. CASE ReadEnd
    BY <2>5, ReadEndInductive
  <2>6. CASE ReadSome
    BY <2>6, ReadSomeInductive
  <2>7. CASE ReadFails
    BY <2>7, ReadFailsInductive
  <2>8. CASE GetBytes
    BY <2>8, GetBytesInductive
  <2>9. CASE UNCHANGED vars
    BY <2>9
    DEF vars, Inductive, TypeOK, NothingWithoutReader, PosFollowsBytes, SeenHoldsFile,
        StreamFollowsShard, RangeIsWhole, EndIsTheEnd, InsideUntilReplaced,
        NeverPastEof, Open
  <2> QED
    BY <2>1, <2>2, <2>3, <2>4, <2>5, <2>6, <2>7, <2>8, <2>9 DEF Next
<1> QED
  BY <1>1, InitInductive, PTL DEF Spec

(* Every variable keeps its type. *)
THEOREM TypeCorrect == Spec => []TypeOK
<1>1. Inductive => TypeOK
  BY DEF Inductive
<1> QED
  BY <1>1, InductiveInvariant, PTL

(* A stream yields the bytes of the shard from its start on, whatever      *)
(* lengths the adapter answers with.                                       *)
THEOREM StreamsFollowShards == Spec => []StreamFollowsShard
<1>1. Inductive => StreamFollowsShard
  BY DEF Inductive
<1> QED
  BY <1>1, InductiveInvariant, PTL

(* get_bytes yields the whole range, from one content, or an error. *)
THEOREM RangesAreWhole == Spec => []RangeIsWhole
<1>1. Inductive => RangeIsWhole
  BY DEF Inductive
<1> QED
  BY <1>1, InductiveInvariant, PTL

(* With the local adapter no stream ends early. *)
THEOREM EndsAreEnds == Spec => []EndIsTheEnd
<1>1. Inductive => EndIsTheEnd
  BY DEF Inductive
<1> QED
  BY <1>1, InductiveInvariant, PTL

(* Nothing past the end of a shard is asked for until it is replaced. *)
THEOREM RequestsAreInside == Spec => []InsideUntilReplaced
<1>1. Inductive => InsideUntilReplaced
  BY DEF Inductive
<1> QED
  BY <1>1, InductiveInvariant, PTL
-----------------------------------------------------------------------------
(* NativeAdapter. *)

(* The mutex is held where the map is used. *)
HolderByPlace == \A t \in Threads : holder = t <=> pc[t] = "build"

(* The map has one client per key, made for it, and its clients are        *)
(* numbered in the order they were built.                                  *)
MapCoherent ==
  \A s \in stores :
    /\ s.host = s.key[2]
    /\ s.cleartext <=> s.key[1] = "http"
    /\ s.id < built
    /\ \A r \in stores : r.key = s.key => r = s

(* A thread's client is in the map, under the key of its call. *)
ClientsKept ==
  \A t \in Threads : \A s \in store[t] : s \in stores /\ s.key = KeyOf(call[t])

(* A thread that waits to ask for a list has a glob with a wildcard, and   *)
(* what it finds is the listing; the others have what glob_split returned. *)
GlobsListed ==
  \A t \in Threads : call[t].op = "list" =>
    /\ pc[t] # "idle" => IsGlob(call[t].path)
    /\ answer[t].kind = "found" =>
         /\ IsGlob(call[t].path)
         /\ answer[t].paths = Listing(call[t].host, call[t].path)
    /\ answer[t].kind = "pattern" =>
         /\ IsGlob(call[t].path) => ~Parses(call[t].path)
         /\ answer[t].paths = {Prefix(call[t].path)}

NativeInductive == NativeTypeOK /\ HolderByPlace /\ MapCoherent /\ ClientsKept /\ GlobsListed
-----------------------------------------------------------------------------
(* Globs: where the segments before the first wildcard are literal,        *)
(* whatever matches begins with them.                                      *)

LEMMA PathFacts ==
  ASSUME NEW p \in Paths
  PROVE  /\ Len(p) \in Nat
         /\ \A i \in 1..Len(p) : p[i].text \in Names
         /\ Len(p) > 0 => <<>> \notin p[Len(p)].matches
<1> DEFINE R == [text : Names, wild : BOOLEAN, valid : BOOLEAN, matches : SUBSET Seq(Names)]
<1>1. p \in Seq(R)
  BY NativeAssumption
<1>2. \A s \in R : s.text \in Names
  OBVIOUS
<1>3. Len(p) > 0 => p # <<>>
  OBVIOUS
<1>4. p # <<>> => <<>> \notin p[Len(p)].matches
  BY NativeAssumption
<1> HIDE DEF R
<1> QED
  BY <1>1, <1>2, <1>3, <1>4

LEMMA FirstWildFacts ==
  ASSUME NEW p \in Paths, IsGlob(p)
  PROVE  FirstWild(p) \in 1..Len(p)
<1> DEFINE T == {i \in 1..Len(p) : p[i].wild}
<1>1. Len(p) \in Nat
  BY PathFacts
<1>2. T \subseteq Nat /\ T # {}
  BY <1>1 DEF IsGlob
<1>3. PICK m \in T : \A n \in T : m <= n
  <2> HIDE DEF T
  <2> QED
    BY <1>2, LeastElement
<1>4. m \in 1..Len(p) /\ p[m].wild /\ \A j \in 1..(m - 1) : ~p[j].wild
  BY <1>1, <1>3
<1> QED
  BY <1>4 DEF FirstWild

LEMMA FrontFacts ==
  ASSUME NEW p \in Paths
  PROVE  /\ Front(p) \in 0..Len(p)
         /\ IsGlob(p) => Front(p) < Len(p)
         /\ Prefix(p) \in Seq(Names) /\ Len(Prefix(p)) = Front(p)
         /\ \A i \in 1..Front(p) : Prefix(p)[i] = p[i].text
<1>1. Len(p) \in Nat /\ \A i \in 1..Len(p) : p[i].text \in Names
  BY PathFacts
<1>2. Front(p) \in 0..Len(p) /\ (IsGlob(p) => Front(p) < Len(p))
  BY <1>1, FirstWildFacts DEF Front
<1>3. Prefix(p) = [i \in 1..Front(p) |-> p[i].text]
  BY DEF Prefix, Texts
<1> QED
  BY <1>1, <1>2, <1>3

(* A match is cut by the literal segments one name at a time. *)
LEMMA FrontMatches ==
  ASSUME NEW p \in Paths, IsGlob(p), Understood(p), NEW k \in Seq(Names), Matches(p, k)
  PROVE  /\ Front(p) < Len(k)
         /\ \A i \in 1..Front(p) : k[i] = p[i].text
<1>1. PICK at \in Cuts(p, k) :
        /\ at[1] = 0
        /\ at[Len(p) + 1] = Len(k)
        /\ \A i \in 1..Len(p) : /\ at[i] <= at[i + 1]
                               /\ SubSeq(k, at[i] + 1, at[i + 1]) \in p[i].matches
  BY DEF Matches
<1>2. /\ Len(p) \in Nat /\ Len(k) \in Nat
      /\ Front(p) \in 0..Len(p) /\ Front(p) < Len(p)
      /\ \A i \in 1..(Len(p) + 1) : at[i] \in 0..Len(k)
  BY PathFacts, FrontFacts DEF Cuts
<1> DEFINE S == {n \in Nat : n <= Front(p) =>
                   at[n + 1] = n /\ (n > 0 => k[n] = p[n].text)}
<1>3. 0 \in S
  BY <1>1
<1>4. ASSUME NEW m \in 0..(Front(p) - 1), m \in S PROVE m + 1 \in S
  <2> DEFINE e == at[m + 2]
             s == SubSeq(k, m + 1, e)
  <2>1. at[m + 1] = m /\ m + 1 \in 1..Front(p) /\ m + 1 \in 1..Len(p)
    BY <1>2, <1>4
  <2>2. m \in Nat /\ e \in Nat /\ e <= Len(k)
    BY <1>2, <2>1
  <2>3. SubSeq(k, at[m + 1] + 1, at[(m + 1) + 1]) \in p[m + 1].matches
    BY <1>1, <2>1
  <2>4. p[m + 1].matches = {<<p[m + 1].text>>}
    BY <2>1 DEF Understood
  <2>5. (m + 1) + 1 = m + 2
    BY <2>2
  <2> DEFINE x == p[m + 1].text
  <2>6. s = <<x>>
    BY <2>1, <2>3, <2>4, <2>5
  <2>7. Len(s) = 1 /\ s[1] = x
    <3> HIDE DEF s, x
    <3> QED
      BY <2>6
  <2>8. /\ Len(s) = IF m + 1 <= e THEN e - (m + 1) + 1 ELSE 0
        /\ \A i \in 1..(e - (m + 1) + 1) : s[i] = k[(m + 1) + i - 1]
    <3> HIDE DEF e
    <3>1. \A i \in (m + 1)..e : k[i] \in Names
      BY <2>2
    <3> QED
      BY <2>2, <3>1, SubSeqProperties
  <2> HIDE DEF e, s, x
  <2>9. e = m + 1
    <3>0. m + 1 <= e \/ Len(s) = 0
      BY <2>8
    <3>1. m + 1 <= e
      BY <2>7, <3>0
    <3>2. e - (m + 1) + 1 = 1
      BY <2>2, <2>7, <2>8, <3>1
    <3> QED
      BY <2>2, <3>2
  <2>10. k[m + 1] = p[m + 1].text
    <3>1. 1 \in 1..(e - (m + 1) + 1) /\ (m + 1) + 1 - 1 = m + 1
      BY <2>2, <2>9
    <3>2. s[1] = k[(m + 1) + 1 - 1]
      BY <2>8, <3>1
    <3> QED
      BY <2>7, <3>1, <3>2 DEF x
  <2>11. at[(m + 1) + 1] = m + 1
    BY <2>5, <2>9 DEF e
  <2> QED
    BY <2>2, <2>10, <2>11
<1>5. 0..Front(p) \subseteq S
  <2>1. Front(p) \in Nat
    BY <1>2
  <2> HIDE DEF S
  <2> QED
    BY <1>3, <1>4, <2>1, Induction
<1>6. Front(p) < Len(k)
  <2> DEFINE T == {n \in Nat : Front(p) + n < Len(p) => Front(p) <= at[Front(p) + n + 1]}
             last == Len(p) - 1 - Front(p)
  <2>1. 0 \in T
    <3>1. Front(p) \in S
      BY <1>2, <1>5
    <3>2. Front(p) + 0 + 1 = Front(p) + 1
      BY <1>2
    <3> QED
      BY <1>2, <3>1, <3>2
  <2>2. ASSUME NEW m \in 0..(last - 1), m \in T PROVE m + 1 \in T
    <3> DEFINE i == Front(p) + m + 1
    <3>1. /\ i \in 1..Len(p) /\ i + 1 \in 1..(Len(p) + 1)
          /\ Front(p) + (m + 1) + 1 = i + 1 /\ Front(p) + m < Len(p)
      BY <1>2
    <3>2. at[i] <= at[i + 1] /\ at[i] \in Nat /\ at[i + 1] \in Nat
      BY <1>1, <1>2, <3>1
    <3>3. Front(p) <= at[i]
      BY <2>2, <3>1
    <3> HIDE DEF i
    <3>4. Front(p) <= at[Front(p) + (m + 1) + 1]
      BY <1>2, <3>1, <3>2, <3>3
    <3> QED
      BY <3>4
  <2>3. last \in Nat
    BY <1>2
  <2>4. last \in T
    <3> HIDE DEF T, last
    <3>1. 0..last \subseteq T
      BY <2>1, <2>2, <2>3, Induction
    <3> QED
      BY <2>3, <3>1
  <2>5. Front(p) <= at[Len(p)]
    <3>1. Front(p) + last < Len(p) /\ Front(p) + last + 1 = Len(p)
      BY <1>2
    <3> HIDE DEF last
    <3> QED
      BY <2>4, <3>1
  <2>6. SubSeq(k, at[Len(p)] + 1, Len(k)) # <<>>
    <3>1. Len(p) \in 1..Len(p)
      BY <1>2
    <3>2. SubSeq(k, at[Len(p)] + 1, Len(k)) \in p[Len(p)].matches
      BY <1>1, <3>1
    <3>3. <<>> \notin p[Len(p)].matches
      <4>1. Len(p) > 0
        BY <1>2
      <4> QED
        BY <4>1, PathFacts
    <3> QED
      BY <3>2, <3>3, Zenon
  <2>7. at[Len(p)] < Len(k)
    <3>1. at[Len(p)] \in Nat
      BY <1>2
    <3>2. Len(k) < at[Len(p)] + 1 => SubSeq(k, at[Len(p)] + 1, Len(k)) = <<>>
      BY <1>2, <3>1, SubSeqEmpty
    <3> QED
      BY <1>2, <2>6, <3>1, <3>2
  <2> QED
    BY <1>2, <2>5, <2>7
<1>7. ASSUME NEW i \in 1..Front(p) PROVE k[i] = p[i].text
  <2>1. i \in S /\ i > 0 /\ i <= Front(p)
    BY <1>2, <1>5
  <2> QED
    BY <2>1
<1> QED
  BY <1>6, <1>7

(* With names that requests leave alone, the prefix loses no match. *)
LEMMA ListingIsComplete ==
  ASSUME \A n \in Names : Sent[n] = n,
         NEW h \in Hosts, NEW p \in Paths, IsGlob(p), Understood(p)
  PROVE  Listing(h, p) = {k \in Objects[h] : Matches(p, k)}
<1> DEFINE d == Requested(Prefix(p))
<1>1. /\ Len(Prefix(p)) = Front(p) /\ Front(p) \in Nat
      /\ \A i \in 1..Front(p) : Prefix(p)[i] = p[i].text /\ p[i].text \in Names
  BY PathFacts, FrontFacts
<1>2. d = [i \in 1..Front(p) |-> Sent[Prefix(p)[i]]]
  BY <1>1 DEF Requested
<1>3. Len(d) = Front(p) /\ \A i \in 1..Front(p) : d[i] = p[i].text
  <2> HIDE DEF d
  <2> QED
    BY <1>1, <1>2
<1> HIDE DEF d
<1>4. ASSUME NEW k \in Objects[h], Matches(p, k) PROVE Below(d, k)
  <2>1. k \in Seq(Names)
    BY NativeAssumption
  <2> QED
    BY <1>1, <1>3, <1>4, <2>1, FrontMatches DEF Below
<1> QED
  BY <1>4 DEF Listing, d
-----------------------------------------------------------------------------
LEMMA NativeInitInductive == NativeInit => NativeInductive
<1> SUFFICES ASSUME NativeInit PROVE NativeInductive
  OBVIOUS
<1>1. NativeTypeOK
  BY NativeAssumption DEF NativeInit, NativeTypeOK, Nothing
<1>2. HolderByPlace
  BY NativeAssumption DEF NativeInit, HolderByPlace
<1>3. MapCoherent /\ ClientsKept
  BY DEF NativeInit, MapCoherent, ClientsKept
<1>4. GlobsListed
  BY DEF NativeInit, GlobsListed, Nothing
<1> QED
  BY <1>1, <1>2, <1>3, <1>4 DEF NativeInductive

LEMMA ListingType ==
  ASSUME NEW h \in Hosts, NEW p
  PROVE  Listing(h, p) \in SUBSET Seq(Names) /\ HeadOf(h, p) \in SUBSET Seq(Names)
BY NativeAssumption DEF Listing, HeadOf, Named

LEMMA NewStoreFacts ==
  ASSUME NativeTypeOK, NEW c \in Calls
  PROVE  /\ NewStore(c) \in Stores
         /\ NewStore(c).key = KeyOf(c) /\ KeyOf(c) = <<c.scheme, c.host>>
         /\ NewStore(c).host = c.host /\ NewStore(c).id = built
         /\ NewStore(c).cleartext <=> c.scheme = "http"
<1>1. c.scheme \in Schemes /\ c.host \in Hosts
  BY DEF Calls
<1> QED
  BY <1>1 DEF NativeTypeOK, NewStore, KeyOf, Stores, Keys

(* One lemma per action. *)
LEMMA BeginStep ==
  ASSUME NativeInductive, NEW t \in Threads, Begin(t)
  PROVE  NativeInductive'
<1>0. NativeTypeOK
  BY DEF NativeInductive
<1>1. PICK c \in Calls :
        /\ c.op = "size" => ~IsGlob(c.path)
        /\ call' = [call EXCEPT ![t] = c]
        /\ \/ /\ c.op = "list" => (IsGlob(c.path) => ~Parses(c.path))
              /\ Return(t, [kind |-> "pattern", paths |-> {Prefix(c.path)}])
           \/ Return(t, Error)
           \/ /\ c.op = "list" => IsGlob(c.path)
              /\ Goto(t, "lock") /\ answer' = [answer EXCEPT ![t] = Nothing]
  BY DEF Begin
<1>2. /\ pc[t] = "idle" /\ left[t] > 0
      /\ store' = [store EXCEPT ![t] = {}]
      /\ left' = [left EXCEPT ![t] = @ - 1]
      /\ UNCHANGED <<stores, holder, built>>
  BY DEF Begin
<1> DEFINE pattern == [kind |-> "pattern", paths |-> {Prefix(c.path)}]
<1>3. PICK r \in {pattern, Error, Nothing},
           l \in {"idle", "lock"} :
        /\ answer' = [answer EXCEPT ![t] = r]
        /\ pc' = [pc EXCEPT ![t] = l]
        /\ l = "lock" /\ c.op = "list" => IsGlob(c.path)
        /\ r = pattern /\ c.op = "list" => (IsGlob(c.path) => ~Parses(c.path))
  <2>1. Error # pattern /\ Nothing # pattern
    BY DEF Error, Nothing
  <2> QED
    BY <1>1, <2>1 DEF Return, Goto
<1>4. /\ r.kind # "found"
      /\ r.kind = "pattern" => r = pattern /\ r.paths = {Prefix(c.path)}
      /\ r \in [kind : {"none", "found", "error", "pattern"}, paths : SUBSET Seq(Names)]
  <2>1. c.path \in Paths
    BY DEF Calls
  <2>2. Prefix(c.path) \in Seq(Names)
    BY <2>1, FrontFacts
  <2> QED
    BY <2>2 DEF Error, Nothing
<1> HIDE DEF pattern
<1>5. NativeTypeOK'
  BY <1>0, <1>1, <1>2, <1>3, <1>4, NativeAssumption DEF NativeTypeOK
<1>6. HolderByPlace'
  BY <1>0, <1>2, <1>3 DEF NativeInductive, HolderByPlace, NativeTypeOK
<1>7. MapCoherent'
  BY <1>2 DEF NativeInductive, MapCoherent
<1>8. ClientsKept'
  BY <1>0, <1>1, <1>2 DEF NativeInductive, ClientsKept, NativeTypeOK, KeyOf
<1>9. GlobsListed'
  BY <1>0, <1>1, <1>3, <1>4 DEF NativeInductive, GlobsListed, NativeTypeOK
<1> QED
  BY <1>5, <1>6, <1>7, <1>8, <1>9 DEF NativeInductive

LEMMA LockStep ==
  ASSUME NativeInductive, NEW t \in Threads, Lock(t)
  PROVE  NativeInductive'
<1>1. NativeTypeOK'
  BY DEF NativeInductive, NativeTypeOK, Lock, Goto
<1>2. HolderByPlace'
  BY NativeAssumption DEF NativeInductive, NativeTypeOK, HolderByPlace, Lock, Goto
<1>3. MapCoherent'
  BY DEF NativeInductive, MapCoherent, Lock
<1>4. ClientsKept'
  BY DEF NativeInductive, ClientsKept, Lock, KeyOf
<1>5. GlobsListed'
  BY DEF NativeInductive, NativeTypeOK, GlobsListed, Lock, Goto
<1> QED
  BY <1>1, <1>2, <1>3, <1>4, <1>5 DEF NativeInductive

LEMMA StoreForStep ==
  ASSUME NativeInductive, NEW t \in Threads, StoreFor(t)
  PROVE  NativeInductive'
<1> DEFINE c == call[t]
           known == {s \in stores : s.key = KeyOf(c)}
<1>0. NativeTypeOK /\ c \in Calls
  BY DEF NativeInductive, NativeTypeOK
<1>1. /\ pc[t] = "build" /\ holder' = NoThread
      /\ UNCHANGED <<call, left>>
  BY DEF StoreFor, Unlock
<1>2. HolderByPlace'
  <2>1. pc'[t] # "build" /\ \A u \in Threads \ {t} : pc'[u] = pc[u]
    BY <1>0 DEF NativeTypeOK, StoreFor, Return, Goto
  <2> QED
    BY <1>1, <2>1, NativeAssumption DEF NativeInductive, HolderByPlace
<1>3. CASE \E s \in known : /\ store' = [store EXCEPT ![t] = {s}]
                            /\ pc' = [pc EXCEPT ![t] = "ask"]
                            /\ UNCHANGED <<stores, answer, built>>
  <2>1. PICK s \in known : store' = [store EXCEPT ![t] = {s}]
    BY <1>3
  <2>2. s \in stores /\ s.key = KeyOf(c)
    BY <2>1
  <2>3. NativeTypeOK'
    BY <1>0, <1>1, <1>3, <2>1, <2>2 DEF NativeTypeOK
  <2>4. MapCoherent'
    BY <1>3 DEF NativeInductive, MapCoherent
  <2>5. ClientsKept'
    BY <1>0, <1>1, <1>3, <2>1, <2>2 DEF NativeInductive, ClientsKept, NativeTypeOK, KeyOf
  <2>6. GlobsListed'
    BY <1>0, <1>1, <1>3 DEF NativeInductive, GlobsListed, NativeTypeOK
  <2> QED
    BY <1>2, <2>3, <2>4, <2>5, <2>6 DEF NativeInductive
<1>4. CASE /\ known = {}
           /\ store' = [store EXCEPT ![t] = {NewStore(c)}]
           /\ pc' = [pc EXCEPT ![t] = "ask"]
           /\ stores' = stores \cup {NewStore(c)}
           /\ built' = built + 1
           /\ UNCHANGED answer
  <2> DEFINE n == NewStore(c)
  <2>1. /\ n \in Stores /\ n.key = KeyOf(c) /\ KeyOf(c) = <<c.scheme, c.host>>
        /\ n.host = c.host /\ n.id = built /\ (n.cleartext <=> c.scheme = "http")
    BY <1>0, NewStoreFacts
  <2>2. \A s \in stores : s.key # n.key
    BY <1>4, <2>1
  <2> HIDE DEF n
  <2>3. /\ stores' = stores \cup {n} /\ store' = [store EXCEPT ![t] = {n}]
        /\ built' = built + 1 /\ built \in Nat
    BY <1>0, <1>4 DEF n, NativeTypeOK
  <2>4. NativeTypeOK'
    BY <1>0, <1>1, <1>4, <2>1, <2>3 DEF NativeTypeOK
  <2>5. MapCoherent'
    <3>1. \A s \in stores : s.id \in Nat
      BY <1>0 DEF NativeTypeOK, Stores
    <3> QED
      BY <2>1, <2>2, <2>3, <3>1 DEF NativeInductive, MapCoherent
  <2>6. ClientsKept'
    BY <1>0, <1>1, <2>1, <2>3 DEF NativeInductive, ClientsKept, NativeTypeOK, KeyOf
  <2>7. GlobsListed'
    BY <1>0, <1>1, <1>4 DEF NativeInductive, GlobsListed, NativeTypeOK
  <2> QED
    BY <1>2, <2>4, <2>5, <2>6, <2>7 DEF NativeInductive
<1>5. CASE Return(t, Error) /\ UNCHANGED <<stores, store, built>>
  <2>1. NativeTypeOK'
    BY <1>0, <1>1, <1>5, NativeAssumption DEF NativeTypeOK, Return, Goto, Error
  <2>2. MapCoherent'
    BY <1>5 DEF NativeInductive, MapCoherent
  <2>3. ClientsKept'
    BY <1>1, <1>5 DEF NativeInductive, ClientsKept, KeyOf
  <2>4. GlobsListed'
    BY <1>0, <1>1, <1>5 DEF NativeInductive, GlobsListed, NativeTypeOK, Return, Goto, Error
  <2> QED
    BY <1>2, <2>1, <2>2, <2>3, <2>4 DEF NativeInductive
<1> QED
  BY <1>3, <1>4, <1>5 DEF StoreFor, Remember, Goto

LEMMA RequestStep ==
  ASSUME NativeInductive, NEW t \in Threads, Request(t)
  PROVE  NativeInductive'
<1> DEFINE c == call[t]
           paths == IF c.op = "list" THEN Listing(c.host, c.path) ELSE HeadOf(c.host, c.path)
<1>0. NativeTypeOK /\ c \in Calls
  BY DEF NativeInductive, NativeTypeOK
<1>1. pc[t] = "ask" /\ UNCHANGED <<stores, holder, call, store, left, built>>
  BY DEF Request
<1>2. PICK r \in {Error, [kind |-> "found", paths |-> paths]} :
        answer' = [answer EXCEPT ![t] = r] /\ pc' = [pc EXCEPT ![t] = "idle"]
  BY DEF Request, Return, Goto
<1>3. paths \in SUBSET Seq(Names)
  BY <1>0, ListingType DEF Calls
<1> HIDE DEF paths
<1>4. /\ r \in [kind : {"none", "found", "error", "pattern"}, paths : SUBSET Seq(Names)]
      /\ r.kind = "found" => r.paths = paths
  BY <1>3 DEF Error
<1>5. NativeTypeOK'
  BY <1>0, <1>1, <1>2, <1>4 DEF NativeTypeOK
<1>6. HolderByPlace'
  BY <1>0, <1>1, <1>2 DEF NativeInductive, HolderByPlace, NativeTypeOK
<1>7. MapCoherent' /\ ClientsKept'
  BY <1>1 DEF NativeInductive, MapCoherent, ClientsKept, KeyOf
<1>8. GlobsListed'
  <2>1. c.op = "list" => IsGlob(c.path) /\ paths = Listing(c.host, c.path)
    BY <1>1 DEF NativeInductive, GlobsListed, paths
  <2>2. r.kind # "pattern"
    BY DEF Error
  <2> QED
    BY <1>0, <1>1, <1>2, <1>4, <2>1, <2>2 DEF NativeInductive, GlobsListed, NativeTypeOK
<1> QED
  BY <1>5, <1>6, <1>7, <1>8 DEF NativeInductive
-----------------------------------------------------------------------------
(* Every reachable state satisfies the inductive invariant. *)
THEOREM NativeInvariance == NativeSpec => []NativeInductive
<1>1. ASSUME NativeInductive, UNCHANGED nativeVars PROVE NativeInductive'
  BY <1>1 DEF nativeVars, NativeInductive, NativeTypeOK, HolderByPlace, MapCoherent, ClientsKept,
              GlobsListed, KeyOf
<1>2. NativeInductive /\ [NativeNext]_nativeVars => NativeInductive'
  BY <1>1, BeginStep, LockStep, StoreForStep, RequestStep DEF NativeNext, Step, Terminating
<1> QED
  BY <1>2, NativeInitInductive, PTL DEF NativeSpec

(* The map of clients and the calls stay well typed. *)
THEOREM NativeTypeCorrect == NativeSpec => []NativeTypeOK
<1>1. NativeInductive => NativeTypeOK
  BY DEF NativeInductive
<1> QED
  BY <1>1, NativeInvariance, PTL

(* Requests go to the host of their URL, in the clear only when asked to. *)
THEOREM RequestsFit == NativeSpec => []StoresFitUrls
<1>1. ASSUME NativeInductive PROVE StoresFitUrls
  <2> SUFFICES ASSUME NEW t \in Threads, NEW s \in store[t]
               PROVE  s.host = call[t].host /\ (s.cleartext => call[t].scheme = "http")
    BY DEF StoresFitUrls
  <2>1. s \in stores /\ s.key = <<call[t].scheme, call[t].host>>
    BY <1>1 DEF NativeInductive, ClientsKept, KeyOf
  <2> QED
    BY <1>1, <2>1 DEF NativeInductive, MapCoherent
<1> QED
  BY <1>1, NativeInvariance, PTL

(* There is one client per scheme and host. *)
THEOREM ClientsShared == NativeSpec => []StoresAreShared
<1>1. ASSUME NativeInductive PROVE StoresAreShared
  <2> SUFFICES ASSUME NEW t \in Threads, NEW u \in Threads,
                      NEW r \in store[t], NEW s \in store[u],
                      call[t].scheme = call[u].scheme, call[t].host = call[u].host
               PROVE  r = s
    BY DEF StoresAreShared
  <2>1. r \in stores /\ s \in stores /\ r.key = s.key
    BY <1>1 DEF NativeInductive, ClientsKept, KeyOf
  <2> QED
    BY <1>1, <2>1 DEF NativeInductive, MapCoherent
<1> QED
  BY <1>1, NativeInvariance, PTL

(* Where requests leave names alone and the library reads a pattern as the *)
(* code does, a glob lists all that matches, and anything else itself.     *)
THEOREM ListsComplete ==
  ASSUME \A n \in Names : Sent[n] = n
  PROVE  NativeSpec => []ListsEveryMatch
<1>1. ASSUME NativeInductive PROVE ListsEveryMatch
  <2> SUFFICES ASSUME NEW t \in Threads, call[t].op = "list",
                      answer[t].kind \in {"found", "pattern"}, Understood(call[t].path)
               PROVE  answer[t].paths =
                        IF IsGlob(call[t].path)
                        THEN {k \in Objects[call[t].host] : Matches(call[t].path, k)}
                        ELSE {Texts(call[t].path, Len(call[t].path))}
    BY DEF ListsEveryMatch
  <2>1. call[t].host \in Hosts /\ call[t].path \in Paths
    BY <1>1 DEF NativeInductive, NativeTypeOK, Calls
  <2>2. CASE answer[t].kind = "found"
    <3>1. IsGlob(call[t].path) /\ answer[t].paths = Listing(call[t].host, call[t].path)
      BY <1>1, <2>2 DEF NativeInductive, GlobsListed
    <3>2. Listing(call[t].host, call[t].path)
             = {k \in Objects[call[t].host] : Matches(call[t].path, k)}
      BY <2>1, <3>1, ListingIsComplete
    <3> QED
      BY <3>1, <3>2
  <2>3. CASE answer[t].kind = "pattern"
    <3>1. /\ IsGlob(call[t].path) => ~Parses(call[t].path)
          /\ answer[t].paths = {Prefix(call[t].path)}
      BY <1>1, <2>3 DEF NativeInductive, GlobsListed
    <3>2. ~IsGlob(call[t].path)
      BY <3>1 DEF Understood
    <3>3. Prefix(call[t].path) = Texts(call[t].path, Len(call[t].path))
      BY <3>2 DEF Prefix, Front
    <3> QED
      BY <3>1, <3>2, <3>3
  <2> QED
    BY <2>2, <2>3
<1> QED
  BY <1>1, NativeInvariance, PTL
=============================================================================
