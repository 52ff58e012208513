--------------------------- MODULE SequenceLemmas ---------------------------
(***************************************************************************)
(* Lemmas that the proofs of several components need: least elements and   *)
(* induction over numbers, in terms of sets; elements and parts of         *)
(* sequences; what Without gives.                                          *)
(***************************************************************************)
EXTENDS PathSegments, SequenceTheorems, WellFoundedInduction, TLAPS

LEMMA LeastElement ==
  ASSUME NEW T, T \subseteq Nat, T # {}
  PROVE  \E m \in T : \A n \in T : m <= n
<1> DEFINE less == {ss \in Nat \X Nat : ss[1] < ss[2]}
<1>1. IsWellFoundedOn(less, Nat)
  BY NatLessThanWellFounded DEF OpToRel
<1>2. PICK m \in T : \A n \in T : ~(<<n, m>> \in less)
  <2> HIDE DEF less
  <2> QED
    BY <1>1, WFMin
<1>3. \A n \in T : ~(n < m)
  BY <1>2
<1> QED
  BY <1>3

(* A nonempty set of positions has a first and a last one.                 *)
LEMMA ExtremesExist ==
  ASSUME NEW n \in Nat, NEW S, S \subseteq 1..n, S # {}
  PROVE  /\ \E i \in S : \A j \in S : i <= j
         /\ \E i \in S : \A j \in S : j <= i
<1>1. \E i \in S : \A j \in S : i <= j
  <2>1. S \subseteq Nat
    OBVIOUS
  <2> QED
    BY <2>1, LeastElement
<1>2. \E i \in S : \A j \in S : j <= i
  <2> DEFINE back == {n - i : i \in S}
  <2>1. back \subseteq Nat /\ back # {}
    <3>1. ASSUME NEW i \in S PROVE n - i \in Nat
      <4>1. i \in 1..n
        OBVIOUS
      <4> QED
        BY <4>1
    <3>2. PICK i \in S : TRUE
      OBVIOUS
    <3>3. n - i \in back
      BY <3>2
    <3> QED
      BY <3>1, <3>3
  <2>2. PICK m \in back : \A k \in back : m <= k
    <3> HIDE DEF back
    <3> QED
      BY <2>1, LeastElement
  <2>3. PICK i \in S : m = n - i
    BY <2>2
  <2>4. ASSUME NEW j \in S PROVE j <= i
    <3>1. n - j \in back
      OBVIOUS
    <3>2. m <= n - j
      <4> HIDE DEF back
      <4> QED
        BY <2>2, <3>1
    <3>3. i \in Nat /\ j \in Nat
      OBVIOUS
    <3> QED
      BY <2>3, <3>2, <3>3
  <2> QED
    BY <2>4
<1> QED
  BY <1>1, <1>2

LEMMA SeqFacts ==
  ASSUME NEW S
  PROVE  /\ <<>> \in Seq(S)
         /\ \A s \in Seq(S) : /\ Len(s) \in Nat
                             /\ \A i \in 1..Len(s) : s[i] \in S
OBVIOUS

LEMMA HeadIsFirst ==
  ASSUME NEW S, NEW s \in Seq(S), s # <<>>
  PROVE  Len(s) >= 1 /\ 1 \in 1..Len(s) /\ Head(s) = s[1]
<1>1. Len(s) \in Nat /\ Len(s) # 0
  BY EmptySeq
<1> QED
  BY <1>1

LEMMA SubSeqInside ==
  ASSUME NEW S, NEW s \in Seq(S), NEW i \in 1..Len(s), NEW j \in 1..Len(s)
  PROVE  SubSeq(s, i, j) \in Seq(S)
<1>1. \A k \in i..j : s[k] \in S
  OBVIOUS
<1> QED
  BY <1>1, SubSeqProperties

(* A sequence and its parts up to position n and behind it.                *)
LEMMA SplitSeq ==
  ASSUME NEW S, NEW s \in Seq(S), NEW n \in 0..Len(s)
  PROVE  LET a == SubSeq(s, 1, n)
             b == SubSeq(s, n + 1, Len(s))
         IN  /\ a \in Seq(S) /\ Len(a) = n /\ \A i \in 1..n : a[i] = s[i]
             /\ b \in Seq(S) /\ Len(b) = Len(s) - n
             /\ \A i \in 1..(Len(s) - n) : b[i] = s[n + i]
             /\ a \o b = s
<1>1. Len(s) \in Nat /\ n \in Int /\ 0 <= n /\ n <= Len(s)
  OBVIOUS
<1>2. \A i \in 1..Len(s) : s[i] \in S
  OBVIOUS
<1>3. /\ SubSeq(s, 1, n) \in Seq(S)
      /\ Len(SubSeq(s, 1, n)) = n
      /\ \A i \in 1..n : SubSeq(s, 1, n)[i] = s[i]
  <2>1. \A i \in 1..n : s[i] \in S
    BY <1>1, <1>2
  <2>2. /\ SubSeq(s, 1, n) \in Seq(S)
        /\ Len(SubSeq(s, 1, n)) = IF 1 <= n THEN n - 1 + 1 ELSE 0
        /\ \A i \in 1..(n - 1 + 1) : SubSeq(s, 1, n)[i] = s[1 + i - 1]
    BY <1>1, <2>1, SubSeqProperties
  <2> QED
    BY <1>1, <2>2
<1>4. /\ SubSeq(s, n + 1, Len(s)) \in Seq(S)
      /\ Len(SubSeq(s, n + 1, Len(s))) = Len(s) - n
      /\ \A i \in 1..(Len(s) - n) : SubSeq(s, n + 1, Len(s))[i] = s[n + i]
  <2>1. \A i \in (n + 1)..Len(s) : s[i] \in S
    BY <1>1, <1>2
  <2> DEFINE m == n + 1
  <2>2. m \in Int /\ Len(s) \in Int
    BY <1>1
  <2> HIDE DEF m
  <2>3. /\ SubSeq(s, m, Len(s)) \in Seq(S)
        /\ Len(SubSeq(s, m, Len(s))) = IF m <= Len(s) THEN Len(s) - m + 1 ELSE 0
        /\ \A i \in 1..(Len(s) - m + 1) : SubSeq(s, m, Len(s))[i] = s[m + i - 1]
    BY <2>1, <2>2, SubSeqProperties DEF m
  <2> QED
    BY <1>1, <2>3 DEF m
<1>5. SubSeq(s, 1, n) \o SubSeq(s, n + 1, Len(s)) = SubSeq(s, 1, Len(s))
  <2>1. 1 \in 1..(Len(s) + 1) /\ n \in (1 - 1)..Len(s) /\ Len(s) \in n..Len(s)
    BY <1>1
  <2> QED
    BY <2>1, ConcatAdjacentSubSeq
<1> QED
  BY <1>3, <1>4, <1>5, SubSeqFull

(* What stands first in a sequence that another was put behind.            *)
LEMMA HeadOfConcat ==
  ASSUME NEW S, NEW s \in Seq(S), NEW t \in Seq(S), s # <<>>
  PROVE  s \o t # <<>> /\ Head(s \o t) = s[1] /\ (s \o t)[1] = s[1]
<1> DEFINE u == s \o t
<1>1. Len(s) \in Nat /\ Len(s) >= 1 /\ Len(t) \in Nat
  BY EmptySeq
<1>2. u \in Seq(S) /\ Len(u) = Len(s) + Len(t) /\ u[1] = s[1]
  BY <1>1, ConcatProperties
<1> HIDE DEF u
<1>3. u # <<>>
  BY <1>1, <1>2
<1>4. Head(u) = u[1]
  BY <1>2, <1>3, HeadIsFirst
<1> QED
  BY <1>2, <1>3, <1>4 DEF u

(* Three parts, the last of one element.                                   *)
LEMMA ConcatThree ==
  ASSUME NEW S, NEW r \in Seq(S), NEW u \in Seq(S), NEW x \in S
  PROVE  LET q == r \o (u \o <<x>>)
         IN  /\ q \in Seq(S) /\ Len(q) = Len(r) + Len(u) + 1
             /\ \A i \in 1..Len(r) : q[i] = r[i]
             /\ \A i \in 1..Len(u) : q[Len(r) + i] = u[i]
             /\ q[Len(r) + Len(u) + 1] = x
<1> DEFINE last == <<x>>
           t == u \o last
           q == r \o t
<1>1. last \in Seq(S) /\ Len(last) = 1 /\ last[1] = x
  OBVIOUS
<1>2. Len(r) \in Nat /\ Len(u) \in Nat
  OBVIOUS
<1> HIDE DEF last
<1>3. /\ t \in Seq(S) /\ Len(t) = Len(u) + Len(last)
      /\ \A i \in 1..(Len(u) + Len(last)) : t[i] = IF i <= Len(u) THEN u[i] ELSE last[i - Len(u)]
  BY <1>1, ConcatProperties
<1> HIDE DEF t
<1>4. /\ q \in Seq(S) /\ Len(q) = Len(r) + Len(t)
      /\ \A i \in 1..(Len(r) + Len(t)) : q[i] = IF i <= Len(r) THEN r[i] ELSE t[i - Len(r)]
  <2>1. t \in Seq(S)
    BY <1>3
  <2> QED
    BY <2>1, ConcatProperties
<1> HIDE DEF q
<1>5. \A i \in 1..Len(r) : q[i] = r[i]
  BY <1>1, <1>2, <1>3, <1>4
<1>6. ASSUME NEW i \in 1..Len(u) PROVE q[Len(r) + i] = u[i]
  <2>1. /\ Len(r) + i \in 1..(Len(r) + Len(t)) /\ ~(Len(r) + i <= Len(r))
        /\ (Len(r) + i) - Len(r) = i /\ i \in 1..(Len(u) + Len(last)) /\ i <= Len(u)
    BY <1>1, <1>2, <1>3
  <2> QED
    BY <1>3, <1>4, <2>1
<1>7. q[Len(r) + Len(u) + 1] = x
  <2>1. /\ Len(r) + Len(u) + 1 \in 1..(Len(r) + Len(t)) /\ ~(Len(r) + Len(u) + 1 <= Len(r))
        /\ (Len(r) + Len(u) + 1) - Len(r) = Len(u) + 1
        /\ Len(u) + 1 \in 1..(Len(u) + Len(last)) /\ ~(Len(u) + 1 <= Len(u))
        /\ (Len(u) + 1) - Len(u) = 1
    BY <1>1, <1>2, <1>3
  <2>2. q[Len(r) + Len(u) + 1] = t[Len(u) + 1]
    BY <1>4, <2>1
  <2>3. t[Len(u) + 1] = last[1]
    BY <1>3, <2>1
  <2> QED
    BY <1>1, <2>2, <2>3
<1>8. Len(q) = Len(r) + Len(u) + 1
  BY <1>1, <1>2, <1>3, <1>4
<1> QED
  BY <1>4, <1>5, <1>6, <1>7, <1>8 DEF q, t, last

(* A set that has 0, and after each number up to n the next, has them all. *)
LEMMA Induction ==
  ASSUME NEW n \in Nat, NEW S, 0 \in S,
         \A m \in 0..(n - 1) : m \in S => m + 1 \in S
  PROVE  0..n \subseteq S
<1> DEFINE T == (0..n) \ S
<1> SUFFICES ASSUME T # {} PROVE FALSE
  OBVIOUS
<1>1. T \subseteq Nat
  OBVIOUS
<1>2. PICK x \in T : \A y \in T : x <= y
  <2> HIDE DEF T
  <2> QED
    BY <1>1, LeastElement
<1>3. x # 0 /\ x - 1 \in 0..(n - 1) /\ ~(x <= x - 1) /\ (x - 1) + 1 = x
  OBVIOUS
<1>4. x - 1 \in S
  BY <1>2, <1>3
<1> QED
  BY <1>3, <1>4

(* g has what Without computes, for the first n elements of s.             *)
Filters(g, n, s, drop) ==
  /\ g[0] = <<>>
  /\ \A m \in 1..n :
       g[m] = IF s[m] \in drop THEN g[m - 1] ELSE Append(g[m - 1], s[m])

LEMMA WithoutRecursion ==
  ASSUME NEW S, NEW s \in Seq(S), NEW drop
  PROVE  \E g \in [0..Len(s) -> Seq(S \ drop)] :
           Filters(g, Len(s), s, drop) /\ Without(s, drop) = g[Len(s)]
<1> DEFINE N == Len(s)
           Q == Seq(S \ drop)
           Has(n) == \E g \in [0..n -> Q] : Filters(g, n, s, drop)
           T == {n \in 0..N : Has(n)}
           P(f) == f = [n \in 0..N |-> IF n = 0 THEN <<>>
                                       ELSE IF s[n] \in drop THEN f[n - 1]
                                       ELSE Append(f[n - 1], s[n])]
<1>1. N \in Nat /\ \A n \in 1..N : s[n] \in S
  OBVIOUS
<1>2. /\ <<>> \in Q
      /\ \A q \in Q : \A e \in S \ drop : Append(q, e) \in Q
  OBVIOUS
<1> HIDE DEF N, Q
<1>3. 0 \in T
  <2> DEFINE g == [n \in 0..0 |-> <<>>]
  <2>1. g \in [0..0 -> Q] /\ Filters(g, 0, s, drop)
    BY <1>2 DEF Filters
  <2>2. Has(0)
    BY <2>1
  <2> HIDE DEF Has
  <2> QED
    BY <1>1, <2>2
<1>4. ASSUME NEW m \in 0..(N - 1), m \in T PROVE m + 1 \in T
  <2>1. PICK g \in [0..m -> Q] : Filters(g, m, s, drop)
    BY <1>4
  <2> DEFINE last == IF s[m + 1] \in drop THEN g[m] ELSE Append(g[m], s[m + 1])
             h == [n \in 0..(m + 1) |-> IF n = m + 1 THEN last ELSE g[n]]
  <2>2. m + 1 \in 1..N /\ m + 1 \in 0..N /\ m \in Nat /\ m \in 0..m
    BY <1>1
  <2>3. g[m] \in Q /\ last \in Q
    BY <1>1, <1>2, <2>2
  <2> HIDE DEF last
  <2>4. h \in [0..(m + 1) -> Q] /\ h[0] = <<>>
    BY <2>1, <2>2, <2>3 DEF Filters
  <2>5. ASSUME NEW k \in 1..(m + 1)
        PROVE  h[k] = IF s[k] \in drop THEN h[k - 1] ELSE Append(h[k - 1], s[k])
    <3>1. CASE k = m + 1
      <4>1. h[k] = last /\ h[k - 1] = g[m]
        BY <2>2, <3>1
      <4> HIDE DEF h
      <4> QED
        BY <3>1, <4>1 DEF last
    <3>2. CASE k # m + 1
      <4>1. k \in 1..m /\ k - 1 \in 0..m /\ k - 1 # m + 1
        BY <2>2, <3>2
      <4>2. h[k] = g[k] /\ h[k - 1] = g[k - 1]
        BY <2>2, <3>2, <4>1
      <4> HIDE DEF h
      <4> QED
        BY <2>1, <4>1, <4>2 DEF Filters
    <3> QED
      BY <3>1, <3>2
  <2> HIDE DEF h
  <2>6. Filters(h, m + 1, s, drop)
    BY <2>4, <2>5 DEF Filters
  <2>7. Has(m + 1)
    BY <2>4, <2>6
  <2> HIDE DEF Has
  <2> QED
    BY <2>2, <2>7
<1>5. PICK g \in [0..N -> Q] : Filters(g, N, s, drop)
  <2> HIDE DEF Has
  <2>1. 0..N \subseteq T
    <3> HIDE DEF T
    <3> QED
      BY <1>1, <1>3, <1>4, Induction
  <2>2. Has(N)
    BY <1>1, <2>1
  <2> QED
    BY <2>2 DEF Has
<1>6. P(g)
  <2>1. \A n \in 0..N : n # 0 => n \in 1..N
    BY <1>1
  <2> QED
    BY <1>5, <2>1 DEF Filters
<1> DEFINE f == CHOOSE f : P(f)
<1>7. Without(s, drop) = f[N]
  BY DEF Without, N
<1>8. P(f)
  <2> HIDE DEF P
  <2> QED
    BY <1>6
<1> HIDE DEF f
<1>9. Filters(f, N, s, drop) /\ f = [n \in 0..N |-> f[n]]
  <2>1. 0 \in 0..N /\ \A n \in 1..N : n \in 0..N /\ n # 0
    BY <1>1
  <2> QED
    BY <1>8, <2>1 DEF Filters
<1> HIDE DEF P
<1> DEFINE R == {n \in 0..N : f[n] \in Q}
<1>10. 0..N \subseteq R
  <2>1. 0 \in R
    BY <1>1, <1>2, <1>9 DEF Filters
  <2>2. ASSUME NEW m \in 0..(N - 1), m \in R PROVE m + 1 \in R
    <3>1. m + 1 \in 1..N /\ m + 1 \in 0..N /\ (m + 1) - 1 = m
      BY <1>1
    <3>2. f[m + 1] = IF s[m + 1] \in drop THEN f[m] ELSE Append(f[m], s[m + 1])
      BY <1>9, <3>1 DEF Filters
    <3> QED
      BY <1>1, <1>2, <2>2, <3>1, <3>2
  <2> HIDE DEF R
  <2> QED
    BY <1>1, <2>1, <2>2, Induction
<1>11. f \in [0..N -> Q]
  BY <1>9, <1>10
<1> QED
  BY <1>7, <1>9, <1>11 DEF N, Q

(* What is left has none of the elements dropped.                          *)
LEMMA WithoutType ==
  ASSUME NEW S, NEW s \in Seq(S), NEW drop
  PROVE  Without(s, drop) \in Seq(S \ drop)
<1>1. PICK g \in [0..Len(s) -> Seq(S \ drop)] : Without(s, drop) = g[Len(s)]
  BY WithoutRecursion
<1>2. Len(s) \in 0..Len(s)
  OBVIOUS
<1> QED
  BY <1>1, <1>2

(* What is filtered after one more element has come.                       *)
LEMMA WithoutAppend ==
  ASSUME NEW S, NEW s \in Seq(S), NEW e \in S, NEW drop
  PROVE  Without(Append(s, e), drop)
           = IF e \in drop THEN Without(s, drop) ELSE Append(Without(s, drop), e)
<1> DEFINE N == Len(s)
           more == Append(s, e)
<1>1. /\ N \in Nat /\ more \in Seq(S) /\ Len(more) = N + 1 /\ more[N + 1] = e
      /\ \A i \in 1..N : more[i] = s[i]
  OBVIOUS
<1>2. PICK f : Filters(f, N, s, drop) /\ Without(s, drop) = f[N]
  BY WithoutRecursion
<1> HIDE DEF more
<1>3. PICK g : Filters(g, N + 1, more, drop) /\ Without(more, drop) = g[N + 1]
  <2>1. PICK g : Filters(g, Len(more), more, drop) /\ Without(more, drop) = g[Len(more)]
    BY <1>1, WithoutRecursion
  <2> QED
    BY <1>1, <2>1
<1> HIDE DEF N
<1> DEFINE T == {n \in 0..N : g[n] = f[n]}
<1>4. 0..N \subseteq T
  <2>1. 0 \in T
    BY <1>1, <1>2, <1>3 DEF Filters
  <2>2. ASSUME NEW m \in 0..(N - 1), m \in T PROVE m + 1 \in T
    <3>1. /\ m + 1 \in 1..N /\ m + 1 \in 1..(N + 1) /\ m + 1 \in 0..N
          /\ (m + 1) - 1 = m
      BY <1>1
    <3>2. /\ f[m + 1] = IF s[m + 1] \in drop THEN f[m] ELSE Append(f[m], s[m + 1])
          /\ g[m + 1] = IF more[m + 1] \in drop THEN g[m] ELSE Append(g[m], more[m + 1])
      BY <1>2, <1>3, <3>1 DEF Filters
    <3> QED
      BY <1>1, <2>2, <3>1, <3>2
  <2> HIDE DEF T
  <2> QED
    BY <1>1, <2>1, <2>2, Induction
<1>5. N + 1 \in 1..(N + 1) /\ (N + 1) - 1 = N /\ N \in 0..N
  BY <1>1
<1>6. g[N + 1] = IF more[N + 1] \in drop THEN g[N] ELSE Append(g[N], more[N + 1])
  BY <1>3, <1>5 DEF Filters
<1>7. g[N] = f[N]
  BY <1>4, <1>5
<1> QED
  BY <1>1, <1>2, <1>3, <1>6, <1>7 DEF more

(* Where nothing is to be dropped, nothing changes.                        *)
LEMMA WithoutNothing ==
  ASSUME NEW S, NEW s \in Seq(S), NEW drop, \A i \in 1..Len(s) : s[i] \notin drop
  PROVE  Without(s, drop) = s
<1> DEFINE N == Len(s)
           T == {n \in 0..N : \A f : Filters(f, N, s, drop) => f[n] = SubSeq(s, 1, n)}
<1>1. N \in Nat
  OBVIOUS
<1>2. 0 \in T
  <2>1. SubSeq(s, 1, 0) = <<>> /\ 0 \in 0..N
    OBVIOUS
  <2> QED
    BY <2>1 DEF Filters
<1>3. ASSUME NEW m \in 0..(N - 1), m \in T PROVE m + 1 \in T
  <2>1. m + 1 \in 1..N /\ m + 1 \in 0..N /\ (m + 1) - 1 = m
    BY <1>1
  <2>2. SubSeq(s, 1, m + 1) = Append(SubSeq(s, 1, m), s[m + 1])
    BY <1>1
  <2>3. ASSUME NEW f, Filters(f, N, s, drop) PROVE f[m + 1] = SubSeq(s, 1, m + 1)
    <3>1. f[m] = SubSeq(s, 1, m)
      BY <1>3, <2>3
    <3>2. f[m + 1] = Append(f[m], s[m + 1])
      BY <2>1, <2>3 DEF Filters
    <3> QED
      BY <2>2, <3>1, <3>2
  <2> QED
    BY <2>1, <2>3
<1>4. N \in T
  <2>1. 0..N \subseteq T
    <3> HIDE DEF T, N
    <3> QED
      BY <1>1, <1>2, <1>3, Induction
  <2> HIDE DEF T
  <2> QED
    BY <1>1, <2>1
<1>5. SubSeq(s, 1, N) = s
  OBVIOUS
<1>6. PICK f : Filters(f, N, s, drop) /\ Without(s, drop) = f[N]
  BY WithoutRecursion
<1> QED
  BY <1>4, <1>5, <1>6

(* Where everything is to be dropped, nothing is left.                     *)
LEMMA WithoutAll ==
  ASSUME NEW S, NEW s \in Seq(S), NEW drop, \A i \in 1..Len(s) : s[i] \in drop
  PROVE  Without(s, drop) = <<>>
<1> DEFINE R == S \cap drop
           E == R \ drop
           w == Without(s, drop)
<1>1. s \in Seq(R)
  OBVIOUS
<1>2. w \in Seq(E)
  <2> HIDE DEF R
  <2> QED
    BY <1>1, WithoutType
<1>3. E = {}
  OBVIOUS
<1> HIDE DEF E, w
<1>4. Len(w) = 0
  BY <1>2, <1>3
<1> QED
  BY <1>2, <1>4 DEF w

(* Filtering a sequence is filtering its parts.                            *)
LEMMA WithoutConcat ==
  ASSUME NEW S, NEW s \in Seq(S), NEW t \in Seq(S), NEW drop
  PROVE  Without(s \o t, drop) = Without(s, drop) \o Without(t, drop)
<1> DEFINE N == Len(t)
           W(q) == Without(q, drop)
           T == {n \in 0..N : W(s \o SubSeq(t, 1, n)) = W(s) \o W(SubSeq(t, 1, n))}
<1>1. N \in Nat /\ W(s) \in Seq(S \ drop)
  BY WithoutType
<1>2. 0 \in T
  <2>1. SubSeq(t, 1, 0) = <<>> /\ s \o <<>> = s /\ 0 \in 0..N
    OBVIOUS
  <2>2. <<>> \in Seq(S) /\ \A i \in 1..Len(<<>>) : <<>>[i] \notin drop
    OBVIOUS
  <2>3. W(<<>>) = <<>>
    BY <2>2, WithoutNothing
  <2> HIDE DEF W
  <2>4. W(s) \o <<>> = W(s)
    BY <1>1
  <2> QED
    BY <2>1, <2>3, <2>4
<1>3. ASSUME NEW m \in 0..(N - 1), m \in T PROVE m + 1 \in T
  <2> DEFINE u == SubSeq(t, 1, m)
             e == t[m + 1]
  <2>1. m + 1 \in 0..N /\ m + 1 \in 1..N
    BY <1>1
  <2>2. SubSeq(t, 1, m + 1) = Append(u, e) /\ u \in Seq(S) /\ e \in S
    BY <1>1, <2>1
  <2>3. W(s \o u) = W(s) \o W(u)
    BY <1>3
  <2> HIDE DEF u, e
  <2>4. s \o Append(u, e) = Append(s \o u, e) /\ s \o u \in Seq(S)
    BY <2>2
  <2>5. W(Append(s \o u, e)) = IF e \in drop THEN W(s \o u) ELSE Append(W(s \o u), e)
    <3> DEFINE v == s \o u
    <3>1. v \in Seq(S) /\ e \in S
      BY <2>2, <2>4
    <3> HIDE DEF v
    <3>2. Without(Append(v, e), drop)
            = IF e \in drop THEN Without(v, drop) ELSE Append(Without(v, drop), e)
      BY <3>1, WithoutAppend
    <3> QED
      BY <3>2 DEF v
  <2>6. W(Append(u, e)) = IF e \in drop THEN W(u) ELSE Append(W(u), e)
    BY <2>2, WithoutAppend
  <2>7. W(u) \in Seq(S \ drop)
    BY <2>2, WithoutType
  <2> HIDE DEF W
  <2>8. e \notin drop => W(s) \o Append(W(u), e) = Append(W(s) \o W(u), e)
    BY <1>1, <2>2, <2>7
  <2>9. W(s \o Append(u, e)) = W(s) \o W(Append(u, e))
    BY <2>3, <2>4, <2>5, <2>6, <2>8
  <2> QED
    BY <2>1, <2>2, <2>9
<1>4. N \in T
  <2> HIDE DEF T, N
  <2>1. 0..N \subseteq T
    BY <1>1, <1>2, <1>3, Induction
  <2> QED
    BY <1>1, <2>1
<1>5. SubSeq(t, 1, N) = t
  OBVIOUS
<1> QED
  BY <1>4, <1>5
=============================================================================
