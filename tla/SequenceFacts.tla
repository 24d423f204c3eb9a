----------------------------- MODULE SequenceFacts -----------------------------
(***************************************************************************)
(* What the proofs need of two operators on sequences: the code removes    *)
(* one element of a vector (vector::erase), or adds one behind the others. *)
(***************************************************************************)
EXTENDS SequencesExt, SequenceTheorems, WellFoundedInduction, TLAPS

(* What an element of a sequence becomes when one is taken out.            *)
LEMMA RemovedAt ==
    ASSUME NEW S, NEW s \in Seq(S), NEW n \in 1..Len(s)
    PROVE  /\ RemoveAt(s, n) \in Seq(S)
           /\ Len(RemoveAt(s, n)) = Len(s) - 1
           /\ \A i \in 1..Len(s) - 1 :
                  RemoveAt(s, n)[i] = IF i < n THEN s[i] ELSE s[i + 1]
<1> DEFINE front == SubSeq(s, 1, n - 1)
           rest == SubSeq(s, n + 1, Len(s))
<1>1. Len(s) \in Nat /\ n \in Nat
  BY LenProperties
<1>2. /\ \A i \in 1..n - 1 : s[i] \in S
      /\ \A i \in n + 1..Len(s) : s[i] \in S
  BY <1>1, ElementOfSeq
<1>3. /\ front \in Seq(S)
      /\ Len(front) = n - 1
      /\ \A i \in 1..n - 1 : front[i] = s[i]
  <2>1. /\ front \in Seq(S)
        /\ Len(front) = IF 1 <= n - 1 THEN n - 1 - 1 + 1 ELSE 0
        /\ \A i \in 1..n - 1 - 1 + 1 : front[i] = s[1 + i - 1]
    BY <1>1, <1>2, SubSeqProperties
  <2> QED
    BY <1>1, <2>1
<1>4. /\ rest \in Seq(S)
      /\ Len(rest) = Len(s) - n
      /\ \A i \in 1..Len(s) - n : rest[i] = s[n + i]
  <2>1. /\ rest \in Seq(S)
        /\ Len(rest) = IF n + 1 <= Len(s) THEN Len(s) - (n + 1) + 1 ELSE 0
        /\ \A i \in 1..Len(s) - (n + 1) + 1 : rest[i] = s[n + 1 + i - 1]
    BY <1>1, <1>2, SubSeqProperties
  <2> QED
    BY <1>1, <2>1
<1>5. RemoveAt(s, n) = front \o rest
  BY DEF RemoveAt
<1> HIDE DEF front, rest
<1>6. /\ front \o rest \in Seq(S)
      /\ Len(front \o rest) = Len(front) + Len(rest)
      /\ \A i \in 1..Len(front) + Len(rest) :
             (front \o rest)[i] = IF i <= Len(front) THEN front[i]
                                  ELSE rest[i - Len(front)]
  BY <1>3, <1>4, ConcatProperties
<1>7. ASSUME NEW i \in 1..Len(s) - 1
      PROVE  (front \o rest)[i] = IF i < n THEN s[i] ELSE s[i + 1]
  <2>1. CASE i < n
    <3>1. (front \o rest)[i] = front[i] /\ i \in 1..n - 1
      BY <1>1, <1>3, <1>4, <1>6, <2>1
    <3> QED
      BY <1>3, <2>1, <3>1
  <2>2. CASE ~(i < n)
    <3>1. (front \o rest)[i] = rest[i - Len(front)]
      BY <1>1, <1>3, <1>4, <1>6, <2>2
    <3>2. i - Len(front) \in 1..Len(s) - n /\ n + (i - Len(front)) = i + 1
      BY <1>1, <1>3, <2>2
    <3>3. rest[i - Len(front)] = s[n + (i - Len(front))]
      BY <1>4, <3>2
    <3> QED
      BY <2>2, <3>1, <3>2, <3>3
  <2> QED
    BY <2>1, <2>2
<1>8. Len(front \o rest) = Len(s) - 1
  BY <1>1, <1>3, <1>4, <1>6
<1>9. \A i \in 1..Len(s) - 1 :
          (front \o rest)[i] = IF i < n THEN s[i] ELSE s[i + 1]
  BY <1>7
<1> QED
  BY ONLY <1>5, <1>6, <1>8, <1>9, Zenon

(* A sequence is the start of itself with one more element.                *)
LEMMA AppendKeeps ==
    ASSUME NEW S, NEW s \in Seq(S), NEW x
    PROVE  IsPrefix(s, Append(s, x))
<1> DEFINE T == S \cup {x}
           t == Append(s, x)
           n == Len(s)
<1>1. s \in Seq(T) /\ n \in Nat /\ \A i \in 1..n : s[i] \in T
  BY LenProperties, ElementOfSeq
<1>2. t \in Seq(T) /\ Len(t) = n + 1 /\ \A i \in 1..n : t[i] = s[i]
  BY <1>1, AppendProperties
<1> HIDE DEF T, t, n
<1>3. Len(s) = n
  BY DEF n
<1>4. /\ SubSeq(s, 1, n) \in Seq(T) /\ Len(SubSeq(s, 1, n)) = n
      /\ \A i \in 1..n : SubSeq(s, 1, n)[i] = s[i]
  <2>1. \A i \in 1..n : s[i] \in T
    BY <1>1
  <2>2. /\ SubSeq(s, 1, n) \in Seq(T)
        /\ Len(SubSeq(s, 1, n)) = IF 1 <= n THEN n - 1 + 1 ELSE 0
        /\ \A i \in 1..n - 1 + 1 : SubSeq(s, 1, n)[i] = s[1 + i - 1]
    BY <1>1, <2>1, SubSeqProperties
  <2> QED
    BY <1>1, <2>2
<1>5. /\ SubSeq(t, 1, n) \in Seq(T) /\ Len(SubSeq(t, 1, n)) = n
      /\ \A i \in 1..n : SubSeq(t, 1, n)[i] = t[i]
  <2>1. \A i \in 1..n : t[i] \in T
    BY <1>1, <1>2
  <2>2. /\ SubSeq(t, 1, n) \in Seq(T)
        /\ Len(SubSeq(t, 1, n)) = IF 1 <= n THEN n - 1 + 1 ELSE 0
        /\ \A i \in 1..n - 1 + 1 : SubSeq(t, 1, n)[i] = t[1 + i - 1]
    BY <1>1, <2>1, SubSeqProperties
  <2> QED
    BY <1>1, <2>2
<1>6. SubSeq(s, 1, n) = SubSeq(t, 1, n)
  BY <1>2, <1>4, <1>5, SeqEqual
<1> QED
  BY <1>1, <1>2, <1>3, <1>6 DEF IsPrefix, t
-----------------------------------------------------------------------------
(* Every set of numbers has a least one.                                   *)
LEMMA LeastNatural ==
    ASSUME NEW T, T \subseteq Nat, T # {}
    PROVE  \E x \in T : \A y \in T : x <= y
<1>1. PICK x \in T : \A y \in T : ~(<<y, x>> \in OpToRel(<, Nat))
  BY NatLessThanWellFounded, WFMin
<1>2. \A y \in T : ~(y < x)
  BY <1>1, Zenon DEF OpToRel
<1> QED
  BY <1>2

(* A set of numbers with 0 and with every successor holds all numbers.     *)
LEMMA Induction ==
    ASSUME NEW T, T \subseteq Nat, 0 \in T, \A n \in T : n + 1 \in T
    PROVE  T = Nat
<1> SUFFICES ASSUME Nat \ T # {} PROVE FALSE
  OBVIOUS
<1>1. PICK x \in Nat \ T : \A y \in Nat \ T : x <= y
  BY LeastNatural
<1>2. x - 1 \in Nat /\ x - 1 \in T
  BY <1>1
<1> QED
  BY <1>1, <1>2

(* Numbers that are bounded have a greatest one.                           *)
LEMMA MaxIsGreatest ==
    ASSUME NEW n \in Nat, NEW T, T \subseteq 1..n, T # {}
    PROVE  Max(T) \in T /\ \A y \in T : Max(T) >= y
<1> DEFINE away == {m \in Nat : n - m \in T}
<1>1. PICK y \in T : TRUE
  OBVIOUS
<1>2. n - y \in away
  <2>1. n - y \in Nat /\ n - (n - y) = y
    BY <1>1
  <2> QED
    BY <2>1
<1>3. PICK m \in away : \A o \in away : m <= o
  <2>1. away \subseteq Nat /\ away # {}
    BY <1>2
  <2> HIDE DEF away
  <2> QED
    BY <2>1, LeastNatural
<1>4. n - m \in T /\ m \in Nat
  BY <1>3
<1>5. ASSUME NEW z \in T PROVE n - m >= z
  <2>1. n - z \in Nat /\ n - (n - z) = z
    OBVIOUS
  <2>2. n - z \in away
    BY <2>1
  <2>3. m <= n - z
    BY <1>3, <2>2
  <2> QED
    BY <1>4, <2>1, <2>3
<1> QED
  BY <1>4, <1>5 DEF Max

-----------------------------------------------------------------------------
(* The sum of a sequence of numbers, as the model adds up sizes, and the   *)
(* sums of its beginnings.                                                 *)
SumOf(w) == FoldLeft(LAMBDA sum, n : sum + n, 0, w)

Sums(p, w) ==
    /\ p \in [0..Len(w) -> Nat] /\ p[0] = 0
    /\ \A k \in 1..Len(w) : p[k] = p[k - 1] + w[k]

Folds(g, w, n) ==
    g = [T \in SUBSET (1..n) |->
            IF T = {} THEN 0 ELSE g[T \ {Max(T)}] + w[Max(T)]]

(* The recursion of the fold has a solution.                               *)
LEMMA FoldExists ==
    ASSUME NEW w
    PROVE  \A n \in Nat : \E g : Folds(g, w, n)
<1> DEFINE P == {n \in Nat : \E g : Folds(g, w, n)}
<1>1. 0 \in P
  <2> DEFINE g == [T \in SUBSET (1..0) |-> 0]
  <2>1. \A T \in SUBSET (1..0) : T = {}
    OBVIOUS
  <2>2. Folds(g, w, 0)
    BY <2>1 DEF Folds
  <2> QED
    BY <2>2
<1>2. ASSUME NEW n \in P PROVE n + 1 \in P
  <2>0. n \in Nat
    OBVIOUS
  <2>1. PICK g : Folds(g, w, n)
    OBVIOUS
  <2> DEFINE h == [T \in SUBSET (1..n + 1) |->
                      IF n + 1 \in T THEN g[T \ {n + 1}] + w[n + 1] ELSE g[T]]
             Step(T) == IF T = {} THEN 0 ELSE h[T \ {Max(T)}] + w[Max(T)]
  <2>2. ASSUME NEW T \in SUBSET (1..n + 1) PROVE h[T] = Step(T)
    <3>1. CASE n + 1 \in T
      <4>1. Max(T) = n + 1
        <5>1. n + 1 \in Nat /\ T \subseteq 1..(n + 1) /\ T # {}
          BY <2>0, <3>1
        <5>2. Max(T) \in T /\ \A y \in T : Max(T) >= y
          BY <5>1, MaxIsGreatest
        <5>3. Max(T) \in 1..(n + 1) /\ Max(T) >= n + 1
          BY <3>1, <5>2
        <5> QED
          BY <2>0, <5>3
      <4>2. T \ {n + 1} \in SUBSET (1..n) /\ T \ {n + 1} \in SUBSET (1..n + 1)
            /\ n + 1 \notin T \ {n + 1}
        BY <2>0
      <4>3. h[T \ {n + 1}] = g[T \ {n + 1}]
        BY <4>2
      <4> QED
        BY <3>1, <4>1, <4>3
    <3>2. CASE n + 1 \notin T
      <4>1. T \in SUBSET (1..n)
        BY <2>0, <3>2
      <4>2. h[T] = g[T]
        BY <3>2
      <4>3. g[T] = IF T = {} THEN 0 ELSE g[T \ {Max(T)}] + w[Max(T)]
        BY <2>1, <4>1 DEF Folds
      <4>4. T \ {Max(T)} \in SUBSET (1..n + 1) /\ n + 1 \notin T \ {Max(T)}
        BY <3>2
      <4>5. h[T \ {Max(T)}] = g[T \ {Max(T)}]
        BY <4>4
      <4> QED
        BY <4>2, <4>3, <4>5
    <3> QED
      BY <3>1, <3>2
  <2>3. h = [T \in SUBSET (1..n + 1) |-> h[T]]
    OBVIOUS
  <2> HIDE DEF h
  <2>4. h = [T \in SUBSET (1..n + 1) |-> Step(T)]
    BY <2>2, <2>3
  <2>5. Folds(h, w, n + 1)
    BY <2>4 DEF Folds
  <2> QED
    BY <2>0, <2>5
<1>3. P = Nat
  <2> HIDE DEF P
  <2>1. P \subseteq Nat
    BY DEF P
  <2> QED
    BY <1>1, <1>2, <2>1, Induction
<1> QED
  BY <1>3

(* A solution has the sums of a sequence of numbers.                       *)
LEMMA FoldIsLast ==
    ASSUME NEW w \in Seq(Nat), NEW g, Folds(g, w, Len(w))
    PROVE  \E p : Sums(p, w) /\ g[1..Len(w)] = p[Len(w)]
<1> DEFINE n == Len(w)
           p == [k \in 0..n |-> g[1..k]]
<1>1. n \in Nat /\ DOMAIN w = 1..n /\ \A k \in 1..n : w[k] \in Nat
  BY LenProperties, ElementOfSeq
<1>3. Folds(g, w, n)
  OBVIOUS
<1> HIDE DEF n
<1>4. p[0] = 0
  <2>1. 1..0 = {} /\ 1..0 \in SUBSET (1..n) /\ 0 \in 0..n
    BY <1>1
  <2>2. g[1..0] = 0
    BY <1>3, <2>1 DEF Folds
  <2> QED
    BY <2>1, <2>2
<1>5. ASSUME NEW k \in 1..n PROVE p[k] = p[k - 1] + w[k]
  <2>0. k \in Nat /\ k >= 1 /\ k <= n
    BY <1>1
  <2>1. /\ 1..k \in SUBSET (1..n) /\ 1..k # {}
        /\ (1..k) \ {k} = 1..(k - 1) /\ k \in 0..n /\ k - 1 \in 0..n
    <3>1. 1..k \subseteq 1..n /\ k \in 1..k
      BY <1>1, <2>0
    <3>2. (1..k) \ {k} = 1..(k - 1)
      BY <2>0
    <3>3. k \in 0..n /\ k - 1 \in 0..n
      BY <1>1, <2>0
    <3> QED
      BY <3>1, <3>2, <3>3
  <2>2. Max(1..k) = k
    <3>1. k \in Nat /\ k \in 1..k
      BY <1>1
    <3>2. Max(1..k) \in 1..k /\ \A y \in 1..k : Max(1..k) >= y
      BY <2>1, <3>1, MaxIsGreatest
    <3> QED
      BY <3>1, <3>2
  <2>3. g[1..k] = g[(1..k) \ {k}] + w[k]
    BY <1>3, <2>1, <2>2 DEF Folds
  <2> QED
    BY <2>1, <2>3
<1> HIDE DEF p
<1>6. \A k \in 0..n : p[k] \in Nat
  <2> DEFINE P == {k \in Nat : k \in 0..n => p[k] \in Nat}
  <2>1. 0 \in P
    BY <1>4
  <2>2. ASSUME NEW k \in P PROVE k + 1 \in P
    <3> SUFFICES ASSUME k + 1 \in 0..n PROVE p[k + 1] \in Nat
      OBVIOUS
    <3>1. k + 1 \in 1..n /\ k + 1 - 1 = k /\ k \in 0..n
      BY <1>1
    <3> QED
      BY <1>1, <1>5, <3>1
  <2>3. P = Nat
    <3> HIDE DEF P
    <3>1. P \subseteq Nat
      BY DEF P
    <3> QED
      BY <2>1, <2>2, <3>1, Induction
  <2> QED
    BY <1>1, <2>3
<1>7. p \in [0..n -> Nat]
  BY <1>6 DEF p
<1>8. g[1..n] = p[n]
  BY <1>1 DEF p
<1>9. Sums(p, w)
  BY <1>4, <1>5, <1>7 DEF Sums, n
<1> QED
  BY <1>8, <1>9 DEF n

(* The sum of a sequence of numbers is the last of its sums.               *)
LEMMA SumIsLast ==
    ASSUME NEW w \in Seq(Nat)
    PROVE  \E p : Sums(p, w) /\ SumOf(w) = p[Len(w)]
<1> DEFINE n == Len(w)
           g == CHOOSE f : Folds(f, w, n)
<1>1. n \in Nat /\ DOMAIN w = 1..n
  BY LenProperties
<1>2. SumOf(w) = g[1..n]
  BY <1>1 DEF SumOf, FoldLeft, MapThenFoldSet, Folds
<1>3. Folds(g, w, n)
  BY <1>1, FoldExists
<1> HIDE DEF g
<1> QED
  BY <1>2, <1>3, FoldIsLast

(* The sums are determined.                                                *)
LEMMA SumsAgree ==
    ASSUME NEW w \in Seq(Nat), NEW p, NEW q, Sums(p, w), Sums(q, w)
    PROVE  \A k \in 0..Len(w) : p[k] = q[k]
<1> DEFINE n == Len(w)
           P == {k \in Nat : k \in 0..n => p[k] = q[k]}
<1>1. n \in Nat
  BY LenProperties
<1>2. 0 \in P
  BY DEF Sums
<1>3. ASSUME NEW k \in P PROVE k + 1 \in P
  <2> SUFFICES ASSUME k + 1 \in 0..n PROVE p[k + 1] = q[k + 1]
    OBVIOUS
  <2>1. k + 1 \in 1..n /\ k + 1 - 1 = k /\ k \in 0..n
    BY <1>1
  <2> QED
    BY <2>1 DEF Sums
<1>4. P = Nat
  <2> HIDE DEF P
  <2>1. P \subseteq Nat
    BY DEF P
  <2> QED
    BY <1>2, <1>3, <2>1, Induction
<1> QED
  BY <1>1, <1>4

(* A solution of the recursion has the sum.                                *)
LEMMA FoldIsSum ==
    ASSUME NEW w \in Seq(Nat), NEW g, Folds(g, w, Len(w))
    PROVE  g[1..Len(w)] = SumOf(w)
<1>1. Len(w) \in 0..Len(w)
  BY LenProperties
<1> QED
  BY <1>1, FoldIsLast, SumIsLast, SumsAgree

(* A sum is a number, and that of nothing is 0.                            *)
LEMMA SumIsNatural ==
    ASSUME NEW w \in Seq(Nat)
    PROVE  SumOf(w) \in Nat /\ (Len(w) = 0 => SumOf(w) = 0)
<1>1. Len(w) \in Nat
  BY LenProperties
<1> QED
  BY <1>1, SumIsLast DEF Sums

(* A sequence with one number less has a sum that is less by this number.  *)
LEMMA SumWithout ==
    ASSUME NEW w \in Seq(Nat), NEW v \in Seq(Nat), NEW n \in 1..Len(w),
           Len(v) = Len(w) - 1,
           \A i \in 1..Len(v) : v[i] = IF i < n THEN w[i] ELSE w[i + 1]
    PROVE  SumOf(w) = SumOf(v) + w[n]
<1>1. /\ Len(w) \in Nat /\ Len(v) \in Nat /\ n \in Nat
      /\ \A i \in 1..Len(w) : w[i] \in Nat
  BY LenProperties, ElementOfSeq
<1>2. PICK p : Sums(p, w) /\ SumOf(w) = p[Len(w)]
  BY SumIsLast
<1>3. PICK q : Sums(q, v) /\ SumOf(v) = q[Len(v)]
  BY SumIsLast
<1> DEFINE P == {k \in Nat : k \in 0..Len(v) =>
                                 IF k < n THEN p[k] = q[k]
                                 ELSE p[k + 1] = q[k] + w[n]}
<1>4. 0 \in P
  BY <1>1, <1>2, <1>3 DEF Sums
<1>5. ASSUME NEW k \in P PROVE k + 1 \in P
  <2> SUFFICES ASSUME k + 1 \in 0..Len(v)
               PROVE  IF k + 1 < n THEN p[k + 1] = q[k + 1]
                      ELSE p[k + 1 + 1] = q[k + 1] + w[n]
    OBVIOUS
  <2>1. /\ k \in Nat /\ k + 1 \in 1..Len(v) /\ k \in 0..Len(v) /\ k + 1 - 1 = k
        /\ k + 1 \in 1..Len(w) /\ k + 2 \in 1..Len(w) /\ k + 2 - 1 = k + 1
        /\ k + 1 + 1 = k + 2 /\ k + 1 \in 0..Len(w)
    <3>1. k \in Nat /\ k + 1 <= Len(v) /\ Len(w) = Len(v) + 1
      BY <1>1
    <3>2. k + 1 - 1 = k /\ k + 2 - 1 = k + 1 /\ k + 1 + 1 = k + 2
      BY <3>1
    <3>3. k + 1 \in 1..Len(v) /\ k \in 0..Len(v)
      BY <1>1, <3>1
    <3>4. k + 1 \in 1..Len(w) /\ k + 2 \in 1..Len(w) /\ k + 1 \in 0..Len(w)
      BY <1>1, <3>1
    <3> QED
      BY <3>1, <3>2, <3>3, <3>4
  <2>2. q[k + 1] = q[k] + v[k + 1] /\ q[k] \in Nat
    <3>0. \A i \in 1..Len(v) : q[i] = q[i - 1] + v[i]
      BY ONLY <1>3 DEF Sums
    <3>1. q[k + 1] = q[k + 1 - 1] + v[k + 1]
      BY ONLY <2>1, <3>0
    <3>2. q[k] \in Nat
      BY <1>3, <2>1 DEF Sums
    <3> QED
      BY <2>1, <3>1, <3>2
  <2>3. p[k + 1] = p[k] + w[k + 1] /\ p[k + 2] = p[k + 1] + w[k + 2]
    BY <1>2, <2>1 DEF Sums
  <2>4. v[k + 1] = IF k + 1 < n THEN w[k + 1] ELSE w[k + 2]
    BY <2>1
  <2>5. w[k + 1] \in Nat /\ w[k + 2] \in Nat /\ w[n] \in Nat
    BY <1>1, <2>1
  <2>6. CASE k + 1 < n
    <3>1. k < n
      BY <1>1, <2>1, <2>6
    <3>2. p[k] = q[k]
      BY <2>1, <3>1
    <3> QED
      BY <2>2, <2>3, <2>4, <2>6, <3>2
  <2>7. CASE k + 1 = n
    <3>1. k < n /\ p[k] = q[k]
      BY <1>1, <2>1, <2>7
    <3>2. p[k + 2] = q[k] + w[n] + w[k + 2]
      BY <2>3, <2>7, <3>1
    <3>3. q[k + 1] = q[k] + w[k + 2]
      BY <2>2, <2>4, <2>7
    <3>4. p[k + 2] = q[k + 1] + w[n] /\ ~(k + 1 < n)
      BY <1>1, <2>2, <2>5, <2>7, <3>2, <3>3, SMTT(30)
    <3> QED
      BY <2>1, <3>4
  <2>8. CASE k + 1 > n
    <3>1. ~(k < n) /\ ~(k + 1 < n)
      BY <1>1, <2>1, <2>8
    <3>2. p[k + 1] = q[k] + w[n]
      BY <2>1, <3>1
    <3>3. p[k + 2] = q[k] + w[n] + w[k + 2] /\ q[k + 1] = q[k] + w[k + 2]
      BY <2>2, <2>3, <2>4, <3>1, <3>2
    <3>4. p[k + 2] = q[k + 1] + w[n]
      BY <1>1, <2>2, <2>5, <3>3, SMTT(30)
    <3> QED
      BY <2>1, <3>1, <3>4
  <2> QED
    BY <1>1, <2>1, <2>6, <2>7, <2>8
<1>6. P = Nat
  <2> HIDE DEF P
  <2>1. P \subseteq Nat
    BY DEF P
  <2> QED
    BY <1>4, <1>5, <2>1, Induction
<1>7. CASE n = Len(w)
  <2>1. Len(v) < n /\ Len(v) \in 0..Len(v) /\ n - 1 = Len(v)
    BY <1>1, <1>7
  <2>2. p[Len(v)] = q[Len(v)]
    BY <1>1, <1>6, <2>1
  <2>3. p[n] = p[Len(v)] + w[n]
    BY <1>2, <2>1 DEF Sums
  <2> QED
    BY <1>2, <1>3, <1>7, <2>2, <2>3
<1>8. CASE n # Len(w)
  <2>1. ~(Len(v) < n) /\ Len(v) \in 0..Len(v) /\ Len(v) + 1 = Len(w)
    BY <1>1, <1>8
  <2>2. p[Len(v) + 1] = q[Len(v)] + w[n]
    BY <1>1, <1>6, <2>1
  <2> QED
    BY <1>2, <1>3, <2>1, <2>2
<1> QED
  BY <1>7, <1>8
=============================================================================
