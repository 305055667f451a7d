----------------------------- MODULE ListTheorems -----------------------------
(***************************************************************************)
(* Facts about the folds, sums, concatenations, selections and rankings of *)
(* lists that the models are built from.                                   *)
(*                                                                         *)
(* Induction is on sets of natural numbers: the numbers that an assertion  *)
(* fails for have a least one.                                             *)
(***************************************************************************)
EXTENDS Lists, FiniteSetTheorems, SequenceTheorems,
        WellFoundedInduction, TLAPS

------------------------------------------------------------------------------
(* Induction.                                                              *)

\* A set of natural numbers has a least element.
LEMMA LeastNumber ==
  ASSUME NEW T \in SUBSET Nat, T # {}
  PROVE  \E x \in T : \A y \in T : x <= y
<1>1. PICK x \in T : \A y \in T : ~(<<y, x>> \in OpToRel(<, Nat))
  BY NatLessThanWellFounded, WFMin
<1>2. ASSUME NEW y \in T PROVE x <= y
  <2>1. <<y, x>> \in Nat \X Nat
    OBVIOUS
  <2>2. ~(y < x)
    BY <1>1, <2>1 DEF OpToRel
  <2> QED
    BY <2>2
<1> QED
  BY <1>2

\* What holds of 0 and is handed on holds up to n.
LEMMA Upto ==
  ASSUME NEW n \in Nat, NEW T, 0 \in T, \A k \in 0..n : k < n /\ k \in T => k + 1 \in T
  PROVE  \A k \in 0..n : k \in T
<1> DEFINE Bad == {k \in 0..n : k \notin T}
<1> SUFFICES ASSUME Bad # {} PROVE FALSE
  OBVIOUS
<1>1. PICK x \in Bad : \A y \in Bad : x <= y
  <2>1. Bad \in SUBSET Nat
    OBVIOUS
  <2> HIDE DEF Bad
  <2> QED
    BY <2>1, LeastNumber
<1>2. x \in 0..n /\ x # 0
  OBVIOUS
<1>3. x - 1 \in 0..n /\ x - 1 < n /\ ~(x <= x - 1)
  BY <1>2
<1>4. x - 1 \in T
  BY <1>1, <1>3
<1>5. (x - 1) + 1 \in T
  BY <1>3, <1>4
<1>6. (x - 1) + 1 = x
  BY <1>2
<1> QED
  BY <1>5, <1>6

\* A set of numbers up to n has a greatest.
LEMMA MaxOfSome ==
  ASSUME NEW n \in Nat, NEW S \in SUBSET (1..n), S # {}
  PROVE  Max(S) \in S /\ \A y \in S : Max(S) >= y
<1> DEFINE T == {n - y : y \in S}
<1>1. PICK t \in T : \A u \in T : t <= u
  <2>1. \A y \in S : n - y \in Nat
    OBVIOUS
  <2>2. T \in SUBSET Nat /\ T # {}
    BY <2>1
  <2> HIDE DEF T
  <2> QED
    BY <2>2, LeastNumber
<1>2. PICK x \in S : t = n - x
  OBVIOUS
<1>3. ASSUME NEW y \in S PROVE x >= y
  <2>1. n - y \in T
    OBVIOUS
  <2>2. n - x <= n - y
    BY <1>1, <1>2, <2>1
  <2> QED
    BY <2>2
<1> QED
  BY <1>3 DEF Max

\* The first k of n.
LEMMA Initial ==
  ASSUME NEW n \in Nat, NEW k \in 1..n
  PROVE  /\ Max(1..k) = k /\ (1..k) \ {Max(1..k)} = 1..(k - 1)
         /\ 1..k \in SUBSET (1..n) /\ 1..k # {}
<1>1. 1..k \in SUBSET (1..n) /\ k \in 1..k
  OBVIOUS
<1>2. Max(1..k) \in 1..k /\ Max(1..k) >= k
  BY <1>1, MaxOfSome
<1>3. Max(1..k) = k
  BY <1>2
<1> QED
  BY <1>1, <1>3

------------------------------------------------------------------------------
(* Folds.                                                                  *)

\* A step that can be folded over n numbers, and what the fold iterates.
Foldable(n, A, base, step) == n \in Nat /\ base \in A /\ step \in [A \X (1..n) -> A]

Folds(it, n, A, base, step) ==
  /\ it \in [SUBSET (1..n) -> A] /\ it[{}] = base
  /\ \A S \in SUBSET (1..n) : S # {} => it[S] = step[<<it[S \ {Max(S)}], Max(S)>>]

\* What a fold iterates exists, whatever the step.
LEMMA FoldExists ==
  ASSUME NEW n, NEW A, NEW base, NEW step, Foldable(n, A, base, step)
  PROVE  \E it : Folds(it, n, A, base, step)
<1> DEFINE Good(it, k) ==
             /\ it[{}] = base
             /\ \A S \in SUBSET (1..k) : S # {} => it[S] = step[<<it[S \ {Max(S)}], Max(S)>>]
           T == {k \in 0..n : \E it \in [SUBSET (1..k) -> A] : Good(it, k)}
<1> USE DEF Foldable
<1>1. 0 \in T
  <2> DEFINE it == [S \in SUBSET (1..0) |-> base]
  <2>1. it \in [SUBSET (1..0) -> A]
    OBVIOUS
  <2>2. \A S \in SUBSET (1..0) : S = {}
    OBVIOUS
  <2>3. Good(it, 0)
    BY <2>2
  <2>4. 0 \in 0..n
    OBVIOUS
  <2> HIDE DEF it, Good
  <2> QED
    BY <2>1, <2>3, <2>4
<1>2. ASSUME NEW k \in 0..n, k < n, k \in T PROVE k + 1 \in T
  <2>1. PICK it \in [SUBSET (1..k) -> A] : Good(it, k)
    BY <1>2
  <2> DEFINE m == k + 1
             next == [S \in SUBSET (1..m) |->
                        IF m \in S THEN step[<<it[S \ {m}], m>>] ELSE it[S]]
  <2>2. m \in 1..n /\ m \in 0..n /\ m \notin 1..k
    BY <1>2
  <2>3. \A S \in SUBSET (1..m) : S \ {m} \in SUBSET (1..k)
    OBVIOUS
  <2>4. \A S \in SUBSET (1..m) : m \notin S => S \in SUBSET (1..k)
    OBVIOUS
  <2>5. ASSUME NEW S \in SUBSET (1..m)
        PROVE  (IF m \in S THEN step[<<it[S \ {m}], m>>] ELSE it[S]) \in A
    <3>1. CASE m \in S
      <4>1. it[S \ {m}] \in A
        BY <2>3
      <4> QED
        BY <2>2, <3>1, <4>1
    <3>2. CASE m \notin S
      BY <2>4, <3>2
    <3> QED
      BY <3>1, <3>2
  <2>6. next \in [SUBSET (1..m) -> A]
    BY <2>5
  <2>7. ASSUME NEW S \in SUBSET (1..m)
        PROVE  S # {} => next[S] = step[<<next[S \ {Max(S)}], Max(S)>>]
    <3>1. CASE m \in S
      <4>1. Max(S) = m
        <5>1. m \in Nat /\ S # {}
          BY <3>1
        <5>2. Max(S) \in S /\ \A y \in S : Max(S) >= y
          BY <5>1, MaxOfSome
        <5>3. Max(S) \in 1..m /\ Max(S) >= m
          BY <3>1, <5>2
        <5> QED
          BY <5>1, <5>3
      <4>2. S \ {m} \in SUBSET (1..m) /\ m \notin S \ {m}
        OBVIOUS
      <4>3. next[S \ {m}] = it[S \ {m}]
        BY <4>2
      <4> QED
        BY <3>1, <4>1, <4>3
    <3>2. CASE m \notin S
      <4>1. S \in SUBSET (1..k) /\ next[S] = it[S]
        BY <2>4, <3>2
      <4>2. S \ {Max(S)} \in SUBSET (1..m) /\ m \notin S \ {Max(S)}
        BY <3>2
      <4>3. next[S \ {Max(S)}] = it[S \ {Max(S)}]
        BY <4>2
      <4> QED
        BY <2>1, <4>1, <4>3
    <3> QED
      BY <3>1, <3>2
  <2>8. Good(next, m)
    <3>1. {} \in SUBSET (1..m) /\ {} \in SUBSET (1..k) /\ m \notin {}
      OBVIOUS
    <3>2. next[{}] = base
      BY <2>1, <3>1
    <3> QED
      BY <2>7, <3>2
  <2> HIDE DEF next, Good
  <2> QED
    BY <2>2, <2>6, <2>8
<1>3. n \in T
  <2> HIDE DEF T
  <2>1. \A k \in 0..n : k \in T
    BY <1>1, <1>2, Upto
  <2> QED
    BY <2>1
<1> QED
  BY <1>3 DEF Folds

------------------------------------------------------------------------------
(* Sums.                                                                   *)

\* The sum of a list of numbers, one after the other.
LEMMA SumRuns ==
  ASSUME NEW s \in Seq(Int)
  PROVE  \E run \in [0..Len(s) -> Int] :
           /\ run[0] = 0 /\ \A k \in 1..Len(s) : run[k] = run[k - 1] + s[k]
           /\ Total(s) = run[Len(s)]
<1> DEFINE n == Len(s)
           Is(it) == it = [S \in SUBSET (1..n) |->
                             IF S = {} THEN 0 ELSE it[S \ {Max(S)}] + s[Max(S)]]
           step == [x \in Int \X (1..n) |-> x[1] + s[x[2]]]
           it == CHOOSE i : Is(i)
           run == [k \in 0..n |-> it[1..k]]
<1>1. n \in Nat /\ DOMAIN s = 1..n /\ \A k \in 1..n : s[k] \in Int
  OBVIOUS
<1>2. Is(it)
  <2>1. step \in [Int \X (1..n) -> Int] /\ 0 \in Int
    BY <1>1
  <2>2. PICK i : Folds(i, n, Int, 0, step)
    <3> HIDE DEF step
    <3>1. Foldable(n, Int, 0, step)
      BY <1>1, <2>1 DEF Foldable
    <3> QED
      BY <3>1, FoldExists
  <2>3. ASSUME NEW S \in SUBSET (1..n), S # {}
        PROVE  i[S] = i[S \ {Max(S)}] + s[Max(S)]
    <3>1. Max(S) \in S
      BY <1>1, <2>3, MaxOfSome
    <3>2. Max(S) \in 1..n /\ i[S \ {Max(S)}] \in Int
      BY <2>2, <3>1 DEF Folds
    <3> QED
      BY <2>2, <2>3, <3>2 DEF Folds
  <2>4. Is(i)
    BY <2>2, <2>3 DEF Folds
  <2> QED
    BY <2>4
<1>3. Total(s) = it[1..n]
  BY <1>1 DEF Total, FoldLeft, MapThenFoldSet
<1> HIDE DEF it
<1>4. run[0] = 0
  <2>1. {} \in SUBSET (1..n) /\ 1..0 = {}
    OBVIOUS
  <2> QED
    BY <1>1, <1>2, <2>1
<1>5. ASSUME NEW k \in 1..n PROVE run[k] = run[k - 1] + s[k]
  <2>1. it[1..k] = it[1..(k - 1)] + s[k]
    BY <1>1, <1>2, Initial
  <2>2. k \in 0..n /\ k - 1 \in 0..n
    BY <1>1
  <2> QED
    BY <2>1, <2>2
<1>6. \A k \in 0..n : k \in {j \in 0..n : run[j] \in Int}
  <2> DEFINE T == {j \in 0..n : run[j] \in Int}
  <2>1. 0 \in T
    BY <1>1, <1>4
  <2>2. ASSUME NEW k \in 0..n, k < n, k \in T PROVE k + 1 \in T
    <3>1. k + 1 \in 1..n /\ k + 1 \in 0..n /\ (k + 1) - 1 = k
      BY <1>1, <2>2
    <3>2. run[k + 1] = run[k] + s[k + 1]
      BY <1>5, <3>1
    <3> HIDE DEF run
    <3> QED
      BY <1>1, <2>2, <3>1, <3>2
  <2>3. n \in Nat
    BY <1>1
  <2> HIDE DEF T, n, run
  <2>4. \A k \in 0..n : k \in T
    BY <2>1, <2>2, <2>3, Upto
  <2> QED
    BY <2>4 DEF T
<1>7. run \in [0..n -> Int]
  BY <1>6
<1>8. Total(s) = run[n]
  BY <1>1, <1>3
<1> HIDE DEF run
<1> QED
  BY <1>4, <1>5, <1>7, <1>8

\* A sum is a number; a list that is nowhere larger has no larger sum.
LEMMA TotalIsNumber ==
  ASSUME NEW s \in Seq(Int)
  PROVE  Total(s) \in Int
BY SumRuns

\* A list that is smaller everywhere has the smaller sum.
LEMMA TotalGrows ==
  ASSUME NEW s \in Seq(Int), NEW t \in Seq(Int), Len(s) = Len(t),
         \A k \in 1..Len(s) : s[k] <= t[k]
  PROVE  Total(s) <= Total(t)
<1> DEFINE n == Len(s)
<1>1. PICK p \in [0..n -> Int] :
        /\ p[0] = 0 /\ \A k \in 1..n : p[k] = p[k - 1] + s[k]
        /\ Total(s) = p[n]
  BY SumRuns
<1>2. PICK q \in [0..n -> Int] :
        /\ q[0] = 0 /\ \A k \in 1..n : q[k] = q[k - 1] + t[k]
        /\ Total(t) = q[n]
  BY SumRuns
<1> DEFINE T == {k \in 0..n : p[k] <= q[k]}
<1>3. n \in Nat /\ \A k \in 1..n : s[k] \in Int /\ t[k] \in Int
  OBVIOUS
<1>4. 0 \in T
  BY <1>1, <1>2, <1>3
<1>5. ASSUME NEW k \in 0..n, k < n, k \in T PROVE k + 1 \in T
  <2>1. k + 1 \in 1..n /\ (k + 1) - 1 = k
    BY <1>3, <1>5
  <2>2. p[k + 1] = p[k] + s[k + 1] /\ q[k + 1] = q[k] + t[k + 1]
    BY <1>1, <1>2, <2>1
  <2>3. s[k + 1] <= t[k + 1] /\ p[k] <= q[k] /\ p[k] \in Int /\ q[k] \in Int
    BY <1>1, <1>2, <1>5, <2>1
  <2> QED
    BY <1>3, <2>1, <2>2, <2>3
<1> HIDE DEF n, T
<1>6. n \in T
  <2>1. \A k \in 0..n : k \in T
    BY <1>3, <1>4, <1>5, Upto
  <2> QED
    BY <1>3, <2>1
<1> QED
  BY <1>1, <1>2, <1>6 DEF T

\* The sum of two lists, element by element.
LEMMA TotalAdds ==
  ASSUME NEW s \in Seq(Int), NEW t \in Seq(Int), Len(s) = Len(t)
  PROVE  /\ [k \in 1..Len(s) |-> s[k] + t[k]] \in Seq(Int)
         /\ Total([k \in 1..Len(s) |-> s[k] + t[k]]) = Total(s) + Total(t)
<1> DEFINE n == Len(s)
           both == [k \in 1..n |-> s[k] + t[k]]
<1>1. /\ n \in Nat /\ both \in Seq(Int) /\ Len(both) = n
      /\ \A k \in 1..n : s[k] \in Int /\ t[k] \in Int /\ both[k] = s[k] + t[k]
  OBVIOUS
<1>2. PICK p \in [0..n -> Int] :
        /\ p[0] = 0 /\ \A k \in 1..n : p[k] = p[k - 1] + s[k]
        /\ Total(s) = p[n]
  BY SumRuns
<1>3. PICK q \in [0..n -> Int] :
        /\ q[0] = 0 /\ \A k \in 1..n : q[k] = q[k - 1] + t[k]
        /\ Total(t) = q[n]
  BY SumRuns
<1>4. PICK r \in [0..n -> Int] :
        /\ r[0] = 0 /\ \A k \in 1..n : r[k] = r[k - 1] + both[k]
        /\ Total(both) = r[n]
  <2> HIDE DEF both
  <2> QED
    BY <1>1, SumRuns
<1> DEFINE T == {k \in 0..n : r[k] = p[k] + q[k]}
<1> HIDE DEF both, n
<1>5. 0 \in T
  BY <1>1, <1>2, <1>3, <1>4
<1>6. ASSUME NEW k \in 0..n, k < n, k \in T PROVE k + 1 \in T
  <2>1. k + 1 \in 1..n /\ k + 1 \in 0..n /\ (k + 1) - 1 = k
    BY <1>1, <1>6
  <2>2. p[k + 1] = p[k] + s[k + 1] /\ q[k + 1] = q[k] + t[k + 1] /\ r[k + 1] = r[k] + both[k + 1]
    BY <1>2, <1>3, <1>4, <2>1
  <2>3. /\ s[k + 1] \in Int /\ t[k + 1] \in Int /\ both[k + 1] = s[k + 1] + t[k + 1]
        /\ p[k] \in Int /\ q[k] \in Int /\ r[k] = p[k] + q[k]
    BY <1>1, <1>2, <1>3, <1>6, <2>1
  <2>4. r[k + 1] = p[k + 1] + q[k + 1]
    BY <2>2, <2>3
  <2> QED
    BY <2>1, <2>4
<1> HIDE DEF T
<1>7. n \in T
  <2>1. \A k \in 0..n : k \in T
    BY <1>1, <1>5, <1>6, Upto
  <2> QED
    BY <1>1, <2>1
<1>8. Total(both) = Total(s) + Total(t)
  BY <1>2, <1>3, <1>4, <1>7 DEF T
<1> QED
  BY <1>1, <1>8 DEF n, both

\* A list of zeros, and lists that are nowhere below zero or above it.
LEMMA TotalOfZeros ==
  ASSUME NEW n \in Nat
  PROVE  Total([k \in 1..n |-> 0]) = 0
<1> DEFINE z == [k \in 1..n |-> 0]
           both == [k \in 1..Len(z) |-> z[k] + z[k]]
<1>1. z \in Seq(Int) /\ Len(z) = n /\ both = z
  OBVIOUS
<1> HIDE DEF z
<1>2. Total(both) = Total(z) + Total(z)
  BY <1>1, TotalAdds
<1>3. Total(z) \in Int
  BY <1>1, TotalIsNumber
<1> QED
  BY <1>1, <1>2, <1>3 DEF z

\* The sum of numbers of one sign has that sign.
LEMMA TotalSign ==
  ASSUME NEW s \in Seq(Int)
  PROVE  /\ (\A k \in 1..Len(s) : s[k] >= 0) => Total(s) >= 0
         /\ (\A k \in 1..Len(s) : s[k] <= 0) => Total(s) <= 0
<1> DEFINE z == [k \in 1..Len(s) |-> 0]
<1>1. z \in Seq(Int) /\ Len(z) = Len(s) /\ \A k \in 1..Len(s) : z[k] = 0
  OBVIOUS
<1>2. Total(z) = 0
  <2>1. Len(s) \in Nat
    OBVIOUS
  <2> QED
    BY <2>1, TotalOfZeros
<1> HIDE DEF z
<1>3. ASSUME \A k \in 1..Len(s) : s[k] >= 0 PROVE Total(s) >= 0
  <2>1. \A k \in 1..Len(z) : z[k] <= s[k]
    BY <1>1, <1>3
  <2>2. Total(z) <= Total(s)
    BY <1>1, <2>1, TotalGrows
  <2>3. Total(s) \in Int
    BY TotalIsNumber
  <2> QED
    BY <1>2, <2>2, <2>3
<1>4. ASSUME \A k \in 1..Len(s) : s[k] <= 0 PROVE Total(s) <= 0
  <2>1. \A k \in 1..Len(s) : s[k] <= z[k]
    BY <1>1, <1>4
  <2>2. Total(s) <= Total(z)
    BY <1>1, <2>1, TotalGrows
  <2> QED
    BY <1>2, <2>2
<1> QED
  BY <1>3, <1>4

\* A list that starts above zero and never goes below has a sum above zero.
LEMMA TotalIsPositive ==
  ASSUME NEW s \in Seq(Int), s # <<>>, \A k \in 1..Len(s) : s[k] > 0
  PROVE  Total(s) > 0
<1> DEFINE n == Len(s)
<1>1. PICK p \in [0..n -> Int] :
        /\ p[0] = 0 /\ \A k \in 1..n : p[k] = p[k - 1] + s[k]
        /\ Total(s) = p[n]
  BY SumRuns
<1> DEFINE T == {k \in 0..n : k = 0 \/ p[k] > 0}
<1>2. n \in Nat /\ n # 0 /\ \A k \in 1..n : s[k] \in Int /\ s[k] > 0
  OBVIOUS
<1> HIDE DEF n
<1>3. 0 \in T
  BY <1>2
<1>4. ASSUME NEW k \in 0..n, k < n, k \in T PROVE k + 1 \in T
  <2>1. k + 1 \in 1..n /\ k + 1 \in 0..n /\ (k + 1) - 1 = k
    BY <1>2, <1>4
  <2>2. p[k + 1] = p[k] + s[k + 1] /\ p[k] \in Int /\ p[k] >= 0
    BY <1>1, <1>4, <2>1
  <2>3. s[k + 1] \in Int /\ s[k + 1] > 0
    BY <1>2, <2>1
  <2> QED
    BY <2>1, <2>2, <2>3
<1> HIDE DEF T
<1>5. n \in T
  <2>1. \A k \in 0..n : k \in T
    BY <1>2, <1>3, <1>4, Upto
  <2> QED
    BY <1>2, <2>1
<1> QED
  BY <1>1, <1>2, <1>5 DEF T

------------------------------------------------------------------------------
(* Concatenations.                                                         *)

\* What is in two lists is in their concatenation.
LEMMA ElementsOfBoth ==
  ASSUME NEW A, NEW a \in Seq(A), NEW b \in Seq(A)
  PROVE  a \o b \in Seq(A) /\ ToSet(a \o b) = ToSet(a) \cup ToSet(b)
<1>1. /\ Len(a) \in Nat /\ Len(b) \in Nat /\ Len(a \o b) = Len(a) + Len(b)
      /\ a \o b \in Seq(A)
      /\ DOMAIN a = 1..Len(a) /\ DOMAIN b = 1..Len(b) /\ DOMAIN (a \o b) = 1..(Len(a) + Len(b))
  OBVIOUS
<1>2. \A i \in 1..Len(a) : i \in 1..(Len(a) + Len(b)) /\ (a \o b)[i] = a[i]
  BY <1>1
<1>3. \A i \in 1..Len(b) : Len(a) + i \in 1..(Len(a) + Len(b)) /\ (a \o b)[Len(a) + i] = b[i]
  BY <1>1
<1>4. ASSUME NEW x \in ToSet(a \o b) PROVE x \in ToSet(a) \cup ToSet(b)
  <2>1. PICK i \in 1..(Len(a) + Len(b)) : x = (a \o b)[i]
    BY <1>1 DEF ToSet
  <2>2. CASE i \in 1..Len(a)
    BY <1>1, <1>2, <2>1, <2>2 DEF ToSet
  <2>3. CASE i \notin 1..Len(a)
    <3>1. i - Len(a) \in 1..Len(b) /\ Len(a) + (i - Len(a)) = i
      BY <1>1, <2>3
    <3>2. x = b[i - Len(a)]
      BY <1>3, <2>1, <3>1
    <3> QED
      BY <1>1, <3>1, <3>2 DEF ToSet
  <2> QED
    BY <2>2, <2>3
<1>5. \A x \in ToSet(a) : x \in ToSet(a \o b)
  BY <1>1, <1>2 DEF ToSet
<1>6. \A x \in ToSet(b) : x \in ToSet(a \o b)
  BY <1>1, <1>3 DEF ToSet
<1> QED
  BY <1>1, <1>4, <1>5, <1>6

\* Lists, one after the other, have the elements of all of them.
LEMMA FlattenHas ==
  ASSUME NEW A, NEW ss \in Seq(Seq(A))
  PROVE  /\ FlattenSeq(ss) \in Seq(A)
         /\ ToSet(FlattenSeq(ss)) = UNION {ToSet(ss[i]) : i \in DOMAIN ss}
<1> DEFINE n == Len(ss)
           Is(f) == f = [i \in 1..n |-> IF i = 1 THEN ss[i] ELSE f[i - 1] \o ss[i]]
           step == [x \in Seq(A) \X (1..n) |-> x[1] \o ss[x[2]]]
           flatten == CHOOSE f : Is(f)
<1>1. n \in Nat /\ DOMAIN ss = 1..n /\ \A k \in 1..n : ss[k] \in Seq(A)
  OBVIOUS
<1>2. CASE n = 0
  <2>1. ss = <<>> /\ DOMAIN ss = {} /\ FlattenSeq(ss) = ss
    BY <1>2 DEF FlattenSeq
  <2>2. ToSet(ss) = {} /\ UNION {ToSet(ss[i]) : i \in {}} = {}
    BY <2>1 DEF ToSet
  <2>3. <<>> \in Seq(A)
    OBVIOUS
  <2> QED
    BY <2>1, <2>2, <2>3
<1>3. CASE n # 0
  <2>1. Is(flatten)
    <3>1. PICK it : Folds(it, n, Seq(A), <<>>, step)
      <4>1. step \in [Seq(A) \X (1..n) -> Seq(A)] /\ <<>> \in Seq(A)
        <5>1. ASSUME NEW x \in Seq(A) \X (1..n) PROVE x[1] \o ss[x[2]] \in Seq(A)
          <6>1. x[1] \in Seq(A) /\ ss[x[2]] \in Seq(A)
            BY <1>1
          <6> QED
            BY <6>1, ElementsOfBoth
        <5> QED
          BY <5>1
      <4> HIDE DEF step
      <4>2. Foldable(n, Seq(A), <<>>, step)
        BY <1>1, <4>1 DEF Foldable
      <4> QED
        BY <4>2, FoldExists
    <3> DEFINE f == [i \in 1..n |-> it[1..i]]
    <3>2. ASSUME NEW i \in 1..n
          PROVE  it[1..i] = it[1..(i - 1)] \o ss[i] /\ it[1..(i - 1)] \in Seq(A)
      <4>1. 1..i \in SUBSET (1..n) /\ 1..i # {} /\ Max(1..i) = i /\ (1..i) \ {i} = 1..(i - 1)
        BY <1>1, Initial
      <4>2. 1..(i - 1) \in SUBSET (1..n)
        BY <1>1
      <4>3. it[1..i] = step[<<it[1..(i - 1)], i>>] /\ it[1..(i - 1)] \in Seq(A)
        BY <3>1, <4>1, <4>2 DEF Folds
      <4> QED
        BY <4>3
    <3>3. it[{}] = <<>>
      BY <3>1 DEF Folds
    <3>4. ASSUME NEW i \in 1..n
          PROVE  f[i] = IF i = 1 THEN ss[i] ELSE f[i - 1] \o ss[i]
      <4>1. CASE i = 1
        <5>1. it[1..1] = <<>> \o ss[1]
          <6>1. 1..(1 - 1) = {}
            OBVIOUS
          <6> QED
            BY <3>2, <3>3, <4>1, <6>1
        <5>2. ss[1] \in Seq(A)
          BY <1>1, <4>1
        <5>3. <<>> \o ss[1] = ss[1]
          BY <5>2
        <5> QED
          BY <4>1, <5>1, <5>3
      <4>2. CASE i # 1
        <5>1. i - 1 \in 1..n
          BY <1>1, <4>2
        <5> QED
          BY <3>2, <4>2, <5>1
      <4> QED
        BY <4>1, <4>2
    <3>5. Is(f)
      BY <3>4
    <3> HIDE DEF f
    <3> QED
      BY <3>5
  <2>2. FlattenSeq(ss) = flatten[n]
    BY <1>3 DEF FlattenSeq
  <2> HIDE DEF flatten
  <2> DEFINE Good(k) == /\ flatten[k] \in Seq(A)
                        /\ \A x : x \in ToSet(flatten[k]) <=> \E i \in 1..k : x \in ToSet(ss[i])
             T == {k \in 0..n : k = 0 \/ Good(k)}
  <2>3. 0 \in T
    BY <1>1
  <2>4. ASSUME NEW k \in 0..n, k < n, k \in T PROVE k + 1 \in T
    <3>1. k + 1 \in 1..n /\ k + 1 \in 0..n /\ ss[k + 1] \in Seq(A)
      BY <1>1, <2>4
    <3>2. CASE k = 0
      <4>1. flatten[1] = ss[1] /\ k + 1 = 1
        BY <2>1, <3>1, <3>2
      <4>2. \A i \in 1..1 : i = 1
        OBVIOUS
      <4>3. \A x : x \in ToSet(ss[1]) <=> \E i \in 1..1 : x \in ToSet(ss[i])
        BY <4>2
      <4>4. Good(k + 1)
        BY <3>1, <4>1, <4>3
      <4> QED
        BY <3>1, <4>4
    <3>3. CASE k # 0
      <4>1. k \in 1..n /\ (k + 1) - 1 = k /\ k + 1 # 1
        BY <1>1, <3>3
      <4>2. flatten[k + 1] = flatten[k] \o ss[k + 1]
        BY <2>1, <3>1, <4>1
      <4>3. Good(k)
        BY <2>4, <3>3
      <4>4. /\ flatten[k] \o ss[k + 1] \in Seq(A)
            /\ ToSet(flatten[k] \o ss[k + 1]) = ToSet(flatten[k]) \cup ToSet(ss[k + 1])
        BY <3>1, <4>3, ElementsOfBoth
      <4>5. 1..(k + 1) = (1..k) \cup {k + 1}
        BY <4>1
      <4>6. \A x : (\E i \in 1..(k + 1) : x \in ToSet(ss[i]))
                     <=> (\E i \in 1..k : x \in ToSet(ss[i])) \/ x \in ToSet(ss[k + 1])
        BY <4>5, Zenon
      <4>7. Good(k + 1)
        BY <4>2, <4>3, <4>4, <4>6
      <4> QED
        BY <3>1, <4>7
    <3> QED
      BY <3>2, <3>3
  <2> HIDE DEF T
  <2>5. n \in T
    <3>1. \A k \in 0..n : k \in T
      BY <1>1, <2>3, <2>4, Upto
    <3> QED
      BY <1>1, <3>1
  <2>6. Good(n)
    BY <1>3, <2>5 DEF T
  <2>7. ToSet(flatten[n]) = UNION {ToSet(ss[i]) : i \in 1..n}
    BY <2>6
  <2> QED
    BY <1>1, <2>2, <2>6, <2>7
<1> QED
  BY <1>2, <1>3
------------------------------------------------------------------------------
(* Least and greatest elements, and ranks.                                 *)

\* The least of a set of natural numbers is in it.
LEMMA MinOfSome ==
  ASSUME NEW S \in SUBSET Nat, S # {}
  PROVE  Min(S) \in S /\ \A y \in S : Min(S) <= y
<1>1. \E x \in S : \A y \in S : x <= y
  BY LeastNumber
<1> QED
  BY <1>1 DEF Min

\* Finitely many numbers, listed or not, have a greatest.
LEMMA Highest ==
  ASSUME NEW n \in Nat, n # 0, NEW f \in [1..n -> Nat]
  PROVE  \E i \in 1..n : \A j \in 1..n : f[j] <= f[i]
<1> DEFINE Good(k) == \E i \in 1..k : \A j \in 1..k : f[j] <= f[i]
           T == {k \in 0..n : k = 0 \/ Good(k)}
<1>1. 0 \in T
  OBVIOUS
<1>2. ASSUME NEW k \in 0..n, k < n, k \in T PROVE k + 1 \in T
  <2>1. k + 1 \in 1..n /\ k + 1 \in 0..n /\ f[k + 1] \in Nat /\ 1..(k + 1) = (1..k) \cup {k + 1}
    BY <1>2
  <2>2. CASE k = 0
    <3>1. Good(k + 1)
      BY <2>1, <2>2
    <3> QED
      BY <2>1, <3>1
  <2>3. CASE k # 0
    <3>1. PICK i \in 1..k : \A j \in 1..k : f[j] <= f[i]
      BY <1>2, <2>3
    <3>2. f[i] \in Nat /\ \A j \in 1..k : f[j] \in Nat
      BY <1>2
    <3>3. CASE f[k + 1] <= f[i]
      <4>1. Good(k + 1)
        BY <2>1, <3>1, <3>3
      <4> QED
        BY <2>1, <4>1
    <3>4. CASE ~(f[k + 1] <= f[i])
      <4>1. \A j \in 1..k : f[j] <= f[k + 1]
        BY <2>1, <3>1, <3>2, <3>4
      <4>2. f[k + 1] <= f[k + 1]
        BY <2>1
      <4>3. Good(k + 1)
        BY <2>1, <4>1, <4>2
      <4> QED
        BY <2>1, <4>3
    <3> QED
      BY <3>3, <3>4
  <2> QED
    BY <2>2, <2>3
<1> HIDE DEF T
<1>3. n \in T
  <2>1. \A k \in 0..n : k \in T
    BY <1>1, <1>2, Upto
  <2> QED
    BY <2>1
<1> QED
  BY <1>3 DEF T

\* So is the greatest, if there are finitely many.
LEMMA MaxOfFinite ==
  ASSUME NEW S \in SUBSET Nat, IsFiniteSet(S), S # {}
  PROVE  Max(S) \in S /\ \A y \in S : Max(S) >= y
<1>1. PICK n \in Nat : ExistsSurjection(1..n, S)
  BY FS_NatSurjection
<1>2. PICK f \in Surjection(1..n, S) : TRUE
  BY <1>1 DEF ExistsSurjection
<1>3. f \in [1..n -> Nat] /\ n # 0 /\ \A y \in S : \E j \in 1..n : f[j] = y
  <2>1. f \in [1..n -> S] /\ \A y \in S : \E j \in 1..n : f[j] = y
    BY <1>2 DEF Surjection
  <2>2. f \in [1..n -> Nat]
    BY <2>1
  <2>3. n # 0
    <3>1. 1..0 = {}
      OBVIOUS
    <3> QED
      BY <2>1, <3>1
  <2> QED
    BY <2>1, <2>2, <2>3
<1>4. PICK i \in 1..n : \A j \in 1..n : f[j] <= f[i]
  BY <1>3, Highest
<1>5. f[i] \in S /\ \A y \in S : f[i] >= y
  <2>1. f[i] \in S /\ f[i] \in Nat
    BY <1>2, <1>3 DEF Surjection
  <2>2. ASSUME NEW y \in S PROVE f[i] >= y
    <3>1. PICK j \in 1..n : f[j] = y
      BY <1>3
    <3>2. f[j] <= f[i] /\ f[j] \in Nat
      BY <1>3, <1>4
    <3> QED
      BY <2>1, <3>1, <3>2
  <2> QED
    BY <2>1, <2>2
<1> QED
  BY <1>5 DEF Max

\* R is a strict total order of the finitely many members of I.
Ordered(I, R) ==
  /\ IsFiniteSet(I)
  /\ \A i \in I : <<i, i>> \notin R
  /\ \A i, j \in I : i # j => <<i, j>> \in R \/ <<j, i>> \in R
  /\ \A i, j, k \in I : <<i, j>> \in R /\ <<j, k>> \in R => <<i, k>> \in R

\* rank is how many come before each, and runs through all places.
RanksOf(rank, I, R) ==
  /\ rank \in [I -> Nat]
  /\ \A i \in I : rank[i] < Cardinality(I)
  /\ \A i, j \in I : <<i, j>> \in R => rank[i] < rank[j]
  /\ \A i, j \in I : rank[i] = rank[j] => i = j
  /\ \A r \in 0..(Cardinality(I) - 1) : \E i \in I : rank[i] = r

\* Counting how many come before gives each member a place of its own.
LEMMA Ranks ==
  ASSUME NEW I, NEW R, Ordered(I, R)
  PROVE  RanksOf([i \in I |-> Cardinality({j \in I : <<j, i>> \in R})], I, R)
<1> DEFINE Ahd(i) == {j \in I : <<j, i>> \in R}
           rank == [i \in I |-> Cardinality(Ahd(i))]
           n == Cardinality(I)
<1>1. /\ IsFiniteSet(I)
      /\ \A i \in I : <<i, i>> \notin R
      /\ \A i, j \in I : i # j => <<i, j>> \in R \/ <<j, i>> \in R
      /\ \A i, j, k \in I : <<i, j>> \in R /\ <<j, k>> \in R => <<i, k>> \in R
  BY DEF Ordered
<1>2. n \in Nat
  BY <1>1, FS_CardinalityType
<1>3. ASSUME NEW i \in I
      PROVE  /\ IsFiniteSet(Ahd(i)) /\ Cardinality(Ahd(i)) \in Nat
             /\ Cardinality(Ahd(i)) < n
  <2>1. Ahd(i) \in SUBSET I /\ i \notin Ahd(i)
    BY <1>1
  <2> HIDE DEF Ahd
  <2>2. /\ IsFiniteSet(Ahd(i)) /\ Cardinality(Ahd(i)) <= Cardinality(I)
        /\ Cardinality(I) = Cardinality(Ahd(i)) => I = Ahd(i)
    BY <1>1, <2>1, FS_Subset
  <2>3. Cardinality(Ahd(i)) \in Nat
    BY <2>2, FS_CardinalityType
  <2> QED
    BY <1>2, <2>1, <2>2, <2>3
<1>4. rank \in [I -> Nat] /\ \A i \in I : rank[i] < n
  BY <1>3
<1>5. ASSUME NEW i \in I, NEW j \in I, <<i, j>> \in R
      PROVE  rank[i] < rank[j]
  <2>1. Ahd(i) \in SUBSET Ahd(j) /\ i \in Ahd(j) /\ i \notin Ahd(i)
    BY <1>1, <1>5
  <2>2. IsFiniteSet(Ahd(j)) /\ Cardinality(Ahd(j)) \in Nat /\ Cardinality(Ahd(i)) \in Nat
    BY <1>3
  <2> HIDE DEF Ahd
  <2>3. /\ Cardinality(Ahd(i)) <= Cardinality(Ahd(j))
        /\ Cardinality(Ahd(j)) = Cardinality(Ahd(i)) => Ahd(j) = Ahd(i)
    BY <2>1, <2>2, FS_Subset
  <2> QED
    BY <2>1, <2>2, <2>3
<1>6. ASSUME NEW i \in I, NEW j \in I, rank[i] = rank[j] PROVE i = j
  <2>1. rank[i] \in Nat /\ rank[j] \in Nat
    BY <1>4
  <2>2. ~(rank[i] < rank[j]) /\ ~(rank[j] < rank[i])
    BY <1>6, <2>1
  <2> HIDE DEF rank
  <2> QED
    BY <1>1, <1>5, <2>2
<1> HIDE DEF rank
<1>7. \A r \in 0..(n - 1) : \E i \in I : rank[i] = r
  <2> DEFINE P == 0..(n - 1)
  <2>1. IsFiniteSet(P) /\ Cardinality(P) = n
    <3>1. 0 \in Int /\ n - 1 \in Int
      BY <1>2
    <3>2. IsFiniteSet(P) /\ Cardinality(P) = IF 0 > n - 1 THEN 0 ELSE (n - 1) - 0 + 1
      BY <3>1, FS_Interval
    <3> QED
      BY <1>2, <3>2
  <2>2. rank \in [I -> P]
    <3>1. \A i \in I : rank[i] \in P
      BY <1>2, <1>4
    <3> QED
      BY <1>4, <3>1
  <2> HIDE DEF P
  <2>3. rank \in Injection(I, P)
    BY <1>6, <2>2 DEF Injection, IsInjective
  <2>4. rank \in Surjection(I, P)
    BY <2>1, <2>3, FS_Injection
  <2> QED
    BY <2>4 DEF Surjection, P
<1> HIDE DEF n
<1>8. RanksOf(rank, I, R)
  BY <1>4, <1>5, <1>6, <1>7 DEF RanksOf, n
<1> QED
  BY <1>8 DEF rank

\* The elements at some of a list's indices are as many, and elements of it.
LEMMA SelectedAre ==
  ASSUME NEW S, NEW list \in Seq(S), NEW I \in SUBSET (1..Len(list))
  PROVE  /\ Selected(list, I) \in Seq(S) /\ Len(Selected(list, I)) = Cardinality(I)
         /\ \A n \in 1..Cardinality(I) : \E i \in I : Selected(list, I)[n] = list[i]
<1> DEFINE R == {x \in I \X I : x[1] < x[2]}
           rank == [i \in I |-> Cardinality({j \in I : <<j, i>> \in R})]
           At(n) == CHOOSE i \in I : Cardinality({j \in I : j < i}) = n - 1
           c == Cardinality(I)
<1>1. Len(list) \in Nat /\ \A i \in 1..Len(list) : list[i] \in S
  OBVIOUS
<1>2. IsFiniteSet(1..Len(list))
  BY <1>1, FS_Interval
<1>3. IsFiniteSet(I) /\ c \in Nat
  BY <1>2, FS_Subset, FS_CardinalityType
<1>4. Ordered(I, R)
  <2>1. \A i \in I : i \in Nat
    BY <1>1
  <2> QED
    BY <1>3, <2>1 DEF Ordered
<1>5. RanksOf(rank, I, R)
  BY <1>4, Ranks
<1>6. \A i \in I : rank[i] = Cardinality({j \in I : j < i})
  <2> TAKE i \in I
  <2>1. {j \in I : <<j, i>> \in R} = {j \in I : j < i}
    OBVIOUS
  <2> QED
    BY <2>1
<1> HIDE DEF R, rank, c
<1>7. \A n \in 1..c : At(n) \in I
  <2> TAKE n \in 1..c
  <2>1. n - 1 \in 0..(c - 1)
    BY <1>3
  <2>2. \E i \in I : rank[i] = n - 1
    BY <1>5, <2>1 DEF RanksOf, c
  <2>3. \E i \in I : Cardinality({j \in I : j < i}) = n - 1
    BY <1>6, <2>2
  <2> QED
    BY <2>3, Zenon
<1>8. Selected(list, I) = [n \in 1..c |-> list[At(n)]]
  BY Zenon DEF Selected, c
<1> HIDE DEF At
<1>9. \A n \in 1..c : list[At(n)] \in S
  BY <1>1, <1>7
<1>10. /\ Selected(list, I) \in Seq(S) /\ Len(Selected(list, I)) = c
       /\ \A n \in 1..c : Selected(list, I)[n] = list[At(n)]
  BY <1>3, <1>8, <1>9
<1> QED
  BY <1>7, <1>10 DEF c
==============================================================================
