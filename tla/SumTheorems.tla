---------------------------- MODULE SumTheorems ----------------------------
(***************************************************************************)
(* What SumTo computes, for every function and every number.  Its          *)
(* definition is recursive, so these are inductions; they are done with    *)
(* sets instead of predicates, from the least number that is in a set.     *)
(***************************************************************************)
EXTENDS Integers, Sums, WellFoundedInduction, TLAPS

(* Every set of numbers has a least element: what is wrong of some number  *)
(* is wrong of a first one, which is how the inductions below are done.    *)
LEMMA Least ==
  ASSUME NEW T \in SUBSET Nat, T # {}
  PROVE  \E x \in T : \A y \in T : x <= y
<1>1. PICK x \in T : \A y \in T : ~(<<y, x>> \in OpToRel(<, Nat))
  BY NatLessThanWellFounded, WFMin
<1>2. \A y \in T : ~(y < x)
  BY <1>1 DEF OpToRel
<1> QED
  BY <1>2

(* s is the function SumTo defines by recursion: there is one for every n, *)
(* and those for two n agree.                                              *)
IsSum(s, f, n) == s = [i \in 0 .. n |-> IF i = 0 THEN 0 ELSE s[i - 1] + f[i]]

LEMMA SumExists ==
  ASSUME NEW f, NEW n \in Nat
  PROVE  \E s : IsSum(s, f, n)
<1> DEFINE T == {k \in Nat : ~\E s : IsSum(s, f, k)}
<1> SUFFICES ASSUME T # {} PROVE FALSE
  OBVIOUS
<1>1. PICK k \in T : \A y \in T : k <= y
  BY Least
<1>2. CASE k = 0
  <2>1. IsSum([i \in 0 .. 0 |-> 0], f, 0)
    BY DEF IsSum
  <2> QED
    BY <1>2, <2>1
<1>3. CASE k # 0
  <2>1. k - 1 \in Nat /\ k - 1 \notin T
    BY <1>1, <1>3
  <2>2. PICK s : IsSum(s, f, k - 1)
    BY <2>1
  <2> DEFINE next == [i \in 0 .. k |-> IF i = k THEN s[k - 1] + f[k] ELSE s[i]]
  <2>3. ASSUME NEW i \in 0 .. k
        PROVE  next[i] = IF i = 0 THEN 0 ELSE next[i - 1] + f[i]
    <3>1. CASE i = 0
      BY <1>3, <2>1, <2>2, <3>1 DEF IsSum
    <3>2. CASE i \in 1 .. k - 1
      <4>1. i - 1 \in 0 .. k - 1 /\ i \in 0 .. k - 1 /\ i - 1 # k /\ i # k
        BY <2>1, <3>2
      <4>2. s[i] = s[i - 1] + f[i]
        BY <2>2, <3>2, <4>1 DEF IsSum
      <4> QED
        BY <3>2, <4>1, <4>2
    <3>3. CASE i = k
      BY <1>3, <2>1, <3>3
    <3> QED
      BY <2>1, <3>1, <3>2, <3>3
  <2>4. IsSum(next, f, k)
    BY <2>3 DEF IsSum
  <2> QED
    BY <1>1, <2>4
<1> QED
  BY <1>2, <1>3

LEMMA SumIs ==
  ASSUME NEW f, NEW n \in Nat
  PROVE  \E s : IsSum(s, f, n) /\ SumTo(f, n) = s[n]
BY SumExists DEF SumTo, IsSum

LEMMA SumUnique ==
  ASSUME NEW f, NEW m \in Nat, NEW n \in Nat, NEW s, NEW r,
         IsSum(s, f, m), IsSum(r, f, n), m <= n
  PROVE  s[m] = r[m]
<1> DEFINE T == {k \in 0 .. m : s[k] # r[k]}
<1> SUFFICES ASSUME T # {} PROVE FALSE
  OBVIOUS
<1>1. PICK k \in T : \A y \in T : k <= y
  BY Least, T \in SUBSET Nat
<1>2. s[0] = 0 /\ r[0] = 0
  BY DEF IsSum
<1>3. k # 0 /\ k - 1 \in 0 .. m /\ k - 1 \notin T
  BY <1>1, <1>2
<1>4. s[k] = s[k - 1] + f[k] /\ r[k] = r[k - 1] + f[k]
  BY <1>1, <1>3 DEF IsSum
<1> QED
  BY <1>1, <1>3, <1>4

LEMMA SumStep ==
  ASSUME NEW f
  PROVE  /\ SumTo(f, 0) = 0
         /\ \A n \in Nat : SumTo(f, n + 1) = SumTo(f, n) + f[n + 1]
<1>1. SumTo(f, 0) = 0
  BY SumIs DEF IsSum
<1>2. ASSUME NEW n \in Nat PROVE SumTo(f, n + 1) = SumTo(f, n) + f[n + 1]
  <2>1. PICK s : IsSum(s, f, n) /\ SumTo(f, n) = s[n]
    BY SumIs
  <2>2. PICK r : IsSum(r, f, n + 1) /\ SumTo(f, n + 1) = r[n + 1]
    BY SumIs
  <2>3. s[n] = r[n]
    BY <2>1, <2>2, SumUnique
  <2>4. r[n + 1] = r[n] + f[n + 1]
    BY <2>2 DEF IsSum
  <2> QED
    BY <2>1, <2>2, <2>3, <2>4
<1> QED
  BY <1>1, <1>2

(* Sums of natural numbers are natural, and grow.                          *)
LEMMA SumGrows ==
  ASSUME NEW N \in Nat, NEW f \in [1 .. N -> Nat]
  PROVE  \A n \in 0 .. N : /\ SumTo(f, n) \in Nat
                           /\ \A m \in 0 .. n : SumTo(f, m) <= SumTo(f, n)
<1> DEFINE Grown(n) == /\ SumTo(f, n) \in Nat
                       /\ \A m \in 0 .. n : SumTo(f, m) <= SumTo(f, n)
           T == {n \in 0 .. N : ~Grown(n)}
<1> SUFFICES ASSUME T # {} PROVE FALSE
  OBVIOUS
<1>1. PICK n \in T : \A y \in T : n <= y
  BY Least, T \in SUBSET Nat
<1>2. n # 0
  <2>1. SumTo(f, 0) = 0 /\ \A m \in 0 .. 0 : m = 0
    BY SumStep
  <2>2. Grown(0)
    BY <2>1
  <2> QED
    BY <1>1, <2>2
<1>3. n - 1 \in 0 .. N /\ Grown(n - 1) /\ n \in 1 .. N
  BY <1>1, <1>2
<1>4. SumTo(f, n) = SumTo(f, n - 1) + f[n]
  BY <1>3, SumStep
<1>5. \A m \in 0 .. n : m = n \/ m \in 0 .. n - 1
  BY <1>3
<1>6. f[n] \in Nat
  BY <1>3
<1>7. Grown(n)
  <2>1. SumTo(f, n) \in Nat /\ SumTo(f, n - 1) <= SumTo(f, n)
    BY <1>3, <1>4, <1>6
  <2>2. ASSUME NEW m \in 0 .. n - 1 PROVE SumTo(f, m) <= SumTo(f, n)
    <3>1. SumTo(f, m) \in Nat /\ SumTo(f, m) <= SumTo(f, n - 1)
      BY <1>1, <1>3
    <3> QED
      BY <1>3, <2>1, <3>1
  <2> QED
    BY <1>5, <2>1, <2>2
<1> QED
  BY <1>1, <1>7

-----------------------------------------------------------------------------
(* Sums of zeros and ones, which count.                                    *)

(* Zeros add nothing.                                                      *)
LEMMA SumFlat ==
  ASSUME NEW f, NEW a \in Nat, NEW b \in Nat, a <= b,
         \A k \in a + 1 .. b : f[k] = 0, SumTo(f, a) \in Nat
  PROVE  SumTo(f, b) = SumTo(f, a)
<1> DEFINE T == {k \in a .. b : SumTo(f, k) # SumTo(f, a)}
<1> SUFFICES ASSUME T # {} PROVE FALSE
  OBVIOUS
<1>1. PICK k \in T : \A y \in T : k <= y
  BY Least, T \in SUBSET Nat
<1>2. k # a /\ k \in a + 1 .. b /\ k - 1 \in a .. b /\ k - 1 \notin T /\ k - 1 \in Nat
  BY <1>1
<1>3. SumTo(f, (k - 1) + 1) = SumTo(f, k - 1) + f[(k - 1) + 1]
  BY <1>2, SumStep
<1>4. (k - 1) + 1 = k /\ f[k] = 0 /\ SumTo(f, k - 1) = SumTo(f, a)
  BY <1>2
<1>5. SumTo(f, k) = SumTo(f, a)
  BY <1>3, <1>4
<1> QED
  BY <1>1, <1>5

(* Ones count their places.                                                *)
LEMMA SumOnes ==
  ASSUME NEW f, NEW n \in Nat, \A k \in 1 .. n : f[k] = 1
  PROVE  SumTo(f, n) = n
<1> DEFINE T == {k \in 0 .. n : SumTo(f, k) # k}
<1> SUFFICES ASSUME T # {} PROVE FALSE
  OBVIOUS
<1>1. PICK k \in T : \A y \in T : k <= y
  BY Least, T \in SUBSET Nat
<1>2. k # 0
  BY <1>1, SumStep
<1>3. k \in 1 .. n /\ k - 1 \in 0 .. n /\ k - 1 \notin T /\ k - 1 \in Nat
  BY <1>1, <1>2
<1>4. SumTo(f, (k - 1) + 1) = SumTo(f, k - 1) + f[(k - 1) + 1]
  BY <1>3, SumStep
<1>5. (k - 1) + 1 = k /\ f[k] = 1 /\ SumTo(f, k - 1) = k - 1
  BY <1>3
<1>6. SumTo(f, k) = k
  BY <1>3, <1>4, <1>5
<1> QED
  BY <1>1, <1>6

(* Zeros and ones that add up to their number are all ones.                *)
LEMMA SumFull ==
  ASSUME NEW N \in Nat, NEW f \in [1 .. N -> {0, 1}], SumTo(f, N) = N
  PROVE  \A k \in 1 .. N : f[k] = 1
<1>1. f \in [1 .. N -> Nat]
  OBVIOUS
<1>2. \A n \in 0 .. N : SumTo(f, n) \in Nat
  BY <1>1, SumGrows
<1>3. \A n \in 0 .. N : SumTo(f, n) <= n
  <2> DEFINE T == {n \in 0 .. N : ~(SumTo(f, n) <= n)}
  <2> SUFFICES ASSUME T # {} PROVE FALSE
    OBVIOUS
  <2>1. PICK n \in T : \A y \in T : n <= y
    BY Least, T \in SUBSET Nat
  <2>2. n # 0
    BY <2>1, SumStep
  <2>3. n \in 1 .. N /\ n - 1 \in 0 .. N /\ n - 1 \notin T /\ n - 1 \in Nat
    BY <2>1, <2>2
  <2>4. SumTo(f, (n - 1) + 1) = SumTo(f, n - 1) + f[(n - 1) + 1]
    BY <2>3, SumStep
  <2>5. (n - 1) + 1 = n /\ f[n] \in {0, 1} /\ SumTo(f, n - 1) <= n - 1
        /\ SumTo(f, n - 1) \in Nat
    BY <1>2, <2>3
  <2>6. SumTo(f, n) <= n
    BY <2>3, <2>4, <2>5
  <2> QED
    BY <2>1, <2>6
<1> SUFFICES ASSUME NEW k \in 1 .. N, f[k] # 1 PROVE FALSE
  OBVIOUS
<1> DEFINE S == {n \in k .. N : ~(SumTo(f, n) <= n - 1)}
<1>4. N \in S
  OBVIOUS
<1>5. PICK n \in S : \A y \in S : n <= y
  BY <1>4, Least, S \in SUBSET Nat
<1>6. n \in 1 .. N /\ n - 1 \in 0 .. N /\ n - 1 \in Nat
  BY <1>5
<1>7. SumTo(f, (n - 1) + 1) = SumTo(f, n - 1) + f[(n - 1) + 1]
  BY <1>6, SumStep
<1>8. (n - 1) + 1 = n /\ f[n] \in {0, 1} /\ SumTo(f, n - 1) \in Nat
      /\ SumTo(f, n - 1) <= n - 1
  BY <1>2, <1>3, <1>6
<1>9. CASE n = k
  <2>1. f[n] = 0
    BY <1>8, <1>9
  <2>2. SumTo(f, n) <= n - 1
    BY <1>6, <1>7, <1>8, <2>1
  <2> QED
    BY <1>5, <2>2
<1>10. CASE n # k
  <2>1. n - 1 \in k .. N /\ n - 1 \notin S
    BY <1>5, <1>10
  <2>2. SumTo(f, n - 1) <= (n - 1) - 1
    BY <2>1
  <2>3. SumTo(f, n) <= n - 1
    BY <1>6, <1>7, <1>8, <2>2
  <2> QED
    BY <1>5, <2>3
<1> QED
  BY <1>9, <1>10

(* Counting up to a number, one passes each smaller one at a one.          *)
LEMMA SumReached ==
  ASSUME NEW N \in Nat, NEW f \in [1 .. N -> {0, 1}], NEW k \in 1 .. SumTo(f, N)
  PROVE  \E i \in 1 .. N : f[i] = 1 /\ SumTo(f, i) = k
<1>1. f \in [1 .. N -> Nat]
  OBVIOUS
<1>2. \A n \in 0 .. N : SumTo(f, n) \in Nat
  BY <1>1, SumGrows
<1> DEFINE T == {n \in 0 .. N : k <= SumTo(f, n)}
<1>3. N \in T /\ k \in Nat /\ k > 0
  BY <1>2
<1>4. PICK i \in T : \A y \in T : i <= y
  BY <1>3, Least, T \in SUBSET Nat
<1>5. i # 0
  <2>1. SumTo(f, 0) = 0
    BY SumStep
  <2> QED
    BY <1>3, <1>4, <2>1
<1>6. i \in 1 .. N /\ i - 1 \in 0 .. N /\ i - 1 \notin T /\ i - 1 \in Nat
  BY <1>4, <1>5
<1>7. SumTo(f, (i - 1) + 1) = SumTo(f, i - 1) + f[(i - 1) + 1]
  BY <1>6, SumStep
<1>8. (i - 1) + 1 = i /\ f[i] \in {0, 1} /\ SumTo(f, i - 1) \in Nat
      /\ ~(k <= SumTo(f, i - 1)) /\ k <= SumTo(f, i)
  BY <1>2, <1>4, <1>6
<1>9. f[i] = 1 /\ SumTo(f, i) = k
  BY <1>3, <1>7, <1>8
<1> QED
  BY <1>6, <1>9

=============================================================================
