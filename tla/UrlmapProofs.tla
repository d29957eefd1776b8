---------------------------- MODULE UrlmapProofs ----------------------------
(***************************************************************************)
(* Proofs about Urlmap: for every map and every URI, that the expressions  *)
(* find_app() tries in order find the application of the longest location. *)
(***************************************************************************)
EXTENDS Urlmap, SumTheorems

LEMMA IsASeq ==
  ASSUME NEW S, NEW n \in Nat, NEW f \in [1 .. n -> S]
  PROVE  f \in Seq(S) /\ Len(f) = n
OBVIOUS

(* A bounded set of numbers has a greatest one.                            *)
LEMMA Greatest ==
  ASSUME NEW n \in Nat, NEW T \in SUBSET (1 .. n), T # {}
  PROVE  \E x \in T : \A y \in T : y <= x
<1> DEFINE S == {n - x : x \in T}
<1>4. S \in SUBSET Nat /\ S # {}
  <2>1. \A x \in T : x \in 1 .. n /\ n - x \in Nat
    OBVIOUS
  <2> QED
    BY <2>1
<1> HIDE DEF S
<1>5. \E d \in S : \A e \in S : d <= e
  BY <1>4, Least
<1>1. PICK d \in S : \A e \in S : d <= e
  BY <1>5
<1> USE DEF S
<1>2. PICK x \in T : d = n - x
  BY <1>1
<1>3. \A y \in T : n - x <= n - y
  BY <1>1, <1>2
<1> QED
  BY <1>3

-----------------------------------------------------------------------------
(* Runs of slashes.                                                        *)
LEMMA Ranks ==
  ASSUME NEW S, NEW u \in Seq(S)
  PROVE  /\ Kept(u) \in [1 .. Len(u) -> {0, 1}]
         /\ Rank(u, 0) = 0
         /\ \A i \in 0 .. Len(u) : /\ Rank(u, i) \in Nat
                                   /\ \A j \in 0 .. i : Rank(u, j) <= Rank(u, i)
         /\ \A i \in 1 .. Len(u) : Rank(u, i) = Rank(u, i - 1) + Kept(u)[i]
<1>1. Kept(u) \in [1 .. Len(u) -> {0, 1}] /\ Len(u) \in Nat
  BY DEF Kept
<1>2. Kept(u) \in [1 .. Len(u) -> Nat]
  BY <1>1
<1>3. \A i \in 0 .. Len(u) : /\ Rank(u, i) \in Nat
                             /\ \A j \in 0 .. i : Rank(u, j) <= Rank(u, i)
  BY <1>1, <1>2, SumGrows DEF Rank
<1>4. ASSUME NEW i \in 1 .. Len(u)
      PROVE  Rank(u, i) = Rank(u, i - 1) + Kept(u)[i]
  <2>1. i - 1 \in Nat /\ (i - 1) + 1 = i
    OBVIOUS
  <2>2. SumTo(Kept(u), (i - 1) + 1) = SumTo(Kept(u), i - 1) + Kept(u)[(i - 1) + 1]
    BY <2>1, SumStep
  <2> QED
    BY <2>1, <2>2 DEF Rank
<1>5. Rank(u, 0) = 0
  BY SumStep DEF Rank
<1> QED
  BY <1>1, <1>3, <1>4, <1>5

(* No two characters that are kept have the same rank.                     *)
LEMMA RankUnique ==
  ASSUME NEW S, NEW u \in Seq(S), NEW i \in 1 .. Len(u), NEW j \in 1 .. Len(u),
         Kept(u)[i] = 1, Kept(u)[j] = 1, Rank(u, i) = Rank(u, j)
  PROVE  i = j
<1>1. ASSUME NEW a \in 1 .. Len(u), NEW b \in 1 .. Len(u), Kept(u)[b] = 1, a < b
      PROVE  Rank(u, a) # Rank(u, b)
  <2>1. a \in 0 .. b - 1 /\ b - 1 \in 0 .. Len(u) /\ a \in 0 .. Len(u) /\ b \in 0 .. Len(u)
    BY <1>1
  <2>2. /\ Rank(u, a) \in Nat /\ Rank(u, b - 1) \in Nat /\ Rank(u, a) <= Rank(u, b - 1)
        /\ Rank(u, b) = Rank(u, b - 1) + 1
    BY <1>1, <2>1, Ranks
  <2> QED
    BY <2>2
<1> QED
  BY <1>1

LEMMA RankOf ==
  ASSUME NEW S, NEW u \in Seq(S), NEW i \in 1 .. Len(u), Kept(u)[i] = 1
  PROVE  /\ Rank(u, i) \in 1 .. Rank(u, Len(u))
         /\ Squeezed(u)[Rank(u, i)] = u[i]
<1>1. Len(u) \in Nat /\ i \in 0 .. Len(u) /\ i - 1 \in 0 .. Len(u) /\ Len(u) \in 0 .. Len(u)
  OBVIOUS
<1>2. /\ Rank(u, i) \in Nat /\ Rank(u, i - 1) \in Nat /\ Rank(u, Len(u)) \in Nat
      /\ Rank(u, i) = Rank(u, i - 1) + 1 /\ Rank(u, i) <= Rank(u, Len(u))
  BY <1>1, Ranks
<1>3. Rank(u, i) \in 1 .. Rank(u, Len(u))
  BY <1>2
<1>4. i = CHOOSE j \in 1 .. Len(u) : Kept(u)[j] = 1 /\ Rank(u, j) = Rank(u, i)
  BY RankUnique
<1> QED
  BY <1>3, <1>4 DEF Squeezed

LEMMA SqueezedType ==
  ASSUME NEW S, NEW u \in Seq(S)
  PROVE  /\ Squeezed(u) \in Seq(S) /\ Len(Squeezed(u)) = Rank(u, Len(u))
         /\ \A k \in 1 .. Rank(u, Len(u)) :
              \E i \in 1 .. Len(u) : /\ Kept(u)[i] = 1 /\ Rank(u, i) = k
                                     /\ Squeezed(u)[k] = u[i]
<1>1. Len(u) \in Nat /\ Rank(u, Len(u)) \in Nat
  BY Ranks
<1>2. ASSUME NEW k \in 1 .. Rank(u, Len(u))
      PROVE  \E i \in 1 .. Len(u) : /\ Kept(u)[i] = 1 /\ Rank(u, i) = k
                                    /\ Squeezed(u)[k] = u[i]
  <2>1. PICK i \in 1 .. Len(u) : Kept(u)[i] = 1 /\ Rank(u, i) = k
    BY <1>1, Ranks, SumReached DEF Rank
  <2> QED
    BY <2>1, RankOf
<1>3. \A k \in 1 .. Rank(u, Len(u)) : Squeezed(u)[k] \in S
  BY <1>2
<1>4. Squeezed(u) = [k \in 1 .. Rank(u, Len(u)) |-> Squeezed(u)[k]]
  BY DEF Squeezed
<1>5. Squeezed(u) \in [1 .. Rank(u, Len(u)) -> S]
  BY <1>3, <1>4
<1> QED
  BY <1>1, <1>2, <1>5, IsASeq

(* What squeezing leaves as it is has no run of slashes.                   *)
LEMMA NoRuns ==
  ASSUME NEW S, NEW l \in Seq(S), Squeezed(l) = l
  PROVE  \A i \in 2 .. Len(l) : ~(l[i] = "/" /\ l[i - 1] = "/")
<1>1. Rank(l, Len(l)) = Len(l)
  BY SqueezedType
<1>2. Len(l) \in Nat /\ Kept(l) \in [1 .. Len(l) -> {0, 1}]
  BY Ranks
<1>3. \A i \in 1 .. Len(l) : Kept(l)[i] = 1
  BY <1>1, <1>2, SumFull DEF Rank
<1> QED
  BY <1>2, <1>3 DEF Kept

-----------------------------------------------------------------------------
(* What a location's expression matches.                                   *)
From(from, l, u) ==
  /\ from \in [1 .. Len(l) + 1 -> 1 .. Len(u) + 1]
  /\ from[1] = 1
  /\ \A i \in 1 .. Len(l) :
       /\ from[i] < from[i + 1]
       /\ \A k \in from[i] .. from[i + 1] - 1 : u[k] = l[i]
       /\ l[i] # "/" => from[i + 1] = from[i] + 1

LEMMA From1 ==
  ASSUME NEW S, NEW l \in Seq(S), NEW u \in Seq(S), NEW from, From(from, l, u)
  PROVE  \A i \in 1 .. Len(l) + 1 : from[i] \in 1 .. Len(u) + 1
BY DEF From

LEMMA MatchesOneMore ==
  ASSUME NEW S, NEW l \in Seq(S), NEW u \in Seq(S), Squeezed(l) = l,
         NEW from, From(from, l, u), NEW i \in 1 .. Len(l), Rank(u, from[i] - 1) = i - 1
  PROVE  /\ from[i] \in 1 .. Len(u) /\ Kept(u)[from[i]] = 1 /\ Rank(u, from[i]) = i
         /\ u[from[i]] = l[i]
         /\ Rank(u, from[i + 1] - 1) = i
<1> DEFINE a == from[i]
           b == from[i + 1] - 1
<1>1. Len(l) \in Nat /\ Len(u) \in Nat
  OBVIOUS
<1>2. /\ a \in 1 .. Len(u) /\ b \in 1 .. Len(u) /\ a <= b /\ a \in Nat /\ b \in Nat
      /\ \A k \in a .. b : u[k] = l[i]
      /\ a # b => l[i] = "/"
  <2>1. from[i] \in 1 .. Len(u) + 1 /\ from[i + 1] \in 1 .. Len(u) + 1
    <3>1. i \in 1 .. Len(l) + 1 /\ i + 1 \in 1 .. Len(l) + 1
      BY <1>1
    <3> QED
      BY <3>1, From1
  <2>2. /\ from[i] < from[i + 1] /\ \A k \in from[i] .. from[i + 1] - 1 : u[k] = l[i]
        /\ l[i] # "/" => from[i + 1] = from[i] + 1
    BY DEF From
  <2> QED
    BY <1>1, <2>1, <2>2
<1>3. Kept(u)[a] = 1
  <2>1. CASE a = 1
    BY <1>2, <2>1 DEF Kept
  <2>2. CASE a # 1
    <3>1. i # 1
      BY <2>2 DEF From
    <3>2. i - 1 \in 1 .. Len(l) /\ (i - 1) + 1 = i /\ i \in 2 .. Len(l)
      BY <1>1, <3>1
    <3>3. from[i - 1] < a /\ from[i - 1] \in Nat
          /\ \A k \in from[i - 1] .. a - 1 : u[k] = l[i - 1]
      <4>1. /\ from[i - 1] < from[(i - 1) + 1]
            /\ \A k \in from[i - 1] .. from[(i - 1) + 1] - 1 : u[k] = l[i - 1]
        BY <3>2 DEF From
      <4>2. from[i - 1] \in 1 .. Len(u) + 1
        BY <1>1, <3>2, From1
      <4> QED
        BY <3>2, <4>1, <4>2
    <3>4. u[a - 1] = l[i - 1]
      BY <1>2, <3>3
    <3>5. ~(u[a] = "/" /\ u[a - 1] = "/")
      BY <1>2, <3>2, <3>4, NoRuns
    <3> QED
      BY <1>2, <3>5 DEF Kept
  <2> QED
    BY <2>1, <2>2
<1>4. Rank(u, a) = i
  <2>1. Rank(u, a) = Rank(u, a - 1) + 1
    BY <1>2, <1>3, Ranks
  <2> QED
    BY <2>1
<1>5. ASSUME NEW k \in a + 1 .. b PROVE Kept(u)[k] = 0
  <2>1. k \in a .. b /\ k - 1 \in a .. b /\ a # b /\ k \in 1 .. Len(u) /\ k > 1
    BY <1>2
  <2>2. u[k] = "/" /\ u[k - 1] = "/"
    BY <1>2, <2>1
  <2> QED
    BY <2>1, <2>2 DEF Kept
<1>6. Rank(u, b) = Rank(u, a)
  <2>1. SumTo(Kept(u), a) \in Nat
    BY <1>4 DEF Rank
  <2> QED
    BY <1>2, <1>5, <2>1, SumFlat DEF Rank
<1> QED
  BY <1>2, <1>3, <1>4, <1>6

LEMMA MatchesStarts ==
  ASSUME NEW S, NEW l \in Seq(S), NEW u \in Seq(S), Squeezed(l) = l, Matches(l, u)
  PROVE  StartsWith(Squeezed(u), l)
<1>1. Len(l) \in Nat /\ Len(u) \in Nat
  OBVIOUS
<1>2. PICK from : From(from, l, u)
  BY DEF Matches, From
<1>3. \A i \in 0 .. Len(l) : Rank(u, from[i + 1] - 1) = i
  <2> DEFINE T == {i \in 0 .. Len(l) : Rank(u, from[i + 1] - 1) # i}
  <2> SUFFICES ASSUME T # {} PROVE FALSE
    OBVIOUS
  <2>1. PICK i \in T : \A y \in T : i <= y
    BY Least, T \in SUBSET Nat
  <2>2. i # 0
    <3>1. Rank(u, 0) = 0 /\ from[0 + 1] - 1 = 0
      BY <1>2, Ranks DEF From
    <3> QED
      BY <2>1, <3>1
  <2>3. i \in 1 .. Len(l) /\ i - 1 \in 0 .. Len(l) /\ i - 1 \notin T /\ (i - 1) + 1 = i
    BY <2>1, <2>2
  <2>4. Rank(u, from[i] - 1) = i - 1
    BY <2>3
  <2> QED
    BY <1>2, <2>1, <2>3, <2>4, MatchesOneMore
<1>4. ASSUME NEW i \in 1 .. Len(l) PROVE Squeezed(u)[i] = l[i]
  <2>1. i - 1 \in 0 .. Len(l) /\ (i - 1) + 1 = i
    OBVIOUS
  <2>2. Rank(u, from[i] - 1) = i - 1
    BY <1>3, <2>1
  <2>3. /\ from[i] \in 1 .. Len(u) /\ Kept(u)[from[i]] = 1 /\ Rank(u, from[i]) = i
        /\ u[from[i]] = l[i]
    BY <1>2, <2>2, MatchesOneMore
  <2> QED
    BY <2>3, RankOf
<1>5. Len(l) <= Len(Squeezed(u))
  <2>1. Len(l) \in 0 .. Len(l)
    BY <1>1
  <2>2. Rank(u, from[Len(l) + 1] - 1) = Len(l)
    BY <1>3, <2>1
  <2>3. from[Len(l) + 1] - 1 \in 0 .. Len(u) /\ Len(u) \in 0 .. Len(u)
    BY <1>1, <1>2 DEF From
  <2>4. Rank(u, from[Len(l) + 1] - 1) <= Rank(u, Len(u))
    BY <2>3, Ranks
  <2> QED
    BY <2>2, <2>4, SqueezedType
<1> QED
  BY <1>4, <1>5 DEF StartsWith

LEMMA StartsMatches ==
  ASSUME NEW S, NEW l \in Seq(S), NEW u \in Seq(S), StartsWith(Squeezed(u), l)
  PROVE  Matches(l, u)
<1> DEFINE n == Len(l)
           N == Len(u)
           At(k) == CHOOSE i \in 1 .. N : Kept(u)[i] = 1 /\ Rank(u, i) = k
<1>1. n \in Nat /\ N \in Nat /\ n <= Rank(u, N) /\ Rank(u, N) \in Nat
      /\ \A k \in 1 .. n : Squeezed(u)[k] = l[k]
  BY Ranks, SqueezedType DEF StartsWith
<1>2. ASSUME NEW k \in 1 .. n
      PROVE  At(k) \in 1 .. N /\ Kept(u)[At(k)] = 1 /\ Rank(u, At(k)) = k /\ u[At(k)] = l[k]
  <2>1. k \in 1 .. Rank(u, N)
    BY <1>1
  <2>4. \E i \in 1 .. N : Kept(u)[i] = 1 /\ Rank(u, i) = k
    BY <2>1, SqueezedType
  <2>2. At(k) \in 1 .. N /\ Kept(u)[At(k)] = 1 /\ Rank(u, At(k)) = k
    BY <2>4
  <2>3. Squeezed(u)[k] = u[At(k)]
    BY <2>2, RankOf
  <2> QED
    BY <1>1, <2>2, <2>3
<1> DEFINE from == [i \in 1 .. n + 1 |->
                      IF i <= n THEN At(i) ELSE IF n = 0 THEN 1 ELSE At(n) + 1]
<1> HIDE DEF At
<1>3. from \in [1 .. n + 1 -> 1 .. N + 1]
  <2> SUFFICES ASSUME NEW i \in 1 .. n + 1
               PROVE  (IF i <= n THEN At(i) ELSE IF n = 0 THEN 1 ELSE At(n) + 1) \in 1 .. N + 1
    OBVIOUS
  <2>1. CASE i \in 1 .. n
    BY <1>1, <1>2, <2>1
  <2>2. CASE i = n + 1 /\ n = 0
    BY <1>1, <2>2
  <2>3. CASE i = n + 1 /\ n # 0
    <3>1. n \in 1 .. n /\ ~(i <= n)
      BY <1>1, <2>3
    <3>2. At(n) \in 1 .. N
      BY <1>2, <3>1
    <3> QED
      BY <1>1, <2>3, <3>1, <3>2
  <2> QED
    BY <1>1, <2>1, <2>2, <2>3
<1>4. from[1] = 1
  <2>1. CASE n = 0
    BY <2>1
  <2>2. CASE n # 0
    <3>1. 1 \in 1 .. n /\ from[1] = At(1)
      BY <1>1, <2>2
    <3>2. At(1) \in 1 .. N /\ Kept(u)[At(1)] = 1 /\ Rank(u, At(1)) = 1
      BY <1>2, <3>1
    <3>3. 1 \in 1 .. N /\ Kept(u)[1] = 1
      BY <1>1, <3>2 DEF Kept
    <3>4. Rank(u, 1) = 1
      <4>1. Rank(u, 1) = Rank(u, 1 - 1) + Kept(u)[1] /\ Rank(u, 0) = 0 /\ 1 - 1 = 0
        BY <3>3, Ranks
      <4> QED
        BY <3>3, <4>1
    <3>5. At(1) = 1
      BY <3>2, <3>3, <3>4, RankUnique
    <3> QED
      BY <3>1, <3>5
  <2> QED
    BY <2>1, <2>2
<1>5. ASSUME NEW i \in 1 .. n
      PROVE  /\ from[i] < from[i + 1]
             /\ \A k \in from[i] .. from[i + 1] - 1 : u[k] = l[i]
             /\ l[i] # "/" => from[i + 1] = from[i] + 1
  <2> DEFINE a == At(i)
  <2>1. from[i] = a
    BY <1>1
  <2>2. a \in 1 .. N /\ Kept(u)[a] = 1 /\ Rank(u, a) = i /\ u[a] = l[i]
    BY <1>2
  <2>3. CASE i = n
    <3>1. from[i + 1] = a + 1
      BY <1>1, <2>3
    <3>2. \A k \in a .. (a + 1) - 1 : k = a
      BY <2>2
    <3> QED
      BY <2>1, <2>2, <3>1, <3>2
  <2>4. CASE i # n
    <3> DEFINE b == At(i + 1)
    <3>1. i + 1 \in 1 .. n /\ from[i + 1] = b
      BY <1>1, <2>4
    <3>2. b \in 1 .. N /\ Kept(u)[b] = 1 /\ Rank(u, b) = i + 1
      BY <1>2, <3>1
    <3> HIDE DEF a, b, from
    <3>3. a < b
      <4> SUFFICES ASSUME b <= a PROVE FALSE
        BY <2>2, <3>2
      <4>1. a \in 0 .. N /\ b \in 0 .. a
        BY <2>2, <3>2
      <4>2. Rank(u, b) <= Rank(u, a)
        BY <4>1, Ranks
      <4> QED
        BY <2>2, <3>2, <4>2
    <3>4. ASSUME NEW k \in a + 1 .. b - 1 PROVE u[k] = "/" /\ u[k - 1] = "/"
      <4>1. /\ k \in 1 .. N /\ k - 1 \in 0 .. N /\ b - 1 \in 0 .. N /\ k \in 0 .. b - 1
            /\ a \in 0 .. k - 1
        BY <2>2, <3>2
      <4>2. /\ Rank(u, k) = Rank(u, k - 1) + Kept(u)[k] /\ Kept(u)[k] \in {0, 1}
            /\ Rank(u, b) = Rank(u, b - 1) + 1
            /\ Rank(u, k) <= Rank(u, b - 1) /\ Rank(u, a) <= Rank(u, k - 1)
            /\ Rank(u, k) \in Nat /\ Rank(u, k - 1) \in Nat /\ Rank(u, b - 1) \in Nat
        <5>1. Rank(u, b) = Rank(u, b - 1) + 1
          BY <3>2, Ranks
        <5>2. Rank(u, k) = Rank(u, k - 1) + Kept(u)[k] /\ Kept(u)[k] \in {0, 1}
          BY <4>1, Ranks
        <5>3. Rank(u, b - 1) \in Nat /\ Rank(u, k) <= Rank(u, b - 1)
          BY <4>1, Ranks
        <5>4. Rank(u, k - 1) \in Nat /\ Rank(u, a) <= Rank(u, k - 1)
          BY <4>1, Ranks
        <5>5. Rank(u, k) \in Nat
          <6>1. k \in 0 .. N
            BY <4>1
          <6> QED
            BY <6>1, Ranks
        <5> QED
          BY <5>1, <5>2, <5>3, <5>4, <5>5
      <4>3. Kept(u)[k] # 1
        BY <2>2, <3>2, <4>2
      <4> QED
        BY <4>1, <4>3 DEF Kept
    <3>5. ASSUME NEW k \in a .. b - 1 PROVE u[k] = l[i]
      <4>1. CASE k = a
        BY <2>2, <4>1
      <4>2. CASE k # a
        <5>1. k \in a + 1 .. b - 1 /\ a + 1 \in a + 1 .. b - 1 /\ (a + 1) - 1 = a
          BY <2>2, <3>2, <4>2
        <5> QED
          BY <2>2, <3>4, <5>1
      <4> QED
        BY <4>1, <4>2
    <3>6. l[i] # "/" => b = a + 1
      <4> SUFFICES ASSUME b # a + 1 PROVE l[i] = "/"
        OBVIOUS
      <4>1. a + 1 \in a + 1 .. b - 1 /\ (a + 1) - 1 = a
        BY <2>2, <3>2, <3>3
      <4> QED
        BY <2>2, <3>4, <4>1
    <3> QED
      BY <2>1, <3>1, <3>3, <3>5, <3>6
  <2> QED
    BY <2>3, <2>4
<1> HIDE DEF from
<1> QED
  BY <1>3, <1>4, <1>5 DEF Matches

(* An expression matches the URIs that start with its location, slashes    *)
(* squeezed.                                                               *)
LEMMA MatchesIff ==
  ASSUME NEW S, NEW l \in Seq(S), NEW u \in Seq(S), Squeezed(l) = l
  PROVE  Matches(l, u) <=> StartsWith(Squeezed(u), l)
BY MatchesStarts, StartsMatches

-----------------------------------------------------------------------------
(* Locations and their sizes.                                              *)
AnyChar == Chars \cup {Scheme}

LEMMA SizeType ==
  ASSUME NEW l \in Seq(AnyChar)
  PROVE  Size(l) \in Nat
<1>1. Len(l) \in Nat /\ Len(l) \in 0 .. Len(l)
  OBVIOUS
<1>2. Sizes(l) \in [1 .. Len(l) -> Nat]
  BY UrlmapAssumption DEF Sizes
<1> QED
  BY <1>1, <1>2, SumGrows DEF Size

LEMMA SizeWithoutScheme ==
  ASSUME NEW l \in Seq(AnyChar), \A i \in 1 .. Len(l) : l[i] # Scheme
  PROVE  Size(l) = Len(l)
<1>1. Len(l) \in Nat /\ \A i \in 1 .. Len(l) : Sizes(l)[i] = 1
  BY DEF Sizes
<1> QED
  BY <1>1, SumOnes DEF Size

LEMMA MappingType ==
  ASSUME NEW key \in Seq(AnyChar)
  PROVE  Mapping(key).location \in Seq(AnyChar) /\ Mapping(key).app = key
<1>1. CASE key # <<>> /\ key[1] = Scheme /\ Slashes(key) # {}
  <2>1. Slashes(key) \in SUBSET (1 .. Len(key)) /\ Len(key) \in Nat
    BY DEF Slashes
  <2>2. PICK last \in Slashes(key) : \A j \in Slashes(key) : j <= last
    BY <1>1, <2>1, Greatest
  <2> DEFINE chosen == CHOOSE i \in Slashes(key) : \A j \in Slashes(key) : j <= i
  <2>3. chosen \in Slashes(key)
    BY <2>2
  <2>4. Mapping(key) = [host |-> SubSeq(key, 2, chosen - 1),
                        location |-> SubSeq(key, chosen, Len(key)), app |-> key]
    BY <1>1 DEF Mapping
  <2> HIDE DEF chosen
  <2>5. chosen \in 1 .. Len(key)
    BY <2>1, <2>3
  <2>6. SubSeq(key, chosen, Len(key)) \in Seq(AnyChar)
    BY <2>1, <2>5
  <2> QED
    BY <2>4, <2>6
<1>2. CASE ~(key # <<>> /\ key[1] = Scheme /\ Slashes(key) # {})
  BY <1>2 DEF Mapping
<1> QED
  BY <1>1, <1>2

-----------------------------------------------------------------------------
Mapped(n) == {Mapping(maps[i]) : i \in 1 .. n}

(* The entries are those of the keys visited, longest locations first.     *)
Remapped ==
  /\ maps \in Maps
  /\ visited \in 0 .. Len(maps)
  /\ mapping_ \in [1 .. visited -> Mapped(visited)]
  /\ Elements(mapping_) = Mapped(visited)
  /\ Sorted(mapping_)

(* find_app() has passed over entries that do not match.                   *)
Looking ==
  uri # <<>> =>
    /\ uri \in Uris /\ visited = Len(maps)
    /\ it \in 1 .. Len(mapping_) + 1
    /\ \A i \in 1 .. it - 1 : ~Matches(mapping_[i].location, uri)

Looked ==
  uri # <<>> /\ found # {} =>
    \/ found = {NoApp} /\ it > Len(mapping_)
    \/ /\ it <= Len(mapping_)
       /\ Matches(mapping_[it].location, uri)
       /\ found = {mapping_[it].app}

UrlmapInv == Remapped /\ Looking /\ Looked

(* Every key and every entry has its type.                                 *)
LEMMA Keys ==
  ASSUME Remapped
  PROVE  /\ Len(maps) \in Nat /\ \A i \in 1 .. Len(maps) : maps[i] \in Seq(AnyChar)
         /\ visited \in Nat /\ mapping_ \in Seq(Mapped(visited)) /\ Len(mapping_) = visited
         /\ \A i \in 1 .. visited :
              \E j \in 1 .. visited : /\ mapping_[i] = Mapping(maps[j])
                                      /\ mapping_[i].app = maps[j]
                                      /\ mapping_[i].location \in Seq(AnyChar)
<1>1. maps \in Seq(Seq(AnyChar))
  BY UrlmapAssumption DEF Remapped, AnyChar
<1>2. Len(maps) \in Nat /\ \A i \in 1 .. Len(maps) : maps[i] \in Seq(AnyChar)
  BY <1>1
<1>3. visited \in Nat /\ mapping_ \in Seq(Mapped(visited)) /\ Len(mapping_) = visited
  BY <1>2, IsASeq DEF Remapped
<1>4. ASSUME NEW i \in 1 .. visited
      PROVE  \E j \in 1 .. visited : /\ mapping_[i] = Mapping(maps[j])
                                     /\ mapping_[i].app = maps[j]
                                     /\ mapping_[i].location \in Seq(AnyChar)
  <2>1. mapping_[i] \in Mapped(visited)
    BY DEF Remapped
  <2>2. PICK j \in 1 .. visited : mapping_[i] = Mapping(maps[j])
    BY <2>1 DEF Mapped
  <2>3. maps[j] \in Seq(AnyChar)
    BY <1>2, <1>3 DEF Remapped
  <2> QED
    BY <2>2, <2>3, MappingType
<1> QED
  BY <1>2, <1>3, <1>4

LEMMA UrlmapInit == Init => UrlmapInv
<1> SUFFICES ASSUME Init PROVE UrlmapInv
  OBVIOUS
<1>1. maps \in Seq(Seq(AnyChar))
  BY UrlmapAssumption DEF Init, AnyChar
<1>2. Len(maps) \in Nat
  BY <1>1
<1>3. 1 .. 0 = {}
  OBVIOUS
<1>4. mapping_ \in [1 .. 0 -> Mapped(0)] /\ Elements(mapping_) = Mapped(0) /\ Sorted(mapping_)
  BY <1>3 DEF Init, Elements, Mapped, Sorted
<1> QED
  BY <1>2, <1>4 DEF Init, UrlmapInv, Remapped, Looking, Looked

LEMMA RemapKeeps ==
  ASSUME UrlmapInv, Remap
  PROVE  UrlmapInv'
<1> DEFINE m == Mapping(maps[visited + 1])
           s == Append(mapping_, m)
           n == visited + 1
<1>1. /\ Remapped /\ visited < Len(maps) /\ mapping_' \in Sort(s) /\ visited' = n
      /\ UNCHANGED <<maps, uri, it, found>> /\ uri = <<>>
  BY DEF UrlmapInv, Remap, Looking, Remapped
<1>2. /\ visited \in Nat /\ Len(maps) \in Nat /\ n \in 0 .. Len(maps)
      /\ mapping_ \in Seq(Mapped(visited)) /\ Len(mapping_) = visited
  BY <1>1, Keys
<1>3. /\ DOMAIN s = 1 .. n /\ s[n] = m /\ \A i \in 1 .. visited : s[i] = mapping_[i]
  BY <1>2
<1> HIDE DEF s
<1>4. Elements(s) = Elements(mapping_) \cup {m}
  <2>1. DOMAIN mapping_ = 1 .. visited /\ 1 .. n = (1 .. visited) \cup {n}
    BY <1>2
  <2> QED
    BY <1>3, <2>1 DEF Elements
<1>5. Elements(s) = Mapped(n)
  <2>1. 1 .. n = (1 .. visited) \cup {n}
    BY <1>2
  <2>2. Elements(mapping_) = Mapped(visited)
    BY <1>1 DEF Remapped
  <2> QED
    BY <1>4, <2>1, <2>2 DEF Mapped
<1>6. /\ mapping_' \in [1 .. n -> Mapped(n)] /\ Elements(mapping_') = Mapped(n)
      /\ Sorted(mapping_')
  BY <1>1, <1>3, <1>5 DEF Sort
<1>7. \A k : Mapped(k)' = Mapped(k)
  BY <1>1 DEF Mapped
<1>8. Remapped'
  BY <1>1, <1>2, <1>6, <1>7 DEF Remapped, Elements, Sorted, Before
<1> QED
  BY <1>1, <1>8 DEF UrlmapInv, Looking, Looked

LEMMA UrlmapStep == UrlmapInv /\ [Next]_vars => UrlmapInv'
<1> SUFFICES ASSUME UrlmapInv, [Next]_vars PROVE UrlmapInv'
  OBVIOUS
<1> USE DEF UrlmapInv
<1>1. Len(mapping_) = visited /\ visited \in Nat
  BY Keys
<1>2. ASSUME UNCHANGED <<maps, visited, mapping_>> PROVE Remapped'
  BY <1>2 DEF Remapped, Mapped, Elements, Sorted, Before
<1>3. CASE UNCHANGED vars
  BY <1>2, <1>3 DEF vars, Looking, Looked
<1>4. CASE Remap
  BY <1>4, RemapKeeps
<1>5. CASE Call
  <2>1. \A i : ~(i \in 1 .. 1 - 1)
    OBVIOUS
  <2> QED
    BY <1>1, <1>2, <1>5, <2>1 DEF Call, Looking, Looked
<1>6. CASE Skip
  <2>1. /\ it' = it + 1 /\ it <= Len(mapping_) /\ ~Matches(mapping_[it].location, uri)
        /\ UNCHANGED <<maps, visited, mapping_, uri, found>> /\ found = {} /\ uri # <<>>
    BY <1>6 DEF Skip
  <2>2. /\ it \in 1 .. Len(mapping_) + 1
        /\ \A i \in 1 .. it - 1 : ~Matches(mapping_[i].location, uri)
        /\ uri \in Uris /\ visited = Len(maps)
    BY <2>1 DEF Looking
  <2>3. it' \in 1 .. Len(mapping_) + 1 /\ 1 .. it' - 1 = (1 .. it - 1) \cup {it}
    BY <1>1, <2>1, <2>2
  <2>4. Looking'
    BY <2>1, <2>2, <2>3 DEF Looking
  <2> QED
    BY <1>2, <2>1, <2>4 DEF Looked
<1>7. CASE Find
  BY <1>2, <1>7 DEF Find, Looking, Looked
<1>8. CASE FindNone
  BY <1>2, <1>8 DEF FindNone, Looking, Looked
<1>9. CASE Respond
  BY <1>2, <1>9 DEF Respond, Looking, Looked
<1> QED
  BY <1>3, <1>4, <1>5, <1>6, <1>7, <1>8, <1>9 DEF Next

LEMMA UrlmapInvCorrect == Spec => []UrlmapInv
BY UrlmapInit, UrlmapStep, PTL DEF Spec

-----------------------------------------------------------------------------
(* Whatever keys remap() is given, it loses none, keeps none twice, and    *)
(* leaves the longest location first.                                      *)
THEOREM MappingKeptCorrect == Spec => []MappingKept
<1>1. UrlmapInv => MappingKept
  <2> SUFFICES ASSUME UrlmapInv PROVE MappingKept
    OBVIOUS
  <2>1. Remapped /\ visited \in Nat /\ Len(mapping_) = visited /\ DOMAIN mapping_ = 1 .. visited
    BY Keys DEF UrlmapInv
  <2>2. {m.app : m \in Elements(mapping_)} = {maps[i] : i \in 1 .. visited}
    <3>1. \A i \in 1 .. visited : Mapping(maps[i]).app = maps[i]
      <4> TAKE i \in 1 .. visited
      <4>1. maps[i] \in Seq(AnyChar)
        BY <2>1, Keys DEF Remapped
      <4> QED
        BY <4>1, MappingType
    <3>2. {m.app : m \in Elements(mapping_)} = {Mapping(maps[i]).app : i \in 1 .. visited}
      BY <2>1 DEF Remapped, Mapped
    <3> QED
      BY <3>1, <3>2
  <2>3. ASSUME NEW i \in DOMAIN mapping_, NEW j \in DOMAIN mapping_, i < j
        PROVE  Size(mapping_[i].location) >= Size(mapping_[j].location)
    <3>1. ~(Size(mapping_[j].location) > Size(mapping_[i].location))
      BY <2>1, <2>3 DEF Remapped, Sorted, Before
    <3>2. mapping_[i].location \in Seq(AnyChar) /\ mapping_[j].location \in Seq(AnyChar)
      BY <2>1, Keys
    <3>3. Size(mapping_[i].location) \in Nat /\ Size(mapping_[j].location) \in Nat
      BY <3>2, SizeType
    <3> QED
      BY <3>1, <3>3
  <2> QED
    BY <2>1, <2>2, <2>3 DEF MappingKept
<1> QED
  BY <1>1, UrlmapInvCorrect, PTL

(* While find_app() runs, every location of the map is that of an entry.   *)
LEMMA LocationOfEntry ==
  ASSUME UrlmapInv, uri # <<>>, NEW l \in Locations
  PROVE  l \in Seq(AnyChar) /\ \E j \in 1 .. Len(mapping_) : mapping_[j].location = l
<1>1. /\ Remapped /\ visited = Len(maps) /\ visited \in Nat /\ Len(mapping_) = visited
      /\ DOMAIN maps = 1 .. visited /\ DOMAIN mapping_ = 1 .. visited
  <2>1. maps \in Seq(Seq(AnyChar))
    BY UrlmapAssumption DEF UrlmapInv, Remapped, AnyChar
  <2> QED
    BY <2>1, Keys DEF UrlmapInv, Looking
<1>2. PICK i \in 1 .. visited : l = Mapping(maps[i]).location
  BY <1>1 DEF Locations
<1>3. maps[i] \in Seq(AnyChar)
  BY <1>1, Keys
<1>4. Mapping(maps[i]) \in Elements(mapping_)
  BY <1>1 DEF Remapped, Mapped
<1>5. PICK j \in 1 .. visited : mapping_[j] = Mapping(maps[i])
  BY <1>1, <1>4 DEF Elements
<1> QED
  BY <1>1, <1>2, <1>3, <1>5, MappingType

LEMMA UriType ==
  ASSUME UrlmapInv, uri # <<>>
  PROVE  /\ uri \in Seq(AnyChar) /\ Squeezed(uri) \in Seq(Chars)
         /\ \A i \in 1 .. Len(Squeezed(uri)) : Squeezed(uri)[i] # Scheme
<1>1. uri \in Seq(Chars)
  BY UrlmapAssumption DEF UrlmapInv, Looking
<1>2. uri \in Seq(AnyChar)
  BY <1>1 DEF AnyChar
<1>3. Squeezed(uri) \in Seq(Chars)
  BY <1>1, SqueezedType
<1>4. \A i \in 1 .. Len(Squeezed(uri)) : Squeezed(uri)[i] \in Chars
  BY <1>3
<1> QED
  BY <1>2, <1>3, <1>4, UrlmapAssumption

(* The application returned is that of the longest location the URI starts *)
(* with, for every map whose locations have no run of slashes.             *)
THEOREM LongestFoundCorrect == Spec => []LongestFound
<1>1. UrlmapInv => LongestFound
  <2> SUFFICES ASSUME UrlmapInv, \A l \in Locations : Squeezed(l) = l, uri # <<>>,
                      NEW key \in found \ {NoApp}
               PROVE  LET mine == Mapping(key).location
                      IN /\ StartsWith(Squeezed(uri), mine)
                         /\ \A l \in Locations : StartsWith(Squeezed(uri), l) /\ l # mine =>
                              Size(l) < Size(mine)
    BY DEF LongestFound
  <2> DEFINE mine == Mapping(key).location
  <2>1. /\ it \in 1 .. Len(mapping_) /\ Matches(mapping_[it].location, uri)
        /\ key = mapping_[it].app
        /\ \A i \in 1 .. it - 1 : ~Matches(mapping_[i].location, uri)
    BY Keys DEF UrlmapInv, Looking, Looked
  <2>2. PICK j \in 1 .. visited : mapping_[it] = Mapping(maps[j]) /\ mapping_[it].app = maps[j]
    BY <2>1, Keys DEF UrlmapInv
  <2>3. mapping_[it].location = mine /\ mine \in Locations
    <3>1. visited = Len(maps) /\ DOMAIN maps = 1 .. Len(maps)
      BY UrlmapAssumption DEF UrlmapInv, Looking, Remapped
    <3> QED
      BY <2>1, <2>2, <3>1 DEF Locations
  <2> HIDE DEF mine
  <2>4. mine \in Seq(AnyChar) /\ uri \in Seq(AnyChar)
    BY <2>3, LocationOfEntry, UriType
  <2>5. StartsWith(Squeezed(uri), mine)
    BY <2>1, <2>3, <2>4, MatchesIff
  <2>6. ASSUME NEW l \in Locations, StartsWith(Squeezed(uri), l), l # mine
        PROVE  Size(l) < Size(mine)
    <3>1. l \in Seq(AnyChar)
      BY LocationOfEntry
    <3>2. Matches(l, uri)
      BY <2>4, <2>6, <3>1, MatchesIff
    <3>3. PICK k \in 1 .. Len(mapping_) : mapping_[k].location = l
      BY LocationOfEntry
    <3>4. it < k
      <4>1. ~(k \in 1 .. it - 1) /\ k # it
        BY <2>1, <2>3, <2>6, <3>2, <3>3
      <4>2. Len(mapping_) \in Nat
        BY Keys DEF UrlmapInv
      <4> QED
        BY <2>1, <4>1, <4>2
    <3>5. Size(l) \in Nat /\ Size(mine) \in Nat
      BY <2>4, <3>1, SizeType
    <3>6. ~(Size(l) > Size(mine))
      <4>1. DOMAIN mapping_ = 1 .. Len(mapping_)
        BY Keys DEF UrlmapInv
      <4> QED
        BY <2>1, <2>3, <3>3, <3>4, <4>1 DEF UrlmapInv, Remapped, Sorted, Before
    <3>7. Size(l) = Len(l) /\ Size(mine) = Len(mine)
      <4>1. \A i \in 1 .. Len(l) : l[i] # Scheme
        BY <2>6, <3>1, UriType DEF StartsWith
      <4>2. \A i \in 1 .. Len(mine) : mine[i] # Scheme
        BY <2>4, <2>5, UriType DEF StartsWith
      <4> QED
        BY <2>4, <3>1, <4>1, <4>2, SizeWithoutScheme
    <3>8. Len(l) # Len(mine)
      <4> SUFFICES ASSUME Len(l) = Len(mine) PROVE FALSE
        OBVIOUS
      <4>1. \A i \in 1 .. Len(l) : l[i] = mine[i]
        BY <2>5, <2>6 DEF StartsWith
      <4>2. l = mine
        BY <2>4, <3>1, <4>1
      <4> QED
        BY <2>6, <4>2
    <3> QED
      BY <3>5, <3>6, <3>7, <3>8
  <2> QED
    BY <2>5, <2>6 DEF mine
<1> QED
  BY <1>1, UrlmapInvCorrect, PTL

(* NULL is returned only if the URI starts with no location of the map.    *)
THEOREM NoneFoundCorrect == Spec => []NoneFound
<1>1. UrlmapInv => NoneFound
  <2> SUFFICES ASSUME UrlmapInv, \A l \in Locations : Squeezed(l) = l, uri # <<>>,
                      found = {NoApp}, NEW l \in Locations, StartsWith(Squeezed(uri), l)
               PROVE  FALSE
    BY DEF NoneFound
  <2>1. l \in Seq(AnyChar) /\ uri \in Seq(AnyChar)
    BY LocationOfEntry, UriType
  <2>2. Matches(l, uri)
    BY <2>1, MatchesIff
  <2>3. PICK k \in 1 .. Len(mapping_) : mapping_[k].location = l
    BY LocationOfEntry
  <2>4. it \in 1 .. Len(mapping_) + 1 /\ Len(mapping_) = visited /\ visited \in Nat
        /\ \A i \in 1 .. it - 1 : ~Matches(mapping_[i].location, uri)
    BY Keys DEF UrlmapInv, Looking
  <2>5. CASE it > Len(mapping_)
    BY <2>2, <2>3, <2>4, <2>5
  <2>6. CASE ~(it > Len(mapping_))
    <3>1. found = {mapping_[it].app} /\ it \in 1 .. visited
      BY <2>4, <2>6 DEF UrlmapInv, Looked
    <3>2. PICK j \in 1 .. visited : mapping_[it].app = maps[j]
      BY <3>1, Keys DEF UrlmapInv
    <3>3. maps[j] \in Seq(AnyChar)
      BY <2>4, Keys DEF UrlmapInv, Looking
    <3>4. NoApp \in Seq(AnyChar)
      BY <3>1, <3>2, <3>3
    <3>5. NoApp[1] \in AnyChar /\ NoApp[1] = "NULL"
      BY <3>4 DEF NoApp
    <3> QED
      BY <3>5, UrlmapAssumption DEF AnyChar, Scheme
  <2> QED
    BY <2>5, <2>6
<1> QED
  BY <1>1, UrlmapInvCorrect, PTL

=============================================================================
