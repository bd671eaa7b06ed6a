-------------------------- MODULE SubsequenceProofs --------------------------
(***************************************************************************)
(* Induction over the naturals, from the least number of a set; functions  *)
(* defined by recursion over an interval; and what a subsequence contains. *)
(***************************************************************************)
EXTENDS Subsequences, WellFoundedInduction, TLAPS

-----------------------------------------------------------------------------
(***************************************************************************)
(* Induction.                                                              *)
(***************************************************************************)
Less == {pair \in Nat \X Nat : pair[1] < pair[2]}

LEMMA LessIsWellFounded == IsWellFoundedOn(Less, Nat)
<1>1. IsWellFoundedOn(OpToRel(<, Nat), Nat)
  BY NatLessThanWellFounded
<1>2. OpToRel(<, Nat) = Less
  BY DEF OpToRel, Less
<1> QED
  BY <1>1, <1>2

\* A set of numbers that is not empty has a least one.
LEMMA LeastNumber ==
  ASSUME NEW T, T \subseteq Nat, T # {}
  PROVE  \E x \in T : \A y \in T : x <= y
<1>1. PICK x \in T : \A y \in T : <<y, x>> \notin Less
  BY LessIsWellFounded, WFMin
<1>2. ASSUME NEW y \in T PROVE x <= y
  <2>1. <<y, x>> \notin Less
    BY <1>1
  <2>2. x \in Nat /\ y \in Nat /\ <<y, x>> \in Nat \X Nat
    OBVIOUS
  <2>3. ~(<<y, x>>[1] < <<y, x>>[2])
    BY <2>1, <2>2 DEF Less
  <2> QED
    BY <2>2, <2>3
<1> QED
  BY <1>2

\* Some of the first n numbers have a largest among them.
LEMMA LargestOfSome ==
  ASSUME NEW n \in Nat, NEW S \in SUBSET (1..n), S # {}
  PROVE  \E x \in S : \A y \in S : y <= x
<1> DEFINE R == {n - x : x \in S}
<1>1. R \subseteq Nat /\ R # {}
  <2>1. \A x \in S : x \in 1..n /\ n - x \in Nat
    OBVIOUS
  <2> QED
    BY <2>1
<1>2. PICK r \in R : \A y \in R : r <= y
  <2> HIDE DEF R
  <2> QED
    BY <1>1, LeastNumber
<1>3. PICK x \in S : r = n - x
  BY <1>2
<1>4. ASSUME NEW y \in S PROVE y <= x
  <2>1. r <= n - y
    BY <1>2
  <2> QED
    BY <1>3, <2>1
<1> QED
  BY <1>4

\* Induction up to n: what holds of 0, and of each number if of the one before,
\* holds up to n.  A property is the set of the numbers that have it.
LEMMA InductionUpTo ==
  ASSUME NEW n \in Nat, NEW P, 0 \in P,
         \A i \in 1..n : i - 1 \in P => i \in P
  PROVE  \A i \in 0..n : i \in P
<1> DEFINE T == {i \in 0..n : i \notin P}
<1> SUFFICES ASSUME T # {} PROVE FALSE
  OBVIOUS
<1>1. T \subseteq Nat
  OBVIOUS
<1>2. PICK x \in T : \A y \in T : x <= y
  BY <1>1, LeastNumber
<1>3. x \in 1..n /\ x - 1 \in 0..n /\ x - 1 \notin T
  BY <1>2
<1> QED
  BY <1>3

-----------------------------------------------------------------------------
(***************************************************************************)
(* Recursion: the value at i comes from the one at i - 1 by a step.        *)
(***************************************************************************)
IsRecursive(f, n, V, first, step) ==
  /\ f \in [0..n -> V] /\ f[0] = first
  /\ \A i \in 1..n : f[i] = step[<<i, f[i - 1]>>]

LEMMA RecursionExists ==
  ASSUME NEW n \in Nat, NEW V, NEW first \in V, NEW step \in [(1..n) \X V -> V]
  PROVE  \E f : IsRecursive(f, n, V, first, step)
<1> DEFINE P == {m \in 0..n : \E f : IsRecursive(f, m, V, first, step)}
<1>1. 0 \in P
  <2>1. IsRecursive([i \in 0..0 |-> first], 0, V, first, step)
    BY DEF IsRecursive
  <2> QED
    BY <2>1
<1>2. ASSUME NEW m \in 1..n, m - 1 \in P PROVE m \in P
  <2>1. PICK f : IsRecursive(f, m - 1, V, first, step)
    BY <1>2
  <2> DEFINE g == [i \in 0..m |-> IF i < m THEN f[i] ELSE step[<<m, f[m - 1]>>]]
  <2>2. m - 1 \in 0..(m - 1) /\ f \in [0..(m - 1) -> V] /\ f[m - 1] \in V
    BY <2>1 DEF IsRecursive
  <2>3. step[<<m, f[m - 1]>>] \in V
    BY <2>2
  <2>4. \A i \in 0..m : i < m => i \in 0..(m - 1) /\ f[i] \in V
    BY <2>2
  <2>5. g \in [0..m -> V]
    BY <2>3, <2>4
  <2>6. g[0] = first
    BY <2>1, 0 \in 0..m DEF IsRecursive
  <2>7. ASSUME NEW i \in 1..m PROVE g[i] = step[<<i, g[i - 1]>>]
    <3>1. i \in 0..m /\ i - 1 \in 0..m /\ i - 1 < m
      OBVIOUS
    <3>2. g[i - 1] = f[i - 1]
      BY <3>1
    <3>3. CASE i < m
      <4>1. i \in 1..(m - 1)
        BY <3>3
      <4>2. f[i] = step[<<i, f[i - 1]>>]
        BY <2>1, <4>1 DEF IsRecursive
      <4> QED
        BY <3>1, <3>2, <3>3, <4>2
    <3>4. CASE i = m
      BY <3>1, <3>2, <3>4
    <3> QED
      BY <3>3, <3>4
  <2>8. IsRecursive(g, m, V, first, step)
    BY <2>5, <2>6, <2>7 DEF IsRecursive
  <2> QED
    BY <2>8
<1>3. \A i \in 0..n : i \in P
  <2> HIDE DEF P
  <2> QED
    BY <1>1, <1>2, InductionUpTo
<1>4. n \in P
  BY <1>3
<1> QED
  BY <1>4

-----------------------------------------------------------------------------
(***************************************************************************)
(* Subsequences.                                                           *)
(***************************************************************************)
\* The rounds of the loop: KeptUpTo is what its definition says.
LEMMA KeptRounds ==
  ASSUME NEW S, NEW s \in Seq(S), NEW I
  PROVE  /\ KeptUpTo(s, I) \in [0..Len(s) -> Seq(S)]
         /\ KeptUpTo(s, I)[0] = << >>
         /\ \A i \in 1..Len(s) :
              KeptUpTo(s, I)[i] = IF i \in I THEN Append(KeptUpTo(s, I)[i - 1], s[i])
                                             ELSE KeptUpTo(s, I)[i - 1]
<1> DEFINE n == Len(s)
           step == [p \in (1..n) \X Seq(S) |-> IF p[1] \in I THEN Append(p[2], s[p[1]]) ELSE p[2]]
           body(f) == [i \in 0..n |-> IF i = 0 THEN << >>
                                      ELSE IF i \in I THEN Append(f[i - 1], s[i]) ELSE f[i - 1]]
<1>1. n \in Nat /\ << >> \in Seq(S)
  OBVIOUS
<1>2. step \in [(1..n) \X Seq(S) -> Seq(S)]
  <2>1. ASSUME NEW p \in (1..n) \X Seq(S)
        PROVE  (IF p[1] \in I THEN Append(p[2], s[p[1]]) ELSE p[2]) \in Seq(S)
    OBVIOUS
  <2> QED
    BY <2>1
<1>3. PICK f : IsRecursive(f, n, Seq(S), << >>, step)
  <2> HIDE DEF n, step
  <2> QED
    BY <1>1, <1>2, RecursionExists
<1>4. ASSUME NEW g, NEW i \in 1..n, g \in [0..n -> Seq(S)]
      PROVE  step[<<i, g[i - 1]>>] = IF i \in I THEN Append(g[i - 1], s[i]) ELSE g[i - 1]
  <2>1. i - 1 \in 0..n /\ g[i - 1] \in Seq(S)
    BY <1>4
  <2>2. <<i, g[i - 1]>> \in (1..n) \X Seq(S)
    BY <2>1
  <2> QED
    BY <2>2
<1>5. f = body(f)
  <2>1. f \in [0..n -> Seq(S)] /\ f[0] = << >>
    BY <1>3 DEF IsRecursive
  <2>2. ASSUME NEW i \in 1..n
        PROVE  f[i] = IF i \in I THEN Append(f[i - 1], s[i]) ELSE f[i - 1]
    <3>1. f[i] = step[<<i, f[i - 1]>>]
      <4> HIDE DEF step
      <4> QED
        BY <1>3 DEF IsRecursive
    <3> HIDE DEF step
    <3> QED
      BY <1>4, <2>1, <3>1
  <2>3. ASSUME NEW i \in 0..n
        PROVE  f[i] = IF i = 0 THEN << >>
                      ELSE IF i \in I THEN Append(f[i - 1], s[i]) ELSE f[i - 1]
    <3>1. CASE i = 0
      BY <2>1, <3>1
    <3>2. CASE i # 0
      <4>1. i \in 1..n
        BY <1>1, <3>2
      <4> QED
        BY <2>2, <3>2, <4>1, Zenon
    <3> QED
      BY <3>1, <3>2, Zenon
  <2> QED
    BY <2>1, <2>3
<1>6. KeptUpTo(s, I) = body(KeptUpTo(s, I))
  <2>1. KeptUpTo(s, I) = CHOOSE g : g = body(g)
    BY DEF KeptUpTo
  <2> QED
    BY <1>5, <2>1, Zenon
<1> DEFINE k == KeptUpTo(s, I)
<1>7. k[0] = << >> /\ DOMAIN k = 0..n
  BY <1>6
<1>8. ASSUME NEW i \in 1..n
      PROVE  k[i] = IF i \in I THEN Append(k[i - 1], s[i]) ELSE k[i - 1]
  <2>1. i \in 0..n /\ i # 0
    BY <1>1
  <2>2. k[i] = body(k)[i]
    BY <1>6, Zenon
  <2> HIDE DEF k, n
  <2> QED
    BY <2>1, <2>2
<1> DEFINE P == {i \in 0..n : k[i] \in Seq(S)}
<1>9. \A i \in 0..n : i \in P
  <2>1. 0 \in P
    BY <1>7
  <2>2. ASSUME NEW i \in 1..n, i - 1 \in P PROVE i \in P
    <3>1. k[i - 1] \in Seq(S) /\ i \in 0..n /\ s[i] \in S
      BY <2>2
    <3>2. Append(k[i - 1], s[i]) \in Seq(S)
      <4> HIDE DEF k
      <4> QED
        BY <3>1
    <3>3. k[i] \in Seq(S)
      <4> HIDE DEF k, n
      <4> QED
        BY <1>8, <3>1, <3>2
    <3> QED
      BY <3>1, <3>3
  <2> HIDE DEF P
  <2> QED
    BY <1>1, <2>1, <2>2, InductionUpTo
<1>10. k \in [0..n -> Seq(S)]
  <2>1. k = [i \in 0..n |-> k[i]]
    BY <1>6
  <2> QED
    BY <1>9, <2>1
<1> QED
  BY <1>7, <1>8, <1>10

\* f numbers the elements of I up to m, in their order.
Enumerates(f, n, I, m) ==
  /\ f \in [1..n -> I \cap (1..m)]
  /\ \A i, j \in 1..n : i < j => f[i] < f[j]
  /\ \A x \in I \cap (1..m) : \E j \in 1..n : f[j] = x

\* q has the elements of s at those indices, in their order.
Picks(q, f, s, I, m) ==
  Enumerates(f, Len(q), I, m) /\ q = [j \in 1..Len(q) |-> s[f[j]]]

LEMMA KeptUpToEnumerates ==
  ASSUME NEW S, NEW s \in Seq(S), NEW I, NEW m \in 0..Len(s)
  PROVE  \E f : Picks(KeptUpTo(s, I)[m], f, s, I, m)
<1> DEFINE k == KeptUpTo(s, I)
           Good(i, f) == /\ Enumerates(f, Len(k[i]), I, i)
                         /\ k[i] = [j \in 1..Len(k[i]) |-> s[f[j]]]
           P == {i \in 0..Len(s) : \E f : Good(i, f)}
<1>1. /\ k \in [0..Len(s) -> Seq(S)] /\ k[0] = << >>
      /\ \A i \in 1..Len(s) : k[i] = IF i \in I THEN Append(k[i - 1], s[i]) ELSE k[i - 1]
  BY KeptRounds
<1> HIDE DEF k
<1>2. 0 \in P
  <2> DEFINE none == [j \in 1..0 |-> 0]
  <2>1. Len(k[0]) = 0 /\ k[0] = [j \in 1..0 |-> s[none[j]]]
    BY <1>1
  <2>2. Enumerates(none, 0, I, 0)
    BY DEF Enumerates
  <2>3. Good(0, none)
    BY <2>1, <2>2
  <2> HIDE DEF Good
  <2> QED
    BY <2>3
<1>3. ASSUME NEW i \in 1..Len(s), i - 1 \in P PROVE i \in P
  <2>1. PICK f : Good(i - 1, f)
    BY <1>3
  <2> DEFINE n == Len(k[i - 1])
  <2>2. n \in Nat /\ k[i - 1] \in Seq(S) /\ i \in 0..Len(s) /\ i - 1 \in 0..Len(s) /\ s[i] \in S
    <3>1. i \in 0..Len(s) /\ i - 1 \in 0..Len(s) /\ s[i] \in S
      OBVIOUS
    <3>2. k[i - 1] \in Seq(S)
      BY <1>1, <3>1
    <3> QED
      BY <3>1, <3>2
  <2>3. /\ f \in [1..n -> I \cap (1..(i - 1))]
        /\ \A x, y \in 1..n : x < y => f[x] < f[y]
        /\ \A x \in I \cap (1..(i - 1)) : \E j \in 1..n : f[j] = x
        /\ k[i - 1] = [j \in 1..n |-> s[f[j]]]
    BY <2>1 DEF Enumerates
  <2>4. CASE i \notin I
    <3>1. k[i] = k[i - 1] /\ I \cap (1..i) = I \cap (1..(i - 1))
      BY <1>1, <2>4
    <3>2. Good(i, f)
      BY <2>1, <3>1 DEF Enumerates
    <3> QED
      BY <2>2, <3>2
  <2>5. CASE i \in I
    <3> DEFINE g == [j \in 1..(n + 1) |-> IF j = n + 1 THEN i ELSE f[j]]
    <3>1. k[i] = Append(k[i - 1], s[i])
      BY <1>1, <2>5
    <3>2. Len(k[i]) = n + 1
      BY <2>2, <3>1
    <3> HIDE DEF n
    <3>3. \A j \in 1..n : f[j] \in I /\ f[j] \in 1..(i - 1)
      BY <2>3
    <3>4. g \in [1..(n + 1) -> I \cap (1..i)]
      <4>1. ASSUME NEW j \in 1..(n + 1) PROVE (IF j = n + 1 THEN i ELSE f[j]) \in I \cap (1..i)
        BY <2>2, <2>5, <3>3
      <4> QED
        BY <4>1
    <3>5. ASSUME NEW x \in 1..(n + 1), NEW y \in 1..(n + 1), x < y PROVE g[x] < g[y]
      <4>1. x \in 1..n /\ g[x] = f[x] /\ f[x] < i /\ f[x] \in Int
        BY <2>2, <3>3, <3>5
      <4>2. CASE y = n + 1
        BY <4>1, <4>2
      <4>3. CASE y # n + 1
        <5>1. y \in 1..n /\ g[y] = f[y]
          BY <2>2, <4>3
        <5> QED
          BY <2>3, <3>5, <4>1, <5>1
      <4> QED
        BY <4>2, <4>3
    <3>6. ASSUME NEW x \in I \cap (1..i) PROVE \E j \in 1..(n + 1) : g[j] = x
      <4>1. CASE x = i
        <5>1. n + 1 \in 1..(n + 1) /\ g[n + 1] = i
          BY <2>2
        <5> QED
          BY <4>1, <5>1
      <4>2. CASE x # i
        <5>1. x \in I \cap (1..(i - 1))
          BY <4>2
        <5>2. PICK j \in 1..n : f[j] = x
          BY <2>3, <5>1
        <5>3. j \in 1..(n + 1) /\ g[j] = f[j]
          BY <2>2
        <5> QED
          BY <5>2, <5>3
      <4> QED
        BY <4>1, <4>2
    <3>7. k[i] = [j \in 1..(n + 1) |-> s[g[j]]]
      <4>1. k[i] \in Seq(S) /\ Len(k[i]) = n + 1
        BY <1>1, <2>2, <3>2
      <4>2. ASSUME NEW j \in 1..(n + 1) PROVE k[i][j] = s[g[j]]
        <5>1. CASE j = n + 1
          BY <2>2, <3>1, <5>1 DEF n
        <5>2. CASE j # n + 1
          <6>1. j \in 1..n
            BY <2>2, <5>2
          <6>2. k[i][j] = k[i - 1][j]
            BY <2>2, <3>1, <6>1 DEF n
          <6> QED
            BY <2>3, <5>2, <6>1, <6>2
        <5> QED
          BY <5>1, <5>2
      <4> HIDE DEF g, n
      <4> DEFINE new == k[i]
      <4>3. new = [j \in 1..Len(new) |-> new[j]]
        <5> SUFFICES ASSUME new \in Seq(S) PROVE new = [j \in 1..Len(new) |-> new[j]]
          BY <4>1
        <5> HIDE DEF new
        <5> QED
          OBVIOUS
      <4>4. k[i] = [j \in 1..(n + 1) |-> k[i][j]]
        BY <4>1, <4>3
      <4> QED
        BY <4>2, <4>4
    <3>8. Good(i, g)
      <4> HIDE DEF g
      <4> QED
        BY <3>2, <3>4, <3>5, <3>6, <3>7 DEF Enumerates
    <3> HIDE DEF g, Good
    <3> QED
      BY <2>2, <3>8
  <2> QED
    BY <2>4, <2>5
<1>4. m \in P
  <2> HIDE DEF P
  <2>1. Len(s) \in Nat
    OBVIOUS
  <2> QED
    BY <1>2, <1>3, <2>1, InductionUpTo
<1>5. PICK f : Good(m, f)
  BY <1>4
<1>6. Picks(k[m], f, s, I, m)
  BY <1>5 DEF Picks
<1> QED
  BY <1>6 DEF k

LEMMA KeptEnumerates ==
  ASSUME NEW S, NEW s \in Seq(S), NEW I
  PROVE  Kept(s, I) \in Seq(S) /\ \E f : Picks(Kept(s, I), f, s, I, Len(s))
<1>1. Len(s) \in 0..Len(s)
  OBVIOUS
<1>2. KeptUpTo(s, I)[Len(s)] \in Seq(S)
  BY <1>1, KeptRounds
<1>3. \E f : Picks(KeptUpTo(s, I)[Len(s)], f, s, I, Len(s))
  BY <1>1, KeptUpToEnumerates
<1> QED
  BY <1>2, <1>3 DEF Kept

\* It is shorter than s when an index is left out, and never longer.
LEMMA KeptLength ==
  ASSUME NEW S, NEW s \in Seq(S), NEW I
  PROVE  /\ Len(Kept(s, I)) <= Len(s)
         /\ (\E x \in 1..Len(s) : x \notin I) => Len(Kept(s, I)) < Len(s)
<1> DEFINE k == KeptUpTo(s, I)
           P == {i \in 0..Len(s) : /\ Len(k[i]) <= i
                                   /\ (\E x \in 1..i : x \notin I) => Len(k[i]) < i}
<1>1. /\ k \in [0..Len(s) -> Seq(S)] /\ k[0] = << >>
      /\ \A i \in 1..Len(s) : k[i] = IF i \in I THEN Append(k[i - 1], s[i]) ELSE k[i - 1]
  BY KeptRounds
<1> HIDE DEF k
<1>2. 0 \in P
  BY <1>1
<1>3. ASSUME NEW i \in 1..Len(s), i - 1 \in P PROVE i \in P
  <2>0. i - 1 \in 0..Len(s) /\ i \in 0..Len(s) /\ s[i] \in S
    OBVIOUS
  <2>1. /\ i - 1 \in 0..Len(s) /\ i \in 0..Len(s) /\ s[i] \in S
        /\ k[i - 1] \in Seq(S) /\ Len(k[i - 1]) \in Nat
    <3>1. k[i - 1] \in Seq(S)
      BY <1>1, <2>0
    <3> QED
      BY <2>0, <3>1
  <2>2. /\ Len(k[i - 1]) <= i - 1
        /\ (\E x \in 1..(i - 1) : x \notin I) => Len(k[i - 1]) < i - 1
    BY <1>3
  <2>3. CASE i \in I
    <3>1. Len(k[i]) = Len(k[i - 1]) + 1
      <4>1. k[i] = Append(k[i - 1], s[i])
        BY <1>1, <2>3
      <4>2. Len(Append(k[i - 1], s[i])) = Len(k[i - 1]) + 1
        BY <2>1
      <4> QED
        BY <4>1, <4>2
    <3>2. \A x \in 1..i : x \notin I => x \in 1..(i - 1)
      BY <2>3
    <3> QED
      BY <2>1, <2>2, <3>1, <3>2
  <2>4. CASE i \notin I
    BY <1>1, <2>1, <2>2, <2>4
  <2> QED
    BY <2>3, <2>4
<1>4. Len(s) \in P
  <2> DEFINE n == Len(s)
  <2>1. n \in Nat /\ n \in 0..n
    OBVIOUS
  <2>2. 0 \in P /\ \A i \in 1..n : i - 1 \in P => i \in P
    BY <1>2, <1>3
  <2> HIDE DEF P, n
  <2>3. n \in P
    BY <2>1, <2>2, InductionUpTo
  <2> QED
    BY <2>3 DEF n
<1> QED
  BY <1>4 DEF Kept, k

\* q has the elements of s at the indices in I, each as often as s.
DrawnFrom(q, s, I) ==
  /\ \A j \in 1..Len(q) : \E i \in I \cap (1..Len(s)) : q[j] = s[i]
  /\ \A i \in I \cap (1..Len(s)) : \E j \in 1..Len(q) : q[j] = s[i]
  /\ \A x, y \in 1..Len(q) : x # y =>
       \E i, j \in I \cap (1..Len(s)) : i # j /\ q[x] = s[i] /\ q[y] = s[j]

LEMMA KeptElements ==
  ASSUME NEW S, NEW s \in Seq(S), NEW I
  PROVE  Kept(s, I) \in Seq(S) /\ DrawnFrom(Kept(s, I), s, I)
<1> DEFINE k == Kept(s, I)
<1>1. k \in Seq(S)
  BY KeptEnumerates
<1>2. PICK f : Picks(k, f, s, I, Len(s))
  BY KeptEnumerates
<1> HIDE DEF k
<1>3. /\ f \in [1..Len(k) -> I \cap (1..Len(s))]
      /\ \A i, j \in 1..Len(k) : i < j => f[i] < f[j]
      /\ \A x \in I \cap (1..Len(s)) : \E j \in 1..Len(k) : f[j] = x
      /\ \A j \in 1..Len(k) : k[j] = s[f[j]]
  BY <1>2 DEF Picks, Enumerates
<1>4. \A x, y \in 1..Len(k) : x # y => f[x] # f[y]
  <2> SUFFICES ASSUME NEW x \in 1..Len(k), NEW y \in 1..Len(k), x # y PROVE f[x] # f[y]
    OBVIOUS
  <2>1. x < y \/ y < x
    OBVIOUS
  <2>2. f[x] \in 1..Len(s) /\ f[y] \in 1..Len(s)
    <3>1. f \in [1..Len(k) -> I \cap (1..Len(s))]
      BY <1>3
    <3> QED
      BY <3>1
  <2>3. f[x] < f[y] \/ f[y] < f[x]
    BY <1>3, <2>1
  <2> QED
    BY <2>2, <2>3
<1>5. \A j \in 1..Len(k) : f[j] \in I \cap (1..Len(s)) /\ k[j] = s[f[j]]
  BY <1>3
<1>6. \A i \in I \cap (1..Len(s)) : \E j \in 1..Len(k) : k[j] = s[i]
  BY <1>3
<1>7. ASSUME NEW x \in 1..Len(k), NEW y \in 1..Len(k), x # y
      PROVE  \E i, j \in I \cap (1..Len(s)) : i # j /\ k[x] = s[i] /\ k[y] = s[j]
  <2>1. f[x] # f[y] /\ f[x] \in I \cap (1..Len(s)) /\ f[y] \in I \cap (1..Len(s))
    BY <1>4, <1>5, <1>7
  <2> QED
    BY <1>5, <2>1
<1>8. DrawnFrom(k, s, I)
  BY <1>5, <1>6, <1>7 DEF DrawnFrom
<1> QED
  BY <1>1, <1>8 DEF k
-----------------------------------------------------------------------------
(***************************************************************************)
(* What the loop builds of sequences that agree, of one put together, and  *)
(* of one it keeps all or nothing of.                                      *)
(***************************************************************************)
LEMMA KeptAgrees ==
  ASSUME NEW S, NEW s \in Seq(S), NEW t \in Seq(S), NEW I, NEW J,
         NEW m \in Nat, m <= Len(s), m <= Len(t),
         \A i \in 1..m : s[i] = t[i] /\ (i \in I <=> i \in J)
  PROVE  KeptUpTo(s, I)[m] = KeptUpTo(t, J)[m]
<1> DEFINE k == KeptUpTo(s, I)
           l == KeptUpTo(t, J)
           P == {i \in 0..m : k[i] = l[i]}
<1>1. /\ k[0] = << >> /\ l[0] = << >>
      /\ \A i \in 1..m : k[i] = IF i \in I THEN Append(k[i - 1], s[i]) ELSE k[i - 1]
      /\ \A i \in 1..m : l[i] = IF i \in J THEN Append(l[i - 1], t[i]) ELSE l[i - 1]
  <2>1. \A i \in 1..m : i \in 1..Len(s) /\ i \in 1..Len(t)
    OBVIOUS
  <2> QED
    BY <2>1, KeptRounds
<1> HIDE DEF k, l
<1>2. 0 \in P
  BY <1>1
<1>3. ASSUME NEW i \in 1..m, i - 1 \in P PROVE i \in P
  BY <1>1, <1>3
<1>4. m \in P
  <2> HIDE DEF P
  <2>1. \A i \in 0..m : i \in P
    BY <1>2, <1>3, InductionUpTo
  <2> QED
    BY <2>1
<1> QED
  BY <1>4 DEF k, l

\* u is s followed by t.
Joined(u, s, t) ==
  /\ Len(u) = Len(s) + Len(t)
  /\ \A i \in 1..Len(s) : u[i] = s[i]
  /\ \A i \in 1..Len(t) : u[Len(s) + i] = t[i]

\* One more element after both is one more after the second.
LEMMA JoinedWithOne ==
  ASSUME NEW S, NEW u \in Seq(S), NEW s \in Seq(S), NEW t \in Seq(S), NEW e \in S, Joined(u, s, t)
  PROVE  Joined(Append(u, e), s, Append(t, e))
<1> DEFINE v == Append(u, e)
           w == Append(t, e)
<1>1. /\ Len(v) = Len(u) + 1 /\ v[Len(u) + 1] = e /\ \A i \in 1..Len(u) : v[i] = u[i]
      /\ Len(w) = Len(t) + 1 /\ w[Len(t) + 1] = e /\ \A i \in 1..Len(t) : w[i] = t[i]
  OBVIOUS
<1>2. Len(u) \in Nat /\ Len(s) \in Nat /\ Len(t) \in Nat
  OBVIOUS
<1> HIDE DEF v, w
<1>3. Len(v) = Len(s) + Len(w) /\ \A i \in 1..Len(s) : v[i] = s[i]
  <2>1. Len(u) = Len(s) + Len(t) /\ \A i \in 1..Len(s) : u[i] = s[i]
    BY DEF Joined
  <2>2. Len(v) = Len(s) + Len(w)
    BY <1>1, <1>2, <2>1
  <2>3. \A i \in 1..Len(s) : i \in 1..Len(u)
    BY <1>2, <2>1
  <2> QED
    BY <1>1, <2>1, <2>2, <2>3
<1>4. ASSUME NEW i \in 1..Len(w) PROVE v[Len(s) + i] = w[i]
  <2>1. CASE i \in 1..Len(t)
    <3>1. Len(s) + i \in 1..Len(u)
      BY <1>2, <2>1 DEF Joined
    <3> QED
      BY <1>1, <2>1, <3>1 DEF Joined
  <2>2. CASE i = Len(t) + 1
    <3>1. Len(s) + i = Len(u) + 1
      BY <1>2, <2>2 DEF Joined
    <3> QED
      BY <1>1, <2>2, <3>1
  <2> QED
    BY <1>1, <1>2, <2>1, <2>2
<1>5. Joined(v, s, w)
  BY <1>3, <1>4 DEF Joined
<1> QED
  BY <1>5 DEF v, w

LEMMA JoinedIsConcat ==
  ASSUME NEW S, NEW u \in Seq(S), NEW s \in Seq(S), NEW t \in Seq(S)
  PROVE  Joined(u, s, t) <=> u = s \o t
<1> DEFINE v == s \o t
<1>1. v \in Seq(S) /\ Joined(v, s, t)
  BY DEF Joined
<1>2. ASSUME Joined(u, s, t) PROVE u = v
  <2> HIDE DEF v
  <2>1. Len(u) = Len(v) /\ Len(s) \in Nat /\ Len(t) \in Nat /\ Len(u) = Len(s) + Len(t)
    BY <1>1, <1>2 DEF Joined
  <2>2. ASSUME NEW i \in 1..Len(u) PROVE u[i] = v[i]
    <3>1. CASE i \in 1..Len(s)
      BY <1>1, <1>2, <3>1 DEF Joined
    <3>2. CASE i \notin 1..Len(s)
      <4>1. PICK j \in 1..Len(t) : i = Len(s) + j
        <5>1. i - Len(s) \in 1..Len(t) /\ i = Len(s) + (i - Len(s))
          BY <2>1, <3>2
        <5> QED
          BY <5>1
      <4> QED
        BY <1>1, <1>2, <4>1 DEF Joined
    <3> QED
      BY <3>1, <3>2
  <2>3. u = [i \in 1..Len(u) |-> u[i]] /\ v = [i \in 1..Len(v) |-> v[i]]
    BY <1>1
  <2> QED
    BY <2>1, <2>2, <2>3
<1> QED
  BY <1>1, <1>2

\* Of a sequence put together of two, first what it keeps of the one.
LEMMA KeptOfBoth ==
  ASSUME NEW S, NEW u \in Seq(S), NEW s \in Seq(S), NEW t \in Seq(S), Joined(u, s, t),
         NEW I, NEW J, \A i \in 1..Len(t) : i \in J <=> Len(s) + i \in I
  PROVE  Joined(Kept(u, I), Kept(s, I), Kept(t, J))
<1> DEFINE n == Len(s)
           k == KeptUpTo(u, I)
           l == KeptUpTo(t, J)
           head == Kept(s, I)
           P == {i \in 0..Len(t) : Joined(k[n + i], head, l[i])}
<1>1. /\ Len(u) = n + Len(t) /\ n \in Nat /\ Len(t) \in Nat
      /\ \A i \in 1..n : u[i] = s[i]
      /\ \A i \in 1..Len(t) : u[n + i] = t[i]
  BY DEF Joined
<1>2. /\ head \in Seq(S)
      /\ l \in [0..Len(t) -> Seq(S)] /\ l[0] = << >>
      /\ k \in [0..Len(u) -> Seq(S)]
  BY KeptEnumerates, KeptRounds
<1>3. \A i \in 1..Len(t) : l[i] = IF i \in J THEN Append(l[i - 1], t[i]) ELSE l[i - 1]
  BY KeptRounds
<1>4. \A i \in 1..Len(u) : k[i] = IF i \in I THEN Append(k[i - 1], u[i]) ELSE k[i - 1]
  BY KeptRounds
<1>5. k[n] = head
  <2>1. n <= Len(u) /\ n <= Len(s) /\ \A i \in 1..n : u[i] = s[i]
    BY <1>1
  <2> HIDE DEF n
  <2>2. \A q \in Seq(S), m \in Nat :
          m <= Len(q) /\ m <= Len(s) /\ (\A i \in 1..m : q[i] = s[i]) => KeptUpTo(q, I)[m] = KeptUpTo(s, I)[m]
    BY KeptAgrees
  <2>3. KeptUpTo(u, I)[n] = KeptUpTo(s, I)[n]
    BY <1>1, <2>1, <2>2
  <2> QED
    BY <2>3 DEF Kept, n
<1> HIDE DEF k, l, head
<1>6. 0 \in P
  <2>1. Joined(head, head, << >>)
    BY <1>2 DEF Joined
  <2> QED
    BY <1>1, <1>2, <1>5, <2>1
<1>7. ASSUME NEW i \in 1..Len(t), i - 1 \in P PROVE i \in P
  <2>1. /\ n + i \in 1..Len(u) /\ (n + i) - 1 = n + (i - 1) /\ n + (i - 1) \in 0..Len(u)
        /\ i - 1 \in 0..Len(t) /\ u[n + i] = t[i]
    <3> HIDE DEF n
    <3> QED
      BY <1>1
  <2>2. t[i] \in S /\ l[i - 1] \in Seq(S) /\ k[n + (i - 1)] \in Seq(S)
    <3>1. k[n + (i - 1)] \in Seq(S)
      <4> HIDE DEF n
      <4> QED
        BY <1>2, <2>1
    <3>2. l[i - 1] \in Seq(S)
      BY <1>2, <2>1
    <3>3. t[i] \in S
      OBVIOUS
    <3> QED
      BY <3>1, <3>2, <3>3, Zenon
  <2>3. Joined(k[n + (i - 1)], head, l[i - 1])
    BY <1>7
  <2>4. k[n + i] = IF n + i \in I THEN Append(k[n + (i - 1)], t[i]) ELSE k[n + (i - 1)]
    BY <1>4, <2>1
  <2>5. Joined(k[n + i], head, l[i])
    <3>1. CASE i \in J
      <4>1. k[n + i] = Append(k[n + (i - 1)], t[i]) /\ l[i] = Append(l[i - 1], t[i])
        BY <1>3, <2>4, <3>1
      <4>2. Joined(Append(k[n + (i - 1)], t[i]), head, Append(l[i - 1], t[i]))
        BY <1>2, <2>2, <2>3, JoinedWithOne
      <4> QED
        BY <4>1, <4>2
    <3>2. CASE i \notin J
      <4>1. k[n + i] = k[n + (i - 1)] /\ l[i] = l[i - 1]
        BY <1>3, <2>4, <3>2
      <4> QED
        BY <2>3, <4>1
    <3> QED
      BY <3>1, <3>2
  <2> QED
    BY <2>5
<1>8. Len(t) \in P
  <2> HIDE DEF P
  <2>1. \A i \in 0..Len(t) : i \in P
    BY <1>1, <1>6, <1>7, InductionUpTo
  <2> QED
    BY <1>1, <2>1
<1> QED
  BY <1>1, <1>8 DEF k, l, head, Kept

LEMMA KeptAll ==
  ASSUME NEW S, NEW s \in Seq(S), NEW I, \A i \in 1..Len(s) : i \in I
  PROVE  Kept(s, I) = s
<1> DEFINE k == KeptUpTo(s, I)
           P == {i \in 0..Len(s) : Len(k[i]) = i /\ \A j \in 1..i : k[i][j] = s[j]}
<1>0. /\ k \in [0..Len(s) -> Seq(S)] /\ k[0] = << >>
      /\ \A i \in 1..Len(s) : k[i] = IF i \in I THEN Append(k[i - 1], s[i]) ELSE k[i - 1]
  BY KeptRounds
<1>1. /\ k \in [0..Len(s) -> Seq(S)] /\ k[0] = << >> /\ Len(s) \in Nat
      /\ \A i \in 1..Len(s) : k[i] = Append(k[i - 1], s[i])
  <2>1. ASSUME NEW i \in 1..Len(s) PROVE k[i] = Append(k[i - 1], s[i])
    <3> HIDE DEF k
    <3> QED
      BY <1>0, Zenon
  <2> QED
    BY <1>0, <2>1
<1> HIDE DEF k
<1>2. 0 \in P
  BY <1>1
<1>3. ASSUME NEW i \in 1..Len(s), i - 1 \in P PROVE i \in P
  <2>0. i - 1 \in 0..Len(s) /\ i \in 0..Len(s)
    OBVIOUS
  <2>1. k[i - 1] \in Seq(S) /\ s[i] \in S /\ Len(k[i - 1]) = i - 1
    <3>1. Len(k[i - 1]) = i - 1
      BY <1>3
    <3>2. k[i - 1] \in Seq(S)
      BY <1>1, <2>0
    <3> QED
      BY <3>1, <3>2
  <2>2. k[i] = Append(k[i - 1], s[i])
    BY <1>1
  <2>3. Len(k[i]) = i /\ k[i][i] = s[i] /\ \A j \in 1..(i - 1) : k[i][j] = k[i - 1][j]
    BY <2>1, <2>2
  <2> QED
    BY <1>3, <2>3
<1>4. Len(s) \in P
  <2> HIDE DEF P
  <2>1. \A i \in 0..Len(s) : i \in P
    BY <1>1, <1>2, <1>3, InductionUpTo
  <2> QED
    BY <1>1, <2>1
<1>5. k[Len(s)] \in Seq(S) /\ Len(k[Len(s)]) = Len(s)
  BY <1>1, <1>4
<1>6. k[Len(s)] = s
  <2>1. s = [j \in 1..Len(s) |-> s[j]] /\ k[Len(s)] = [j \in 1..Len(k[Len(s)]) |-> k[Len(s)][j]]
    BY <1>5
  <2> QED
    BY <1>4, <1>5, <2>1
<1> QED
  BY <1>6 DEF k, Kept

LEMMA KeptNone ==
  ASSUME NEW S, NEW s \in Seq(S), NEW I, \A i \in 1..Len(s) : i \notin I
  PROVE  Kept(s, I) = << >>
<1> DEFINE k == KeptUpTo(s, I)
           P == {i \in 0..Len(s) : k[i] = << >>}
<1>1. /\ k[0] = << >> /\ Len(s) \in Nat
      /\ \A i \in 1..Len(s) : k[i] = k[i - 1]
  BY KeptRounds
<1> HIDE DEF k
<1>2. 0 \in P
  BY <1>1
<1>3. ASSUME NEW i \in 1..Len(s), i - 1 \in P PROVE i \in P
  BY <1>1, <1>3
<1>4. Len(s) \in P
  <2> HIDE DEF P
  <2>1. \A i \in 0..Len(s) : i \in P
    BY <1>1, <1>2, <1>3, InductionUpTo
  <2> QED
    BY <1>1, <2>1
<1> QED
  BY <1>4 DEF k, Kept

\* J has the numbers up to n that are in I once k is added.
Shifted(J, I, n, k) == \A i \in 1..n : i \in J <=> k + i \in I

\* Of a sequence cut after k elements, last what it keeps of the rest.
LEMMA KeptOfRest ==
  ASSUME NEW S, NEW s \in Seq(S), NEW k \in 0..Len(s), NEW t, t = [i \in 1..Len(s) - k |-> s[k + i]],
         NEW I, NEW J, Shifted(J, I, Len(t), k)
  PROVE  /\ t \in Seq(S) /\ Len(t) = Len(s) - k
         /\ SubSeq(s, 1, k) \in Seq(S)
         /\ Joined(Kept(s, I), Kept(SubSeq(s, 1, k), I), Kept(t, J))
<1> DEFINE p == SubSeq(s, 1, k)
<1>1. p \in Seq(S) /\ Len(p) = k /\ \A i \in 1..k : p[i] = s[i]
  OBVIOUS
<1>2. t \in Seq(S) /\ Len(t) = Len(s) - k /\ \A i \in 1..Len(t) : t[i] = s[k + i]
  <2>1. \A i \in 1..Len(s) - k : k + i \in 1..Len(s)
    OBVIOUS
  <2>2. \A i \in 1..Len(s) - k : s[k + i] \in S
    BY <2>1
  <2> QED
    BY <2>2
<1> HIDE DEF p
<1>3. Joined(s, p, t)
  BY <1>1, <1>2 DEF Joined
<1>4. \A i \in 1..Len(t) : i \in J <=> Len(p) + i \in I
  BY <1>1 DEF Shifted
<1>5. Joined(Kept(s, I), Kept(p, I), Kept(t, J))
  BY <1>1, <1>2, <1>3, <1>4, KeptOfBoth
<1> QED
  BY <1>1, <1>2, <1>5 DEF p

\* I has the numbers up to n that come after a, up to b.
Between(I, n, a, b) == \A i \in 1..n : i \in I <=> a < i /\ i <= b

\* q is the stretch of s after its first a elements, up to b.
Stretch(q, s, a, b) == Len(q) = b - a /\ \A j \in 1..b - a : q[j] = s[a + j]

LEMMA KeptBetween ==
  ASSUME NEW S, NEW s \in Seq(S), NEW a \in Nat, NEW b \in Nat, a <= b, b <= Len(s),
         NEW I, Between(I, Len(s), a, b)
  PROVE  Kept(s, I) \in Seq(S) /\ Stretch(Kept(s, I), s, a, b)
<1> DEFINE k == KeptUpTo(s, I)
           size(m) == IF m <= a THEN 0 ELSE IF m <= b THEN m - a ELSE b - a
           P == {m \in 0..Len(s) : Len(k[m]) = size(m) /\ \A j \in 1..size(m) : k[m][j] = s[a + j]}
<1>1. /\ k \in [0..Len(s) -> Seq(S)] /\ k[0] = << >>
      /\ \A i \in 1..Len(s) : k[i] = IF i \in I THEN Append(k[i - 1], s[i]) ELSE k[i - 1]
  BY KeptRounds
<1> HIDE DEF k
<1>2. 0 \in P
  BY <1>1
<1>3. ASSUME NEW i \in 1..Len(s), i - 1 \in P PROVE i \in P
  <2>1. i - 1 \in 0..Len(s) /\ i \in 0..Len(s) /\ s[i] \in S
    OBVIOUS
  <2>2. /\ k[i - 1] \in Seq(S) /\ Len(k[i - 1]) = size(i - 1)
        /\ \A j \in 1..size(i - 1) : k[i - 1][j] = s[a + j]
    BY <1>1, <1>3, <2>1
  <2>3. CASE i \in I
    <3>1. a < i /\ i <= b
      BY <2>3 DEF Between
    <3>2. k[i] = Append(k[i - 1], s[i])
      BY <1>1, <2>3, Zenon
    <3>3. size(i) = i - a /\ size(i - 1) = (i - a) - 1 /\ i - a \in Nat \ {0} /\ a + (i - a) = i
      BY <3>1
    <3> HIDE DEF size
    <3>4. Len(k[i]) = i - a
      BY <2>1, <2>2, <3>2, <3>3
    <3>5. ASSUME NEW j \in 1..i - a PROVE k[i][j] = s[a + j]
      <4>1. CASE j = i - a
        <5>1. \A q \in Seq(S) : Append(q, s[i])[Len(q) + 1] = s[i]
          BY <2>1
        <5>2. Len(k[i - 1]) + 1 = j
          BY <2>2, <3>3, <4>1
        <5>3. k[i][j] = s[i]
          BY <2>2, <3>2, <5>1, <5>2
        <5> QED
          BY <3>3, <4>1, <5>3
      <4>2. CASE j # i - a
        <5>1. j \in 1..size(i - 1)
          BY <3>3, <4>2
        <5>2. k[i][j] = k[i - 1][j]
          BY <2>1, <2>2, <3>2, <5>1
        <5> QED
          BY <2>2, <5>1, <5>2
      <4> QED
        BY <4>1, <4>2
    <3> QED
      BY <2>1, <3>3, <3>4, <3>5
  <2>4. CASE i \notin I
    <3>1. k[i] = k[i - 1]
      BY <1>1, <2>4, Zenon
    <3>2. size(i) = size(i - 1)
      BY <2>4 DEF Between
    <3> HIDE DEF size
    <3> QED
      BY <2>1, <2>2, <3>1, <3>2
  <2> QED
    BY <2>3, <2>4
<1>4. Len(s) \in P
  <2>1. Len(s) \in Nat /\ Len(s) \in 0..Len(s)
    OBVIOUS
  <2> HIDE DEF P
  <2>2. \A i \in 0..Len(s) : i \in P
    BY <1>2, <1>3, <2>1, InductionUpTo
  <2> QED
    BY <2>1, <2>2
<1>5. size(Len(s)) = b - a
  OBVIOUS
<1>6. k[Len(s)] \in Seq(S) /\ Len(k[Len(s)]) = b - a /\ \A j \in 1..b - a : k[Len(s)][j] = s[a + j]
  <2>1. Len(s) \in 0..Len(s)
    OBVIOUS
  <2> HIDE DEF size
  <2> QED
    BY <1>1, <1>4, <1>5, <2>1
<1> QED
  BY <1>6 DEF k, Kept, Stretch
=============================================================================
