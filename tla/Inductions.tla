----------------------------- MODULE Inductions -----------------------------
(***************************************************************************)
(* Induction and recursion over naturals and finite sets, stated with sets *)
(* and functions instead of operators, so that they can be instantiated;   *)
(* and what the subsequences of module Subsequences are.                   *)
(***************************************************************************)
EXTENDS Subsequences, FiniteSetTheorems, WellFoundedInduction, TLAPS

(* Every nonempty set of naturals has a least element. *)
LEMMA LeastNatural ==
    ASSUME NEW S \in SUBSET Nat, S # {}
    PROVE  \E m \in S : \A x \in S : m <= x
  <1> DEFINE R == {ss \in Nat \X Nat : ss[1] < ss[2]}
  <1>1. IsWellFoundedOn(R, Nat)
    BY NatLessThanWellFounded DEF OpToRel
  <1> HIDE DEF R
  <1>2. PICK m \in S : \A x \in S : ~ (<<x, m>> \in R)
    BY <1>1, WFMin
  <1>3. ASSUME NEW x \in S, x < m PROVE <<x, m>> \in R
    BY <1>3, Zenon DEF R
  <1>4. \A x \in S : ~ (x < m)
    BY <1>2, <1>3
  <1>5. \A x \in S : m <= x
    BY <1>4
  <1> QED  BY <1>5

(* Induction up to n: a set that holds 0, and with every number the next one. *)
LEMMA InductionUpTo ==
    ASSUME NEW n \in Nat, NEW S, 0 \in S, \A i \in 1 .. n : i - 1 \in S => i \in S
    PROVE  0 .. n \subseteq S
  <1> DEFINE T == (0 .. n) \ S
  <1>1. SUFFICES ASSUME T # {} PROVE FALSE
    BY <1>1
  <1>a. T \in SUBSET Nat
    OBVIOUS
  <1>2. PICK m \in T : \A x \in T : m <= x
    BY <1>1, <1>a, LeastNatural
  <1>3. m \in 1 .. n /\ m - 1 \in 0 .. n /\ m - 1 \notin T
    BY <1>2
  <1> QED  BY <1>2, <1>3

(* The bodies of a loop of n turns over a state in X, and its traces. *)
Turns(n, X) == [1 .. n -> [X -> X]]
Traces(n, X, start, turn) ==
    {g \in [0 .. n -> X] : g[0] = start /\ \A i \in 1 .. n : g[i] = turn[i][g[i - 1]]}

(* A loop has a trace: the function its recursive definition asks for exists. *)
LEMMA LoopExists ==
    ASSUME NEW X, NEW start \in X, NEW n \in Nat, NEW turn \in Turns(n, X)
    PROVE  Traces(n, X, start, turn) # {}
  <1> DEFINE Trace(m, g) == g[0] = start /\ \A i \in 1 .. m : g[i] = turn[i][g[i - 1]]
             S == {m \in 0 .. n : \E g \in [0 .. m -> X] : Trace(m, g)}
  <1>1. 0 \in S
    <2> DEFINE g == [i \in 0 .. 0 |-> start]
    <2>1. g \in [0 .. 0 -> X] /\ Trace(0, g)
      OBVIOUS
    <2>2. 0 \in 0 .. n
      OBVIOUS
    <2> HIDE DEF g, Trace
    <2> QED  BY <2>1, <2>2
  <1>2. ASSUME NEW m \in 1 .. n, m - 1 \in S PROVE m \in S
    <2>1. PICK g \in [0 .. m - 1 -> X] : Trace(m - 1, g)
      BY <1>2
    <2> DEFINE h == [i \in 0 .. m |-> IF i < m THEN g[i] ELSE turn[m][g[m - 1]]]
    <2>2. turn[m] \in [X -> X] /\ g[m - 1] \in X
      BY <2>1 DEF Turns
    <2>3. h \in [0 .. m -> X]
      BY <2>1, <2>2
    <2>4. Trace(m, h)
      BY <2>1
    <2>5. m \in 0 .. n
      OBVIOUS
    <2> HIDE DEF h, Trace
    <2> QED  BY <2>3, <2>4, <2>5
  <1> HIDE DEF S
  <1>3. 0 .. n \subseteq S
    BY <1>1, <1>2, InductionUpTo
  <1>4. n \in S
    BY <1>3
  <1>5. PICK g \in [0 .. n -> X] : Trace(n, g)
    <2> HIDE DEF Trace
    <2> QED  BY <1>4 DEF S
  <1>6. g \in Traces(n, X, start, turn)
    BY <1>5 DEF Traces
  <1> QED  BY <1>6

(* Induction over the subsets of a finite set: a family that holds the empty set, *)
(* and every set from which its chosen member can be taken away.                  *)
LEMMA SubsetInduction ==
    ASSUME NEW S, IsFiniteSet(S), NEW F, {} \in F,
           \A T \in SUBSET S : T # {} /\ T \ {CHOOSE x \in T : TRUE} \in F => T \in F
    PROVE  SUBSET S \subseteq F
  <1> DEFINE N == {k \in 0 .. Cardinality(S) : \A T \in SUBSET S : Cardinality(T) = k => T \in F}
  <1>0. Cardinality(S) \in Nat
    BY FS_CardinalityType
  <1>1. 0 \in N
    <2>1. ASSUME NEW T \in SUBSET S, Cardinality(T) = 0 PROVE T \in F
      <3>1. IsFiniteSet(T)
        BY FS_Subset
      <3>2. T = {}
        BY <2>1, <3>1, FS_EmptySet
      <3> QED  BY <3>2
    <2> QED  BY <1>0, <2>1
  <1>2. ASSUME NEW k \in 1 .. Cardinality(S), k - 1 \in N PROVE k \in N
    <2>1. ASSUME NEW T \in SUBSET S, Cardinality(T) = k PROVE T \in F
      <3> DEFINE x == CHOOSE x \in T : TRUE
      <3>1. IsFiniteSet(T) /\ T # {}
        <4>1. IsFiniteSet(T)
          BY FS_Subset
        <4>2. k # 0
          BY <1>0
        <4> QED  BY <2>1, <4>1, <4>2, FS_EmptySet
      <3>2. x \in T
        BY <3>1
      <3>3. Cardinality(T \ {x}) = k - 1
        BY <2>1, <3>1, <3>2, FS_RemoveElement
      <3>4. T \ {x} \in SUBSET S
        OBVIOUS
      <3>5. T \ {x} \in F
        BY <1>2, <3>3, <3>4
      <3> QED  BY <3>1, <3>5
    <2>2. k \in 0 .. Cardinality(S)
      BY <1>0
    <2> QED  BY <2>1, <2>2
  <1> HIDE DEF N
  <1>3. 0 .. Cardinality(S) \subseteq N
    BY <1>0, <1>1, <1>2, InductionUpTo
  <1>4. ASSUME NEW T \in SUBSET S PROVE T \in F
    <2>1. Cardinality(T) \in Nat /\ Cardinality(T) <= Cardinality(S)
      BY FS_Subset, FS_CardinalityType
    <2>2. Cardinality(T) \in N
      BY <1>0, <1>3, <2>1
    <2> QED  BY <2>2 DEF N
  <1> QED  BY <1>4

(* The member a fold over a set takes first (FoldSet). *)
Pick(T) == CHOOSE x \in T : TRUE

(* The ways the members of S may change a state in X, and the values of a fold *)
(* of them over the subsets of S.                                              *)
Changes(S, X) == [S -> [X -> X]]
Values(S, X, base, put) ==
    {g \in [SUBSET S -> X] : \A T \in SUBSET S :
        g[T] = IF T = {} THEN base ELSE put[Pick(T)][g[T \ {Pick(T)}]]}

(* A fold over a finite set has values: the function its recursive definition *)
(* asks for exists.                                                           *)
LEMMA FoldExists ==
    ASSUME NEW S, IsFiniteSet(S), NEW X, NEW base \in X, NEW put \in Changes(S, X)
    PROVE  Values(S, X, base, put) # {}
  <1> DEFINE D(k) == {T \in SUBSET S : Cardinality(T) <= k}
             Good(k, g) == \A T \in D(k) :
                 g[T] = IF T = {} THEN base ELSE put[Pick(T)][g[T \ {Pick(T)}]]
             N == {k \in 0 .. Cardinality(S) : \E g \in [D(k) -> X] : Good(k, g)}
  <1>1. Cardinality(S) \in Nat
    BY FS_CardinalityType
  <1>2. ASSUME NEW T \in SUBSET S
        PROVE  /\ Cardinality(T) \in Nat /\ Cardinality(T) <= Cardinality(S)
               /\ Cardinality(T) = 0 <=> T = {}
               /\ T # {} => /\ Pick(T) \in T /\ T \ {Pick(T)} \in SUBSET S
                            /\ Cardinality(T \ {Pick(T)}) = Cardinality(T) - 1
    <2>1. IsFiniteSet(T) /\ Cardinality(T) \in Nat /\ Cardinality(T) <= Cardinality(S)
      BY FS_Subset, FS_CardinalityType
    <2>2. T # {} => Pick(T) \in T
      BY DEF Pick
    <2> QED  BY <2>1, <2>2, FS_EmptySet, FS_RemoveElement
  <1>3. 0 \in N
    <2> DEFINE g == [T \in D(0) |-> base]
    <2>1. ASSUME NEW T \in D(0) PROVE T = {}
      <3>1. T \in SUBSET S /\ Cardinality(T) <= 0
        OBVIOUS
      <3>2. Cardinality(T) \in Nat /\ (Cardinality(T) = 0 <=> T = {})
        BY <1>2, <3>1
      <3> QED  BY <3>1, <3>2
    <2>2. g \in [D(0) -> X]
      OBVIOUS
    <2>3. Good(0, g)
      BY <2>1
    <2>4. 0 \in 0 .. Cardinality(S)
      BY <1>1
    <2> HIDE DEF g, Good, D
    <2> QED  BY <2>2, <2>3, <2>4
  <1>4. ASSUME NEW k \in 1 .. Cardinality(S), k - 1 \in N PROVE k \in N
    <2>1. PICK g \in [D(k - 1) -> X] : Good(k - 1, g)
      BY <1>4
    <2> DEFINE h == [T \in D(k) |-> IF T \in D(k - 1) THEN g[T]
                                    ELSE put[Pick(T)][g[T \ {Pick(T)}]]]
    <2>2. ASSUME NEW T \in D(k), T # {} PROVE T \ {Pick(T)} \in D(k - 1) /\ Pick(T) \in S
      BY <1>1, <1>2, <2>2
    <2>3. {} \in D(k - 1)
      <3>1. {} \in SUBSET S
        OBVIOUS
      <3>2. Cardinality({}) = 0
        BY <1>2, <3>1
      <3> QED  BY <1>1, <3>1, <3>2
    <2>9. ASSUME NEW T \in D(k - 1) PROVE T \in D(k)
      <3>1. T \in SUBSET S /\ Cardinality(T) <= k - 1
        OBVIOUS
      <3>2. Cardinality(T) \in Nat
        BY <1>2, <3>1
      <3> QED  BY <1>1, <3>1, <3>2
    <2> HIDE DEF D
    <2>4. ASSUME NEW T \in D(k) PROVE h[T] \in X
      <3>1. CASE T \in D(k - 1)
        BY <2>1, <3>1
      <3>2. CASE T \notin D(k - 1)
        <4>1. T # {}
          BY <2>3, <3>2
        <4>2. put[Pick(T)] \in [X -> X] /\ g[T \ {Pick(T)}] \in X
          BY <2>1, <2>2, <4>1 DEF Changes
        <4> QED  BY <3>2, <4>2
      <3> QED  BY <3>1, <3>2
    <2>5. h \in [D(k) -> X]
      BY <2>4
    <2>6. ASSUME NEW T \in D(k)
          PROVE  h[T] = IF T = {} THEN base ELSE put[Pick(T)][h[T \ {Pick(T)}]]
      <3>1. CASE T = {}
        BY <2>1, <2>3, <3>1
      <3>2. CASE T # {}
        <4>1. h[T \ {Pick(T)}] = g[T \ {Pick(T)}]
          BY <2>2, <2>9, <3>2
        <4>2. h[T] = put[Pick(T)][g[T \ {Pick(T)}]]
          BY <2>1, <2>6, <3>2
        <4> QED  BY <3>2, <4>1, <4>2
      <3> QED  BY <3>1, <3>2
    <2>7. Good(k, h)
      BY <2>6
    <2>8. k \in 0 .. Cardinality(S)
      BY <1>1
    <2> HIDE DEF h, Good
    <2> QED  BY <2>5, <2>7, <2>8
  <1> HIDE DEF N
  <1>5. 0 .. Cardinality(S) \subseteq N
    BY <1>1, <1>3, <1>4, InductionUpTo
  <1>8. Cardinality(S) \in N
    BY <1>1, <1>5
  <1>6. PICK g \in [D(Cardinality(S)) -> X] : Good(Cardinality(S), g)
    <2> HIDE DEF D, Good
    <2> QED  BY <1>8 DEF N
  <1>7. D(Cardinality(S)) = SUBSET S
    BY <1>2
  <1>9. g \in Values(S, X, base, put)
    BY <1>6, <1>7 DEF Values
  <1> QED  BY <1>9

-----------------------------------------------------------------------------
(* Subsequences *)

(* The positions of a list, and the ones left when some go. *)
LEMMA PositionsFinite ==
    ASSUME NEW n \in Nat
    PROVE  /\ IsFiniteSet(1 .. n) /\ Cardinality(1 .. n) = n
           /\ \A G \in SUBSET (1 .. n) :
                 /\ IsFiniteSet(G) /\ Cardinality(G) \in 0 .. n
                 /\ Cardinality((1 .. n) \ G) = n - Cardinality(G)
  <1>1. n \in Int /\ 1 \in Int
    OBVIOUS
  <1>2. IsFiniteSet(1 .. n) /\ Cardinality(1 .. n) = IF 1 > n THEN 0 ELSE n - 1 + 1
    BY <1>1, FS_Interval
  <1>3. Cardinality(1 .. n) = n
    BY <1>1, <1>2
  <1>4. ASSUME NEW G \in SUBSET (1 .. n)
        PROVE  /\ IsFiniteSet(G) /\ Cardinality(G) \in 0 .. n
               /\ Cardinality((1 .. n) \ G) = n - Cardinality(G)
    <2>1. IsFiniteSet(G) /\ Cardinality(G) <= n /\ Cardinality(G) \in Nat
      BY <1>2, <1>3, FS_Subset, FS_CardinalityType
    <2>2. (1 .. n) \cap G = G
      OBVIOUS
    <2>3. Cardinality((1 .. n) \ G) = n - Cardinality(G)
      <3> DEFINE P == 1 .. n
      <3> HIDE DEF P
      <3>1. IsFiniteSet(P) /\ Cardinality(P) = n /\ P \cap G = G
        BY <1>2, <1>3, <2>2 DEF P
      <3>2. Cardinality(P \ G) = Cardinality(P) - Cardinality(P \cap G)
        BY <3>1, FS_Difference
      <3>3. Cardinality(P \ G) = n - Cardinality(G)
        BY <3>1, <3>2
      <3> QED  BY <3>3 DEF P
    <2> QED  BY <2>1, <2>3
  <1> QED  BY <1>2, <1>3, <1>4

(* The ranks of a finite set of positions are 0, 1, ... in its order. *)
LEMMA RankFacts ==
    ASSUME NEW I \in SUBSET Int, IsFiniteSet(I)
    PROVE  /\ Cardinality(I) \in Nat
           /\ \A i \in I : Rank(I, i) \in 0 .. Cardinality(I) - 1
           /\ \A i, j \in I : i < j => Rank(I, i) < Rank(I, j)
           /\ \A k \in 1 .. Cardinality(I) : \E i \in I : Rank(I, i) = k - 1
  <1>1. Cardinality(I) \in Nat
    BY FS_CardinalityType
  <1>2. ASSUME NEW i \in I PROVE Rank(I, i) \in 0 .. Cardinality(I) - 1
    <2> DEFINE B == {j \in I : j < i}
    <2>1. B \in SUBSET (I \ {i})
      OBVIOUS
    <2>2. IsFiniteSet(I \ {i}) /\ Cardinality(I \ {i}) = Cardinality(I) - 1
      BY FS_RemoveElement
    <2>3. IsFiniteSet(B) /\ Cardinality(B) <= Cardinality(I \ {i}) /\ Cardinality(B) \in Nat
      BY <2>1, <2>2, FS_Subset, FS_CardinalityType
    <2>4. Rank(I, i) = Cardinality(B)
      BY DEF Rank
    <2> HIDE DEF B
    <2> QED  BY <1>1, <2>2, <2>3, <2>4
  <1>3. ASSUME NEW i \in I, NEW j \in I, i < j PROVE Rank(I, i) < Rank(I, j)
    <2> DEFINE B == {l \in I : l < i}
               C == {l \in I : l < j}
    <2>0. i \in Int /\ j \in Int /\ i \in C
      BY <1>3
    <2>1. ASSUME NEW l \in B PROVE l \in C \ {i}
      <3>1. l \in I /\ l \in Int /\ l < i
        OBVIOUS
      <3> QED  BY <1>3, <2>0, <3>1
    <2>2. IsFiniteSet(C) /\ C \in SUBSET I
      BY FS_Subset
    <2>3. IsFiniteSet(C \ {i}) /\ Cardinality(C \ {i}) = Cardinality(C) - 1 /\ Cardinality(C) \in Nat
      BY <2>0, <2>2, FS_RemoveElement, FS_CardinalityType
    <2>4. IsFiniteSet(B) /\ Cardinality(B) <= Cardinality(C \ {i}) /\ Cardinality(B) \in Nat
      BY <2>1, <2>3, FS_Subset, FS_CardinalityType
    <2>5. Rank(I, i) = Cardinality(B) /\ Rank(I, j) = Cardinality(C)
      BY DEF Rank
    <2> HIDE DEF B, C
    <2> QED  BY <2>3, <2>4, <2>5
  <1>4. ASSUME NEW k \in 1 .. Cardinality(I) PROVE \E i \in I : Rank(I, i) = k - 1
    <2> DEFINE T == 0 .. Cardinality(I) - 1
               f == [i \in I |-> Rank(I, i)]
    <2>1. IsFiniteSet(T) /\ Cardinality(T) = Cardinality(I)
      <3> DEFINE b == Cardinality(I) - 1
      <3>1. 0 \in Int /\ b \in Int /\ (0 > b => b = 0 - 1) /\ b - 0 + 1 = Cardinality(I)
        BY <1>1
      <3> HIDE DEF b
      <3>2. IsFiniteSet(0 .. b) /\ Cardinality(0 .. b) = IF 0 > b THEN 0 ELSE b - 0 + 1
        BY <3>1, FS_Interval
      <3>3. Cardinality(0 .. b) = Cardinality(I)
        BY <1>1, <3>1, <3>2
      <3> QED  BY <3>2, <3>3 DEF b
    <2>2. f \in [I -> T]
      BY <1>2
    <2>3. ASSUME NEW i \in I, NEW j \in I, f[i] = f[j] PROVE i = j
      <3>1. ~ (i < j) /\ ~ (j < i)
        BY <1>1, <1>2, <1>3, <2>3
      <3>2. i \in Int /\ j \in Int
        OBVIOUS
      <3> QED  BY <3>1, <3>2
    <2>4. f \in Injection(I, T)
      BY <2>2, <2>3 DEF Injection, IsInjective
    <2>5. f \in Surjection(I, T)
      BY <2>1, <2>4, FS_Injection
    <2>6. k - 1 \in T
      BY <1>1
    <2>7. \E i \in I : f[i] = k - 1
      BY <2>5, <2>6 DEF Surjection
    <2> QED  BY <2>7
  <1> QED  BY <1>1, <1>2, <1>3, <1>4

(* Nth counts the positions through in their order, each once. *)
LEMMA NthFacts ==
    ASSUME NEW I \in SUBSET Int, IsFiniteSet(I)
    PROVE  /\ \A k \in 1 .. Cardinality(I) : Nth(I, k) \in I
           /\ \A k, l \in 1 .. Cardinality(I) : k < l => Nth(I, k) < Nth(I, l)
           /\ \A i \in I : \E k \in 1 .. Cardinality(I) : Nth(I, k) = i
  <1>1. ASSUME NEW k \in 1 .. Cardinality(I)
        PROVE  Nth(I, k) \in I /\ Rank(I, Nth(I, k)) = k - 1
    BY RankFacts DEF Nth
  <1>2. ASSUME NEW k \in 1 .. Cardinality(I), NEW l \in 1 .. Cardinality(I), k < l
        PROVE  Nth(I, k) < Nth(I, l)
    <2>1. Nth(I, k) \in I /\ Nth(I, l) \in I /\ Rank(I, Nth(I, k)) = k - 1
             /\ Rank(I, Nth(I, l)) = l - 1
      BY <1>1
    <2> DEFINE i == Nth(I, k)
               j == Nth(I, l)
    <2>2. i \in Int /\ j \in Int
      BY <2>1
    <2>3. ASSUME j < i PROVE FALSE
      <3>1. Rank(I, j) < Rank(I, i)
        BY <2>1, <2>3, RankFacts
      <3>2. l - 1 < k - 1 /\ k \in Int /\ l \in Int
        BY <2>1, <3>1
      <3> QED  BY <1>2, <3>2
    <2>4. i # j
      BY <1>2, <2>1
    <2> HIDE DEF i, j
    <2>5. i < j
      BY <2>2, <2>3, <2>4
    <2> QED  BY <2>5 DEF i, j
  <1>3. ASSUME NEW i \in I PROVE \E k \in 1 .. Cardinality(I) : Nth(I, k) = i
    <2> DEFINE k == Rank(I, i) + 1
    <2>1. k \in 1 .. Cardinality(I)
      BY RankFacts
    <2>2. Nth(I, k) \in I /\ Rank(I, Nth(I, k)) = Rank(I, i)
      BY <1>1, <2>1, RankFacts
    <2> DEFINE j == Nth(I, k)
    <2>7. Rank(I, i) \in 0 .. Cardinality(I) - 1
      BY RankFacts
    <2> HIDE DEF j, k
    <2>8. j \in I
      BY <2>2 DEF j
    <2>9. \A a, b \in Int : \A c \in a .. b : c \in Int
      OBVIOUS
    <2>10. 0 \in Int /\ Cardinality(I) - 1 \in Int
      BY RankFacts
    <2>4. i \in Int /\ j \in Int /\ Rank(I, i) \in Int
      BY <2>7, <2>8, <2>9, <2>10
    <2>3. ASSUME i < j PROVE FALSE
      <3>1. Rank(I, i) < Rank(I, j)
        BY <2>2, <2>3, RankFacts DEF j
      <3> QED  BY <2>2, <2>4, <3>1 DEF j
    <2>6. ASSUME j < i PROVE FALSE
      <3>1. Rank(I, j) < Rank(I, i)
        BY <2>2, <2>6, RankFacts DEF j
      <3> QED  BY <2>2, <2>4, <3>1 DEF j
    <2>5. Nth(I, k) = i
      BY <2>3, <2>4, <2>6 DEF j
    <2> QED  BY <2>1, <2>5
  <1> QED  BY <1>1, <1>2, <1>3

(* What is selected is a sequence, no longer than the one it is selected from, *)
(* of its members at the positions, in their order.                            *)
LEMMA AtFacts ==
    ASSUME NEW S, NEW s \in Seq(S), NEW I \in SUBSET DOMAIN s
    PROVE  /\ At(s, I) \in Seq(S)
           /\ Len(At(s, I)) = Cardinality(I) /\ Cardinality(I) \in 0 .. Len(s)
           /\ DOMAIN At(s, I) = 1 .. Cardinality(I)
           /\ \A k \in DOMAIN At(s, I) : Nth(I, k) \in I /\ At(s, I)[k] = s[Nth(I, k)]
           /\ \A k, l \in DOMAIN At(s, I) : k < l => Nth(I, k) < Nth(I, l)
           /\ \A i \in I : \E k \in DOMAIN At(s, I) : Nth(I, k) = i
  <1>1. I \in SUBSET Int /\ I \in SUBSET (1 .. Len(s))
    OBVIOUS
  <1>2. IsFiniteSet(1 .. Len(s)) /\ Cardinality(1 .. Len(s)) = Len(s)
    BY PositionsFinite
  <1>3. IsFiniteSet(I) /\ Cardinality(I) \in Nat /\ Cardinality(I) <= Len(s)
    BY <1>1, <1>2, FS_Subset, FS_CardinalityType
  <1>4. /\ \A k \in 1 .. Cardinality(I) : Nth(I, k) \in I
        /\ \A k, l \in 1 .. Cardinality(I) : k < l => Nth(I, k) < Nth(I, l)
        /\ \A i \in I : \E k \in 1 .. Cardinality(I) : Nth(I, k) = i
    BY <1>1, <1>3, NthFacts
  <1>5. \A k \in 1 .. Cardinality(I) : s[Nth(I, k)] \in S
    BY <1>1, <1>4
  <1> QED  BY <1>3, <1>4, <1>5 DEF At
=============================================================================
