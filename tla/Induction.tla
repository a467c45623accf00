----------------------------- MODULE Induction ------------------------------
(***************************************************************************)
(* Induction over the natural numbers, as a fact about sets of numbers:    *)
(* what the proofs about recursive functions rest on.                      *)
(***************************************************************************)
EXTENDS Integers, FiniteSets, FiniteSetTheorems, WellFoundedInduction, TLAPS

(* A set of naturals that is not empty has a least member.                 *)
LEMMA Least ==
  ASSUME NEW C \in SUBSET Nat, C # {}
  PROVE  \E x \in C : \A y \in C : x <= y
<1> DEFINE R == OpToRel(<, Nat)
<1>1. IsWellFoundedOn(R, Nat)
  BY NatLessThanWellFounded
<1>2. \A x, y \in Nat : x < y => <<x, y>> \in R
  BY DEF OpToRel
<1> HIDE DEF R
<1>3. PICK x \in C : \A y \in C : ~(<<y, x>> \in R)
  BY <1>1, WFMin
<1>4. ASSUME NEW y \in C PROVE x <= y
  <2>1. x \in Nat /\ y \in Nat
    OBVIOUS
  <2>2. ~(<<y, x>> \in R)
    BY <1>3
  <2>3. ~(y < x)
    BY <1>2, <2>1, <2>2
  <2> QED
    BY <2>1, <2>3
<1> QED
  BY <1>4

(* So one with 0 and the successor of each of its members has them all.    *)
LEMMA NatInd ==
  ASSUME NEW T \in SUBSET Nat, 0 \in T, \A n \in T : n + 1 \in T
  PROVE  T = Nat
<1> DEFINE C == Nat \ T
<1> SUFFICES ASSUME C # {} PROVE FALSE
  OBVIOUS
<1>1. C \in SUBSET Nat
  OBVIOUS
<1>2. PICK x \in C : \A y \in C : x <= y
  <2> HIDE DEF C
  <2> QED
    BY <1>1, Least
<1>3. x - 1 \in Nat /\ ~(x <= x - 1)
  OBVIOUS
<1>4. x - 1 \in T
  BY <1>2, <1>3
<1>5. (x - 1) + 1 = x
  OBVIOUS
<1> QED
  BY <1>4, <1>5

(* The same for the subsets of a finite set: a set of them that has every  *)
(* subset from which it has what is left without any one element, has all. *)
LEMMA SubsetInd ==
  ASSUME NEW D, IsFiniteSet(D), NEW T \in SUBSET SUBSET D,
         \A S \in SUBSET D : (\A x \in S : S \ {x} \in T) => S \in T
  PROVE  T = SUBSET D
<1> DEFINE N == {n \in Nat : \A S \in SUBSET D : Cardinality(S) = n => S \in T}
<1>1. \A S \in SUBSET D : /\ IsFiniteSet(S)
                          /\ Cardinality(S) \in Nat
                          /\ Cardinality(S) = 0 <=> S = {}
  BY FS_Subset, FS_CardinalityType, FS_EmptySet
<1>2. 0 \in N
  <2> SUFFICES ASSUME NEW S \in SUBSET D, Cardinality(S) = 0 PROVE S \in T
    OBVIOUS
  <2>1. S = {}
    BY <1>1
  <2> QED
    BY <2>1
<1>3. ASSUME NEW n \in N PROVE n + 1 \in N
  <2> SUFFICES ASSUME NEW S \in SUBSET D, Cardinality(S) = n + 1 PROVE S \in T
    OBVIOUS
  <2> SUFFICES ASSUME NEW x \in S PROVE S \ {x} \in T
    OBVIOUS
  <2>1. Cardinality(S \ {x}) = n
    BY <1>1, FS_RemoveElement
  <2> QED
    BY <2>1
<1>4. N = Nat
  <2>1. N \in SUBSET Nat
    OBVIOUS
  <2> HIDE DEF N
  <2> QED
    BY <1>2, <1>3, <2>1, NatInd
<1> QED
  BY <1>1, <1>4

(* Functions on 0 .. n by steps: how a step takes a value to the next one, *)
(* a function that follows the steps from a first value, and two that are  *)
(* alike at first and do not part at any step.                             *)
Steps(n, V) == [1 .. n -> [V -> V]]

Follows(f, n, first, step) ==
  f[0] = first /\ \A i \in 1 .. n : f[i] = step[i][f[i - 1]]

GoTogether(n, f, g) ==
  f[0] = g[0] /\ \A i \in 1 .. n : f[i - 1] = g[i - 1] => f[i] = g[i]

(* A function may be defined by its first value and its steps, ...         *)
LEMMA StepwiseExists ==
  ASSUME NEW n \in Nat, NEW V, NEW first \in V, NEW step \in Steps(n, V)
  PROVE  \E f \in [0 .. n -> V] : Follows(f, n, first, step)
<1> USE DEF Steps, Follows
<1> DEFINE UpTo(k, f) == /\ f[0] = first
                         /\ \A i \in 1 .. n : i <= k => f[i] = step[i][f[i - 1]]
           N == {k \in Nat : \E f \in [0 .. n -> V] : UpTo(k, f)}
<1>1. 0 \in N
  <2>1. [i \in 0 .. n |-> first] \in [0 .. n -> V] /\ UpTo(0, [i \in 0 .. n |-> first])
    OBVIOUS
  <2> QED
    BY <2>1
<1>2. ASSUME NEW k \in N PROVE k + 1 \in N
  <2>1. PICK f \in [0 .. n -> V] : UpTo(k, f)
    OBVIOUS
  <2>2. CASE k + 1 > n
    <3>1. UpTo(k + 1, f)
      BY <2>1, <2>2
    <3> QED
      BY <3>1
  <2>3. CASE k + 1 <= n
    <3> DEFINE v == step[k + 1][f[k]]
               g == [f EXCEPT ![k + 1] = v]
    <3>1. v \in V
      BY <2>3
    <3> HIDE DEF v
    <3>2. g \in [0 .. n -> V]
      BY <3>1
    <3>3. \A i \in 0 .. n : i <= k => g[i] = f[i]
      OBVIOUS
    <3>4. g[k + 1] = v
      BY <2>3
    <3> HIDE DEF g
    <3>5. UpTo(k + 1, g)
      <4>1. g[0] = first
        BY <2>1, <3>3
      <4>2. ASSUME NEW i \in 1 .. n, i <= k PROVE g[i] = step[i][g[i - 1]]
        BY <2>1, <3>3, <4>2
      <4>3. g[k + 1] = step[k + 1][g[(k + 1) - 1]]
        <5>1. k \in Nat /\ k \in 0 .. n /\ (k + 1) - 1 = k
          BY <2>3
        <5>2. g[k] = f[k]
          BY <3>3, <5>1
        <5> QED
          BY <3>4, <5>1, <5>2 DEF v
      <4>4. \A i \in 1 .. n : i <= k + 1 => i <= k \/ i = k + 1
        OBVIOUS
      <4> QED
        BY <4>1, <4>2, <4>3, <4>4
    <3> QED
      BY <3>2, <3>5
  <2> QED
    BY <2>2, <2>3
<1>3. N = Nat
  <2>1. N \in SUBSET Nat
    OBVIOUS
  <2> HIDE DEF N
  <2> QED
    BY <1>1, <1>2, <2>1, NatInd
<1>4. n \in N
  BY <1>3
<1> QED
  BY <1>4

(* ... and two functions that go together are alike to the end.            *)
LEMMA StepwiseEqual ==
  ASSUME NEW n \in Nat, NEW f, NEW g, GoTogether(n, f, g)
  PROVE  \A i \in 0 .. n : f[i] = g[i]
<1> USE DEF GoTogether
<1> DEFINE N == {i \in Nat : i <= n => f[i] = g[i]}
<1>1. 0 \in N
  OBVIOUS
<1>2. ASSUME NEW k \in N PROVE k + 1 \in N
  <2>1. k + 1 <= n => k + 1 \in 1 .. n /\ (k + 1) - 1 = k /\ k <= n
    OBVIOUS
  <2> QED
    BY <2>1
<1>3. N = Nat
  <2>1. N \in SUBSET Nat
    OBVIOUS
  <2> HIDE DEF N
  <2> QED
    BY <1>1, <1>2, <2>1, NatInd
<1> QED
  BY <1>3

(* Downwards, on the places 1 .. n: a set that has each place all of whose *)
(* later ones it has; right sides that depend on later places alone, and a *)
(* function that solves the equations of these.                            *)
FromBehind(T, n) == \A i \in 1 .. n : (\A j \in i + 1 .. n : j \in T) => i \in T

RightSides(n, V) == [1 .. n -> [[1 .. n -> V] -> V]]

LookBehind(rhs, n, V) ==
  \A i \in 1 .. n : \A f, g \in [1 .. n -> V] :
    (\A j \in i + 1 .. n : f[j] = g[j]) => rhs[i][f] = rhs[i][g]

Solves(f, n, rhs) == \A i \in 1 .. n : f[i] = rhs[i][f]

(* The set has all places, ...                                             *)
LEMMA DownInd ==
  ASSUME NEW n \in Nat, NEW T \in SUBSET (1 .. n), FromBehind(T, n)
  PROVE  T = 1 .. n
<1> USE DEF FromBehind
<1> DEFINE N == {k \in Nat : \A i \in 1 .. n : i > n - k => i \in T}
<1>1. 0 \in N
  OBVIOUS
<1>2. ASSUME NEW k \in N PROVE k + 1 \in N
  <2> SUFFICES ASSUME NEW i \in 1 .. n, i > n - (k + 1) PROVE i \in T
    OBVIOUS
  <2>1. \A j \in i + 1 .. n : j \in T
    OBVIOUS
  <2> QED
    BY <2>1
<1>3. N = Nat
  <2>1. N \in SUBSET Nat
    OBVIOUS
  <2> HIDE DEF N
  <2> QED
    BY <1>1, <1>2, <2>1, NatInd
<1>4. n \in N
  BY <1>3
<1>5. \A i \in 1 .. n : i > n - n
  OBVIOUS
<1> QED
  BY <1>4, <1>5

(* ... and the equations have a solution.                                  *)
LEMMA DownwardsExists ==
  ASSUME NEW n \in Nat, NEW V, V # {}, NEW rhs \in RightSides(n, V),
         LookBehind(rhs, n, V)
  PROVE  \E f \in [1 .. n -> V] : Solves(f, n, rhs)
<1> USE DEF RightSides, LookBehind, Solves
<1> DEFINE Past(k, f) == \A i \in 1 .. n : i > n - k => f[i] = rhs[i][f]
           N == {k \in Nat : \E f \in [1 .. n -> V] : Past(k, f)}
<1>1. 0 \in N
  <2>1. PICK v \in V : TRUE
    OBVIOUS
  <2>2. [i \in 1 .. n |-> v] \in [1 .. n -> V] /\ Past(0, [i \in 1 .. n |-> v])
    OBVIOUS
  <2> QED
    BY <2>2
<1>2. ASSUME NEW k \in N PROVE k + 1 \in N
  <2>1. PICK f \in [1 .. n -> V] : Past(k, f)
    OBVIOUS
  <2> DEFINE p == n - k
  <2>2. CASE p < 1
    <3>1. Past(k + 1, f)
      BY <2>1, <2>2
    <3> QED
      BY <3>1
  <2>3. CASE p >= 1
    <3>1. p \in 1 .. n
      BY <2>3
    <3> DEFINE v == rhs[p][f]
               g == [f EXCEPT ![p] = v]
    <3>2. v \in V
      BY <3>1
    <3>3. /\ \A i \in 1 .. n : i > n - k <=> i > p
          /\ \A i \in 1 .. n : i > n - (k + 1) <=> i >= p
      OBVIOUS
    <3> HIDE DEF v, p
    <3>4. /\ g \in [1 .. n -> V]
          /\ \A i \in 1 .. n : i # p => g[i] = f[i]
          /\ g[p] = v
      BY <3>1, <3>2
    <3> HIDE DEF g
    <3>5. ASSUME NEW i \in 1 .. n, i >= p PROVE g[i] = rhs[i][g]
      <4>1. p \in Int
        BY <3>1
      <4>2. \A j \in i + 1 .. n : j \in 1 .. n /\ j # p
        BY <3>5, <4>1
      <4>3. \A j \in i + 1 .. n : f[j] = g[j]
        BY <4>2, <3>4
      <4>4. rhs[i][f] = rhs[i][g]
        BY <4>3, <3>4
      <4>5. CASE i = p
        BY <4>5, <4>4, <3>4 DEF v
      <4>6. CASE i > p
        <5>1. i # p
          BY <4>6, <4>1
        <5>2. f[i] = rhs[i][f]
          BY <4>6, <3>3, <2>1
        <5> QED
          BY <5>1, <5>2, <4>4, <3>4
      <4> QED
        BY <4>5, <4>6, <4>1, <3>5
    <3>6. Past(k + 1, g)
      BY <3>3, <3>5
    <3> QED
      BY <3>4, <3>6
  <2> QED
    BY <2>2, <2>3
<1>3. N = Nat
  <2>1. N \in SUBSET Nat
    OBVIOUS
  <2> HIDE DEF N
  <2> QED
    BY <1>1, <1>2, <2>1, NatInd
<1>4. PICK f \in [1 .. n -> V] : Past(n, f)
  BY <1>3
<1> QED
  BY <1>4

=============================================================================
