------------------------------ MODULE Induction ------------------------------
(***************************************************************************)
(* Induction over the natural numbers, and what a function defined by      *)
(* recursion over an interval of them is, in forms without an operator     *)
(* parameter: a predicate is the set of the numbers that satisfy it, a     *)
(* step is a function.                                                     *)
(***************************************************************************)
EXTENDS Integers, FiniteSetTheorems, WellFoundedInduction, TLAPS

\* Every set of natural numbers that is not empty has a least element.
LEMMA LeastNat ==
  ASSUME NEW T \in SUBSET Nat, T # {}
  PROVE  \E x \in T : \A y \in T : x <= y
<1> DEFINE R == OpToRel(<, Nat)
<1>1. IsWellFoundedOn(R, Nat)
  BY NatLessThanWellFounded
<1>2. \A x, y \in T : y < x => <<y, x>> \in R
  BY DEF OpToRel
<1> HIDE DEF R
<1>3. PICK x \in T : \A y \in T : ~ (<<y, x>> \in R)
  BY <1>1, WFMin
<1>4. \A y \in T : ~(y < x) /\ x \in Nat /\ y \in Nat
  BY <1>2, <1>3
<1> QED BY <1>4

\* Induction along 0 .. n; holds is the set of the numbers shown to satisfy a claim.
LEMMA UpTo ==
  ASSUME NEW n \in Nat, NEW holds, 0 \in holds,
         \A i \in 0 .. n - 1 : i \in holds => i + 1 \in holds
  PROVE  \A i \in 0 .. n : i \in holds
<1> DEFINE Bad == {i \in 0 .. n : i \notin holds}
<1> SUFFICES ASSUME Bad # {} PROVE FALSE
  OBVIOUS
<1>1. Bad \in SUBSET Nat
  OBVIOUS
<1>2. PICK b \in Bad : \A i \in Bad : b <= i
  BY <1>1, LeastNat
<1>3. b # 0 /\ b \in 0 .. n
  OBVIOUS
<1>4. b - 1 \in 0 .. n - 1 /\ b - 1 \notin Bad
  BY <1>2, <1>3
<1>5. b - 1 \in holds
  BY <1>4
<1> QED BY <1>3, <1>4, <1>5

(***************************************************************************)
(* A recursion that goes up: the value at i is a step from that at i - 1.  *)
(***************************************************************************)
StepsUp(n, V) == [1 .. n -> [V -> V]]

RunUp(f, n, V, start, step) ==
  /\ f \in [0 .. n -> V]
  /\ f[0] = start
  /\ \A i \in 1 .. n : f[i] = step[i][f[i - 1]]

\* A function that takes such steps from a start in V.
GoesUp(f, n, V, step) ==
  /\ f[0] \in V
  /\ \A i \in 1 .. n : f[i - 1] \in V => f[i] = step[i][f[i - 1]]

\* A recursion upwards has a run.
LEMMA RecursionUp ==
  ASSUME NEW n \in Nat, NEW V, NEW start \in V, NEW step \in StepsUp(n, V)
  PROVE  \E f : RunUp(f, n, V, start, step)
<1> USE DEF StepsUp
<1> DEFINE Solves(f, m) == f[0] = start /\ \A i \in 1 .. m : f[i] = step[i][f[i - 1]]
           holds == {m \in Nat : \E f \in [0 .. m -> V] : Solves(f, m)}
<1>1. 0 \in holds
  <2> DEFINE f == [i \in 0 .. 0 |-> start]
  <2>1. f \in [0 .. 0 -> V] /\ f[0] = start
    OBVIOUS
  <2>2. Solves(f, 0)
    BY <2>1
  <2> HIDE DEF f, Solves
  <2> QED BY <2>1, <2>2
<1>2. ASSUME NEW m \in 0 .. n - 1, m \in holds PROVE m + 1 \in holds
  <2>1. PICK f \in [0 .. m -> V] : Solves(f, m)
    BY <1>2
  <2> DEFINE g == [i \in 0 .. m + 1 |-> IF i <= m THEN f[i] ELSE step[m + 1][f[m]]]
  <2>2. f[m] \in V /\ step[m + 1] \in [V -> V]
    BY <2>1
  <2>3. g \in [0 .. m + 1 -> V]
    BY <2>2
  <2>4. g[m + 1] = step[m + 1][f[m]] /\ \A i \in 0 .. m : g[i] = f[i]
    OBVIOUS
  <2> HIDE DEF g
  <2>5. g[0] = start
    BY <2>1, <2>4
  <2>6. ASSUME NEW i \in 1 .. m + 1 PROVE g[i] = step[i][g[i - 1]]
    <3>1. CASE i <= m
      <4>1. i \in 1 .. m /\ i - 1 \in 0 .. m /\ i \in 0 .. m
        BY <3>1
      <4> QED BY <2>1, <2>4, <4>1
    <3>2. CASE ~(i <= m)
      <4>1. i = m + 1 /\ i - 1 = m /\ m \in 0 .. m
        BY <3>2
      <4>2. g[i - 1] = f[m]
        BY <2>4, <4>1
      <4> QED BY <2>4, <4>1, <4>2
    <3> QED BY <3>1, <3>2
  <2>7. Solves(g, m + 1)
    BY <2>5, <2>6
  <2> HIDE DEF Solves
  <2> QED BY <2>3, <2>7
<1>3. \A m \in 0 .. n - 1 : m \in holds => m + 1 \in holds
  BY <1>2
<1>4. n \in holds
  <2> HIDE DEF holds
  <2>1. \A i \in 0 .. n : i \in holds
    BY <1>1, <1>3, UpTo, Zenon
  <2> QED BY <2>1
<1> QED BY <1>4 DEF RunUp

\* Such a function stays in V.
LEMMA RecursionStays ==
  ASSUME NEW n \in Nat, NEW V, NEW step \in StepsUp(n, V), NEW f, GoesUp(f, n, V, step)
  PROVE  \A i \in 0 .. n : f[i] \in V
<1> USE DEF StepsUp, GoesUp
<1> DEFINE holds == {i \in Nat : f[i] \in V}
<1>1. 0 \in holds
  OBVIOUS
<1>2. ASSUME NEW i \in 0 .. n - 1, i \in holds PROVE i + 1 \in holds
  <2>1. i + 1 \in 1 .. n /\ (i + 1) - 1 = i
    OBVIOUS
  <2>2. f[i + 1] = step[i + 1][f[i]] /\ step[i + 1] \in [V -> V]
    BY <1>2, <2>1
  <2> QED BY <1>2, <2>2
<1>3. \A i \in 0 .. n : i \in holds
  <2> HIDE DEF holds
  <2> QED BY <1>1, <1>2, UpTo, Zenon
<1> QED BY <1>3

(***************************************************************************)
(* A recursion that goes down from n: the value at i depends on those at   *)
(* the greater numbers.                                                    *)
(***************************************************************************)
StepsDown(n, V) ==
  {step \in [1 .. n -> [[1 .. n -> V] -> V]] :
     \A i \in 1 .. n : \A f, g \in [1 .. n -> V] :
        (\A k \in i + 1 .. n : f[k] = g[k]) => step[i][f] = step[i][g]}

RunDown(f, n, V, step) == f \in [1 .. n -> V] /\ \A i \in 1 .. n : f[i] = step[i][f]

\* A recursion downwards has a run.
LEMMA RecursionDown ==
  ASSUME NEW n \in Nat, NEW V, NEW v \in V, NEW step \in StepsDown(n, V)
  PROVE  \E f : RunDown(f, n, V, step)
<1> USE DEF StepsDown
<1> DEFINE Solves(f, m) == \A i \in 1 .. n : i > n - m => f[i] = step[i][f]
           holds == {m \in Nat : \E f \in [1 .. n -> V] : Solves(f, m)}
<1>1. 0 \in holds
  <2> DEFINE f == [i \in 1 .. n |-> v]
  <2>1. f \in [1 .. n -> V] /\ Solves(f, 0)
    OBVIOUS
  <2> HIDE DEF f, Solves
  <2> QED BY <2>1
<1>2. ASSUME NEW m \in 0 .. n - 1, m \in holds PROVE m + 1 \in holds
  <2>1. PICK f \in [1 .. n -> V] : Solves(f, m)
    BY <1>2
  <2> DEFINE at == n - m
             g  == [f EXCEPT ![at] = step[at][f]]
  <2>2. at \in 1 .. n
    OBVIOUS
  <2>3. step[at] \in [[1 .. n -> V] -> V]
    BY <2>2
  <2>4. step[at][f] \in V
    BY <2>3
  <2>5. /\ g \in [1 .. n -> V] /\ g[at] = step[at][f]
        /\ \A k \in 1 .. n : k # at => g[k] = f[k]
    BY <2>2, <2>4
  <2> HIDE DEF g
  <2>6. ASSUME NEW i \in 1 .. n, i > n - (m + 1) PROVE g[i] = step[i][g]
    <3>1. \A k \in i + 1 .. n : g[k] = f[k]
      BY <2>5, <2>6
    <3>2. step[i][g] = step[i][f]
      BY <2>5, <3>1
    <3>3. CASE i = at
      BY <2>5, <3>2, <3>3
    <3>4. CASE i # at
      <4>1. i > n - m
        BY <2>6, <3>4
      <4>2. f[i] = step[i][f]
        BY <2>1, <4>1
      <4> QED BY <2>5, <3>2, <3>4, <4>2
    <3> QED BY <3>3, <3>4
  <2>7. Solves(g, m + 1)
    BY <2>6
  <2> HIDE DEF Solves
  <2> QED BY <2>5, <2>7
<1>3. \A m \in 0 .. n - 1 : m \in holds => m + 1 \in holds
  BY <1>2
<1>4. n \in holds
  <2> HIDE DEF holds
  <2>1. \A i \in 0 .. n : i \in holds
    BY <1>1, <1>3, UpTo, Zenon
  <2> QED BY <2>1
<1>5. PICK f \in [1 .. n -> V] : Solves(f, n)
  BY <1>4
<1> QED BY <1>5 DEF RunDown

-----------------------------------------------------------------------------
\* A power of two counts the subsets of an interval: it grows with its exponent.
LEMMA PowersGrow ==
  ASSUME NEW m \in Nat, NEW n \in Nat, m <= n
  PROVE  2^m \in Nat /\ 2^n \in Nat /\ 2^m <= 2^n
<1>1. ASSUME NEW k \in Nat
      PROVE  IsFiniteSet(SUBSET (1 .. k)) /\ Cardinality(SUBSET (1 .. k)) = 2^k
  <2>1. IsFiniteSet(1 .. k) /\ Cardinality(1 .. k) = k
    BY FS_Interval
  <2> QED BY <2>1, FS_SUBSET
<1>2. SUBSET (1 .. m) \in SUBSET (SUBSET (1 .. n))
  OBVIOUS
<1>3. /\ Cardinality(SUBSET (1 .. m)) \in Nat /\ Cardinality(SUBSET (1 .. n)) \in Nat
      /\ Cardinality(SUBSET (1 .. m)) <= Cardinality(SUBSET (1 .. n))
  BY <1>1, <1>2, FS_Subset, FS_CardinalityType
<1> QED BY <1>1, <1>3

\* One more element doubles the subsets.
LEMMA PowerDoubles ==
  ASSUME NEW n \in Nat
  PROVE  2^n \in Nat /\ 2^(n + 1) = 2 * 2^n
<1> DEFINE old == SUBSET (1 .. n)
           new == {A \cup {n + 1} : A \in old}
<1>1. ASSUME NEW k \in Nat
      PROVE  IsFiniteSet(SUBSET (1 .. k)) /\ Cardinality(SUBSET (1 .. k)) = 2^k
  <2>1. IsFiniteSet(1 .. k) /\ Cardinality(1 .. k) = k
    BY FS_Interval
  <2> QED BY <2>1, FS_SUBSET
<1>2. IsFiniteSet(old) /\ Cardinality(old) = 2^n /\ Cardinality(old) \in Nat
  BY <1>1, FS_CardinalityType
<1>3. IsFiniteSet(new) /\ Cardinality(new) = 2^n
  <2> DEFINE add == [A \in old |-> A \cup {n + 1}]
  <2>1. add \in Bijection(old, new)
    <3>1. add \in [old -> new]
      OBVIOUS
    <3>2. \A A, B \in old : add[A] = add[B] => A = B
      OBVIOUS
    <3>3. \A C \in new : \E A \in old : add[A] = C
      OBVIOUS
    <3> QED BY <3>1, <3>2, <3>3 DEF Bijection, Injection, Surjection, IsInjective
  <2> QED BY <1>2, <2>1, FS_Bijection DEF ExistsBijection
<1>4. /\ 1 .. n + 1 = (1 .. n) \cup {n + 1} /\ n + 1 \notin 1 .. n
  OBVIOUS
<1>5. SUBSET (1 .. n + 1) = old \cup new
  <2>1. ASSUME NEW C \in SUBSET (1 .. n + 1), n + 1 \in C PROVE C \in new
    <3>1. C \ {n + 1} \in old
      BY <1>4
    <3>2. C = (C \ {n + 1}) \cup {n + 1}
      BY <2>1
    <3> QED BY <3>1, <3>2
  <2>2. ASSUME NEW C \in SUBSET (1 .. n + 1), n + 1 \notin C PROVE C \in old
    BY <1>4, <2>2
  <2>3. old \cup new \subseteq SUBSET (1 .. n + 1)
    BY <1>4
  <2> QED BY <2>1, <2>2, <2>3
<1>6. Cardinality(old \cup new) = 2^n + 2^n
  <2>1. old \cap new = {}
    BY <1>4
  <2>2. Cardinality({}) = 0
    BY FS_EmptySet
  <2> HIDE DEF old, new
  <2>3. Cardinality(old \cup new) = Cardinality(old) + Cardinality(new) - Cardinality(old \cap new)
    BY <1>2, <1>3, FS_Union
  <2> QED BY <1>2, <1>3, <2>1, <2>2, <2>3
<1>7. n + 1 \in Nat
  OBVIOUS
<1>8. 2^(n + 1) = 2^n + 2^n
  BY <1>1, <1>5, <1>6, <1>7
<1> QED BY <1>2, <1>8
=============================================================================
