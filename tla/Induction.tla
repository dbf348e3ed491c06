------------------------------ MODULE Induction ------------------------------
(***************************************************************************)
(* Induction over the natural numbers for the proofs about loops: a        *)
(* transaction applied one operation after the other, a list scanned from  *)
(* its head.  The library's induction theorems take a predicate as a       *)
(* parameter; these take the set of numbers that satisfy it.  And what     *)
(* sorting relies on: the elements of a finite order have ranks.           *)
(***************************************************************************)
EXTENDS Integers, FiniteSetTheorems, WellFoundedInduction, TLAPS

(* A non-empty set of natural numbers has a least element: the first        *)
(* iteration of a loop at which something goes wrong exists.                *)
LEMMA LeastElement ==
  ASSUME NEW T \in SUBSET Nat, T # {}
  PROVE  \E x \in T : \A y \in T : x <= y
<1> DEFINE R == OpToRel(<, Nat)
<1>1. IsWellFoundedOn(R, Nat)
  BY NatLessThanWellFounded
<1>2. PICK x \in T : \A y \in T : ~(<<y, x>> \in R)
  <2> HIDE DEF R
  <2> QED BY <1>1, WFMin
<1>3. \A y \in T : <<y, x>> \in R <=> y < x
  BY DEF OpToRel
<1> HIDE DEF R
<1>4. ASSUME NEW y \in T PROVE x <= y
  <2>1. ~(y < x) BY <1>2, <1>3
  <2>2. x \in Nat /\ y \in Nat OBVIOUS
  <2> QED BY <2>1, <2>2
<1> QED BY <1>4

(* What holds before the first iteration of a loop of n iterations and is   *)
(* kept by each of them holds after any number of them.                     *)
LEMMA LoopInduction ==
  ASSUME NEW n \in Nat, NEW S, 0 \in S,
         \A i \in 0..(n - 1) : i \in S => i + 1 \in S
  PROVE  \A i \in 0..n : i \in S
<1> DEFINE T == {i \in 0..n : i \notin S}
<1> SUFFICES ASSUME T # {} PROVE FALSE
  OBVIOUS
<1>1. T \in SUBSET Nat
  OBVIOUS
<1>2. PICK x \in T : \A y \in T : x <= y
  <2> HIDE DEF T
  <2> QED BY <1>1, LeastElement
<1>3. x \in 1..n /\ x - 1 \in 0..(n - 1)
  BY <1>2
<1>4. x - 1 \in S
  BY <1>2, <1>3
<1>5. x \in S
  BY <1>3, <1>4
<1> QED BY <1>5

(* A finite strict total order ranks its elements: for every place there is *)
(* one with exactly that many below it, and a larger one has more.          *)
LEMMA Ranked ==
  ASSUME NEW S, IsFiniteSet(S), NEW below \in [S -> SUBSET S],
         \A x \in S : x \notin below[x],
         \A x, y \in S : x \in below[y] => below[x] \subseteq below[y],
         \A x, y \in S : x = y \/ x \in below[y] \/ y \in below[x]
  PROVE  /\ \A k \in 0..(Cardinality(S) - 1) : \E x \in S : Cardinality(below[x]) = k
         /\ \A x \in S : Cardinality(below[x]) \in 0..(Cardinality(S) - 1)
         /\ \A x, y \in S : x \in below[y] => Cardinality(below[x]) < Cardinality(below[y])
<1> DEFINE n == Cardinality(S)
           T == 0..(n - 1)
           f == [x \in S |-> Cardinality(below[x])]
<1>1. n \in Nat BY FS_CardinalityType
<1>2. ASSUME NEW x \in S
      PROVE  /\ IsFiniteSet(below[x]) /\ Cardinality(below[x]) \in Nat
             /\ Cardinality(below[x]) < n
  <2>1. below[x] \in SUBSET S OBVIOUS
  <2>2. /\ IsFiniteSet(below[x]) /\ Cardinality(below[x]) <= Cardinality(S)
        /\ Cardinality(S) = Cardinality(below[x]) => S = below[x]
    BY <2>1, FS_Subset
  <2>3. Cardinality(below[x]) \in Nat BY <2>2, FS_CardinalityType
  <2>4. S # below[x] OBVIOUS
  <2> QED BY <1>1, <2>2, <2>3, <2>4
<1>3. ASSUME NEW x \in S, NEW y \in S, x \in below[y]
      PROVE  Cardinality(below[x]) < Cardinality(below[y])
  <2>1. below[x] \in SUBSET below[y] BY <1>3
  <2>2. /\ Cardinality(below[x]) <= Cardinality(below[y])
        /\ Cardinality(below[y]) = Cardinality(below[x]) => below[y] = below[x]
    BY <1>2, <2>1, FS_Subset
  <2>3. below[y] # below[x] BY <1>3
  <2> QED BY <1>2, <2>2, <2>3
<1>4. \A x, y \in S : f[x] = f[y] => x = y
  <2> SUFFICES ASSUME NEW x \in S, NEW y \in S, f[x] = f[y], x # y PROVE FALSE
    OBVIOUS
  <2>1. Cardinality(below[x]) = Cardinality(below[y]) OBVIOUS
  <2>2. x \in below[y] \/ y \in below[x] OBVIOUS
  <2> QED BY <1>2, <1>3, <2>1, <2>2
<1>5. f \in [S -> T] BY <1>1, <1>2
<1>6. f \in Injection(S, T) BY <1>4, <1>5 DEF Injection, IsInjective
<1>7. IsFiniteSet(T) /\ Cardinality(T) = n
  <2>1. IsFiniteSet(T) /\ Cardinality(T) = IF 0 > n - 1 THEN 0 ELSE ((n - 1) - 0) + 1
    <3> HIDE DEF n
    <3> QED BY <1>1, FS_Interval
  <2> QED BY <1>1, <2>1
<1>8. f \in Surjection(S, T)
  <2> HIDE DEF f, T
  <2> QED BY <1>6, <1>7, FS_Injection
<1>9. \A k \in T : \E x \in S : f[x] = k BY <1>8 DEF Surjection
<1>10. \A x \in S : Cardinality(below[x]) \in 0..(Cardinality(S) - 1) BY <1>1, <1>2
<1> QED BY <1>3, <1>9, <1>10
=============================================================================
