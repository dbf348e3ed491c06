------------------------------ MODULE FoldLoop ------------------------------
(***************************************************************************)
(* A left fold is a loop: FoldLeft() is defined by a recursion over sets   *)
(* of indices, and FoldSteps gives the values it goes through, one for     *)
(* each element of the sequence.  The step is a parameter: a module that   *)
(* proves something about a fold instantiates this one with its step.      *)
(***************************************************************************)
EXTENDS Integers, Sequences, SequencesExt, FiniteSetsExt, Induction, TLAPS

CONSTANT Op(_, _)     \* the step of the loop

(* The element a left fold takes first from a set of indices is its largest. *)
LEMMA MaxIsLargest ==
  ASSUME NEW n \in Nat, NEW s \in SUBSET (1..n), s # {}
  PROVE  Max(s) \in s /\ \A y \in s : y <= Max(s)
<1> DEFINE T == {t \in Nat : n - t \in s}
<1>0. \A y \in s : y \in 1..n
  OBVIOUS
<1>1. \A y \in s : n - y \in T
  BY <1>0
<1>2. T \in SUBSET Nat /\ T # {}
  BY <1>1
<1>3. PICK t \in T : \A u \in T : t <= u
  <2> HIDE DEF T
  <2> QED BY <1>2, LeastElement
<1>4. t \in Nat /\ n - t \in s
  OBVIOUS
<1> HIDE DEF T
<1>5. ASSUME NEW y \in s PROVE n - t >= y
  BY <1>0, <1>1, <1>3, <1>4
<1>6. Max(s) \in s /\ \A y \in s : Max(s) >= y
  BY <1>4, <1>5 DEF Max
<1> QED BY <1>0, <1>6

(* The largest of the first n + 1 indices is the last of them.              *)
LEMMA MaxOfTop ==
  ASSUME NEW n \in Nat, NEW s \in SUBSET (1..(n + 1)), n + 1 \in s
  PROVE  Max(s) = n + 1
<1>1. Max(s) \in s /\ \A y \in s : y <= Max(s)
  BY MaxIsLargest, n + 1 \in Nat, s # {}
<1>2. Max(s) \in 1..(n + 1)
  BY <1>1
<1>3. n + 1 <= Max(s)
  BY <1>1
<1> QED BY <1>2, <1>3

(* The function FoldLeft() is defined by: g[s] is the value after the       *)
(* elements at the indices s of the sequence.                               *)
IsIter(g, d, seq, n) ==
  g = [s \in SUBSET (1..n) |-> IF s = {} THEN d ELSE Op(g[s \ {Max(s)}], seq[Max(s)])]

(* For a sequence of any length there is such a function ...                *)
LEMMA IterExists ==
  ASSUME NEW d, NEW seq, NEW n \in Nat
  PROVE  \E g : IsIter(g, d, seq, n)
<1> USE DEF IsIter
<1> HIDE DEF Max
<1> DEFINE S == {i \in Nat : \E g : IsIter(g, d, seq, i)}
<1>1. 0 \in S
  <2> DEFINE g == [s \in SUBSET (1..0) |-> d]
  <2>0. \A s \in SUBSET (1..0) : s = {} OBVIOUS
  <2>1. IsIter(g, d, seq, 0) BY <2>0
  <2> QED BY <2>1
<1>2. ASSUME NEW i \in 0..(n - 1), i \in S PROVE i + 1 \in S
  <2>1. PICK g : IsIter(g, d, seq, i) BY <1>2
  <2> DEFINE h == [s \in SUBSET (1..(i + 1)) |->
                     IF i + 1 \in s THEN Op(g[s \ {i + 1}], seq[i + 1]) ELSE g[s]]
  <2>2. ASSUME NEW s \in SUBSET (1..(i + 1))
        PROVE  h[s] = IF s = {} THEN d ELSE Op(h[s \ {Max(s)}], seq[Max(s)])
    <3>1. CASE i + 1 \in s
      <4>1. Max(s) = i + 1 BY <3>1, MaxOfTop
      <4>2. s \ {i + 1} \in SUBSET (1..(i + 1)) /\ i + 1 \notin s \ {i + 1} OBVIOUS
      <4>3. h[s \ {i + 1}] = g[s \ {i + 1}] BY <4>2
      <4> QED BY <3>1, <4>1, <4>3
    <3>2. CASE i + 1 \notin s
      <4>1. s \in SUBSET (1..i) BY <3>2
      <4>2. h[s] = g[s] BY <3>2
      <4>3. g[s] = IF s = {} THEN d ELSE Op(g[s \ {Max(s)}], seq[Max(s)])
        BY <2>1, <4>1
      <4>4. s \ {Max(s)} \in SUBSET (1..(i + 1)) /\ i + 1 \notin s \ {Max(s)}
        BY <3>2
      <4>5. h[s \ {Max(s)}] = g[s \ {Max(s)}] BY <4>4
      <4> QED BY <4>2, <4>3, <4>5
    <3> QED BY <3>1, <3>2
  <2>3. IsIter(h, d, seq, i + 1) BY <2>2
  <2> HIDE DEF IsIter
  <2> QED BY <2>3
<1> HIDE DEF S, IsIter
<1>3. \A i \in 0..n : i \in S
  BY <1>1, <1>2, LoopInduction
<1>4. n \in S
  BY <1>3
<1> QED BY <1>4 DEF S

(* ... and there is one such function.                                      *)
LEMMA IterUnique ==
  ASSUME NEW d, NEW seq, NEW n \in Nat, NEW g, NEW f,
         IsIter(g, d, seq, n), IsIter(f, d, seq, n)
  PROVE  g = f
<1> HIDE DEF Max
<1> DEFINE S == {i \in Nat : \A s \in SUBSET (1..i) : i <= n => g[s] = f[s]}
<1>0. \A s \in SUBSET (1..n) :
         /\ g[s] = IF s = {} THEN d ELSE Op(g[s \ {Max(s)}], seq[Max(s)])
         /\ f[s] = IF s = {} THEN d ELSE Op(f[s \ {Max(s)}], seq[Max(s)])
  BY DEF IsIter
<1>1. 0 \in S
  <2>0. \A s \in SUBSET (1..0) : s = {} OBVIOUS
  <2>1. {} \in SUBSET (1..n) OBVIOUS
  <2>2. g[{}] = f[{}] BY <1>0, <2>1
  <2> QED BY <2>0, <2>2
<1>2. ASSUME NEW i \in 0..(n - 1), i \in S PROVE i + 1 \in S
  <2>1. ASSUME NEW s \in SUBSET (1..(i + 1)) PROVE g[s] = f[s]
    <3>1. CASE i + 1 \in s
      <4>1. Max(s) = i + 1 BY <3>1, MaxOfTop
      <4>2. s \ {i + 1} \in SUBSET (1..i) OBVIOUS
      <4>3. g[s \ {i + 1}] = f[s \ {i + 1}] BY <1>2, <4>2
      <4>4. s \in SUBSET (1..n) OBVIOUS
      <4> QED BY <1>0, <3>1, <4>1, <4>3, <4>4
    <3>2. CASE i + 1 \notin s
      <4>1. s \in SUBSET (1..i) BY <3>2
      <4> QED BY <1>2, <4>1
    <3> QED BY <3>1, <3>2
  <2> QED BY <2>1
<1> HIDE DEF S
<1>3. \A i \in 0..n : i \in S
  BY <1>1, <1>2, LoopInduction
<1>4. \A s \in SUBSET (1..n) : g[s] = f[s]
  BY <1>3 DEF S
<1> QED BY <1>4 DEF IsIter

(* The fold of the step.                                                    *)
Folded(d, seq) == FoldLeft(Op, d, seq)

(* It is the value of that function at all indices.                         *)
LEMMA FoldIsIter ==
  ASSUME NEW d, NEW seq, NEW n \in Nat, DOMAIN seq = 1..n, NEW g, IsIter(g, d, seq, n)
  PROVE  Folded(d, seq) = g[1..n]
<1>1. \A h : (h = [s \in SUBSET (1..n) |-> IF s = {} THEN d ELSE Op(h[s \ {Max(s)}], seq[Max(s)])]) => h = g
  <2>1. \A h : IsIter(h, d, seq, n) => h = g
    BY IterUnique
  <2> QED BY <2>1 DEF IsIter
<1>2. g = [s \in SUBSET (1..n) |-> IF s = {} THEN d ELSE Op(g[s \ {Max(s)}], seq[Max(s)])]
  BY DEF IsIter
<1> HIDE DEF Max
<1> QED BY <1>1, <1>2, Zenon DEF Folded, FoldLeft, MapThenFoldSet

(* The fold goes through the sequence one element after the other: there is *)
(* a list of values from the one it starts with to the one it answers.      *)
LEMMA FoldSteps ==
  ASSUME NEW d, NEW seq, NEW n \in Nat, DOMAIN seq = 1..n
  PROVE  \E st : /\ st[0] = d
                 /\ \A i \in 1..n : st[i] = Op(st[i - 1], seq[i])
                 /\ Folded(d, seq) = st[n]
<1> HIDE DEF Max
<1>1. PICK g : IsIter(g, d, seq, n)
  BY IterExists
<1> DEFINE st == [i \in 0..n |-> g[1..i]]
<1>2. st[0] = d
  <2>1. 1..0 = {} OBVIOUS
  <2>2. {} \in SUBSET (1..n) OBVIOUS
  <2>3. g[{}] = d BY <1>1, <2>2 DEF IsIter
  <2> QED BY <2>1, <2>3
<1>3. ASSUME NEW i \in 1..n PROVE st[i] = Op(st[i - 1], seq[i])
  <2>1. 1..i \in SUBSET (1..n) /\ 1..i # {} OBVIOUS
  <2>2. Max(1..i) = i
    <3>1. i - 1 \in Nat /\ (i - 1) + 1 = i OBVIOUS
    <3>2. 1..i \in SUBSET (1..((i - 1) + 1)) /\ (i - 1) + 1 \in 1..i BY <3>1
    <3>3. Max(1..i) = (i - 1) + 1 BY <3>1, <3>2, MaxOfTop
    <3> QED BY <3>1, <3>3
  <2>3. (1..i) \ {i} = 1..(i - 1) OBVIOUS
  <2>4. g[1..i] = Op(g[(1..i) \ {Max(1..i)}], seq[Max(1..i)])
    BY <1>1, <2>1 DEF IsIter
  <2>5. st[i] = g[1..i] /\ st[i - 1] = g[1..(i - 1)] OBVIOUS
  <2> HIDE DEF st
  <2> QED BY <2>2, <2>3, <2>4, <2>5
<1>4. Folded(d, seq) = st[n]
  <2>1. Folded(d, seq) = g[1..n] BY <1>1, FoldIsIter
  <2> QED BY <2>1
<1> HIDE DEF st
<1> QED BY <1>2, <1>3, <1>4

-----------------------------------------------------------------------------
=============================================================================
