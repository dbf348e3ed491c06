---------------------------- MODULE JournalProofs ----------------------------
(***************************************************************************)
(* Proofs about module Journal, for every ring size, transaction size,     *)
(* number of crashes and of failed writes.                                 *)
(*                                                                         *)
(*   Spec               => []JournalTypeOK                                 *)
(*   Spec /\ []Fits     => []DurableCommit                                 *)
(*   Spec /\ []Fits /\ []Clear => ImplementsLog                            *)
(*                                                                         *)
(* Fits and Clear say that the ring has room for what is being written.    *)
(* Nothing in journal.cc checks it.  For transactions of one block, the    *)
(* last part of the module proves that the thresholds of the engine's puts *)
(* make it so (OneBlockFits), and both results without the hypothesis.     *)
(*                                                                         *)
(* Picked() and recover() are recursive over the ring; what they return is *)
(* established by induction on the scanned blocks (Induction).             *)
(***************************************************************************)
EXTENDS Journal, Induction, TLAPS

-----------------------------------------------------------------------------
(* Picked(): the scan that keeps some of what it sees                       *)

(* The scan after each of the first n elements.                             *)
IsScan(p, s, K, n) ==
  p = [i \in 0..n |-> IF i = 0 THEN <<>>
                      ELSE IF i \in K THEN Append(p[i - 1], s[i]) ELSE p[i - 1]]

(* A scan of any length can be made.                                        *)
LEMMA ScanExists ==
  ASSUME NEW s, NEW K, NEW n \in Nat
  PROVE  \E p : IsScan(p, s, K, n)
<1> DEFINE S == {i \in Nat : \E p : IsScan(p, s, K, i)}
<1>1. 0 \in S
  <2> DEFINE p == [i \in 0..0 |-> <<>>]
  <2>0. \A i \in 0..0 : i = 0 OBVIOUS
  <2>1. IsScan(p, s, K, 0) BY <2>0 DEF IsScan
  <2> QED BY <2>1
<1>2. ASSUME NEW i \in 0..(n - 1), i \in S PROVE i + 1 \in S
  <2>1. PICK p : IsScan(p, s, K, i) BY <1>2
  <2> DEFINE x == IF i + 1 \in K THEN Append(p[i], s[i + 1]) ELSE p[i]
  <2> DEFINE q == [j \in 0..(i + 1) |-> IF j = i + 1 THEN x ELSE p[j]]
  <2>2. ASSUME NEW j \in 0..(i + 1)
        PROVE  q[j] = IF j = 0 THEN <<>>
                      ELSE IF j \in K THEN Append(q[j - 1], s[j]) ELSE q[j - 1]
    <3>1. CASE j = i + 1
      <4>1. q[i] = p[i] OBVIOUS
      <4>2. q[j] = x BY <3>1
      <4>3. j - 1 = i /\ j # 0 BY <3>1
      <4> QED BY <3>1, <4>1, <4>2, <4>3
    <3>2. CASE j # i + 1
      <4>1. j \in 0..i BY <3>2
      <4>2. p[j] = IF j = 0 THEN <<>>
                   ELSE IF j \in K THEN Append(p[j - 1], s[j]) ELSE p[j - 1]
        BY <2>1, <4>1 DEF IsScan
      <4>3. q[j] = p[j] BY <3>2
      <4>4. j # 0 => q[j - 1] = p[j - 1] BY <4>1
      <4> QED BY <4>2, <4>3, <4>4
    <3> QED BY <3>1, <3>2
  <2>3. IsScan(q, s, K, i + 1) BY <2>2 DEF IsScan
  <2> QED BY <2>3
<1> HIDE DEF S
<1>3. \A i \in 0..n : i \in S
  BY <1>1, <1>2, LoopInduction
<1>4. n \in S
  BY <1>3
<1> QED BY <1>4 DEF S

(* Two lists begin with the same n elements, picked or not in both.         *)
Alike(s, K, t, J, n) == \A i \in 1..n : s[i] = t[i] /\ (i \in K <=> i \in J)

(* Scans of lists that begin alike go alike as far as that.                 *)
LEMMA ScansAgree ==
  ASSUME NEW s, NEW K, NEW n \in Nat, NEW p, IsScan(p, s, K, n),
         NEW t, NEW J, NEW m \in Nat, NEW q, IsScan(q, t, J, m),
         n <= m, Alike(s, K, t, J, n)
  PROVE  \A i \in 0..n : p[i] = q[i]
<1> DEFINE S == {i \in Nat : p[i] = q[i]}
<1>1. 0 \in S
  BY DEF IsScan
<1>2. ASSUME NEW i \in 0..(n - 1), i \in S PROVE i + 1 \in S
  <2>1. i + 1 \in 0..n /\ i + 1 \in 0..m /\ i + 1 # 0 /\ (i + 1) - 1 = i
    OBVIOUS
  <2>2. p[i + 1] = IF i + 1 \in K THEN Append(p[i], s[i + 1]) ELSE p[i]
    BY <2>1 DEF IsScan
  <2>3. q[i + 1] = IF i + 1 \in J THEN Append(q[i], t[i + 1]) ELSE q[i]
    BY <2>1 DEF IsScan
  <2>4. s[i + 1] = t[i + 1] /\ (i + 1 \in K <=> i + 1 \in J)
    BY DEF Alike
  <2>5. p[i] = q[i] BY <1>2
  <2> QED BY <2>1, <2>2, <2>3, <2>4, <2>5
<1> HIDE DEF S
<1>3. \A i \in 0..n : i \in S
  BY <1>1, <1>2, LoopInduction
<1> QED BY <1>3 DEF S

(* Picked() is where its scan ends.                                         *)
LEMMA PickedIsScan ==
  ASSUME NEW s, NEW K, NEW n \in Nat, Len(s) = n, NEW p, IsScan(p, s, K, n)
  PROVE  Picked(s, K) = p[n]
<1>1. ASSUME NEW q, IsScan(q, s, K, n) PROVE q = p
  <2>0. Alike(s, K, s, K, n) /\ n <= n BY DEF Alike
  <2>1. \A i \in 0..n : q[i] = p[i]
    BY <1>1, <2>0, ScansAgree
  <2>2. q = [i \in 0..n |-> q[i]] BY <1>1 DEF IsScan
  <2>3. p = [i \in 0..n |-> p[i]] BY DEF IsScan
  <2> QED BY <2>1, <2>2, <2>3
<1>2. \A q : (q = [i \in 0..Len(s) |-> IF i = 0 THEN <<>>
                      ELSE IF i \in K THEN Append(q[i - 1], s[i]) ELSE q[i - 1]]) => q = p
  BY <1>1 DEF IsScan
<1>3. p = [i \in 0..Len(s) |-> IF i = 0 THEN <<>>
                      ELSE IF i \in K THEN Append(p[i - 1], s[i]) ELSE p[i - 1]]
  BY DEF IsScan
<1>4. (CHOOSE q : q = [i \in 0..Len(s) |-> IF i = 0 THEN <<>>
                      ELSE IF i \in K THEN Append(q[i - 1], s[i]) ELSE q[i - 1]]) = p
  BY <1>2, <1>3, Zenon
<1> QED BY <1>4, Zenon DEF Picked

(* What is picked depends only on the places looked at.                     *)
LEMMA PickedSame ==
  ASSUME NEW T, NEW s \in Seq(T), NEW K, NEW J,
         \A i \in DOMAIN s : i \in K <=> i \in J
  PROVE  Picked(s, K) = Picked(s, J)
<1> DEFINE n == Len(s)
<1>0. n \in Nat /\ DOMAIN s = 1..n OBVIOUS
<1> HIDE DEF n
<1>1. PICK p : IsScan(p, s, K, n) BY <1>0, ScanExists
<1>2. PICK q : IsScan(q, s, J, n) BY <1>0, ScanExists
<1>3. Alike(s, K, s, J, n)
  BY <1>0 DEF Alike
<1>4. n <= n BY <1>0
<1>5. \A i \in 0..n : p[i] = q[i] BY <1>0, <1>1, <1>2, <1>3, <1>4, ScansAgree
<1>6. Picked(s, K) = p[n] BY <1>0, <1>1, PickedIsScan DEF n
<1>7. Picked(s, J) = q[n] BY <1>0, <1>2, PickedIsScan DEF n
<1> QED BY <1>0, <1>5, <1>6, <1>7

(* What is picked, step by step: before anything is looked at, and with     *)
(* each element.                                                            *)
LEMMA PickedSteps ==
  ASSUME NEW T, NEW s \in Seq(T), NEW K
  PROVE  \E p : /\ p[0] = <<>>
                /\ \A i \in 1..Len(s) : p[i] = IF i \in K THEN Append(p[i - 1], s[i]) ELSE p[i - 1]
                /\ p[Len(s)] = Picked(s, K)
<1> DEFINE n == Len(s)
<1>0. n \in Nat OBVIOUS
<1>1. PICK p : IsScan(p, s, K, n)
  <2> HIDE DEF n
  <2> QED BY <1>0, ScanExists
<1>2. Picked(s, K) = p[n] BY <1>0, <1>1, PickedIsScan
<1>3. p[0] = <<>> BY <1>0, <1>1 DEF IsScan
<1>4. ASSUME NEW i \in 1..n
      PROVE  p[i] = IF i \in K THEN Append(p[i - 1], s[i]) ELSE p[i - 1]
  <2> HIDE DEF n
  <2>1. i \in 0..n /\ i # 0 BY <1>0
  <2> QED BY <1>1, <2>1 DEF IsScan
<1> QED BY <1>2, <1>3, <1>4

(* Everything picked was in the list at a picked place, and every such      *)
(* element is picked.                                                       *)
LEMMA PickedElements ==
  ASSUME NEW T, NEW s \in Seq(T), NEW K
  PROVE  /\ Picked(s, K) \in Seq(T)
         /\ \A k \in DOMAIN Picked(s, K) : \E i \in DOMAIN s : i \in K /\ Picked(s, K)[k] = s[i]
         /\ \A i \in DOMAIN s : i \in K => \E k \in DOMAIN Picked(s, K) : Picked(s, K)[k] = s[i]
<1> DEFINE n == Len(s)
<1>0. n \in Nat /\ DOMAIN s = 1..n OBVIOUS
<1>1. PICK p : /\ p[0] = <<>>
               /\ \A i \in 1..n : p[i] = IF i \in K THEN Append(p[i - 1], s[i]) ELSE p[i - 1]
               /\ p[n] = Picked(s, K)
  BY PickedSteps
<1> DEFINE G(m) == /\ p[m] \in Seq(T)
                   /\ \A k \in DOMAIN p[m] : \E i \in 1..n : i \in K /\ p[m][k] = s[i]
                   /\ \A i \in 1..m : i \in K => \E k \in DOMAIN p[m] : p[m][k] = s[i]
           S == {m \in 0..n : G(m)}
<1> HIDE DEF n
<1>2. 0 \in S
  <2>1. p[0] = <<>> /\ 0 \in 0..n BY <1>0, <1>1
  <2>2. DOMAIN p[0] = {} BY <2>1
  <2>3. p[0] \in Seq(T) BY <2>1
  <2>4. \A i \in 1..0 : FALSE OBVIOUS
  <2>5. G(0) BY <2>2, <2>3, <2>4
  <2> QED BY <2>1, <2>5
<1>3. ASSUME NEW m \in 0..(n - 1), m \in S PROVE m + 1 \in S
  <2>0. m + 1 \in 1..n /\ (m + 1) - 1 = m /\ m + 1 \in 0..n BY <1>0
  <2>1. p[m + 1] = IF m + 1 \in K THEN Append(p[m], s[m + 1]) ELSE p[m]
    BY <1>1, <2>0
  <2>2. G(m) BY <1>3
  <2>3. s[m + 1] \in T BY <1>0, <2>0
  <2>4. CASE m + 1 \notin K
    <3>1. p[m + 1] = p[m] BY <2>1, <2>4
    <3>2. \A i \in 1..(m + 1) : i \in K => i \in 1..m BY <2>0, <2>4
    <3>3. G(m + 1) BY <2>2, <3>1, <3>2
    <3> QED BY <2>0, <3>3
  <2>5. CASE m + 1 \in K
    <3> DEFINE a == p[m]
               b == p[m + 1]
    <3>1. b = Append(a, s[m + 1]) BY <2>1, <2>5
    <3>2. a \in Seq(T) BY <2>2
    <3>3. b \in Seq(T) /\ Len(b) = Len(a) + 1 /\ Len(a) \in Nat
          /\ DOMAIN b = 1..(Len(a) + 1) /\ DOMAIN a = 1..Len(a)
          /\ b[Len(a) + 1] = s[m + 1] /\ \A k \in 1..Len(a) : b[k] = a[k]
      <4> HIDE DEF a, b
      <4> QED BY <3>1, <3>2, <2>3
    <3>4. \A k \in DOMAIN a : \E i \in 1..n : i \in K /\ a[k] = s[i] BY <2>2
    <3>5. \A i \in 1..m : i \in K => \E k \in DOMAIN a : a[k] = s[i] BY <2>2
    <3> HIDE DEF a, b
    <3>6. \A k \in DOMAIN b : \E i \in 1..n : i \in K /\ b[k] = s[i]
      <4> TAKE k \in DOMAIN b
      <4>1. CASE k = Len(a) + 1 BY <2>0, <2>5, <3>3, <4>1
      <4>2. CASE k # Len(a) + 1
        <5>1. k \in DOMAIN a BY <3>3, <4>2
        <5> QED BY <3>3, <3>4, <5>1
      <4> QED BY <4>1, <4>2
    <3>7. \A i \in 1..(m + 1) : i \in K => \E k \in DOMAIN b : b[k] = s[i]
      <4> SUFFICES ASSUME NEW i \in 1..(m + 1), i \in K
                   PROVE  \E k \in DOMAIN b : b[k] = s[i]
        OBVIOUS
      <4>1. CASE i = m + 1
        <5>1. Len(a) + 1 \in DOMAIN b BY <3>3
        <5> QED BY <3>3, <4>1, <5>1
      <4>2. CASE i # m + 1
        <5>1. i \in 1..m BY <4>2
        <5>2. PICK k \in DOMAIN a : a[k] = s[i] BY <3>5, <5>1
        <5>3. k \in DOMAIN b /\ b[k] = a[k] BY <3>3
        <5> QED BY <5>2, <5>3
      <4> QED BY <4>1, <4>2
    <3>8. G(m + 1) BY <3>3, <3>6, <3>7 DEF b
    <3> QED BY <2>0, <3>8
  <2> QED BY <2>4, <2>5
<1> HIDE DEF S
<1>4. \A m \in 0..n : m \in S BY <1>0, <1>2, <1>3, LoopInduction
<1>5. G(n) BY <1>0, <1>4 DEF S
<1> QED BY <1>0, <1>1, <1>5

(* Nothing is picked from no place, and all from all of them.               *)
LEMMA PickedNone ==
  ASSUME NEW T, NEW s \in Seq(T), NEW K, \A i \in DOMAIN s : i \notin K
  PROVE  Picked(s, K) = <<>>
<1> DEFINE x == Picked(s, K)
<1>1. x \in Seq(T) /\ \A k \in DOMAIN x : \E i \in DOMAIN s : i \in K
  BY PickedElements
<1> HIDE DEF x
<1>2. DOMAIN x = 1..Len(x) /\ Len(x) \in Nat BY <1>1
<1>3. Len(x) = 0
  <2>1. Len(x) > 0 => 1 \in DOMAIN x BY <1>2
  <2> QED BY <1>1, <1>2, <2>1
<1>4. x = <<>> BY <1>1, <1>3
<1> QED BY <1>4 DEF x

(* Of the places from n + 1 to m, c is the one that is picked.              *)
OnlyPick(c, n, m, J) == \A i \in (n + 1)..m : i \in J <=> i = c

(* When a list gets longer and one of the new places is picked, that        *)
(* element is added to what was picked before.                              *)
LEMMA PickedMore ==
  ASSUME NEW T, NEW s \in Seq(T), NEW t \in Seq(T), NEW K, NEW J, NEW c,
         Len(s) < c, c <= Len(t), c \in Int,
         Alike(s, K, t, J, Len(s)),
         OnlyPick(c, Len(s), Len(t), J)
  PROVE  Picked(t, J) = Append(Picked(s, K), t[c])
<1> DEFINE n == Len(s)
           m == Len(t)
<1>0. n \in Nat /\ m \in Nat /\ n < c /\ c <= m /\ c \in Int OBVIOUS
<1>h. /\ Alike(s, K, t, J, n)
      /\ \A i \in (n + 1)..m : i \in J <=> i = c
  BY DEF OnlyPick
<1>a. Len(s) = n /\ Len(t) = m OBVIOUS
<1> HIDE DEF n, m
<1>1. PICK p : IsScan(p, s, K, n) BY <1>0, ScanExists
<1>2. PICK q : IsScan(q, t, J, m) BY <1>0, ScanExists
<1>3. Picked(s, K) = p[n] BY <1>0, <1>1, <1>a, PickedIsScan
<1>4. Picked(t, J) = q[m] BY <1>0, <1>2, <1>a, PickedIsScan
<1>5. n <= m BY <1>0
<1>6. \A i \in 0..n : p[i] = q[i] BY <1>0, <1>1, <1>2, <1>5, <1>h, ScansAgree
<1>7. q[n] = p[n] BY <1>0, <1>6
<1>8. ASSUME NEW i \in 1..m
      PROVE  q[i] = IF i \in J THEN Append(q[i - 1], t[i]) ELSE q[i - 1]
  <2>1. i \in 0..m /\ i # 0 BY <1>0
  <2> QED BY <1>2, <2>1 DEF IsScan
<1> DEFINE x == p[n]
           y == Append(p[n], t[c])
           S == {i \in 0..m : i >= n => q[i] = IF i < c THEN x ELSE y}
<1>9. q[n] = x BY <1>7
<1>b. 0 \in S
  <2>1. 0 >= n => n = 0 BY <1>0
  <2>2. 0 < c BY <1>0
  <2> HIDE DEF x, y
  <2> QED BY <1>0, <1>9, <2>1, <2>2
<1>c. ASSUME NEW i \in 0..(m - 1), i \in S PROVE i + 1 \in S
  <2>0. i + 1 \in 1..m /\ (i + 1) - 1 = i /\ i + 1 \in 0..m BY <1>0
  <2>1. q[i + 1] = IF i + 1 \in J THEN Append(q[i], t[i + 1]) ELSE q[i] BY <1>8, <2>0
  <2>x. y = Append(x, t[c]) OBVIOUS
  <2> HIDE DEF x, y
  <2>2. CASE i + 1 < n
    <3>1. ~(i + 1 >= n) BY <1>0, <2>2
    <3> QED BY <2>0, <3>1
  <2>3. CASE i + 1 = n
    <3>1. i + 1 < c BY <1>0, <2>3
    <3> QED BY <1>9, <2>0, <2>3, <3>1
  <2>4. CASE i >= n
    <3>1. q[i] = IF i < c THEN x ELSE y BY <1>c, <2>4
    <3>2. i + 1 \in J <=> i + 1 = c BY <1>0, <1>h, <2>0, <2>4
    <3>3. CASE i + 1 = c
      <4>1. q[i + 1] = Append(x, t[c]) BY <1>0, <2>1, <3>1, <3>2, <3>3
      <4>2. q[i + 1] = y BY <2>x, <4>1
      <4>3. ~(i + 1 < c) BY <1>0, <3>3
      <4> QED BY <2>0, <4>2, <4>3
    <3>4. CASE i + 1 # c
      <4>1. q[i + 1] = q[i] BY <2>1, <3>2, <3>4
      <4>2. i < c <=> i + 1 < c BY <1>0, <3>4
      <4>3. q[i + 1] = IF i + 1 < c THEN x ELSE y BY <3>1, <4>1, <4>2
      <4> QED BY <2>0, <4>3
    <3> QED BY <3>3, <3>4
  <2> QED BY <1>0, <2>2, <2>3, <2>4
<1> HIDE DEF S, x, y
<1>d. \A i \in 0..m : i \in S BY <1>0, <1>b, <1>c, LoopInduction
<1>e. m \in S BY <1>0, <1>d
<1>f. q[m] = y BY <1>0, <1>e DEF S
<1> QED BY <1>3, <1>4, <1>f DEF y

(* When none of the new places is picked, nothing is added.                 *)
LEMMA PickedAsBefore ==
  ASSUME NEW T, NEW s \in Seq(T), NEW t \in Seq(T), NEW K, NEW J,
         Len(s) <= Len(t),
         Alike(s, K, t, J, Len(s)),
         \A i \in (Len(s) + 1)..Len(t) : i \notin J
  PROVE  Picked(t, J) = Picked(s, K)
<1> DEFINE n == Len(s)
           m == Len(t)
<1>0. n \in Nat /\ m \in Nat /\ n <= m OBVIOUS
<1>h. /\ Alike(s, K, t, J, n)
      /\ \A i \in (n + 1)..m : i \notin J
  OBVIOUS
<1>a. Len(s) = n /\ Len(t) = m OBVIOUS
<1> HIDE DEF n, m
<1>1. PICK p : IsScan(p, s, K, n) BY <1>0, ScanExists
<1>2. PICK q : IsScan(q, t, J, m) BY <1>0, ScanExists
<1>3. Picked(s, K) = p[n] BY <1>0, <1>1, <1>a, PickedIsScan
<1>4. Picked(t, J) = q[m] BY <1>0, <1>2, <1>a, PickedIsScan
<1>6. \A i \in 0..n : p[i] = q[i] BY <1>0, <1>1, <1>2, <1>h, ScansAgree
<1>7. q[n] = p[n] BY <1>0, <1>6
<1>8. ASSUME NEW i \in 1..m, i \notin J
      PROVE  q[i] = q[i - 1]
  <2>1. i \in 0..m /\ i # 0 BY <1>0
  <2> QED BY <1>2, <1>8, <2>1 DEF IsScan
<1> DEFINE S == {i \in 0..m : i >= n => q[i] = q[n]}
<1>b. 0 \in S
  <2>1. 0 >= n => n = 0 BY <1>0
  <2> QED BY <1>0, <2>1
<1>c. ASSUME NEW i \in 0..(m - 1), i \in S PROVE i + 1 \in S
  <2>0. i + 1 \in 1..m /\ (i + 1) - 1 = i /\ i + 1 \in 0..m BY <1>0
  <2>2. CASE i + 1 < n
    <3>1. ~(i + 1 >= n) BY <1>0, <2>2
    <3> QED BY <2>0, <3>1
  <2>3. CASE i + 1 = n BY <2>0, <2>3
  <2>4. CASE i >= n
    <3>1. q[i] = q[n] BY <1>c, <2>4
    <3>2. i + 1 \notin J BY <1>0, <1>h, <2>0, <2>4
    <3>3. q[i + 1] = q[i] BY <1>8, <2>0, <3>2
    <3> QED BY <2>0, <3>1, <3>3
  <2> QED BY <1>0, <2>2, <2>3, <2>4
<1> HIDE DEF S
<1>d. \A i \in 0..m : i \in S BY <1>0, <1>b, <1>c, LoopInduction
<1>e. m \in S BY <1>0, <1>d
<1>f. q[m] = q[n] BY <1>0, <1>e DEF S
<1> QED BY <1>3, <1>4, <1>7, <1>f

-----------------------------------------------------------------------------
(* Durable(l, a): the log l has what a says was acknowledged                *)

Entry == [txn : Nat, ckpt : BOOLEAN, part : Nat, of : Nat]
Before(l, n) == \A i \in DOMAIN l : l[i].txn < n

Base(l) == IF l # <<>> /\ l[1].ckpt THEN l[1].txn ELSE 0
Since(a, b) == {i \in DOMAIN a : a[i].txn >= b}
Among(l, o) == {i \in DOMAIN l : \E k \in DOMAIN o : o[k] = l[i]}

(* The definition, in the terms the lemmas use.                             *)
LEMMA DurableIs ==
  ASSUME NEW l, NEW a
  PROVE  /\ Owed(l, a) = Picked(a, Since(a, Base(l)))
         /\ Durable(l, a) <=> Picked(l, Among(l, Owed(l, a))) = Owed(l, a)
<1> HIDE DEF Picked
<1>1. Owed(l, a) = Picked(a, Since(a, Base(l))) BY DEF Owed, Since, Base
<1>2. Durable(l, a) <=> Picked(l, Among(l, Owed(l, a))) = Owed(l, a)
  BY DEF Durable, Among
<1> QED BY <1>1, <1>2

(* A log of exactly the acknowledged transactions is durable: what a crash  *)
(* after a lost superblock starts from.                                     *)
LEMMA DurableSelf ==
  ASSUME NEW l \in Seq(Entry)
  PROVE  Durable(l, l)
<1> DEFINE b == Base(l)
           O == Picked(l, Since(l, b))
<1>1. /\ O \in Seq(Entry)
      /\ \A k \in DOMAIN O : \E i \in DOMAIN l : i \in Since(l, b) /\ O[k] = l[i]
      /\ \A i \in DOMAIN l : i \in Since(l, b) => \E k \in DOMAIN O : O[k] = l[i]
  <2> DEFINE K == Since(l, b)
  <2>1. /\ Picked(l, K) \in Seq(Entry)
        /\ \A k \in DOMAIN Picked(l, K) : \E i \in DOMAIN l : i \in K /\ Picked(l, K)[k] = l[i]
        /\ \A i \in DOMAIN l : i \in K => \E k \in DOMAIN Picked(l, K) : Picked(l, K)[k] = l[i]
    <3> HIDE DEF K
    <3> QED BY PickedElements
  <2> QED BY <2>1
<1>2. ASSUME NEW i \in DOMAIN l PROVE i \in Since(l, b) <=> i \in Among(l, O)
  <2> HIDE DEF b, O
  <2>1. i \in Since(l, b) => i \in Among(l, O) BY <1>1 DEF Among
  <2>2. ASSUME i \in Among(l, O) PROVE i \in Since(l, b)
    <3>1. PICK k \in DOMAIN O : O[k] = l[i] BY <2>2 DEF Among
    <3>2. PICK j \in DOMAIN l : j \in Since(l, b) /\ O[k] = l[j] BY <1>1
    <3>3. l[j].txn >= b BY <3>2 DEF Since
    <3>4. l[i].txn >= b BY <3>1, <3>2, <3>3
    <3> QED BY <3>4 DEF Since
  <2> QED BY <2>1, <2>2
<1>3. Picked(l, Since(l, b)) = Picked(l, Among(l, O))
  <2> HIDE DEF b, O
  <2> QED BY <1>2, PickedSame
<1>4. Owed(l, l) = O BY DurableIs
<1> HIDE DEF O, b
<1>5. Picked(l, Among(l, O)) = O BY <1>3 DEF O
<1> QED BY <1>4, <1>5, DurableIs

(* Appending an element, as a fact about places.                            *)
LEMMA Appended ==
  ASSUME NEW l \in Seq(Entry), NEW t \in Entry
  PROVE  /\ Append(l, t) \in Seq(Entry)
         /\ Len(l) \in Nat /\ Len(Append(l, t)) = Len(l) + 1
         /\ DOMAIN l = 1..Len(l) /\ DOMAIN Append(l, t) = 1..(Len(l) + 1)
         /\ \A i \in 1..Len(l) : Append(l, t)[i] = l[i]
         /\ Append(l, t)[Len(l) + 1] = t
OBVIOUS

(* A later transaction that is no checkpoint does not change from where on  *)
(* transactions are owed.                                                   *)
LEMMA BaseKept ==
  ASSUME NEW l \in Seq(Entry), NEW t \in Entry, ~t.ckpt
  PROVE  Base(Append(l, t)) = Base(l)
<1>1. Len(l) \in Nat OBVIOUS
<1>2. CASE l = <<>>
  <2>1. Append(l, t)[1] = t BY <1>2
  <2> QED BY <1>2, <2>1 DEF Base
<1>3. CASE l # <<>>
  <2>1. Len(l) > 0 /\ 1 \in 1..Len(l) BY <1>3
  <2>2. Append(l, t)[1] = l[1] /\ Append(l, t) # <<>> BY <2>1, Appended
  <2> QED BY <1>3, <2>2 DEF Base
<1> QED BY <1>2, <1>3

(* Nothing is owed from later than the log's newest transaction.            *)
LEMMA BaseBound ==
  ASSUME NEW l \in Seq(Entry), NEW n \in Nat, Before(l, n)
  PROVE  Base(l) \in Nat /\ Base(l) <= n
<1>1. CASE l # <<>> /\ l[1].ckpt
  <2>1. 1 \in DOMAIN l BY <1>1
  <2>2. l[1] \in Entry BY <2>1
  <2>3. l[1].txn \in Nat BY <2>2 DEF Entry
  <2>4. l[1].txn < n BY <2>1 DEF Before
  <2> QED BY <1>1, <2>3, <2>4 DEF Base
<1>2. CASE ~(l # <<>> /\ l[1].ckpt) BY <1>2 DEF Base
<1> QED BY <1>1, <1>2

(* A transaction that is in the log and not yet acknowledged (its           *)
(* superblock write is under way, or was cut by a crash) takes nothing away. *)
LEMMA DurableUnacked ==
  ASSUME NEW l \in Seq(Entry), NEW a \in Seq(Entry), NEW t \in Entry, ~t.ckpt,
         Before(a, t.txn), Durable(l, a)
  PROVE  Durable(Append(l, t), a)
<1> DEFINE m == Append(l, t)
           b == Base(l)
           O == Picked(a, Since(a, b))
<1>1. Base(m) = b BY BaseKept
<1>2. Owed(l, a) = O /\ Owed(m, a) = O BY <1>1, DurableIs
<1>3. Picked(l, Among(l, O)) = O BY <1>2, DurableIs
<1>4. \A k \in DOMAIN O : \E i \in DOMAIN a : O[k] = a[i]
  <2> DEFINE K == Since(a, b)
  <2>1. \A k \in DOMAIN Picked(a, K) : \E i \in DOMAIN a : i \in K /\ Picked(a, K)[k] = a[i]
    <3> HIDE DEF K
    <3> QED BY PickedElements
  <2> QED BY <2>1
<1> HIDE DEF O, b
<1>5. \A k \in DOMAIN O : O[k] # t
  <2> SUFFICES ASSUME NEW k \in DOMAIN O, O[k] = t PROVE FALSE OBVIOUS
  <2>1. PICK i \in DOMAIN a : O[k] = a[i] BY <1>4
  <2>2. a[i].txn < t.txn BY DEF Before
  <2>3. t.txn \in Nat BY DEF Entry
  <2> QED BY <2>1, <2>2, <2>3
<1>6. /\ m \in Seq(Entry) /\ Len(l) \in Nat /\ Len(m) = Len(l) + 1
      /\ DOMAIN l = 1..Len(l) /\ DOMAIN m = 1..(Len(l) + 1)
      /\ \A i \in 1..Len(l) : m[i] = l[i]
      /\ m[Len(l) + 1] = t
  BY Appended
<1> HIDE DEF m
<1>7. Alike(l, Among(l, O), m, Among(m, O), Len(l))
  BY <1>6 DEF Alike, Among
<1>8. \A i \in (Len(l) + 1)..Len(m) : i \notin Among(m, O)
  <2>1. \A i \in (Len(l) + 1)..Len(m) : i = Len(l) + 1 BY <1>6
  <2>2. Len(l) + 1 \notin Among(m, O) BY <1>5, <1>6 DEF Among
  <2> QED BY <2>1, <2>2
<1>9. Len(l) <= Len(m) BY <1>6
<1>10. Picked(m, Among(m, O)) = Picked(l, Among(l, O))
  <2> DEFINE K == Among(l, O)
             J == Among(m, O)
  <2>1. Alike(l, K, m, J, Len(l)) /\ \A i \in (Len(l) + 1)..Len(m) : i \notin J BY <1>7, <1>8
  <2> HIDE DEF K, J
  <2>2. Picked(m, J) = Picked(l, K) BY <1>6, <1>9, <2>1, PickedAsBefore
  <2> QED BY <2>2 DEF K, J
<1>11. Durable(m, a) BY <1>2, <1>3, <1>10, DurableIs
<1> QED BY <1>11 DEF m

(* A transaction in the log is acknowledged: commit_txn() returns.          *)
LEMMA DurableAppend ==
  ASSUME NEW l \in Seq(Entry), NEW a \in Seq(Entry), NEW t \in Entry, ~t.ckpt,
         Before(l, t.txn), Before(a, t.txn), Durable(l, a)
  PROVE  Durable(Append(l, t), Append(a, t))
<1> DEFINE m == Append(l, t)
           e == Append(a, t)
           b == Base(l)
           O == Picked(a, Since(a, b))
           P == Picked(e, Since(e, b))
<1>0. t.txn \in Nat BY DEF Entry
<1>1. Base(m) = b BY BaseKept
<1>2. Owed(l, a) = O /\ Owed(m, e) = P BY <1>1, DurableIs
<1>3. Picked(l, Among(l, O)) = O BY <1>2, DurableIs
<1>b. b \in Nat /\ b <= t.txn BY <1>0, BaseBound
<1>4. O \in Seq(Entry)
  <2> DEFINE K == Since(a, b)
  <2>1. Picked(a, K) \in Seq(Entry)
    <3> HIDE DEF K
    <3> QED BY PickedElements
  <2> QED BY <2>1
<1>5. /\ m \in Seq(Entry) /\ Len(l) \in Nat /\ Len(m) = Len(l) + 1
      /\ DOMAIN l = 1..Len(l) /\ DOMAIN m = 1..(Len(l) + 1)
      /\ \A i \in 1..Len(l) : m[i] = l[i]
      /\ m[Len(l) + 1] = t
  BY Appended
<1>6. /\ e \in Seq(Entry) /\ Len(a) \in Nat /\ Len(e) = Len(a) + 1
      /\ DOMAIN a = 1..Len(a) /\ DOMAIN e = 1..(Len(a) + 1)
      /\ \A i \in 1..Len(a) : e[i] = a[i]
      /\ e[Len(a) + 1] = t
  BY Appended
<1> HIDE DEF m, e, b
<1>7. P = Append(O, t)
  <2> DEFINE K == Since(a, b)
             J == Since(e, b)
             c == Len(a) + 1
  <2>1. Alike(a, K, e, J, Len(a)) BY <1>6 DEF Alike, Since
  <2>2. \A i \in (Len(a) + 1)..Len(e) : i = c BY <1>6
  <2>3. c \in J BY <1>0, <1>b, <1>6 DEF Since
  <2>4. OnlyPick(c, Len(a), Len(e), J) BY <2>2, <2>3 DEF OnlyPick
  <2>5. Len(a) < c /\ c <= Len(e) /\ c \in Int BY <1>6
  <2>6. e[c] = t BY <1>6
  <2> HIDE DEF K, J, c
  <2>7. Picked(e, J) = Append(Picked(a, K), e[c]) BY <1>6, <2>1, <2>4, <2>5, PickedMore
  <2> QED BY <2>6, <2>7 DEF K, J
<1> HIDE DEF O, P
<1>8. /\ Len(O) \in Nat /\ DOMAIN O = 1..Len(O) /\ DOMAIN P = 1..(Len(O) + 1)
      /\ \A k \in 1..Len(O) : P[k] = O[k]
      /\ P[Len(O) + 1] = t
  BY <1>4, <1>7
<1>9. Picked(m, Among(m, P)) = Append(Picked(l, Among(l, O)), t)
  <2> DEFINE K == Among(l, O)
             J == Among(m, P)
             c == Len(l) + 1
  <2>1. ASSUME NEW i \in 1..Len(l) PROVE l[i] = m[i] /\ (i \in K <=> i \in J)
    <3>1. l[i] = m[i] /\ i \in DOMAIN l /\ i \in DOMAIN m BY <1>5
    <3>2. l[i] # t BY <1>0, <3>1 DEF Before
    <3>3. i \in K => i \in J BY <1>8, <3>1 DEF Among
    <3>4. ASSUME i \in J PROVE i \in K
      <4>1. PICK k \in DOMAIN P : P[k] = l[i] BY <3>1, <3>4 DEF Among
      <4>2. k # Len(O) + 1 BY <1>8, <3>2, <4>1
      <4>3. k \in 1..Len(O) BY <1>8, <4>2
      <4>4. O[k] = l[i] BY <1>8, <4>1, <4>3
      <4> QED BY <1>8, <3>1, <4>3, <4>4 DEF Among
    <3> QED BY <3>1, <3>3, <3>4
  <2>2. Alike(l, K, m, J, Len(l)) BY <2>1 DEF Alike
  <2>3. \A i \in (Len(l) + 1)..Len(m) : i = c BY <1>5
  <2>4. c \in J
    <3>1. Len(O) + 1 \in DOMAIN P BY <1>8
    <3>2. P[Len(O) + 1] = m[c] BY <1>5, <1>8
    <3>3. c \in DOMAIN m BY <1>5
    <3> QED BY <3>1, <3>2, <3>3 DEF Among
  <2>5. OnlyPick(c, Len(l), Len(m), J) BY <2>3, <2>4 DEF OnlyPick
  <2>6. Len(l) < c /\ c <= Len(m) /\ c \in Int BY <1>5
  <2>7. m[c] = t BY <1>5
  <2> HIDE DEF K, J, c
  <2>8. Picked(m, J) = Append(Picked(l, K), m[c]) BY <1>5, <2>2, <2>5, <2>6, PickedMore
  <2> QED BY <2>7, <2>8 DEF K, J
<1>10. Durable(m, e) BY <1>2, <1>3, <1>7, <1>9, DurableIs
<1> QED BY <1>10 DEF m, e

(* A checkpoint that is on disk owes nothing of what it replaces.           *)
LEMMA DurableCheckpoint ==
  ASSUME NEW a \in Seq(Entry), NEW t \in Entry, t.ckpt, Before(a, t.txn)
  PROVE  Durable(<<t>>, a)
<1> DEFINE l == <<t>>
           K == Since(a, t.txn)
<1>0. t.txn \in Nat BY DEF Entry
<1>1. Base(l) = t.txn BY DEF Base
<1>2. \A i \in DOMAIN a : i \notin K
  <2> SUFFICES ASSUME NEW i \in DOMAIN a, i \in K PROVE FALSE OBVIOUS
  <2>1. a[i].txn < t.txn BY DEF Before
  <2>2. a[i].txn >= t.txn BY DEF Since
  <2>3. a[i] \in Entry OBVIOUS
  <2>4. a[i].txn \in Nat BY <2>3 DEF Entry
  <2> QED BY <1>0, <2>1, <2>2, <2>4
<1>3. Picked(a, K) = <<>>
  <2> HIDE DEF K
  <2> QED BY <1>2, PickedNone
<1>4. Owed(l, a) = <<>> BY <1>1, <1>3, DurableIs
<1>5. Picked(l, Among(l, <<>>)) = <<>>
  <2>1. \A i \in DOMAIN l : i \notin Among(l, <<>>) BY DEF Among
  <2>2. l \in Seq(Entry) OBVIOUS
  <2> DEFINE J == Among(l, <<>>)
  <2> HIDE DEF l, J
  <2>3. Picked(l, J) = <<>> BY <2>1, <2>2, PickedNone DEF J
  <2> QED BY <2>3 DEF J
<1> QED BY <1>4, <1>5, DurableIs

-----------------------------------------------------------------------------
(* Offsets in the ring                                                      *)

(* What reducing by data_size does to sums and differences of two offsets.  *)
LEMMA Reduce ==
  ASSUME NEW x \in Int, -N <= x, x < 2 * N
  PROVE  x % N = IF x < 0 THEN x + N ELSE IF x < N THEN x ELSE x - N
<1>0. N \in Int /\ N > 0 BY JournalAssumption
<1> QED BY <1>0

(* The block x blocks after c, and the distance from c to h.                *)
After(c, x) == (c + x) % N
Dist(c, h) == (h - c) % N

(* Blocks of the ring without the modulo.                                   *)
LEMMA RingFacts ==
  ASSUME NEW c \in Block
  PROVE  /\ \A x \in 0..(N - 1) : /\ After(c, x) \in Block
                                  /\ After(c, x) = IF c + x < N THEN c + x ELSE (c + x) - N
         /\ \A h \in Block : /\ Dist(c, h) \in 0..(N - 1)
                             /\ Dist(c, h) = IF h < c THEN (h - c) + N ELSE h - c
<1>0. N \in Int /\ N > 0 BY JournalAssumption
<1>1. c \in Int /\ 0 <= c /\ c < N BY <1>0 DEF Block
<1>2. ASSUME NEW x \in 0..(N - 1)
      PROVE  After(c, x) = IF c + x < N THEN c + x ELSE (c + x) - N
  <2>1. c + x \in Int /\ -N <= c + x /\ c + x < 2 * N /\ ~(c + x < 0) BY <1>0, <1>1
  <2>2. (c + x) % N = IF c + x < 0 THEN (c + x) + N ELSE IF c + x < N THEN c + x ELSE (c + x) - N
    BY <2>1, Reduce
  <2> QED BY <2>1, <2>2 DEF After
<1>3. ASSUME NEW h \in Block
      PROVE  Dist(c, h) = IF h < c THEN (h - c) + N ELSE h - c
  <2>0. h \in Int /\ 0 <= h /\ h < N BY <1>0 DEF Block
  <2>1. h - c \in Int /\ -N <= h - c /\ h - c < 2 * N /\ h - c < N BY <1>0, <1>1, <2>0
  <2>2. (h - c) % N = IF h - c < 0 THEN (h - c) + N ELSE IF h - c < N THEN h - c ELSE (h - c) - N
    BY <2>1, Reduce
  <2>3. h - c < 0 <=> h < c BY <1>1, <2>0
  <2> QED BY <2>1, <2>2, <2>3 DEF Dist
<1>4. ASSUME NEW x \in 0..(N - 1) PROVE After(c, x) \in Block
  BY <1>0, <1>1, <1>2 DEF Block
<1>5. ASSUME NEW h \in Block PROVE Dist(c, h) \in 0..(N - 1)
  <2>0. h \in Int /\ 0 <= h /\ h < N BY <1>0 DEF Block
  <2> QED BY <1>0, <1>1, <1>3, <2>0
<1> QED BY <1>2, <1>3, <1>4, <1>5

(* Different distances lead to different blocks.                            *)
LEMMA AfterApart ==
  ASSUME NEW c \in Block, NEW x \in 0..(N - 1), NEW y \in 0..(N - 1),
         After(c, x) = After(c, y)
  PROVE  x = y
<1>0. N \in Int /\ N > 0 BY JournalAssumption
<1>1. c \in Int /\ 0 <= c /\ c < N BY <1>0 DEF Block
<1>2. After(c, x) = IF c + x < N THEN c + x ELSE (c + x) - N BY RingFacts
<1>3. After(c, y) = IF c + y < N THEN c + y ELSE (c + y) - N BY RingFacts
<1>4. CASE c + x < N /\ c + y < N
  <2>1. After(c, x) = c + x BY <1>2, <1>4
  <2>2. After(c, y) = c + y BY <1>3, <1>4
  <2>3. c + x = c + y BY <2>1, <2>2
  <2> QED BY <1>0, <1>1, <1>4, <2>3
<1>5. CASE ~(c + x < N) /\ ~(c + y < N)
  <2>1. After(c, x) = (c + x) - N BY <1>2, <1>5
  <2>2. After(c, y) = (c + y) - N BY <1>3, <1>5
  <2>3. (c + x) - N = (c + y) - N BY <2>1, <2>2
  <2> QED BY <1>0, <1>1, <1>5, <2>3
<1>6. CASE ~(c + x < N) /\ c + y < N
  <2>1. After(c, x) = (c + x) - N BY <1>2, <1>6
  <2>2. After(c, y) = c + y BY <1>3, <1>6
  <2>3. (c + x) - N = c + y BY <2>1, <2>2
  <2> QED BY <1>0, <1>1, <1>6, <2>3
<1>7. CASE c + x < N /\ ~(c + y < N)
  <2>1. After(c, x) = c + x BY <1>2, <1>7
  <2>2. After(c, y) = (c + y) - N BY <1>3, <1>7
  <2>3. c + x = (c + y) - N BY <2>1, <2>2
  <2> QED BY <1>0, <1>1, <1>7, <2>3
<1> QED BY <1>4, <1>5, <1>6, <1>7

(* Distances add up.                                                        *)
LEMMA AfterAfter ==
  ASSUME NEW c \in Block, NEW h \in Block, NEW x \in Nat, Dist(c, h) + x < N
  PROVE  After(h, x) = After(c, Dist(c, h) + x)
<1>0. N \in Int /\ N > 0 BY JournalAssumption
<1>1. c \in Int /\ 0 <= c /\ c < N /\ h \in Int /\ 0 <= h /\ h < N BY <1>0 DEF Block
<1>2. Dist(c, h) \in 0..(N - 1) /\ Dist(c, h) = IF h < c THEN (h - c) + N ELSE h - c BY RingFacts
<1>3. x \in 0..(N - 1) /\ Dist(c, h) + x \in 0..(N - 1) BY <1>0, <1>2
<1>4. After(h, x) = IF h + x < N THEN h + x ELSE (h + x) - N BY <1>3, RingFacts
<1>5. ASSUME NEW y \in 0..(N - 1)
      PROVE After(c, y) = IF c + y < N THEN c + y ELSE (c + y) - N BY RingFacts
<1>6. After(c, Dist(c, h) + x) = IF c + (Dist(c, h) + x) < N THEN c + (Dist(c, h) + x)
                                 ELSE (c + (Dist(c, h) + x)) - N
  BY <1>3, <1>5
<1>7. CASE h < c BY <1>0, <1>1, <1>2, <1>3, <1>4, <1>6, <1>7
<1>8. CASE ~(h < c) BY <1>0, <1>1, <1>2, <1>3, <1>4, <1>6, <1>8
<1> QED BY <1>7, <1>8

-----------------------------------------------------------------------------
(* recover(): what it depends on, and what a new transaction adds to it     *)

Offsets == [ckpt : Block, head : Block]
DiskType == [Block -> Entry \cup {Zero}]

(* recover() reads the blocks from the checkpoint to the head, in that order. *)
LEMMA ScannedFacts ==
  ASSUME NEW dsk \in DiskType, NEW d \in Offsets
  PROVE  /\ Scanned(dsk, d) \in Seq(Entry \cup {Zero})
         /\ Len(Scanned(dsk, d)) = Dist(d.ckpt, d.head)
         /\ Dist(d.ckpt, d.head) \in 0..(N - 1)
         /\ DOMAIN Scanned(dsk, d) = 1..Dist(d.ckpt, d.head)
         /\ \A i \in 1..Dist(d.ckpt, d.head) : Scanned(dsk, d)[i] = dsk[After(d.ckpt, i - 1)]
<1>0. N \in Int /\ N > 0 BY JournalAssumption
<1>1. d.ckpt \in Block /\ d.head \in Block BY DEF Offsets
<1>2. Dist(d.ckpt, d.head) \in 0..(N - 1) BY <1>1, RingFacts
<1> DEFINE n == Dist(d.ckpt, d.head)
           v(i) == dsk[After(d.ckpt, i - 1)]
<1>3. Scanned(dsk, d) = [i \in 1..n |-> v(i)] BY DEF Scanned, ScanLen, Dist, After
<1>4. ASSUME NEW i \in 1..n PROVE v(i) \in Entry \cup {Zero}
  <2> HIDE DEF n
  <2>1. i - 1 \in 0..(N - 1) BY <1>0, <1>2 DEF n
  <2>2. After(d.ckpt, i - 1) \in Block BY <1>1, <2>1, RingFacts
  <2> QED BY <2>2 DEF DiskType
<1>5. n \in Nat BY <1>0, <1>2
<1> HIDE DEF n, v
<1>6. [i \in 1..n |-> v(i)] \in Seq(Entry \cup {Zero}) BY <1>4, <1>5
<1>7. Len([i \in 1..n |-> v(i)]) = n BY <1>5
<1> QED BY <1>2, <1>3, <1>6, <1>7 DEF n, v

(* recover() returns first blocks of transactions, as they are on the disk.  *)
LEMMA RecoverElements ==
  ASSUME NEW dsk \in DiskType, NEW d \in Offsets
  PROVE  /\ recover(dsk, d) \in Seq(Entry)
         /\ \A k \in DOMAIN recover(dsk, d) :
              \E b \in Block : dsk[b] # Zero /\ recover(dsk, d)[k] = dsk[b]
<1> DEFINE s == Scanned(dsk, d)
           K == Whole(s)
           r == Picked(s, K)
<1>0. N \in Int /\ N > 0 BY JournalAssumption
<1>1. s \in Seq(Entry \cup {Zero}) BY ScannedFacts
<1>2. ASSUME NEW i \in DOMAIN s, i \in K PROVE s[i] # Zero /\ \E b \in Block : s[i] = dsk[b]
  <2>1. s[i] # Zero BY <1>2 DEF Whole, WholeAt
  <2>2. Dist(d.ckpt, d.head) \in 0..(N - 1) /\ i \in 1..Dist(d.ckpt, d.head)
        /\ s[i] = dsk[After(d.ckpt, i - 1)]
    BY ScannedFacts
  <2>3. i - 1 \in 0..(N - 1) /\ d.ckpt \in Block BY <1>0, <2>2 DEF Offsets
  <2>4. After(d.ckpt, i - 1) \in Block BY <2>3, RingFacts
  <2> QED BY <2>1, <2>2, <2>4
<1> HIDE DEF s, K
<1>3. /\ r \in Seq(Entry \cup {Zero})
      /\ \A k \in DOMAIN r : \E i \in DOMAIN s : i \in K /\ r[k] = s[i]
  BY <1>1, PickedElements
<1> HIDE DEF r
<1>4. ASSUME NEW k \in DOMAIN r PROVE r[k] # Zero /\ \E b \in Block : dsk[b] # Zero /\ r[k] = dsk[b]
  <2>1. PICK i \in DOMAIN s : i \in K /\ r[k] = s[i] BY <1>3
  <2>2. PICK b \in Block : s[i] = dsk[b] BY <1>2, <2>1
  <2>3. s[i] # Zero BY <1>2, <2>1
  <2> QED BY <2>1, <2>2, <2>3
<1>5. r \in Seq(Entry)
  <2>1. DOMAIN r = 1..Len(r) /\ Len(r) \in Nat BY <1>3
  <2>2. \A k \in 1..Len(r) : r[k] \in Entry BY <1>3, <1>4, <2>1
  <2>3. r = [k \in 1..Len(r) |-> r[k]] BY <1>3
  <2> QED BY <2>1, <2>2, <2>3
<1>6. recover(dsk, d) = r BY DEF recover, r, K, s
<1> QED BY <1>4, <1>5, <1>6

(* recover() depends on the scanned blocks only: a write elsewhere in the    *)
(* ring, torn or not, does not change its result.                           *)
LEMMA RecoverFrame ==
  ASSUME NEW dsk \in DiskType, NEW e \in DiskType, NEW d \in Offsets,
         \A x \in 0..(N - 1) : x < Dist(d.ckpt, d.head)
            => dsk[After(d.ckpt, x)] = e[After(d.ckpt, x)]
  PROVE  recover(e, d) = recover(dsk, d)
<1> DEFINE n == Dist(d.ckpt, d.head)
<1>0. N \in Int /\ N > 0 BY JournalAssumption
<1>1. n \in 0..(N - 1) BY ScannedFacts
<1>2. ASSUME NEW i \in 1..n PROVE dsk[After(d.ckpt, i - 1)] = e[After(d.ckpt, i - 1)]
  <2> HIDE DEF n
  <2>1. i - 1 \in 0..(N - 1) /\ i - 1 < n BY <1>0, <1>1
  <2> QED BY <2>1 DEF n
<1>3. Scanned(dsk, d) = [i \in 1..n |-> dsk[After(d.ckpt, i - 1)]]
  BY DEF Scanned, ScanLen, Dist, After
<1>4. Scanned(e, d) = [i \in 1..n |-> e[After(d.ckpt, i - 1)]]
  BY DEF Scanned, ScanLen, Dist, After
<1>5. Scanned(e, d) = Scanned(dsk, d) BY <1>2, <1>3, <1>4
<1> QED BY <1>5 DEF recover

(* An empty journal.                                                        *)
LEMMA RecoverEmpty ==
  ASSUME NEW dsk \in DiskType, NEW d \in Offsets, d.head = d.ckpt
  PROVE  recover(dsk, d) = <<>>
<1> DEFINE s == Scanned(dsk, d)
           K == Whole(s)
<1>0. d.ckpt \in Block BY DEF Offsets
<1>1. Dist(d.ckpt, d.head) = 0
  <2>1. d.ckpt \in Int BY JournalAssumption, <1>0 DEF Block
  <2>2. Dist(d.ckpt, d.ckpt) = d.ckpt - d.ckpt BY <1>0, <2>1, RingFacts
  <2> QED BY <2>1, <2>2
<1>2. s \in Seq(Entry \cup {Zero}) /\ DOMAIN s = 1..0 BY <1>1, ScannedFacts
<1> HIDE DEF s, K
<1>3. \A i \in DOMAIN s : i \notin K BY <1>2
<1>4. Picked(s, K) = <<>> BY <1>2, <1>3, PickedNone
<1> QED BY <1>4 DEF recover, s, K

(* The disk with a transaction of the given size written at block at.       *)
With(dsk, at, size, txn, kind) ==
  [b \in Block |-> IF b \in at..(at + size - 1) THEN Piece(txn, kind, b - at + 1, size)
                   ELSE dsk[b]]

(* Where the scan meets a transaction that is written g blocks after the    *)
(* head: behind everything that was there, and in order.                    *)
LEMMA WrittenPlaces ==
  ASSUME NEW c \in Block, NEW h \in Block, NEW at \in Block, NEW size \in 1..N,
         NEW n, n = Dist(c, h), NEW g, g = Dist(h, at),
         at + size <= N, (n + g) + size <= N,
         NEW x \in 0..(N - 1)
  PROVE  /\ x < n + g => After(c, x) \notin at..(at + size - 1)
         /\ (n + g <= x /\ x < (n + g) + size)
              => /\ After(c, x) \in at..(at + size - 1)
                 /\ After(c, x) - at = x - (n + g)
         /\ (n <= x /\ x < n + g) => After(c, x) = After(h, x - n)
<1>0. N \in Int /\ N > 0 BY JournalAssumption
<1>1. n \in 0..(N - 1) /\ g \in 0..(N - 1) BY RingFacts
<1>2. at \in Int /\ 0 <= at /\ at < N /\ size \in Int /\ 1 <= size BY <1>0 DEF Block
<1>3. (n + g) + size <= N /\ at + size <= N OBVIOUS
<1>4. ASSUME NEW k \in 0..(size - 1)
      PROVE  After(c, (n + g) + k) = at + k
  <2>1. g + k \in Nat /\ n + (g + k) < N /\ g + k < N /\ k \in Nat /\ n + (g + k) = (n + g) + k
    BY <1>0, <1>1, <1>2, <1>3
  <2>2. After(h, g + k) = After(c, n + (g + k)) BY <2>1, AfterAfter
  <2>3. After(at, k) = After(h, g + k) BY <2>1, AfterAfter
  <2>4. k \in 0..(N - 1) /\ at + k < N BY <1>0, <1>2, <1>3
  <2>5. After(at, k) = IF at + k < N THEN at + k ELSE (at + k) - N BY <2>4, RingFacts
  <2> QED BY <2>1, <2>2, <2>3, <2>4, <2>5
<1>5. ASSUME x < n + g, After(c, x) \in at..(at + size - 1) PROVE FALSE
  <2>1. PICK b \in at..(at + size - 1) : b = After(c, x) BY <1>5
  <2>2. b - at \in 0..(size - 1) /\ at + (b - at) = b BY <1>2
  <2>3. After(c, (n + g) + (b - at)) = b BY <1>4, <2>2
  <2>4. (n + g) + (b - at) \in 0..(N - 1) BY <1>0, <1>1, <1>2, <1>3, <2>2
  <2>5. x = (n + g) + (b - at) BY <2>1, <2>3, <2>4, AfterApart
  <2> QED BY <1>1, <1>5, <2>2, <2>5
<1>6. ASSUME n + g <= x, x < (n + g) + size
      PROVE  After(c, x) \in at..(at + size - 1) /\ After(c, x) - at = x - (n + g)
  <2>1. x - (n + g) \in 0..(size - 1) /\ (n + g) + (x - (n + g)) = x BY <1>1, <1>2, <1>6
  <2>2. After(c, x) = at + (x - (n + g)) BY <1>4, <2>1
  <2> QED BY <1>1, <1>2, <2>1, <2>2
<1>7. ASSUME n <= x, x < n + g PROVE After(c, x) = After(h, x - n)
  <2>1. x - n \in Nat /\ n + (x - n) = x /\ x < N BY <1>0, <1>1, <1>7
  <2>2. After(h, x - n) = After(c, n + (x - n)) BY <2>1, AfterAfter
  <2> QED BY <2>1, <2>2
<1> QED BY <1>5, <1>6, <1>7

(* The distance to the block x blocks after c is x.                         *)
LEMMA DistAfter ==
  ASSUME NEW c \in Block, NEW x \in 0..(N - 1)
  PROVE  Dist(c, After(c, x)) = x
<1>0. N \in Int /\ N > 0 BY JournalAssumption
<1>1. c \in Int /\ 0 <= c /\ c < N BY <1>0 DEF Block
<1> DEFINE h == After(c, x)
<1>2. h \in Block /\ h = IF c + x < N THEN c + x ELSE (c + x) - N BY RingFacts
<1> HIDE DEF h
<1>3. Dist(c, h) = IF h < c THEN (h - c) + N ELSE h - c BY <1>2, RingFacts
<1>4. CASE c + x < N
  <2>1. h = c + x BY <1>2, <1>4
  <2>2. ~(h < c) /\ h - c = x BY <1>0, <1>1, <2>1
  <2> QED BY <1>3, <2>2 DEF h
<1>5. CASE ~(c + x < N)
  <2>1. h = (c + x) - N BY <1>2, <1>5
  <2>2. h < c /\ (h - c) + N = x BY <1>0, <1>1, <2>1
  <2> QED BY <1>3, <2>2 DEF h
<1> QED BY <1>4, <1>5

(* A record written by a transaction is an entry.                           *)
LEMMA PieceType ==
  ASSUME NEW txn \in Nat, NEW kind, NEW part \in Nat, NEW size \in Nat
  PROVE  Piece(txn, kind, part, size) \in Entry
BY DEF Piece, Entry

(* Where the head is after a transaction, seen from the checkpoint.         *)
LEMMA HeadMoves ==
  ASSUME NEW c \in Block, NEW h \in Block, NEW at \in Block, NEW size \in 1..N,
         (Dist(c, h) + Dist(h, at)) + size < N
  PROVE  /\ (at + size) % N \in Block
         /\ Dist(c, (at + size) % N) = (Dist(c, h) + Dist(h, at)) + size
<1> DEFINE n == Dist(c, h)
           g == Dist(h, at)
<1>0. N \in Int /\ N > 0 BY JournalAssumption
<1>1. n \in 0..(N - 1) /\ g \in 0..(N - 1) BY RingFacts
<1>2. (n + g) + size < N OBVIOUS
<1>3. After(at, size) = After(h, g + size)
  <2>1. size \in Nat /\ g + size < N BY <1>0, <1>1, <1>2
  <2> QED BY <2>1, AfterAfter
<1>4. After(h, g + size) = After(c, n + (g + size))
  <2> DEFINE y == g + size
  <2>1. y \in Nat /\ n + y < N BY <1>0, <1>1, <1>2
  <2> HIDE DEF y, g
  <2>2. After(h, y) = After(c, Dist(c, h) + y) BY <2>1, AfterAfter
  <2> QED BY <2>2 DEF y
<1> HIDE DEF n, g
<1>5. n + (g + size) \in 0..(N - 1) /\ n + (g + size) = (n + g) + size BY <1>0, <1>1, <1>2
<1>6. Dist(c, After(c, n + (g + size))) = n + (g + size) BY <1>5, DistAfter
<1>7. After(c, n + (g + size)) \in Block BY <1>5, RingFacts
<1> QED BY <1>3, <1>4, <1>5, <1>6, <1>7 DEF n, g, After

(* A transaction written behind the head, over nothing that is scanned and  *)
(* after unwritten blocks at most, is one more transaction in what          *)
(* recover() returns, once the superblock names the new head.               *)
LEMMA RecoverAppend ==
  ASSUME NEW dsk \in DiskType, NEW d \in Offsets, NEW at \in Block, NEW size \in 1..N,
         NEW txn \in Nat, NEW kind, at + size <= N,
         (Dist(d.ckpt, d.head) + Dist(d.head, at)) + size < N,
         \A j \in 0..(N - 1) : j < Dist(d.head, at) => dsk[After(d.head, j)] = Zero,
         \A b \in Block : dsk[b] # Zero => dsk[b].txn # txn,
         NEW f \in Offsets, f.ckpt = d.ckpt, f.head = (at + size) % N
  PROVE  /\ With(dsk, at, size, txn, kind) \in DiskType
         /\ recover(With(dsk, at, size, txn, kind), f)
              = Append(recover(dsk, d), Piece(txn, kind, 1, size))
<1> DEFINE c == d.ckpt
           h == d.head
           n == Dist(c, h)
           g == Dist(h, at)
           e == With(dsk, at, size, txn, kind)
           s == Scanned(dsk, d)
           t == Scanned(e, f)
           P(k) == Piece(txn, kind, k, size)
           m == (n + g) + size
<1>0. N \in Int /\ N > 0 BY JournalAssumption
<1>1. c \in Block /\ h \in Block BY DEF Offsets
<1>2. n \in 0..(N - 1) /\ g \in 0..(N - 1) BY <1>1, RingFacts
<1>3. /\ size \in Int /\ 1 <= size /\ size <= N
      /\ at \in Int /\ 0 <= at /\ m < N /\ m \in Nat /\ m = (n + g) + size
  BY <1>0, <1>2 DEF Block
<1>4. \A k \in 1..size : P(k) \in Entry
  BY <1>3, PieceType
<1>5. e \in DiskType
  <2>1. ASSUME NEW b \in Block PROVE e[b] \in Entry \cup {Zero}
    <3>1. CASE b \in at..(at + size - 1)
      <4>1. b - at + 1 \in 1..size BY <1>3, <3>1
      <4>2. e[b] = P(b - at + 1) BY <3>1 DEF With
      <4> QED BY <1>4, <4>1, <4>2
    <3>2. CASE b \notin at..(at + size - 1)
      <4>1. e[b] = dsk[b] BY <3>2 DEF With
      <4> QED BY <4>1 DEF DiskType
    <3> QED BY <3>1, <3>2
  <2> QED BY <2>1 DEF DiskType, With
<1>6. Dist(c, f.head) = m
  BY <1>1, HeadMoves
<1>7. /\ s \in Seq(Entry \cup {Zero}) /\ Len(s) = n /\ DOMAIN s = 1..n
      /\ \A i \in 1..n : s[i] = dsk[After(c, i - 1)]
  BY ScannedFacts
<1>8. /\ t \in Seq(Entry \cup {Zero}) /\ Len(t) = m /\ DOMAIN t = 1..m
      /\ \A i \in 1..m : t[i] = e[After(c, i - 1)]
  BY <1>5, <1>6, ScannedFacts
<1>w. ASSUME NEW x \in 0..(N - 1)
      PROVE  /\ x < n + g => After(c, x) \notin at..(at + size - 1)
             /\ (n + g <= x /\ x < (n + g) + size)
                  => /\ After(c, x) \in at..(at + size - 1)
                     /\ After(c, x) - at = x - (n + g)
             /\ (n <= x /\ x < n + g) => After(c, x) = After(h, x - n)
  <2>1. n = Dist(c, h) /\ g = Dist(h, at) OBVIOUS
  <2>2. at + size <= N /\ (n + g) + size <= N BY <1>0, <1>3
  <2> HIDE DEF n, g, c, h
  <2> QED BY <1>1, <2>1, <2>2, WrittenPlaces
<1>z. \A j \in 0..(N - 1) : j < g => dsk[After(h, j)] = Zero OBVIOUS
<1>f. \A b \in Block : dsk[b] # Zero => dsk[b].txn # txn OBVIOUS
<1>r. recover(dsk, d) = Picked(s, Whole(s)) /\ recover(e, f) = Picked(t, Whole(t))
  BY DEF recover
<1>e. \A b \in Block : e[b] = IF b \in at..(at + size - 1) THEN P(b - at + 1) ELSE dsk[b]
  BY DEF With
<1> HIDE DEF n, g, c, h, m, s, t, e
<1>9. ASSUME NEW i \in 1..n PROVE t[i] = s[i]
  <2>0. i - 1 \in 0..(N - 1) /\ i - 1 < n + g /\ i \in 1..m BY <1>0, <1>2, <1>3
  <2>1. After(c, i - 1) \notin at..(at + size - 1)
    BY <1>w, <2>0
  <2>2. After(c, i - 1) \in Block BY <1>1, <2>0, RingFacts
  <2> QED BY <1>7, <1>8, <1>e, <2>0, <2>1, <2>2
<1>10. ASSUME NEW i \in (n + 1)..(n + g) PROVE t[i] = Zero
  <2>0. i - 1 \in 0..(N - 1) /\ i - 1 < n + g /\ n <= i - 1 /\ i \in 1..m BY <1>0, <1>2, <1>3
  <2>1. After(c, i - 1) \notin at..(at + size - 1) /\ After(c, i - 1) = After(h, (i - 1) - n)
    BY <1>w, <2>0
  <2>2. After(c, i - 1) \in Block BY <1>1, <2>0, RingFacts
  <2>3. (i - 1) - n \in 0..(N - 1) /\ (i - 1) - n < g BY <1>0, <1>2, <2>0
  <2>4. dsk[After(h, (i - 1) - n)] = Zero BY <1>z, <2>3
  <2>5. e[After(c, i - 1)] = dsk[After(c, i - 1)] BY <1>e, <2>1, <2>2
  <2> QED BY <1>8, <2>0, <2>1, <2>4, <2>5
<1>11. ASSUME NEW k \in 1..size PROVE t[(n + g) + k] = P(k)
  <2> DEFINE i == (n + g) + k
             b == After(c, i - 1)
  <2>0. i - 1 \in 0..(N - 1) /\ n + g <= i - 1 /\ i - 1 < (n + g) + size /\ i \in 1..m
        /\ (i - 1) - (n + g) = k - 1
    BY <1>0, <1>2, <1>3
  <2>x. b \in Block BY <1>1, <2>0, RingFacts
  <2>y. t[i] = e[b] BY <1>8, <2>0
  <2> HIDE DEF i
  <2>1. b \in at..(at + size - 1) /\ b - at = (i - 1) - (n + g)
    BY <1>w, <2>0
  <2> HIDE DEF b
  <2>2. b - at + 1 = k BY <2>0, <2>1, <1>3
  <2>3. e[b] = P(b - at + 1) BY <1>e, <2>1, <2>x
  <2> QED BY <2>2, <2>3, <2>y DEF i
<1> DEFINE K == Whole(s)
           J == Whole(t)
           a == (n + g) + 1
<1>12. ASSUME NEW i \in 1..n, i \in K PROVE i \in J
  <2>1. /\ s[i] # Zero /\ s[i].part = 1 /\ i + s[i].of - 1 <= n
        /\ \A j \in 1..(s[i].of - 1) : s[i + j] = [s[i] EXCEPT !.part = j + 1]
    BY <1>7, <1>12 DEF Whole, WholeAt
  <2>2. s[i] \in Entry BY <1>7, <2>1
  <2>3. s[i].of \in Nat BY <2>2 DEF Entry
  <2>4. t[i] = s[i] BY <1>9
  <2>5. ASSUME NEW j \in 1..(s[i].of - 1) PROVE t[i + j] = s[i + j]
    <3>1. i + j \in 1..n BY <1>2, <2>1, <2>3
    <3> QED BY <1>9, <3>1
  <2>6. i + s[i].of - 1 <= m /\ i \in 1..m BY <1>2, <1>3, <2>1, <2>3
  <2>7. \A j \in 1..(s[i].of - 1) : t[i + j] = [s[i] EXCEPT !.part = j + 1] BY <2>1, <2>5
  <2> QED BY <1>8, <2>1, <2>4, <2>6, <2>7 DEF Whole, WholeAt
<1>13. ASSUME NEW i \in 1..n, i \in J PROVE i \in K
  <2>0. t[i] = s[i] BY <1>9
  <2>1. /\ s[i] # Zero /\ s[i].part = 1 /\ i + s[i].of - 1 <= m
        /\ \A j \in 1..(s[i].of - 1) : t[i + j] = [s[i] EXCEPT !.part = j + 1]
    BY <1>8, <1>13, <2>0 DEF Whole, WholeAt
  <2>2. s[i] \in Entry BY <1>7, <2>1
  <2>3. s[i].of \in Nat /\ s[i].txn \in Nat BY <2>2 DEF Entry
  <2>4. s[i].txn # txn
    <3>1. i - 1 \in 0..(N - 1) BY <1>0, <1>2
    <3>2. After(c, i - 1) \in Block BY <1>1, <3>1, RingFacts
    <3> QED BY <1>7, <1>f, <2>1, <3>2
  <2>5. i + s[i].of - 1 <= n
    <3> SUFFICES ASSUME ~(i + s[i].of - 1 <= n) PROVE FALSE OBVIOUS
    <3> DEFINE j == (n + 1) - i
    <3>1. j \in 1..(s[i].of - 1) /\ i + j = n + 1 BY <1>2, <2>3
    <3>2. t[n + 1] = [s[i] EXCEPT !.part = j + 1] BY <2>1, <3>1
    <3>3. j + 1 \in Nat BY <1>2, <3>1
    <3> HIDE DEF j
    <3>4. [s[i] EXCEPT !.part = j + 1] \in Entry /\ [s[i] EXCEPT !.part = j + 1].txn = s[i].txn
      BY <2>2, <3>3 DEF Entry
    <3>5. CASE g > 0
      <4>1. n + 1 \in (n + 1)..(n + g) BY <1>2, <3>5
      <4>2. t[n + 1] = Zero BY <1>10, <4>1
      <4> QED BY <3>2, <3>4, <4>2, JournalAssumption DEF Entry
    <3>6. CASE ~(g > 0)
      <4>1. n + 1 = (n + g) + 1 /\ 1 \in 1..size BY <1>2, <1>3, <3>6
      <4>2. t[n + 1] = P(1) BY <1>11, <4>1
      <4>3. P(1).txn = txn BY DEF Piece
      <4> QED BY <2>4, <3>2, <3>4, <4>2, <4>3
    <3> QED BY <3>5, <3>6
  <2>6. ASSUME NEW j \in 1..(s[i].of - 1) PROVE t[i + j] = s[i + j]
    <3>1. i + j \in 1..n BY <1>2, <2>3, <2>5
    <3> QED BY <1>9, <3>1
  <2>7. \A j \in 1..(s[i].of - 1) : s[i + j] = [s[i] EXCEPT !.part = j + 1] BY <2>1, <2>6
  <2> QED BY <1>7, <2>1, <2>5, <2>7 DEF Whole, WholeAt
<1>14. a \in J
  <2>0. 1 \in 1..size /\ a \in 1..m BY <1>2, <1>3
  <2>1. t[a] = P(1) BY <1>11, <2>0
  <2>2. P(1) # Zero BY <1>4, <2>0, JournalAssumption DEF Entry
  <2>3. P(1).part = 1 /\ P(1).of = size BY DEF Piece
  <2>4. a + size - 1 <= m BY <1>2, <1>3
  <2>5. ASSUME NEW j \in 1..(size - 1) PROVE t[a + j] = [P(1) EXCEPT !.part = j + 1]
    <3>1. j + 1 \in 1..size /\ a + j = (n + g) + (j + 1) BY <1>2, <1>3
    <3>2. t[a + j] = P(j + 1) BY <1>11, <3>1
    <3>3. P(j + 1) = [P(1) EXCEPT !.part = j + 1] BY DEF Piece
    <3> QED BY <3>2, <3>3
  <2> HIDE DEF a, P
  <2> QED BY <1>8, <2>0, <2>1, <2>2, <2>3, <2>4, <2>5 DEF Whole, WholeAt
<1>15. ASSUME NEW i \in (n + 1)..m, i \in J PROVE i = a
  <2>1. t[i] # Zero /\ t[i].part = 1 BY <1>15 DEF Whole, WholeAt
  <2>2. i \notin (n + 1)..(n + g) BY <1>10, <2>1
  <2> DEFINE k == i - (n + g)
  <2>3. k \in 1..size /\ (n + g) + k = i BY <1>2, <1>3, <2>2
  <2>4. t[i] = P(k) BY <1>11, <2>3
  <2>5. P(k).part = k BY DEF Piece
  <2>6. k = 1 BY <2>1, <2>4, <2>5
  <2> QED BY <1>2, <2>3, <2>6
<1>16. Alike(s, K, t, J, n) BY <1>9, <1>12, <1>13 DEF Alike
<1>17. OnlyPick(a, n, m, J) BY <1>14, <1>15 DEF OnlyPick
<1>18. n < a /\ a <= m /\ a \in Int BY <1>2, <1>3
<1>19. t[a] = P(1)
  <2>1. 1 \in 1..size BY <1>3
  <2> QED BY <1>11, <2>1
<1> HIDE DEF K, J, a, P
<1>20. Picked(t, J) = Append(Picked(s, K), t[a])
  BY <1>7, <1>8, <1>16, <1>17, <1>18, PickedMore
<1> QED BY <1>5, <1>19, <1>20, <1>r DEF K, J, e, P

-----------------------------------------------------------------------------
(* The inductive invariant                                                  *)

(* The job's transaction, as recover() returns it.                          *)
Mine == Piece(job.txn, job.kind, 1, job.size)

(* Where the scan that will find the job's transaction begins, and where it *)
(* would end without it: a checkpoint starts a new journal.                 *)
Onto == IF job.kind = "ckpt" THEN [ckpt |-> job.start, head |-> job.start] ELSE sb

(* The ring has room for what is being written.  It lies over no block the   *)
(* superblock names, it does not fill the ring exactly, in which case the   *)
(* offsets would be equal and the journal count as empty, and if it went    *)
(* back to the start of the ring, it skipped only blocks that were never    *)
(* written.  Nothing in journal.cc checks this; the thresholds do it for    *)
(* transactions of one block (OneBlockFits).                                *)
Fits ==
  job.pc = "flush" =>
    /\ (Dist(sb.ckpt, sb.head) + Dist(sb.head, job.at)) + job.size <= N
    /\ (Dist(Onto.ckpt, Onto.head) + Dist(Onto.head, job.at)) + job.size < N
    /\ \A j \in 0..(N - 1) : j < Dist(Onto.head, job.at) => disk[After(Onto.head, j)] = Zero

DiskOK ==
  /\ disk \in DiskType
  /\ \A b \in Block : disk[b] # Zero => /\ disk[b].part \in 1..disk[b].of
                                        /\ disk[b].txn <= serial
                                        /\ job.pc = "flush" => disk[b].txn < serial

JobOK ==
  /\ job.pc \in {"idle", "flush", "super"}
  /\ job.pc # "flush" => pending = Nothing
  /\ job.pc # "super" => ~sbPending
  /\ job.pc # "idle" => /\ job.txn = serial /\ job.size \in 1..N
                        /\ job.at \in Block /\ job.start \in Block /\ job.at + job.size <= N
                        /\ Before(acked, serial)
  /\ job.pc = "flush" =>
       /\ pending = [b \in job.at..(job.at + job.size - 1) |->
                       Piece(job.txn, job.kind, b - job.at + 1, job.size)]
       /\ head = (job.at + job.size) % N

Shape ==
  /\ DiskOK /\ JobOK
  /\ sb \in Offsets /\ sbDisk \in Offsets /\ head \in Block
  /\ lag \in BOOLEAN /\ sbPending \in BOOLEAN
  /\ serial \in 0..MaxTxns /\ unchecked \in 0..MaxUnchecked
  /\ acked \in Seq(Entry) /\ Before(acked, serial + 1)

(* In memory, the journal up to the current job has all that was            *)
(* acknowledged; on the disk too, unless a superblock write failed.  From   *)
(* the superblock write on, the job's transaction is in the journal         *)
(* and not yet acknowledged.                                                *)
Kept ==
  /\ log = recover(disk, sbDisk)
  /\ ~lag => Durable(log, acked)
  /\ job.pc # "super" => /\ Durable(recover(disk, sb), acked)
                         /\ ~lag => sbDisk = sb
  /\ (job.pc = "super" /\ job.kind = "ckpt") => recover(disk, sb) = <<Mine>>
  /\ (job.pc = "super" /\ job.kind # "ckpt") =>
       \E l \in Seq(Entry) : /\ Durable(l, acked)
                             /\ Before(l, job.txn)
                             /\ recover(disk, sb) = Append(l, Mine)

JInv == Shape /\ Kept

-----------------------------------------------------------------------------
(* Each step keeps it                                                       *)

(* What the assumption on the constants says.                               *)
LEMMA Constants == N \in Int /\ N > 0 /\ 0 \in Block /\ MaxTxns \in Nat /\ MaxUnchecked \in Nat
BY JournalAssumption DEF Block

(* A new journal is empty.                                                  *)
LEMMA InitHolds == Init => JInv
<1> SUFFICES ASSUME Init PROVE JInv OBVIOUS
<1> USE DEF Init
<1>1. sb \in Offsets /\ sbDisk \in Offsets /\ head \in Block BY Constants DEF Offsets
<1>2. disk \in DiskType BY DEF DiskType
<1>3. DiskOK BY <1>2 DEF DiskOK
<1>4. JobOK BY DEF JobOK, NoJob
<1>5. acked \in Seq(Entry) /\ Before(acked, serial + 1) BY DEF Before
<1>6. Shape BY <1>1, <1>3, <1>4, <1>5, Constants DEF Shape
<1>7. recover(disk, sb) = <<>> /\ recover(disk, sbDisk) = <<>> BY <1>1, <1>2, RecoverEmpty
<1>8. <<>> \in Seq(Entry) OBVIOUS
<1>9. Durable(<<>>, <<>>) BY <1>8, DurableSelf
<1>10. Kept BY <1>7, <1>9 DEF Kept, NoJob
<1> QED BY <1>6, <1>10 DEF JInv

(* pad_and_write() stays inside the ring, and brings the head back to 0     *)
(* when it reaches the end.                                                 *)
LEMMA WriteInside ==
  ASSUME head \in Block, NEW size \in 1..N
  PROVE  /\ WriteAt(size) \in Block /\ WriteAt(size) + size <= N
         /\ HeadAfter(size) \in Block
         /\ HeadAfter(size) = (WriteAt(size) + size) % N
<1>1. head \in Int /\ 0 <= head /\ head < N /\ size \in Int /\ 1 <= size /\ size <= N
  BY Constants DEF Block
<1>2. WriteAt(size) \in Block /\ WriteAt(size) + size <= N BY <1>1, Constants DEF WriteAt, Block
<1> DEFINE x == WriteAt(size) + size
<1>3. x \in Int /\ -N <= x /\ x < 2 * N /\ ~(x < 0) /\ x <= N BY <1>1, <1>2, Constants DEF Block
<1> HIDE DEF x
<1>4. x % N = IF x < 0 THEN x + N ELSE IF x < N THEN x ELSE x - N BY <1>3, Reduce
<1>5. x % N \in Block
  <2>1. CASE x < N BY <1>3, <1>4, <2>1, Constants DEF Block
  <2>2. CASE ~(x < N)
    <3>1. x = N BY <1>3, <2>2, Constants
    <3>2. x % N = 0 BY <1>3, <1>4, <2>2, <3>1, Constants
    <3> QED BY <3>2, Constants
  <2> QED BY <2>1, <2>2
<1> QED BY <1>2, <1>5 DEF HeadAfter, x

(* Sets of earlier transactions stay earlier.                               *)
LEMMA BeforeLater ==
  ASSUME NEW l \in Seq(Entry), NEW m \in Nat, NEW n \in Nat, Before(l, m), m <= n
  PROVE  Before(l, n)
<1> SUFFICES ASSUME NEW i \in DOMAIN l PROVE l[i].txn < n BY DEF Before
<1>1. l[i] \in Entry OBVIOUS
<1>2. l[i].txn \in Nat BY <1>1 DEF Entry
<1>3. l[i].txn < m BY DEF Before
<1> QED BY <1>2, <1>3

(* A call begins: nothing on the disk changes.                              *)
LEMMA StartStep ==
  ASSUME Shape, NEW kind, NEW size \in 1..N, Start(kind, size), unchecked' \in 0..MaxUnchecked
  PROVE  Shape' /\ (Kept => Kept')
<1> USE DEF Shape
<1>0. /\ UNCHANGED <<disk, sb, sbDisk, sbPending, acked, lag, log>>
      /\ job.pc = "idle" /\ serial < MaxTxns /\ serial' = serial + 1
      /\ job' = [pc |-> "flush", kind |-> kind, txn |-> serial + 1, size |-> size,
                  start |-> head, at |-> WriteAt(size)]
      /\ pending' = Pieces(serial + 1, kind, size) /\ head' = HeadAfter(size)
  BY DEF Start, sbVars
<1>1. /\ job'.pc = "flush" /\ job'.kind = kind /\ job'.txn = serial' /\ job'.size = size
      /\ job'.start = head /\ job'.at = WriteAt(size)
  BY <1>0
<1>2. serial' \in 0..MaxTxns /\ serial \in Nat /\ serial' \in Nat BY <1>0, Constants
<1>3. /\ WriteAt(size) \in Block /\ WriteAt(size) + size <= N
      /\ HeadAfter(size) \in Block
      /\ HeadAfter(size) = (WriteAt(size) + size) % N
  BY WriteInside
<1>4. Before(acked, serial') BY <1>0
<1>5. Before(acked', serial' + 1)
  <2>1. (serial + 1) + 1 \in Nat /\ serial + 1 <= (serial + 1) + 1 /\ serial + 1 \in Nat BY <1>2
  <2>2. Before(acked, (serial + 1) + 1) BY <1>0, <1>4, <2>1, BeforeLater
  <2> QED BY <1>0, <2>2
<1>6. DiskOK'
  <2>1. ASSUME NEW b \in Block, disk[b] # Zero
        PROVE  disk[b].part \in 1..disk[b].of /\ disk[b].txn <= serial' /\ disk[b].txn < serial'
    <3>1. disk[b].part \in 1..disk[b].of /\ disk[b].txn <= serial BY <2>1 DEF DiskOK
    <3>2. disk[b] \in Entry BY <2>1 DEF DiskOK, DiskType
    <3>3. disk[b].txn \in Nat BY <3>2 DEF Entry
    <3> QED BY <1>0, <1>2, <3>1, <3>3
  <2>2. disk' = disk /\ disk \in DiskType BY <1>0 DEF DiskOK
  <2> QED BY <2>1, <2>2 DEF DiskOK
<1>7. pending' = [b \in WriteAt(size)..(WriteAt(size) + size - 1) |->
                    Piece(serial', kind, b - WriteAt(size) + 1, size)]
  BY <1>0 DEF Pieces
<1>8. JobOK'
  <2>1. ~sbPending' BY <1>0 DEF JobOK
  <2>2. Before(acked', serial') BY <1>0, <1>4
  <2> HIDE DEF WriteAt
  <2> QED BY <1>0, <1>1, <1>3, <1>7, <2>1, <2>2 DEF JobOK
<1>9. Shape' BY <1>0, <1>2, <1>3, <1>5, <1>6, <1>8
<1>10. ASSUME Kept PROVE Kept'
  <2>1. /\ log = recover(disk, sbDisk)
        /\ ~lag => Durable(log, acked)
        /\ Durable(recover(disk, sb), acked)
        /\ ~lag => sbDisk = sb
    BY <1>0, <1>10 DEF Kept
  <2>2. job'.pc # "super" BY <1>1
  <2> QED BY <1>0, <2>1, <2>2 DEF Kept
<1> QED BY <1>9, <1>10

(* The blocks that a write leaves on the disk, all of them or some.          *)
LEMMA SettleShape ==
  ASSUME Shape, job.pc = "flush", NEW S \in SUBSET Written
  PROVE  /\ Settle(S) \in DiskType
         /\ \A b \in Block : Settle(S)[b] # Zero => /\ Settle(S)[b].part \in 1..Settle(S)[b].of
                                                    /\ Settle(S)[b].txn <= serial
         /\ \A b \in Block : b \notin job.at..(job.at + job.size - 1) => Settle(S)[b] = disk[b]
<1> DEFINE e == Settle(S)
           at == job.at
           size == job.size
           P(k) == Piece(job.txn, job.kind, k, size)
<1>0. /\ disk \in DiskType /\ serial \in Nat
      /\ at \in Block /\ size \in 1..N /\ at + size <= N /\ job.txn = serial
  BY Constants DEF Shape, DiskOK, JobOK
<1>a. at \in Int /\ size \in Int /\ 0 <= at /\ 1 <= size BY <1>0, Constants DEF Block
<1>1. pending = [b \in at..(at + size - 1) |-> P(b - at + 1)] BY DEF Shape, JobOK
<1>2. S \subseteq at..(at + size - 1) BY <1>1 DEF Written
<1>3. \A b \in Block : e[b] = IF b \in S THEN P(b - at + 1) ELSE disk[b]
  BY <1>1, <1>2 DEF Settle
<1>4. ASSUME NEW b \in S
      PROVE  /\ P(b - at + 1) \in Entry
             /\ P(b - at + 1).part \in 1..P(b - at + 1).of
             /\ P(b - at + 1).txn = serial
  <2>1. b - at + 1 \in 1..size BY <1>2, <1>a
  <2>2. b - at + 1 \in Nat /\ size \in Nat BY <2>1, <1>a
  <2> QED BY <1>0, <2>1, <2>2, PieceType DEF Piece
<1>5. \A b \in Block : disk[b] \in Entry \cup {Zero} BY <1>0 DEF DiskType
<1>6. e \in DiskType
  <2>1. \A b \in Block : e[b] \in Entry \cup {Zero} BY <1>3, <1>4, <1>5
  <2>2. e = [b \in Block |-> IF b \in S THEN pending[b] ELSE disk[b]] BY DEF Settle
  <2> QED BY <2>1, <2>2 DEF DiskType
<1>7. ASSUME NEW b \in Block, e[b] # Zero
      PROVE  e[b].part \in 1..e[b].of /\ e[b].txn <= serial
  <2>1. CASE b \in S BY <1>0, <1>3, <1>4, <2>1
  <2>2. CASE b \notin S
    <3>1. e[b] = disk[b] BY <1>3, <2>2
    <3> QED BY <1>7, <3>1 DEF Shape, DiskOK
  <2> QED BY <2>1, <2>2
<1>8. \A b \in Block : b \notin at..(at + size - 1) => e[b] = disk[b] BY <1>2, <1>3
<1> QED BY <1>6, <1>7, <1>8

(* Whatever part of a write reaches the disk, recover() returns the same    *)
(* for a superblock whose blocks it does not reach.                         *)
LEMMA SettleFrame ==
  ASSUME Shape, job.pc = "flush", NEW S \in SUBSET Written, NEW d \in Offsets,
         (Dist(d.ckpt, d.head) + Dist(d.head, job.at)) + job.size <= N
  PROVE  recover(Settle(S), d) = recover(disk, d)
<1> DEFINE e == Settle(S)
           at == job.at
           size == job.size
<1>0. /\ disk \in DiskType /\ at \in Block /\ size \in 1..N /\ at + size <= N
      /\ d.ckpt \in Block /\ d.head \in Block
  BY DEF Shape, DiskOK, JobOK, Offsets
<1>1. e \in DiskType /\ \A b \in Block : b \notin at..(at + size - 1) => e[b] = disk[b]
  BY SettleShape
<1>2. ASSUME NEW x \in 0..(N - 1), x < Dist(d.ckpt, d.head)
      PROVE  disk[After(d.ckpt, x)] = e[After(d.ckpt, x)]
  <2> DEFINE n == Dist(d.ckpt, d.head)
             g == Dist(d.head, at)
  <2>1. n = Dist(d.ckpt, d.head) /\ g = Dist(d.head, at) OBVIOUS
  <2>2. (n + g) + size <= N OBVIOUS
  <2>3. n \in 0..(N - 1) /\ g \in 0..(N - 1) BY <1>0, RingFacts
  <2>4. x < n BY <1>2
  <2> HIDE DEF n, g, at, size, e
  <2>5. x < n + g BY <2>3, <2>4, Constants
  <2>6. After(d.ckpt, x) \notin at..(at + size - 1) BY <1>0, <2>1, <2>2, <2>5, WrittenPlaces
  <2>7. After(d.ckpt, x) \in Block BY <1>0, RingFacts
  <2> QED BY <1>1, <2>6, <2>7
<1> HIDE DEF e
<1>3. recover(e, d) = recover(disk, d) BY <1>0, <1>1, <1>2, RecoverFrame
<1> QED BY <1>3 DEF e

(* In particular for the superblock in memory.                              *)
LEMMA SettleKeeps ==
  ASSUME Shape, Fits, job.pc = "flush", NEW S \in SUBSET Written
  PROVE  recover(Settle(S), sb) = recover(disk, sb)
<1>1. PICK d \in Offsets : d = sb BY DEF Shape
<1>2. (Dist(d.ckpt, d.head) + Dist(d.head, job.at)) + job.size <= N BY <1>1 DEF Fits
<1>3. recover(Settle(S), d) = recover(disk, d) BY <1>2, SettleFrame
<1> QED BY <1>1, <1>3

(* Without a write under way the disk is what it is.                        *)
LEMMA NothingSettles ==
  ASSUME Shape, job.pc # "flush", NEW S \in SUBSET Written
  PROVE  Settle(S) = disk
<1>1. pending = Nothing BY DEF Shape, JobOK
<1>2. S = {} BY <1>1 DEF Written, Nothing
<1>3. disk = [b \in Block |-> disk[b]] BY DEF Shape, DiskOK, DiskType
<1> QED BY <1>2, <1>3 DEF Settle

(* A piece of this job is a log entry.                                      *)
LEMMA MineType ==
  ASSUME Shape, job.pc # "idle"
  PROVE  Mine \in Entry /\ Mine.txn = serial /\ Mine.ckpt = (job.kind = "ckpt") /\ serial \in Nat
<1>1. job.txn = serial /\ job.size \in 1..N /\ serial \in Nat
  BY Constants DEF Shape, JobOK
<1>2. job.size \in Nat BY <1>1, Constants
<1> QED BY <1>1, <1>2, PieceType DEF Mine, Piece

(* After the flush of the data: with the new superblock recover() returns   *)
(* one more transaction, or the checkpoint alone.                           *)
LEMMA FlushAppends ==
  ASSUME Shape, Fits, job.pc = "flush", NEW f \in Offsets,
         f.ckpt = Onto.ckpt, f.head = head
  PROVE  recover(Settle(Written), f) = Append(recover(disk, Onto), Mine)
<1> DEFINE at == job.at
           size == job.size
<1>0. /\ disk \in DiskType /\ sb \in Offsets /\ serial \in Nat
      /\ at \in Block /\ size \in 1..N /\ at + size <= N /\ job.txn = serial
      /\ job.start \in Block /\ head = (at + size) % N
  BY Constants DEF Shape, DiskOK, JobOK
<1>1. Onto \in Offsets BY <1>0 DEF Onto, Offsets
<1>2. /\ (Dist(Onto.ckpt, Onto.head) + Dist(Onto.head, at)) + size < N
      /\ \A j \in 0..(N - 1) : j < Dist(Onto.head, at) => disk[After(Onto.head, j)] = Zero
  BY DEF Fits
<1>3. ASSUME NEW b \in Block, disk[b] # Zero PROVE disk[b].txn # serial
  <2>1. disk[b].txn < serial BY <1>3 DEF Shape, DiskOK
  <2>2. disk[b] \in Entry BY <1>0, <1>3 DEF DiskType
  <2>3. disk[b].txn \in Nat BY <2>2 DEF Entry
  <2> QED BY <1>0, <2>1, <2>3
<1>4. Settle(Written) = With(disk, at, size, serial, job.kind)
  <2>1. pending = [b \in at..(at + size - 1) |-> Piece(serial, job.kind, b - at + 1, size)]
    BY <1>0 DEF Shape, JobOK
  <2>2. Written = at..(at + size - 1) BY <2>1 DEF Written
  <2> QED BY <2>1, <2>2 DEF Settle, With
<1>5. PICK o \in Offsets : o = Onto BY <1>1
<1>6. /\ (Dist(o.ckpt, o.head) + Dist(o.head, at)) + size < N
      /\ \A j \in 0..(N - 1) : j < Dist(o.head, at) => disk[After(o.head, j)] = Zero
      /\ f.ckpt = o.ckpt /\ f.head = (at + size) % N
  BY <1>0, <1>2, <1>5
<1> HIDE DEF at, size
<1>7. recover(With(disk, at, size, serial, job.kind), f)
        = Append(recover(disk, o), Piece(serial, job.kind, 1, size))
  BY <1>0, <1>3, <1>6, RecoverAppend
<1> QED BY <1>0, <1>4, <1>5, <1>7 DEF Mine, size

(* What recover() returns was written before the next transaction.          *)
LEMMA RecoverBefore ==
  ASSUME NEW dsk \in DiskType, NEW d \in Offsets, NEW n \in Nat,
         \A b \in Block : dsk[b] # Zero => dsk[b].txn < n
  PROVE  recover(dsk, d) \in Seq(Entry) /\ Before(recover(dsk, d), n)
<1>1. /\ recover(dsk, d) \in Seq(Entry)
      /\ \A k \in DOMAIN recover(dsk, d) :
           \E b \in Block : dsk[b] # Zero /\ recover(dsk, d)[k] = dsk[b]
  BY RecoverElements
<1> HIDE DEF recover
<1> QED BY <1>1 DEF Before

(* The data is flushed: commit_txn() or checkpoint() is at its superblock.  *)
LEMMA FlushDataStep ==
  ASSUME Shape, FlushData
  PROVE  Shape' /\ (Kept /\ Fits => Kept')
<1> USE DEF Shape
<1>0. /\ job.pc = "flush" /\ disk' = Settle(Written) /\ pending' = Nothing
      /\ sb' = [ckpt |-> IF job.kind = "ckpt" THEN job.start ELSE sb.ckpt, head |-> head]
      /\ sbPending' = TRUE /\ job' = [job EXCEPT !.pc = "super"]
      /\ log' = recover(disk', sbDisk')
      /\ UNCHANGED <<sbDisk, head, unchecked, serial, acked, lag>>
  BY DEF FlushData, Observe, callerVars, histVars
<1>1. job'.pc = "super" /\ job'.kind = job.kind /\ job'.txn = job.txn /\ job'.size = job.size
      /\ job'.at = job.at /\ job'.start = job.start
  BY <1>0 DEF JobOK
<1>2. sb' \in Offsets /\ sb'.ckpt = Onto.ckpt /\ sb'.head = head
  BY <1>0 DEF Offsets, JobOK, Onto
<1>3. /\ Settle(Written) \in DiskType
      /\ \A b \in Block : Settle(Written)[b] # Zero
           => /\ Settle(Written)[b].part \in 1..Settle(Written)[b].of
              /\ Settle(Written)[b].txn <= serial
  BY <1>0, SettleShape
<1>4. DiskOK' BY <1>0, <1>1, <1>3 DEF DiskOK
<1>5. JobOK' BY <1>0, <1>1 DEF JobOK
<1>6. Shape' BY <1>0, <1>2, <1>4, <1>5
<1>7. ASSUME Kept, Fits PROVE Kept'
  <2>1. recover(disk', sb) = recover(disk, sb) BY <1>0, <1>7, SettleKeeps
  <2>2. Durable(recover(disk, sb), acked) /\ (~lag => sbDisk = sb) BY <1>0, <1>7 DEF Kept
  <2>3. ~lag' => Durable(log', acked') BY <1>0, <2>1, <2>2
  <2>4. Mine' = Mine BY <1>1 DEF Mine
  <2>5. recover(disk', sb') = Append(recover(disk, Onto), Mine)
    <3>1. PICK f \in Offsets : f = sb' BY <1>2
    <3>2. recover(Settle(Written), f) = Append(recover(disk, Onto), Mine)
      BY <1>0, <1>2, <1>7, <3>1, FlushAppends
    <3> QED BY <1>0, <3>1, <3>2
  <2>6. ASSUME job.kind = "ckpt" PROVE recover(disk', sb') = <<Mine>>
    <3>1. Onto \in Offsets /\ Onto.head = Onto.ckpt BY <1>0, <2>6 DEF Onto, Offsets, JobOK
    <3>2. disk \in DiskType BY DEF DiskOK
    <3>3. PICK o \in Offsets : o = Onto BY <3>1
    <3>4. recover(disk, o) = <<>> BY <3>1, <3>2, <3>3, RecoverEmpty
    <3>5. Append(<<>>, Mine) = <<Mine>> OBVIOUS
    <3> QED BY <2>5, <3>3, <3>4, <3>5
  <2>7. ASSUME job.kind # "ckpt"
        PROVE  \E l \in Seq(Entry) : /\ Durable(l, acked)
                                     /\ Before(l, job.txn)
                                     /\ recover(disk', sb') = Append(l, Mine)
    <3>1. Onto = sb BY <2>7 DEF Onto
    <3>2. disk \in DiskType /\ \A b \in Block : disk[b] # Zero => disk[b].txn < serial
      BY <1>0 DEF DiskOK
    <3>3. job.txn = serial /\ serial \in Nat BY <1>0, Constants DEF JobOK
    <3>4. recover(disk, sb) \in Seq(Entry) /\ Before(recover(disk, sb), serial)
      BY <3>2, <3>3, RecoverBefore
    <3> HIDE DEF recover, Durable, Before
    <3> QED BY <2>2, <2>5, <3>1, <3>3, <3>4
  <2> HIDE DEF recover, Durable, Before
  <2> QED BY <1>0, <1>1, <2>3, <2>4, <2>6, <2>7 DEF Kept
<1> QED BY <1>6, <1>7

(* The call returns 0, and its transaction counts as acknowledged.          *)
LEMMA Acknowledged ==
  ASSUME Shape, job.pc = "super", Acknowledge
  PROVE  /\ job' = NoJob
         /\ acked' = IF job.kind = "ckpt" THEN <<Mine>> ELSE Append(acked, Mine)
         /\ acked' \in Seq(Entry) /\ Before(acked', serial + 1)
<1>1. Mine \in Entry /\ Mine.txn = serial /\ Mine.ckpt = (job.kind = "ckpt") /\ serial \in Nat
  BY MineType
<1>2. acked \in Seq(Entry) /\ Before(acked, serial) BY DEF Shape, JobOK
<1>3. job' = NoJob /\ acked' = IF Mine.ckpt THEN <<Mine>> ELSE Append(acked, Mine)
  BY DEF Acknowledge, Mine
<1>4. acked' = IF job.kind = "ckpt" THEN <<Mine>> ELSE Append(acked, Mine) BY <1>1, <1>3
<1> DEFINE t == Mine
<1> HIDE DEF t
<1>5. CASE job.kind = "ckpt"
  <2>1. acked' = <<t>> BY <1>4, <1>5 DEF t
  <2>2. t \in Entry /\ t.txn < serial + 1 BY <1>1 DEF t
  <2>3. <<t>> \in Seq(Entry) /\ DOMAIN <<t>> = {1} /\ <<t>>[1] = t BY <2>2
  <2>4. Before(<<t>>, serial + 1) BY <2>2, <2>3 DEF Before
  <2> QED BY <1>3, <1>4, <2>1, <2>3, <2>4
<1>6. CASE job.kind # "ckpt"
  <2>1. acked' = Append(acked, t) BY <1>4, <1>6 DEF t
  <2>2. t \in Entry /\ t.txn < serial + 1 BY <1>1 DEF t
  <2>3. Before(acked, serial + 1)
    <3>1. serial <= serial + 1 /\ serial + 1 \in Nat BY <1>1
    <3> QED BY <1>1, <1>2, <3>1, BeforeLater
  <2>4. /\ Append(acked, t) \in Seq(Entry) /\ Len(acked) \in Nat
        /\ DOMAIN acked = 1..Len(acked) /\ DOMAIN Append(acked, t) = 1..(Len(acked) + 1)
        /\ \A i \in 1..Len(acked) : Append(acked, t)[i] = acked[i]
        /\ Append(acked, t)[Len(acked) + 1] = t
    BY <1>2, <2>2, Appended
  <2>5. ASSUME NEW i \in DOMAIN Append(acked, t) PROVE Append(acked, t)[i].txn < serial + 1
    <3>1. CASE i \in 1..Len(acked) BY <2>3, <2>4, <3>1 DEF Before
    <3>2. CASE i \notin 1..Len(acked)
      <4>1. i = Len(acked) + 1 BY <2>4, <3>2
      <4> QED BY <2>2, <2>4, <4>1
    <3> QED BY <3>1, <3>2
  <2> QED BY <1>3, <1>4, <2>1, <2>4, <2>5 DEF Before
<1> QED BY <1>5, <1>6

(* The superblock is on the disk, or its write failed and nobody notices.   *)
LEMMA SuperStep ==
  ASSUME Shape, job.pc = "super", Acknowledge,
         UNCHANGED <<disk, pending, head, sb, unchecked, serial>>,
         sbPending' = FALSE, sbDisk' \in {sbDisk, sb}, lag' \in BOOLEAN,
         ~lag' => sbDisk' = sb, log' = recover(disk', sbDisk')
  PROVE  Shape' /\ (Kept => Kept')
<1> USE DEF Shape
<1>1. /\ job' = NoJob
      /\ acked' = IF job.kind = "ckpt" THEN <<Mine>> ELSE Append(acked, Mine)
      /\ acked' \in Seq(Entry) /\ Before(acked', serial + 1)
  BY Acknowledged
<1>2. job'.pc = "idle" BY <1>1 DEF NoJob
<1>3. DiskOK' BY <1>2 DEF DiskOK
<1>4. JobOK' BY <1>2 DEF JobOK
<1>5. Shape' BY <1>1, <1>3, <1>4
<1>6. ASSUME Kept PROVE Kept'
  <2>1. Mine \in Entry /\ Mine.txn = serial /\ Mine.ckpt = (job.kind = "ckpt") /\ serial \in Nat
    BY MineType
  <2>2. acked \in Seq(Entry) /\ Before(acked, serial) /\ job.txn = serial BY DEF JobOK
  <2>3. PICK t \in Entry : t = Mine BY <2>1
  <2>4. Durable(recover(disk, sb), acked')
    <3>1. CASE job.kind = "ckpt"
      <4>1. recover(disk, sb) = <<t>> /\ acked' = <<t>> BY <1>1, <1>6, <2>3, <3>1 DEF Kept
      <4>2. <<t>> \in Seq(Entry) OBVIOUS
      <4>3. Durable(<<t>>, <<t>>) BY <4>2, DurableSelf
      <4> QED BY <4>1, <4>3
    <3>2. CASE job.kind # "ckpt"
      <4>1. PICK l \in Seq(Entry) : /\ Durable(l, acked) /\ Before(l, job.txn)
                                    /\ recover(disk, sb) = Append(l, Mine)
        BY <1>6, <3>2 DEF Kept
      <4>2. PICK a \in Seq(Entry) : a = acked BY <2>2
      <4>3. ~t.ckpt /\ Before(l, t.txn) /\ Before(a, t.txn) /\ Durable(l, a)
        BY <2>1, <2>2, <2>3, <3>2, <4>1, <4>2
      <4>4. Durable(Append(l, t), Append(a, t)) BY <4>3, DurableAppend
      <4> QED BY <1>1, <2>3, <3>2, <4>1, <4>2, <4>4
    <3> QED BY <3>1, <3>2
  <2> HIDE DEF recover, Durable
  <2> QED BY <1>2, <2>4 DEF Kept
<1> QED BY <1>5, <1>6

(* A failed data write: what it left on the disk is not scanned.            *)
LEMMA DataFailsStep ==
  ASSUME Shape, DataFails
  PROVE  Shape' /\ (Kept /\ Fits => Kept')
<1> USE DEF Shape
<1>0. /\ job.pc = "flush" /\ pending' = Nothing /\ job' = NoJob
      /\ head' \in {job.at} \cup (IF FlushMayFail THEN {head} ELSE {})
      /\ log' = recover(disk', sbDisk')
      /\ UNCHANGED <<sbDisk, sbPending, sb, unchecked, serial, acked, lag>>
  BY DEF DataFails, Observe, callerVars, histVars
<1>1. PICK S \in SUBSET Written : disk' = Settle(S) BY DEF DataFails
<1>2. /\ Settle(S) \in DiskType
      /\ \A b \in Block : Settle(S)[b] # Zero
           => /\ Settle(S)[b].part \in 1..Settle(S)[b].of
              /\ Settle(S)[b].txn <= serial
  BY <1>0, SettleShape
<1>3. job'.pc = "idle" /\ head' \in Block BY <1>0 DEF NoJob, JobOK
<1>4. DiskOK' BY <1>0, <1>1, <1>2, <1>3 DEF DiskOK
<1>5. JobOK' BY <1>0, <1>3 DEF JobOK
<1>6. Shape' BY <1>0, <1>3, <1>4, <1>5
<1>7. ASSUME Kept, Fits PROVE Kept'
  <2>1. recover(disk', sb) = recover(disk, sb) BY <1>0, <1>1, <1>7, SettleKeeps
  <2>2. Durable(recover(disk, sb), acked) /\ (~lag => sbDisk = sb) BY <1>0, <1>7 DEF Kept
  <2> HIDE DEF recover, Durable
  <2> QED BY <1>0, <1>3, <2>1, <2>2 DEF Kept
<1> QED BY <1>6, <1>7

(* The superblock a crash can leave behind leads to all that is owed.       *)
LEMMA CrashDurable ==
  ASSUME Shape, Kept, Fits, ~lag, NEW S \in SUBSET Written,
         NEW d \in {sbDisk, IF sbPending THEN sb ELSE sbDisk}
  PROVE  Durable(recover(Settle(S), d), acked)
<1> USE DEF Shape
<1>1. CASE job.pc = "flush"
  <2>1. recover(Settle(S), sb) = recover(disk, sb) BY <1>1, SettleKeeps
  <2>2. Durable(recover(disk, sb), acked) /\ sbDisk = sb BY <1>1 DEF Kept
  <2>3. d = sb BY <2>2
  <2> QED BY <2>1, <2>2, <2>3
<1>2. CASE job.pc = "idle"
  <2>1. Settle(S) = disk BY <1>2, NothingSettles
  <2>2. Durable(recover(disk, sb), acked) /\ sbDisk = sb BY <1>2 DEF Kept
  <2>3. d = sb BY <2>2
  <2> QED BY <2>1, <2>2, <2>3
<1>3. CASE job.pc = "super"
  <2>1. Settle(S) = disk BY <1>3, NothingSettles
  <2>2. CASE d = sbDisk
    <3>1. log = recover(disk, sbDisk) /\ Durable(log, acked) BY DEF Kept
    <3> QED BY <2>1, <2>2, <3>1
  <2>3. CASE d = sb
    <3>1. Mine \in Entry /\ Mine.txn = serial /\ Mine.ckpt = (job.kind = "ckpt")
      BY <1>3, MineType
    <3>2. acked \in Seq(Entry) /\ Before(acked, serial) /\ job.txn = serial BY <1>3 DEF JobOK
    <3>3. PICK t \in Entry : t = Mine BY <3>1
    <3>4. PICK a \in Seq(Entry) : a = acked BY <3>2
    <3>5. CASE job.kind = "ckpt"
      <4>1. recover(disk, sb) = <<t>> BY <1>3, <3>3, <3>5 DEF Kept
      <4>2. t.ckpt /\ Before(a, t.txn) BY <3>1, <3>2, <3>3, <3>4, <3>5
      <4>3. Durable(<<t>>, a) BY <4>2, DurableCheckpoint
      <4> QED BY <2>1, <2>3, <3>4, <4>1, <4>3
    <3>6. CASE job.kind # "ckpt"
      <4>1. PICK l \in Seq(Entry) : Durable(l, acked) /\ recover(disk, sb) = Append(l, Mine)
        BY <1>3, <3>6 DEF Kept
      <4>2. ~t.ckpt /\ Before(a, t.txn) /\ Durable(l, a) BY <3>1, <3>2, <3>3, <3>4, <3>6, <4>1
      <4>3. Durable(Append(l, t), a) BY <4>2, DurableUnacked
      <4> QED BY <2>1, <2>3, <3>3, <3>4, <4>1, <4>3
    <3> QED BY <3>5, <3>6
  <2> QED BY <2>2, <2>3
<1> QED BY <1>1, <1>2, <1>3 DEF JobOK

(* Power is lost and the journal is opened again.                           *)
LEMMA CrashStep ==
  ASSUME Shape, Crash
  PROVE  Shape' /\ (Kept /\ Fits => Kept')
<1> USE DEF Shape
<1>0. /\ pending' = Nothing /\ job' = NoJob
      /\ sbDisk' \in {sbDisk, IF sbPending THEN sb ELSE sbDisk}
      /\ sb' = sbDisk' /\ head' = sbDisk'.head /\ sbPending' = FALSE
      /\ log' = recover(disk', sbDisk') /\ unchecked' = 0
      /\ acked' = IF lag THEN log' ELSE acked
      /\ lag' = FALSE /\ serial' = serial
  BY DEF Crash, Observe
<1>1. PICK S \in SUBSET Written : disk' = Settle(S) BY DEF Crash
<1>2. /\ Settle(S) \in DiskType
      /\ \A b \in Block : Settle(S)[b] # Zero
           => /\ Settle(S)[b].part \in 1..Settle(S)[b].of
              /\ Settle(S)[b].txn <= serial
  <2>1. CASE job.pc = "flush" BY <2>1, SettleShape
  <2>2. CASE job.pc # "flush"
    <3>1. Settle(S) = disk BY <2>2, NothingSettles
    <3> QED BY <3>1 DEF DiskOK
  <2> QED BY <2>1, <2>2
<1>3. job'.pc = "idle" /\ sbDisk' \in Offsets /\ head' \in Block BY <1>0 DEF NoJob, Offsets
<1>4. DiskOK' BY <1>0, <1>1, <1>2, <1>3 DEF DiskOK
<1>5. JobOK' BY <1>0, <1>3 DEF JobOK
<1>6. log' \in Seq(Entry) /\ Before(log', serial + 1)
  <2>1. PICK d \in Offsets : d = sbDisk' BY <1>3
  <2>2. PICK e \in DiskType : e = disk' BY <1>1, <1>2
  <2>3. serial \in Nat /\ serial + 1 \in Nat BY Constants
  <2>4. ASSUME NEW b \in Block, e[b] # Zero PROVE e[b].txn < serial + 1
    <3>1. e[b].txn <= serial BY <1>1, <1>2, <2>2, <2>4
    <3>2. e[b] \in Entry BY <2>4 DEF DiskType
    <3>3. e[b].txn \in Nat BY <3>2 DEF Entry
    <3> QED BY <2>3, <3>1, <3>3
  <2>5. recover(e, d) \in Seq(Entry) /\ Before(recover(e, d), serial + 1)
    BY <2>3, <2>4, RecoverBefore
  <2> QED BY <1>0, <2>1, <2>2, <2>5
<1>7. acked' \in Seq(Entry) /\ Before(acked', serial' + 1) BY <1>0, <1>6
<1>a. sb' \in Offsets /\ lag' \in BOOLEAN /\ sbPending' \in BOOLEAN /\ serial' \in 0..MaxTxns
  BY <1>0, <1>3
<1>b. unchecked' \in 0..MaxUnchecked BY <1>0, Constants
<1>8. Shape' BY <1>3, <1>4, <1>5, <1>7, <1>a, <1>b
<1>9. ASSUME Kept, Fits PROVE Kept'
  <2>1. Durable(log', acked')
    <3>1. CASE lag
      <4>1. PICK l \in Seq(Entry) : l = log' BY <1>6
      <4>2. Durable(l, l) BY DurableSelf
      <4> QED BY <1>0, <3>1, <4>1, <4>2
    <3>2. CASE ~lag
      <4>1. PICK d \in {sbDisk, IF sbPending THEN sb ELSE sbDisk} : d = sbDisk' BY <1>0
      <4>2. Durable(recover(Settle(S), d), acked) BY <1>9, <3>2, CrashDurable
      <4> QED BY <1>0, <1>1, <3>2, <4>1, <4>2
    <3> QED BY <3>1, <3>2
  <2> HIDE DEF recover, Durable
  <2> QED BY <1>0, <1>3, <2>1 DEF Kept
<1> QED BY <1>8, <1>9

(* One step per action.                                                     *)
LEMMA NextKeeps ==
  ASSUME Shape, [Next]_vars
  PROVE  Shape' /\ (Kept /\ Fits => Kept')
<1>s. TxnBlocks \subseteq 1..N /\ CkptBlocks \subseteq 1..N BY JournalAssumption
<1>u. unchecked \in 0..MaxUnchecked BY DEF Shape
<1>1. CASE CommitPut
  <2>1. PICK s \in TxnBlocks : Start("put", s) BY <1>1 DEF CommitPut
  <2>2. unchecked' \in 0..MaxUnchecked BY <1>1, Constants DEF CommitPut
  <2> QED BY <1>s, <2>1, <2>2, StartStep
<1>2. CASE CommitUnchecked
  <2>1. PICK s \in TxnBlocks : Start("unchecked", s) BY <1>2 DEF CommitUnchecked
  <2>2. unchecked' \in 0..MaxUnchecked BY <1>2, <1>u, Constants DEF CommitUnchecked
  <2> QED BY <1>s, <2>1, <2>2, StartStep
<1>3. CASE Checkpoint
  <2>1. PICK s \in CkptBlocks : Start("ckpt", s) BY <1>3 DEF Checkpoint
  <2>2. unchecked' \in 0..MaxUnchecked BY <1>3, <1>u DEF Checkpoint
  <2> QED BY <1>s, <2>1, <2>2, StartStep
<1>4. CASE FlushData BY <1>4, FlushDataStep
<1>5. CASE FlushSuper
  <2>1. /\ job.pc = "super" /\ Acknowledge
        /\ UNCHANGED <<disk, pending, head, sb, unchecked, serial>>
        /\ sbPending' = FALSE /\ sbDisk' = sb /\ lag' = FALSE
        /\ log' = recover(disk', sbDisk')
    BY <1>5 DEF FlushSuper, Observe
  <2> QED BY <2>1, SuperStep
<1>6. CASE DataFails BY <1>6, DataFailsStep
<1>7. CASE SuperFails
  <2>1. /\ job.pc = "super" /\ Acknowledge
        /\ UNCHANGED <<disk, pending, head, sb, unchecked, serial>>
        /\ sbPending' = FALSE /\ sbDisk' \in {sbDisk, sb} /\ lag' = TRUE
        /\ log' = recover(disk', sbDisk')
    BY <1>7 DEF SuperFails, Observe
  <2> QED BY <2>1, SuperStep
<1>8. CASE Crash BY <1>8, CrashStep
<1>9. CASE UNCHANGED vars
  <2>1. UNCHANGED <<disk, pending, head, sbDisk, sbPending, sb, job, unchecked, serial, acked,
                    lag, log>>
    BY <1>9 DEF vars, ringVars, sbVars, callerVars, histVars
  <2>2. DiskOK' BY <2>1 DEF Shape, DiskOK
  <2>3. JobOK' BY <2>1 DEF Shape, JobOK
  <2>4. Shape' BY <2>1, <2>2, <2>3 DEF Shape
  <2>5. Kept => Kept' BY <2>1 DEF Kept, Mine
  <2> QED BY <2>4, <2>5
<1> QED BY <1>1, <1>2, <1>3, <1>4, <1>5, <1>6, <1>7, <1>8, <1>9 DEF Next

-----------------------------------------------------------------------------
(* Theorems                                                                 *)

(* The offsets stay inside the ring whatever the sizes of the transactions, *)
(* the crashes and the failed writes: pad_and_write() wraps in time and     *)
(* brings the head back when it reaches the end exactly.                    *)
THEOREM OffsetsStayInTheRing == Spec => []JournalTypeOK
<1>1. Init => Shape BY InitHolds DEF JInv
<1>2. Shape /\ [Next]_vars => Shape' BY NextKeeps
<1>3. Shape => JournalTypeOK
  <2> SUFFICES ASSUME Shape PROVE JournalTypeOK OBVIOUS
  <2>1. Written \subseteq Block
    <3>1. CASE job.pc = "flush"
      <4>1. job.at \in Block /\ job.size \in 1..N /\ job.at + job.size <= N
            /\ DOMAIN pending = job.at..(job.at + job.size - 1)
        BY <3>1 DEF Shape, JobOK
      <4>2. job.at..(job.at + job.size - 1) \subseteq Block BY <4>1, Constants DEF Block
      <4> QED BY <4>1, <4>2 DEF Written
    <3>2. CASE job.pc # "flush" BY <3>2 DEF Shape, JobOK, Written, Nothing
    <3> QED BY <3>1, <3>2
  <2> QED BY <2>1 DEF JournalTypeOK, Shape, DiskOK, Offsets
<1> QED BY <1>1, <1>2, <1>3, PTL DEF Spec

(* btier.md 6.1: as long as the ring has room for what is being written, a  *)
(* transaction whose commit_txn() returned 0 is returned by recover(), in   *)
(* commit order, whatever blocks of a later write a crash tears and on      *)
(* whichever side of the superblock flush the crash falls.                  *)
THEOREM AckedIsRecovered == Spec /\ []Fits => []DurableCommit
<1>1. Init => Shape /\ Kept BY InitHolds DEF JInv
<1>2. Shape /\ Kept /\ Fits /\ [Next]_vars => Shape' /\ Kept' BY NextKeeps
<1>3. Kept => DurableCommit BY DEF Kept, DurableCommit
<1> QED BY <1>1, <1>2, <1>3, PTL DEF Spec

-----------------------------------------------------------------------------
(* Transactions of one block always fit                                     *)

Used(d) == Dist(d.ckpt, d.head)

(* How far the journal fills, in hundredths of a block: a put starts below  *)
(* 95 %, adds its block, and MaxUnchecked commits may follow in each life   *)
(* of the process before a put looks at the thresholds again.               *)
Limit(c, k) == (95 * N + 100) + 100 * (c * MaxUnchecked + k)

(* One-block transactions, the data flush not failing after its write       *)
(* succeeded, and a ring whose last 5 % hold the commits nobody counts: the *)
(* sizes the engine uses, where 5 % of a 64 MiB journal are 819 blocks.     *)
Roomy ==
  /\ TxnBlocks = {1} /\ CkptBlocks = {1} /\ FlushMayFail = FALSE
  /\ Limit(MaxCrashes, MaxUnchecked) < 100 * N

(* Where the in-memory head is and how full the journal is, also by the     *)
(* superblock on the disk, which a failed write leaves behind.              *)
Adding == IF job.pc = "flush" /\ job.kind # "ckpt" THEN 1 ELSE 0
Room ==
  /\ crashes \in 0..MaxCrashes
  /\ job.pc # "flush" => head = sb.head
  /\ job.pc = "flush" => job.at = sb.head /\ job.start = sb.head /\ job.size = 1
  /\ 100 * (Used(sb) + Adding) <= Limit(crashes, unchecked)
  /\ 100 * Used(sbDisk) <= Limit(crashes, MaxUnchecked)

(* The limit grows with the commits and with the restarts.                  *)
LEMMA LimitGrows ==
  ASSUME NEW c \in 0..MaxCrashes, NEW k \in 0..MaxUnchecked
  PROVE  /\ Limit(c, k) \in Int /\ 95 * N + 100 <= Limit(c, k)
         /\ Limit(c, k + 1) = Limit(c, k) + 100
         /\ Limit(c, k) <= Limit(c, MaxUnchecked)
         /\ Limit(c, MaxUnchecked) = Limit(c + 1, 0)
         /\ Limit(c, MaxUnchecked) <= Limit(MaxCrashes, MaxUnchecked)
         /\ Limit(MaxCrashes, MaxUnchecked) \in Int
<1>0. MaxCrashes \in Nat /\ MaxUnchecked \in Nat /\ N \in Int BY JournalAssumption
<1> DEFINE p == c * MaxUnchecked
           q == MaxCrashes * MaxUnchecked
           r == (c + 1) * MaxUnchecked
<1>1. p \in Nat /\ q \in Nat /\ r \in Nat BY <1>0
<1>2. r = p + MaxUnchecked BY <1>0
<1>3. p <= q
  <2>1. (MaxCrashes - c) * MaxUnchecked \in Nat BY <1>0
  <2>2. q = p + (MaxCrashes - c) * MaxUnchecked BY <1>0
  <2> HIDE DEF p, q
  <2> QED BY <1>1, <2>1, <2>2
<1>4. /\ Limit(c, k) = (95 * N + 100) + 100 * (p + k)
      /\ Limit(c, k + 1) = (95 * N + 100) + 100 * (p + (k + 1))
      /\ Limit(c, MaxUnchecked) = (95 * N + 100) + 100 * (p + MaxUnchecked)
      /\ Limit(c + 1, 0) = (95 * N + 100) + 100 * (r + 0)
      /\ Limit(MaxCrashes, MaxUnchecked) = (95 * N + 100) + 100 * (q + MaxUnchecked)
  BY DEF Limit
<1> HIDE DEF p, q, r
<1> QED BY <1>0, <1>1, <1>2, <1>3, <1>4

(* ... and what it says of a journal that is Roomy.                         *)
LEMMA RoomConstants ==
  ASSUME Roomy
  PROVE  /\ N \in Int /\ N >= 2 /\ MaxUnchecked \in Nat /\ MaxCrashes \in Nat
         /\ 0 \in 0..MaxCrashes /\ 0 \in 0..MaxUnchecked
<1>0. MaxCrashes \in Nat /\ MaxUnchecked \in Nat /\ N \in Int BY JournalAssumption
<1>1. 0 \in 0..MaxCrashes /\ MaxUnchecked \in 0..MaxUnchecked BY <1>0
<1>2. /\ Limit(0, MaxUnchecked) \in Int /\ 95 * N + 100 <= Limit(0, MaxUnchecked)
      /\ Limit(0, MaxUnchecked) <= Limit(MaxCrashes, MaxUnchecked)
      /\ Limit(MaxCrashes, MaxUnchecked) \in Int
  BY <1>1, LimitGrows
<1> QED BY <1>0, <1>1, <1>2 DEF Roomy

(* The distance of a block to itself, and to the one after it.              *)
LEMMA NextBlock ==
  ASSUME N >= 2, NEW c \in Block, NEW h \in Block, Dist(c, h) + 1 < N
  PROVE  /\ Dist(h, h) = 0
         /\ (h + 1) % N \in Block
         /\ Dist(c, (h + 1) % N) = Dist(c, h) + 1
<1>1. Dist(h, h) = 0
  <2>1. h \in Int BY Constants DEF Block
  <2>2. Dist(h, h) = h - h BY <2>1, RingFacts
  <2> QED BY <2>1, <2>2
<1>2. 1 \in 1..N BY Constants
<1>3. Dist(c, h) \in Int BY RingFacts, Constants
<1>4. (Dist(c, h) + Dist(h, h)) + 1 < N BY <1>1, <1>3
<1>5. /\ (h + 1) % N \in Block
      /\ Dist(c, (h + 1) % N) = (Dist(c, h) + Dist(h, h)) + 1
  BY <1>2, <1>4, HeadMoves
<1> QED BY <1>1, <1>3, <1>5

(* With room left, the write in progress fits.                              *)
LEMMA RoomFits ==
  ASSUME Roomy, Shape, Room
  PROVE  /\ Fits
         /\ Used(sb) \in Nat /\ Used(sbDisk) \in Nat
         /\ Used(sb) + Adding < N
<1>1. /\ sb.ckpt \in Block /\ sb.head \in Block /\ sbDisk.ckpt \in Block /\ sbDisk.head \in Block
      /\ unchecked \in 0..MaxUnchecked
  BY DEF Shape, Offsets
<1>2. Used(sb) \in 0..(N - 1) /\ Used(sbDisk) \in 0..(N - 1) BY <1>1, RingFacts DEF Used
<1>3. N \in Int /\ N >= 2 BY RoomConstants
<1>4. Used(sb) + Adding < N
  <2>1. 100 * (Used(sb) + Adding) <= Limit(crashes, unchecked) /\ crashes \in 0..MaxCrashes
    BY DEF Room
  <2>2. /\ Limit(crashes, unchecked) <= Limit(crashes, MaxUnchecked)
        /\ Limit(crashes, unchecked) \in Int
    BY <1>1, <2>1, LimitGrows
  <2>3. /\ Limit(crashes, MaxUnchecked) <= Limit(MaxCrashes, MaxUnchecked)
        /\ Limit(crashes, MaxUnchecked) \in Int /\ Limit(MaxCrashes, MaxUnchecked) \in Int
    <3>1. MaxUnchecked \in 0..MaxUnchecked BY RoomConstants
    <3> QED BY <2>1, <3>1, LimitGrows
  <2>4. Limit(MaxCrashes, MaxUnchecked) < 100 * N BY DEF Roomy
  <2>5. Adding \in Int BY DEF Adding
  <2> QED BY <1>2, <1>3, <2>1, <2>2, <2>3, <2>4, <2>5
<1>5. ASSUME job.pc = "flush" PROVE Fits
  <2>1. job.at = sb.head /\ job.start = sb.head /\ job.size = 1 BY <1>5 DEF Room
  <2>2. Onto.head = sb.head BY <2>1 DEF Onto
  <2>3. Dist(sb.head, sb.head) = 0
    <3>1. sb.head \in Int BY <1>1, <1>3 DEF Block
    <3>2. Dist(sb.head, sb.head) = sb.head - sb.head BY <1>1, <3>1, RingFacts
    <3> QED BY <3>1, <3>2
  <2>4. (Dist(sb.ckpt, sb.head) + Dist(sb.head, job.at)) + job.size <= N
    BY <1>2, <1>3, <2>1, <2>3 DEF Used
  <2>5. (Dist(Onto.ckpt, Onto.head) + Dist(Onto.head, job.at)) + job.size < N
    <3>1. CASE job.kind = "ckpt"
      <4>1. Onto.ckpt = sb.head BY <2>1, <3>1 DEF Onto
      <4> QED BY <1>3, <2>1, <2>2, <2>3, <4>1
    <3>2. CASE job.kind # "ckpt"
      <4>1. Onto.ckpt = sb.ckpt BY <3>2 DEF Onto
      <4>2. Adding = 1 BY <1>5, <3>2 DEF Adding
      <4> QED BY <1>2, <1>3, <1>4, <2>1, <2>2, <2>3, <4>1, <4>2 DEF Used
    <3> QED BY <3>1, <3>2
  <2>6. \A j \in 0..(N - 1) : j < Dist(Onto.head, job.at) => disk[After(Onto.head, j)] = Zero
    <3>1. Dist(Onto.head, job.at) = 0 BY <2>1, <2>2, <2>3
    <3>2. \A j \in 0..(N - 1) : ~(j < 0) BY <1>3
    <3> QED BY <3>1, <3>2
  <2> QED BY <2>4, <2>5, <2>6 DEF Fits
<1>6. job.pc # "flush" => Fits BY DEF Fits
<1> QED BY <1>2, <1>3, <1>4, <1>5, <1>6

(* A new transaction is counted, a checkpoint is not.                       *)
LEMMA RoomStart ==
  ASSUME Roomy, Shape, Room, NEW kind, Start(kind, 1),
         100 * (Used(sb) + (IF kind # "ckpt" THEN 1 ELSE 0)) <= Limit(crashes, unchecked')
  PROVE  Room'
<1>1. /\ UNCHANGED <<sb, sbDisk, crashes>> /\ job.pc = "idle"
      /\ job' = [pc |-> "flush", kind |-> kind, txn |-> serial + 1, size |-> 1,
                  start |-> head, at |-> WriteAt(1)]
  BY DEF Start, sbVars, boundVars
<1>2. head = sb.head BY <1>1 DEF Room
<1>3. WriteAt(1) = head
  <2>1. head \in Int /\ ~(head + 1 > N) BY Constants DEF Shape, Block
  <2> QED BY <2>1 DEF WriteAt
<1>4. /\ job'.pc = "flush" /\ job'.at = sb.head /\ job'.start = sb.head /\ job'.size = 1
      /\ job'.kind = kind
  BY <1>1, <1>2, <1>3
<1>5. Adding' = IF kind # "ckpt" THEN 1 ELSE 0 BY <1>4 DEF Adding
<1>6. /\ crashes \in 0..MaxCrashes /\ 100 * Used(sbDisk) <= Limit(crashes, MaxUnchecked)
  BY DEF Room
<1>7. Used(sb)' = Used(sb) /\ Used(sbDisk)' = Used(sbDisk) BY <1>1 DEF Used
<1> QED BY <1>1, <1>4, <1>5, <1>6, <1>7 DEF Room, Limit

(* The step of a call that leaves the journal as full as it is, or empties  *)
(* it, or goes back to what the superblock on the disk says.                *)
LEMMA RoomKeeps ==
  ASSUME Roomy, Shape, Room, crashes' \in 0..MaxCrashes,
         job'.pc # "flush", head' = sb'.head, Used(sb') \in Int,
         100 * Used(sb') <= Limit(crashes', unchecked'),
         100 * Used(sbDisk') <= Limit(crashes', MaxUnchecked)
  PROVE  Room'
<1>1. Adding' = 0 BY DEF Adding
<1>2. 100 * (Used(sb') + 0) <= Limit(crashes', unchecked') OBVIOUS
<1> QED BY <1>1, <1>2 DEF Room, Limit, Used

(* The thresholds keep the room: one step per action.                       *)
LEMMA RoomStep ==
  ASSUME Roomy, Shape, Room, [Next]_vars
  PROVE  Room'
<1> DEFINE u == Used(sb)
<1>0. /\ N \in Int /\ N >= 2 /\ MaxUnchecked \in Nat /\ MaxCrashes \in Nat
      /\ 0 \in 0..MaxCrashes /\ 0 \in 0..MaxUnchecked
  BY RoomConstants
<1>m. MaxUnchecked \in 0..MaxUnchecked BY <1>0
<1>1. Fits /\ u \in Nat /\ Used(sbDisk) \in Nat /\ u + Adding < N BY RoomFits
<1>2. /\ crashes \in 0..MaxCrashes /\ unchecked \in 0..MaxUnchecked
      /\ 100 * (u + Adding) <= Limit(crashes, unchecked)
      /\ 100 * Used(sbDisk) <= Limit(crashes, MaxUnchecked)
  BY DEF Room, Shape
<1>3. /\ Limit(crashes, unchecked) \in Int
      /\ Limit(crashes, unchecked + 1) = Limit(crashes, unchecked) + 100
      /\ Limit(crashes, unchecked) <= Limit(crashes, MaxUnchecked)
      /\ 95 * N + 100 <= Limit(crashes, unchecked)
  BY <1>2, LimitGrows
<1>4. /\ Limit(crashes, MaxUnchecked) \in Int /\ Limit(crashes, MaxUnchecked) = Limit(crashes + 1, 0)
      /\ Limit(crashes, 0) \in Int /\ 95 * N + 100 <= Limit(crashes, 0)
  BY <1>2, <1>0, <1>m, LimitGrows
<1>5. /\ sb.ckpt \in Block /\ sb.head \in Block /\ head \in Block BY DEF Shape, Offsets
<1>6. Adding \in 0..1 /\ (job.pc # "flush" => Adding = 0) BY DEF Adding
<1>7. job.pc = "idle" => get_used_bytes = u
  BY DEF Room, get_used_bytes, Used, Dist
<1>8. TxnBlocks = {1} /\ CkptBlocks = {1} /\ FlushMayFail = FALSE BY DEF Roomy
<1> HIDE DEF u
<1>9. CASE CommitPut
  <2>1. Start("put", 1) /\ unchecked' = 0 /\ ~is_near_full(get_used_bytes)
    BY <1>8, <1>9 DEF CommitPut
  <2>2. job.pc = "idle" BY <2>1 DEF Start
  <2>3. u * 100 < 95 * N BY <1>0, <1>1, <1>7, <2>1, <2>2 DEF is_near_full
  <2>4. 100 * (u + 1) <= Limit(crashes, unchecked') BY <1>0, <1>1, <1>4, <2>1, <2>3
  <2> QED BY <2>1, <2>4, RoomStart DEF u
<1>10. CASE CommitUnchecked
  <2>1. Start("unchecked", 1) /\ unchecked' = unchecked + 1 BY <1>8, <1>10 DEF CommitUnchecked
  <2>2. job.pc = "idle" BY <2>1 DEF Start
  <2>3. 100 * (u + 1) <= Limit(crashes, unchecked') BY <1>1, <1>2, <1>3, <1>6, <2>1, <2>2
  <2> QED BY <2>1, <2>3, RoomStart DEF u
<1>11. CASE Checkpoint
  <2>1. Start("ckpt", 1) /\ unchecked' = unchecked BY <1>8, <1>11 DEF Checkpoint
  <2>2. job.pc = "idle" BY <2>1 DEF Start
  <2>3. 100 * (u + 0) <= Limit(crashes, unchecked') BY <1>1, <1>2, <1>6, <2>1, <2>2
  <2> QED BY <2>1, <2>3, RoomStart DEF u
<1>12. CASE FlushData
  <2>1. /\ job.pc = "flush" /\ job' = [job EXCEPT !.pc = "super"]
        /\ sb' = [ckpt |-> IF job.kind = "ckpt" THEN job.start ELSE sb.ckpt, head |-> head]
        /\ UNCHANGED <<head, sbDisk, unchecked, crashes>>
    BY <1>12 DEF FlushData, callerVars, boundVars
  <2>2. job'.pc = "super" BY <2>1 DEF Shape, JobOK
  <2>3. job.at = sb.head /\ job.start = sb.head /\ job.size = 1 BY <2>1 DEF Room
  <2>4. head = (sb.head + 1) % N BY <2>1, <2>3 DEF Shape, JobOK
  <2>5. Used(sb') \in Int /\ 100 * Used(sb') <= Limit(crashes, unchecked)
    <3>1. CASE job.kind = "ckpt"
      <4>1. sb'.ckpt = sb.head /\ sb'.head = (sb.head + 1) % N BY <2>1, <2>3, <2>4, <3>1
      <4>2. Dist(sb.head, sb.head) = 0
        <5>1. sb.head \in Int BY <1>0, <1>5 DEF Block
        <5>2. Dist(sb.head, sb.head) = sb.head - sb.head BY <1>5, <5>1, RingFacts
        <5> QED BY <5>1, <5>2
      <4>3. Dist(sb.head, sb.head) + 1 < N
        <5>1. N > 20
          <6>1. /\ Limit(crashes, unchecked) <= Limit(crashes, MaxUnchecked)
                /\ Limit(crashes, MaxUnchecked) <= Limit(MaxCrashes, MaxUnchecked)
                /\ Limit(MaxCrashes, MaxUnchecked) \in Int
            BY <1>2, <1>3, LimitGrows
          <6>2. Limit(MaxCrashes, MaxUnchecked) < 100 * N BY DEF Roomy
          <6> QED BY <1>0, <1>3, <1>4, <6>1, <6>2
        <5> QED BY <1>0, <4>2, <5>1
      <4>4. Dist(sb.head, (sb.head + 1) % N) = Dist(sb.head, sb.head) + 1
        BY <1>0, <1>5, <4>3, NextBlock
      <4>5. Used(sb') = 1 BY <4>1, <4>2, <4>4 DEF Used
      <4> QED BY <1>0, <1>3, <4>5
    <3>2. CASE job.kind # "ckpt"
      <4>1. sb'.ckpt = sb.ckpt /\ sb'.head = (sb.head + 1) % N BY <2>1, <2>4, <3>2
      <4>2. Adding = 1 BY <2>1, <3>2 DEF Adding
      <4>3. Dist(sb.ckpt, sb.head) + 1 < N BY <1>1, <4>2 DEF u, Used
      <4>4. Dist(sb.ckpt, (sb.head + 1) % N) = Dist(sb.ckpt, sb.head) + 1
        BY <1>0, <1>5, <4>3, NextBlock
      <4>5. Used(sb') = u + 1 BY <4>1, <4>4 DEF u, Used
      <4> QED BY <1>1, <1>2, <4>2, <4>5
    <3> QED BY <3>1, <3>2
  <2>6. head' = sb'.head BY <2>1
  <2> QED BY <1>2, <2>1, <2>2, <2>5, <2>6, RoomKeeps
<1>13. ASSUME job.pc = "super", Acknowledge, UNCHANGED <<head, sb, unchecked, crashes>>,
              sbDisk' \in {sbDisk, sb}
       PROVE  Room'
  <2>1. job'.pc = "idle" BY <1>13 DEF Acknowledge, NoJob
  <2>2. head = sb.head BY <1>13 DEF Room
  <2>3. Used(sb') = u /\ 100 * u <= Limit(crashes, unchecked) BY <1>1, <1>2, <1>6, <1>13 DEF u
  <2>4. 100 * Used(sbDisk') <= Limit(crashes, MaxUnchecked)
    <3>1. CASE sbDisk' = sbDisk BY <1>2, <3>1
    <3>2. CASE sbDisk' = sb
      <4>1. Used(sbDisk') = u BY <3>2 DEF u
      <4> QED BY <1>1, <1>3, <1>4, <2>3, <4>1
    <3> QED BY <1>13, <3>1, <3>2
  <2>5. crashes' = crashes /\ unchecked' = unchecked /\ head' = sb'.head BY <1>13, <2>2
  <2>6. Used(sb') \in Int /\ 100 * Used(sb') <= Limit(crashes, unchecked) BY <1>1, <2>3
  <2> QED BY <1>2, <2>1, <2>4, <2>5, <2>6, RoomKeeps
<1>14. CASE FlushSuper BY <1>13, <1>14 DEF FlushSuper, boundVars
<1>15. CASE SuperFails BY <1>13, <1>15 DEF SuperFails
<1>16. CASE DataFails
  <2>1. /\ job.pc = "flush" /\ job' = NoJob /\ head' \in {job.at} \cup {}
        /\ UNCHANGED <<sb, sbDisk, unchecked, crashes>>
    BY <1>8, <1>16 DEF DataFails, callerVars
  <2>2. job'.pc = "idle" /\ head' = sb'.head BY <2>1 DEF NoJob, Room
  <2>3. Used(sb') = u BY <2>1 DEF u
  <2>4. 100 * u <= Limit(crashes, unchecked) BY <1>1, <1>2, <1>3, <1>6
  <2>5. Used(sb') \in Int /\ 100 * Used(sb') <= Limit(crashes, unchecked) BY <1>1, <2>3, <2>4
  <2> QED BY <1>2, <2>1, <2>2, <2>5, RoomKeeps
<1>17. CASE Crash
  <2>1. /\ crashes < MaxCrashes /\ crashes' = crashes + 1 /\ job' = NoJob /\ unchecked' = 0
        /\ sbDisk' \in {sbDisk, sb} /\ sb' = sbDisk' /\ head' = sb'.head
    BY <1>17 DEF Crash
  <2>2. job'.pc = "idle" /\ crashes' \in 0..MaxCrashes BY <1>0, <1>2, <2>1 DEF NoJob
  <2>3. Used(sbDisk') \in Int /\ 100 * Used(sbDisk') <= Limit(crashes, MaxUnchecked)
    <3>1. CASE sbDisk' = sbDisk BY <1>1, <1>2, <3>1
    <3>2. CASE sbDisk' = sb
      <4>1. Used(sbDisk') = u BY <3>2 DEF u
      <4> QED BY <1>1, <1>2, <1>3, <1>4, <1>6, <4>1
    <3> QED BY <2>1, <3>1, <3>2
  <2>4. 100 * Used(sb') <= Limit(crashes', unchecked') BY <1>4, <2>1, <2>3
  <2>5. 100 * Used(sbDisk') <= Limit(crashes', MaxUnchecked)
    <3>1. PICK c \in 0..MaxCrashes : c = crashes' BY <2>2
    <3>2. Limit(c, 0) <= Limit(c, MaxUnchecked) /\ Limit(c, 0) \in Int BY <1>0, LimitGrows
    <3>3. Limit(c, MaxUnchecked) \in Int BY <1>m, LimitGrows
    <3> QED BY <1>4, <2>1, <2>3, <3>1, <3>2, <3>3
  <2> QED BY <2>1, <2>2, <2>3, <2>4, <2>5, RoomKeeps
<1>18. CASE UNCHANGED vars
  <2>1. UNCHANGED <<job, head, sb, sbDisk, crashes, unchecked>>
    BY <1>18 DEF vars, ringVars, sbVars, callerVars, boundVars
  <2> QED BY <2>1 DEF Room, Used, Adding, Limit
<1> QED BY <1>9, <1>10, <1>11, <1>12, <1>14, <1>15, <1>16, <1>17, <1>18 DEF Next

(* The journal never fills beyond the limit.                                *)
LEMMA RoomInvariance == ASSUME Roomy PROVE Spec => [](Shape /\ Room)
<1>1. Init => Shape /\ Room
  <2> SUFFICES ASSUME Init PROVE Shape /\ Room OBVIOUS
  <2>1. Shape BY InitHolds DEF JInv
  <2>2. /\ crashes = 0 /\ unchecked = 0 /\ job.pc = "idle" /\ head = sb.head /\ sbDisk = sb
        /\ sb = [ckpt |-> 0, head |-> 0]
    BY DEF Init, NoJob
  <2>3. Used(sb) = 0
    <3>1. Dist(0, 0) = 0 - 0 BY Constants, RingFacts
    <3> QED BY <2>2, <3>1 DEF Used
  <2>4. Adding = 0 BY <2>2 DEF Adding
  <2>5. /\ N \in Int /\ N >= 2 /\ 0 \in 0..MaxCrashes /\ 0 \in 0..MaxUnchecked
        /\ MaxUnchecked \in 0..MaxUnchecked
    BY RoomConstants
  <2>6. Limit(0, 0) \in Int /\ 95 * N + 100 <= Limit(0, 0) BY <2>5, LimitGrows
  <2>7. Limit(0, MaxUnchecked) \in Int /\ 95 * N + 100 <= Limit(0, MaxUnchecked)
    BY <2>5, LimitGrows
  <2>8. 100 * (Used(sb) + Adding) <= Limit(0, 0) /\ 100 * Used(sb) <= Limit(0, MaxUnchecked)
    BY <2>3, <2>4, <2>5, <2>6, <2>7
  <2> QED BY <2>1, <2>2, <2>5, <2>8 DEF Room
<1>2. Shape /\ Room /\ [Next]_vars => Shape' /\ Room' BY NextKeeps, RoomStep
<1> QED BY <1>1, <1>2, PTL DEF Spec

(* needs_checkpoint() and is_near_full() do what nothing in pad_and_write() *)
(* does: with transactions of one block no write reaches the blocks that    *)
(* the superblock names, around the ring, after crashes, and when the       *)
(* superblock on the disk is behind.                                        *)
THEOREM OneBlockFits == ASSUME Roomy PROVE Spec => []Fits
<1>1. Shape /\ Room => Fits BY RoomFits
<1> QED BY <1>1, RoomInvariance, PTL

(* btier.md 6.1 for the transactions of one block, without a further        *)
(* condition: what commit_txn() acknowledged is recovered, in commit order. *)
THEOREM OneBlockIsRecovered == ASSUME Roomy PROVE Spec => []DurableCommit
BY OneBlockFits, AckedIsRecovered, PTL

-----------------------------------------------------------------------------
(* The journal is a log                                                     *)

(* What a later recover() may return where l could have been returned.      *)
Follows(l, m) == l = m \/ Log!IsExtension(l, m) \/ Log!IsReplacement(l, m)

(* The write in progress is clear of the blocks that the superblock on the  *)
(* disk names, which is behind the one in memory after a failed superblock  *)
(* write.                                                                   *)
Clear ==
  job.pc = "flush" =>
    (Dist(sbDisk.ckpt, sbDisk.head) + Dist(sbDisk.head, job.at)) + job.size <= N

(* The superblock in memory leads to what the log on the disk may become.   *)
InLine ==
  /\ log = recover(disk, sbDisk)
  /\ Log!InCommitOrder(log) /\ Log!InCommitOrder(recover(disk, sb))
  /\ Follows(log, recover(disk, sb))

(* What it means to be the beginning of a longer log.                       *)
LEMMA Extension ==
  ASSUME NEW l \in Seq(Entry), NEW m \in Seq(Entry)
  PROVE  Log!IsExtension(l, m)
           <=> Len(m) > Len(l) /\ \A i \in 1..Len(l) : m[i] = l[i]
<1>0. Len(l) \in Nat /\ Len(m) \in Nat OBVIOUS
<1>1. ASSUME Len(m) > Len(l)
      PROVE  SubSeq(m, 1, Len(l)) = l <=> \A i \in 1..Len(l) : m[i] = l[i]
  <2>1. SubSeq(m, 1, Len(l)) = [i \in 1..Len(l) |-> m[i]]
    <3>1. SubSeq(m, 1, Len(l)) = [i \in 1..((1 + Len(l)) - 1) |-> m[(1 + i) - 1]]
      BY <1>0, <1>1
    <3>2. (1 + Len(l)) - 1 = Len(l) /\ \A i \in 1..Len(l) : (1 + i) - 1 = i BY <1>0
    <3> QED BY <3>1, <3>2
  <2>2. l = [i \in 1..Len(l) |-> l[i]] OBVIOUS
  <2> QED BY <2>1, <2>2
<1> QED BY <1>1 DEF Log!IsExtension

(* One more transaction at the end of a log.                                *)
LEMMA FollowsAppend ==
  ASSUME NEW l \in Seq(Entry), NEW m \in Seq(Entry), NEW t \in Entry,
         Follows(l, m), Log!InCommitOrder(m), Before(m, t.txn)
  PROVE  Follows(l, Append(m, t)) /\ Log!InCommitOrder(Append(m, t))
<1> DEFINE n == Append(m, t)
<1>0. /\ n \in Seq(Entry) /\ Len(m) \in Nat /\ Len(l) \in Nat /\ Len(n) = Len(m) + 1
      /\ DOMAIN m = 1..Len(m) /\ DOMAIN n = 1..(Len(m) + 1)
      /\ \A i \in 1..Len(m) : n[i] = m[i]
      /\ n[Len(m) + 1] = t
  BY Appended
<1> HIDE DEF n
<1>1. ASSUME NEW i \in 1..(Len(n) - 1) PROVE n[i].txn < n[i + 1].txn
  <2>1. CASE i = Len(m)
    <3>1. i \in 1..Len(m) /\ n[i] = m[i] /\ n[i + 1] = t BY <1>0, <2>1
    <3> QED BY <1>0, <3>1 DEF Before
  <2>2. CASE i # Len(m)
    <3>0. Len(n) - 1 = Len(m) BY <1>0
    <3>1. i \in 1..(Len(m) - 1) /\ i \in 1..Len(m) /\ i + 1 \in 1..Len(m)
      <4> DEFINE k == Len(m)
      <4>1. k \in Nat /\ i \in 1..k /\ i # k BY <1>0, <2>2, <3>0
      <4> HIDE DEF k
      <4>2. i \in 1..(k - 1) /\ i + 1 \in 1..k BY <4>1
      <4> QED BY <4>1, <4>2 DEF k
    <3>2. n[i] = m[i] /\ n[i + 1] = m[i + 1] BY <1>0, <3>1
    <3> QED BY <3>1, <3>2 DEF Log!InCommitOrder
  <2> QED BY <2>1, <2>2
<1>2. Log!InCommitOrder(n) BY <1>1 DEF Log!InCommitOrder
<1>3. CASE l = m
  <2>1. Len(n) > Len(l) /\ \A i \in 1..Len(l) : n[i] = l[i] BY <1>0, <1>3
  <2>2. Log!IsExtension(l, n) BY <1>0, <2>1, Extension
  <2> QED BY <1>2, <2>2 DEF Follows, n
<1>4. CASE Log!IsExtension(l, m)
  <2>1. Len(m) > Len(l) /\ \A i \in 1..Len(l) : m[i] = l[i] BY <1>4, Extension
  <2>2. ASSUME NEW i \in 1..Len(l) PROVE n[i] = l[i]
    <3>1. i \in 1..Len(m) BY <1>0, <2>1
    <3> QED BY <1>0, <2>1, <3>1
  <2>3. Len(n) > Len(l) BY <1>0, <2>1
  <2>4. Log!IsExtension(l, n) BY <1>0, <2>2, <2>3, Extension
  <2> QED BY <1>2, <2>4 DEF Follows, n
<1>5. CASE Log!IsReplacement(l, m)
  <2>1. m # <<>> /\ m[1].ckpt /\ \A i \in DOMAIN l : l[i].txn < m[1].txn
    BY <1>5 DEF Log!IsReplacement
  <2>2. Len(m) # 0 BY <2>1
  <2>3. 1 \in 1..Len(m) BY <1>0, <2>2
  <2>4. n[1] = m[1] BY <1>0, <2>3
  <2>5. n # <<>>
    <3>1. Len(n) # 0 BY <1>0
    <3> QED BY <3>1
  <2>6. Log!IsReplacement(l, n) BY <2>1, <2>4, <2>5 DEF Log!IsReplacement
  <2> QED BY <1>2, <2>6 DEF Follows, n
<1> QED BY <1>3, <1>4, <1>5 DEF Follows

(* A checkpoint in place of a log of earlier transactions.                  *)
LEMMA FollowsCheckpoint ==
  ASSUME NEW l \in Seq(Entry), NEW t \in Entry, t.ckpt, Before(l, t.txn)
  PROVE  Follows(l, <<t>>) /\ Log!InCommitOrder(<<t>>)
<1>1. <<t>>[1] = t /\ <<t>> # <<>> /\ Len(<<t>>) = 1 OBVIOUS
<1>2. Log!IsReplacement(l, <<t>>) BY <1>1 DEF Log!IsReplacement, Before
<1>3. \A i \in 1..(Len(<<t>>) - 1) : FALSE BY <1>1
<1>4. Log!InCommitOrder(<<t>>) BY <1>3 DEF Log!InCommitOrder
<1> QED BY <1>2, <1>4 DEF Follows

(* With room for the write, what a crash would recover changes only by the  *)
(* superblock, and only forward: one step per action.                       *)
LEMMA LogStep ==
  ASSUME Shape, InLine, Fits, Clear, [Next]_vars
  PROVE  InLine' /\ [Log!Extend \/ Log!Replace]_log
<1> USE DEF Shape
<1>0. /\ disk \in DiskType /\ sb \in Offsets /\ sbDisk \in Offsets BY DEF DiskOK
<1> DEFINE mem == recover(disk, sb)
<1>1. mem \in Seq(Entry) /\ log \in Seq(Entry) BY <1>0, RecoverElements DEF InLine
<1>2. /\ log = recover(disk, sbDisk) /\ Follows(log, mem)
      /\ Log!InCommitOrder(log) /\ Log!InCommitOrder(mem)
  BY DEF InLine
<1>3. Follows(log, log) BY DEF Follows
<1>4. ASSUME disk' = disk, sb' = sb, sbDisk' \in {sbDisk, sb}, log' = recover(disk', sbDisk')
      PROVE  InLine' /\ [Log!Extend \/ Log!Replace]_log
  <2>1. log' \in {log, mem} /\ recover(disk', sb') = mem BY <1>2, <1>4
  <2>2. Follows(mem, mem) BY DEF Follows
  <2> HIDE DEF mem
  <2>3. InLine' BY <1>2, <1>4, <2>1, <2>2 DEF InLine
  <2>4. log' = log \/ Log!Extend \/ Log!Replace
    BY <1>2, <2>1 DEF Follows, Log!Extend, Log!Replace
  <2> QED BY <2>3, <2>4
<1>5. ASSUME job.pc = "flush", NEW S \in SUBSET Written
      PROVE  recover(Settle(S), sbDisk) = log /\ recover(Settle(S), sb) = mem
  <2>1. PICK d \in Offsets : d = sbDisk BY <1>0
  <2>2. (Dist(d.ckpt, d.head) + Dist(d.head, job.at)) + job.size <= N BY <1>5, <2>1 DEF Clear
  <2>3. recover(Settle(S), d) = recover(disk, d) BY <1>5, <2>2, SettleFrame
  <2>4. recover(Settle(S), sb) = mem BY <1>5, SettleKeeps
  <2> QED BY <1>2, <2>1, <2>3, <2>4
<1> HIDE DEF mem
<1>6. ASSUME UNCHANGED <<disk, sbDisk, sb, log>>
      PROVE  InLine' /\ [Log!Extend \/ Log!Replace]_log
  <2>1. InLine' BY <1>6 DEF InLine
  <2> QED BY <1>6, <2>1
<1>7. CASE CommitPut \/ CommitUnchecked \/ Checkpoint \/ UNCHANGED vars
  <2>1. UNCHANGED <<disk, sbDisk, sb, log>>
    BY <1>7 DEF CommitPut, CommitUnchecked, Checkpoint, Start, vars, ringVars, sbVars
  <2> QED BY <1>6, <2>1
<1>8. CASE FlushData
  <2>0. /\ job.pc = "flush" /\ disk' = Settle(Written) /\ sbDisk' = sbDisk
        /\ sb' = [ckpt |-> IF job.kind = "ckpt" THEN job.start ELSE sb.ckpt, head |-> head]
        /\ log' = recover(disk', sbDisk')
    BY <1>8 DEF FlushData, Observe
  <2>1. sb' \in Offsets /\ sb'.ckpt = Onto.ckpt /\ sb'.head = head
    BY <2>0 DEF Offsets, JobOK, Onto
  <2>2. log' = log BY <1>5, <2>0
  <2>3. recover(disk', sb') = Append(recover(disk, Onto), Mine)
    <3>1. PICK f \in Offsets : f = sb' BY <2>1
    <3>2. recover(Settle(Written), f) = Append(recover(disk, Onto), Mine)
      BY <2>0, <2>1, <3>1, FlushAppends
    <3> QED BY <2>0, <3>1, <3>2
  <2>4. Mine \in Entry /\ Mine.txn = serial /\ Mine.ckpt = (job.kind = "ckpt") /\ serial \in Nat
    BY <2>0, MineType
  <2>5. PICK t \in Entry : t = Mine BY <2>4
  <2>6. \A b \in Block : disk[b] # Zero => disk[b].txn < serial BY <2>0 DEF DiskOK
  <2>7. Follows(log, recover(disk', sb')) /\ Log!InCommitOrder(recover(disk', sb'))
    <3>1. CASE job.kind = "ckpt"
      <4>1. Onto \in Offsets /\ Onto.head = Onto.ckpt BY <2>0, <3>1 DEF Onto, Offsets, JobOK
      <4>2. PICK o \in Offsets : o = Onto BY <4>1
      <4>3. recover(disk, o) = <<>> BY <1>0, <4>1, <4>2, RecoverEmpty
      <4>4. Append(<<>>, t) = <<t>> OBVIOUS
      <4>5. recover(disk', sb') = <<t>> BY <2>3, <2>5, <4>2, <4>3, <4>4
      <4>6. PICK d \in Offsets : d = sbDisk BY <1>0
      <4>7. Before(recover(disk, d), serial) BY <1>0, <2>4, <2>6, RecoverBefore
      <4>8. PICK l \in Seq(Entry) : l = log BY <1>1
      <4>9. t.ckpt /\ Before(l, t.txn) BY <1>2, <2>4, <2>5, <3>1, <4>6, <4>7, <4>8
      <4>10. Follows(l, <<t>>) /\ Log!InCommitOrder(<<t>>) BY <4>9, FollowsCheckpoint
      <4> QED BY <4>5, <4>8, <4>10
    <3>2. CASE job.kind # "ckpt"
      <4>1. recover(disk', sb') = Append(mem, t) BY <2>3, <2>5, <3>2 DEF Onto, mem
      <4>2. PICK d \in Offsets : d = sb BY <1>0
      <4>3. Before(recover(disk, d), serial) BY <1>0, <2>4, <2>6, RecoverBefore
      <4>4. Before(mem, t.txn) BY <2>4, <2>5, <4>2, <4>3 DEF mem
      <4>5. PICK l \in Seq(Entry) : l = log BY <1>1
      <4>6. PICK m \in Seq(Entry) : m = mem BY <1>1
      <4>7. Follows(l, m) /\ Log!InCommitOrder(m) /\ Before(m, t.txn) BY <1>2, <4>4, <4>5, <4>6
      <4>8. Follows(l, Append(m, t)) /\ Log!InCommitOrder(Append(m, t)) BY <4>7, FollowsAppend
      <4> QED BY <4>1, <4>5, <4>6, <4>8
    <3> QED BY <3>1, <3>2
  <2>8. InLine' BY <1>2, <2>0, <2>2, <2>7 DEF InLine
  <2> QED BY <2>2, <2>8
<1>9. CASE FlushSuper \/ SuperFails
  <2>1. disk' = disk /\ sb' = sb /\ sbDisk' \in {sbDisk, sb} /\ log' = recover(disk', sbDisk')
    BY <1>9 DEF FlushSuper, SuperFails, Observe
  <2> QED BY <1>4, <2>1
<1>10. CASE DataFails
  <2>1. /\ job.pc = "flush" /\ sb' = sb /\ sbDisk' = sbDisk /\ log' = recover(disk', sbDisk')
    BY <1>10 DEF DataFails, Observe
  <2>2. PICK S \in SUBSET Written : disk' = Settle(S) BY <1>10 DEF DataFails
  <2>3. log' = log /\ recover(disk', sb') = mem BY <1>5, <2>1, <2>2
  <2>4. InLine' BY <1>2, <2>1, <2>3 DEF InLine
  <2> QED BY <2>3, <2>4
<1>11. CASE Crash
  <2>1. /\ sbDisk' \in {sbDisk, IF sbPending THEN sb ELSE sbDisk} /\ sb' = sbDisk'
        /\ log' = recover(disk', sbDisk')
    BY <1>11 DEF Crash, Observe
  <2>2. PICK S \in SUBSET Written : disk' = Settle(S) BY <1>11 DEF Crash
  <2>3. log' \in {log, mem}
    <3>1. CASE job.pc = "flush"
      <4>1. sbDisk' = sbDisk BY <2>1, <3>1 DEF JobOK
      <4> QED BY <1>5, <2>1, <2>2, <3>1, <4>1
    <3>2. CASE job.pc # "flush"
      <4>1. disk' = disk BY <2>2, <3>2, NothingSettles
      <4>2. sbDisk' = sbDisk \/ sbDisk' = sb BY <2>1
      <4> QED BY <1>2, <2>1, <4>1, <4>2 DEF mem
    <3> QED BY <3>1, <3>2
  <2>4. Follows(log', log') BY DEF Follows
  <2>5. Log!InCommitOrder(log') BY <1>2, <2>3
  <2>6. InLine' BY <2>1, <2>4, <2>5 DEF InLine
  <2>7. log' = log \/ Log!Extend \/ Log!Replace
    BY <1>2, <2>3 DEF Follows, Log!Extend, Log!Replace
  <2> QED BY <2>6, <2>7
<1> QED BY <1>7, <1>8, <1>9, <1>10, <1>11 DEF Next

(* As long as the ring has room, the journal on the disk is a log: what     *)
(* recover() would return only grows at its end or is replaced by a later   *)
(* checkpoint, for transactions of any size, through torn writes, failed    *)
(* superblock writes and crashes.                                           *)
THEOREM JournalIsALog == Spec /\ []Fits /\ []Clear => ImplementsLog
<1>1. Init => Shape /\ InLine /\ Log!LogInit
  <2> SUFFICES ASSUME Init PROVE Shape /\ InLine /\ Log!LogInit OBVIOUS
  <2>1. Shape BY InitHolds DEF JInv
  <2>2. disk \in DiskType /\ sb \in Offsets /\ sbDisk = sb /\ sb.head = sb.ckpt /\ log = <<>>
    BY <2>1 DEF Shape, DiskOK, Init
  <2>3. recover(disk, sb) = <<>> BY <2>2, RecoverEmpty
  <2>4. Log!InCommitOrder(<<>>)
    <3>1. \A i \in 1..(Len(<<>>) - 1) : FALSE OBVIOUS
    <3> QED BY <3>1 DEF Log!InCommitOrder
  <2> QED BY <2>1, <2>2, <2>3, <2>4 DEF InLine, Follows, Log!LogInit
<1>2. Shape /\ InLine /\ Fits /\ Clear /\ [Next]_vars
        => Shape' /\ InLine' /\ [Log!Extend \/ Log!Replace]_log
  BY NextKeeps, LogStep
<1> QED BY <1>1, <1>2, PTL DEF Spec, ImplementsLog, Log!LogSpec

(* Fewer failed superblock writes in all than blocks are left to spare: as  *)
(* many as that the head may run ahead of the superblock on the disk.       *)
FewErrors == Limit(MaxCrashes, MaxUnchecked) + 100 * (MaxIoErrors + 1) <= 100 * N

Unwritten == IF job.pc = "super" THEN 1 ELSE 0
Behind ==
  /\ ioErrors \in 0..MaxIoErrors
  /\ Dist(sbDisk.head, sb.head) <= ioErrors + Unwritten

(* With few I/O errors the head on disk stays less than a ring behind.      *)
LEMMA FewErrorsFacts ==
  ASSUME Roomy, FewErrors
  PROVE  /\ MaxIoErrors \in Nat /\ N \in Int /\ N >= 2 /\ MaxIoErrors + 1 < N
         /\ Limit(MaxCrashes, MaxUnchecked) \in Int
<1>1. MaxIoErrors \in Nat /\ N \in Int /\ N >= 2 BY JournalAssumption, RoomConstants
<1>2. 0 \in 0..MaxCrashes /\ 0 \in 0..MaxUnchecked BY RoomConstants
<1>3. /\ Limit(0, 0) \in Int /\ 95 * N + 100 <= Limit(0, 0)
      /\ Limit(0, 0) <= Limit(0, MaxUnchecked) /\ Limit(MaxCrashes, MaxUnchecked) \in Int
      /\ Limit(0, MaxUnchecked) <= Limit(MaxCrashes, MaxUnchecked)
  BY <1>2, LimitGrows
<1>4. Limit(0, MaxUnchecked) \in Int
  <2>1. MaxUnchecked \in 0..MaxUnchecked BY RoomConstants
  <2> QED BY <1>2, <2>1, LimitGrows
<1> QED BY <1>1, <1>3, <1>4 DEF FewErrors

(* The head runs ahead by one block with every superblock write that fails. *)
LEMMA BehindStep ==
  ASSUME Roomy, FewErrors, Shape, Room, Behind, [Next]_vars
  PROVE  Behind'
<1> DEFINE k == Dist(sbDisk.head, sb.head)
<1>0. MaxIoErrors \in Nat /\ N \in Int /\ N >= 2 /\ MaxIoErrors + 1 < N BY FewErrorsFacts
<1>1. sb.head \in Block /\ sbDisk.head \in Block BY DEF Shape, Offsets
<1>2. k \in 0..(N - 1) BY <1>1, RingFacts
<1>3. ioErrors \in 0..MaxIoErrors /\ k <= ioErrors + Unwritten BY DEF Behind
<1>4. ASSUME NEW d \in Offsets PROVE Dist(d.head, d.head) = 0
  <2>1. d.head \in Block /\ d.head \in Int BY <1>0 DEF Offsets, Block
  <2>2. Dist(d.head, d.head) = d.head - d.head BY <2>1, RingFacts
  <2> QED BY <2>1, <2>2
<1>5. Unwritten \in 0..1 /\ (job.pc # "super" => Unwritten = 0) BY DEF Unwritten
<1> HIDE DEF k
<1>6. ASSUME sbDisk' = sb', sb' \in Offsets, ioErrors' \in 0..MaxIoErrors PROVE Behind'
  <2>1. PICK d \in Offsets : d = sb' BY <1>6
  <2>2. Dist(sbDisk'.head, sb'.head) = 0 BY <1>4, <1>6, <2>1
  <2>3. PICK w \in 0..1 : w = Unwritten' BY DEF Unwritten
  <2>4. Dist(sbDisk.head, sb.head)' = 0 BY <2>2 DEF Dist
  <2>5. PICK i \in 0..MaxIoErrors : i = ioErrors' BY <1>6
  <2>6. 0 <= i + w BY <1>0
  <2> QED BY <1>6, <2>3, <2>4, <2>5, <2>6 DEF Behind
<1>7. ASSUME UNCHANGED <<sb, sbDisk>>, ioErrors' \in 0..MaxIoErrors,
             ioErrors + Unwritten <= ioErrors' + Unwritten'
      PROVE  Behind'
  <2>1. Dist(sbDisk.head, sb.head)' = k BY <1>7 DEF k, Dist
  <2>2. PICK w \in 0..1 : w = Unwritten' BY DEF Unwritten
  <2>3. PICK i \in 0..MaxIoErrors : i = ioErrors' BY <1>7
  <2>4. ioErrors + Unwritten <= i + w BY <1>7, <2>2, <2>3
  <2>5. k <= i + w BY <1>0, <1>2, <1>3, <1>5, <2>4
  <2> QED BY <1>7, <2>1, <2>2, <2>3, <2>5 DEF Behind
<1>8. CASE CommitPut \/ CommitUnchecked \/ Checkpoint \/ UNCHANGED vars
  <2>1. UNCHANGED <<sb, sbDisk, ioErrors>>
    BY <1>8 DEF CommitPut, CommitUnchecked, Checkpoint, Start, vars, sbVars, boundVars
  <2>2. (job.pc = "idle") \/ job' = job
    BY <1>8 DEF CommitPut, CommitUnchecked, Checkpoint, Start, vars
  <2>3. PICK w \in 0..1 : w = Unwritten' BY DEF Unwritten
  <2>4. Unwritten = 0 \/ w = Unwritten BY <1>5, <2>2, <2>3 DEF Unwritten
  <2>5. ioErrors + Unwritten <= ioErrors + w BY <1>0, <1>3, <1>5, <2>4
  <2>6. ioErrors + Unwritten <= ioErrors' + Unwritten' BY <2>1, <2>3, <2>5
  <2> QED BY <1>3, <1>7, <2>1, <2>6
<1>9. CASE FlushData
  <2>1. /\ job.pc = "flush" /\ job' = [job EXCEPT !.pc = "super"]
        /\ sb' = [ckpt |-> IF job.kind = "ckpt" THEN job.start ELSE sb.ckpt, head |-> head]
        /\ UNCHANGED <<head, sbDisk, ioErrors>>
    BY <1>9 DEF FlushData, boundVars
  <2>2. job'.pc = "super" BY <2>1 DEF Shape, JobOK
  <2>3. head = (sb.head + 1) % N BY <2>1 DEF Shape, JobOK, Room
  <2>4. Unwritten = 0 /\ Unwritten' = 1 BY <2>1, <2>2 DEF Unwritten
  <2>5. k + 1 < N BY <1>0, <1>2, <1>3, <2>4
  <2>6. Dist(sbDisk.head, (sb.head + 1) % N) = k + 1 BY <1>0, <1>1, <2>5, NextBlock DEF k
  <2>7. Dist(sbDisk.head, sb.head)' = k + 1 BY <2>1, <2>3, <2>6 DEF Dist
  <2> QED BY <1>0, <1>2, <1>3, <2>1, <2>4, <2>7 DEF Behind
<1>10. CASE FlushSuper
  <2>1. sbDisk' = sb' /\ sb' = sb /\ ioErrors' = ioErrors BY <1>10 DEF FlushSuper, boundVars
  <2> QED BY <1>3, <1>6, <2>1 DEF Shape
<1>11. CASE SuperFails
  <2>1. /\ job.pc = "super" /\ sb' = sb /\ sbDisk' \in {sbDisk, sb} /\ ioErrors' = ioErrors + 1
        /\ ioErrors < MaxIoErrors /\ job' = NoJob
    BY <1>11 DEF SuperFails, IoError, Acknowledge
  <2>2. ioErrors' \in 0..MaxIoErrors BY <1>0, <1>3, <2>1
  <2>3. Unwritten' = 0 BY <2>1 DEF Unwritten, NoJob
  <2>4. ioErrors + Unwritten <= ioErrors' + Unwritten' BY <1>3, <1>5, <2>1, <2>3
  <2>5. CASE sbDisk' = sbDisk BY <1>7, <2>1, <2>2, <2>4, <2>5
  <2>6. CASE sbDisk' = sb BY <1>6, <2>1, <2>2, <2>6 DEF Shape
  <2> QED BY <2>1, <2>5, <2>6
<1>12. CASE DataFails
  <2>1. /\ job.pc = "flush" /\ sb' = sb /\ sbDisk' = sbDisk /\ ioErrors' = ioErrors + 1
        /\ ioErrors < MaxIoErrors /\ job' = NoJob
    BY <1>12 DEF DataFails, IoError
  <2>2. ioErrors' \in 0..MaxIoErrors BY <1>0, <1>3, <2>1
  <2>3. Unwritten' = 0 /\ Unwritten = 0 BY <2>1 DEF Unwritten, NoJob
  <2>4. ioErrors + Unwritten <= ioErrors' + Unwritten' BY <1>3, <2>1, <2>3
  <2> QED BY <1>7, <2>1, <2>2, <2>4
<1>13. CASE Crash
  <2>1. sbDisk' \in {sbDisk, sb} /\ sb' = sbDisk' /\ ioErrors' = ioErrors BY <1>13 DEF Crash
  <2> QED BY <1>3, <1>6, <2>1 DEF Shape
<1> QED BY <1>8, <1>9, <1>10, <1>11, <1>12, <1>13 DEF Next

(* The journal is a log (TxnLog) for transactions of one block.             *)
THEOREM OneBlockIsALog == ASSUME Roomy, FewErrors PROVE Spec => ImplementsLog
<1>1. Init => Shape /\ Behind
  <2> SUFFICES ASSUME Init PROVE Shape /\ Behind OBVIOUS
  <2>1. Shape BY InitHolds DEF JInv
  <2>2. sbDisk.head = 0 /\ sb.head = 0 /\ ioErrors = 0 /\ Unwritten = 0
    BY DEF Init, NoJob, Unwritten
  <2>3. Dist(0, 0) = 0
    <3>1. Dist(0, 0) = 0 - 0 BY Constants, RingFacts
    <3> QED BY <3>1
  <2> QED BY <2>1, <2>2, <2>3, FewErrorsFacts DEF Behind
<1>2. Spec => [](Shape /\ Room)
  BY RoomInvariance
<1>3. Shape /\ Room /\ Behind /\ [Next]_vars => Behind' BY BehindStep
<1>4. Shape /\ Room /\ Behind => Clear
  <2> SUFFICES ASSUME Shape, Room, Behind, job.pc = "flush"
               PROVE  (Dist(sbDisk.ckpt, sbDisk.head) + Dist(sbDisk.head, job.at)) + job.size <= N
    BY DEF Clear
  <2>0. /\ MaxIoErrors \in Nat /\ N \in Int /\ N >= 2 /\ MaxIoErrors + 1 < N
        /\ Limit(MaxCrashes, MaxUnchecked) \in Int
    BY FewErrorsFacts
  <2>1. sb.head \in Block /\ sbDisk.head \in Block /\ sbDisk.ckpt \in Block BY DEF Shape, Offsets
  <2>2. job.at = sb.head /\ job.size = 1 /\ crashes \in 0..MaxCrashes
        /\ 100 * Used(sbDisk) <= Limit(crashes, MaxUnchecked)
    BY DEF Room
  <2>3. Limit(crashes, MaxUnchecked) \in Int
        /\ Limit(crashes, MaxUnchecked) <= Limit(MaxCrashes, MaxUnchecked)
    <3>1. MaxUnchecked \in 0..MaxUnchecked BY RoomConstants
    <3> QED BY <2>2, <3>1, LimitGrows
  <2>4. Used(sbDisk) \in Int /\ Dist(sbDisk.head, sb.head) \in Int BY <2>0, <2>1, RingFacts DEF Used
  <2>5. Dist(sbDisk.head, sb.head) <= MaxIoErrors BY <2>0, <2>4 DEF Behind, Unwritten
  <2>6. (Used(sbDisk) + Dist(sbDisk.head, sb.head)) + 1 <= N
    BY <2>0, <2>2, <2>3, <2>4, <2>5 DEF FewErrors
  <2> QED BY <2>2, <2>6 DEF Used
<1>5. Spec => []Clear BY <1>1, <1>2, <1>3, <1>4, PTL DEF Spec
<1> QED BY <1>5, OneBlockFits, JournalIsALog, PTL
=============================================================================
