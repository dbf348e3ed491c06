---------------------------- MODULE BufferProofs ----------------------------
(***************************************************************************)
(* Proofs about Buffer, for any raws, lists, chunks, page, unit and        *)
(* carriage sizes: types and counters, and that no two lists write in one  *)
(* unused tail.  Inv says of a state that lists are well shaped and counted *)
(* (Shape, Chains), nodes lie inside live raws, a carriage is the last in   *)
(* its raw and the only one there (Owners), raws hold as many bytes as they *)
(* have cells (Filled) and _len is the bytes of the chain (Exact).          *)
(***************************************************************************)
EXTENDS Buffer, Induction, SequenceTheorems, FiniteSetTheorems, TLAPS

-----------------------------------------------------------------------------
(* Nodes, lists and raws                                                    *)

Node     == [raw : Raws, off : Nat, len : Nat, car : BOOLEAN]
ListType == [bufs : Seq(Node), len : Nat, num : Nat, dangling : BOOLEAN]

(* The nodes of a chain.                                                    *)
Els(s) == {s[i] : i \in DOMAIN s}

Summing == INSTANCE FoldLoop WITH Op <- AddLen

(* Total() adds the lengths one after the other.                            *)
LEMMA TotalSteps ==
  ASSUME NEW s \in Seq(Node)
  PROVE  \E st : /\ st[0] = 0
                 /\ \A i \in 1..Len(s) : st[i] = st[i - 1] + s[i].len
                 /\ Total(s) = st[Len(s)]
<1>1. DOMAIN s = 1..Len(s) /\ Len(s) \in Nat OBVIOUS
<1>2. Total(s) = Summing!Folded(0, s)
  BY Zenon DEF Total, Summing!Folded, FoldLeft, Summing!FoldLeft, MapThenFoldSet,
               Summing!MapThenFoldSet, Max, Summing!Max
<1> DEFINE n == Len(s)
           d == 0
           R == Total(s)
<1>3. \E st : /\ st[0] = d
              /\ \A i \in 1..n : st[i] = AddLen(st[i - 1], s[i])
              /\ R = st[n]
  <2>1. n \in Nat /\ DOMAIN s = 1..n /\ R = Summing!Folded(d, s) BY <1>1, <1>2
  <2> HIDE DEF n, d, R
  <2> QED BY <2>1, Summing!FoldSteps, SMTT(60)
<1> QED BY <1>3 DEF AddLen

(* There is one way to add up lengths.                                      *)
LEMMA SumsAgree ==
  ASSUME NEW n \in Nat, NEW f, NEW g, f[0] = g[0],
         \A i \in 1..n : f[i - 1] = g[i - 1] => f[i] = g[i]
  PROVE  \A i \in 0..n : f[i] = g[i]
<1> DEFINE P == {i \in 0..n : f[i] = g[i]}
<1>1. 0 \in P OBVIOUS
<1>2. ASSUME NEW i \in 0..(n - 1), i \in P PROVE i + 1 \in P
  <2>1. i + 1 \in 1..n /\ (i + 1) - 1 = i OBVIOUS
  <2> QED BY <1>2, <2>1
<1> HIDE DEF P
<1>3. \A i \in 0..n : i \in P BY <1>1, <1>2, LoopInduction
<1> QED BY <1>3 DEF P

(* An empty chain has no bytes.                                             *)
LEMMA TotalEmpty == Total(<<>>) = 0
<1>1. <<>> \in Seq(Node) /\ Len(<<>>) = 0 OBVIOUS
<1> QED BY <1>1, TotalSteps

(* A prefix sum is the sum so far.                                          *)
LEMMA TotalAppend ==
  ASSUME NEW s \in Seq(Node), NEW n \in Node
  PROVE  Total(Append(s, n)) = Total(s) + n.len
<1> DEFINE t == Append(s, n)
<1>1. t \in Seq(Node) /\ Len(t) = Len(s) + 1 /\ Len(s) \in Nat OBVIOUS
<1>2. \A i \in 1..Len(s) : t[i] = s[i] OBVIOUS
<1>3. t[Len(s) + 1] = n OBVIOUS
<1> HIDE DEF t
<1>4. PICK f : /\ f[0] = 0 /\ \A i \in 1..Len(s) : f[i] = f[i - 1] + s[i].len
               /\ Total(s) = f[Len(s)]
  BY TotalSteps
<1>5. PICK g : /\ g[0] = 0 /\ \A i \in 1..Len(t) : g[i] = g[i - 1] + t[i].len
               /\ Total(t) = g[Len(t)]
  BY <1>1, TotalSteps
<1>6. \A i \in 1..Len(s) : f[i - 1] = g[i - 1] => f[i] = g[i]
  BY <1>1, <1>2, <1>4, <1>5
<1>7. \A i \in 0..Len(s) : f[i] = g[i]
  <2>1. Len(s) \in Nat /\ f[0] = g[0] BY <1>1, <1>4, <1>5
  <2> QED BY ONLY <2>1, <1>6, SumsAgree, ZenonT(60)
<1>8. g[Len(s) + 1] = g[Len(s)] + t[Len(s) + 1].len BY <1>1, <1>5
<1> QED BY <1>1, <1>3, <1>4, <1>5, <1>7, <1>8 DEF t

(* Total() is a number, additive, and at least the length of each node.     *)
LEMMA TotalNat == ASSUME NEW s \in Seq(Node) PROVE Total(s) \in Nat
<1>1. PICK f : /\ f[0] = 0 /\ \A i \in 1..Len(s) : f[i] = f[i - 1] + s[i].len
               /\ Total(s) = f[Len(s)]
  BY TotalSteps
<1> DEFINE P == {i \in 0..Len(s) : f[i] \in Nat}
<1>2. 0 \in P BY <1>1
<1>3. ASSUME NEW i \in 0..(Len(s) - 1), i \in P PROVE i + 1 \in P
  <2>1. i + 1 \in 1..Len(s) /\ (i + 1) - 1 = i OBVIOUS
  <2>2. s[i + 1] \in Node BY <2>1
  <2>22. s[i + 1].len \in Nat BY <2>2 DEF Node
  <2>3. f[i + 1] = f[i] + s[i + 1].len BY <1>1, <2>1
  <2> QED BY <1>3, <2>1, <2>22, <2>3
<1> HIDE DEF P
<1>4. Len(s) \in Nat OBVIOUS
<1>5. \A i \in 0..Len(s) : i \in P BY <1>2, <1>3, <1>4, LoopInduction
<1> QED BY <1>1, <1>4, <1>5 DEF P

(* The bytes of two chains put together are the bytes of both.              *)
LEMMA TotalConcat ==
  ASSUME NEW a \in Seq(Node), NEW b \in Seq(Node)
  PROVE  Total(a \o b) = Total(a) + Total(b)
<1> DEFINE P == {i \in 0..Len(b) : Total(a \o SubSeq(b, 1, i)) = Total(a) + Total(SubSeq(b, 1, i))}
<1>0. Len(b) \in Nat /\ Total(a) \in Nat /\ Total(b) \in Nat BY TotalNat
<1>1. 0 \in P
  <2>1. SubSeq(b, 1, 0) = <<>> OBVIOUS
  <2>2. a \o <<>> = a OBVIOUS
  <2>3. Total(a) + 0 = Total(a) /\ 0 \in 0..Len(b) BY <1>0
  <2> QED BY <2>1, <2>2, <2>3, TotalEmpty
<1>2. ASSUME NEW i \in 0..(Len(b) - 1), i \in P PROVE i + 1 \in P
  <2> DEFINE c == SubSeq(b, 1, i)
  <2>1. c \in Seq(Node) /\ b[i + 1] \in Node /\ a \o c \in Seq(Node) OBVIOUS
  <2>2. SubSeq(b, 1, i + 1) = Append(c, b[i + 1]) OBVIOUS
  <2>3. a \o Append(c, b[i + 1]) = Append(a \o c, b[i + 1]) BY <2>1
  <2>4. Total(Append(c, b[i + 1])) = Total(c) + b[i + 1].len BY <2>1, TotalAppend
  <2>5. Total(Append(a \o c, b[i + 1])) = Total(a \o c) + b[i + 1].len BY <2>1, TotalAppend
  <2>6. Total(c) \in Nat /\ b[i + 1].len \in Nat BY <2>1, TotalNat DEF Node
  <2>7. Total(a \o c) = Total(a) + Total(c) BY <1>2
  <2>8. i + 1 \in 0..Len(b) OBVIOUS
  <2>9. Total(a \o SubSeq(b, 1, i + 1)) = Total(a) + Total(SubSeq(b, 1, i + 1))
    <3>1. Total(a \o SubSeq(b, 1, i + 1)) = Total(a \o c) + b[i + 1].len BY <2>2, <2>3, <2>5
    <3>2. Total(SubSeq(b, 1, i + 1)) = Total(c) + b[i + 1].len BY <2>2, <2>4
    <3> HIDE DEF c
    <3> QED BY <1>0, <2>6, <2>7, <3>1, <3>2
  <2> QED BY <2>8, <2>9
<1> HIDE DEF P
<1>3. \A i \in 0..Len(b) : i \in P BY <1>0, <1>1, <1>2, LoopInduction
<1>4. SubSeq(b, 1, Len(b)) = b OBVIOUS
<1>5. Len(b) \in P BY <1>0, <1>3
<1> QED BY <1>4, <1>5 DEF P

(* The bytes of a chain of one node are that node's.                        *)
LEMMA TotalOne == ASSUME NEW n \in Node PROVE Total(<<n>>) = n.len
<1>1. <<n>> = Append(<<>>, n) /\ <<>> \in Seq(Node) OBVIOUS
<1>2. n.len \in Nat BY DEF Node
<1>3. Total(Append(<<>>, n)) = Total(<<>>) + n.len BY <1>1, TotalAppend
<1> QED BY <1>1, <1>2, <1>3, TotalEmpty

-----------------------------------------------------------------------------
(* FlattenSeq() as a loop                                                   *)

IsFlat(g, ss, n) ==
  g = [i \in 1..n |-> IF i = 1 THEN ss[i] ELSE g[i - 1] \o ss[i]]

(* For a sequence of sequences of any length there is such a function.      *)
LEMMA FlatExists ==
  ASSUME NEW ss, NEW n \in Nat
  PROVE  \E g : IsFlat(g, ss, n)
<1> DEFINE P == {m \in Nat : \E g : IsFlat(g, ss, m)}
<1>1. 0 \in P
  <2> DEFINE g == [i \in 1..0 |-> <<>>]
  <2>1. IsFlat(g, ss, 0) BY DEF IsFlat
  <2> QED BY <2>1
<1>2. ASSUME NEW m \in 0..(n - 1), m \in P PROVE m + 1 \in P
  <2>1. PICK g : IsFlat(g, ss, m) BY <1>2
  <2> DEFINE h == [i \in 1..(m + 1) |-> IF i = m + 1
                     THEN (IF i = 1 THEN ss[i] ELSE g[i - 1] \o ss[i]) ELSE g[i]]
  <2>2. ASSUME NEW i \in 1..(m + 1)
        PROVE  h[i] = IF i = 1 THEN ss[i] ELSE h[i - 1] \o ss[i]
    <3>1. CASE i = m + 1
      <4>1. i # 1 => i - 1 \in 1..(m + 1) /\ i - 1 # m + 1 /\ h[i - 1] = g[i - 1] BY <3>1
      <4> QED BY <3>1, <4>1
    <3>2. CASE i # m + 1
      <4>1. i \in 1..m /\ h[i] = g[i] BY <3>2
      <4>2. g[i] = IF i = 1 THEN ss[i] ELSE g[i - 1] \o ss[i] BY <2>1, <4>1 DEF IsFlat
      <4>3. i # 1 => i - 1 \in 1..(m + 1) /\ i - 1 # m + 1 /\ h[i - 1] = g[i - 1] BY <3>2
      <4> QED BY <4>1, <4>2, <4>3
    <3> QED BY <3>1, <3>2
  <2>3. IsFlat(h, ss, m + 1) BY <2>2 DEF IsFlat
  <2> QED BY <2>3
<1> HIDE DEF P
<1>3. \A m \in 0..n : m \in P BY <1>1, <1>2, LoopInduction
<1>4. n \in P BY <1>3
<1> QED BY <1>4 DEF P

(* Flattening appends one sequence after the other.                         *)
LEMMA FlattenSteps ==
  ASSUME NEW ss, NEW n \in Nat \ {0}, Len(ss) = n
  PROVE  \E st : /\ st[1] = ss[1]
                 /\ \A i \in 1..(n - 1) : st[i + 1] = st[i] \o ss[i + 1]
                 /\ FlattenSeq(ss) = st[n]
<1> DEFINE g == CHOOSE f : IsFlat(f, ss, n)
<1>1. IsFlat(g, ss, n) BY FlatExists
<1>2. FlattenSeq(ss) = g[n]
  <2>1. FlattenSeq(ss) = (CHOOSE f : f = [i \in 1..Len(ss) |->
                            IF i = 1 THEN ss[i] ELSE f[i - 1] \o ss[i]])[Len(ss)]
    BY Zenon DEF FlattenSeq
  <2>2. g = CHOOSE f : f = [i \in 1..n |-> IF i = 1 THEN ss[i] ELSE f[i - 1] \o ss[i]]
    BY Zenon DEF IsFlat
  <2> QED BY <2>1, <2>2
<1> HIDE DEF g
<1>3. g[1] = ss[1] BY <1>1 DEF IsFlat
<1>4. ASSUME NEW i \in 1..(n - 1) PROVE g[i + 1] = g[i] \o ss[i + 1]
  <2>1. i + 1 \in 1..n /\ i + 1 # 1 /\ (i + 1) - 1 = i OBVIOUS
  <2> QED BY <1>1, <2>1 DEF IsFlat
<1> QED BY <1>2, <1>3, <1>4

(* Its elements are elements of the sequences.                              *)
LEMMA FlattenType ==
  ASSUME NEW A, NEW ss \in Seq(Seq(A))
  PROVE  FlattenSeq(ss) \in Seq(A)
<1>0. Len(ss) \in Nat OBVIOUS
<1>1. CASE Len(ss) = 0
  <2>1. ss = <<>> BY <1>1
  <2>2. FlattenSeq(ss) = <<>> BY <2>1, Zenon, <1>1 DEF FlattenSeq
  <2> QED BY <2>2
<1>2. CASE Len(ss) # 0
  <2> DEFINE n == Len(ss)
  <2>1. n \in Nat \ {0} BY <1>0, <1>2
  <2>2. PICK st : /\ st[1] = ss[1]
                  /\ \A i \in 1..(n - 1) : st[i + 1] = st[i] \o ss[i + 1]
                  /\ FlattenSeq(ss) = st[n]
    BY <2>1, FlattenSteps
  <2>3. \A i \in 1..n : ss[i] \in Seq(A) OBVIOUS
  <2> DEFINE P == {i \in 0..(n - 1) : st[i + 1] \in Seq(A)}
  <2> HIDE DEF n
  <2>4. 0 \in P BY <2>1, <2>2, <2>3
  <2>5. ASSUME NEW i \in 0..((n - 1) - 1), i \in P PROVE i + 1 \in P
    <3>1. i + 1 \in 1..(n - 1) /\ i + 2 \in 1..n /\ (i + 1) + 1 = i + 2 BY <2>1
    <3>2. st[i + 2] = st[i + 1] \o ss[i + 2] BY <2>2, <3>1
    <3>3. ss[i + 2] \in Seq(A) BY <2>3, <3>1
    <3>4. st[i + 1] \in Seq(A) BY <2>5
    <3>5. st[i + 2] \in Seq(A) BY <3>2, <3>3, <3>4
    <3> QED BY <2>1, <3>1, <3>5
  <2>6. n - 1 \in Nat BY <2>1
  <2> HIDE DEF P
  <2>7. \A i \in 0..(n - 1) : i \in P BY <2>4, <2>5, <2>6, LoopInduction
  <2>8. n - 1 \in P BY <2>6, <2>7
  <2>9. st[(n - 1) + 1] \in Seq(A) BY <2>8 DEF P
  <2> QED BY <2>1, <2>2, <2>9
<1> QED BY <1>1, <1>2

(* If at most one of them is not empty the result is that one.              *)
LEMMA FlattenOne ==
  ASSUME NEW A, NEW ss \in Seq(Seq(A)), NEW k, NEW one \in Seq(A),
         one # <<>> => k \in 1..Len(ss),
         \A i \in 1..Len(ss) : ss[i] = IF i = k THEN one ELSE <<>>
  PROVE  FlattenSeq(ss) = one
<1>0. Len(ss) \in Nat OBVIOUS
<1>1. CASE Len(ss) = 0
  <2>1. ss = <<>> BY <1>1
  <2>2. FlattenSeq(ss) = <<>> BY <2>1, Zenon, <1>1 DEF FlattenSeq
  <2> QED BY <1>1, <2>2
<1>2. CASE Len(ss) # 0
  <2> DEFINE n == Len(ss)
  <2>1. n \in Nat \ {0} BY <1>0, <1>2
  <2>2. PICK st : /\ st[1] = ss[1]
                  /\ \A i \in 1..(n - 1) : st[i + 1] = st[i] \o ss[i + 1]
                  /\ FlattenSeq(ss) = st[n]
    BY <2>1, FlattenSteps
  <2>3. \A i \in 1..n : ss[i] = IF i = k THEN one ELSE <<>> OBVIOUS
  <2>30. one # <<>> => k \in 1..n OBVIOUS
  <2> DEFINE P == {i \in 0..(n - 1) : st[i + 1] = IF k \in 1..(i + 1) THEN one ELSE <<>>}
  <2> HIDE DEF n
  <2>4. 0 \in P
    <3>1. st[1] = IF 1 = k THEN one ELSE <<>> BY <2>1, <2>2, <2>3
    <3>2. k \in 1..(0 + 1) <=> k = 1 OBVIOUS
    <3> QED BY <2>1, <3>1, <3>2
  <2>5. ASSUME NEW i \in 0..((n - 1) - 1), i \in P PROVE i + 1 \in P
    <3>1. i + 1 \in 1..(n - 1) /\ i + 2 \in 1..n /\ (i + 1) + 1 = i + 2 BY <2>1
    <3>2. st[i + 2] = st[i + 1] \o ss[i + 2] BY <2>2, <3>1
    <3>3. ss[i + 2] = IF i + 2 = k THEN one ELSE <<>> BY <2>3, <3>1
    <3>4. st[i + 1] = IF k \in 1..(i + 1) THEN one ELSE <<>> BY <2>5
    <3>5. one \o <<>> = one /\ <<>> \o one = one /\ <<>> \o <<>> = <<>> OBVIOUS
    <3>6. st[i + 2] = IF k \in 1..(i + 2) THEN one ELSE <<>>
      <4>1. CASE k = i + 2 BY <3>2, <3>3, <3>4, <3>5, <4>1
      <4>2. CASE k # i + 2
        <5>1. k \in 1..(i + 2) <=> k \in 1..(i + 1) BY <4>2
        <5> QED BY <3>2, <3>3, <3>4, <3>5, <4>2, <5>1
      <4> QED BY <4>1, <4>2
    <3> QED BY <2>1, <3>1, <3>6
  <2>6. n - 1 \in Nat BY <2>1
  <2> HIDE DEF P
  <2>7. \A i \in 0..(n - 1) : i \in P BY <2>4, <2>5, <2>6, LoopInduction
  <2>8. n - 1 \in P BY <2>6, <2>7
  <2>9. st[(n - 1) + 1] = IF k \in 1..((n - 1) + 1) THEN one ELSE <<>> BY <2>8 DEF P
  <2>10. (n - 1) + 1 = n BY <2>1
  <2> QED BY <2>2, <2>30, <2>9, <2>10
<1> QED BY <1>1, <1>2

-----------------------------------------------------------------------------
(* Chains of nodes                                                          *)

(* At most one node is the carriage.                                        *)
HasCar(s) == \E i \in DOMAIN s : s[i].car
OneCar(s) == \A i, j \in DOMAIN s : s[i].car /\ s[j].car => i = j

(* Concatenation: its nodes, and when it still has one carriage.            *)
LEMMA ElsConcat ==
  ASSUME NEW a \in Seq(Node), NEW b \in Seq(Node)
  PROVE  /\ a \o b \in Seq(Node) /\ Len(a \o b) = Len(a) + Len(b)
         /\ Els(a \o b) = Els(a) \cup Els(b)
         /\ HasCar(a \o b) <=> HasCar(a) \/ HasCar(b)
         /\ OneCar(a) /\ OneCar(b) /\ ~(HasCar(a) /\ HasCar(b)) => OneCar(a \o b)
<1> DEFINE c == a \o b
           m == Len(a)
           n == Len(b)
<1>1. c \in Seq(Node) /\ Len(c) = m + n /\ m \in Nat /\ n \in Nat OBVIOUS
<1>2. /\ DOMAIN a = 1..m /\ DOMAIN b = 1..n /\ DOMAIN c = 1..(m + n) OBVIOUS
<1>3. \A i \in 1..(m + n) : c[i] = IF i <= m THEN a[i] ELSE b[i - m] OBVIOUS
<1> HIDE DEF c, m, n
<1>4. \A i \in 1..m : i \in 1..(m + n) /\ c[i] = a[i] BY <1>1, <1>3
<1>5. \A i \in 1..n : i + m \in 1..(m + n) /\ c[i + m] = b[i] BY <1>1, <1>3
<1>6. \A i \in 1..(m + n) : \/ i \in 1..m /\ c[i] = a[i]
                            \/ i - m \in 1..n /\ c[i] = b[i - m]
  BY <1>1, <1>3
<1>7. Els(c) = Els(a) \cup Els(b)
  <2>1. ASSUME NEW x \in Els(c) PROVE x \in Els(a) \cup Els(b)
    BY <1>2, <1>6 DEF Els
  <2>2. ASSUME NEW x \in Els(a) PROVE x \in Els(c)
    BY <1>2, <1>4 DEF Els
  <2>3. ASSUME NEW x \in Els(b) PROVE x \in Els(c)
    BY <1>2, <1>5 DEF Els
  <2> QED BY <2>1, <2>2, <2>3
<1>8. HasCar(c) <=> HasCar(a) \/ HasCar(b) BY <1>1, <1>2, <1>4, <1>5, <1>6 DEF HasCar
<1>9. ASSUME OneCar(a), OneCar(b), ~(HasCar(a) /\ HasCar(b)) PROVE OneCar(c)
  <2> SUFFICES ASSUME NEW i \in 1..(m + n), NEW j \in 1..(m + n), c[i].car, c[j].car
               PROVE  i = j
    BY <1>2 DEF OneCar
  <2>1. i \in 1..m /\ j \in 1..m => i = j
    <3> SUFFICES ASSUME i \in 1..m, j \in 1..m PROVE i = j OBVIOUS
    <3>1. a[i].car /\ a[j].car BY <1>4
    <3> QED BY <1>2, <1>9, <3>1 DEF OneCar
  <2>2. i - m \in 1..n /\ j - m \in 1..n => i = j
    <3> SUFFICES ASSUME i - m \in 1..n, j - m \in 1..n PROVE i = j OBVIOUS
    <3>1. (i - m) + m = i /\ (j - m) + m = j BY <1>1
    <3>2. b[i - m].car /\ b[j - m].car BY <1>5, <3>1
    <3>3. i - m = j - m BY <1>2, <1>9, <3>2 DEF OneCar
    <3> QED BY <1>1, <3>3
  <2>3. ASSUME NEW x \in 1..m, NEW y \in 1..(m + n), y - m \in 1..n, c[x].car, c[y].car
        PROVE  FALSE
    <3>1. (y - m) + m = y BY <1>1
    <3>2. a[x].car /\ b[y - m].car BY <1>4, <1>5, <2>3, <3>1
    <3> QED BY <1>2, <1>9, <2>3, <3>2 DEF HasCar
  <2>4. (i \in 1..m \/ i - m \in 1..n) /\ (j \in 1..m \/ j - m \in 1..n) BY <1>6
  <2> QED BY <2>1, <2>2, <2>3, <2>4
<1> QED BY <1>1, <1>7, <1>8, <1>9 DEF c, m, n

(* A stretch of a chain has only nodes of the chain, and no second          *)
(* carriage.                                                                *)
LEMMA ElsSub ==
  ASSUME NEW a \in Seq(Node), NEW f \in 1..(Len(a) + 1), NEW e \in 0..Len(a), f <= e + 1
  PROVE  /\ SubSeq(a, f, e) \in Seq(Node) /\ Len(SubSeq(a, f, e)) = e - f + 1
         /\ Els(SubSeq(a, f, e)) \subseteq Els(a)
         /\ \A i \in 1..(e - f + 1) : SubSeq(a, f, e)[i] = a[f + i - 1]
         /\ OneCar(a) => OneCar(SubSeq(a, f, e))
<1> DEFINE c == SubSeq(a, f, e)
           n == e - f + 1
<1>1. c \in Seq(Node) /\ Len(c) = n /\ n \in Nat OBVIOUS
<1>2. \A i \in 1..n : f + i - 1 \in 1..Len(a) /\ c[i] = a[f + i - 1] OBVIOUS
<1>3. DOMAIN c = 1..n /\ DOMAIN a = 1..Len(a) OBVIOUS
<1> HIDE DEF c
<1>4. Els(c) \subseteq Els(a) BY <1>1, <1>2, <1>3 DEF Els
<1>5. ASSUME OneCar(a) PROVE OneCar(c)
  <2> SUFFICES ASSUME NEW i \in 1..n, NEW j \in 1..n, c[i].car, c[j].car PROVE i = j
    BY <1>3 DEF OneCar
  <2>1. a[f + i - 1].car /\ a[f + j - 1].car BY <1>2
  <2>2. f + i - 1 = f + j - 1 BY <1>2, <1>3, <1>5, <2>1 DEF OneCar
  <2> QED BY <2>2
<1> QED BY <1>1, <1>2, <1>4, <1>5 DEF c

(* A node put at the end of a chain.                                        *)
LEMMA ElsAppend ==
  ASSUME NEW a \in Seq(Node), NEW n \in Node
  PROVE  /\ Append(a, n) \in Seq(Node) /\ Len(Append(a, n)) = Len(a) + 1
         /\ Els(Append(a, n)) = Els(a) \cup {n}
         /\ HasCar(Append(a, n)) <=> HasCar(a) \/ n.car
         /\ OneCar(a) /\ ~(HasCar(a) /\ n.car) => OneCar(Append(a, n))
<1>1. Append(a, n) = a \o <<n>> /\ <<n>> \in Seq(Node) /\ Len(<<n>>) = 1 OBVIOUS
<1>2. /\ Els(<<n>>) = {n} /\ OneCar(<<n>>) /\ (HasCar(<<n>>) <=> n.car)
  BY DEF Els, OneCar, HasCar
<1> DEFINE b == <<n>>
<1>3. /\ a \o b \in Seq(Node) /\ Len(a \o b) = Len(a) + Len(b)
      /\ Els(a \o b) = Els(a) \cup Els(b)
      /\ HasCar(a \o b) <=> HasCar(a) \/ HasCar(b)
      /\ OneCar(a) /\ OneCar(b) /\ ~(HasCar(a) /\ HasCar(b)) => OneCar(a \o b)
  <2> HIDE DEF b
  <2>1. b \in Seq(Node) BY <1>1 DEF b
  <2> QED BY <2>1, ElsConcat
<1>4. Append(a, n) = a \o b /\ Len(b) = 1 BY <1>1
<1>5. Els(b) = {n} /\ OneCar(b) /\ (HasCar(b) <=> n.car) BY <1>2
<1> HIDE DEF b
<1> QED BY <1>3, <1>4, <1>5

(* A chain of one node.                                                     *)
LEMMA ElsOne ==
  ASSUME NEW n \in Node
  PROVE  /\ <<n>> \in Seq(Node) /\ Len(<<n>>) = 1 /\ Els(<<n>>) = {n}
         /\ OneCar(<<n>>) /\ (HasCar(<<n>>) <=> n.car)
  BY DEF Els, OneCar, HasCar

(* A chain of none.                                                         *)
LEMMA ElsNone == /\ <<>> \in Seq(Node) /\ Len(<<>>) = 0 /\ Els(<<>>) = {}
                 /\ OneCar(<<>>) /\ ~HasCar(<<>>)
  BY DEF Els, OneCar, HasCar

(* Copies of nodes are no carriage.                                         *)
LEMMA UncrownedIs ==
  ASSUME NEW a \in Seq(Node)
  PROVE  /\ Uncrowned(a) \in Seq(Node) /\ Len(Uncrowned(a)) = Len(a)
         /\ ~HasCar(Uncrowned(a)) /\ OneCar(Uncrowned(a))
         /\ \A n \in Els(Uncrowned(a)) : \E m \in Els(a) : n = Copy(m)
         /\ Total(Uncrowned(a)) = Total(a)
<1> DEFINE u == Uncrowned(a)
<1>1. \A i \in 1..Len(a) : a[i] \in Node OBVIOUS
<1>2. u = [i \in 1..Len(a) |-> Copy(a[i])] BY DEF Uncrowned
<1>3. \A n \in Node : Copy(n) \in Node /\ Copy(n).len = n.len /\ Copy(n).car = FALSE
  BY DEF Copy, Node
<1>4. u \in Seq(Node) /\ Len(u) = Len(a) BY <1>1, <1>2, <1>3
<1>5. DOMAIN u = 1..Len(a) /\ DOMAIN a = 1..Len(a) /\ Len(a) \in Nat BY <1>2
<1> HIDE DEF u
<1>6. ~HasCar(u) /\ OneCar(u) BY <1>1, <1>2, <1>3, <1>5 DEF HasCar, OneCar
<1>7. \A n \in Els(u) : \E m \in Els(a) : n = Copy(m) BY <1>2, <1>5 DEF Els
<1>8. Total(u) = Total(a)
  <2>1. PICK f : /\ f[0] = 0 /\ \A i \in 1..Len(a) : f[i] = f[i - 1] + a[i].len
                 /\ Total(a) = f[Len(a)]
    BY TotalSteps
  <2>2. PICK g : /\ g[0] = 0 /\ \A i \in 1..Len(u) : g[i] = g[i - 1] + u[i].len
                 /\ Total(u) = g[Len(u)]
    BY <1>4, TotalSteps
  <2>3. \A i \in 1..Len(a) : f[i - 1] = g[i - 1] => f[i] = g[i]
    <3>1. \A i \in 1..Len(a) : u[i].len = a[i].len BY <1>1, <1>2, <1>3
    <3> QED BY <1>4, <2>1, <2>2, <3>1
  <2>4. Len(a) \in Nat /\ f[0] = g[0] BY <2>1, <2>2
  <2>5. \A i \in 0..Len(a) : f[i] = g[i] BY ONLY <2>3, <2>4, SumsAgree
  <2> QED BY <1>4, <2>1, <2>2, <2>4, <2>5
<1> QED BY <1>4, <1>6, <1>7, <1>8 DEF u

-----------------------------------------------------------------------------
(* Positions in a list                                                      *)

(* Start() of a node is the sum of the lengths before it.                   *)
LEMMA StartStep ==
  ASSUME NEW s \in Seq(Node)
  PROVE  /\ Start(s, 1) = 0 /\ Start(s, Len(s) + 1) = Total(s)
         /\ \A i \in 1..(Len(s) + 1) : Start(s, i) \in Nat
         /\ \A i \in 1..Len(s) : Start(s, i + 1) = Start(s, i) + s[i].len
<1>1. SubSeq(s, 1, 1 - 1) = <<>> /\ SubSeq(s, 1, (Len(s) + 1) - 1) = s OBVIOUS
<1>2. \A i \in 1..(Len(s) + 1) : SubSeq(s, 1, i - 1) \in Seq(Node) OBVIOUS
<1>3. ASSUME NEW i \in 1..Len(s) PROVE Start(s, i + 1) = Start(s, i) + s[i].len
  <2> DEFINE c == SubSeq(s, 1, i - 1)
  <2>1. c \in Seq(Node) /\ s[i] \in Node OBVIOUS
  <2>2. SubSeq(s, 1, (i + 1) - 1) = Append(c, s[i]) OBVIOUS
  <2>3. Total(Append(c, s[i])) = Total(c) + s[i].len BY <2>1, TotalAppend
  <2> QED BY <2>2, <2>3 DEF Start
<1>4. Start(s, 1) = 0 /\ Start(s, Len(s) + 1) = Total(s) BY <1>1, TotalEmpty DEF Start
<1>5. \A i \in 1..(Len(s) + 1) : Start(s, i) \in Nat BY <1>2, TotalNat DEF Start
<1> QED BY <1>3, <1>4, <1>5

(* A later node does not start earlier.                                     *)
LEMMA StartMonotone ==
  ASSUME NEW s \in Seq(Node), NEW i \in 1..(Len(s) + 1), NEW j \in 1..(Len(s) + 1), i <= j
  PROVE  Start(s, i) <= Start(s, j)
<1> DEFINE P == {d \in Nat : i + d <= Len(s) + 1 => Start(s, i) <= Start(s, i + d)}
           n == j - i
<1>0. Len(s) \in Nat /\ n \in Nat /\ i + n = j OBVIOUS
<1>1. 0 \in P BY <1>0, StartStep
<1>2. ASSUME NEW d \in 0..(n - 1), d \in P PROVE d + 1 \in P
  <2>1. i + d \in 1..Len(s) /\ (i + d) + 1 = i + (d + 1) BY <1>0
  <2>2. s[i + d] \in Node BY <2>1
  <2>3. s[i + d].len \in Nat BY <2>2 DEF Node
  <2>4. Start(s, i + (d + 1)) = Start(s, i + d) + s[i + d].len BY <2>1, StartStep
  <2>5. Start(s, i) \in Nat /\ Start(s, i + d) \in Nat BY <1>0, <2>1, StartStep
  <2>6. Start(s, i) <= Start(s, i + d) BY <1>2, <2>1, <1>0
  <2>7. Start(s, i) <= Start(s, i + (d + 1)) BY <2>3, <2>4, <2>5, <2>6
  <2> QED BY <1>0, <2>7
<1> HIDE DEF P, n
<1>3. \A d \in 0..n : d \in P BY <1>0, <1>1, <1>2, LoopInduction
<1>4. n \in P BY <1>0, <1>3
<1> QED BY <1>0, <1>4 DEF P

(* No node is longer than the list.                                         *)
LEMMA NodeInTotal ==
  ASSUME NEW s \in Seq(Node), NEW n \in Els(s)
  PROVE  n.len <= Total(s)
<1>1. PICK i \in 1..Len(s) : n = s[i] BY DEF Els
<1>2. n \in Node BY <1>1
<1>3. n.len \in Nat BY <1>2 DEF Node
<1>4. Start(s, i + 1) = Start(s, i) + n.len BY <1>1, StartStep
<1>5. i \in 1..(Len(s) + 1) /\ i + 1 \in 1..(Len(s) + 1) /\ Len(s) + 1 \in 1..(Len(s) + 1)
  BY <1>1
<1>6. Start(s, i + 1) <= Start(s, Len(s) + 1) BY <1>1, <1>5, StartMonotone
<1>7. Start(s, i) \in Nat /\ Start(s, i + 1) \in Nat BY <1>5, StartStep
<1>8. Start(s, Len(s) + 1) = Total(s) /\ Total(s) \in Nat BY StartStep, TotalNat
<1> QED BY <1>3, <1>4, <1>6, <1>7, <1>8

(* The first node that holds the byte at off, and the last one before to.   *)
LEMMA FirstAtIs ==
  ASSUME NEW s \in Seq(Node), NEW off \in Nat, off < Total(s)
  PROVE  /\ FirstAt(s, off) \in 1..Len(s)
         /\ Start(s, FirstAt(s, off)) <= off
         /\ off <= Start(s, FirstAt(s, off) + 1)
<1>0. Total(s) \in Nat /\ Len(s) \in Nat BY TotalNat
<1>1. Len(s) # 0
  <2> SUFFICES ASSUME Len(s) = 0 PROVE FALSE OBVIOUS
  <2>1. s = <<>> OBVIOUS
  <2> QED BY <1>0, <2>1, TotalEmpty
<1>2. CASE off = 0
  <2>1. FirstAt(s, off) = 1 BY <1>2 DEF FirstAt
  <2>2. 1 + 1 \in 1..(Len(s) + 1) BY <1>0, <1>1
  <2>3. Start(s, 1) = 0 /\ Start(s, 1 + 1) \in Nat BY <2>2, StartStep
  <2> QED BY <1>0, <1>1, <1>2, <2>1, <2>3
<1>3. CASE off # 0
  <2> DEFINE T == {i \in 1..Len(s) : off < Start(s, i + 1)}
  <2>1. Len(s) \in T BY <1>0, <1>1, StartStep
  <2>2. T \in SUBSET Nat /\ T # {} BY <2>1
  <2>3. PICK x \in T : \A y \in T : x <= y
    <3> HIDE DEF T
    <3> QED BY <2>2, LeastElement
  <2>4. x \in 1..Len(s) /\ off < Start(s, x + 1) OBVIOUS
  <2>5. Start(s, x) <= off
    <3>1. CASE x = 1 BY <3>1, StartStep
    <3>2. CASE x # 1
      <4>1. x - 1 \in 1..Len(s) /\ (x - 1) + 1 = x BY <2>4, <3>2
      <4>2. x - 1 \notin T
        <5> HIDE DEF T
        <5> QED BY <2>3, <2>4
      <4>3. ~(off < Start(s, x)) BY <4>1, <4>2
      <4>4. Start(s, x) \in Nat BY <2>4, StartStep
      <4> QED BY <4>3, <4>4
    <3> QED BY <3>1, <3>2
  <2>6. DOMAIN s = 1..Len(s) OBVIOUS
  <2>7. FirstAt(s, off) = CHOOSE i \in DOMAIN s : Start(s, i) <= off /\ off < Start(s, i + 1)
    BY <1>3 DEF FirstAt
  <2> DEFINE f == FirstAt(s, off)
  <2>8. f \in 1..Len(s) /\ Start(s, f) <= off /\ off < Start(s, f + 1)
    BY <2>4, <2>5, <2>6, <2>7
  <2>9. f + 1 \in 1..(Len(s) + 1) BY <1>0, <2>8
  <2>10. Start(s, f + 1) \in Nat BY <2>9, StartStep
  <2> HIDE DEF f
  <2>11. off <= Start(s, f + 1) BY <2>8, <2>10
  <2> QED BY <2>8, <2>11 DEF f
<1> QED BY <1>2, <1>3

(* The node that holds the last byte before `to`: iterator_impl::seek().    *)
LEMMA LastAtIs ==
  ASSUME NEW s \in Seq(Node), NEW to \in Nat, 0 < to, to <= Total(s)
  PROVE  /\ LastAt(s, to) \in 1..Len(s)
         /\ Start(s, LastAt(s, to)) < to
         /\ to <= Start(s, LastAt(s, to) + 1)
         /\ \A i \in 1..Len(s) : Start(s, i) < to => i <= LastAt(s, to)
<1>0. Total(s) \in Nat /\ Len(s) \in Nat BY TotalNat
<1>1. Len(s) # 0
  <2> SUFFICES ASSUME Len(s) = 0 PROVE FALSE OBVIOUS
  <2>1. s = <<>> OBVIOUS
  <2> QED BY <1>0, <2>1, TotalEmpty
<1> DEFINE T == {i \in 1..Len(s) : Start(s, i) < to}
           n == Len(s)
<1>2. 1 \in T BY <1>0, <1>1, StartStep
<1>3. T \in SUBSET (1..n) /\ T # {} BY <1>2
<1>4. Max(T) = Summing!Max(T) BY Zenon DEF Max, Summing!Max
<1>5. LastAt(s, to) = Max(T)
  <2>1. DOMAIN s = 1..Len(s) OBVIOUS
  <2> QED BY <2>1 DEF LastAt
<1> DEFINE e == LastAt(s, to)
<1>6. e \in T /\ \A y \in T : y <= e
  <2>1. n \in Nat BY <1>0
  <2> HIDE DEF T, n, e
  <2>2. Summing!Max(T) \in T /\ \A y \in T : y <= Summing!Max(T)
    BY <1>3, <2>1, Summing!MaxIsLargest
  <2> QED BY <1>4, <1>5, <2>2 DEF e
<1>7. e \in 1..Len(s) /\ Start(s, e) < to BY <1>6
<1>8. to <= Start(s, e + 1)
  <2> HIDE DEF e
  <2>1. CASE e = Len(s) BY <2>1, StartStep
  <2>2. CASE e # Len(s)
    <3>1. e + 1 \in 1..Len(s) /\ e + 1 \in 1..(Len(s) + 1) BY <1>7, <2>2
    <3>2. e + 1 \notin T BY <1>6, <1>7
    <3>3. ~(Start(s, e + 1) < to) /\ Start(s, e + 1) \in Nat BY <3>1, <3>2, StartStep
    <3> QED BY <3>3
  <2> QED BY <2>1, <2>2
<1> HIDE DEF e
<1> QED BY <1>6, <1>7, <1>8 DEF e

(* A node that lies in the part of a raw that nodes of A cover or precede.  *)
Within(p, A) == \E m \in A : p.raw = m.raw /\ End(p) <= End(m)

(* The part of one node between the positions off and to.                   *)
LEMMA PartOfIs ==
  ASSUME NEW n \in Node, NEW start \in Nat, NEW off \in Nat, NEW to \in Nat,
         off < to, start < to, off <= start + n.len
  PROVE  LET p == PartOf(n, start, off, to)
         IN  /\ p \in Node /\ ~p.car /\ p.raw = n.raw /\ End(p) <= End(n)
             /\ p.len = Smaller(to, start + n.len) - Larger(off, start)
<1> DEFINE o == Larger(off - start, 0)
           l == Smaller(to, start + n.len) - Larger(off, start)
           p == PartOf(n, start, off, to)
<1>1. n.raw \in Raws /\ n.off \in Nat /\ n.len \in Nat BY DEF Node
<1>2. o \in Nat /\ l \in Nat /\ o + l <= n.len BY <1>1 DEF Larger, Smaller
<1>3. p = [raw |-> n.raw, off |-> n.off + o, len |-> l, car |-> FALSE]
  BY DEF PartOf, Slice, Ptr
<1> HIDE DEF o, l, p
<1>4. p \in Node /\ p.raw = n.raw /\ p.off = n.off + o /\ p.len = l /\ ~p.car
  BY <1>1, <1>2, <1>3 DEF Node
<1>5. End(p) <= End(n) BY <1>1, <1>2, <1>4 DEF End
<1> QED BY <1>4, <1>5 DEF p, l

(* What substr_of() and the iterators walk over: copies, none the           *)
(* carriage, each inside the node it is cut from.                           *)
LEMMA PartsIs ==
  ASSUME NEW s \in Seq(Node), NEW off \in Nat, NEW n \in Nat \ {0}, off + n <= Total(s)
  PROVE  /\ FirstAt(s, off) <= LastAt(s, off + n)
         /\ Parts(s, off, n) \in Seq(Node)
         /\ Len(Parts(s, off, n)) = LastAt(s, off + n) - FirstAt(s, off) + 1
         /\ \A p \in Els(Parts(s, off, n)) : ~p.car /\ Within(p, Els(s))
         /\ Total(Parts(s, off, n)) = n
<1> DEFINE f == FirstAt(s, off)
           e == LastAt(s, off + n)
           to == off + n
           ps == Parts(s, off, n)
           k == e - f + 1
<1>0. /\ Total(s) \in Nat /\ Len(s) \in Nat /\ to \in Nat
      /\ off < Total(s) /\ 0 < to /\ off < to /\ to <= Total(s)
  BY TotalNat
<1>1. f \in 1..Len(s) /\ Start(s, f) <= off /\ off <= Start(s, f + 1) BY <1>0, FirstAtIs
<1>2. /\ e \in 1..Len(s) /\ Start(s, e) < to /\ to <= Start(s, e + 1)
      /\ \A i \in 1..Len(s) : Start(s, i) < to => i <= e
  <2> HIDE DEF e, to
  <2>1. e = LastAt(s, to) BY DEF e, to
  <2> QED BY <1>0, <2>1, LastAtIs
<1>3. ps = [j \in 1..k |-> PartOf(s[f + j - 1], Start(s, f + j - 1), off, to)]
  BY DEF Parts
<1> HIDE DEF f, e, to, ps
<1>4. f <= e
  <2>1. Start(s, f) \in Nat BY <1>0, <1>1, StartStep
  <2>2. Start(s, f) < to BY <1>0, <1>1, <2>1
  <2> QED BY <1>1, <1>2, <2>2
<1>5. k \in Nat /\ k >= 1 BY <1>1, <1>2, <1>4
<1>6. ASSUME NEW j \in 1..k
      PROVE  LET i == f + j - 1
             IN  /\ i \in 1..Len(s) /\ s[i] \in Node /\ s[i].len \in Nat
                 /\ Start(s, i) \in Nat /\ Start(s, i + 1) = Start(s, i) + s[i].len
                 /\ Start(s, i) < to /\ off <= Start(s, i) + s[i].len
                 /\ j > 1 => off <= Start(s, i)
  <2> DEFINE i == f + j - 1
  <2>1. i \in 1..Len(s) /\ f <= i /\ i <= e /\ (j > 1 => f + 1 <= i) BY <1>1, <1>2, <1>4
  <2>2. s[i] \in Node BY <2>1
  <2>3. s[i].len \in Nat BY <2>2 DEF Node
  <2> HIDE DEF i
  <2>4. /\ i \in 1..(Len(s) + 1) /\ i + 1 \in 1..(Len(s) + 1) /\ e \in 1..(Len(s) + 1)
        /\ f + 1 \in 1..(Len(s) + 1)
    BY <1>0, <1>1, <1>2, <2>1
  <2>5. /\ Start(s, i) \in Nat /\ Start(s, e) \in Nat /\ Start(s, f + 1) \in Nat
        /\ Start(s, i + 1) \in Nat /\ Start(s, i + 1) = Start(s, i) + s[i].len
    BY <2>1, <2>4, StartStep
  <2>6. Start(s, i) <= Start(s, e) BY <2>1, <2>4, StartMonotone
  <2>7. Start(s, f + 1) <= Start(s, i + 1)
    <3>1. f + 1 <= i + 1 BY <1>1, <2>1
    <3> QED BY <2>4, <3>1, StartMonotone
  <2>8. j > 1 => Start(s, f + 1) <= Start(s, i) BY <2>1, <2>4, StartMonotone
  <2>9. Start(s, i) < to BY <1>0, <1>2, <2>5, <2>6
  <2>10. off <= Start(s, i) + s[i].len BY <1>1, <2>5, <2>7
  <2>11. j > 1 => off <= Start(s, i) BY <1>1, <2>5, <2>8
  <2> QED BY <2>1, <2>2, <2>3, <2>5, <2>9, <2>10, <2>11 DEF i
<1>7. ASSUME NEW j \in 1..k
      PROVE  LET i == f + j - 1
             IN  /\ ps[j] \in Node /\ ~ps[j].car /\ ps[j].raw = s[i].raw
                 /\ End(ps[j]) <= End(s[i])
                 /\ ps[j].len = Smaller(to, Start(s, i + 1)) - Larger(off, Start(s, i))
  <2> DEFINE i == f + j - 1
  <2>1. ps[j] = PartOf(s[i], Start(s, i), off, to) BY <1>3
  <2>2. /\ i \in 1..Len(s) /\ s[i] \in Node /\ s[i].len \in Nat
        /\ Start(s, i) \in Nat /\ Start(s, i + 1) = Start(s, i) + s[i].len
        /\ Start(s, i) < to /\ off <= Start(s, i) + s[i].len
    BY <1>6
  <2> HIDE DEF i
  <2> QED BY <1>0, <2>1, <2>2, PartOfIs, SMTT(30) DEF i
<1>8. ps \in Seq(Node) /\ Len(ps) = k /\ DOMAIN ps = 1..k
  <2>1. \A j \in 1..k : ps[j] \in Node BY <1>7
  <2>2. ps = [j \in 1..k |-> ps[j]] BY <1>3
  <2> HIDE DEF k
  <2> QED BY <1>5, <2>1, <2>2
<1>9. ASSUME NEW p \in Els(ps) PROVE ~p.car /\ Within(p, Els(s))
  <2>1. PICK j \in 1..k : p = ps[j] BY <1>8 DEF Els
  <2> DEFINE i == f + j - 1
  <2>2. ~p.car /\ p.raw = s[i].raw /\ End(p) <= End(s[i]) BY <1>7, <2>1
  <2>3. i \in 1..Len(s) BY <1>6
  <2>4. s[i] \in Els(s) BY <2>3 DEF Els
  <2> HIDE DEF i
  <2> QED BY <2>2, <2>4 DEF Within
<1>10. Total(ps) = n
  <2> DEFINE P == {j \in Nat : j + 1 <= k =>
                     Start(ps, j + 2) = Smaller(to, Start(s, f + j + 1)) - off}
  <2>0. /\ Start(ps, 1) = 0 /\ Start(ps, k + 1) = Total(ps)
        /\ \A j \in 1..(k + 1) : Start(ps, j) \in Nat
        /\ \A j \in 1..k : Start(ps, j + 1) = Start(ps, j) + ps[j].len
    BY <1>8, StartStep
  <2>1. 0 \in P
    <3>1. 1 \in 1..k BY <1>5
    <3>2. /\ ps[1].len = Smaller(to, Start(s, f + 1)) - Larger(off, Start(s, f))
      <4>1. f + 1 - 1 = f /\ (f + 1 - 1) + 1 = f + 1 BY <1>1
      <4> QED BY <1>7, <3>1, <4>1
    <3>3. Start(s, f) \in Nat /\ Start(s, f + 1) \in Nat
      <4>1. f \in 1..(Len(s) + 1) /\ f + 1 \in 1..(Len(s) + 1) BY <1>0, <1>1
      <4> QED BY <4>1, StartStep
    <3>4. Larger(off, Start(s, f)) = off BY <1>1, <3>3 DEF Larger
    <3>5. Smaller(to, Start(s, f + 1)) \in Nat BY <1>0, <3>3 DEF Smaller
    <3>6. Start(ps, 1 + 1) = Smaller(to, Start(s, f + 1)) - off
      BY <2>0, <3>1, <3>2, <3>4, <3>5
    <3>7. 1 + 1 = 0 + 2 /\ f + 1 = f + 0 + 1 BY <1>1
    <3> QED BY <3>6, <3>7
  <2>2. ASSUME NEW j \in 0..((k - 1) - 1), j \in P PROVE j + 1 \in P
    <3>1. j + 1 <= k /\ j + 2 \in 1..k /\ j + 2 > 1 BY <1>5
    <3> DEFINE i == f + j + 1
    <3>2. f + (j + 2) - 1 = i /\ i + 1 = f + (j + 1) + 1 BY <1>1
    <3>3. /\ i \in 1..Len(s) /\ s[i].len \in Nat
          /\ Start(s, i) \in Nat /\ Start(s, i + 1) = Start(s, i) + s[i].len
          /\ Start(s, i) < to /\ off <= Start(s, i)
      BY <1>6, <3>1, <3>2
    <3>4. ps[j + 2].len = Smaller(to, Start(s, i + 1)) - Larger(off, Start(s, i))
      BY <1>7, <3>1, <3>2
    <3>5. Start(ps, j + 2) = Smaller(to, Start(s, i)) - off BY <2>2, <3>1
    <3>6. Start(ps, (j + 2) + 1) = Start(ps, j + 2) + ps[j + 2].len BY <2>0, <3>1
    <3>7. Start(ps, (j + 2) + 1) = Smaller(to, Start(s, i + 1)) - off
      <4>1. Larger(off, Start(s, i)) = Start(s, i) /\ Smaller(to, Start(s, i)) = Start(s, i)
        BY <1>0, <3>3 DEF Smaller, Larger
      <4>2. Smaller(to, Start(s, i + 1)) \in Nat BY <1>0, <3>3 DEF Smaller
      <4> QED BY <3>3, <3>4, <3>5, <3>6, <4>1, <4>2
    <3>8. (j + 2) + 1 = (j + 1) + 2 OBVIOUS
    <3>9. Start(ps, (j + 1) + 2) = Smaller(to, Start(s, f + (j + 1) + 1)) - off
      BY <3>2, <3>7, <3>8
    <3> QED BY <3>9
  <2>3. k - 1 \in Nat BY <1>5
  <2> HIDE DEF P
  <2>4. \A j \in 0..(k - 1) : j \in P BY <2>1, <2>2, <2>3, LoopInduction
  <2>5. k - 1 \in P BY <2>3, <2>4
  <2>6. Start(ps, (k - 1) + 2) = Smaller(to, Start(s, f + (k - 1) + 1)) - off
    BY <1>5, <2>5 DEF P
  <2>7. (k - 1) + 2 = k + 1 /\ f + (k - 1) + 1 = e + 1 BY <1>1, <1>2, <1>5
  <2>8. Start(s, e + 1) \in Nat
    <3>1. e + 1 \in 1..(Len(s) + 1) BY <1>0, <1>2
    <3> QED BY <3>1, StartStep
  <2>9. Smaller(to, Start(s, e + 1)) = to BY <1>0, <1>2, <2>8 DEF Smaller
  <2>10. Total(ps) = to - off BY <2>0, <2>6, <2>7, <2>9
  <2> QED BY <1>0, <2>10 DEF to
<1> QED BY <1>4, <1>8, <1>9, <1>10 DEF f, e, ps

-----------------------------------------------------------------------------
(* The structure every operation keeps                                      *)

RawShape(x) ==
  /\ x = [len |-> x.len, base |-> x.base, data |-> x.data, crc |-> x.crc]
  /\ x.len \in Nat
Shape(S) ==
  /\ S = [raws |-> S.raws, lists |-> S.lists]
  /\ S.raws = [r \in Raws |-> S.raws[r]] /\ \A r \in Raws : RawShape(S.raws[r])
  /\ S.lists \in [Lists -> ListType]

(* A node lies inside its raw, which is not dead.                           *)
Fit(S, n) == End(n) <= S.raws[n.raw].len /\ S.raws[n.raw].len > 0

(* Of two nodes of a raw the one that is a carriage ends last, and two      *)
(* lists have no carriage in the same raw.                                  *)
Chains(S) ==
  \A l \in Lists :
    /\ S.lists[l].num = Len(Bufs(S, l))
    /\ OneCar(Bufs(S, l))
    /\ \A n \in Els(Bufs(S, l)) : Fit(S, n)
Owners(S) ==
  \A l, m \in Lists : \A c \in Els(Bufs(S, l)), n \in Els(Bufs(S, m)) :
    c.car /\ n.raw = c.raw => End(n) <= End(c) /\ (n.car => m = l)
Sound(S) == Shape(S) /\ Chains(S) /\ Owners(S)

AllNodes(S) == {n \in Node : \E l \in Lists : n \in Els(Bufs(S, l))}
Fresh(S, r) == \A n \in AllNodes(S) : n.raw # r

(* What a list may hold after an operation: nodes inside what some list     *)
(* held, and nodes of raws nobody refers to yet ...                         *)
Placed(S, n) == Within(n, AllNodes(S)) \/ (Fresh(S, n.raw) /\ Fit(S, n))

(* ... and a carriage that ends where its own carriage did, or that is the  *)
(* last node of such a raw.                                                 *)
Heir(S, l, bufs, c) ==
  \/ \E d \in Els(Bufs(S, l)) : d.car /\ d.raw = c.raw /\ End(d) = End(c)
  \/ Fresh(S, c.raw) /\ \A n \in Els(bufs) : n.raw = c.raw => End(n) <= End(c)

With(S, l, L) == [raws |-> S.raws, lists |-> [S.lists EXCEPT ![l] = L]]

(* A list of a well shaped state is a list, and its nodes are nodes.        *)
LEMMA BufsTyped ==
  ASSUME NEW S, Shape(S), NEW l \in Lists
  PROVE  /\ S.lists[l] \in ListType /\ Bufs(S, l) \in Seq(Node)
         /\ \A n \in Els(Bufs(S, l)) : n \in Node /\ n \in AllNodes(S)
<1>1. S.lists[l] \in ListType BY DEF Shape
<1>2. Bufs(S, l) \in Seq(Node) BY <1>1 DEF Bufs, ListType
<1>3. \A n \in Els(Bufs(S, l)) : n \in Node BY <1>2 DEF Els
<1> QED BY <1>1, <1>2, <1>3 DEF AllNodes

(* Replacing one list leaves the raws and the other lists alone.            *)
LEMMA WithIs ==
  ASSUME NEW S, Shape(S), NEW l \in Lists, NEW L \in ListType
  PROVE  LET T == With(S, l, L)
         IN  /\ Shape(T) /\ T.raws = S.raws
             /\ T.lists[l] = L /\ Bufs(T, l) = L.bufs
             /\ \A m \in Lists \ {l} : T.lists[m] = S.lists[m] /\ Bufs(T, m) = Bufs(S, m)
  BY DEF With, Shape, Bufs

(* A node ends at a natural number.                                         *)
LEMMA EndNat == ASSUME NEW n \in Node PROVE End(n) \in Nat
  BY DEF Node, End

(* A list may be replaced by one with the right count and one carriage, if  *)
(* its nodes have a live raw to lie in and its carriage is the list's own   *)
(* or in a raw nobody has a carriage in.                                    *)
LEMMA Replaced ==
  ASSUME NEW S, Sound(S), NEW l \in Lists, NEW L \in ListType,
         L.num = Len(L.bufs), OneCar(L.bufs),
         \A n \in Els(L.bufs) : Placed(S, n),
         \A c \in Els(L.bufs) : c.car => Heir(S, l, L.bufs, c)
  PROVE  Sound(With(S, l, L))
<1> DEFINE T == With(S, l, L)
<1>0. Shape(S) /\ Chains(S) /\ Owners(S) BY DEF Sound
<1>1. /\ Shape(T) /\ T.raws = S.raws
      /\ T.lists[l] = L /\ Bufs(T, l) = L.bufs
      /\ \A m \in Lists \ {l} : T.lists[m] = S.lists[m] /\ Bufs(T, m) = Bufs(S, m)
  BY <1>0, WithIs
<1> HIDE DEF T
<1>2. L.bufs \in Seq(Node) /\ \A n \in Els(L.bufs) : n \in Node
  BY DEF ListType, Els
<1>3. \A m \in Lists : \A n \in Els(Bufs(S, m)) : n \in Node /\ n \in AllNodes(S)
  BY <1>0, BufsTyped
<1>4. \A r \in Raws : S.raws[r].len \in Nat BY <1>0 DEF Shape, RawShape
<1>5. \A n \in AllNodes(S) : n \in Node /\ Fit(S, n) BY <1>0 DEF AllNodes, Chains
<1>6. \A n \in Els(L.bufs) : Fit(S, n)
  <2> SUFFICES ASSUME NEW n \in Els(L.bufs) PROVE Fit(S, n) OBVIOUS
  <2>1. CASE Within(n, AllNodes(S))
    <3>1. PICK d \in AllNodes(S) : n.raw = d.raw /\ End(n) <= End(d) BY <2>1 DEF Within
    <3>2. d \in Node /\ n \in Node /\ End(d) \in Nat /\ End(n) \in Nat
      BY <1>2, <1>5, EndNat
    <3>3. d.raw \in Raws BY <3>2 DEF Node
    <3> QED BY <1>4, <1>5, <3>1, <3>2, <3>3 DEF Fit
  <2> QED BY <2>1 DEF Placed
<1>7. Chains(T)
  <2> SUFFICES ASSUME NEW m \in Lists
               PROVE  /\ T.lists[m].num = Len(Bufs(T, m)) /\ OneCar(Bufs(T, m))
                      /\ \A n \in Els(Bufs(T, m)) : Fit(T, n)
    BY DEF Chains
  <2>1. \A n : Fit(S, n) => Fit(T, n) BY <1>1 DEF Fit
  <2>2. CASE m = l BY <1>1, <1>6, <2>1, <2>2
  <2>3. CASE m # l BY <1>0, <1>1, <2>1, <2>3 DEF Chains
  <2> QED BY <2>2, <2>3
<1>8. Owners(T)
  <2> SUFFICES ASSUME NEW a \in Lists, NEW b \in Lists, NEW c \in Els(Bufs(T, a)),
                      NEW n \in Els(Bufs(T, b)), c.car, n.raw = c.raw
               PROVE  End(n) <= End(c) /\ (n.car => b = a)
    BY DEF Owners
  \* an old carriage that c stands for, or c is in a fresh raw
  <2>1. \/ \E d \in Els(Bufs(S, a)) : d.car /\ d.raw = c.raw /\ End(d) = End(c)
        \/ a = l /\ Fresh(S, c.raw) /\ \A x \in Els(L.bufs) : x.raw = c.raw => End(x) <= End(c)
    <3>1. CASE a = l BY <1>1, <3>1 DEF Heir
    <3>2. CASE a # l BY <1>1, <3>2
    <3> QED BY <3>1, <3>2
  <2>2. n.car => \/ \E d \in Els(Bufs(S, b)) : d.car /\ d.raw = n.raw
                 \/ b = l /\ Fresh(S, n.raw)
    <3>1. CASE b = l BY <1>1, <3>1 DEF Heir
    <3>2. CASE b # l BY <1>1, <3>2
    <3> QED BY <3>1, <3>2
  <2>3. Within(n, AllNodes(S)) \/ (b = l /\ Fresh(S, n.raw))
    <3>1. CASE b = l BY <1>1, <3>1 DEF Placed
    <3>2. CASE b # l
      <4>1. n \in AllNodes(S) BY <1>1, <1>3, <3>2
      <4>2. End(n) <= End(n) BY <1>5, <4>1, EndNat
      <4> QED BY <4>1, <4>2 DEF Within
    <3> QED BY <3>1, <3>2
  <2>4. n \in Node /\ c \in Node
    <3>1. \A m \in Lists : \A x \in Els(Bufs(T, m)) : x \in Node
      BY <1>1, <1>2, <1>3
    <3> QED BY <3>1
  <2>5. CASE \E d \in Els(Bufs(S, a)) : d.car /\ d.raw = c.raw /\ End(d) = End(c)
    <3>1. PICK d \in Els(Bufs(S, a)) : d.car /\ d.raw = c.raw /\ End(d) = End(c) BY <2>5
    <3>2. d \in AllNodes(S) BY <1>3
    <3>3. ~Fresh(S, n.raw) BY <3>1, <3>2 DEF Fresh
    <3>4. PICK e \in AllNodes(S) : n.raw = e.raw /\ End(n) <= End(e)
      BY <2>3, <3>3 DEF Within
    <3>5. PICK k \in Lists : e \in Els(Bufs(S, k)) BY <3>4 DEF AllNodes
    <3>6. End(e) <= End(d) BY <1>0, <3>1, <3>4, <3>5 DEF Owners
    <3>7. End(n) \in Nat /\ End(e) \in Nat /\ End(d) \in Nat BY <1>5, <2>4, <3>2, <3>4, EndNat
    <3>8. End(n) <= End(c) BY <3>1, <3>4, <3>6, <3>7
    <3>9. ASSUME n.car PROVE b = a
      <4>1. PICK g \in Els(Bufs(S, b)) : g.car /\ g.raw = n.raw BY <2>2, <3>3, <3>9
      <4> QED BY <1>0, <3>1, <4>1 DEF Owners
    <3> QED BY <3>8, <3>9
  <2>6. CASE a = l /\ Fresh(S, c.raw) /\ \A x \in Els(L.bufs) : x.raw = c.raw => End(x) <= End(c)
    <3>1. ~Within(n, AllNodes(S)) BY <2>6 DEF Within, Fresh
    <3>2. b = l BY <2>3, <3>1
    <3> QED BY <1>1, <2>6, <3>2
  <2> QED BY <2>1, <2>5, <2>6
<1> QED BY <1>1, <1>7, <1>8 DEF Sound, T

(* The cells of a raw are bytes, as many as it is long.                     *)
Filled(S) == \A r \in Raws : S.raws[r].data \in Seq(Byte) /\ Len(S.raws[r].data) = S.raws[r].len

(* The bytes the model writes: zeros, a terminator and a struct_v.          *)
LEMMA Bytes == Junk \in Byte /\ 0 \in Byte /\ 1 \in Byte /\ 3 \in Byte /\ Byte \subseteq Nat
  BY DEF Byte, Junk

(* What an operation on the raws alone has to leave as it is.               *)
LEMMA Reraw ==
  ASSUME NEW S, Sound(S), NEW T, Shape(T), T.lists = S.lists,
         \A n \in AllNodes(S) : T.raws[n.raw].len = S.raws[n.raw].len
  PROVE  Sound(T) /\ AllNodes(T) = AllNodes(S)
<1>1. \A l \in Lists : Bufs(T, l) = Bufs(S, l) BY DEF Bufs
<1>2. \A l \in Lists : \A n \in Els(Bufs(S, l)) : n \in AllNodes(S)
  BY BufsTyped DEF Sound
<1>3. Chains(T)
  <2> SUFFICES ASSUME NEW m \in Lists
               PROVE  /\ T.lists[m].num = Len(Bufs(T, m)) /\ OneCar(Bufs(T, m))
                      /\ \A n \in Els(Bufs(T, m)) : Fit(T, n)
    BY DEF Chains
  <2>1. \A n \in AllNodes(S) : Fit(S, n) => Fit(T, n) BY DEF Fit
  <2> QED BY <1>1, <1>2, <2>1 DEF Sound, Chains
<1>4. Owners(T) BY <1>1 DEF Sound, Owners
<1>5. AllNodes(T) = AllNodes(S) BY <1>1 DEF AllNodes
<1> QED BY <1>3, <1>4, <1>5 DEF Sound

(* A raw that is dead is nobody's.                                          *)
LEMMA DeadIsFresh ==
  ASSUME NEW S, Sound(S), NEW r \in Raws, S.raws[r] = Dead
  PROVE  Fresh(S, r)
<1>1. S.raws[r].len = 0 BY DEF Dead
<1>2. \A n \in AllNodes(S) : S.raws[n.raw].len > 0 BY DEF Sound, Chains, AllNodes, Fit
<1> QED BY <1>1, <1>2 DEF Fresh

(* buffer::create() makes a live raw that no node refers to.                *)
LEMMA CreateIs ==
  ASSUME NEW S, Sound(S), NEW r \in Raws, S.raws[r] = Dead, NEW n \in Nat \ {0}, NEW base
  PROVE  LET T == Create(S, r, n, base)
         IN  /\ Sound(T) /\ T.lists = S.lists /\ AllNodes(T) = AllNodes(S)
             /\ T.raws[r].len = n /\ \A x \in Raws \ {r} : T.raws[x] = S.raws[x]
             /\ Fresh(T, r)
             /\ Filled(S) => Filled(T)
<1> DEFINE new == [len |-> n, base |-> base, crc |-> NoCrc, data |-> [i \in 1..n |-> Junk]]
           T == Create(S, r, n, base)
<1>0. Shape(S) BY DEF Sound
<1>1. T = [raws |-> [S.raws EXCEPT ![r] = new], lists |-> S.lists]
  <2>1. T = [S EXCEPT !.raws[r] = new] BY DEF Create
  <2> HIDE DEF new, T
  <2> QED BY <1>0, <2>1 DEF Shape
<1> HIDE DEF new, T
<1>2. /\ T.lists = S.lists /\ T.raws[r] = new /\ \A x \in Raws \ {r} : T.raws[x] = S.raws[x]
      /\ T.raws = [x \in Raws |-> T.raws[x]]
  BY <1>0, <1>1 DEF Shape
<1>3. RawShape(new) /\ new.len = n BY DEF RawShape, new
<1>4. Shape(T) BY <1>0, <1>1, <1>2, <1>3 DEF Shape
<1>5. Fresh(S, r) BY DeadIsFresh
<1>6. \A x \in AllNodes(S) : x.raw \in Raws /\ x.raw # r BY <1>5 DEF Fresh, AllNodes, Node
<1>7. Sound(T) /\ AllNodes(T) = AllNodes(S) BY <1>2, <1>4, <1>6, Reraw
<1>8. Fresh(T, r) BY <1>5, <1>7 DEF Fresh
<1>9. ASSUME Filled(S) PROVE Filled(T)
  <2>1. new.data \in Seq(Byte) /\ Len(new.data) = new.len BY Bytes DEF new
  <2> QED BY <1>2, <1>9, <2>1 DEF Filled
<1> QED BY <1>2, <1>3, <1>7, <1>8, <1>9 DEF T

(* Writing bytes in a raw moves no node and changes no size.                *)
LEMMA PokeIs ==
  ASSUME NEW S, Sound(S), NEW r \in Raws, NEW off, NEW s
  PROVE  LET T == Poke(S, r, off, s)
         IN  /\ Sound(T) /\ T.lists = S.lists /\ AllNodes(T) = AllNodes(S)
             /\ \A x \in Raws : T.raws[x].len = S.raws[x].len
             /\ \A x \in Raws \ {r} : T.raws[x] = S.raws[x]
             /\ Filled(S) /\ off \in Nat /\ s \in Seq(Byte) => Filled(T)
<1> DEFINE T == Poke(S, r, off, s)
           new == [i \in DOMAIN S.raws[r].data |->
                     IF i \in (off + 1)..(off + Len(s)) THEN s[i - off] ELSE S.raws[r].data[i]]
<1>0. Shape(S) BY DEF Sound
<1>1. RawShape(S.raws[r]) BY <1>0 DEF Shape
<1>2. T = [raws |-> [S.raws EXCEPT ![r] = [S.raws[r] EXCEPT !.data = new]], lists |-> S.lists]
  BY <1>0, <1>1 DEF Poke, Shape, RawShape
<1> HIDE DEF new, T
<1>3. /\ T.lists = S.lists /\ T.raws[r] = [S.raws[r] EXCEPT !.data = new]
      /\ \A x \in Raws \ {r} : T.raws[x] = S.raws[x]
      /\ T.raws = [x \in Raws |-> T.raws[x]]
  BY <1>0, <1>2 DEF Shape
<1>4. /\ T.raws[r] = [len |-> S.raws[r].len, base |-> S.raws[r].base, data |-> new,
                      crc |-> S.raws[r].crc]
  BY <1>1, <1>3 DEF RawShape
<1>5. RawShape(T.raws[r]) /\ T.raws[r].len = S.raws[r].len /\ T.raws[r].data = new
  BY <1>1, <1>4 DEF RawShape
<1>6. Shape(T) BY <1>0, <1>2, <1>3, <1>5 DEF Shape
<1>7. \A x \in Raws : T.raws[x].len = S.raws[x].len BY <1>3, <1>5
<1>8. \A x \in AllNodes(S) : x.raw \in Raws BY DEF AllNodes, Node
<1>9. Sound(T) /\ AllNodes(T) = AllNodes(S) BY <1>3, <1>6, <1>7, <1>8, Reraw
<1>10. ASSUME Filled(S), off \in Nat, s \in Seq(Byte) PROVE Filled(T)
  <2>1. S.raws[r].data \in Seq(Byte) /\ Len(S.raws[r].data) = S.raws[r].len BY <1>10 DEF Filled
  <2>2. DOMAIN S.raws[r].data = 1..S.raws[r].len /\ S.raws[r].len \in Nat
    BY <2>1, <1>1 DEF RawShape
  <2>3. ASSUME NEW i \in 1..S.raws[r].len PROVE new[i] \in Byte
    <3>1. new[i] = IF i \in (off + 1)..(off + Len(s)) THEN s[i - off] ELSE S.raws[r].data[i]
      BY <2>2 DEF new
    <3>2. i \in (off + 1)..(off + Len(s)) => i - off \in 1..Len(s) BY <1>10, <2>2
    <3>3. i \in (off + 1)..(off + Len(s)) => s[i - off] \in Byte BY <1>10, <3>2
    <3>4. S.raws[r].data[i] \in Byte BY <2>1, <2>2
    <3> QED BY <3>1, <3>3, <3>4
  <2>4. new = [i \in 1..S.raws[r].len |-> new[i]] BY <2>2 DEF new
  <2>5. new \in Seq(Byte) /\ Len(new) = S.raws[r].len BY <2>2, <2>3, <2>4
  <2> QED BY <1>3, <1>5, <1>10, <2>5 DEF Filled
<1> QED BY <1>3, <1>7, <1>9, <1>10 DEF T

-----------------------------------------------------------------------------
(* The operations every append is made of                                   *)

(* The other lists are left alone.                                          *)
Only(S, T, l) == \A m \in Lists \ {l} : T.lists[m] = S.lists[m]

(* A node of a list is in a live raw, and ends inside it.                   *)
LEMMA NodeStays ==
  ASSUME NEW S, Sound(S), NEW n \in AllNodes(S)
  PROVE  n \in Node /\ Placed(S, n)
<1>1. n \in Node BY DEF AllNodes
<1>2. End(n) <= End(n) BY <1>1, EndNat
<1> QED BY <1>1, <1>2 DEF Placed, Within

(* Setting one list of the pair.                                            *)
LEMMA SetList ==
  ASSUME NEW S, Shape(S), NEW l \in Lists, NEW L
  PROVE  [S EXCEPT !.lists[l] = L] = With(S, l, L)
  BY DEF With, Shape

(* A list is its four fields.                                               *)
LEMMA ListFields ==
  ASSUME NEW x \in ListType
  PROVE  /\ x = [bufs |-> x.bufs, len |-> x.len, num |-> x.num, dangling |-> x.dangling]
         /\ x.bufs \in Seq(Node) /\ x.len \in Nat /\ x.num \in Nat /\ x.dangling \in BOOLEAN
  BY DEF ListType

(* push_back(): one node more, which takes the carriage over if it is one.  *)
LEMMA PushBackIs ==
  ASSUME NEW S, Sound(S), NEW l \in Lists, NEW n \in Node, Placed(S, n),
         n.car => \/ Fresh(S, n.raw)
                  \/ \E d \in Els(Bufs(S, l)) : d.car /\ d.raw = n.raw /\ End(d) = End(n)
  PROVE  LET T == PushBack(S, l, n)
         IN  /\ Sound(T) /\ Only(S, T, l) /\ T.raws = S.raws
             /\ T.lists[l].len = S.lists[l].len
             /\ Total(Bufs(T, l)) = Total(Bufs(S, l)) + n.len
             /\ Len(Bufs(T, l)) > 0 /\ Last(Bufs(T, l)) = n
             /\ HasCar(Bufs(T, l)) <=> HasCar(Bufs(S, l)) \/ n.car
<1> DEFINE old == Bufs(S, l)
           front == IF n.car THEN Uncrowned(old) ELSE old
           bufs == Append(front, n)
           dang == S.lists[l].dangling /\ ~n.car
           L == [bufs |-> bufs, len |-> S.lists[l].len, num |-> S.lists[l].num + 1,
                 dangling |-> dang]
           T == PushBack(S, l, n)
<1>0. Shape(S) /\ Chains(S) BY DEF Sound
<1>1. /\ S.lists[l] \in ListType /\ old \in Seq(Node)
      /\ \A x \in Els(old) : x \in Node /\ x \in AllNodes(S)
  BY <1>0, BufsTyped
<1>2. T = With(S, l, L)
  <2>1. S.lists[l].bufs = old BY DEF Bufs
  <2>2. T = [S EXCEPT !.lists[l] = L] BY <2>1 DEF PushBack
  <2> HIDE DEF T, L
  <2> QED BY <1>0, <2>2, SetList
<1>3. /\ front \in Seq(Node) /\ Len(front) = Len(old) /\ OneCar(front)
      /\ Total(front) = Total(old) /\ ~(HasCar(front) /\ n.car)
      /\ HasCar(front) \/ n.car <=> HasCar(old) \/ n.car
      /\ \A x \in Els(front) : \E y \in Els(old) : x = y \/ x = Copy(y)
      /\ \A x \in Els(front) : x.car => x \in Els(old)
  <2>1. CASE n.car
    <3>1. front = Uncrowned(old) BY <2>1
    <3>2. \A x \in Els(front) : ~x.car BY <1>1, <3>1, UncrownedIs DEF HasCar, Els
    <3> HIDE DEF front, old
    <3> QED BY <1>1, <2>1, <3>1, <3>2, UncrownedIs
  <2>2. CASE ~n.car
    <3>1. front = old BY <2>2
    <3>2. OneCar(old) BY <1>0 DEF Chains
    <3> HIDE DEF front, old
    <3> QED BY <1>1, <2>2, <3>1, <3>2
  <2> QED BY <2>1, <2>2
<1> HIDE DEF front
<1>4. /\ bufs \in Seq(Node) /\ Len(bufs) = Len(front) + 1 /\ Els(bufs) = Els(front) \cup {n}
      /\ OneCar(bufs) /\ (HasCar(bufs) <=> HasCar(front) \/ n.car)
  BY <1>3, ElsAppend
<1>5. Total(bufs) = Total(front) + n.len BY <1>3, TotalAppend
<1>50. Last(bufs) = n BY <1>3 DEF Last
<1> HIDE DEF bufs
<1>6. S.lists[l].num = Len(old) /\ Len(old) \in Nat BY <1>0, <1>1 DEF Chains
<1>7. L \in ListType /\ L.num = Len(L.bufs) /\ L.bufs = bufs
  <2>1. S.lists[l].len \in Nat /\ S.lists[l].num + 1 \in Nat BY <1>1, <1>6 DEF ListType
  <2>2. dang \in BOOLEAN BY <1>1 DEF ListType, Node
  <2> HIDE DEF dang
  <2> QED BY <1>3, <1>4, <1>6, <2>1, <2>2 DEF ListType
<1>8. \A x \in Els(front) : \E y \in AllNodes(S) : y \in Els(old) /\ x.raw = y.raw /\ End(x) = End(y)
  <2>1. \A y \in Node : Copy(y).raw = y.raw /\ End(Copy(y)) = End(y) BY DEF Copy, End, Node
  <2> HIDE DEF old
  <2> QED BY <1>1, <1>3, <2>1
<1>9. \A x \in Els(bufs) : Placed(S, x)
  <2> SUFFICES ASSUME NEW x \in Els(front) PROVE Placed(S, x) BY <1>4
  <2>1. PICK y \in AllNodes(S) : x.raw = y.raw /\ End(x) = End(y) BY <1>8
  <2>2. End(y) \in Nat BY <2>1, EndNat DEF AllNodes
  <2> QED BY <2>1, <2>2 DEF Placed, Within
<1>10. \A c \in Els(bufs) : c.car => Heir(S, l, bufs, c)
  <2> SUFFICES ASSUME NEW c \in Els(bufs), c.car PROVE Heir(S, l, bufs, c) OBVIOUS
  <2>1. CASE c \in Els(front)
    <3>1. c \in Els(old) BY <1>3, <2>1
    <3> QED BY <3>1 DEF Heir
  <2>2. CASE c = n /\ \E d \in Els(Bufs(S, l)) : d.car /\ d.raw = n.raw /\ End(d) = End(n)
    BY <2>2 DEF Heir
  <2>3. CASE c = n /\ Fresh(S, n.raw)
    <3>1. \A x \in Els(front) : x.raw # n.raw BY <1>8, <2>3 DEF Fresh
    <3>2. End(n) <= End(n) BY EndNat
    <3> QED BY <1>4, <2>3, <3>1, <3>2 DEF Heir
  <2> QED BY <1>4, <2>1, <2>2, <2>3
<1> HIDE DEF L, T
<1>11. Sound(T) BY <1>2, <1>4, <1>7, <1>9, <1>10, Replaced
<1>12. /\ T.raws = S.raws /\ T.lists[l] = L /\ Bufs(T, l) = bufs
       /\ \A m \in Lists \ {l} : T.lists[m] = S.lists[m]
  BY <1>0, <1>2, <1>7, WithIs
<1>13. T.lists[l].len = S.lists[l].len BY <1>12 DEF L
<1>14. Len(bufs) > 0 BY <1>3, <1>4, <1>6
<1> QED BY <1>3, <1>4, <1>5, <1>50, <1>11, <1>12, <1>13, <1>14 DEF T, Only, old

(* Adding to _len changes no node.                                          *)
LEMMA GrowIs ==
  ASSUME NEW S, Sound(S), NEW l \in Lists, NEW k \in Nat
  PROVE  LET T == Grow(S, l, k)
         IN  /\ Sound(T) /\ Only(S, T, l) /\ T.raws = S.raws
             /\ T.lists[l].len = S.lists[l].len + k /\ Bufs(T, l) = Bufs(S, l)
             /\ AllNodes(T) = AllNodes(S)
<1> DEFINE x == S.lists[l]
           L == [bufs |-> x.bufs, len |-> x.len + k, num |-> x.num, dangling |-> x.dangling]
           T == Grow(S, l, k)
<1>0. Shape(S) /\ Chains(S) BY DEF Sound
<1>1. /\ x \in ListType /\ Bufs(S, l) \in Seq(Node) /\ Bufs(S, l) = x.bufs
      /\ \A n \in Els(Bufs(S, l)) : n \in AllNodes(S)
  BY <1>0, BufsTyped DEF Bufs
<1>2. x = [bufs |-> x.bufs, len |-> x.len, num |-> x.num, dangling |-> x.dangling]
  BY <1>1 DEF ListType
<1>3. T = With(S, l, L) BY <1>0, <1>2 DEF Grow, Shape, With
<1>4. L \in ListType /\ L.bufs = x.bufs /\ L.num = x.num /\ L.len = x.len + k
  BY <1>1 DEF ListType
<1>5. L.num = Len(L.bufs) /\ OneCar(L.bufs) BY <1>0, <1>1, <1>4 DEF Chains
<1>6. \A n \in Els(L.bufs) : Placed(S, n) BY <1>1, <1>4, NodeStays
<1>7. \A c \in Els(L.bufs) : c.car => Heir(S, l, L.bufs, c) BY <1>1, <1>4 DEF Heir
<1> HIDE DEF L, T
<1>8. Sound(T) BY <1>3, <1>4, <1>5, <1>6, <1>7, Replaced
<1>9. /\ T.raws = S.raws /\ T.lists[l] = L /\ Bufs(T, l) = L.bufs
      /\ \A m \in Lists \ {l} : T.lists[m] = S.lists[m] /\ Bufs(T, m) = Bufs(S, m)
  BY <1>0, <1>3, <1>4, WithIs
<1>10. AllNodes(T) = AllNodes(S)
  <2>1. \A m \in Lists : Bufs(T, m) = Bufs(S, m) BY <1>1, <1>4, <1>9
  <2> QED BY <2>1 DEF AllNodes
<1> QED BY <1>1, <1>4, <1>8, <1>9, <1>10 DEF Only, T

-----------------------------------------------------------------------------
(* Extending the last node                                                  *)

(* A chain that is not empty is its front and its last node.                *)
LEMMA LastSplit ==
  ASSUME NEW s \in Seq(Node), s # <<>>
  PROVE  /\ s = Append(Front(s), Last(s)) /\ Front(s) \in Seq(Node) /\ Last(s) \in Node
         /\ Len(s) > 0 /\ Len(Front(s)) = Len(s) - 1 /\ Last(s) = s[Len(s)] /\ Last(s) \in Els(s)
         /\ Els(s) = Els(Front(s)) \cup {Last(s)}
<1>1. Len(s) \in Nat /\ Len(s) # 0 OBVIOUS
<1>2. s = Append(Front(s), Last(s)) /\ Front(s) \in Seq(Node) /\ Last(s) \in Node
  BY <1>1 DEF Front, Last
<1>3. Len(Front(s)) = Len(s) - 1 /\ Last(s) = s[Len(s)]
  <2>1. Last(s) = s[Len(s)] BY DEF Last
  <2> DEFINE f == Front(s)
             n == Last(s)
  <2> HIDE DEF f, n
  <2>2. f \in Seq(Node) /\ n \in Node /\ s = Append(f, n) BY <1>2 DEF f, n
  <2>3. Len(s) = Len(f) + 1 /\ Len(f) \in Nat BY <2>2
  <2> QED BY <2>1, <2>3 DEF f
<1>4. Els(s) = Els(Front(s)) \cup {Last(s)}
  <2> DEFINE f == Front(s)
             n == Last(s)
  <2> HIDE DEF f, n
  <2>1. f \in Seq(Node) /\ n \in Node /\ s = Append(f, n) BY <1>2 DEF f, n
  <2>2. Els(s) = Els(f) \cup {n} BY <2>1, ElsAppend
  <2> QED BY <2>2 DEF f, n
<1> QED BY <1>1, <1>2, <1>3, <1>4

(* A node that ends k cells later.                                          *)
Longer(n, k) == [raw |-> n.raw, off |-> n.off, len |-> n.len + k, car |-> n.car]

(* The node that ends k cells later starts where it started.                *)
LEMMA LongerIs ==
  ASSUME NEW n \in Node, NEW k \in Nat
  PROVE  /\ Longer(n, k) \in Node /\ Longer(n, k).raw = n.raw /\ Longer(n, k).car = n.car
         /\ Longer(n, k).off = n.off
         /\ Longer(n, k).len = n.len + k /\ End(Longer(n, k)) = End(n) + k
<1> DEFINE p == Longer(n, k)
<1>1. n.raw \in Raws /\ n.off \in Nat /\ n.len \in Nat /\ n.car \in BOOLEAN BY DEF Node
<1>2. p \in Node /\ p.raw = n.raw /\ p.car = n.car /\ p.off = n.off /\ p.len = n.len + k
  BY <1>1 DEF Node, Longer
<1> HIDE DEF p
<1>3. End(p) = End(n) + k BY <1>1, <1>2 DEF End
<1> QED BY <1>2, <1>3 DEF p

(* Extending the last node, as the list it makes.                           *)
LEMMA StretchShape ==
  ASSUME NEW S, Sound(S), NEW l \in Lists, Bufs(S, l) # <<>>, NEW k \in Nat
  PROVE  LET old == Bufs(S, l)
             x == S.lists[l]
             bufs == Append(Front(old), Longer(Last(old), k))
             L == [bufs |-> bufs, len |-> x.len, num |-> x.num, dangling |-> x.dangling]
         IN  /\ Stretch(S, l, k) = With(S, l, L) /\ L \in ListType /\ L.num = Len(bufs)
             /\ bufs \in Seq(Node) /\ Els(bufs) = Els(Front(old)) \cup {Longer(Last(old), k)}
             /\ OneCar(bufs) /\ (HasCar(bufs) <=> HasCar(old)) /\ Last(bufs) = Longer(Last(old), k)
             /\ Total(bufs) = Total(old) + k /\ Len(bufs) = Len(old)
<1> DEFINE old == Bufs(S, l)
           x == S.lists[l]
           f == Front(old)
           n == Last(old)
           p == Longer(n, k)
           bufs == Append(f, p)
           L == [bufs |-> bufs, len |-> x.len, num |-> x.num, dangling |-> x.dangling]
<1>0. Shape(S) /\ Chains(S) BY DEF Sound
<1>1. x \in ListType /\ old \in Seq(Node) /\ old = x.bufs BY <1>0, BufsTyped DEF Bufs
<1>2. /\ old = Append(f, n) /\ f \in Seq(Node) /\ n \in Node /\ Len(old) > 0 /\ Len(old) \in Nat
      /\ Len(f) = Len(old) - 1 /\ n = old[Len(old)] /\ Els(old) = Els(f) \cup {n}
  BY <1>1, LastSplit
<1>3. p \in Node /\ p.car = n.car /\ p.len = n.len + k BY <1>2, LongerIs
<1>4. bufs = [old EXCEPT ![Len(old)] = p]
  <2> HIDE DEF p, old, f, n
  <2>1. \A i \in 1..Len(f) : old[i] = f[i] /\ bufs[i] = f[i] BY <1>2, <1>3
  <2>2. bufs[Len(old)] = p /\ Len(bufs) = Len(old) BY <1>2, <1>3
  <2>3. bufs \in Seq(Node) BY <1>2, <1>3
  <2> HIDE DEF bufs
  <2>4. DOMAIN bufs = 1..Len(old) /\ DOMAIN old = 1..Len(old) BY <1>1, <2>2, <2>3
  <2>5. ASSUME NEW i \in 1..Len(old) PROVE bufs[i] = [old EXCEPT ![Len(old)] = p][i]
    <3>1. CASE i = Len(old) BY <2>2, <2>4, <3>1
    <3>2. CASE i # Len(old)
      <4>1. i \in 1..Len(f) BY <1>2, <3>2
      <4>2. bufs[i] = old[i] BY <2>1, <4>1
      <4> QED BY <1>2, <2>4, <3>2, <4>2
    <3> QED BY <3>1, <3>2
  <2>6. bufs = [i \in 1..Len(old) |-> bufs[i]] BY <2>2, <2>3
  <2> QED BY <2>4, <2>5, <2>6
<1>5. Stretch(S, l, k) = With(S, l, L)
  <2>0. Len(old) \in DOMAIN old BY <1>1, <1>2
  <2>1. n = [raw |-> n.raw, off |-> n.off, len |-> n.len, car |-> n.car] BY <1>2 DEF Node
  <2>2. p = [n EXCEPT !.len = n.len + k] BY <2>1 DEF Longer
  <2>3. x = [bufs |-> old, len |-> x.len, num |-> x.num, dangling |-> x.dangling]
    BY <1>1, ListFields
  <2>4. L = [x EXCEPT !.bufs = bufs]
    <3> HIDE DEF bufs, x
    <3> QED BY <2>3
  <2>5. bufs = [x.bufs EXCEPT ![Len(old)] = [n EXCEPT !.len = n.len + k]]
    <3> HIDE DEF bufs, old, n, p
    <3> QED BY <1>1, <1>4, <2>2
  <2>6. Stretch(S, l, k) = [S EXCEPT !.lists[l].bufs[Len(old)].len = @ + k] BY DEF Stretch
  <2>7. Stretch(S, l, k) = [S EXCEPT !.lists[l] = [x EXCEPT !.bufs = [x.bufs EXCEPT ![Len(old)] = [x.bufs[Len(old)] EXCEPT !.len = x.bufs[Len(old)].len + k]]]]
    BY <2>6
  <2>8. Stretch(S, l, k) = [S EXCEPT !.lists[l] = L]
    <3> HIDE DEF bufs, old, n, p, x, L
    <3> QED BY <1>1, <1>2, <2>4, <2>5, <2>7
  <2> HIDE DEF L
  <2> QED BY <1>0, <2>8, SetList
<1>6. /\ bufs \in Seq(Node) /\ Len(bufs) = Len(f) + 1 /\ Els(bufs) = Els(f) \cup {p}
      /\ (HasCar(bufs) <=> HasCar(f) \/ p.car)
      /\ OneCar(f) /\ ~(HasCar(f) /\ p.car) => OneCar(bufs)
      /\ (HasCar(old) <=> HasCar(f) \/ n.car)
  <2> HIDE DEF f, n, p, old
  <2> QED BY <1>2, <1>3, ElsAppend
<1>7. OneCar(f) /\ ~(HasCar(f) /\ n.car)
  <2>1. OneCar(old) BY <1>0 DEF Chains
  <2> HIDE DEF f, n, old
  <2>2. \A i \in DOMAIN f : i \in DOMAIN old /\ i # Len(old) /\ old[i] = f[i] BY <1>2
  <2>3. Len(old) \in DOMAIN old /\ old[Len(old)] = n BY <1>1, <1>2
  <2> QED BY <2>1, <2>2, <2>3 DEF OneCar, HasCar
<1>8. Total(bufs) = Total(old) + k
  <2> HIDE DEF f, n, p, old
  <2>1. Total(bufs) = Total(f) + p.len /\ Total(old) = Total(f) + n.len
    BY <1>2, <1>3, TotalAppend
  <2>2. Total(f) \in Nat /\ n.len \in Nat BY <1>2, TotalNat DEF Node
  <2> QED BY <1>3, <2>1, <2>2
<1>9. Last(bufs) = p
  <2> HIDE DEF f, p
  <2> QED BY <1>2 DEF Last
<1>10. x.num = Len(old) BY <1>0 DEF Chains
<1>11. L \in ListType /\ L.num = Len(bufs)
  <2> HIDE DEF bufs, x
  <2>1. x.len \in Nat /\ x.num \in Nat /\ x.dangling \in BOOLEAN BY <1>1 DEF ListType
  <2> QED BY <1>2, <1>6, <1>10, <2>1 DEF ListType
<1> HIDE DEF f, n, p
<1> QED BY <1>2, <1>3, <1>5, <1>6, <1>7, <1>8, <1>9, <1>11 DEF f, n, p

(* A chain with one carriage has no second one.                             *)
LEMMA OneCarSame ==
  ASSUME NEW s, OneCar(s), NEW c \in Els(s), NEW d \in Els(s), c.car, d.car
  PROVE  c = d
  BY DEF OneCar, Els

(* ptr::append(): the carriage grows into its unused tail.                  *)
LEMMA StretchOwn ==
  ASSUME NEW S, Sound(S), NEW l \in Lists, Bufs(S, l) # <<>>, NEW k \in Nat,
         Last(Bufs(S, l)).car,
         End(Last(Bufs(S, l))) + k <= S.raws[Last(Bufs(S, l)).raw].len
  PROVE  LET T == Stretch(S, l, k)
         IN  /\ Sound(T) /\ Only(S, T, l) /\ T.raws = S.raws
             /\ T.lists[l].len = S.lists[l].len
             /\ Bufs(T, l) # <<>> /\ Last(Bufs(T, l)) = Longer(Last(Bufs(S, l)), k)
             /\ Total(Bufs(T, l)) = Total(Bufs(S, l)) + k
<1> DEFINE old == Bufs(S, l)
           x == S.lists[l]
           f == Front(old)
           n == Last(old)
           p == Longer(n, k)
           bufs == Append(f, p)
           L == [bufs |-> bufs, len |-> x.len, num |-> x.num, dangling |-> x.dangling]
           T == Stretch(S, l, k)
<1>0. Shape(S) /\ Chains(S) /\ Owners(S) BY DEF Sound
<1>1. /\ T = With(S, l, L) /\ L \in ListType /\ L.num = Len(bufs)
      /\ bufs \in Seq(Node) /\ Els(bufs) = Els(f) \cup {p} /\ OneCar(bufs)
      /\ Last(bufs) = p /\ Total(bufs) = Total(old) + k /\ Len(bufs) = Len(old)
  BY StretchShape
<1>10. L.bufs = bufs /\ L.len = x.len OBVIOUS
<1>2. old \in Seq(Node) /\ \A y \in Els(old) : y \in Node /\ y \in AllNodes(S)
  BY <1>0, BufsTyped
<1>3. /\ n \in Node /\ Len(old) > 0 /\ n \in Els(old) /\ Els(old) = Els(f) \cup {n}
  BY <1>2, LastSplit
<1>4. p \in Node /\ p.raw = n.raw /\ p.car = n.car /\ End(p) = End(n) + k BY <1>3, LongerIs
<1> HIDE DEF T, L
<1>5. /\ Shape(T) /\ T.raws = S.raws
      /\ T.lists[l] = L /\ Bufs(T, l) = bufs
      /\ \A m \in Lists \ {l} : T.lists[m] = S.lists[m] /\ Bufs(T, m) = Bufs(S, m)
  BY <1>0, <1>1, <1>10, WithIs
<1> HIDE DEF bufs, p, n, f, old
<1>6. n.car /\ End(n) + k <= S.raws[n.raw].len BY DEF n, old
<1>7. Chains(T)
  <2> SUFFICES ASSUME NEW m \in Lists
               PROVE  /\ T.lists[m].num = Len(Bufs(T, m)) /\ OneCar(Bufs(T, m))
                      /\ \A y \in Els(Bufs(T, m)) : Fit(T, y)
    BY DEF Chains
  <2>1. \A y : Fit(S, y) => Fit(T, y) BY <1>5 DEF Fit
  <2>2. CASE m = l
    <3>1. \A y \in Els(old) : Fit(S, y) BY <1>0 DEF Chains, old
    <3>2. Fit(S, p) BY <1>3, <1>4, <1>6, <3>1 DEF Fit
    <3> QED BY <1>1, <1>3, <1>5, <2>1, <2>2, <3>1, <3>2
  <2>3. CASE m # l BY <1>0, <1>5, <2>1, <2>3 DEF Chains
  <2> QED BY <2>2, <2>3
<1>8. \A m \in Lists : \A y \in Els(Bufs(T, m)) :
        \/ y \in Els(Bufs(S, m))
        \/ m = l /\ y = p
  BY <1>1, <1>3, <1>5 DEF old
<1>9. Owners(T)
  <2> SUFFICES ASSUME NEW a \in Lists, NEW b \in Lists, NEW c \in Els(Bufs(T, a)),
                      NEW d \in Els(Bufs(T, b)), c.car, d.raw = c.raw
               PROVE  End(d) <= End(c) /\ (d.car => b = a)
    BY DEF Owners
  <2>1. n \in Els(Bufs(S, l)) BY <1>3 DEF old
  <2>2. CASE c \in Els(Bufs(S, a)) /\ d \in Els(Bufs(S, b))
    BY <1>0, <2>2 DEF Owners
  <2>3. CASE b = l /\ d = p
    <3>1. d.raw = n.raw BY <1>4, <2>3
    <3>2. a = l
      <4>1. CASE c \in Els(Bufs(S, a)) BY <1>0, <1>6, <2>1, <3>1, <4>1 DEF Owners
      <4> QED BY <1>8, <4>1
    <3>3. c = p
      <4>1. c \in Els(bufs) /\ p \in Els(bufs) /\ p.car BY <1>1, <1>4, <1>5, <1>6, <3>2
      <4> QED BY <1>1, <4>1, OneCarSame
    <3>4. End(p) <= End(p) BY <1>4, EndNat
    <3> QED BY <2>3, <3>2, <3>3, <3>4
  <2>4. CASE a = l /\ c = p /\ d \in Els(Bufs(S, b))
    <3>1. d.raw = n.raw BY <1>4, <2>4
    <3>2. End(d) <= End(n) /\ (d.car => b = l) BY <1>0, <1>6, <2>1, <2>4, <3>1 DEF Owners
    <3>3. d \in Node BY <1>0, <2>4, BufsTyped
    <3>4. End(d) \in Nat /\ End(n) \in Nat BY <1>3, <3>3, EndNat
    <3> QED BY <1>4, <2>4, <3>2, <3>4
  <2> QED BY <1>8, <2>2, <2>3, <2>4
<1>11. Sound(T) BY <1>5, <1>7, <1>9 DEF Sound
<1>12. bufs # <<>> BY <1>1, <1>3
<1> QED BY <1>1, <1>5, <1>10, <1>11, <1>12 DEF T, Only, old, n, p

(* append(ptr, off, len) where the bytes continue the last node.            *)
LEMMA StretchIn ==
  ASSUME NEW S, Sound(S), NEW l \in Lists, NEW p \in Node,
         Within(p, AllNodes(S)), Continues(S, l, p)
  PROVE  LET T == Stretch(S, l, p.len)
         IN  /\ Sound(T) /\ Only(S, T, l) /\ T.raws = S.raws
             /\ T.lists[l].len = S.lists[l].len
             /\ Total(Bufs(T, l)) = Total(Bufs(S, l)) + p.len
<1> DEFINE old == Bufs(S, l)
           x == S.lists[l]
           f == Front(old)
           n == Last(old)
           k == p.len
           q == Longer(n, k)
           bufs == Append(f, q)
           L == [bufs |-> bufs, len |-> x.len, num |-> x.num, dangling |-> x.dangling]
           T == Stretch(S, l, k)
<1>0. Shape(S) /\ Chains(S) /\ Owners(S) BY DEF Sound
<1>01. old # <<>> /\ n.raw = p.raw /\ End(n) = p.off BY DEF Continues
<1>02. k \in Nat /\ p.off \in Nat BY DEF Node
<1>1. /\ T = With(S, l, L) /\ L \in ListType /\ L.num = Len(bufs)
      /\ bufs \in Seq(Node) /\ Els(bufs) = Els(f) \cup {q} /\ OneCar(bufs)
      /\ Total(bufs) = Total(old) + k
  <2>1. Bufs(S, l) # <<>> /\ k \in Nat BY <1>01, <1>02
  <2> HIDE DEF k
  <2> QED BY <2>1, StretchShape
<1>10. L.bufs = bufs /\ L.len = x.len OBVIOUS
<1>2. old \in Seq(Node) /\ \A y \in Els(old) : y \in Node /\ y \in AllNodes(S)
  BY <1>0, BufsTyped
<1>3. /\ n \in Node /\ Len(old) > 0 /\ n \in Els(old) /\ Els(old) = Els(f) \cup {n}
  BY <1>01, <1>2, LastSplit
<1>4. q \in Node /\ q.raw = n.raw /\ q.car = n.car /\ End(q) = End(n) + k
  BY <1>02, <1>3, LongerIs
<1> HIDE DEF T, L
<1>5. /\ Shape(T) /\ T.raws = S.raws
      /\ T.lists[l] = L /\ Bufs(T, l) = bufs
      /\ \A m \in Lists \ {l} : T.lists[m] = S.lists[m] /\ Bufs(T, m) = Bufs(S, m)
  BY <1>0, <1>1, <1>10, WithIs
<1>6. End(q) = End(p) /\ q.raw = p.raw BY <1>01, <1>4 DEF End
<1> HIDE DEF bufs, q, n, f, k
<1>7. \A y \in Els(bufs) : Placed(S, y)
  <2>1. Placed(S, q) BY <1>6 DEF Placed, Within
  <2>2. \A y \in Els(f) : Placed(S, y) BY <1>2, <1>3, NodeStays
  <2> QED BY <1>1, <2>1, <2>2
<1>8. ASSUME NEW c \in Els(bufs), c.car PROVE Heir(S, l, bufs, c)
  <2>1. CASE c \in Els(f) BY <1>3, <1>8, <2>1 DEF Heir
  <2>2. CASE c = q
    <3>1. PICK m \in AllNodes(S) : p.raw = m.raw /\ End(p) <= End(m) BY DEF Within
    <3>2. PICK b \in Lists : m \in Els(Bufs(S, b)) BY DEF AllNodes
    <3>3. n \in Els(Bufs(S, l)) /\ n.car BY <1>3, <1>4, <1>8, <2>2
    <3>4. End(m) <= End(n) BY <1>0, <1>01, <3>1, <3>2, <3>3 DEF Owners
    <3>5. End(m) \in Nat /\ End(n) \in Nat /\ End(p) \in Nat BY <1>3, EndNat DEF AllNodes
    <3>6. End(n) = End(q) BY <1>02, <1>4, <1>6, <3>1, <3>4, <3>5
    <3> QED BY <1>4, <2>2, <3>3, <3>6 DEF Heir
  <2> QED BY <1>1, <2>1, <2>2
<1>9. Sound(T) BY <1>1, <1>7, <1>8, <1>10, Replaced
<1> QED BY <1>1, <1>5, <1>9, <1>10 DEF T, Only, k

-----------------------------------------------------------------------------
(* What an operation adds to a list                                         *)

(* The chain of l becomes k cells longer, its counter grows by j, and the   *)
(* other lists stay as they are.                                            *)
Gains(S, T, l, k, j) ==
  /\ Sound(T) /\ Filled(T) /\ Only(S, T, l)
  /\ Total(Bufs(T, l)) = Total(Bufs(S, l)) + k
  /\ T.lists[l].len = S.lists[l].len + j

(* What one step of an append adds and what the next adds, added up ...     *)
LEMMA GainsAdd ==
  ASSUME NEW S, Sound(S), NEW T, NEW U, NEW l \in Lists,
         NEW k \in Int, NEW j \in Int, NEW k2 \in Int, NEW j2 \in Int,
         Gains(S, T, l, k, j), Gains(T, U, l, k2, j2)
  PROVE  Gains(S, U, l, k + k2, j + j2)
<1>1. S.lists[l] \in ListType /\ Bufs(S, l) \in Seq(Node) BY BufsTyped DEF Sound
<1>2. S.lists[l].len \in Nat /\ Total(Bufs(S, l)) \in Nat BY <1>1, ListFields, TotalNat
<1> QED BY <1>2 DEF Gains, Only

(* ... the same, with the two sums under names of their own.                *)
LEMMA GainsSum ==
  ASSUME NEW S, Sound(S), NEW T, NEW U, NEW l \in Lists,
         NEW k \in Int, NEW j \in Int, NEW k2 \in Int, NEW j2 \in Int,
         Gains(S, T, l, k, j), Gains(T, U, l, k2, j2),
         NEW kk, kk = k + k2, NEW jj, jj = j + j2
  PROVE  Gains(S, U, l, kk, jj)
  BY GainsAdd

(* Doing nothing adds nothing.                                              *)
LEMMA GainsNothing ==
  ASSUME NEW S, Sound(S), Filled(S), NEW l \in Lists
  PROVE  Gains(S, S, l, 0, 0)
<1>1. S.lists[l] \in ListType /\ Bufs(S, l) \in Seq(Node) BY BufsTyped DEF Sound
<1>2. S.lists[l].len \in Nat /\ Total(Bufs(S, l)) \in Nat BY <1>1, ListFields, TotalNat
<1> QED BY <1>2 DEF Gains, Only

(* Adding to _len is all that Grow() does.                                  *)
LEMMA GrowGains ==
  ASSUME NEW S, Sound(S), Filled(S), NEW l \in Lists, NEW k \in Nat
  PROVE  /\ Gains(S, Grow(S, l, k), l, 0, k) /\ Grow(S, l, k).raws = S.raws
         /\ Bufs(Grow(S, l, k), l) = Bufs(S, l)
<1> DEFINE T == Grow(S, l, k)
<1>1. /\ Sound(T) /\ Only(S, T, l) /\ T.raws = S.raws
      /\ T.lists[l].len = S.lists[l].len + k /\ Bufs(T, l) = Bufs(S, l)
  BY GrowIs
<1>2. Bufs(S, l) \in Seq(Node) BY BufsTyped DEF Sound
<1>3. Total(Bufs(S, l)) \in Nat BY <1>2, TotalNat
<1>4. Filled(T) BY <1>1 DEF Filled
<1> HIDE DEF T
<1>5. Gains(S, T, l, 0, k) BY <1>1, <1>3, <1>4 DEF Gains
<1> QED BY <1>1, <1>5 DEF T

(* There is room for one more raw.                                          *)
Spare(S) == \E r \in Raws : S.raws[r] = Dead

(* buffer::create() takes a raw that is not in use.                         *)
LEMMA UnbornIs ==
  ASSUME NEW S, Sound(S), Spare(S)
  PROVE  /\ Unborn(S) \in Raws /\ S.raws[Unborn(S)] = Dead /\ Fresh(S, Unborn(S))
<1>1. Unborn(S) \in Raws /\ S.raws[Unborn(S)] = Dead BY DEF Unborn, Spare
<1> QED BY <1>1, DeadIsFresh

(* The carriage, if there is one, is a node of its list and has a raw.      *)
LEMMA CarriageIs ==
  ASSUME NEW S, Sound(S), NEW l \in Lists
  PROVE  /\ HasCarriage(S, l) <=> HasCar(Bufs(S, l))
         /\ HasCarriage(S, l) =>
              /\ Carriage(S, l) \in Els(Bufs(S, l)) /\ Carriage(S, l).car
              /\ Carriage(S, l) \in Node /\ Carriage(S, l) \in AllNodes(S)
              /\ UnusedTail(S, l) = S.raws[Carriage(S, l).raw].len - End(Carriage(S, l))
              /\ Bufs(S, l) # <<>>
         /\ ~HasCarriage(S, l) => UnusedTail(S, l) = 0
         /\ UnusedTail(S, l) \in Nat
         /\ AtBack(S, l) => HasCarriage(S, l) /\ Last(Bufs(S, l)) = Carriage(S, l)
<1> DEFINE b == Bufs(S, l)
           c == Carriage(S, l)
<1>0. Shape(S) /\ Chains(S) BY DEF Sound
<1>1. b \in Seq(Node) /\ \A n \in Els(b) : n \in Node /\ n \in AllNodes(S) BY <1>0, BufsTyped
<1>2. OneCar(b) /\ \A n \in Els(b) : Fit(S, n) BY <1>0 DEF Chains
<1>3. HasCarriage(S, l) <=> HasCar(b) BY DEF HasCarriage, HasCar
<1>4. ASSUME HasCarriage(S, l) PROVE c \in Els(b) /\ c.car /\ b # <<>>
  <2> DEFINE i == CHOOSE k \in DOMAIN b : b[k].car
  <2>1. i \in DOMAIN b /\ b[i].car BY <1>4 DEF HasCarriage
  <2>2. c = b[i] BY DEF Carriage
  <2> HIDE DEF i, b
  <2> QED BY <2>1, <2>2 DEF Els
<1>5. HasCarriage(S, l) => UnusedTail(S, l) = S.raws[c.raw].len - End(c) BY DEF UnusedTail
<1>6. ~HasCarriage(S, l) => UnusedTail(S, l) = 0 BY DEF UnusedTail
<1>7. UnusedTail(S, l) \in Nat
  <2>1. CASE HasCarriage(S, l)
    <3> HIDE DEF c
    <3>1. c \in Node /\ Fit(S, c) BY <1>1, <1>2, <1>4, <2>1
    <3>2. End(c) \in Nat /\ c.raw \in Raws BY <3>1, EndNat DEF Node
    <3>3. S.raws[c.raw].len \in Nat BY <1>0, <3>2 DEF Shape, RawShape
    <3> QED BY <1>5, <2>1, <3>1, <3>2, <3>3 DEF Fit
  <2> QED BY <1>6, <2>1
<1>8. ASSUME AtBack(S, l) PROVE HasCarriage(S, l) /\ Last(b) = c
  <2>1. b # <<>> /\ Last(b).car BY <1>8 DEF AtBack
  <2>2. Last(b) \in Els(b) BY <1>1, <2>1, LastSplit
  <2>3. HasCar(b) BY <2>1, <2>2 DEF HasCar, Els
  <2> HIDE DEF b, c
  <2> QED BY <1>2, <1>3, <1>4, <2>1, <2>2, <2>3, OneCarSame
<1> QED BY <1>1, <1>3, <1>4, <1>5, <1>6, <1>7, <1>8

(* The carriage is the last node and has k cells left.                      *)
Writable(S, l, k) ==
  /\ Bufs(S, l) # <<>> /\ Last(Bufs(S, l)).car
  /\ End(Last(Bufs(S, l))) + k <= S.raws[Last(Bufs(S, l)).raw].len

(* ptr::append() writes in the carriage's unused tail and extends the       *)
(* carriage.                                                                *)
LEMMA PtrAppendIs ==
  ASSUME NEW S, Sound(S), Filled(S), NEW l \in Lists, NEW s \in Seq(Byte),
         Writable(S, l, Len(s))
  PROVE  LET T == PtrAppend(S, l, s)
         IN  /\ Gains(S, T, l, Len(s), 0) /\ (Spare(S) => Spare(T))
             /\ Bufs(T, l) # <<>> /\ Last(Bufs(T, l)) = Longer(Last(Bufs(S, l)), Len(s))
             /\ \A r \in Raws : T.raws[r].len = S.raws[r].len
<1> DEFINE n == Last(Bufs(S, l))
           k == Len(s)
           U == Stretch(S, l, k)
           T == PtrAppend(S, l, s)
<1>0. k \in Nat /\ Bufs(S, l) # <<>> /\ n.car /\ End(n) + k <= S.raws[n.raw].len BY DEF Writable
<1>1. /\ Sound(U) /\ Only(S, U, l) /\ U.raws = S.raws
      /\ U.lists[l].len = S.lists[l].len
      /\ Bufs(U, l) # <<>> /\ Last(Bufs(U, l)) = Longer(n, k)
      /\ Total(Bufs(U, l)) = Total(Bufs(S, l)) + k
  <2> HIDE DEF k
  <2> QED BY <1>0, StretchOwn
<1>2. /\ Bufs(S, l) \in Seq(Node) /\ S.lists[l] \in ListType
      /\ \A y \in Els(Bufs(S, l)) : y \in Node /\ y \in AllNodes(S)
  BY BufsTyped DEF Sound
<1>3. n \in Node /\ n \in Els(Bufs(S, l)) BY <1>0, <1>2, LastSplit
<1>4. n.raw \in Raws /\ End(n) \in Nat BY <1>3, EndNat DEF Node
<1>5. T = Poke(U, n.raw, End(n), s) BY DEF PtrAppend
<1>6. Filled(U) BY <1>1 DEF Filled
<1> HIDE DEF n, U, T, k
<1>7. /\ Sound(T) /\ T.lists = U.lists /\ Filled(T)
      /\ \A x \in Raws : T.raws[x].len = U.raws[x].len
      /\ \A x \in Raws \ {n.raw} : T.raws[x] = U.raws[x]
  BY <1>1, <1>4, <1>5, <1>6, PokeIs
<1>8. \A m \in Lists : Bufs(T, m) = Bufs(U, m) BY <1>7 DEF Bufs
<1>9. S.lists[l].len + 0 = S.lists[l].len BY <1>2, ListFields
<1>10. Gains(S, T, l, k, 0) BY <1>1, <1>7, <1>8, <1>9 DEF Gains, Only
<1>11. ASSUME Spare(S) PROVE Spare(T)
  <2>1. PICK r \in Raws : S.raws[r] = Dead BY <1>11 DEF Spare
  <2>2. Fit(S, n) BY <1>3, NodeStays DEF Sound, Chains
  <2>3. r # n.raw BY <2>1, <2>2 DEF Fit, Dead
  <2>4. T.raws[r] = Dead BY <1>1, <1>7, <2>1, <2>3
  <2> QED BY <2>4 DEF Spare
<1> QED BY <1>1, <1>7, <1>8, <1>10, <1>11 DEF T, k, n

(* The node for the unused tail of a carriage that is not the last node.    *)
LEMMA OwnTailIs ==
  ASSUME NEW S, Sound(S), Filled(S), NEW l \in Lists, HasCarriage(S, l)
  PROVE  LET T == OwnTail(S, l)
         IN  /\ Gains(S, T, l, 0, 0) /\ T.raws = S.raws
             /\ Writable(T, l, UnusedTail(S, l))
             /\ Last(Bufs(T, l)).raw = Carriage(S, l).raw
             /\ End(Last(Bufs(T, l))) = End(Carriage(S, l))
<1> DEFINE c == Carriage(S, l)
           n == Ptr(c.raw, End(c), 0, TRUE)
           T == OwnTail(S, l)
<1>1. /\ c \in Els(Bufs(S, l)) /\ c.car /\ c \in Node /\ c \in AllNodes(S)
      /\ UnusedTail(S, l) = S.raws[c.raw].len - End(c) /\ Bufs(S, l) # <<>>
      /\ UnusedTail(S, l) \in Nat
      /\ AtBack(S, l) => Last(Bufs(S, l)) = c
  BY CarriageIs
<1>2. End(c) \in Nat /\ c.raw \in Raws BY <1>1, EndNat DEF Node
<1>3. S.raws[c.raw].len \in Nat BY <1>2 DEF Sound, Shape, RawShape
<1>4. End(c) + UnusedTail(S, l) <= S.raws[c.raw].len
  <2> DEFINE e == End(c)
             R == S.raws[c.raw].len
  <2>1. UnusedTail(S, l) = R - e /\ e \in Nat /\ R \in Nat BY <1>1, <1>2, <1>3
  <2> HIDE DEF e, R
  <2>2. e + UnusedTail(S, l) <= R BY <2>1
  <2> QED BY <2>2 DEF e, R
<1>5. CASE AtBack(S, l)
  <2>1. T = S BY <1>5 DEF OwnTail
  <2>2. Writable(S, l, UnusedTail(S, l)) BY <1>1, <1>4, <1>5 DEF Writable, AtBack
  <2>3. Gains(S, S, l, 0, 0) BY GainsNothing
  <2> HIDE DEF c, T
  <2> QED BY <1>1, <1>5, <2>1, <2>2, <2>3 DEF T, c
<1>6. CASE ~AtBack(S, l)
  <2>1. T = PushBack(S, l, n) BY <1>6 DEF OwnTail
  <2> HIDE DEF c, T
  <2>2. n \in Node /\ n.car /\ n.raw = c.raw /\ End(n) = End(c) /\ n.len = 0
    BY <1>2 DEF Ptr, Node, End
  <2> HIDE DEF n
  <2>3. Placed(S, n)
    <3>1. End(n) <= End(c) BY <1>2, <2>2
    <3> QED BY <1>1, <2>2, <3>1 DEF Placed, Within
  <2>4. /\ Sound(T) /\ Only(S, T, l) /\ T.raws = S.raws
        /\ T.lists[l].len = S.lists[l].len
        /\ Total(Bufs(T, l)) = Total(Bufs(S, l)) + n.len
        /\ Len(Bufs(T, l)) > 0 /\ Last(Bufs(T, l)) = n
    BY <1>1, <2>1, <2>2, <2>3, PushBackIs
  <2>5. S.lists[l] \in ListType BY BufsTyped DEF Sound
  <2>6. S.lists[l].len + 0 = S.lists[l].len BY <2>5, ListFields
  <2>7. Filled(T) BY <2>4 DEF Filled
  <2>8. Gains(S, T, l, 0, 0) BY <2>2, <2>4, <2>6, <2>7 DEF Gains
  <2>9. Bufs(T, l) # <<>> BY <2>4
  <2>10. Writable(T, l, UnusedTail(S, l)) BY <1>4, <2>2, <2>4, <2>9 DEF Writable
  <2> QED BY <2>2, <2>4, <2>8, <2>10 DEF T, c
<1> QED BY <1>5, <1>6

(* A new raw becomes the carriage.                                          *)
LEMMA PushRawIs ==
  ASSUME NEW S, Sound(S), Filled(S), NEW l \in Lists, Spare(S),
         NEW n \in Nat \ {0}, NEW base, NEW m \in 0..n
  PROVE  LET T == PushRaw(S, l, n, base, m)
         IN  /\ Gains(S, T, l, m, 0) /\ Writable(T, l, n - m)
             /\ Last(Bufs(T, l)) = Ptr(Unborn(S), 0, m, TRUE)
<1> DEFINE r == Unborn(S)
           C == Create(S, r, n, base)
           p == Ptr(r, 0, m, TRUE)
           T == PushRaw(S, l, n, base, m)
<1>1. r \in Raws /\ S.raws[r] = Dead BY UnbornIs
<1>2. /\ Sound(C) /\ C.lists = S.lists /\ C.raws[r].len = n /\ Fresh(C, r) /\ Filled(C)
  <2> HIDE DEF r
  <2> QED BY <1>1, CreateIs
<1>3. p \in Node /\ p.car /\ p.raw = r /\ End(p) = m /\ p.len = m BY <1>1 DEF Ptr, Node, End
<1>4. T = PushBack(C, l, p) BY DEF PushRaw
<1> HIDE DEF r, C, p, T
<1>5. Fit(C, p) BY <1>2, <1>3 DEF Fit
<1>6. Placed(C, p) BY <1>2, <1>3, <1>5 DEF Placed
<1>7. /\ Sound(T) /\ Only(C, T, l) /\ T.raws = C.raws
      /\ T.lists[l].len = C.lists[l].len
      /\ Total(Bufs(T, l)) = Total(Bufs(C, l)) + p.len
      /\ Len(Bufs(T, l)) > 0 /\ Last(Bufs(T, l)) = p
  BY <1>2, <1>3, <1>4, <1>6, PushBackIs
<1>8. Bufs(C, l) = Bufs(S, l) BY <1>2 DEF Bufs
<1>9. S.lists[l] \in ListType BY BufsTyped DEF Sound
<1>10. S.lists[l].len + 0 = S.lists[l].len BY <1>9, ListFields
<1>11. Filled(T) BY <1>2, <1>7 DEF Filled
<1>12. Gains(S, T, l, m, 0) BY <1>2, <1>3, <1>7, <1>8, <1>10, <1>11 DEF Gains, Only
<1>13. Bufs(T, l) # <<>> BY <1>7
<1>14. m + (n - m) <= n OBVIOUS
<1>15. Writable(T, l, n - m) BY <1>2, <1>3, <1>7, <1>13, <1>14 DEF Writable
<1> QED BY <1>7, <1>12, <1>15 DEF T, p, r

-----------------------------------------------------------------------------
(* append() in its forms                                                    *)

(* Rounding up does not round down.                                         *)
LEMMA RoundUpIs ==
  ASSUME NEW n \in Nat, NEW a \in Nat \ {0}
  PROVE  RoundUp(n, a) \in Nat /\ RoundUp(n, a) >= n
<1> DEFINE x == n + a - 1
           q == x \div a
<1>1. x \in Nat OBVIOUS
<1>2. q \in Nat /\ x = a * q + (x % a) /\ x % a \in 0..(a - 1) BY <1>1
<1> HIDE DEF q
<1>3. q * a \in Nat /\ q * a = a * q BY <1>2
<1>4. q * a >= n BY <1>2, <1>3
<1> QED BY <1>3, <1>4 DEF RoundUp, q

(* refill_append_space() makes at least the room that was asked for.        *)
LEMMA RefillSizeIs ==
  ASSUME NEW S, Sound(S), NEW l \in Lists, NEW n \in Nat \ {0}
  PROVE  RefillSize(S, l, n) \in Nat \ {0} /\ RefillSize(S, l, n) >= n
<1> DEFINE a == RoundUp(n + HEADER, ALLOC_UNIT)
           R == S.raws[Last(Bufs(S, l)).raw].len
           b == IF AtBack(S, l) THEN Smaller(2 * RoundUp(R, ALLOC_UNIT), UNIT_MAX) ELSE 0
<1>0. ALLOC_UNIT \in Nat /\ UNIT_MAX \in Nat /\ HEADER \in Nat \ {0} /\ HEADER < ALLOC_UNIT
  BY BufferAssumption
<1>1. a \in Nat /\ a >= n + HEADER
  <2>1. n + HEADER \in Nat /\ ALLOC_UNIT \in Nat \ {0} BY <1>0
  <2> QED BY <2>1, RoundUpIs
<1>2. b \in Nat
  <2>1. CASE AtBack(S, l)
    <3>1. Last(Bufs(S, l)) \in Node BY <2>1, CarriageIs
    <3>2. Last(Bufs(S, l)).raw \in Raws BY <3>1 DEF Node
    <3>3. R \in Nat BY <3>2 DEF Sound, Shape, RawShape
    <3> HIDE DEF R
    <3>4. RoundUp(R, ALLOC_UNIT) \in Nat BY <1>0, <3>3, RoundUpIs
    <3> QED BY <1>0, <2>1, <3>4 DEF Smaller
  <2> QED BY <2>1
<1>3. RefillSize(S, l, n) = Larger(a, b) - HEADER BY DEF RefillSize
<1> HIDE DEF a, b
<1> QED BY <1>0, <1>1, <1>2, <1>3 DEF Larger

(* Room for k cells is room for fewer.                                      *)
LEMMA WritableLess ==
  ASSUME NEW S, Sound(S), NEW l \in Lists, NEW k \in Nat, NEW j \in 0..k, Writable(S, l, k)
  PROVE  Writable(S, l, j)
<1> DEFINE n == Last(Bufs(S, l))
<1>1. Bufs(S, l) \in Seq(Node) BY BufsTyped DEF Sound
<1>2. n \in Node BY <1>1, LastSplit DEF Writable
<1>3. End(n) \in Nat /\ n.raw \in Raws BY <1>2, EndNat DEF Node
<1>4. S.raws[n.raw].len \in Nat BY <1>3 DEF Sound, Shape, RawShape
<1>5. End(n) + k <= S.raws[n.raw].len BY DEF Writable
<1> HIDE DEF n
<1>6. End(n) + j <= S.raws[n.raw].len BY <1>3, <1>4, <1>5
<1> QED BY <1>6 DEF Writable, n

(* The first round of append() fills what is left in the carriage.          *)
LEMMA FirstRoundIs ==
  ASSUME NEW S, Sound(S), Filled(S), NEW l \in Lists, NEW s \in Seq(Byte)
  PROVE  LET T == FirstRound(S, l, s)
             k == Smaller(Len(s), UnusedTail(S, l))
         IN  Gains(S, T, l, k, 0) /\ (Spare(S) => Spare(T))
<1> DEFINE u == UnusedTail(S, l)
           k == Smaller(Len(s), u)
           t == SubSeq(s, 1, k)
           O == OwnTail(S, l)
           T == FirstRound(S, l, s)
<1>1. u \in Nat /\ (u # 0 => HasCarriage(S, l)) BY CarriageIs
<1>2. k \in Nat /\ k \in 0..u /\ k \in 0..Len(s) BY <1>1 DEF Smaller
<1>3. CASE u = 0
  <2>1. T = S /\ k = 0 BY <1>2, <1>3 DEF FirstRound
  <2>2. Gains(S, S, l, 0, 0) BY GainsNothing
  <2> HIDE DEF T, k, u
  <2> QED BY <2>1, <2>2 DEF T, k, u
<1>4. CASE u # 0
  <2>1. Gains(S, O, l, 0, 0) /\ O.raws = S.raws /\ Writable(O, l, u)
    BY <1>1, <1>4, OwnTailIs
  <2>2. T = PtrAppend(O, l, t) BY <1>4 DEF FirstRound
  <2>3. t \in Seq(Byte) /\ Len(t) = k
    <3> HIDE DEF k
    <3> QED BY <1>2
  <2> HIDE DEF O, T, u, k, t
  <2>4. Sound(O) /\ Filled(O) BY <2>1 DEF Gains
  <2>5. Writable(O, l, Len(t)) BY <1>1, <1>2, <2>1, <2>3, <2>4, WritableLess
  <2>6. Gains(O, T, l, Len(t), 0) /\ (Spare(O) => Spare(T))
    BY <2>2, <2>3, <2>4, <2>5, PtrAppendIs
  <2>7. Gains(S, T, l, 0 + k, 0 + 0) BY <1>2, <2>1, <2>3, <2>6, GainsAdd
  <2>8. 0 + k = k /\ 0 + 0 = 0 BY <1>2
  <2>9. Spare(S) => Spare(O) BY <2>1 DEF Spare
  <2> QED BY <2>6, <2>7, <2>8, <2>9 DEF T, k, u
<1> QED BY <1>3, <1>4

(* The second round puts the rest into a new raw.                           *)
LEMMA RefillIs ==
  ASSUME NEW S, Sound(S), Filled(S), NEW l \in Lists, Spare(S), NEW n \in Nat \ {0}, NEW b
  PROVE  LET T == refill_append_space(S, l, n, b)
         IN  Gains(S, T, l, 0, 0) /\ Writable(T, l, n)
<1> DEFINE k == RefillSize(S, l, n)
           T == refill_append_space(S, l, n, b)
<1>1. k \in Nat \ {0} /\ k >= n BY RefillSizeIs
<1>2. T = PushRaw(S, l, k, b, 0) BY DEF refill_append_space
<1> HIDE DEF k, T
<1>3. 0 \in 0..k /\ k - 0 = k /\ n \in 0..k BY <1>1
<1>4. Gains(S, T, l, 0, 0) /\ Writable(T, l, k - 0) BY <1>1, <1>2, <1>3, PushRawIs
<1>5. Sound(T) BY <1>4 DEF Gains
<1>6. Writable(T, l, n) BY <1>1, <1>3, <1>4, <1>5, WritableLess
<1> QED BY <1>4, <1>6 DEF T

(* What did not fit in the carriage goes to a new one: the rest of          *)
(* list::append().                                                          *)
LEMMA SecondRoundIs ==
  ASSUME NEW S, Sound(S), Filled(S), NEW l \in Lists, Spare(S), NEW s \in Seq(Byte), NEW b
  PROVE  Gains(S, SecondRound(S, l, s, b), l, Len(s), 0)
<1> DEFINE R == refill_append_space(S, l, Len(s), b)
           T == SecondRound(S, l, s, b)
<1>1. CASE s = <<>>
  <2>1. T = S /\ Len(s) = 0 BY <1>1 DEF SecondRound
  <2>2. Gains(S, S, l, 0, 0) BY GainsNothing
  <2> HIDE DEF T
  <2> QED BY <2>1, <2>2 DEF T
<1>2. CASE s # <<>>
  <2>1. T = PtrAppend(R, l, s) BY <1>2 DEF SecondRound
  <2>2. Len(s) \in Nat \ {0} BY <1>2
  <2>3. Gains(S, R, l, 0, 0) /\ Writable(R, l, Len(s)) BY <2>2, RefillIs
  <2> HIDE DEF R, T
  <2>4. Sound(R) /\ Filled(R) BY <2>3 DEF Gains
  <2>5. Gains(R, T, l, Len(s), 0) BY <2>1, <2>3, <2>4, PtrAppendIs
  <2>6. Gains(S, T, l, 0 + Len(s), 0 + 0) BY <2>2, <2>3, <2>5, GainsAdd
  <2>7. 0 + Len(s) = Len(s) /\ 0 + 0 = 0 BY <2>2
  <2> QED BY <2>6, <2>7 DEF T
<1> QED BY <1>1, <1>2

(* list::append() adds its bytes to the chain and their number to _len.     *)
LEMMA AppendIs ==
  ASSUME NEW S, Sound(S), Filled(S), NEW l \in Lists, Spare(S), NEW s \in Seq(Byte), NEW b
  PROVE  Gains(S, append(S, l, s, b), l, Len(s), Len(s))
<1> DEFINE n == Len(s)
           u == UnusedTail(S, l)
           k == Smaller(n, u)
           G == Grow(S, l, n)
           F == FirstRound(G, l, s)
           t == SubSeq(s, u + 1, n)
           T == append(S, l, s, b)
<1>0. n \in Nat /\ u \in Nat BY CarriageIs
<1>1. Gains(S, G, l, 0, n) /\ G.raws = S.raws /\ Bufs(G, l) = Bufs(S, l)
  <2> HIDE DEF n
  <2> QED BY <1>0, GrowGains
<1>2. T = SecondRound(F, l, t, b) BY DEF append
<1>3. k \in Nat /\ t \in Seq(Byte) /\ Len(t) = n - k
  <2>1. k \in Nat /\ k <= n /\ (u < n => k = u) /\ (u >= n => k = n) BY <1>0 DEF Smaller
  <2>2. CASE u < n
    <3>1. t \in Seq(Byte) /\ Len(t) = n - u BY <1>0, <2>2
    <3> HIDE DEF t, k, n, u
    <3> QED BY <2>1, <2>2, <3>1
  <2>3. CASE u >= n
    <3>1. t = <<>> BY <1>0, <2>3
    <3> HIDE DEF t, k, n, u
    <3>2. t \in Seq(Byte) /\ Len(t) = 0 BY <3>1
    <3> QED BY <1>0, <2>1, <2>3, <3>2
  <2> QED BY <1>0, <2>2, <2>3
<1>4. UnusedTail(G, l) = u BY <1>1 DEF UnusedTail, Carriage, HasCarriage
<1> HIDE DEF T, t, u, k, G, n
<1>5. Sound(G) /\ Filled(G) /\ Spare(G) BY <1>1 DEF Gains, Spare
<1>6. Gains(G, F, l, k, 0) /\ Spare(F)
  <2>1. /\ Gains(G, F, l, Smaller(Len(s), UnusedTail(G, l)), 0) /\ Spare(F)
    BY <1>5, FirstRoundIs
  <2>2. Smaller(Len(s), UnusedTail(G, l)) = k BY <1>4 DEF k, n
  <2> HIDE DEF F
  <2> QED BY <2>1, <2>2
<1> HIDE DEF F
<1>7. Sound(F) /\ Filled(F) BY <1>6 DEF Gains
<1>8. Gains(F, T, l, Len(t), 0) BY <1>2, <1>3, <1>6, <1>7, SecondRoundIs
<1>9. Gains(S, F, l, k, n)
  <2>1. k = 0 + k /\ n = n + 0 /\ k \in Int /\ n \in Int /\ 0 \in Int BY <1>0, <1>3
  <2> QED BY <1>1, <1>6, <2>1, GainsSum
<1>10. Gains(S, T, l, n, n)
  <2>1. n = k + Len(t) /\ n = n + 0 /\ k \in Int /\ n \in Int /\ Len(t) \in Int /\ 0 \in Int
    BY <1>0, <1>3
  <2> QED BY <1>8, <1>9, <2>1, GainsSum
<1> QED BY <1>10 DEF T, n

(* A write at the end of the chain that the counter follows.                *)
LEMMA EmittedIs ==
  ASSUME NEW S, Sound(S), NEW l \in Lists, NEW k \in Nat, NEW B, Gains(S, B, l, k, k),
         NEW s \in Seq(Byte), Writable(B, l, Len(s))
  PROVE  LET T == Grow(PtrAppend(B, l, s), l, Len(s))
         IN  /\ Gains(S, T, l, k + Len(s), k + Len(s))
             /\ Bufs(T, l) # <<>> /\ Last(Bufs(T, l)) = Longer(Last(Bufs(B, l)), Len(s))
             /\ \A r \in Raws : T.raws[r].len = B.raws[r].len
<1> DEFINE P == PtrAppend(B, l, s)
           T == Grow(P, l, Len(s))
           n == Len(s)
<1>1. Sound(B) /\ Filled(B) BY DEF Gains
<1>2. /\ Gains(B, P, l, n, 0)
      /\ Bufs(P, l) # <<>> /\ Last(Bufs(P, l)) = Longer(Last(Bufs(B, l)), n)
      /\ \A r \in Raws : P.raws[r].len = B.raws[r].len
  BY <1>1, PtrAppendIs
<1>3. n \in Nat OBVIOUS
<1> HIDE DEF P, n
<1>4. Sound(P) /\ Filled(P) BY <1>2 DEF Gains
<1>5. Gains(P, T, l, 0, n) /\ T.raws = P.raws /\ Bufs(T, l) = Bufs(P, l)
  <2>1. T = Grow(P, l, n) BY DEF n
  <2> HIDE DEF T
  <2> QED BY <1>3, <1>4, <2>1, GrowGains
<1> HIDE DEF T
<1>6. Gains(B, T, l, n, n)
  <2>1. n = n + 0 /\ n = 0 + n /\ n \in Int /\ 0 \in Int BY <1>3
  <2> QED BY <1>1, <1>2, <1>5, <2>1, GainsSum
<1>7. Gains(S, T, l, k + n, k + n)
  <2>1. k \in Int /\ n \in Int BY <1>3
  <2> QED BY <1>6, <2>1, GainsSum
<1> QED BY <1>2, <1>5, <1>7 DEF T, P, n

(* list::append(char) adds one.                                             *)
LEMMA AppendCharIs ==
  ASSUME NEW S, Sound(S), Filled(S), NEW l \in Lists, Spare(S), NEW c \in Byte, NEW b
  PROVE  Gains(S, append_char(S, l, c, b), l, 1, 1)
<1> DEFINE n == ALLOC_UNIT - HEADER
           B == IF UnusedTail(S, l) = 0 THEN PushRaw(S, l, n, b, 0) ELSE OwnTail(S, l)
           T == append_char(S, l, c, b)
           s == <<c>>
<1>0. n \in Nat \ {0} BY BufferAssumption
<1>1. s \in Seq(Byte) /\ Len(s) = 1 OBVIOUS
<1>2. T = Grow(PtrAppend(B, l, s), l, 1) BY DEF append_char
<1>3. Gains(S, B, l, 0, 0) /\ Writable(B, l, 1)
  <2>0. UnusedTail(S, l) \in Nat /\ (UnusedTail(S, l) # 0 => HasCarriage(S, l)) BY CarriageIs
  <2>1. CASE UnusedTail(S, l) = 0
    <3> DEFINE P == PushRaw(S, l, n, b, 0)
    <3>1. B = P BY <2>1
    <3>2. 0 \in 0..n /\ 1 \in 0..(n - 0) /\ n - 0 \in Nat BY <1>0
    <3> HIDE DEF n
    <3>3. Gains(S, P, l, 0, 0) /\ Writable(P, l, n - 0) BY <1>0, <3>2, PushRawIs
    <3> HIDE DEF P, B
    <3>4. Sound(P) BY <3>3 DEF Gains
    <3>5. Writable(P, l, 1) BY <3>2, <3>3, <3>4, WritableLess
    <3> QED BY <3>1, <3>3, <3>5
  <2>2. CASE UnusedTail(S, l) # 0
    <3> DEFINE P == OwnTail(S, l)
    <3>1. B = P BY <2>2
    <3>2. Gains(S, P, l, 0, 0) /\ Writable(P, l, UnusedTail(S, l)) BY <2>0, <2>2, OwnTailIs
    <3>3. 1 \in 0..UnusedTail(S, l) BY <2>0, <2>2
    <3> HIDE DEF P, B
    <3>4. Sound(P) BY <3>2 DEF Gains
    <3>5. Writable(P, l, 1) BY <2>0, <3>2, <3>3, <3>4, WritableLess
    <3> QED BY <3>1, <3>2, <3>5
  <2> QED BY <2>1, <2>2
<1> HIDE DEF B, T, s
<1>4. Gains(S, T, l, 0 + 1, 0 + 1)
  <2>1. T = Grow(PtrAppend(B, l, s), l, Len(s)) /\ Writable(B, l, Len(s)) BY <1>1, <1>2, <1>3
  <2>2. Gains(S, T, l, 0 + Len(s), 0 + Len(s)) BY <1>1, <1>3, <2>1, EmittedIs
  <2> QED BY <1>1, <2>2
<1> QED BY <1>4 DEF T

(* append_hole() adds the hole.                                             *)
LEMMA AppendHoleIs ==
  ASSUME NEW S, Sound(S), Filled(S), NEW l \in Lists, Spare(S), NEW s \in Seq(Byte), s # <<>>, NEW b
  PROVE  Gains(S, append_hole(S, l, s, b), l, Len(s), Len(s))
<1> DEFINE n == Len(s)
           B == IF UnusedTail(S, l) < n THEN refill_append_space(S, l, n, b) ELSE OwnTail(S, l)
           T == append_hole(S, l, s, b)
<1>1. n \in Nat \ {0} OBVIOUS
<1>2. T = Grow(PtrAppend(B, l, s), l, Len(s)) BY DEF append_hole
<1> HIDE DEF n
<1>3. Gains(S, B, l, 0, 0) /\ Writable(B, l, n)
  <2>0. UnusedTail(S, l) \in Nat /\ (UnusedTail(S, l) # 0 => HasCarriage(S, l)) BY CarriageIs
  <2>1. CASE UnusedTail(S, l) < n
    <3> DEFINE P == refill_append_space(S, l, n, b)
    <3>1. B = P BY <2>1
    <3>2. Gains(S, P, l, 0, 0) /\ Writable(P, l, n) BY <1>1, RefillIs
    <3> HIDE DEF P, B
    <3> QED BY <3>1, <3>2
  <2>2. CASE ~(UnusedTail(S, l) < n)
    <3> DEFINE P == OwnTail(S, l)
    <3>1. B = P BY <2>2
    <3>2. n \in 0..UnusedTail(S, l) /\ UnusedTail(S, l) # 0 BY <1>1, <2>0, <2>2
    <3>3. Gains(S, P, l, 0, 0) /\ Writable(P, l, UnusedTail(S, l)) BY <2>0, <3>2, OwnTailIs
    <3> HIDE DEF P, B
    <3>4. Sound(P) BY <3>3 DEF Gains
    <3>5. Writable(P, l, n) BY <2>0, <3>2, <3>3, <3>4, WritableLess
    <3> QED BY <3>1, <3>3, <3>5
  <2> QED BY <2>1, <2>2
<1> HIDE DEF B, T
<1>4. Gains(S, T, l, 0 + Len(s), 0 + Len(s)) BY <1>2, <1>3, EmittedIs DEF n
<1>5. Len(s) \in Nat OBVIOUS
<1>6. 0 + Len(s) = Len(s) BY <1>5
<1> QED BY <1>4, <1>6 DEF T

(* obtain_contiguous_space() adds no byte and leaves n cells to write to.   *)
LEMMA ObtainIs ==
  ASSUME NEW S, Sound(S), Filled(S), NEW l \in Lists, Spare(S), NEW n \in Nat \ {0}, NEW b
  PROVE  LET T == obtain_contiguous_space(S, l, n, b)
         IN  Gains(S, T, l, 0, 0) /\ Writable(T, l, n)
<1> DEFINE T == obtain_contiguous_space(S, l, n, b)
<1>0. UnusedTail(S, l) \in Nat /\ (UnusedTail(S, l) # 0 => HasCarriage(S, l)) BY CarriageIs
<1>1. CASE UnusedTail(S, l) < n
  <2>1. T = PushRaw(S, l, n, b, 0) BY <1>1 DEF obtain_contiguous_space
  <2>2. 0 \in 0..n /\ n - 0 = n OBVIOUS
  <2> HIDE DEF T
  <2>3. Gains(S, T, l, 0, 0) /\ Writable(T, l, n - 0) BY <2>1, <2>2, PushRawIs
  <2> QED BY <2>2, <2>3 DEF T
<1>2. CASE ~(UnusedTail(S, l) < n)
  <2>1. T = OwnTail(S, l) BY <1>2 DEF obtain_contiguous_space
  <2>2. n \in 0..UnusedTail(S, l) /\ UnusedTail(S, l) # 0 BY <1>0, <1>2
  <2> HIDE DEF T
  <2>3. Gains(S, T, l, 0, 0) /\ Writable(T, l, UnusedTail(S, l)) BY <1>0, <2>1, <2>2, OwnTailIs
  <2>4. Sound(T) BY <2>3 DEF Gains
  <2>5. Writable(T, l, n) BY <1>0, <2>2, <2>3, <2>4, WritableLess
  <2> QED BY <2>3, <2>5 DEF T
<1> QED BY <1>1, <1>2

(* reserve() adds no byte.                                                  *)
LEMMA ReserveIs ==
  ASSUME NEW S, Sound(S), Filled(S), NEW l \in Lists, Spare(S), NEW n \in Nat \ {0}
  PROVE  Gains(S, reserve(S, l, n), l, 0, 0)
<1> DEFINE T == reserve(S, l, n)
           P == PushRaw(S, l, n, 0, 0)
<1>1. T = P \/ T = S BY DEF reserve
<1>2. 0 \in 0..n OBVIOUS
<1>3. Gains(S, P, l, 0, 0) BY <1>2, PushRawIs
<1>4. Gains(S, S, l, 0, 0) BY GainsNothing
<1> HIDE DEF P, T
<1> QED BY <1>1, <1>3, <1>4 DEF T

-----------------------------------------------------------------------------
(* The invariant, and the operations that set a list as a whole             *)

Exact(S) == \A l \in Lists : S.lists[l].len = Total(Bufs(S, l))
Inv(S)   == Sound(S) /\ Filled(S) /\ Exact(S)

(* A call that adds as many bytes to the chain as to _len keeps the         *)
(* invariant.                                                               *)
LEMMA GainsInv ==
  ASSUME NEW S, Inv(S), NEW T, NEW l \in Lists, NEW k \in Int, Gains(S, T, l, k, k)
  PROVE  Inv(T)
<1>1. \A m \in Lists \ {l} : T.lists[m] = S.lists[m] /\ Bufs(T, m) = Bufs(S, m)
  BY DEF Gains, Only, Bufs
<1> QED BY <1>1 DEF Inv, Gains, Exact

(* So does replacing a list by one whose _len is its bytes.                 *)
LEMMA WithInv ==
  ASSUME NEW S, Inv(S), NEW l \in Lists, NEW L \in ListType,
         L.num = Len(L.bufs), OneCar(L.bufs), L.len = Total(L.bufs),
         \A n \in Els(L.bufs) : Placed(S, n),
         \A c \in Els(L.bufs) : c.car => Heir(S, l, L.bufs, c)
  PROVE  LET T == With(S, l, L)
         IN  /\ Inv(T) /\ Only(S, T, l) /\ T.raws = S.raws
             /\ T.lists[l] = L /\ Bufs(T, l) = L.bufs
<1> DEFINE T == With(S, l, L)
<1>1. Sound(T) BY Replaced DEF Inv
<1>2. /\ T.raws = S.raws /\ T.lists[l] = L /\ Bufs(T, l) = L.bufs
      /\ \A m \in Lists \ {l} : T.lists[m] = S.lists[m] /\ Bufs(T, m) = Bufs(S, m)
  BY WithIs DEF Inv, Sound
<1> HIDE DEF T
<1>3. Filled(T) BY <1>2 DEF Inv, Filled
<1>4. Exact(T) BY <1>2 DEF Inv, Exact
<1> QED BY <1>1, <1>2, <1>3, <1>4 DEF Inv, Only, T

(* A run of zeros is bytes.                                                 *)
LEMMA ZerosAre == ASSUME NEW n \in Nat PROVE Zeros(n) \in Seq(Byte) /\ Len(Zeros(n)) = n
  BY Bytes DEF Zeros

(* prepend_zero() puts a new raw before the chain; the carriage stays.      *)
LEMMA PrependIs ==
  ASSUME NEW S, Inv(S), NEW l \in Lists, Spare(S), NEW n \in Nat \ {0}, NEW b
  PROVE  Inv(prepend_zero(S, l, n, b))
<1> DEFINE r == Unborn(S)
           C == Create(S, r, n, b)
           P == Poke(C, r, 0, Zeros(n))
           p == Ptr(r, 0, n, FALSE)
           one == <<p>>
           old == Bufs(S, l)
           x == S.lists[l]
           L == [bufs |-> one \o old, len |-> x.len + n, num |-> x.num + 1,
                 dangling |-> x.dangling]
           T == prepend_zero(S, l, n, b)
<1>0. Sound(S) /\ Filled(S) BY DEF Inv
<1>1. r \in Raws /\ S.raws[r] = Dead BY <1>0, UnbornIs
<1>2. /\ Sound(C) /\ C.lists = S.lists /\ AllNodes(C) = AllNodes(S) /\ C.raws[r].len = n
      /\ Fresh(C, r) /\ Filled(C)
  <2> HIDE DEF r
  <2> QED BY <1>0, <1>1, CreateIs
<1>3. /\ Sound(P) /\ P.lists = C.lists /\ AllNodes(P) = AllNodes(C) /\ Filled(P)
      /\ \A y \in Raws : P.raws[y].len = C.raws[y].len
  <2>1. Zeros(n) \in Seq(Byte) BY ZerosAre
  <2> HIDE DEF C, r
  <2> QED BY <1>1, <1>2, <2>1, PokeIs
<1>4. p \in Node /\ ~p.car /\ p.raw = r /\ End(p) = n /\ p.len = n BY <1>1 DEF Ptr, Node, End
<1>5. x \in ListType /\ old \in Seq(Node) /\ x.bufs = old BY <1>0, BufsTyped DEF Sound, Bufs
<1>6. P.lists[l] = x /\ Bufs(P, l) = old
  <2> HIDE DEF P, C
  <2> QED BY <1>2, <1>3 DEF Bufs
<1>7. T = With(P, l, L)
  <2>1. T = [P EXCEPT !.lists[l] = [bufs |-> one \o P.lists[l].bufs, len |-> P.lists[l].len + n,
                                    num |-> P.lists[l].num + 1, dangling |-> P.lists[l].dangling]]
    BY DEF prepend_zero
  <2> HIDE DEF P, one, x, old
  <2>2. T = [P EXCEPT !.lists[l] = L] BY <1>5, <1>6, <2>1
  <2> HIDE DEF T, L
  <2> QED BY <1>3, <2>2, SetList DEF Sound
<1>8. Inv(P)
  <2> HIDE DEF P, C
  <2> QED BY <1>2, <1>3 DEF Inv, Exact, Bufs
<1> HIDE DEF r, C, P, p, T
<1>9. /\ one \in Seq(Node) /\ Len(one) = 1 /\ Els(one) = {p} /\ OneCar(one) /\ ~HasCar(one)
      /\ Total(one) = n
  BY <1>4, ElsOne, TotalOne
<1> HIDE DEF one
<1>10. OneCar(old) /\ x.num = Len(old) /\ x.len = Total(old) /\ \A y \in Els(old) : y \in AllNodes(P)
  <2>1. \A y \in Els(old) : y \in AllNodes(S) BY <1>0, BufsTyped DEF Sound
  <2> QED BY <1>0, <1>2, <1>3, <2>1 DEF Sound, Chains, Inv, Exact
<1> HIDE DEF old
<1>11. /\ one \o old \in Seq(Node) /\ Len(one \o old) = 1 + Len(old)
       /\ Els(one \o old) = {p} \cup Els(old) /\ OneCar(one \o old)
       /\ Total(one \o old) = n + Total(old)
  <2> DEFINE t == one \o old
  <2>0. one \in Seq(Node) /\ old \in Seq(Node) BY <1>5, <1>9
  <2>1. /\ t \in Seq(Node) /\ Len(t) = Len(one) + Len(old)
        /\ Els(t) = Els(one) \cup Els(old)
        /\ OneCar(one) /\ OneCar(old) /\ ~(HasCar(one) /\ HasCar(old)) => OneCar(t)
    BY <2>0, ElsConcat
  <2>2. Total(t) = Total(one) + Total(old) BY <2>0, TotalConcat
  <2> HIDE DEF t
  <2> QED BY <1>9, <1>10, <2>1, <2>2 DEF t
<1>12. L \in ListType /\ L.num = Len(L.bufs) /\ L.len = Total(L.bufs) /\ L.bufs = one \o old
  <2>1. x.len \in Nat /\ x.num \in Nat /\ x.dangling \in BOOLEAN BY <1>5, ListFields
  <2> HIDE DEF x
  <2> QED BY <1>10, <1>11, <2>1 DEF ListType
<1>13. \A y \in Els(L.bufs) : Placed(P, y)
  <2>1. Fresh(P, r) BY <1>2, <1>3 DEF Fresh
  <2>2. Fit(P, p) BY <1>1, <1>2, <1>3, <1>4 DEF Fit
  <2>3. Placed(P, p) BY <1>4, <2>1, <2>2 DEF Placed
  <2>4. \A y \in Els(old) : Placed(P, y) BY <1>3, <1>10, NodeStays
  <2> QED BY <1>11, <1>12, <2>3, <2>4
<1>14. \A c \in Els(L.bufs) : c.car => Heir(P, l, L.bufs, c)
  <2>1. \A c \in Els(L.bufs) : c.car => c \in Els(Bufs(P, l)) BY <1>4, <1>6, <1>11, <1>12
  <2> QED BY <2>1 DEF Heir
<1> HIDE DEF L
<1>15. Inv(With(P, l, L))
  <2>1. OneCar(L.bufs) BY <1>11, <1>12
  <2> QED BY <1>8, <1>12, <1>13, <1>14, <2>1, WithInv
<1> QED BY <1>7, <1>15 DEF T

(* list(), operator=(const list &), substr_of(), clear(): a list is set to  *)
(* nodes that are no carriage.                                              *)
LEMMA PlainInv ==
  ASSUME NEW S, Inv(S), NEW l \in Lists, NEW bufs \in Seq(Node), NEW d \in BOOLEAN,
         \A n \in Els(bufs) : ~n.car /\ Within(n, AllNodes(S)),
         NEW L, L = [bufs |-> bufs, len |-> Total(bufs), num |-> Len(bufs), dangling |-> d]
  PROVE  Inv(With(S, l, L)) /\ L \in ListType
<1>1. L \in ListType /\ L.bufs = bufs /\ L.num = Len(bufs) /\ L.len = Total(bufs)
  <2>1. Total(bufs) \in Nat /\ Len(bufs) \in Nat BY TotalNat
  <2> QED BY <2>1 DEF ListType
<1>2. OneCar(bufs) /\ \A n \in Els(bufs) : Placed(S, n) BY DEF OneCar, Els, Placed
<1>3. \A c \in Els(L.bufs) : c.car => Heir(S, l, L.bufs, c) BY <1>1
<1>4. Inv(With(S, l, L)) BY <1>1, <1>2, <1>3, WithInv
<1> QED BY <1>1, <1>4

(* Copies of the nodes of a list are inside what it holds.                  *)
LEMMA UncrownedWithin ==
  ASSUME NEW S, Sound(S), NEW m \in Lists
  PROVE  /\ \A n \in Els(Uncrowned(Bufs(S, m))) : ~n.car /\ Within(n, AllNodes(S)) /\ Placed(S, n)
         /\ Uncrowned(Bufs(S, m)) \in Seq(Node)
         /\ Len(Uncrowned(Bufs(S, m))) = Len(Bufs(S, m))
         /\ Total(Uncrowned(Bufs(S, m))) = Total(Bufs(S, m))
         /\ ~HasCar(Uncrowned(Bufs(S, m))) /\ OneCar(Uncrowned(Bufs(S, m)))
<1> DEFINE b == Bufs(S, m)
           u == Uncrowned(b)
<1>1. b \in Seq(Node) /\ \A n \in Els(b) : n \in Node /\ n \in AllNodes(S)
  BY BufsTyped DEF Sound
<1> HIDE DEF b
<1>2. /\ u \in Seq(Node) /\ Len(u) = Len(b) /\ Total(u) = Total(b) /\ ~HasCar(u) /\ OneCar(u)
      /\ \A n \in Els(u) : \E y \in Els(b) : n = Copy(y)
  BY <1>1, UncrownedIs
<1> HIDE DEF u
<1>3. ASSUME NEW n \in Els(u) PROVE ~n.car /\ Within(n, AllNodes(S)) /\ Placed(S, n)
  <2>1. PICK y \in Els(b) : n = Copy(y) BY <1>2
  <2>2. y \in Node /\ y \in AllNodes(S) BY <1>1
  <2>3. n.raw = y.raw /\ End(n) = End(y) /\ n.car = FALSE BY <2>1, <2>2 DEF Copy, End, Node
  <2>4. End(n) <= End(y) BY <2>2, <2>3, EndNat
  <2>5. Within(n, AllNodes(S)) BY <2>2, <2>3, <2>4 DEF Within
  <2> QED BY <2>3, <2>5 DEF Placed
<1> QED BY <1>2, <1>3 DEF u, b

(* operator= copies the nodes and not the carriage.                         *)
LEMMA AssignedIs ==
  ASSUME NEW S, Inv(S), NEW l \in Lists, NEW m \in Lists
  PROVE  Inv(Assigned(S, l, m))
<1> DEFINE u == Uncrowned(Bufs(S, m))
           L == [bufs |-> u, len |-> Total(u), num |-> Len(u), dangling |-> FALSE]
<1>1. /\ \A n \in Els(u) : ~n.car /\ Within(n, AllNodes(S))
      /\ u \in Seq(Node) /\ Len(u) = Len(Bufs(S, m)) /\ Total(u) = Total(Bufs(S, m))
  BY UncrownedWithin DEF Inv
<1>2. S.lists[m].len = Total(u) /\ S.lists[m].num = Len(u)
  BY <1>1 DEF Inv, Exact, Sound, Chains
<1>3. Assigned(S, l, m) = [S EXCEPT !.lists[l] = L]
  <2> HIDE DEF u
  <2> QED BY <1>2 DEF Assigned, u
<1> HIDE DEF L, u
<1>4. Inv(With(S, l, L))
  <2>1. FALSE \in BOOLEAN /\ L = [bufs |-> u, len |-> Total(u), num |-> Len(u), dangling |-> FALSE]
    BY DEF L
  <2> QED BY <1>1, <2>1, PlainInv
<1>5. [S EXCEPT !.lists[l] = L] = With(S, l, L) BY SetList DEF Inv, Sound
<1> QED BY <1>3, <1>4, <1>5

(* substr_of() makes a chain of copies without a carriage.                  *)
LEMMA SubstrOfIs ==
  ASSUME NEW S, Inv(S), NEW l \in Lists, NEW m \in Lists,
         NEW off \in Nat, NEW n \in Nat \ {0}, off + n <= S.lists[m].len
  PROVE  Inv(substr_of(S, l, m, off, n))
<1> DEFINE b == Bufs(S, m)
           ps == Parts(b, off, n)
           L == [bufs |-> ps, len |-> Total(ps), num |-> Len(ps), dangling |-> FALSE]
<1>1. b \in Seq(Node) /\ \A x \in Els(b) : x \in AllNodes(S) BY BufsTyped DEF Inv, Sound
<1>2. off + n <= Total(b) BY DEF Inv, Exact
<1>3. ps \in Seq(Node) /\ \A p \in Els(ps) : ~p.car /\ Within(p, Els(b))
  <2> HIDE DEF b
  <2> QED BY <1>1, <1>2, PartsIs
<1>4. substr_of(S, l, m, off, n) = [S EXCEPT !.lists[l] = L] BY DEF substr_of
<1> HIDE DEF ps, b
<1>5. \A p \in Els(ps) : ~p.car /\ Within(p, AllNodes(S)) BY <1>1, <1>3 DEF Within
<1> HIDE DEF L
<1>6. Inv(With(S, l, L))
  <2>1. FALSE \in BOOLEAN /\ L = [bufs |-> ps, len |-> Total(ps), num |-> Len(ps), dangling |-> FALSE]
    BY DEF L
  <2> QED BY <1>3, <1>5, <2>1, PlainInv
<1>7. [S EXCEPT !.lists[l] = L] = With(S, l, L) BY SetList DEF Inv, Sound
<1> QED BY <1>4, <1>6, <1>7

(* clear() gives up the nodes and the carriage.                             *)
LEMMA ClearIs ==
  ASSUME NEW S, Inv(S), NEW l \in Lists
  PROVE  Inv(clear(S, l))
<1> DEFINE e == <<>>
           L == [bufs |-> e, len |-> Total(e), num |-> Len(e), dangling |-> FALSE]
<1>1. e \in Seq(Node) /\ Els(e) = {} BY ElsNone
<1>2. L = NewList BY TotalEmpty DEF NewList
<1> HIDE DEF e
<1> HIDE DEF L
<1>3. Inv(With(S, l, L))
  <2>1. FALSE \in BOOLEAN /\ L = [bufs |-> e, len |-> Total(e), num |-> Len(e), dangling |-> FALSE]
    BY DEF L
  <2> QED BY <1>1, <2>1, PlainInv
<1>4. [S EXCEPT !.lists[l] = L] = With(S, l, L) BY SetList DEF Inv, Sound
<1> QED BY <1>2, <1>3, <1>4 DEF clear

(* append(const list &) copies nodes; the other list keeps its carriage.    *)
LEMMA AppendListIs ==
  ASSUME NEW S, Inv(S), NEW l \in Lists, NEW m \in Lists
  PROVE  /\ Inv(append_list(S, l, m)) /\ Only(S, append_list(S, l, m), l)
         /\ append_list(S, l, m).raws = S.raws
         /\ Bufs(append_list(S, l, m), l) = Bufs(S, l) \o Uncrowned(Bufs(S, m))
         /\ Total(Bufs(append_list(S, l, m), l)) = Total(Bufs(S, l)) + Total(Bufs(S, m))
<1> DEFINE old == Bufs(S, l)
           x == S.lists[l]
           u == Uncrowned(Bufs(S, m))
           bufs == old \o u
           L == [bufs |-> bufs, len |-> x.len + S.lists[m].len,
                 num |-> x.num + S.lists[m].num, dangling |-> x.dangling]
           T == append_list(S, l, m)
<1>0. Sound(S) /\ Shape(S) BY DEF Inv, Sound
<1>1. /\ \A n \in Els(u) : ~n.car /\ Placed(S, n)
      /\ u \in Seq(Node) /\ Len(u) = Len(Bufs(S, m)) /\ Total(u) = Total(Bufs(S, m))
      /\ ~HasCar(u) /\ OneCar(u)
  BY <1>0, UncrownedWithin
<1>2. S.lists[m].len = Total(u) /\ S.lists[m].num = Len(u)
  BY <1>1 DEF Inv, Exact, Sound, Chains
<1>3. /\ x \in ListType /\ old \in Seq(Node) /\ x.bufs = old /\ OneCar(old)
      /\ x.len = Total(old) /\ x.num = Len(old) /\ \A y \in Els(old) : y \in AllNodes(S)
  <2>1. x \in ListType /\ old \in Seq(Node) /\ \A y \in Els(old) : y \in AllNodes(S)
    BY <1>0, BufsTyped
  <2>2. x.bufs = old BY DEF Bufs
  <2>3. x.len = Total(old) BY DEF Inv, Exact
  <2>4. x.num = Len(old) /\ OneCar(old) BY <1>0 DEF Sound, Chains
  <2> QED BY <2>1, <2>2, <2>3, <2>4
<1>4. T = [S EXCEPT !.lists[l] = L]
  <2>1. T = [S EXCEPT !.lists[l] = [bufs |-> x.bufs \o u, len |-> x.len + S.lists[m].len,
                      num |-> x.num + S.lists[m].num, dangling |-> x.dangling]]
    BY DEF append_list
  <2> HIDE DEF x, u, old
  <2> QED BY <1>3, <2>1
<1>5. Total(u) = Total(Bufs(S, m)) BY <1>1
<1> HIDE DEF u, old, T
<1>6. /\ bufs \in Seq(Node) /\ Len(bufs) = Len(old) + Len(u) /\ Els(bufs) = Els(old) \cup Els(u)
      /\ OneCar(old) /\ OneCar(u) /\ ~(HasCar(old) /\ HasCar(u)) => OneCar(bufs)
  BY <1>1, <1>3, ElsConcat
<1>60. Total(bufs) = Total(old) + Total(u) BY <1>1, <1>3, TotalConcat
<1>7. L \in ListType /\ L.num = Len(bufs) /\ L.len = Total(bufs) /\ L.bufs = bufs
  <2>1. x.len \in Nat /\ x.num \in Nat /\ x.dangling \in BOOLEAN BY <1>3, ListFields
  <2>2. Total(u) \in Nat /\ Len(u) \in Nat BY <1>1, TotalNat
  <2> HIDE DEF x, bufs
  <2> QED BY <1>2, <1>3, <1>6, <1>60, <2>1, <2>2 DEF ListType
<1> HIDE DEF bufs, L
<1>8. \A y \in Els(bufs) : Placed(S, y)
  <2>1. \A y \in Els(old) : Placed(S, y) BY <1>0, <1>3, NodeStays
  <2> QED BY <1>1, <1>6, <2>1
<1>9. \A c \in Els(bufs) : c.car => Heir(S, l, bufs, c)
  <2>1. \A c \in Els(bufs) : c.car => c \in Els(Bufs(S, l)) BY <1>1, <1>6 DEF old
  <2> QED BY <2>1 DEF Heir
<1>10. T = With(S, l, L) BY <1>0, <1>4, SetList
<1>11. Inv(T) /\ Only(S, T, l) /\ T.raws = S.raws /\ Bufs(T, l) = L.bufs
  <2>1. OneCar(L.bufs) BY <1>1, <1>3, <1>6, <1>7
  <2> QED BY <1>7, <1>8, <1>9, <1>10, <2>1, WithInv
<1> QED BY <1>5, <1>7, <1>11, <1>60 DEF T, bufs, old, u

(* claim_append() moves nodes; the other list gives up its carriage,        *)
(* nobody gets it.                                                          *)
LEMMA ClaimAppendIs ==
  ASSUME NEW S, Inv(S), NEW l \in Lists, NEW m \in Lists
  PROVE  Inv(claim_append(S, l, m))
<1> DEFINE T == append_list(S, l, m)
<1>1. Inv(T) BY AppendListIs
<1>2. claim_append(S, l, m) = clear(T, m) BY DEF claim_append
<1> HIDE DEF T
<1> QED BY <1>1, <1>2, ClearIs

(* swap(): the lists change hands.                                          *)
Swapped(S, l, m) == [S EXCEPT !.lists[l] = S.lists[m], !.lists[m] = S.lists[l]]

(* swap() exchanges the carriages with the chains.                          *)
LEMMA SwappedIs ==
  ASSUME NEW S, Inv(S), NEW l \in Lists, NEW m \in Lists
  PROVE  Inv(Swapped(S, l, m))
<1> DEFINE T == Swapped(S, l, m)
           to == [x \in Lists |-> IF x = m THEN l ELSE IF x = l THEN m ELSE x]
<1>0. Shape(S) /\ Chains(S) /\ Owners(S) /\ Filled(S) /\ Exact(S) BY DEF Inv, Sound
<1>1. T = [raws |-> S.raws, lists |-> [x \in Lists |-> S.lists[to[x]]]]
  <2> DEFINE X == S.lists[m]
             Y == S.lists[l]
             W == [S EXCEPT !.lists[l] = X]
  <2>1. T = [W EXCEPT !.lists[m] = Y] BY DEF Swapped
  <2>2. X \in ListType BY <1>0, BufsTyped
  <2>3. T = [raws |-> S.raws, lists |-> [x \in Lists |-> IF x = m THEN Y ELSE
                                          IF x = l THEN X ELSE S.lists[x]]]
    <3> HIDE DEF X, Y, T
    <3>1. W = With(S, l, X) BY <1>0, SetList
    <3> HIDE DEF W
    <3>2. Shape(W) BY <1>0, <2>2, <3>1, WithIs
    <3>3. T = With(W, m, Y) BY <2>1, <3>2, SetList
    <3> QED BY <1>0, <3>1, <3>3 DEF With, Shape
  <2>4. \A x \in Lists : S.lists[to[x]] = IF x = m THEN Y ELSE IF x = l THEN X ELSE S.lists[x]
    OBVIOUS
  <2> HIDE DEF X, Y, T, to
  <2> QED BY <2>3, <2>4
<1>2. \A x \in Lists : to[x] \in Lists /\ to[to[x]] = x OBVIOUS
<1> HIDE DEF T, to
<1>3. T.raws = S.raws /\ \A x \in Lists : T.lists[x] = S.lists[to[x]] /\ Bufs(T, x) = Bufs(S, to[x])
  BY <1>1 DEF Bufs
<1>4. Shape(T) BY <1>0, <1>1, <1>2, <1>3 DEF Shape
<1>5. Chains(T) BY <1>0, <1>2, <1>3 DEF Chains, Fit
<1>6. Owners(T)
  <2> SUFFICES ASSUME NEW a \in Lists, NEW b \in Lists, NEW c \in Els(Bufs(T, a)),
                      NEW n \in Els(Bufs(T, b)), c.car, n.raw = c.raw
               PROVE  End(n) <= End(c) /\ (n.car => b = a)
    BY DEF Owners
  <2>1. to[a] \in Lists /\ to[b] \in Lists /\ c \in Els(Bufs(S, to[a])) /\ n \in Els(Bufs(S, to[b]))
    BY <1>2, <1>3
  <2>2. End(n) <= End(c) /\ (n.car => to[b] = to[a]) BY <1>0, <2>1 DEF Owners
  <2> QED BY <1>2, <2>2
<1>7. Filled(T) /\ Exact(T) BY <1>0, <1>2, <1>3 DEF Filled, Exact
<1> QED BY <1>4, <1>5, <1>6, <1>7 DEF Inv, Sound, T

(* The move assignment takes the chain with its carriage and clears the     *)
(* other list.                                                              *)
LEMMA MovedIs ==
  ASSUME NEW S, Inv(S), NEW l \in Lists, NEW m \in Lists, l # m
  PROVE  Inv(clear([S EXCEPT !.lists[l] = S.lists[m]], m))
<1> DEFINE T == Swapped(S, l, m)
           U == clear(T, m)
           V == clear([S EXCEPT !.lists[l] = S.lists[m]], m)
<1>1. Inv(U)
  <2>1. Inv(T) BY SwappedIs
  <2> HIDE DEF T
  <2> QED BY <2>1, ClearIs
<1>2. U = V
  <2> DEFINE X == S.lists[m]
             Y == S.lists[l]
             W == [S EXCEPT !.lists[l] = X]
  <2>0. Shape(S) BY DEF Inv, Sound
  <2>1. X \in ListType /\ Y \in ListType BY <2>0, BufsTyped
  <2>2. T = [W EXCEPT !.lists[m] = Y] BY DEF Swapped
  <2>3. V = [W EXCEPT !.lists[m] = NewList] BY DEF clear
  <2>4. U = [T EXCEPT !.lists[m] = NewList] BY DEF clear
  <2> HIDE DEF X, Y, T, U, V
  <2>5. W = With(S, l, X) BY <2>0, SetList
  <2> HIDE DEF W
  <2>6. Shape(W) /\ W.raws = S.raws BY <2>0, <2>1, <2>5, WithIs
  <2>7. T = With(W, m, Y) /\ V = With(W, m, NewList) BY <2>2, <2>3, <2>6, SetList
  <2>8. Shape(T) BY <2>1, <2>6, <2>7, WithIs
  <2>9. U = With(T, m, NewList) BY <2>4, <2>8, SetList
  <2> QED BY <2>6, <2>7, <2>9 DEF With, Shape
<1> HIDE DEF U
<1> QED BY <1>1, <1>2

(* push_back(): a node of another list, or of this one.                     *)
LEMMA PushPtrIs ==
  ASSUME NEW S, Inv(S), NEW l \in Lists, NEW m \in Lists, NEW k \in DOMAIN Bufs(S, m),
         NEW moved \in BOOLEAN
  PROVE  LET p == Bufs(S, m)[k]
         IN  Inv(Grow([PushBack(S, l, Copy(p)) EXCEPT !.lists[l] =
                         [bufs |-> IF moved THEN Uncrowned(@.bufs) ELSE @.bufs, len |-> @.len,
                          num |-> @.num, dangling |-> @.dangling /\ ~moved]], l, p.len))
<1> DEFINE p == Bufs(S, m)[k]
           n == Copy(p)
           P == PushBack(S, l, n)
           x == P.lists[l]
           u == Uncrowned(x.bufs)
           L == [bufs |-> IF moved THEN u ELSE x.bufs, len |-> x.len,
                 num |-> x.num, dangling |-> x.dangling /\ ~moved]
           M == [P EXCEPT !.lists[l] = L]
           T == Grow(M, l, p.len)
<1>0. Sound(S) /\ Shape(S) /\ Filled(S) BY DEF Inv, Sound
<1>1. p \in Els(Bufs(S, m)) BY DEF Els
<1>2. p \in Node /\ p \in AllNodes(S)
  <2> HIDE DEF p
  <2> QED BY <1>0, <1>1, BufsTyped
<1> HIDE DEF p
<1>3. n \in Node /\ n.car = FALSE /\ n.raw = p.raw /\ End(n) = End(p) /\ n.len = p.len
  BY <1>2 DEF Copy, Node, End
<1>4. Placed(S, n)
  <2>1. End(n) <= End(p) BY <1>2, <1>3, EndNat
  <2> HIDE DEF n
  <2> QED BY <1>2, <1>3, <2>1 DEF Placed, Within
<1> HIDE DEF n
<1>5. /\ Sound(P) /\ Only(S, P, l) /\ P.raws = S.raws
      /\ P.lists[l].len = S.lists[l].len
      /\ Total(Bufs(P, l)) = Total(Bufs(S, l)) + n.len
  BY <1>0, <1>3, <1>4, PushBackIs
<1>6. Filled(P) BY <1>0, <1>5 DEF Filled
<1> HIDE DEF P
<1>7. x \in ListType /\ x.bufs = Bufs(P, l) /\ x.bufs \in Seq(Node) BY <1>5, BufsTyped DEF Sound, Bufs
<1>8. /\ \A y \in Els(u) : ~y.car /\ Placed(P, y)
      /\ u \in Seq(Node) /\ Len(u) = Len(x.bufs) /\ Total(u) = Total(x.bufs) /\ OneCar(u)
  <2> HIDE DEF x
  <2> QED BY <1>5, <1>7, UncrownedWithin
<1>9. x.num = Len(x.bufs) /\ OneCar(x.bufs) BY <1>5, <1>7 DEF Sound, Chains
<1>10. \A y \in Els(x.bufs) : y \in AllNodes(P) /\ Placed(P, y)
  BY <1>5, <1>7, BufsTyped, NodeStays DEF Sound
<1> HIDE DEF u
<1>11. /\ L \in ListType /\ L.num = Len(L.bufs) /\ OneCar(L.bufs) /\ Total(L.bufs) = Total(x.bufs)
       /\ L.len = x.len /\ \A y \in Els(L.bufs) : Placed(P, y)
       /\ \A c \in Els(L.bufs) : c.car => c \in Els(x.bufs)
  <2>1. x.len \in Nat /\ x.num \in Nat /\ x.dangling \in BOOLEAN BY <1>7, ListFields
  <2> HIDE DEF x
  <2>2. CASE moved
    <3>1. L = [bufs |-> u, len |-> x.len, num |-> x.num, dangling |-> FALSE] BY <2>2, <2>1
    <3>2. L \in ListType BY <3>1, <2>1, <1>8 DEF ListType
    <3>3. L.bufs = u /\ L.num = x.num /\ L.len = x.len BY <3>1
    <3> HIDE DEF L
    <3> QED BY <3>2, <3>3, <1>8, <1>9
  <2>3. CASE ~moved
    <3>1. L = [bufs |-> x.bufs, len |-> x.len, num |-> x.num, dangling |-> x.dangling] BY <2>3, <2>1
    <3>2. L \in ListType BY <3>1, <2>1, <1>7 DEF ListType
    <3>3. L.bufs = x.bufs /\ L.num = x.num /\ L.len = x.len BY <3>1
    <3> HIDE DEF L
    <3> QED BY <3>2, <3>3, <1>9, <1>10
  <2> QED BY <2>2, <2>3
<1>12. M = With(P, l, L)
  <2> HIDE DEF L
  <2> QED BY <1>5, SetList DEF Sound
<1> HIDE DEF L, M
<1>13. \A c \in Els(L.bufs) : c.car => Heir(P, l, L.bufs, c) BY <1>7, <1>11 DEF Heir
<1>14. Sound(M) BY <1>5, <1>11, <1>12, <1>13, Replaced
<1>15. /\ M.raws = P.raws /\ M.lists[l] = L /\ Bufs(M, l) = L.bufs
       /\ \A y \in Lists \ {l} : M.lists[y] = P.lists[y]
  BY <1>5, <1>11, <1>12, WithIs DEF Sound
<1>16. Filled(M) BY <1>6, <1>15 DEF Filled
<1>17. p.len \in Nat BY <1>2 DEF Node
<1>18. Gains(M, T, l, 0, p.len) BY <1>14, <1>16, <1>17, GrowGains
<1>19. Gains(S, M, l, p.len, 0)
  <2>1. S.lists[l] \in ListType BY <1>0, BufsTyped
  <2>2. S.lists[l].len + 0 = S.lists[l].len BY <2>1, ListFields
  <2>3. Total(Bufs(M, l)) = Total(Bufs(S, l)) + p.len BY <1>3, <1>5, <1>7, <1>11, <1>15
  <2>4. M.lists[l].len = S.lists[l].len + 0 BY <1>5, <1>11, <1>15, <2>2
  <2> QED BY <1>5, <1>14, <1>15, <1>16, <2>3, <2>4 DEF Gains, Only
<1> HIDE DEF T
<1>20. Gains(S, T, l, p.len, p.len)
  <2>1. p.len = p.len + 0 /\ p.len = 0 + p.len /\ p.len \in Int /\ 0 \in Int BY <1>17
  <2> QED BY <1>0, <1>18, <1>19, <2>1, GainsSum
<1>21. Inv(T)
  <2>1. p.len \in Int BY <1>17
  <2> QED BY <1>20, <2>1, GainsInv
<1> QED BY <1>21 DEF T, M, L, u, x, P, n, p

(* read_fd() pushes a raw with room for one byte more than it fills.        *)
LEMMA ReadFdIs ==
  ASSUME NEW S, Inv(S), NEW l \in Lists, Spare(S), NEW s \in Seq(Byte), NEW b
  PROVE  Inv(Grow(Poke(PushRaw(S, l, Len(s) + 1, b, Len(s)), Unborn(S), 0, s), l, Len(s)))
<1> DEFINE k == Len(s)
           r == Unborn(S)
           P == PushRaw(S, l, k + 1, b, k)
           Q == Poke(P, r, 0, s)
           T == Grow(Q, l, k)
<1>0. Sound(S) /\ Filled(S) BY DEF Inv
<1>1. k \in Nat /\ k + 1 \in Nat \ {0} /\ k \in 0..(k + 1) OBVIOUS
<1>2. r \in Raws BY <1>0, UnbornIs
<1> HIDE DEF k, r
<1>3. Gains(S, P, l, k, 0) BY <1>0, <1>1, PushRawIs
<1> HIDE DEF P
<1>4. Sound(P) /\ Filled(P) BY <1>3 DEF Gains
<1>5. Sound(Q) /\ Q.lists = P.lists /\ Filled(Q)
  <2>1. 0 \in Nat OBVIOUS
  <2> QED BY <1>2, <1>4, <2>1, PokeIs
<1> HIDE DEF Q
<1>6. Gains(S, Q, l, k, 0)
  <2>1. Bufs(Q, l) = Bufs(P, l) BY <1>5 DEF Bufs
  <2> QED BY <1>3, <1>5, <2>1 DEF Gains, Only
<1>7. Gains(Q, T, l, 0, k) BY <1>1, <1>5, GrowGains
<1> HIDE DEF T
<1>8. Gains(S, T, l, k, k)
  <2>1. k = k + 0 /\ k = 0 + k /\ k \in Int /\ 0 \in Int BY <1>1
  <2> QED BY <1>0, <1>6, <1>7, <2>1, GainsSum
<1>9. Inv(T)
  <2>1. k \in Int BY <1>1
  <2> QED BY <1>8, <2>1, GainsInv
<1> QED BY <1>9 DEF T, Q, P, r, k

-----------------------------------------------------------------------------
(* Sharing nodes of another list                                            *)

(* append(const ptr &, off, len) extends the last node when the piece       *)
(* continues it, and pushes a copy when not: never beyond the end of the    *)
(* carriage of that raw.                                                    *)
LEMMA AppendPtrIs ==
  ASSUME NEW S, Sound(S), Filled(S), NEW l \in Lists, NEW p \in Node, ~p.car,
         Within(p, AllNodes(S))
  PROVE  Gains(S, append_ptr(S, l, p), l, p.len, p.len)
<1> DEFINE U == IF Continues(S, l, p) THEN Stretch(S, l, p.len) ELSE PushBack(S, l, p)
           T == append_ptr(S, l, p)
           k == p.len
<1>1. T = Grow(U, l, p.len) BY DEF append_ptr
<1>2. /\ Sound(U) /\ Only(S, U, l) /\ U.raws = S.raws
      /\ U.lists[l].len = S.lists[l].len
      /\ Total(Bufs(U, l)) = Total(Bufs(S, l)) + p.len
  <2>1. CASE Continues(S, l, p)
    <3> DEFINE V == Stretch(S, l, p.len)
    <3>1. U = V BY <2>1
    <3>2. /\ Sound(V) /\ Only(S, V, l) /\ V.raws = S.raws
          /\ V.lists[l].len = S.lists[l].len
          /\ Total(Bufs(V, l)) = Total(Bufs(S, l)) + p.len
      BY <2>1, StretchIn
    <3> HIDE DEF V, U
    <3> QED BY <3>1, <3>2
  <2>2. CASE ~Continues(S, l, p)
    <3> DEFINE V == PushBack(S, l, p)
    <3>1. U = V BY <2>2
    <3>2. Placed(S, p) BY DEF Placed
    <3>3. /\ Sound(V) /\ Only(S, V, l) /\ V.raws = S.raws
          /\ V.lists[l].len = S.lists[l].len
          /\ Total(Bufs(V, l)) = Total(Bufs(S, l)) + p.len
      BY <3>2, PushBackIs
    <3> HIDE DEF V, U
    <3> QED BY <3>1, <3>3
  <2> QED BY <2>1, <2>2
<1>3. k \in Nat BY DEF Node
<1> HIDE DEF U, T
<1>4. Filled(U) BY <1>2 DEF Filled
<1>5. Gains(S, U, l, k, 0)
  <2>1. S.lists[l] \in ListType BY BufsTyped DEF Sound
  <2>2. S.lists[l].len + 0 = S.lists[l].len BY <2>1, ListFields
  <2> QED BY <1>2, <1>4, <2>2 DEF Gains
<1>6. Gains(U, T, l, 0, k)
  <2>1. T = Grow(U, l, k) BY <1>1
  <2> HIDE DEF k
  <2> QED BY <1>2, <1>3, <1>4, <2>1, GrowGains
<1> HIDE DEF k
<1>7. Gains(S, T, l, k, k)
  <2>1. k = k + 0 /\ k = 0 + k /\ k \in Int /\ 0 \in Int BY <1>3
  <2> QED BY <1>5, <1>6, <2>1, GainsSum
<1> QED BY <1>7 DEF T, k

Sharing == INSTANCE FoldLoop WITH Op <- AppendPtrStep

(* The loop over the nodes that iterator.copy() and splice() visit.         *)
LEMMA AppendPtrsIs ==
  ASSUME NEW S, Sound(S), Filled(S), NEW l \in Lists, NEW m \in Lists, m # l,
         NEW ps \in Seq(Node),
         \A p \in Els(ps) : ~p.car /\ Within(p, Els(Bufs(S, m)))
  PROVE  Gains(S, append_ptrs(S, l, ps), l, Total(ps), Total(ps))
<1> DEFINE d == [S |-> S, l |-> l]
           n == Len(ps)
           R == Sharing!Folded(d, ps)
<1>1. DOMAIN ps = 1..n /\ n \in Nat OBVIOUS
<1>2. append_ptrs(S, l, ps) = R.S
  BY Zenon DEF append_ptrs, Sharing!Folded, FoldLeft, Sharing!FoldLeft, MapThenFoldSet,
               Sharing!MapThenFoldSet, Max, Sharing!Max
<1>20. R = Sharing!Folded(d, ps) OBVIOUS
<1> HIDE DEF d, R
<1>3. PICK st : /\ st[0] = d
                /\ \A i \in 1..n : st[i] = AppendPtrStep(st[i - 1], ps[i])
                /\ R = st[n]
  <2> HIDE DEF n
  <2> QED BY <1>1, <1>20, Sharing!FoldSteps, SMTT(60)
<1> DEFINE Good(i) == st[i].l = l /\ st[i] = [S |-> st[i].S, l |-> st[i].l]
                      /\ Gains(S, st[i].S, l, Start(ps, i + 1), Start(ps, i + 1))
           P == {i \in 0..n : Good(i)}
<1>4. 0 \in P
  <2>1. Start(ps, 0 + 1) = 0 BY StartStep
  <2>2. Gains(S, S, l, 0, 0) BY GainsNothing
  <2>3. Good(0) BY <1>3, <2>1, <2>2 DEF d
  <2> QED BY <1>1, <2>3
<1>5. ASSUME NEW i \in 0..(n - 1), i \in P PROVE i + 1 \in P
  <2> DEFINE X == st[i].S
             p == ps[i + 1]
             Y == append_ptr(X, l, p)
             a == Start(ps, i + 1)
  <2>0. i + 1 \in 1..n /\ (i + 1) - 1 = i /\ i + 1 \in 0..n /\ (i + 1) + 1 = i + 2 OBVIOUS
  <2>1. Gains(S, X, l, a, a) /\ st[i] = [S |-> X, l |-> l] BY <1>5
  <2>2. p \in Node /\ p \in Els(ps) BY <1>1, <2>0 DEF Els
  <2>3. st[i + 1] = [S |-> Y, l |-> l]
    <3>1. st[i + 1] = AppendPtrStep(st[i], ps[i + 1]) BY <1>3, <2>0
    <3> HIDE DEF X
    <3> QED BY <2>1, <3>1 DEF AppendPtrStep
  <2>4. Start(ps, (i + 1) + 1) = a + p.len /\ a \in Nat /\ p.len \in Nat
    <3>1. i + 1 \in 1..(Len(ps) + 1) BY <1>1, <2>0
    <3>2. p.len \in Nat BY <2>2 DEF Node
    <3> QED BY <2>0, <3>1, <3>2, StartStep
  <2> HIDE DEF X, p, a
  <2>5. Within(p, AllNodes(X)) /\ ~p.car
    <3>1. Bufs(X, m) = Bufs(S, m) BY <2>1 DEF Gains, Only, Bufs
    <3>2. \A y \in Els(Bufs(X, m)) : y \in AllNodes(X) BY <2>1, BufsTyped DEF Gains, Sound
    <3> QED BY <2>2, <3>1, <3>2 DEF Within
  <2>6. Sound(X) /\ Filled(X) BY <2>1 DEF Gains
  <2>7. Gains(X, Y, l, p.len, p.len) BY <2>2, <2>5, <2>6, AppendPtrIs
  <2> HIDE DEF Y
  <2>8. Gains(S, Y, l, a + p.len, a + p.len)
    <3>1. a \in Int /\ p.len \in Int BY <2>4
    <3> QED BY <2>1, <2>7, <3>1, GainsSum
  <2>9. Good(i + 1) BY <2>3, <2>4, <2>8
  <2> QED BY <2>0, <2>9
<1> HIDE DEF P
<1>6. \A i \in 0..n : i \in P BY <1>1, <1>4, <1>5, LoopInduction
<1>7. Good(n) BY <1>1, <1>6 DEF P
<1>8. Start(ps, n + 1) = Total(ps) BY StartStep
<1> QED BY <1>2, <1>3, <1>7, <1>8

(* Dropping the empty pieces keeps the others.                              *)
LEMMA NonEmptyIs ==
  ASSUME NEW ps \in Seq(Node)
  PROVE  NonEmpty(ps) \in Seq(Node) /\ Els(NonEmpty(ps)) \subseteq Els(ps)
<1> DEFINE A == Els(ps)
           ss == [i \in DOMAIN ps |-> IF ps[i].len > 0 THEN <<ps[i]>> ELSE <<>>]
<1>1. \A i \in 1..Len(ps) : ps[i] \in A BY DEF Els
<1>2. DOMAIN ps = 1..Len(ps) /\ Len(ps) \in Nat OBVIOUS
<1>3. A \subseteq Node BY DEF Els
<1> HIDE DEF A
<1>4. ASSUME NEW i \in 1..Len(ps) PROVE ss[i] \in Seq(A)
  <2>1. ps[i] \in A BY <1>1
  <2>2. <<ps[i]>> \in Seq(A) /\ <<>> \in Seq(A) BY <2>1
  <2> QED BY <1>2, <2>2
<1>5. ss \in Seq(Seq(A))
  <2>1. ss = [i \in 1..Len(ps) |-> ss[i]] BY <1>2
  <2> HIDE DEF ss
  <2> QED BY <1>2, <1>4, <2>1
<1>6. NonEmpty(ps) = FlattenSeq(ss) BY DEF NonEmpty
<1> HIDE DEF ss
<1>7. NonEmpty(ps) \in Seq(A) BY <1>5, <1>6, FlattenType
<1>8. NonEmpty(ps) \in Seq(Node) BY <1>3, <1>7
<1>9. Els(NonEmpty(ps)) \subseteq A BY <1>7 DEF Els
<1> QED BY <1>8, <1>9 DEF A

(* iterator::copy(len, list &) appends the pieces in turn.                  *)
LEMMA IterCopyIs ==
  ASSUME NEW S, Inv(S), NEW l \in Lists, NEW m \in Lists, l # m,
         NEW off \in Nat, NEW n \in Nat \ {0}, off + n <= S.lists[m].len
  PROVE  Inv(append_ptrs(S, l, NonEmpty(Parts(Bufs(S, m), off, n))))
<1> DEFINE b == Bufs(S, m)
           ps == Parts(b, off, n)
           qs == NonEmpty(ps)
           T == append_ptrs(S, l, qs)
<1>1. b \in Seq(Node) BY BufsTyped DEF Inv, Sound
<1>2. off + n <= Total(b) BY DEF Inv, Exact
<1>3. ps \in Seq(Node) /\ \A p \in Els(ps) : ~p.car /\ Within(p, Els(b))
  <2> HIDE DEF b
  <2> QED BY <1>1, <1>2, PartsIs
<1> HIDE DEF ps
<1>4. qs \in Seq(Node) /\ \A p \in Els(qs) : ~p.car /\ Within(p, Els(b)) BY <1>3, NonEmptyIs
<1> HIDE DEF qs
<1>5. Gains(S, T, l, Total(qs), Total(qs)) BY <1>4, AppendPtrsIs DEF Inv
<1>6. Total(qs) \in Int BY <1>4, TotalNat
<1> HIDE DEF T
<1>7. Inv(T) BY <1>5, <1>6, GainsInv
<1> QED BY <1>7 DEF T, qs, ps, b

-----------------------------------------------------------------------------
(* splice()                                                                 *)

(* A node that lost its first k bytes ends where it ended.                  *)
LEMMA TrimmedIs ==
  ASSUME NEW n \in Node, NEW k \in 0..n.len
  PROVE  LET t == Trimmed(n, k)
         IN  /\ t \in Node /\ t.raw = n.raw /\ t.car = n.car /\ t.len = n.len - k
             /\ End(t) = End(n)
<1> DEFINE t == Trimmed(n, k)
<1>1. n.raw \in Raws /\ n.off \in Nat /\ n.len \in Nat /\ n.car \in BOOLEAN BY DEF Node
<1>3. t = [raw |-> n.raw, off |-> n.off + k, len |-> n.len - k, car |-> n.car]
  BY DEF Trimmed, Ptr
<1> HIDE DEF t
<1>4. t \in Node /\ t.raw = n.raw /\ t.car = n.car /\ t.off = n.off + k /\ t.len = n.len - k
  BY <1>1, <1>3 DEF Node
<1>5. End(t) = End(n) BY <1>1, <1>4 DEF End
<1> QED BY <1>4, <1>5 DEF t

(* A carriage among the nodes that are cut out keeps its end and no bytes.  *)
LEMMA MovedNodes ==
  ASSUME NEW s \in Seq(Node), OneCar(s)
  PROVE  /\ Moved(s) \in Seq(Node) /\ Total(Moved(s)) = 0 /\ OneCar(Moved(s))
         /\ HasCar(Moved(s)) => HasCar(s)
         /\ \A x \in Els(Moved(s)) : \E y \in Els(s) :
               x.car /\ y.car /\ x.raw = y.raw /\ End(x) = End(y)
<1> DEFINE ss == [i \in DOMAIN s |-> IF s[i].car THEN <<Trimmed(s[i], s[i].len)>> ELSE <<>>]
           M == Moved(s)
<1>0. DOMAIN s = 1..Len(s) /\ Len(s) \in Nat /\ \A i \in 1..Len(s) : s[i] \in Node OBVIOUS
<1>1. M = FlattenSeq(ss) BY DEF Moved
<1>2. ss \in Seq(Seq(Node)) /\ Len(ss) = Len(s)
  <2>1. ASSUME NEW i \in 1..Len(s) PROVE ss[i] \in Seq(Node)
    <3>1. s[i] \in Node /\ s[i].len \in 0..s[i].len BY <1>0 DEF Node
    <3>2. Trimmed(s[i], s[i].len) \in Node BY <3>1, TrimmedIs
    <3>3. <<Trimmed(s[i], s[i].len)>> \in Seq(Node) /\ <<>> \in Seq(Node) BY <3>2
    <3> QED BY <1>0, <3>3
  <2>2. ss = [i \in 1..Len(s) |-> ss[i]] BY <1>0
  <2> HIDE DEF ss
  <2> QED BY <1>0, <2>1, <2>2
<1>3. CASE HasCar(s)
  <2>1. PICK k \in 1..Len(s) : s[k].car BY <1>0, <1>3 DEF HasCar
  <2>2. \A i \in 1..Len(s) : s[i].car => i = k BY <1>0, <2>1 DEF OneCar
  <2> DEFINE t == Trimmed(s[k], s[k].len)
             one == <<t>>
  <2>3. s[k] \in Node /\ s[k].len \in 0..s[k].len BY <1>0, <2>1 DEF Node
  <2>4. t \in Node /\ t.raw = s[k].raw /\ t.car /\ t.len = s[k].len - s[k].len /\ End(t) = End(s[k])
    BY <2>1, <2>3, TrimmedIs
  <2>5. t.len = 0 BY <2>3, <2>4 DEF Node
  <2>6. \A i \in 1..Len(s) : ss[i] = IF i = k THEN one ELSE <<>> BY <1>0, <2>1, <2>2
  <2> HIDE DEF t, ss, M
  <2>7. /\ one \in Seq(Node) /\ Els(one) = {t} /\ OneCar(one) /\ Total(one) = 0
    BY <2>4, <2>5, ElsOne, TotalOne
  <2> HIDE DEF one
  <2>8. M = one BY <1>1, <1>2, <2>1, <2>6, <2>7, FlattenOne
  <2>9. s[k] \in Els(s) BY <1>0 DEF Els
  <2> QED BY <1>3, <2>1, <2>4, <2>7, <2>8, <2>9 DEF M
<1>4. CASE ~HasCar(s)
  <2>1. \A i \in 1..Len(s) : ss[i] = IF i = 0 THEN <<>> ELSE <<>> BY <1>0, <1>4 DEF HasCar
  <2>2. <<>> \in Seq(Node) /\ Len(<<>>) = 0 BY ElsNone
  <2> HIDE DEF ss, M
  <2>3. M = <<>> BY <1>1, <1>2, <2>1, <2>2, FlattenOne
  <2>4. Els(M) = {} /\ OneCar(M) /\ ~HasCar(M) /\ M \in Seq(Node) BY <2>3, ElsNone
  <2>5. Total(M) = 0 BY <2>3, TotalEmpty
  <2> QED BY <2>4, <2>5 DEF M
<1> QED BY <1>3, <1>4

(* The head of the first node stays, no carriage any more.                  *)
LEMMA KeptHeadIs ==
  ASSUME NEW b \in Seq(Node), NEW f \in 1..Len(b), NEW off \in Nat,
         Start(b, f) <= off, off <= Start(b, f + 1)
  PROVE  LET H == KeptHead(b, f, off)
         IN  /\ H \in Seq(Node) /\ ~HasCar(H) /\ OneCar(H) /\ Total(H) = off - Start(b, f)
             /\ \A x \in Els(H) : ~x.car /\ x.raw = b[f].raw /\ End(x) <= End(b[f])
<1> DEFINE H == KeptHead(b, f, off)
           st == Start(b, f)
           p == Slice(b[f], 0, off - st)
           one == <<p>>
<1>0. b[f] \in Node OBVIOUS
<1>1. st \in Nat /\ b[f].len \in Nat /\ st <= off /\ off <= st + b[f].len
  <2>1. b[f].len \in Nat BY <1>0 DEF Node
  <2>2. f \in 1..(Len(b) + 1) OBVIOUS
  <2> QED BY <2>1, <2>2, StartStep
<1>11. st = Start(b, f) OBVIOUS
<1> HIDE DEF st
<1>2. CASE off > st
  <2>1. H = one BY <1>2, <1>11 DEF KeptHead
  <2>2. off - st \in 0..b[f].len BY <1>1
  <2>3. p \in Node /\ ~p.car /\ p.raw = b[f].raw /\ p.len = off - st /\ p.off = b[f].off
    <3>1. p = [raw |-> b[f].raw, off |-> b[f].off + 0, len |-> off - st, car |-> FALSE]
      BY DEF Slice, Ptr
    <3>2. b[f].off \in Nat /\ b[f].raw \in Raws BY <1>0 DEF Node
    <3>3. b[f].off + 0 = b[f].off /\ off - st \in Nat BY <1>1, <2>2, <3>2
    <3> HIDE DEF p
    <3> QED BY <3>1, <3>2, <3>3 DEF Node
  <2>4. End(p) <= End(b[f])
    <3>1. b[f].off \in Nat BY <1>0 DEF Node
    <3> HIDE DEF p
    <3>2. End(p) = b[f].off + (off - st) BY <2>3 DEF End
    <3>3. End(b[f]) = b[f].off + b[f].len BY DEF End
    <3> QED BY <1>1, <2>2, <3>1, <3>2, <3>3
  <2> HIDE DEF p, H
  <2>5. one \in Seq(Node) /\ Els(one) = {p} /\ ~HasCar(one) /\ OneCar(one) /\ Total(one) = off - st
    BY <2>3, ElsOne, TotalOne
  <2> HIDE DEF one
  <2> QED BY <1>11, <2>1, <2>3, <2>4, <2>5 DEF H
<1>3. CASE ~(off > st)
  <2>1. H = <<>> BY <1>3, <1>11 DEF KeptHead
  <2>2. off - st = 0 BY <1>1, <1>3
  <2> HIDE DEF H
  <2>3. Els(H) = {} /\ OneCar(H) /\ ~HasCar(H) /\ H \in Seq(Node) BY <2>1, ElsNone
  <2>4. Total(H) = 0 BY <2>1, TotalEmpty
  <2> QED BY <1>11, <2>2, <2>3, <2>4 DEF H
<1> QED BY <1>2, <1>3

(* The tail of the last node stays as the node it is.                       *)
LEMMA SurvivorIs ==
  ASSUME NEW b \in Seq(Node), NEW e \in 1..Len(b), NEW to \in Nat,
         Start(b, e) < to, to <= Start(b, e + 1)
  PROVE  LET V == Survivor(b, e, to)
         IN  /\ V \in Seq(Node) /\ OneCar(V) /\ Total(V) = Start(b, e + 1) - to
             /\ Len(V) = IF to < Start(b, e + 1) THEN 1 ELSE 0
             /\ HasCar(V) => b[e].car /\ to < Start(b, e + 1)
             /\ \A x \in Els(V) : x.raw = b[e].raw /\ End(x) = End(b[e]) /\ x.car = b[e].car
<1> DEFINE V == Survivor(b, e, to)
           st == Start(b, e)
           p == Trimmed(b[e], to - st)
           one == <<p>>
           en == Start(b, e + 1)
<1>0. b[e] \in Node OBVIOUS
<1>1. /\ st \in Nat /\ b[e].len \in Nat /\ en = st + b[e].len /\ st < to /\ to <= en /\ en \in Nat
  <2>1. b[e].len \in Nat BY <1>0 DEF Node
  <2>2. e \in 1..(Len(b) + 1) OBVIOUS
  <2> QED BY <2>1, <2>2, StartStep
<1>11. st = Start(b, e) /\ en = Start(b, e + 1) OBVIOUS
<1> HIDE DEF st, en
<1>2. CASE to < en
  <2>1. V = one BY <1>2, <1>11 DEF Survivor
  <2>2. to - st \in 0..b[e].len BY <1>1, <1>2
  <2>3. /\ p \in Node /\ p.raw = b[e].raw /\ p.car = b[e].car /\ p.len = b[e].len - (to - st)
        /\ End(p) = End(b[e])
    BY <1>0, <2>2, TrimmedIs
  <2>4. p.len = en - to
    <3> DEFINE B == b[e].len
    <3>1. p.len = B - (to - st) BY <2>3
    <3>2. st \in Nat /\ B \in Nat /\ en = st + B /\ to \in Nat BY <1>1
    <3> HIDE DEF p, B
    <3>3. B - (to - st) = en - to BY ONLY <3>2
    <3> QED BY <3>1, <3>3
  <2> HIDE DEF p, V
  <2>5. /\ one \in Seq(Node) /\ Els(one) = {p} /\ OneCar(one) /\ Total(one) = p.len
        /\ Len(one) = 1 /\ (HasCar(one) <=> p.car)
    BY <2>3, ElsOne, TotalOne
  <2> HIDE DEF one
  <2> QED BY <1>2, <1>11, <2>1, <2>3, <2>4, <2>5 DEF V
<1>3. CASE ~(to < en)
  <2>1. V = <<>> BY <1>3, <1>11 DEF Survivor
  <2>2. en - to = 0 BY ONLY to \in Nat, <1>1, <1>3
  <2> HIDE DEF V
  <2>3. Els(V) = {} /\ OneCar(V) /\ ~HasCar(V) /\ V \in Seq(Node) /\ Len(V) = 0 BY <2>1, ElsNone
  <2>4. Total(V) = 0 BY <2>1, TotalEmpty
  <2> QED BY <1>3, <1>11, <2>2, <2>3, <2>4 DEF V
<1> QED BY <1>2, <1>3

(* Chains one after the other, no two of which have a carriage.             *)
LEMMA Join ==
  ASSUME NEW a \in Seq(Node), NEW b \in Seq(Node), OneCar(a), OneCar(b),
         ~(HasCar(a) /\ HasCar(b))
  PROVE  LET t == a \o b
         IN  /\ t \in Seq(Node) /\ Len(t) = Len(a) + Len(b) /\ Els(t) = Els(a) \cup Els(b)
             /\ Total(t) = Total(a) + Total(b) /\ OneCar(t)
             /\ HasCar(t) => HasCar(a) \/ HasCar(b)
<1> DEFINE t == a \o b
<1>1. /\ t \in Seq(Node) /\ Len(t) = Len(a) + Len(b) /\ Els(t) = Els(a) \cup Els(b)
      /\ (HasCar(t) <=> HasCar(a) \/ HasCar(b))
      /\ OneCar(a) /\ OneCar(b) /\ ~(HasCar(a) /\ HasCar(b)) => OneCar(t)
  BY ElsConcat
<1>2. Total(t) = Total(a) + Total(b) BY TotalConcat
<1> HIDE DEF t
<1> QED BY <1>1, <1>2 DEF t

(* A carriage in a part of a chain is at an index of the part.              *)
LEMMA CarAt ==
  ASSUME NEW b \in Seq(Node), NEW f \in 1..(Len(b) + 1), NEW e \in 0..Len(b), f <= e + 1
  PROVE  /\ HasCar(SubSeq(b, f, e)) => \E i \in f..e : b[i].car
         /\ Total(SubSeq(b, f, e)) = Start(b, e + 1) - Start(b, f)
<1> DEFINE c == SubSeq(b, f, e)
           a == SubSeq(b, 1, f - 1)
<1>1. /\ c \in Seq(Node) /\ Len(c) = e - f + 1
      /\ \A i \in 1..(e - f + 1) : c[i] = b[f + i - 1]
  BY ElsSub
<1>2. a \in Seq(Node) /\ a \o c = SubSeq(b, 1, e) OBVIOUS
<1>3. Total(SubSeq(b, 1, e)) = Start(b, e + 1) /\ Total(a) = Start(b, f)
  <2>1. (e + 1) - 1 = e OBVIOUS
  <2> QED BY <2>1 DEF Start
<1> HIDE DEF c, a
<1>4. Total(a \o c) = Total(a) + Total(c) BY <1>1, <1>2, TotalConcat
<1>5. Total(a) \in Nat /\ Total(c) \in Nat BY <1>1, <1>2, TotalNat
<1>6. Total(c) = Start(b, e + 1) - Start(b, f) BY <1>2, <1>3, <1>4, <1>5
<1>7. ASSUME HasCar(c) PROVE \E i \in f..e : b[i].car
  <2>1. DOMAIN c = 1..(e - f + 1) BY <1>1
  <2>2. PICK i \in 1..(e - f + 1) : c[i].car BY <1>7, <2>1 DEF HasCar
  <2>3. f + i - 1 \in f..e OBVIOUS
  <2>4. b[f + i - 1].car BY <1>1, <2>2
  <2> QED BY <2>3, <2>4
<1> QED BY <1>6, <1>7 DEF c

(* The chain splice() leaves: as many nodes as _num was set to, as many     *)
(* bytes as before less the ones cut out, and the carriage if there was     *)
(* one.                                                                     *)
LEMMA SplicedIs ==
  ASSUME NEW b \in Seq(Node), OneCar(b), NEW off \in Nat, NEW to \in Nat, off < to, to <= Total(b),
         NEW f, f = FirstAt(b, off), NEW e, e = LastAt(b, to)
  PROVE  LET t == Spliced(b, off, to, f, e)
         IN  /\ t \in Seq(Node) /\ OneCar(t)
             /\ Len(t) = Len(b) + Recount(b, off, to, f, e)
             /\ Total(t) = Total(b) + off - to
             /\ \A x \in Els(t) : /\ Within(x, Els(b))
                                  /\ x.car => \E d \in Els(b) : d.car /\ d.raw = x.raw /\ End(d) = End(x)
             /\ f \in 1..Len(b) /\ Start(b, f) \in Nat
<1> DEFINE N == Len(b)
           S1 == Start(b, e + 1)
           e1 == IF to < S1 THEN e - 1 ELSE e
           A == SubSeq(b, 1, f - 1)
           H == KeptHead(b, f, off)
           V == Survivor(b, e, to)
           Z == SubSeq(b, e + 1, N)
           er == SubSeq(b, f, e1)
           M == Moved(er)
           t == Spliced(b, off, to, f, e)
<1>0. N \in Nat /\ Total(b) \in Nat /\ off < Total(b) /\ 0 < to BY TotalNat
<1>1. f \in 1..N /\ Start(b, f) <= off /\ off <= Start(b, f + 1) BY <1>0, FirstAtIs
<1>2. /\ e \in 1..N /\ Start(b, e) < to /\ to <= Start(b, e + 1)
      /\ \A i \in 1..N : Start(b, i) < to => i <= e
  BY <1>0, LastAtIs
<1>3. /\ Start(b, f) \in Nat /\ Start(b, e) \in Nat /\ S1 \in Nat /\ Start(b, N + 1) = Total(b)
      /\ Start(b, 1) = 0
  <2>1. f \in 1..(N + 1) /\ e \in 1..(N + 1) /\ e + 1 \in 1..(N + 1) BY <1>0, <1>1, <1>2
  <2> QED BY <2>1, StartStep
<1>4. f <= e
  <2>1. Start(b, f) < to BY <1>1, <1>3
  <2> QED BY <1>1, <1>2, <2>1
<1>40. N \in Nat /\ f \in 1..N /\ e \in 1..N /\ f <= e /\ f \in Nat /\ e \in Nat
  BY <1>0, <1>1, <1>2, <1>4
<1>5. t = (((A \o H) \o V) \o Z) \o M BY DEF Spliced, Erased
<1>50. Recount(b, off, to, f, e) = Len(H) - (Len(er) - Len(M)) BY DEF Recount, Erased
<1>6. S1 = Start(b, e + 1) OBVIOUS
<1> HIDE DEF S1
<1>7. e1 \in 0..N /\ f <= e1 + 1 /\ e1 <= e /\ e1 = IF to < S1 THEN e - 1 ELSE e
  BY <1>0, <1>1, <1>2, <1>4
<1>70. \A i \in DOMAIN b : b[i] \in Node /\ b[i] \in Els(b) BY DEF Els
<1>71. DOMAIN b = 1..N OBVIOUS
<1> HIDE DEF e1
\* the parts
<1>8. /\ A \in Seq(Node) /\ Len(A) = f - 1 /\ Els(A) \subseteq Els(b) /\ OneCar(A)
      /\ (HasCar(A) => \E i \in 1..(f - 1) : b[i].car) /\ Total(A) = Start(b, f)
  <2>1. 1 \in 1..(N + 1) /\ f - 1 \in 0..N /\ 1 <= (f - 1) + 1 /\ (f - 1) + 1 = f /\ (f - 1) - 1 + 1 = f - 1
    BY <1>0, <1>1
  <2>2. /\ A \in Seq(Node) /\ Len(A) = (f - 1) - 1 + 1 /\ Els(A) \subseteq Els(b) /\ OneCar(A)
    BY <2>1, ElsSub
  <2>3. /\ (HasCar(A) => \E i \in 1..(f - 1) : b[i].car)
        /\ Total(A) = Start(b, (f - 1) + 1) - Start(b, 1)
    BY <2>1, CarAt
  <2> HIDE DEF A
  <2>4. Total(A) = Start(b, f) BY <1>3, <2>1, <2>3
  <2> QED BY <2>1, <2>2, <2>3, <2>4
<1>9. /\ H \in Seq(Node) /\ ~HasCar(H) /\ OneCar(H) /\ Total(H) = off - Start(b, f)
      /\ \A x \in Els(H) : ~x.car /\ x.raw = b[f].raw /\ End(x) <= End(b[f])
  BY <1>1, KeptHeadIs
<1>10. /\ V \in Seq(Node) /\ OneCar(V) /\ Total(V) = S1 - to
       /\ Len(V) = (IF to < S1 THEN 1 ELSE 0)
       /\ (HasCar(V) => b[e].car /\ to < S1)
       /\ \A x \in Els(V) : x.raw = b[e].raw /\ End(x) = End(b[e]) /\ x.car = b[e].car
  BY <1>2, <1>6, SurvivorIs
<1>11. /\ Z \in Seq(Node) /\ Len(Z) = N - e /\ Els(Z) \subseteq Els(b) /\ OneCar(Z)
       /\ (HasCar(Z) => \E i \in (e + 1)..N : b[i].car) /\ Total(Z) = Total(b) - S1
  <2>1. e + 1 \in 1..(N + 1) /\ N \in 0..N /\ e + 1 <= N + 1 /\ N - (e + 1) + 1 = N - e
    BY ONLY <1>40
  <2>2. /\ Z \in Seq(Node) /\ Len(Z) = N - (e + 1) + 1 /\ Els(Z) \subseteq Els(b) /\ OneCar(Z)
    BY <2>1, ElsSub
  <2>3. /\ (HasCar(Z) => \E i \in (e + 1)..N : b[i].car)
        /\ Total(Z) = Start(b, N + 1) - Start(b, e + 1)
    BY <2>1, CarAt
  <2> HIDE DEF Z
  <2> QED BY <1>3, <1>6, <2>1, <2>2, <2>3
<1>12. /\ er \in Seq(Node) /\ Len(er) = e1 - f + 1 /\ Els(er) \subseteq Els(b) /\ OneCar(er)
       /\ (HasCar(er) => \E i \in f..e1 : b[i].car)
  <2>1. f \in 1..(N + 1) BY <1>0, <1>1
  <2>2. /\ er \in Seq(Node) /\ Len(er) = e1 - f + 1 /\ Els(er) \subseteq Els(b) /\ OneCar(er)
    BY <1>7, <2>1, ElsSub
  <2>3. HasCar(er) => \E i \in f..e1 : b[i].car BY <1>7, <2>1, CarAt
  <2> HIDE DEF er
  <2> QED BY <2>2, <2>3
<1>13. /\ M \in Seq(Node) /\ Total(M) = 0 /\ OneCar(M) /\ (HasCar(M) => HasCar(er))
       /\ \A x \in Els(M) : \E y \in Els(er) : x.car /\ y.car /\ x.raw = y.raw /\ End(x) = End(y)
  <2> HIDE DEF er
  <2> QED BY <1>12, MovedNodes
<1> HIDE DEF A, H, V, Z, er, M, t, N
\* no two of them have a carriage
<1>14. \A i \in 1..N, j \in 1..N : b[i].car /\ b[j].car => i = j BY <1>71 DEF OneCar
<1>144. HasCar(A) => \E i \in 1..N : i < f /\ b[i].car
  <2>1. 1..(f - 1) \subseteq {i \in 1..N : i < f} BY ONLY <1>40
  <2> QED BY <1>8, <2>1
<1>145. HasCar(Z) => \E i \in 1..N : e < i /\ b[i].car
  <2>1. (e + 1)..N \subseteq {i \in 1..N : e < i} BY ONLY <1>40
  <2> QED BY <1>11, <2>1
<1>146. HasCar(V) => \E i \in 1..N : i = e /\ e1 < e /\ b[i].car
  <2>1. to < S1 => e1 < e BY ONLY <1>7, <1>40
  <2> QED BY <1>10, <1>40, <2>1
<1>147. HasCar(M) => \E i \in 1..N : f <= i /\ i <= e1 /\ b[i].car
  <2>1. f..e1 \subseteq {i \in 1..N : f <= i /\ i <= e1} BY ONLY <1>7, <1>40
  <2> QED BY <1>12, <1>13, <2>1
<1>148. e1 \in Nat /\ e1 <= e BY <1>7
<1>15. ~(HasCar(A) /\ HasCar(V)) /\ ~(HasCar(A) /\ HasCar(Z)) /\ ~(HasCar(V) /\ HasCar(Z))
  BY ONLY <1>14, <1>40, <1>144, <1>145, <1>146
<1>16. ~(HasCar(M) /\ (HasCar(A) \/ HasCar(V) \/ HasCar(Z)))
  BY ONLY <1>14, <1>40, <1>144, <1>145, <1>146, <1>147, <1>148
\* joining them
<1> DEFINE AH == A \o H
           AV == AH \o V
           AZ == AV \o Z
<1>17. /\ AH \in Seq(Node) /\ Len(AH) = Len(A) + Len(H) /\ Els(AH) = Els(A) \cup Els(H)
       /\ Total(AH) = Total(A) + Total(H) /\ OneCar(AH) /\ (HasCar(AH) => HasCar(A))
  BY <1>8, <1>9, Join
<1> HIDE DEF AH
<1>18. /\ AV \in Seq(Node) /\ Len(AV) = Len(AH) + Len(V) /\ Els(AV) = Els(AH) \cup Els(V)
       /\ Total(AV) = Total(AH) + Total(V) /\ OneCar(AV) /\ (HasCar(AV) => HasCar(AH) \/ HasCar(V))
  BY <1>10, <1>15, <1>17, Join
<1> HIDE DEF AV
<1>19. /\ AZ \in Seq(Node) /\ Len(AZ) = Len(AV) + Len(Z) /\ Els(AZ) = Els(AV) \cup Els(Z)
       /\ Total(AZ) = Total(AV) + Total(Z) /\ OneCar(AZ) /\ (HasCar(AZ) => HasCar(AV) \/ HasCar(Z))
  BY <1>11, <1>15, <1>17, <1>18, Join
<1>190. t = AZ \o M BY <1>5 DEF AZ, AV, AH
<1> HIDE DEF AZ
<1>20. /\ t \in Seq(Node) /\ Len(t) = Len(AZ) + Len(M) /\ Els(t) = Els(AZ) \cup Els(M)
       /\ Total(t) = Total(AZ) + Total(M) /\ OneCar(t)
  <2>1. ~(HasCar(AZ) /\ HasCar(M)) BY <1>16, <1>17, <1>18, <1>19
  <2> QED BY <1>13, <1>19, <1>190, <2>1, Join
\* counting nodes and bytes
<1>21. Len(t) = N + Recount(b, off, to, f, e)
  <2> DEFINE h == Len(H)
             v == Len(V)
             mm == Len(M)
  <2>1. h \in Nat /\ mm \in Nat BY <1>9, <1>13
  <2>2. Len(t) = (((f - 1) + h) + v) + (N - e) + mm BY <1>8, <1>11, <1>17, <1>18, <1>19, <1>20
  <2>30. v = IF to < S1 THEN 1 ELSE 0 BY <1>10
  <2>31. f \in Nat /\ e \in Nat /\ e1 \in Nat BY <1>40, <1>148
  <2>32. e1 = IF to < S1 THEN e - 1 ELSE e BY <1>7
  <2> HIDE DEF v
  <2>3. v = e - e1 /\ f \in Nat /\ e \in Nat /\ e1 \in Nat BY ONLY <2>30, <2>31, <2>32
  <2>4. Recount(b, off, to, f, e) = h - ((e1 - f + 1) - mm) BY <1>12, <1>50
  <2> HIDE DEF h, v, mm
  <2>5. (((f - 1) + h) + v) + (N - e) + mm = N + (h - ((e1 - f + 1) - mm))
    BY ONLY <1>0, <2>1, <2>3
  <2> QED BY <2>2, <2>4, <2>5
<1>22. Total(t) = Total(b) + off - to
  <2> DEFINE B == Total(b)
             s == Start(b, f)
  <2>1. Total(t) = ((((s + (off - s)) + (S1 - to)) + (B - S1)) + 0)
    BY <1>8, <1>9, <1>10, <1>11, <1>13, <1>17, <1>18, <1>19, <1>20
  <2>2. B \in Nat /\ s \in Nat /\ S1 \in Nat /\ off \in Nat /\ to \in Nat BY <1>0, <1>3
  <2> HIDE DEF B, s
  <2>3. ((((s + (off - s)) + (S1 - to)) + (B - S1)) + 0) = B + off - to BY ONLY <2>2
  <2> QED BY <2>1, <2>3 DEF B
\* what they hold
<1>23. ASSUME NEW x \in Els(t)
       PROVE  /\ Within(x, Els(b))
              /\ x.car => \E d \in Els(b) : d.car /\ d.raw = x.raw /\ End(d) = End(x)
  <2>0. x \in Els(A) \/ x \in Els(H) \/ x \in Els(V) \/ x \in Els(Z) \/ x \in Els(M)
    BY <1>17, <1>18, <1>19, <1>20
  <2>01. \A y \in Els(b) : y \in Node /\ End(y) \in Nat BY EndNat DEF Els
  <2>1. CASE x \in Els(A) \/ x \in Els(Z)
    <3>1. x \in Els(b) BY <1>8, <1>11, <2>1
    <3>2. End(x) <= End(x) BY <2>01, <3>1
    <3> QED BY <3>1, <3>2 DEF Within
  <2>2. CASE x \in Els(H)
    <3>1. b[f] \in Els(b) BY <1>1, <1>70, <1>71
    <3> QED BY <1>9, <2>2, <3>1 DEF Within
  <2>3. CASE x \in Els(V)
    <3>1. b[e] \in Els(b) BY <1>2, <1>70, <1>71
    <3>2. End(x) <= End(b[e]) BY <1>10, <2>01, <2>3, <3>1
    <3> QED BY <1>10, <2>3, <3>1, <3>2 DEF Within
  <2>4. CASE x \in Els(M)
    <3>1. PICK y \in Els(er) : x.car /\ y.car /\ x.raw = y.raw /\ End(x) = End(y) BY <1>13, <2>4
    <3>2. y \in Els(b) BY <1>12
    <3>3. End(x) <= End(y) BY <2>01, <3>1, <3>2
    <3> QED BY <3>1, <3>2, <3>3 DEF Within
  <2> QED BY <2>0, <2>1, <2>2, <2>3, <2>4
<1> QED BY <1>1, <1>3, <1>20, <1>21, <1>22, <1>23 DEF t, N

(* Cutting bytes out of a list.                                             *)
LEMMA CutOutIs ==
  ASSUME NEW S, Inv(S), NEW l \in Lists, NEW off \in Nat, NEW to \in Nat, off < to,
         to <= S.lists[l].len,
         NEW f, f = FirstAt(Bufs(S, l), off), NEW e, e = LastAt(Bufs(S, l), to)
  PROVE  Inv(CutOut(S, l, off, to, f, e))
<1> DEFINE b == Bufs(S, l)
           x == S.lists[l]
           t == Spliced(b, off, to, f, e)
           L == [bufs |-> t, len |-> Total(t), num |-> Len(t), dangling |-> x.dangling]
           T == CutOut(S, l, off, to, f, e)
<1>0. Sound(S) /\ Exact(S) BY DEF Inv
<1>1. x \in ListType /\ b \in Seq(Node) /\ x.bufs = b /\ \A n \in Els(b) : n \in AllNodes(S)
  BY <1>0, BufsTyped DEF Sound, Bufs
<1>2. OneCar(b) /\ x.num = Len(b) /\ x.len = Total(b) BY <1>0 DEF Sound, Chains, Exact
<1>3. /\ t \in Seq(Node) /\ OneCar(t)
      /\ Len(t) = Len(b) + Recount(b, off, to, f, e)
      /\ Total(t) = Total(b) + off - to
      /\ \A y \in Els(t) : /\ Within(y, Els(b))
                           /\ y.car => \E d \in Els(b) : d.car /\ d.raw = y.raw /\ End(d) = End(y)
      /\ f \in 1..Len(b) /\ Start(b, f) \in Nat
  <2>1. to <= Total(b) BY <1>2
  <2> HIDE DEF b, x
  <2>2. f = FirstAt(b, off) /\ e = LastAt(b, to) BY DEF b
  <2> QED BY <1>1, <1>2, <2>1, <2>2, SplicedIs
<1>4. T = [S EXCEPT !.lists[l] = [bufs |-> t, num |-> x.num + Recount(b, off, to, f, e),
                                  len |-> x.len + (off - Start(b, f)) - (to - Start(b, f)),
                                  dangling |-> x.dangling]]
  <2>1. T = [S EXCEPT !.lists[l] =
                [bufs |-> Spliced(x.bufs, off, to, f, e),
                 num |-> x.num + Recount(x.bufs, off, to, f, e),
                 len |-> x.len + (off - Start(x.bufs, f)) - (to - Start(x.bufs, f)),
                 dangling |-> x.dangling]]
    BY DEF CutOut
  <2>2. x.bufs = b BY <1>1
  <2> HIDE DEF T, x, b
  <2> QED BY <2>1, <2>2
<1> HIDE DEF t, b, T
<1>5. x.len + (off - Start(b, f)) - (to - Start(b, f)) = Total(t)
  <2> DEFINE s == Start(b, f)
             B == Total(b)
  <2>1. s \in Nat /\ B \in Nat /\ off \in Nat /\ to \in Nat BY <1>1, <1>3, TotalNat
  <2>2. x.len = B /\ Total(t) = B + off - to BY <1>2, <1>3
  <2> HIDE DEF s, B
  <2>3. B + (off - s) - (to - s) = B + off - to BY ONLY <2>1
  <2> QED BY <2>2, <2>3 DEF s
<1>6. T = [S EXCEPT !.lists[l] = L]
  <2>1. x.num + Recount(b, off, to, f, e) = Len(t) BY <1>2, <1>3
  <2> HIDE DEF x
  <2> QED BY <1>4, <1>5, <2>1
<1>7. L \in ListType /\ L.bufs = t /\ L.num = Len(L.bufs) /\ L.len = Total(L.bufs)
  <2>1. x.dangling \in BOOLEAN BY <1>1, ListFields
  <2>2. Total(t) \in Nat /\ Len(t) \in Nat BY <1>3, TotalNat
  <2> HIDE DEF x
  <2> QED BY <1>3, <2>1, <2>2 DEF ListType
<1>8. \A n \in Els(L.bufs) : Placed(S, n)
  BY <1>1, <1>3, <1>7 DEF Placed, Within
<1>9. \A c \in Els(L.bufs) : c.car => Heir(S, l, L.bufs, c)
  BY <1>3, <1>7 DEF Heir, b
<1> HIDE DEF L
<1>10. Inv(With(S, l, L))
  <2>1. OneCar(L.bufs) BY <1>3, <1>7
  <2> QED BY <1>7, <1>8, <1>9, <2>1, WithInv
<1>11. [S EXCEPT !.lists[l] = L] = With(S, l, L) BY <1>0, SetList DEF Sound
<1> QED BY <1>6, <1>10, <1>11 DEF T

(* splice() keeps the invariant of the list it cuts and of the one it       *)
(* gives the bytes to.                                                      *)
LEMMA SpliceIs ==
  ASSUME NEW S, Inv(S), NEW l \in Lists, NEW m \in Lists,
         NEW off \in Nat, NEW n \in Nat \ {0}, off + n <= S.lists[l].len
  PROVE  Inv(splice(S, l, off, n, m))
<1> DEFINE b == Bufs(S, l)
           ps == Parts(b, off, n)
           U == IF m = l THEN S ELSE append_ptrs(S, m, ps)
           to == off + n
           f == FirstAt(b, off)
           e == LastAt(b, to)
<1>1. splice(S, l, off, n, m) = CutOut(U, l, off, to, f, e) BY DEF splice
<1>2. Inv(U) /\ U.lists[l] = S.lists[l]
  <2>1. CASE m = l BY <2>1
  <2>2. CASE m # l
    <3> DEFINE W == append_ptrs(S, m, ps)
               k == Total(ps)
    <3>1. b \in Seq(Node) /\ off + n <= Total(b) BY BufsTyped DEF Inv, Sound, Exact
    <3>2. ps \in Seq(Node) /\ \A p \in Els(ps) : ~p.car /\ Within(p, Els(b))
      <4> HIDE DEF b
      <4> QED BY <3>1, PartsIs
    <3>3. U = W BY <2>2
    <3> HIDE DEF ps, U
    <3>4. Gains(S, W, m, k, k)
      <4>1. l # m BY <2>2
      <4> QED BY <3>2, <4>1, AppendPtrsIs DEF Inv
    <3>5. k \in Int BY <3>2, TotalNat
    <3> HIDE DEF W, k
    <3>6. Inv(W) BY <3>4, <3>5, GainsInv
    <3>7. W.lists[l] = S.lists[l] BY <2>2, <3>4 DEF Gains, Only
    <3> QED BY <3>3, <3>6, <3>7
  <2> QED BY <2>1, <2>2
<1>3. to \in Nat /\ off < to /\ to <= U.lists[l].len BY <1>2
<1> HIDE DEF U, to
<1>4. f = FirstAt(Bufs(U, l), off) /\ e = LastAt(Bufs(U, l), to) BY <1>2 DEF Bufs
<1> HIDE DEF f, e
<1>5. Inv(CutOut(U, l, off, to, f, e)) BY <1>2, <1>3, <1>4, CutOutIs
<1> QED BY <1>1, <1>5

-----------------------------------------------------------------------------
(* rebuild()                                                                 *)

(* What the nodes of a list hold is bytes.                                   *)
LEMMA DataIs ==
  ASSUME NEW S, Filled(S), NEW n \in Node, Fit(S, n)
  PROVE  Data(S, n) \in Seq(Byte)
<1> DEFINE d == S.raws[n.raw].data
<1>1. n.raw \in Raws /\ n.off \in Nat /\ n.len \in Nat BY DEF Node
<1>2. d \in Seq(Byte) /\ End(n) <= Len(d) /\ End(n) = n.off + n.len BY <1>1 DEF Filled, Fit, End
<1>3. Data(S, n) = SubSeq(d, n.off + 1, End(n)) BY DEF Data
<1> HIDE DEF d
<1> DEFINE o == n.off
           k == n.len
<1>4. o \in Nat /\ k \in Nat /\ End(n) = o + k BY <1>1, <1>2
<1> HIDE DEF o, k
<1>5. o + k <= Len(d) BY <1>2, <1>4
<1>6. \A i \in (o + 1)..(o + k) : d[i] \in Byte BY <1>2, <1>4, <1>5
<1>7. SubSeq(d, o + 1, o + k) \in Seq(Byte) BY <1>2, <1>4, <1>6, SubSeqProperties
<1> QED BY <1>3, <1>4, <1>7 DEF o

(* The bytes of a chain are bytes.                                          *)
LEMMA AllDataIs ==
  ASSUME NEW S, Filled(S), NEW bufs \in Seq(Node), \A n \in Els(bufs) : Fit(S, n)
  PROVE  AllData(S, bufs) \in Seq(Byte)
<1> DEFINE ss == [i \in DOMAIN bufs |-> Data(S, bufs[i])]
<1>1. DOMAIN bufs = 1..Len(bufs) /\ Len(bufs) \in Nat OBVIOUS
<1>2. ASSUME NEW i \in 1..Len(bufs) PROVE ss[i] \in Seq(Byte)
  <2>1. bufs[i] \in Node /\ Fit(S, bufs[i]) BY <1>1 DEF Els
  <2>2. Data(S, bufs[i]) \in Seq(Byte) BY <2>1, DataIs
  <2> QED BY <1>1, <2>2
<1>3. ss = [i \in 1..Len(bufs) |-> ss[i]] BY <1>1
<1>4. AllData(S, bufs) = FlattenSeq(ss) BY DEF AllData
<1> HIDE DEF ss
<1>5. ss \in Seq(Seq(Byte)) BY <1>1, <1>2, <1>3
<1> QED BY <1>4, <1>5, FlattenType

(* A raw that holds the bytes s, and nobody refers to.                       *)
LEMMA FilledRawIs ==
  ASSUME NEW S, Sound(S), Filled(S), Spare(S), NEW n \in Nat \ {0}, NEW base,
         NEW s \in Seq(Byte)
  PROVE  LET r == Unborn(S)
             T == Poke(Create(S, r, n, base), r, 0, s)
         IN  /\ r \in Raws /\ S.raws[r] = Dead /\ Fresh(S, r)
             /\ Sound(T) /\ Filled(T) /\ T.lists = S.lists /\ AllNodes(T) = AllNodes(S)
             /\ T.raws[r].len = n /\ \A x \in Raws \ {r} : T.raws[x] = S.raws[x]
<1> DEFINE r == Unborn(S)
           C == Create(S, r, n, base)
           T == Poke(C, r, 0, s)
<1>1. r \in Raws /\ S.raws[r] = Dead /\ Fresh(S, r) BY UnbornIs
<1> HIDE DEF r
<1>2. /\ Sound(C) /\ C.lists = S.lists /\ AllNodes(C) = AllNodes(S) /\ C.raws[r].len = n
      /\ Filled(C) /\ \A x \in Raws \ {r} : C.raws[x] = S.raws[x]
  BY <1>1, CreateIs
<1> HIDE DEF C
<1>3. /\ Sound(T) /\ T.lists = C.lists /\ AllNodes(T) = AllNodes(C) /\ Filled(T)
      /\ \A y \in Raws : T.raws[y].len = C.raws[y].len
      /\ \A x \in Raws \ {r} : T.raws[x] = C.raws[x]
  BY <1>1, <1>2, PokeIs
<1> HIDE DEF T
<1>4. T.raws[r].len = n BY <1>1, <1>2, <1>3
<1> QED BY <1>1, <1>2, <1>3, <1>4 DEF T, C, r

(* rebuild() leaves one carriage, in a raw of its own.                      *)
LEMMA RebuildIs ==
  ASSUME NEW S, Inv(S), NEW l \in Lists, Spare(S), NEW b
  PROVE  Inv(rebuild(S, l, b))
<1> DEFINE n == S.lists[l].len
           r == Unborn(S)
           base == IF n % PAGE = 0 THEN 0 ELSE b
           s == Contents(S, l)
           P == Poke(Create(S, r, n, base), r, 0, s)
           p == Ptr(r, 0, n, TRUE)
           L == [bufs |-> <<p>>, len |-> n, num |-> 1, dangling |-> FALSE]
<1>0. Sound(S) /\ Filled(S) /\ Exact(S) BY DEF Inv
<1>1. Bufs(S, l) \in Seq(Node) /\ n \in Nat
  <2>1. S.lists[l] \in ListType /\ Bufs(S, l) \in Seq(Node) BY <1>0, BufsTyped DEF Sound
  <2> QED BY <2>1, ListFields
<1>2. CASE n = 0 BY <1>2, ClearIs DEF rebuild, clear
<1>3. CASE n # 0
  <2>1. n \in Nat \ {0} BY <1>1, <1>3
  <2>2. s \in Seq(Byte)
    <3>1. s = AllData(S, Bufs(S, l)) BY DEF Contents, AllData, Bufs
    <3>2. \A y \in Els(Bufs(S, l)) : Fit(S, y) BY <1>0 DEF Sound, Chains
    <3> QED BY <1>0, <1>1, <3>1, <3>2, AllDataIs
  <2>3. rebuild(S, l, b) = RebuildInto(P, l, r) BY <1>3 DEF rebuild
  <2> HIDE DEF s, base, n
  <2>4. /\ r \in Raws /\ Fresh(S, r) /\ Sound(P) /\ Filled(P) /\ P.lists = S.lists
        /\ AllNodes(P) = AllNodes(S) /\ P.raws[r].len = n
    BY <1>0, <2>1, <2>2, FilledRawIs
  <2> HIDE DEF P, r
  <2>5. P.lists[l].len = n BY <2>4 DEF n
  <2>6. RebuildInto(P, l, r) = [P EXCEPT !.lists[l] = L] BY <2>5 DEF RebuildInto
  <2>7. Inv(P) BY <1>0, <2>4 DEF Inv, Exact, Bufs
  <2>8. p \in Node /\ p.car /\ p.raw = r /\ End(p) = n /\ p.len = n
    BY <2>1, <2>4 DEF Ptr, Node, End
  <2> HIDE DEF p
  <2>9. /\ <<p>> \in Seq(Node) /\ Len(<<p>>) = 1 /\ Els(<<p>>) = {p} /\ OneCar(<<p>>)
        /\ Total(<<p>>) = n
    BY <2>8, ElsOne, TotalOne
  <2>10. L \in ListType /\ L.bufs = <<p>> /\ L.num = Len(L.bufs) /\ L.len = Total(L.bufs)
    BY <2>1, <2>9 DEF ListType
  <2>11. Fresh(P, r) /\ Fit(P, p) BY <2>1, <2>4, <2>8 DEF Fresh, Fit
  <2>12. \A y \in Els(L.bufs) : Placed(P, y) BY <2>8, <2>9, <2>10, <2>11 DEF Placed
  <2>13. \A c \in Els(L.bufs) : c.car => Heir(P, l, L.bufs, c)
    <3>1. End(p) <= End(p) BY <2>1, <2>8
    <3> QED BY <2>8, <2>9, <2>10, <2>11, <3>1 DEF Heir
  <2> HIDE DEF L
  <2>14. Inv(With(P, l, L))
    <3>1. OneCar(L.bufs) BY <2>9, <2>10
    <3> QED BY <2>7, <2>10, <2>12, <2>13, <3>1, WithInv
  <2>15. [P EXCEPT !.lists[l] = L] = With(P, l, L) BY <2>7, SetList DEF Inv, Sound
  <2> QED BY <2>3, <2>6, <2>14, <2>15
<1> QED BY <1>2, <1>3

-----------------------------------------------------------------------------
(* rebuild_aligned()                                                         *)

(* The raws that are free, as Room() counts them.                            *)
Unused(S) == {r \in Raws : S.raws[r] = Dead}
Free(S)   == Cardinality(Unused(S))

(* While a raw is left, buffer::create() can take it.                       *)
LEMMA FreeIs ==
  ASSUME NEW S
  PROVE  Free(S) \in Nat /\ (Free(S) > 0 => Spare(S))
<1>1. IsFiniteSet(Unused(S)) BY BufferAssumption, FS_Subset DEF Unused
<1>2. Free(S) \in Nat /\ (Free(S) > 0 => Unused(S) # {}) BY <1>1, FS_CardinalityType, FS_EmptySet DEF Free
<1> QED BY <1>2 DEF Spare, Unused

(* Filling one of them leaves one less.                                      *)
LEMMA FreeLess ==
  ASSUME NEW S, NEW T, NEW r \in Raws, S.raws[r] = Dead, T.raws[r].len # 0,
         \A x \in Raws \ {r} : T.raws[x] = S.raws[x]
  PROVE  Free(T) = Free(S) - 1
<1>1. IsFiniteSet(Unused(S)) BY BufferAssumption, FS_Subset DEF Unused
<1>2. T.raws[r] # Dead BY DEF Dead
<1>3. Unused(T) = Unused(S) \ {r} BY <1>2 DEF Unused
<1>4. r \in Unused(S) BY DEF Unused
<1> QED BY <1>1, <1>3, <1>4, FS_RemoveElement DEF Free

(* What the loop has after the first i nodes: each of them is counted, and   *)
(* only a node that went through as it was can be the carriage.              *)
Stage(S, l, i, acc) ==
  /\ acc = [S |-> acc.S, out |-> acc.out, group |-> acc.group, num |-> acc.num]
  /\ Sound(acc.S) /\ Filled(acc.S) /\ acc.S.lists = S.lists
  /\ acc.out \in Seq(Node) /\ acc.group \in Seq(Node)
  /\ Els(acc.group) \subseteq Els(Bufs(S, l))
  /\ Total(acc.out) + Total(acc.group) = Start(Bufs(S, l), i + 1)
  /\ acc.num = Len(Bufs(S, l)) + Len(acc.out) - i
  /\ \A n \in Els(acc.out) : Placed(acc.S, n) /\ (n.car => n \in Els(Bufs(S, l)))
  /\ OneCar(acc.out) /\ (HasCar(acc.out) => \E k \in 1..i : Bufs(S, l)[k].car)

(* Replacing the nodes gathered so far by others with the same bytes.       *)
LEMMA EmitIs ==
  ASSUME NEW S, Sound(S), NEW l \in Lists, NEW i \in 0..Len(Bufs(S, l)), NEW acc,
         Stage(S, l, i, acc), NEW nodes \in Seq(Node), ~HasCar(nodes), OneCar(nodes),
         Total(nodes) = Total(acc.group), \A n \in Els(nodes) : ~n.car /\ Placed(acc.S, n)
  PROVE  Stage(S, l, i, Emit(acc, nodes)) /\ Emit(acc, nodes).group = <<>>
         /\ Emit(acc, nodes).S = acc.S
<1> DEFINE b == Bufs(S, l)
           o == acc.out
           t == o \o nodes
           T == Emit(acc, nodes)
<1>1. T = [S |-> acc.S, out |-> t, group |-> <<>>, num |-> acc.num + Len(nodes)]
  BY DEF Emit
<1>2. o \in Seq(Node) /\ OneCar(o) /\ acc.group \in Seq(Node) BY DEF Stage
<1>3. /\ t \in Seq(Node) /\ Len(t) = Len(o) + Len(nodes) /\ Els(t) = Els(o) \cup Els(nodes)
      /\ Total(t) = Total(o) + Total(nodes) /\ OneCar(t)
      /\ HasCar(t) => HasCar(o) \/ HasCar(nodes)
  <2> HIDE DEF o
  <2> QED BY <1>2, Join
<1> HIDE DEF t, T
<1>4. T.S = acc.S /\ T.out = t /\ T.group = <<>> /\ T.num = acc.num + Len(nodes)
      /\ T = [S |-> T.S, out |-> T.out, group |-> T.group, num |-> T.num]
  BY <1>1
<1>5. T.group \in Seq(Node) /\ Els(T.group) = {} /\ Total(T.group) = 0
  BY <1>4, ElsNone, TotalEmpty
<1>6. Total(T.out) + Total(T.group) = Start(b, i + 1)
  <2>1. Total(o) \in Nat /\ Total(nodes) \in Nat BY <1>2, TotalNat
  <2>2. Total(o) + Total(nodes) = Start(b, i + 1) BY DEF Stage
  <2> HIDE DEF b, o
  <2> QED BY <1>3, <1>4, <1>5, <2>1, <2>2
<1>7. T.num = Len(b) + Len(T.out) - i
  <2>1. acc.num = Len(b) + Len(o) - i BY DEF Stage
  <2> DEFINE B == Len(b)
             u == Len(o)
             v == Len(nodes)
  <2>2. B \in Nat /\ u \in Nat /\ v \in Nat /\ i \in Nat
    <3>1. b \in Seq(Node) BY BufsTyped DEF Sound
    <3> HIDE DEF b
    <3> QED BY <1>2, <3>1
  <2> HIDE DEF B, u, v
  <2>3. (B + u - i) + v = B + (u + v) - i BY ONLY <2>2
  <2> QED BY <1>3, <1>4, <2>1, <2>3 DEF B, u, v
<1>8. \A n \in Els(T.out) : Placed(T.S, n) /\ (n.car => n \in Els(b))
  <2>1. \A n \in Els(o) : Placed(acc.S, n) /\ (n.car => n \in Els(b)) BY DEF Stage
  <2> HIDE DEF o, b
  <2> QED BY <1>3, <1>4, <2>1
<1>9. HasCar(T.out) => \E k \in 1..i : b[k].car
  <2>1. HasCar(o) => \E k \in 1..i : b[k].car BY DEF Stage
  <2> HIDE DEF o, b
  <2> QED BY <1>3, <1>4, <2>1
<1>10. Sound(T.S) /\ Filled(T.S) /\ T.S.lists = S.lists BY <1>4 DEF Stage
<1>11. OneCar(T.out) /\ T.out \in Seq(Node) /\ Els(T.group) \subseteq Els(b) BY <1>3, <1>4, <1>5
<1>12. T = [S |-> T.S, out |-> T.out, group |-> T.group, num |-> T.num] BY <1>4
<1>13. Stage(S, l, i, T) BY <1>5, <1>6, <1>7, <1>8, <1>9, <1>10, <1>11, <1>12 DEF Stage
<1> QED BY <1>4, <1>13 DEF T

(* A new raw leaves the nodes placed as they were.                           *)
LEMMA AnotherRaw ==
  ASSUME NEW S, Sound(S), NEW l \in Lists, NEW i \in 0..Len(Bufs(S, l)), NEW acc,
         Stage(S, l, i, acc), NEW P, Sound(P), Filled(P), P.lists = acc.S.lists,
         NEW r \in Raws, acc.S.raws[r] = Dead,
         \A x \in Raws \ {r} : P.raws[x] = acc.S.raws[x]
  PROVE  LET T == [acc EXCEPT !.S = P]
         IN  Stage(S, l, i, T) /\ T.S = P /\ T.group = acc.group
<1> DEFINE T == [acc EXCEPT !.S = P]
<1>1. T = [S |-> P, out |-> acc.out, group |-> acc.group, num |-> acc.num]
  <2>1. acc = [S |-> acc.S, out |-> acc.out, group |-> acc.group, num |-> acc.num] BY DEF Stage
  <2> QED BY <2>1
<1> HIDE DEF T
<1>2. /\ T.S = P /\ T.out = acc.out /\ T.group = acc.group /\ T.num = acc.num
      /\ T = [S |-> T.S, out |-> T.out, group |-> T.group, num |-> T.num]
  BY <1>1
<1>3. AllNodes(P) = AllNodes(acc.S) BY DEF AllNodes, Bufs
<1>4. ASSUME NEW n \in Els(acc.out) PROVE Placed(P, n)
  <2>1. Placed(acc.S, n) BY DEF Stage
  <2>2. n.raw \in Raws
    <3>1. n \in Node BY DEF Stage, Els
    <3> QED BY <3>1 DEF Node
  <2>3. CASE Within(n, AllNodes(acc.S)) BY <1>3, <2>3 DEF Placed
  <2>4. CASE Fresh(acc.S, n.raw) /\ Fit(acc.S, n)
    <3>1. acc.S.raws[n.raw].len > 0 BY <2>4 DEF Fit
    <3>2. Dead.len = 0 BY DEF Dead
    <3>3. n.raw # r BY <3>1, <3>2
    <3>4. P.raws[n.raw] = acc.S.raws[n.raw] BY <2>2, <3>3
    <3> QED BY <1>3, <2>4, <3>4 DEF Placed, Fresh, Fit
  <2> QED BY <2>1, <2>3, <2>4 DEF Placed
<1>5. Stage(S, l, i, T)
  <2>1. P.lists = S.lists BY DEF Stage
  <2> QED BY <1>2, <1>4, <2>1 DEF Stage
<1> QED BY <1>2, <1>5 DEF T

(* The group of nodes to be copied is placed as one node.                    *)
LEMMA GatheredIs ==
  ASSUME NEW S, Sound(S), NEW l \in Lists, NEW i \in 0..Len(Bufs(S, l)), NEW acc,
         Stage(S, l, i, acc), Spare(acc.S), Total(acc.group) # 0
  PROVE  LET T == Gathered(acc)
         IN  Stage(S, l, i, T) /\ T.group = <<>> /\ Free(T.S) = Free(acc.S) - 1
<1> DEFINE A == acc.S
           g == acc.group
           n == Total(g)
           r == Unborn(A)
           s == AllData(A, g)
           P == Poke(Create(A, r, n, 0), r, 0, s)
           M == [acc EXCEPT !.S = P]
           p == Ptr(r, 0, n, FALSE)
           T == Gathered(acc)
<1>1. Sound(A) /\ Filled(A) /\ A.lists = S.lists /\ g \in Seq(Node) /\ Els(g) \subseteq Els(Bufs(S, l))
  BY DEF Stage
<1>2. n \in Nat \ {0} BY <1>1, TotalNat
<1>3. s \in Seq(Byte)
  <2>1. \A x \in Els(Bufs(A, l)) : Fit(A, x) BY <1>1 DEF Sound, Chains
  <2>2. Bufs(A, l) = Bufs(S, l) BY <1>1 DEF Bufs
  <2>3. \A x \in Els(g) : Fit(A, x) BY <1>1, <2>1, <2>2
  <2> HIDE DEF A, g
  <2> QED BY <1>1, <2>3, AllDataIs
<1>4. T = Emit(M, <<p>>) BY DEF Gathered
<1>40. Spare(A) OBVIOUS
<1> HIDE DEF s, n, A
<1>5. /\ r \in Raws /\ A.raws[r] = Dead /\ Fresh(A, r)
      /\ Sound(P) /\ Filled(P) /\ P.lists = A.lists /\ AllNodes(P) = AllNodes(A)
      /\ P.raws[r].len = n /\ \A x \in Raws \ {r} : P.raws[x] = A.raws[x]
  BY <1>1, <1>2, <1>3, <1>40, FilledRawIs
<1>50. A = acc.S BY DEF A
<1> HIDE DEF P, r, T
<1>6. Stage(S, l, i, M) /\ M.S = P /\ M.group = g BY <1>5, <1>50, AnotherRaw
<1> HIDE DEF M, g
<1>7. p \in Node /\ ~p.car /\ p.raw = r /\ End(p) = n /\ p.len = n BY <1>2, <1>5 DEF Ptr, Node, End
<1> HIDE DEF p
<1>8. /\ <<p>> \in Seq(Node) /\ Els(<<p>>) = {p} /\ OneCar(<<p>>) /\ ~HasCar(<<p>>)
      /\ Total(<<p>>) = Total(M.group)
  <2>1. Total(<<p>>) = n BY <1>7, TotalOne
  <2>2. n = Total(M.group) BY <1>6 DEF n
  <2> QED BY <1>7, <2>1, <2>2, ElsOne
<1>9. \A y \in Els(<<p>>) : ~y.car /\ Placed(M.S, y)
  <2>1. Fresh(P, r) BY <1>5 DEF Fresh
  <2>2. Fit(P, p) BY <1>2, <1>5, <1>7 DEF Fit
  <2> QED BY <1>6, <1>7, <1>8, <2>1, <2>2 DEF Placed
<1>10. Stage(S, l, i, T) /\ T.group = <<>> /\ T.S = P BY <1>4, <1>6, <1>8, <1>9, EmitIs
<1>11. Free(P) = Free(A) - 1
  <2>1. P.raws[r].len # 0 BY <1>2, <1>5
  <2> QED BY <1>5, <2>1, FreeLess
<1> QED BY <1>10, <1>11, <1>50 DEF T

(* Leaving a run of unfit nodes: one raw more at most, and only if the run  *)
(* is not empty.                                                            *)
LEMMA ConsolidateIs ==
  ASSUME NEW S, Sound(S), NEW l \in Lists, NEW i \in 0..Len(Bufs(S, l)), NEW acc,
         Stage(S, l, i, acc), acc.group # <<>> => Spare(acc.S)
  PROVE  LET T == Consolidate(acc)
         IN  /\ Stage(S, l, i, T) /\ T.group = <<>>
             /\ Free(T.S) = Free(acc.S) \/ (acc.group # <<>> /\ Free(T.S) = Free(acc.S) - 1)
<1> DEFINE T == Consolidate(acc)
           g == acc.group
<1>1. /\ Sound(acc.S) /\ acc.S.lists = S.lists /\ g \in Seq(Node)
      /\ Els(g) \subseteq Els(Bufs(S, l))
  BY DEF Stage
<1>2. CASE Single(acc)
  <2> DEFINE u == Uncrowned(g)
  <2>1. T = Emit(acc, u) BY <1>2 DEF Consolidate
  <2>2. /\ u \in Seq(Node) /\ ~HasCar(u) /\ OneCar(u) /\ Total(u) = Total(g)
        /\ \A x \in Els(u) : \E m \in Els(g) : x = Copy(m)
    <3> HIDE DEF g
    <3> QED BY <1>1, UncrownedIs
  <2>3. ASSUME NEW x \in Els(u) PROVE ~x.car /\ Placed(acc.S, x)
    <3>1. PICK m \in Els(g) : x = Copy(m) BY <2>2
    <3>2. m \in Els(Bufs(acc.S, l)) BY <1>1, <3>1 DEF Bufs
    <3>3. m \in Node /\ m \in AllNodes(acc.S) BY <1>1, <3>2, BufsTyped DEF Sound
    <3>4. x.raw = m.raw /\ ~x.car /\ End(x) = End(m) BY <3>1, <3>3 DEF Copy, End, Node
    <3>5. End(m) \in Nat BY <3>3, EndNat
    <3>6. End(x) <= End(m) BY <3>4, <3>5
    <3> QED BY <3>3, <3>4, <3>6 DEF Placed, Within
  <2> HIDE DEF u, T
  <2>4. Stage(S, l, i, T) /\ T.group = <<>> /\ T.S = acc.S BY <2>1, <2>2, <2>3, EmitIs
  <2> QED BY <2>4 DEF T
<1>3. CASE ~Single(acc) /\ Total(g) = 0
  <2> DEFINE e == <<>>
  <2>1. T = Emit(acc, e) BY <1>3 DEF Consolidate
  <2>2. /\ e \in Seq(Node) /\ ~HasCar(e) /\ OneCar(e) /\ Total(e) = Total(g) /\ Els(e) = {}
    BY <1>3, ElsNone, TotalEmpty
  <2> HIDE DEF e, T
  <2>3. Stage(S, l, i, T) /\ T.group = <<>> /\ T.S = acc.S BY <2>1, <2>2, EmitIs
  <2> QED BY <2>3 DEF T
<1>4. CASE ~Single(acc) /\ Total(g) # 0
  <2>1. T = Gathered(acc) BY <1>4 DEF Consolidate
  <2>2. g # <<>> BY <1>4, TotalEmpty
  <2> HIDE DEF T
  <2>3. Stage(S, l, i, T) /\ T.group = <<>> /\ Free(T.S) = Free(acc.S) - 1
    BY <1>4, <2>1, <2>2, GatheredIs
  <2> QED BY <2>2, <2>3 DEF T
<1> QED BY <1>2, <1>3, <1>4

(* There are raws left for the nodes that are still to come: a copy takes a  *)
(* node that is not fit, and the fit node behind it.                         *)
Enough(acc, i, N) == 2 * Free(acc.S) + i >= N + (IF acc.group = <<>> THEN 0 ELSE 1)

(* One node of the loop of rebuild_aligned_size_and_memory(): a raw is      *)
(* left for each run still to come.                                         *)
LEMMA VisitIs ==
  ASSUME NEW S, Sound(S), NEW l \in Lists, NEW N, N = Len(Bufs(S, l)), NEW i \in 0..(N - 1),
         NEW acc, Stage(S, l, i, acc), Enough(acc, i, N)
  PROVE  LET T == Visit(acc, Bufs(S, l)[i + 1])
         IN  Stage(S, l, i + 1, T) /\ Enough(T, i + 1, N)
<1> DEFINE b == Bufs(S, l)
           n == b[i + 1]
           T == Visit(acc, n)
           s == Start(b, i + 1)
<1>0. b \in Seq(Node) /\ OneCar(b) /\ N \in Nat /\ (\A x \in Els(b) : x \in Node /\ x \in AllNodes(S))
  <2>1. b \in Seq(Node) /\ \A x \in Els(b) : x \in Node /\ x \in AllNodes(S) BY BufsTyped DEF Sound
  <2> QED BY <2>1 DEF Sound, Chains
<1>1. i \in Nat /\ i + 1 \in 1..N /\ i + 1 \in 1..(N + 1) /\ (i + 1) + 1 = i + 2 /\ i \in 0..N
      /\ i + 1 \in 0..N
  BY <1>0
<1>2. n \in Node /\ n \in Els(b) /\ DOMAIN b = 1..N
  <2>1. DOMAIN b = 1..N BY <1>0
  <2> QED BY <1>0, <1>1, <2>1 DEF Els
<1>3. Start(b, (i + 1) + 1) = s + n.len /\ s \in Nat /\ n.len \in Nat
  <2>1. N = Len(b) OBVIOUS
  <2>2. n.len \in Nat BY <1>2 DEF Node
  <2> HIDE DEF b
  <2> QED BY <1>0, <1>1, <2>1, <2>2, StartStep
<1>30. Free(acc.S) \in Nat /\ (Free(acc.S) > 0 => Spare(acc.S)) BY FreeIs
<1> DEFINE fr == Free(acc.S)
<1>31. 2 * fr + i >= N + (IF acc.group = <<>> THEN 0 ELSE 1) BY DEF Enough
<1>32. fr \in Nat BY <1>30
<1>4. CASE IsFit(acc.S, n) /\ Total(acc.group) % PAGE = 0
  <2> DEFINE C == Consolidate(acc)
             o == Append(C.out, n)
  <2>1. T = [C EXCEPT !.out = o] BY <1>4 DEF Visit
  <2> HIDE DEF T, C, n, b, s
  <2>2. acc.group # <<>> => Spare(acc.S)
    <3>1. acc.group # <<>> => fr > 0
      <4> HIDE DEF fr
      <4> QED BY ONLY <1>0, <1>1, <1>31, <1>32, i \in 0..(N - 1)
    <3> QED BY <1>30, <3>1
  <2>3. /\ Stage(S, l, i, C) /\ C.group = <<>>
        /\ Free(C.S) = fr \/ (acc.group # <<>> /\ Free(C.S) = fr - 1)
    <3>1. i \in 0..Len(Bufs(S, l)) BY <1>1
    <3> QED BY <2>2, <3>1, ConsolidateIs DEF C
  <2>4. T = [S |-> C.S, out |-> o, group |-> C.group, num |-> C.num]
    <3>1. C = [S |-> C.S, out |-> C.out, group |-> C.group, num |-> C.num] BY <2>3 DEF Stage
    <3> HIDE DEF o
    <3> QED BY <2>1, <3>1
  <2>5. C.out \in Seq(Node) /\ OneCar(C.out) /\ (HasCar(C.out) => \E k \in 1..i : b[k].car)
    BY <2>3 DEF Stage, b
  <2>6. ~(HasCar(C.out) /\ n.car)
    <3>1. \A k \in 1..i : k \in DOMAIN b /\ k # i + 1 BY <1>0, <1>1, <1>2
    <3>2. i + 1 \in DOMAIN b BY <1>1, <1>2
    <3> QED BY <1>0, <2>5, <3>1, <3>2 DEF OneCar, n
  <2>7. /\ o \in Seq(Node) /\ Len(o) = Len(C.out) + 1 /\ Els(o) = Els(C.out) \cup {n}
        /\ OneCar(o) /\ (HasCar(o) <=> HasCar(C.out) \/ n.car)
    BY <1>2, <2>5, <2>6, ElsAppend
  <2>8. Total(o) = Total(C.out) + n.len BY <1>2, <2>5, TotalAppend
  <2> HIDE DEF o
  <2>9. /\ T.S = C.S /\ T.out = o /\ T.group = C.group /\ T.num = C.num
        /\ T = [S |-> T.S, out |-> T.out, group |-> T.group, num |-> T.num]
    BY <2>4
  <2>10. Total(T.out) + Total(T.group) = Start(b, (i + 1) + 1)
    <3> DEFINE u == Total(C.out)
               v == Total(C.group)
               w == n.len
    <3>1. u + v = s BY <2>3 DEF Stage, s, b
    <3>2. u \in Nat /\ v \in Nat /\ w \in Nat BY <1>3, <2>3, TotalNat DEF Stage
    <3> HIDE DEF u, v, w
    <3>3. (u + w) + v = s + w BY ONLY <3>1, <3>2
    <3> QED BY <1>3, <2>8, <2>9, <3>3 DEF u, v, w
  <2>11. T.num = Len(b) + Len(T.out) - (i + 1)
    <3> DEFINE u == Len(C.out)
    <3>1. C.num = N + u - i /\ N = Len(b) BY <2>3 DEF Stage, b
    <3>2. u \in Nat BY <2>5
    <3> HIDE DEF u
    <3>3. N + u - i = N + (u + 1) - (i + 1) BY ONLY <1>0, <1>1, <3>2
    <3> QED BY <2>7, <2>9, <3>1, <3>3 DEF u
  <2>12. \A x \in Els(T.out) : Placed(T.S, x) /\ (x.car => x \in Els(b))
    <3>1. Sound(C.S) /\ C.S.lists = S.lists BY <2>3 DEF Stage
    <3>2. AllNodes(C.S) = AllNodes(S) BY <3>1 DEF AllNodes, Bufs
    <3>3. Placed(C.S, n) BY <1>0, <1>2, <3>1, <3>2, NodeStays
    <3>4. \A x \in Els(C.out) : Placed(C.S, x) /\ (x.car => x \in Els(b)) BY <2>3 DEF Stage, b
    <3> QED BY <1>2, <2>7, <2>9, <3>3, <3>4
  <2>13. HasCar(T.out) => \E k \in 1..(i + 1) : b[k].car
    <3>1. i + 1 \in 1..(i + 1) /\ \A k \in 1..i : k \in 1..(i + 1) BY <1>1
    <3>2. n.car => b[i + 1].car BY DEF n
    <3> QED BY <2>5, <2>7, <2>9, <3>1, <3>2
  <2>14. Sound(T.S) /\ Filled(T.S) /\ T.S.lists = S.lists /\ T.group \in Seq(Node) /\ Els(T.group) \subseteq Els(b)
    BY <2>3, <2>9 DEF Stage, b
  <2>15. Stage(S, l, i + 1, T) BY <2>7, <2>9, <2>10, <2>11, <2>12, <2>13, <2>14 DEF Stage, b
  <2>16. Enough(T, i + 1, N)
    <3> DEFINE y == Free(C.S)
    <3>1. y = fr \/ (acc.group # <<>> /\ y = fr - 1) BY <2>3
    <3> HIDE DEF y, fr
    <3>2. 2 * y + (i + 1) >= N + 0 BY ONLY <1>0, <1>1, <1>31, <1>32, <3>1
    <3> QED BY <2>3, <2>9, <3>2 DEF Enough, y
  <2> QED BY <2>15, <2>16 DEF T, n, b
<1>5. CASE ~(IsFit(acc.S, n) /\ Total(acc.group) % PAGE = 0)
  <2> DEFINE g == Append(acc.group, n)
  <2>1. T = [S |-> acc.S, out |-> acc.out, group |-> g, num |-> acc.num - 1] BY <1>5 DEF Visit
  <2> HIDE DEF T, n, b, s
  <2>2. acc.group \in Seq(Node) /\ Els(acc.group) \subseteq Els(b) BY DEF Stage, b
  <2>3. g \in Seq(Node) /\ Len(g) = Len(acc.group) + 1 /\ Els(g) = Els(acc.group) \cup {n}
    BY <1>2, <2>2, ElsAppend
  <2>4. Total(g) = Total(acc.group) + n.len BY <1>2, <2>2, TotalAppend
  <2> HIDE DEF g
  <2>5. /\ T.S = acc.S /\ T.out = acc.out /\ T.group = g /\ T.num = acc.num - 1
        /\ T = [S |-> T.S, out |-> T.out, group |-> T.group, num |-> T.num]
    BY <2>1
  <2>6. Total(T.out) + Total(T.group) = Start(b, (i + 1) + 1)
    <3> DEFINE u == Total(acc.out)
               v == Total(acc.group)
               w == n.len
    <3>1. u + v = s BY DEF Stage, s, b
    <3>2. u \in Nat /\ v \in Nat /\ w \in Nat BY <1>3, TotalNat DEF Stage
    <3> HIDE DEF u, v, w
    <3>3. u + (v + w) = s + w BY ONLY <3>1, <3>2
    <3> QED BY <1>3, <2>4, <2>5, <3>3 DEF u, v, w
  <2>7. T.num = Len(b) + Len(T.out) - (i + 1)
    <3> DEFINE u == Len(acc.out)
    <3>1. acc.num = N + u - i /\ N = Len(b) BY DEF Stage, b
    <3>2. u \in Nat BY DEF Stage
    <3> HIDE DEF u
    <3>3. (N + u - i) - 1 = N + u - (i + 1) BY ONLY <1>0, <1>1, <3>2
    <3> QED BY <2>5, <3>1, <3>3 DEF u
  <2>8. HasCar(T.out) => \E k \in 1..(i + 1) : b[k].car
    <3>1. \A k \in 1..i : k \in 1..(i + 1) BY <1>1
    <3>2. HasCar(acc.out) => \E k \in 1..i : b[k].car BY DEF Stage, b
    <3> QED BY <2>5, <3>1, <3>2
  <2>9. /\ Sound(T.S) /\ Filled(T.S) /\ T.S.lists = S.lists /\ T.out \in Seq(Node) /\ OneCar(T.out)
        /\ \A x \in Els(T.out) : Placed(T.S, x) /\ (x.car => x \in Els(b))
    BY <2>5 DEF Stage, b
  <2>10. T.group \in Seq(Node) /\ Els(T.group) \subseteq Els(b) BY <1>2, <2>2, <2>3, <2>5
  <2>11. Stage(S, l, i + 1, T) BY <2>5, <2>6, <2>7, <2>8, <2>9, <2>10 DEF Stage, b
  <2>12. Enough(T, i + 1, N)
    <3>1. T.group # <<>> BY <2>2, <2>3, <2>5
    <3> HIDE DEF fr
    <3>2. N + (IF acc.group = <<>> THEN 0 ELSE 1) >= N BY <1>0
    <3>3. 2 * fr + i >= N BY ONLY <1>0, <1>1, <1>31, <1>32, <3>2
    <3>4. 2 * fr + (i + 1) >= N + 1 BY ONLY <1>0, <1>1, <1>32, <3>3
    <3> QED BY <2>5, <3>1, <3>4 DEF Enough, fr
  <2> QED BY <2>11, <2>12 DEF T, n, b
<1> QED BY <1>4, <1>5

Rebuilding == INSTANCE FoldLoop WITH Op <- Visit

(* Every node went through the loop and the last group was emitted.          *)
LEMMA AlignedIs ==
  ASSUME NEW S, Sound(S), Filled(S), NEW l \in Lists, 2 * Free(S) >= Len(Bufs(S, l))
  PROVE  LET A == Aligned(S, l)
         IN  Stage(S, l, Len(Bufs(S, l)), A) /\ A.group = <<>>
<1> DEFINE b == Bufs(S, l)
           N == Len(b)
           d == [S |-> S, out |-> <<>>, group |-> <<>>, num |-> S.lists[l].num]
           R == Rebuilding!Folded(d, b)
           A == Aligned(S, l)
<1>0. b \in Seq(Node) /\ S.lists[l].num = N BY BufsTyped DEF Sound, Chains
<1>1. DOMAIN b = 1..N /\ N \in Nat BY <1>0
<1>2. A = Consolidate(R)
  BY Zenon DEF Aligned, Rebuilding!Folded, FoldLeft, Rebuilding!FoldLeft, MapThenFoldSet,
               Rebuilding!MapThenFoldSet, Max, Rebuilding!Max
<1>20. R = Rebuilding!Folded(d, b) OBVIOUS
<1>21. Stage(S, l, 0, d)
  <2> DEFINE e == <<>>
  <2>1. /\ e \in Seq(Node) /\ Len(e) = 0 /\ Els(e) = {} /\ OneCar(e) /\ ~HasCar(e) /\ Total(e) = 0
    BY ElsNone, TotalEmpty
  <2>2. d.S = S /\ d.out = e /\ d.group = e /\ d.num = S.lists[l].num
        /\ d = [S |-> d.S, out |-> d.out, group |-> d.group, num |-> d.num]
    OBVIOUS
  <2>3. Start(b, 0 + 1) = 0
    <3> HIDE DEF b
    <3> QED BY <1>0, StartStep
  <2>4. N = N + 0 - 0 /\ 0 + 0 = 0 BY <1>1
  <2>5. Total(d.out) + Total(d.group) = Start(b, 0 + 1) BY <2>1, <2>2, <2>3
  <2>6. d.num = Len(b) + Len(d.out) - 0 BY <1>0, <2>1, <2>2, <2>4
  <2> HIDE DEF e, d
  <2> QED BY <2>1, <2>2, <2>5, <2>6 DEF Stage
<1>22. Enough(d, 0, N)
  <2>1. Free(S) \in Nat BY FreeIs
  <2>2. d.S = S /\ d.group = <<>> OBVIOUS
  <2>3. 2 * Free(S) >= N OBVIOUS
  <2> DEFINE fr == Free(S)
  <2> HIDE DEF fr, N, d
  <2>4. 2 * fr + 0 >= N + 0 BY <1>1, <2>1, <2>3 DEF fr
  <2> QED BY <2>2, <2>4 DEF Enough, fr
<1> HIDE DEF d, R, A
<1>3. PICK st : /\ st[0] = d
                /\ \A i \in 1..N : st[i] = Visit(st[i - 1], b[i])
                /\ R = st[N]
  <2> HIDE DEF N, b
  <2> QED BY <1>1, <1>20, Rebuilding!FoldSteps, SMTT(60)
<1> DEFINE Good(i) == Stage(S, l, i, st[i]) /\ Enough(st[i], i, N)
           P == {i \in 0..N : Good(i)}
<1>4. 0 \in P BY <1>1, <1>3, <1>21, <1>22
<1>5. ASSUME NEW i \in 0..(N - 1), i \in P PROVE i + 1 \in P
  <2>1. i + 1 \in 1..N /\ (i + 1) - 1 = i /\ i + 1 \in 0..N BY <1>1
  <2>2. st[i + 1] = Visit(st[i], b[i + 1]) BY <1>3, <2>1
  <2>3. Stage(S, l, i, st[i]) /\ Enough(st[i], i, N) BY <1>5
  <2> DEFINE acc == st[i]
             T == Visit(acc, b[i + 1])
  <2>4. Stage(S, l, i, acc) /\ Enough(acc, i, N) BY <2>3
  <2> HIDE DEF acc
  <2>5. Stage(S, l, i + 1, T) /\ Enough(T, i + 1, N) BY <2>4, VisitIs
  <2>6. Good(i + 1) BY <2>2, <2>5 DEF acc
  <2> QED BY <2>1, <2>6
<1> HIDE DEF P
<1>6. \A i \in 0..N : i \in P BY <1>1, <1>4, <1>5, LoopInduction
<1>7. Stage(S, l, N, R) /\ Enough(R, N, N) BY <1>1, <1>3, <1>6 DEF P
<1>8. R.group # <<>> => Spare(R.S)
  <2>1. Free(R.S) \in Nat /\ (Free(R.S) > 0 => Spare(R.S)) BY FreeIs
  <2> DEFINE fr == Free(R.S)
  <2>2. R.group # <<>> => 2 * fr + N >= N + 1 BY <1>7 DEF Enough
  <2>3. fr \in Nat BY <2>1
  <2> HIDE DEF fr, N
  <2>4. R.group # <<>> => fr > 0 BY <1>1, <2>2, <2>3
  <2> QED BY <2>1, <2>4 DEF fr
<1>9. N \in 0..N BY <1>1
<1>10. Stage(S, l, N, A) /\ A.group = <<>> BY <1>2, <1>7, <1>8, <1>9, ConsolidateIs
<1> QED BY <1>10 DEF A

(* The whole loop: rebuild_aligned_size_and_memory() keeps the invariant,   *)
(* with a carriage or without.                                              *)
LEMMA RebuildAlignedIs ==
  ASSUME NEW S, Inv(S), NEW l \in Lists, 2 * Free(S) >= Len(Bufs(S, l))
  PROVE  Inv(rebuild_aligned(S, l))
<1> DEFINE b == Bufs(S, l)
           x == S.lists[l]
           A == Aligned(S, l)
           U == A.S
           o == A.out
           lost == HasCarriage(S, l) /\ \A k \in DOMAIN o : ~o[k].car
           L == [bufs |-> o, len |-> Total(o), num |-> Len(o), dangling |-> x.dangling \/ lost]
           T == rebuild_aligned(S, l)
<1>0. Sound(S) /\ Filled(S) /\ Exact(S) BY DEF Inv
<1>1. Stage(S, l, Len(b), A) /\ A.group = <<>> BY <1>0, AlignedIs
<1>2. x \in ListType /\ b \in Seq(Node) /\ x.len = Total(b) /\ x.dangling \in BOOLEAN
      /\ \A y \in Els(b) : y \in AllNodes(S)
  <2>1. x \in ListType /\ b \in Seq(Node) /\ x.len = Total(b) /\ \A y \in Els(b) : y \in AllNodes(S)
    BY <1>0, BufsTyped DEF Sound, Exact
  <2> HIDE DEF b
  <2> QED BY <2>1, ListFields
<1> HIDE DEF A
<1>3. /\ Sound(U) /\ Filled(U) /\ U.lists = S.lists /\ o \in Seq(Node) /\ OneCar(o)
      /\ \A n \in Els(o) : Placed(U, n) /\ (n.car => n \in Els(b))
  BY <1>1 DEF Stage
<1>4. A.num = Len(o) /\ Total(o) = x.len
  <2>1. A.num = Len(b) + Len(o) - Len(b) BY <1>1 DEF Stage
  <2>2. Total(o) + Total(A.group) = Start(b, Len(b) + 1) BY <1>1 DEF Stage
  <2>3. Start(b, Len(b) + 1) = Total(b)
    <3> HIDE DEF b
    <3> QED BY <1>2, StartStep
  <2>4. Total(A.group) = 0 BY <1>1, TotalEmpty
  <2>5. Total(o) \in Nat BY <1>3, TotalNat
  <2>6. Len(b) \in Nat /\ Len(o) \in Nat BY <1>2, <1>3
  <2> DEFINE u == Len(b)
             v == Len(o)
             w == Total(o)
  <2>7. u \in Nat /\ v \in Nat /\ w \in Nat BY <2>5, <2>6
  <2> HIDE DEF u, v, w
  <2>8. u + v - u = v /\ w + 0 = w BY ONLY <2>7
  <2> QED BY <1>2, <2>1, <2>2, <2>3, <2>4, <2>8 DEF u, v, w
<1>5. T = [U EXCEPT !.lists[l] = L]
  <2>1. T = [U EXCEPT !.lists[l] = [bufs |-> o, len |-> U.lists[l].len, num |-> A.num,
                                    dangling |-> U.lists[l].dangling \/ lost]]
    BY DEF rebuild_aligned, Realigned, A
  <2>2. U.lists[l] = x BY <1>3
  <2> HIDE DEF T, U, o, x, lost
  <2> QED BY <1>4, <2>1, <2>2
<1>6. L \in ListType /\ L.bufs = o /\ L.num = Len(L.bufs) /\ L.len = Total(L.bufs)
  <2>1. lost \in BOOLEAN OBVIOUS
  <2>2. Total(o) \in Nat /\ Len(o) \in Nat BY <1>3, TotalNat
  <2> DEFINE dd == x.dangling \/ lost
  <2>3. dd \in BOOLEAN BY <1>2
  <2>4. L = [bufs |-> o, len |-> Total(o), num |-> Len(o), dangling |-> dd] OBVIOUS
  <2> HIDE DEF o, dd, L
  <2> QED BY <1>3, <2>2, <2>3, <2>4 DEF ListType
<1>7. Inv(U)
  <2>1. Exact(U) BY <1>0, <1>3 DEF Exact, Bufs
  <2> QED BY <1>3, <2>1 DEF Inv
<1>8. \A n \in Els(L.bufs) : Placed(U, n) BY <1>3, <1>6
<1>9. ASSUME NEW c \in Els(L.bufs), c.car PROVE Heir(U, l, L.bufs, c)
  <2>1. c \in Els(Bufs(U, l)) BY <1>3, <1>6, <1>9 DEF Bufs
  <2> QED BY <1>9, <2>1 DEF Heir
<1> HIDE DEF L, T, U
<1>10. Inv(With(U, l, L))
  <2>1. OneCar(L.bufs) BY <1>3, <1>6
  <2> QED BY <1>6, <1>7, <1>8, <1>9, <2>1, WithInv
<1>11. [U EXCEPT !.lists[l] = L] = With(U, l, L) BY <1>7, SetList DEF Inv, Sound
<1> QED BY <1>5, <1>10, <1>11 DEF T

-----------------------------------------------------------------------------
(* Writing in place                                                          *)

(* The cache of a raw is no part of what lists are made of.                  *)
CrcSet(S, r, c) == [S EXCEPT !.raws[r].crc = c]

(* A cached CRC is no node.                                                 *)
LEMMA CrcSetIs ==
  ASSUME NEW S, Inv(S), NEW r \in Raws, NEW c
  PROVE  LET T == CrcSet(S, r, c) IN Inv(T) /\ T.lists = S.lists
<1> DEFINE T == CrcSet(S, r, c)
           x == S.raws[r]
           new == [len |-> x.len, base |-> x.base, data |-> x.data, crc |-> c]
<1>0. Sound(S) /\ Filled(S) /\ Exact(S) /\ Shape(S) BY DEF Inv, Sound
<1>1. RawShape(x) BY <1>0 DEF Shape
<1>2. T = [raws |-> [S.raws EXCEPT ![r] = new], lists |-> S.lists]
  BY <1>0, <1>1 DEF CrcSet, Shape, RawShape
<1> HIDE DEF T
<1>3. /\ T.lists = S.lists /\ T.raws[r] = new
      /\ \A y \in Raws \ {r} : T.raws[y] = S.raws[y]
      /\ T.raws = [y \in Raws |-> T.raws[y]]
  BY <1>0, <1>2 DEF Shape
<1>4. RawShape(new) /\ new.len = x.len /\ new.data = x.data BY <1>1 DEF RawShape
<1> HIDE DEF new
<1>5. Shape(T) BY <1>0, <1>2, <1>3, <1>4 DEF Shape
<1>6. \A y \in Raws : T.raws[y].len = S.raws[y].len /\ T.raws[y].data = S.raws[y].data
  BY <1>3, <1>4
<1>7. \A n \in AllNodes(S) : n.raw \in Raws BY DEF AllNodes, Node
<1>8. Sound(T) BY <1>0, <1>3, <1>5, <1>6, <1>7, Reraw
<1>9. Filled(T) BY <1>0, <1>6 DEF Filled
<1>10. Exact(T) BY <1>0, <1>3 DEF Exact, Bufs
<1> QED BY <1>3, <1>8, <1>9, <1>10 DEF Inv, T

(* Writing bytes inside a raw keeps the invariant.                          *)
LEMMA PokeInv ==
  ASSUME NEW S, Inv(S), NEW r \in Raws, NEW off \in Nat, NEW s \in Seq(Byte)
  PROVE  LET T == Poke(S, r, off, s) IN Inv(T) /\ T.lists = S.lists
<1> DEFINE T == Poke(S, r, off, s)
<1>1. Sound(T) /\ Filled(T) /\ T.lists = S.lists BY PokeIs DEF Inv
<1> HIDE DEF T
<1>2. Exact(T) BY <1>1 DEF Inv, Exact, Bufs
<1> QED BY <1>1, <1>2 DEF Inv, T

(* One node takes as many bytes as it is long from what is to be written.    *)
LEMMA CopyIntoIs ==
  ASSUME NEW S, Inv(S), NEW s \in Seq(Byte), NEW n \in Node, n.len <= Len(s)
  PROVE  \E T, t : /\ CopyInto([S |-> S, s |-> s], n) = [S |-> T, s |-> t]
                   /\ Inv(T) /\ T.lists = S.lists /\ t \in Seq(Byte) /\ Len(t) = Len(s) - n.len
<1> DEFINE k == n.len
           I == CrcSet(S, n.raw, NoCrc)
           h == SubSeq(s, 1, k)
           t == SubSeq(s, k + 1, Len(s))
           T == Poke(I, n.raw, n.off, h)
<1>1. n.raw \in Raws /\ n.off \in Nat /\ k \in Nat BY DEF Node
<1>2. CASE k = 0
  <2>1. CopyInto([S |-> S, s |-> s], n) = [S |-> S, s |-> s] BY <1>2 DEF CopyInto
  <2>2. Len(s) = Len(s) - n.len BY <1>2
  <2> QED BY <2>1, <2>2
<1>3. CASE k # 0
  <2>1. CopyInto([S |-> S, s |-> s], n) = [S |-> T, s |-> t]
    BY <1>3 DEF CopyInto, CrcSet, invalidate_crc
  <2>2. h \in Seq(Byte)
    <3>1. k <= Len(s) OBVIOUS
    <3> HIDE DEF k
    <3> QED BY <1>1, <3>1, SubSeqProperties
  <2>3. t \in Seq(Byte) /\ Len(t) = Len(s) - k
    <3>1. k <= Len(s) OBVIOUS
    <3> HIDE DEF k
    <3>2. k + 1 \in 1..(Len(s) + 1) /\ Len(s) - (k + 1) + 1 = Len(s) - k BY <1>1, <3>1
    <3>3. \A i \in (k + 1)..Len(s) : s[i] \in Byte BY <1>1, <3>1
    <3> QED BY <1>1, <3>1, <3>2, <3>3, SubSeqProperties
  <2>4. Inv(I) /\ I.lists = S.lists BY <1>1, CrcSetIs
  <2> HIDE DEF h, t, I
  <2>5. Inv(T) /\ T.lists = I.lists BY <1>1, <2>2, <2>4, PokeInv
  <2> QED BY <2>1, <2>3, <2>4, <2>5
<1> QED BY <1>2, <1>3

Writing == INSTANCE FoldLoop WITH Op <- CopyInto

(* The bytes that are still to be written are those for the nodes to come.   *)
WriteStage(S, ps, i, acc) ==
  \E X, t : /\ acc = [S |-> X, s |-> t] /\ Inv(X) /\ X.lists = S.lists
            /\ t \in Seq(Byte) /\ Len(t) = Total(ps) - Start(ps, i + 1)

(* iterator::copy_in() writes over the nodes and changes none.              *)
LEMMA CopyInIs ==
  ASSUME NEW S, Inv(S), NEW l \in Lists, NEW off \in Nat, NEW s \in Seq(Byte), s # <<>>,
         off + Len(s) <= S.lists[l].len
  PROVE  Inv(copy_in(S, l, off, s))
<1> DEFINE b == Bufs(S, l)
           ps == Parts(b, off, Len(s))
           n == Len(ps)
           d == [S |-> S, s |-> s]
           R == Writing!Folded(d, ps)
<1>1. ps \in Seq(Node) /\ Total(ps) = Len(s)
  <2>1. b \in Seq(Node) /\ off + Len(s) <= Total(b) BY BufsTyped DEF Inv, Sound, Exact
  <2>2. Len(s) \in Nat \ {0} OBVIOUS
  <2> HIDE DEF b
  <2> QED BY <2>1, <2>2, PartsIs
<1>2. copy_in(S, l, off, s) = R.S
  BY Zenon DEF copy_in, Writing!Folded, FoldLeft, Writing!FoldLeft, MapThenFoldSet,
               Writing!MapThenFoldSet, Max, Writing!Max
<1>20. R = Writing!Folded(d, ps) OBVIOUS
<1> HIDE DEF ps
<1>3. DOMAIN ps = 1..n /\ n \in Nat BY <1>1
<1> HIDE DEF d, R
<1>4. PICK st : /\ st[0] = d
                /\ \A i \in 1..n : st[i] = CopyInto(st[i - 1], ps[i])
                /\ R = st[n]
  <2> HIDE DEF n
  <2> QED BY <1>3, <1>20, Writing!FoldSteps, SMTT(60)
<1> DEFINE Good(i) == WriteStage(S, ps, i, st[i])
           P == {i \in 0..n : Good(i)}
<1>5. 0 \in P
  <2>1. Start(ps, 0 + 1) = 0 BY <1>1, StartStep
  <2>2. Len(s) = Total(ps) - 0 BY <1>1
  <2>3. st[0] = [S |-> S, s |-> s] BY <1>4 DEF d
  <2>4. Good(0) BY <2>1, <2>2, <2>3 DEF WriteStage
  <2> QED BY <1>3, <2>4
<1>6. ASSUME NEW i \in 0..(n - 1), i \in P PROVE i + 1 \in P
  <2> DEFINE p == ps[i + 1]
             a == Start(ps, i + 1)
             w == p.len
             t0 == Total(ps)
             c == Start(ps, (i + 1) + 1)
  <2>0. i + 1 \in 1..n /\ (i + 1) - 1 = i /\ i + 1 \in 0..n /\ i + 1 \in 1..(n + 1)
        /\ (i + 1) + 1 \in 1..(n + 1) /\ n + 1 \in 1..(n + 1) /\ (i + 1) + 1 <= n + 1
    BY <1>3
  <2>1. PICK X, t : /\ st[i] = [S |-> X, s |-> t] /\ Inv(X) /\ X.lists = S.lists
                    /\ t \in Seq(Byte) /\ Len(t) = Total(ps) - Start(ps, i + 1)
    BY <1>6 DEF WriteStage
  <2>2. p \in Node BY <1>1, <1>3, <2>0
  <2>3. c = a + w /\ a \in Nat /\ w \in Nat /\ t0 \in Nat
    <3>1. w \in Nat BY <2>2 DEF Node
    <3>2. c = a + w /\ a \in Nat BY <1>1, <2>0, StartStep
    <3> QED BY <1>1, <3>1, <3>2, TotalNat
  <2>4. c <= t0
    <3>1. Start(ps, n + 1) = t0 BY <1>1, StartStep
    <3> QED BY <1>1, <2>0, <3>1, StartMonotone
  <2>40. Len(t) = t0 - a BY <2>1
  <2> HIDE DEF a, w, t0, c
  <2>5. w <= Len(t) /\ Len(t) - w = t0 - c BY ONLY <2>3, <2>4, <2>40
  <2>6. p.len <= Len(t) BY <2>5 DEF w
  <2> HIDE DEF p
  <2>7. PICK Y, u : /\ CopyInto([S |-> X, s |-> t], p) = [S |-> Y, s |-> u]
                    /\ Inv(Y) /\ Y.lists = X.lists /\ u \in Seq(Byte) /\ Len(u) = Len(t) - p.len
    BY <2>1, <2>2, <2>6, CopyIntoIs
  <2>8. st[i + 1] = [S |-> Y, s |-> u]
    <3>1. st[i + 1] = CopyInto(st[i], p) BY <1>4, <2>0 DEF p
    <3> QED BY <2>1, <2>7, <3>1
  <2>9. Len(u) = Total(ps) - Start(ps, (i + 1) + 1) BY <2>5, <2>7 DEF w, t0, c
  <2>90. Y.lists = S.lists BY <2>1, <2>7
  <2>10. Good(i + 1) BY <2>7, <2>8, <2>9, <2>90 DEF WriteStage
  <2> QED BY <2>0, <2>10
<1> HIDE DEF P
<1>7. \A i \in 0..n : i \in P BY <1>3, <1>5, <1>6, LoopInduction
<1>8. Good(n) BY <1>3, <1>7 DEF P
<1>9. PICK X, t : R = [S |-> X, s |-> t] /\ Inv(X)
  <2>1. WriteStage(S, ps, n, R) BY <1>4, <1>8
  <2> HIDE DEF n
  <2> QED BY <2>1 DEF WriteStage
<1> QED BY <1>2, <1>9

(* crc32c() changes nothing but the caches.                                  *)
CrcStage(acc) ==
  acc = [S |-> acc.S, crc |-> acc.crc, adjusted |-> acc.adjusted] /\ Inv(acc.S)

(* One node of crc32c() ...                                                 *)
LEMMA CrcStepIs ==
  ASSUME NEW acc, CrcStage(acc), NEW n \in Node
  PROVE  CrcStage(CrcStep(acc, n))
<1> DEFINE S == acc.S
           v == acc.crc
           k == S.raws[n.raw].crc
           x == calc_crc32(Data(S, n), v)
           y == Xor(k.val, calc_crc32(Zeros(n.len), Xor(k.base, v)))
           new == [from |-> n.off, to |-> End(n), base |-> v, val |-> x]
           T == CrcStep(acc, n)
           I == CrcSet(S, n.raw, new)
<1>1. n.raw \in Raws /\ n.len \in Nat BY DEF Node
<1>2. CASE n.len = 0
  <2>1. T = acc BY <1>2 DEF CrcStep
  <2> QED BY <2>1
<1>3. CASE n.len > 0 /\ Cached(S, n) /\ k.base = v
  <2>1. T = [acc EXCEPT !.crc = k.val] BY <1>1, <1>3 DEF CrcStep
  <2>2. T = [S |-> acc.S, crc |-> k.val, adjusted |-> acc.adjusted] BY <2>1 DEF CrcStage
  <2> HIDE DEF T
  <2> QED BY <2>2 DEF CrcStage, T
<1>4. CASE n.len > 0 /\ Cached(S, n) /\ k.base # v
  <2>1. T = [S |-> S, adjusted |-> TRUE, crc |-> y] BY <1>1, <1>4 DEF CrcStep
  <2> HIDE DEF T, y
  <2> QED BY <2>1 DEF CrcStage, T
<1>5. CASE n.len > 0 /\ ~Cached(S, n)
  <2>1. T = [S |-> I, crc |-> x, adjusted |-> acc.adjusted] BY <1>1, <1>5 DEF CrcStep, CrcSet
  <2> HIDE DEF new
  <2>2. Inv(I)
    <3>1. Inv(S) BY DEF CrcStage
    <3> HIDE DEF S
    <3> QED BY <1>1, <3>1, CrcSetIs
  <2> HIDE DEF T, I, x
  <2> QED BY <2>1, <2>2 DEF CrcStage, T
<1>6. n.len = 0 \/ n.len > 0 BY <1>1
<1> QED BY <1>2, <1>3, <1>4, <1>5, <1>6

Summing32 == INSTANCE FoldLoop WITH Op <- CrcStep

(* ... and all of them: only cached CRCs change.                            *)
LEMMA CrcIs ==
  ASSUME NEW S, Inv(S), NEW l \in Lists, NEW base
  PROVE  Inv(crc32c(S, l, base).S)
<1> DEFINE b == Bufs(S, l)
           n == Len(b)
           d == [S |-> S, crc |-> base, adjusted |-> FALSE]
           R == Summing32!Folded(d, b)
<1>1. b \in Seq(Node) BY BufsTyped DEF Inv, Sound
<1>2. crc32c(S, l, base) = R
  BY Zenon DEF crc32c, Summing32!Folded, FoldLeft, Summing32!FoldLeft, MapThenFoldSet,
               Summing32!MapThenFoldSet, Max, Summing32!Max
<1>20. R = Summing32!Folded(d, b) OBVIOUS
<1> HIDE DEF b
<1>3. DOMAIN b = 1..n /\ n \in Nat BY <1>1
<1> HIDE DEF d, R
<1>4. PICK st : /\ st[0] = d
                /\ \A i \in 1..n : st[i] = CrcStep(st[i - 1], b[i])
                /\ R = st[n]
  <2> HIDE DEF n
  <2> QED BY <1>3, <1>20, Summing32!FoldSteps, SMTT(60)
<1> DEFINE Good(i) == CrcStage(st[i])
           P == {i \in 0..n : Good(i)}
<1>5. 0 \in P
  <2>1. Good(0) BY <1>4 DEF d, CrcStage
  <2> QED BY <1>3, <2>1
<1>6. ASSUME NEW i \in 0..(n - 1), i \in P PROVE i + 1 \in P
  <2>0. i + 1 \in 1..n /\ (i + 1) - 1 = i /\ i + 1 \in 0..n BY <1>3
  <2>1. CrcStage(st[i]) BY <1>6
  <2>2. b[i + 1] \in Node BY <1>1, <1>3, <2>0
  <2>3. CrcStage(CrcStep(st[i], b[i + 1])) BY <2>1, <2>2, CrcStepIs
  <2>4. st[i + 1] = CrcStep(st[i], b[i + 1]) BY <1>4, <2>0
  <2>5. Good(i + 1) BY <2>3, <2>4
  <2> QED BY <2>0, <2>5
<1> HIDE DEF P
<1>7. \A i \in 0..n : i \in P BY <1>3, <1>5, <1>6, LoopInduction
<1>8. Good(n) BY <1>3, <1>7 DEF P
<1> QED BY <1>2, <1>4, <1>8 DEF CrcStage

-----------------------------------------------------------------------------
(* encode()                                                                  *)

(* The carriage of a list is the node of its chain that says so.             *)
LEMMA CarriageOnly ==
  ASSUME NEW S, Sound(S), NEW l \in Lists, NEW q \in Els(Bufs(S, l)), q.car
  PROVE  /\ HasCarriage(S, l) /\ Carriage(S, l) = q
         /\ UnusedTail(S, l) = S.raws[q.raw].len - End(q)
<1>1. HasCarriage(S, l)
  <2>1. HasCar(Bufs(S, l)) BY DEF HasCar, Els
  <2> QED BY <2>1, CarriageIs
<1>2. Carriage(S, l) \in Els(Bufs(S, l)) /\ Carriage(S, l).car
      /\ UnusedTail(S, l) = S.raws[Carriage(S, l).raw].len - End(Carriage(S, l))
  BY <1>1, CarriageIs
<1>3. OneCar(Bufs(S, l)) BY DEF Sound, Chains
<1> DEFINE c == Carriage(S, l)
           b == Bufs(S, l)
<1>4. c \in Els(b) /\ c.car /\ OneCar(b) /\ q \in Els(b) BY <1>2, <1>3
<1> HIDE DEF c, b
<1>5. c = q BY <1>4, OneCarSame
<1> QED BY <1>1, <1>2, <1>5 DEF c

(* A list is longer by the two fields, the value and the tail, and the       *)
(* length DENC_FINISH fills in is less than that.                            *)
LEMMA EncodeIs ==
  ASSUME NEW S, Inv(S), NEW l \in Lists, NEW m \in Lists, l # m, Spare(S),
         NEW tail \in Seq(Byte), NEW b, S.lists[m].len <= MaxLen
  PROVE  LET T == encode(S, l, m, tail, b)
         IN  Sound(T) /\ (T.lists[l].len <= MaxLen => Inv(T))
<1> DEFINE lm == S.lists[m].len
           tl == Len(tail)
           n == Bound(S, m, tail)
           O == obtain_contiguous_space(S, l, n, b)
           z == Last(Bufs(O, l))
           two == <<0, lm>>
           E1 == Emitted(O, l, two)
           q == Last(Bufs(E1, l))
           E2 == append_list(E1, l, m)
           E3 == OwnTail(E2, l)
           E4 == Emitted(E3, l, tail)
           y == Last(Bufs(E4, l))
           f == <<StructLen(End(z), End(y), lm)>>
           T == encode(S, l, m, tail, b)
<1>0. Sound(S) /\ Filled(S) /\ Exact(S) BY DEF Inv
<1>1. lm \in Nat /\ tl \in Nat /\ S.lists[l].len \in Nat
  <2>1. S.lists[m] \in ListType /\ S.lists[l] \in ListType BY <1>0, BufsTyped DEF Sound
  <2> QED BY <2>1, ListFields
<1>2. lm \in Byte /\ MaxLen \in Nat /\ MaxLen <= Junk /\ Junk \in Nat /\ Byte = 0..Junk
  <2>1. MaxLen \in 0..Junk /\ Junk \in Nat BY BufferAssumption DEF Byte, Junk
  <2>2. lm <= MaxLen OBVIOUS
  <2> HIDE DEF lm
  <2> QED BY <1>1, <2>1, <2>2 DEF Byte
<1>3. two \in Seq(Byte) /\ Len(two) = 2
  <2>1. 0 \in Byte BY Bytes
  <2> HIDE DEF lm
  <2> QED BY <1>2, <2>1
<1>4. n = 2 + lm + tl /\ n \in Nat \ {0}
  <2>1. n = 2 + lm + tl BY DEF Bound
  <2> HIDE DEF n, lm, tl
  <2> QED BY <1>1, <2>1
<1> HIDE DEF n
<1>5. Gains(S, O, l, 0, 0) /\ Writable(O, l, n) BY <1>0, <1>4, ObtainIs
<1>6. Sound(O) /\ Filled(O) /\ O.lists[m] = S.lists[m] BY <1>5 DEF Gains, Only
<1>7. T = DencFinish(E4, l, End(z), lm)
  <2>1. T = DencFinish(Emitted(AppendOutOfBand(Emitted(O, l, <<0, O.lists[m].len>>), l, m), l, tail),
                       l, End(z), O.lists[m].len)
    BY DEF encode, DencBody, n
  <2> HIDE DEF O, T
  <2> QED BY <1>6, <2>1 DEF AppendOutOfBand
<1>8. T = Poke(E4, y.raw, End(z), f) BY <1>7 DEF DencFinish
<1> HIDE DEF O, T, lm, tl
<1>9. Bufs(O, l) \in Seq(Node) /\ z \in Node /\ End(z) \in Nat /\ z.car /\ z.raw \in Raws
      /\ End(z) + n <= O.raws[z.raw].len /\ O.raws[z.raw].len \in Nat
  <2>1. Bufs(O, l) \in Seq(Node) BY <1>6, BufsTyped DEF Sound
  <2>2. Bufs(O, l) # <<>> /\ z.car /\ End(z) + n <= O.raws[z.raw].len BY <1>5 DEF Writable
  <2>3. z \in Node BY <2>1, <2>2, LastSplit
  <2> HIDE DEF z
  <2>4. End(z) \in Nat /\ z.raw \in Raws BY <2>3, EndNat DEF Node
  <2>5. O.raws[z.raw].len \in Nat BY <1>6, <2>4 DEF Sound, Shape, RawShape
  <2> QED BY <2>1, <2>2, <2>3, <2>4, <2>5
\* the fields
<1>10. /\ Gains(S, E1, l, 2, 2) /\ Bufs(E1, l) # <<>> /\ q = Longer(z, 2)
       /\ \A r \in Raws : E1.raws[r].len = O.raws[r].len
  <2>1. Writable(O, l, Len(two))
    <3>1. Len(two) \in 0..n BY <1>1, <1>3, <1>4
    <3> QED BY <1>4, <1>5, <1>6, <3>1, WritableLess
  <2>2. E1 = Grow(PtrAppend(O, l, two), l, Len(two)) BY DEF Emitted
  <2> HIDE DEF two, E1
  <2>3. 0 + Len(two) = 2 BY <1>3
  <2>4. /\ Gains(S, E1, l, 0 + Len(two), 0 + Len(two)) /\ Bufs(E1, l) # <<>>
        /\ q = Longer(z, Len(two))
        /\ \A r \in Raws : E1.raws[r].len = O.raws[r].len
    <3>1. Sound(S) /\ 0 \in Nat /\ Gains(S, O, l, 0, 0) /\ two \in Seq(Byte) BY <1>0, <1>3, <1>5
    <3> QED BY <2>1, <2>2, <3>1, EmittedIs
  <2> QED BY <1>3, <2>3, <2>4
<1> HIDE DEF E1, two, z, q
<1>11. q \in Node /\ q.raw = z.raw /\ q.car /\ End(q) = End(z) + 2 BY <1>9, <1>10, LongerIs, ZenonT(40)
<1>12. Inv(E1) /\ E1.lists[m] = S.lists[m] /\ E1.lists[l].len = S.lists[l].len + 2
  <2>1. 2 \in Int OBVIOUS
  <2>2. Inv(E1) BY <1>10, <2>1, GainsInv
  <2> QED BY <1>10, <2>2 DEF Gains, Only
\* the value
<1>13. /\ Inv(E2) /\ E2.raws = E1.raws
       /\ Bufs(E2, l) = Bufs(E1, l) \o Uncrowned(Bufs(E1, m))
       /\ Total(Bufs(E2, l)) = Total(Bufs(E1, l)) + Total(Bufs(E1, m))
  BY <1>12, AppendListIs
<1> HIDE DEF E2
<1>14. q \in Els(Bufs(E2, l))
  <2>1. Bufs(E1, l) \in Seq(Node) /\ Bufs(E1, m) \in Seq(Node) BY <1>12, BufsTyped DEF Inv, Sound
  <2>2. Uncrowned(Bufs(E1, m)) \in Seq(Node) BY <2>1, UncrownedIs
  <2>3. q \in Els(Bufs(E1, l)) BY <1>10, <2>1, LastSplit DEF q
  <2> DEFINE a == Bufs(E1, l)
             c == Uncrowned(Bufs(E1, m))
  <2>4. a \in Seq(Node) /\ c \in Seq(Node) /\ q \in Els(a) /\ Bufs(E2, l) = a \o c
    BY <1>13, <2>1, <2>2, <2>3
  <2> HIDE DEF a, c
  <2>5. Els(a \o c) = Els(a) \cup Els(c) BY <2>4, ElsConcat
  <2> QED BY <2>4, <2>5
<1>15. E2.lists[l].len = S.lists[l].len + 2 + lm
  <2>1. /\ E2.lists[l].len = Total(Bufs(E2, l)) /\ E1.lists[l].len = Total(Bufs(E1, l))
        /\ E1.lists[m].len = Total(Bufs(E1, m))
    BY <1>12, <1>13 DEF Inv, Exact
  <2> QED BY <1>12, <1>13, <2>1 DEF lm
\* the unused tail the appender goes on in
<1>16. /\ HasCarriage(E2, l) /\ Carriage(E2, l) = q
       /\ UnusedTail(E2, l) = E2.raws[q.raw].len - End(q)
  BY <1>11, <1>13, <1>14, CarriageOnly DEF Inv
<1>17. UnusedTail(E2, l) \in Nat /\ tl <= UnusedTail(E2, l)
  <2>1. E2.raws[q.raw].len = O.raws[z.raw].len BY <1>9, <1>10, <1>11, <1>13
  <2> DEFINE R == O.raws[z.raw].len
             e == End(z)
  <2>2. UnusedTail(E2, l) = R - (e + 2) /\ e + (2 + lm + tl) <= R
    BY <1>4, <1>9, <1>11, <1>16, <2>1
  <2>3. R \in Nat /\ e \in Nat BY <1>9
  <2> HIDE DEF R, e
  <2> QED BY ONLY <1>1, <2>2, <2>3
<1>18. /\ Gains(E2, E3, l, 0, 0) /\ Writable(E3, l, UnusedTail(E2, l))
       /\ Last(Bufs(E3, l)).raw = q.raw /\ End(Last(Bufs(E3, l))) = End(q)
  BY <1>13, <1>16, OwnTailIs DEF Inv
<1> HIDE DEF E3
<1>19. Sound(E3) /\ Filled(E3) BY <1>18 DEF Gains
<1>20. Writable(E3, l, tl)
  <2>1. tl \in 0..UnusedTail(E2, l) BY <1>1, <1>17
  <2> QED BY <1>17, <1>18, <1>19, <2>1, WritableLess
<1>21. Last(Bufs(E3, l)) \in Node
  <2>1. Bufs(E3, l) \in Seq(Node) BY <1>19, BufsTyped DEF Sound
  <2> QED BY <1>20, <2>1, LastSplit DEF Writable
\* the fields a newer writer added
<1>22. /\ Gains(E2, E4, l, tl, tl) /\ y = Longer(Last(Bufs(E3, l)), tl)
  <2>1. E4 = Grow(PtrAppend(E3, l, tail), l, Len(tail)) BY DEF Emitted
  <2> HIDE DEF E4
  <2>2. 0 + Len(tail) = Len(tail) OBVIOUS
  <2>3. /\ Gains(E2, E4, l, 0 + Len(tail), 0 + Len(tail))
        /\ y = Longer(Last(Bufs(E3, l)), Len(tail))
    <3>1. Writable(E3, l, Len(tail)) /\ Sound(E2) /\ 0 \in Nat BY <1>13, <1>20 DEF Inv, tl
    <3> QED BY <1>18, <2>1, <3>1, EmittedIs
  <2> QED BY <2>2, <2>3 DEF tl
<1> HIDE DEF E4, y
<1>23. y \in Node /\ y.raw = z.raw /\ End(y) = End(z) + 2 + tl
  <2>1. y \in Node /\ y.raw = Last(Bufs(E3, l)).raw /\ End(y) = End(Last(Bufs(E3, l))) + tl
    BY <1>1, <1>21, <1>22, LongerIs
  <2> QED BY <1>11, <1>18, <2>1
<1>24. Inv(E4) /\ E4.lists[l].len = S.lists[l].len + 2 + lm + tl
  <2>1. tl \in Int BY <1>1
  <2>2. Inv(E4) BY <1>13, <1>22, <2>1, GainsInv
  <2> QED BY <1>15, <1>22, <2>2 DEF Gains
\* the length
<1>250. Sound(T) /\ T.lists = E4.lists
  <2>1. Sound(E4) /\ y.raw \in Raws BY <1>9, <1>23, <1>24 DEF Inv
  <2> HIDE DEF f
  <2> QED BY <1>8, <2>1, PokeIs
<1>25. ASSUME T.lists[l].len <= MaxLen PROVE Inv(T)
  <2>1. T.lists = E4.lists BY <1>250
  <2>2. S.lists[l].len + 2 + lm + tl <= MaxLen BY <1>24, <1>25, <2>1
  <2>3. StructLen(End(z), End(y), lm) \in Byte
    <3> DEFINE e == End(z)
               a == S.lists[l].len
    <3>1. StructLen(End(z), End(y), lm) = (e + 2 + tl) - e - 1 + lm BY <1>23 DEF StructLen
    <3>2. e \in Nat /\ a \in Nat /\ a + 2 + lm + tl <= MaxLen BY <1>1, <1>9, <2>2
    <3> HIDE DEF e, a
    <3>3. lm \in Nat /\ tl \in Nat /\ MaxLen \in Nat /\ Junk \in Nat /\ MaxLen <= Junk BY <1>1, <1>2
    <3>4. (e + 2 + tl) - e - 1 + lm = 1 + tl + lm BY ONLY <3>2, <3>3
    <3>5. 1 + tl + lm \in 0..Junk BY ONLY <3>2, <3>3
    <3> QED BY <1>2, <3>1, <3>4, <3>5
  <2>4. f \in Seq(Byte)
    <3> DEFINE v == StructLen(End(z), End(y), lm)
    <3>1. v \in Byte BY <2>3
    <3> HIDE DEF v
    <3>2. <<v>> \in Seq(Byte) BY <3>1
    <3> QED BY <3>2 DEF v
  <2> HIDE DEF f
  <2>5. y.raw \in Raws BY <1>9, <1>23
  <2> QED BY <1>8, <1>9, <1>24, <2>4, <2>5, PokeInv
<1> QED BY <1>25, <1>250 DEF T

-----------------------------------------------------------------------------
(* release(): raws nobody refers to die                                      *)

(* Giving back the raws no node refers to changes no list.                  *)
LEMMA ReleaseIs ==
  ASSUME NEW S, Sound(S)
  PROVE  release(S).lists = S.lists /\ (Inv(S) => Inv(release(S)))
<1> DEFINE kept(r) == [i \in DOMAIN S.raws[r].data |->
                         IF Covers(S, r, i) THEN S.raws[r].data[i] ELSE Junk]
           x(r) == S.raws[r]
           new(r) == IF ~Referred(S, r) THEN Dead
                     ELSE [len |-> x(r).len, base |-> x(r).base, data |-> kept(r), crc |-> x(r).crc]
           T == release(S)
<1>0. Shape(S) /\ \A r \in Raws : RawShape(x(r)) BY DEF Sound, Shape
<1>1. T = [raws |-> [r \in Raws |-> new(r)], lists |-> S.lists]
  <2>1. \A r \in Raws : [S.raws[r] EXCEPT !.data = [i \in DOMAIN @ |->
                           IF Covers(S, r, i) THEN @[i] ELSE Junk]]
                        = [len |-> x(r).len, base |-> x(r).base, data |-> kept(r), crc |-> x(r).crc]
    <3> TAKE r \in Raws
    <3> DEFINE X == S.raws[r]
               y == kept(r)
    <3>1. X = [len |-> X.len, base |-> X.base, data |-> X.data, crc |-> X.crc] BY <1>0 DEF RawShape
    <3> HIDE DEF X, y
    <3>2. [X EXCEPT !.data = y] = [len |-> X.len, base |-> X.base, data |-> y, crc |-> X.crc]
      BY <3>1
    <3> QED BY <3>2 DEF X, y
  <2>2. \A r \in Raws : (IF ~Referred(S, r) THEN Dead
                         ELSE [S.raws[r] EXCEPT !.data = [i \in DOMAIN @ |->
                                 IF Covers(S, r, i) THEN @[i] ELSE Junk]]) = new(r)
    BY <2>1
  <2>3. [r \in Raws |-> IF ~Referred(S, r) THEN Dead
                        ELSE [S.raws[r] EXCEPT !.data = [i \in DOMAIN @ |->
                                IF Covers(S, r, i) THEN @[i] ELSE Junk]]] = [r \in Raws |-> new(r)]
    BY <2>2
  <2> DEFINE W == [r \in Raws |-> new(r)]
  <2>4. T = [S EXCEPT !.raws = W] BY <2>3 DEF release
  <2> HIDE DEF W, T
  <2>5. T = [raws |-> W, lists |-> S.lists] BY <1>0, <2>4 DEF Shape
  <2> QED BY <2>5 DEF W
<1> HIDE DEF T
<1>2. /\ T.lists = S.lists /\ \A r \in Raws : T.raws[r] = new(r)
      /\ T.raws = [r \in Raws |-> T.raws[r]] /\ T = [raws |-> T.raws, lists |-> T.lists]
  BY <1>1
<1>3. ASSUME Inv(S) PROVE Inv(T)
  <2>1. ASSUME NEW r \in Raws
        PROVE  /\ RawShape(new(r)) /\ new(r).data \in Seq(Byte) /\ Len(new(r).data) = new(r).len
               /\ Referred(S, r) => new(r).len = x(r).len
    <3>1. CASE ~Referred(S, r)
      <4>1. new(r) = Dead BY <3>1
      <4>2. RawShape(Dead) /\ Dead.data \in Seq(Byte) /\ Len(Dead.data) = Dead.len
        BY DEF Dead, RawShape
      <4> QED BY <3>1, <4>1, <4>2
    <3>2. CASE Referred(S, r)
      <4> DEFINE d == S.raws[r].data
      <4>1. d \in Seq(Byte) /\ Len(d) = x(r).len /\ x(r).len \in Nat
        BY <1>0, <1>3 DEF Inv, Filled, RawShape
      <4>2. kept(r) = [i \in DOMAIN d |-> IF Covers(S, r, i) THEN d[i] ELSE Junk] OBVIOUS
      <4>3. new(r) = [len |-> x(r).len, base |-> x(r).base, data |-> kept(r), crc |-> x(r).crc]
        BY <3>2
      <4> DEFINE y == kept(r)
      <4> HIDE DEF d, x, y
      <4>4. y \in Seq(Byte) /\ Len(y) = Len(d)
        <5>1. Junk \in Byte BY Bytes
        <5>2. DOMAIN d = 1..Len(d) /\ Len(d) \in Nat /\ \A i \in 1..Len(d) : d[i] \in Byte BY <4>1
        <5>3. y = [i \in 1..Len(d) |-> IF Covers(S, r, i) THEN d[i] ELSE Junk]
          BY <4>2, <5>2 DEF y
        <5>4. \A i \in 1..Len(d) : (IF Covers(S, r, i) THEN d[i] ELSE Junk) \in Byte BY <5>1, <5>2
        <5> QED BY <5>2, <5>3, <5>4
      <4>5. new(r) = [len |-> x(r).len, base |-> x(r).base, data |-> y, crc |-> x(r).crc]
        BY <4>3 DEF y
      <4> HIDE DEF new
      <4> QED BY <4>1, <4>4, <4>5 DEF RawShape
    <3> QED BY <3>1, <3>2
  <2> HIDE DEF new
  <2>2. Shape(T)
    <3>1. Shape(S) BY <1>0
    <3> QED BY <1>2, <2>1, <3>1 DEF Shape
  <2>3. ASSUME NEW n \in AllNodes(S) PROVE T.raws[n.raw].len = S.raws[n.raw].len
    <3>1. n.raw \in Raws /\ Referred(S, n.raw) BY DEF AllNodes, Node, Els, Bufs, Referred
    <3> QED BY <1>2, <2>1, <3>1
  <2>4. Sound(T) BY <1>2, <2>2, <2>3, Reraw
  <2>5. Filled(T) BY <1>2, <2>1 DEF Filled
  <2>6. Exact(T) BY <1>2, <1>3 DEF Inv, Exact, Bufs
  <2> QED BY <2>4, <2>5, <2>6 DEF Inv
<1> QED BY <1>2, <1>3 DEF T

-----------------------------------------------------------------------------
(* The program                                                               *)

BufInv == Inv(State) /\ Bounded(State)

(* The state the operators work on is the variables.                        *)
LEMMA StateIs == State.raws = raws /\ State.lists = lists /\ \A l \in Lists : Now(l) = State.lists[l].len
  BY DEF State, Now

(* A call that is done leaves what its operation left, less what died.       *)
LEMMA DoIs ==
  ASSUME NEW S, NEW c, Do(S, c), Sound(S), (\A l \in Lists : S.lists[l].len <= MaxLen) => Inv(S)
  PROVE  BufInv'
<1> DEFINE T == release(S)
<1>1. Bounded(T) /\ raws' = T.raws /\ lists' = T.lists BY DEF Do
<1>2. T.lists = S.lists /\ (Inv(S) => Inv(T)) BY ReleaseIs
<1>3. Inv(T) BY <1>1, <1>2 DEF Bounded
<1> HIDE DEF T
<1>4. T = [raws |-> T.raws, lists |-> T.lists] BY <1>3 DEF Inv, Sound, Shape
<1>5. State' = T BY <1>1, <1>4 DEF State
<1> QED BY <1>1, <1>3, <1>5 DEF BufInv

(* A call of which the operator keeps the invariant keeps it.               *)
LEMMA DoInv ==
  ASSUME NEW S, NEW c, Do(S, c), Inv(S)
  PROVE  BufInv'
  BY DoIs DEF Inv

(* The room an action asks for.                                              *)
LEMMA RoomIs ==
  ASSUME BufInv, NEW n \in Nat, Room(n)
  PROVE  Free(State) >= n /\ (n > 0 => Spare(State))
<1>1. Free(State) >= n BY StateIs DEF Room, Free, Unused
<1>2. Free(State) \in Nat /\ (Free(State) > 0 => Spare(State)) BY FreeIs
<1> QED BY <1>1, <1>2

(* A chunk is bytes, and not empty.                                         *)
LEMMA ChunkIs ==
  ASSUME NEW s \in Chunks
  PROVE  s \in Seq(Byte) /\ s # <<>>
  BY BufferAssumption

(* What the lists hold when a call begins.                                   *)
LEMMA NowIs ==
  ASSUME BufInv, NEW l \in Lists
  PROVE  Now(l) \in Nat /\ Now(l) = State.lists[l].len /\ Now(l) <= MaxLen
         /\ Inv(State) /\ Sound(State) /\ Filled(State)
<1>1. Inv(State) /\ Sound(State) /\ Filled(State) BY DEF BufInv, Inv
<1>2. State.lists[l] \in ListType BY <1>1, BufsTyped DEF Sound
<1>3. State.lists[l].len \in Nat BY <1>2, ListFields
<1>4. State.lists[l].len <= MaxLen BY DEF BufInv, Bounded
<1> QED BY <1>1, <1>3, <1>4, StateIs

(* The guard Room(1) leaves a raw to create.                                *)
LEMMA SpareIs ==
  ASSUME BufInv, Room(1)
  PROVE  Spare(State) /\ Inv(State) /\ Sound(State) /\ Filled(State)
<1>1. 1 \in Nat /\ 1 > 0 OBVIOUS
<1> QED BY <1>1, RoomIs DEF BufInv, Inv

(* append(), append(char), append_zero() and append_hole().                 *)
LEMMA AppendingKeeps ==
  ASSUME BufInv, NEW l \in Lists,
         AppendData(l) \/ AppendChar(l) \/ AppendZero(l) \/ AppendHole(l)
  PROVE  BufInv'
<1>1. CASE AppendData(l)
  <2>1. PICK s \in Chunks, b \in Bases :
          Room(1) /\ Do(append(State, l, s, b), <<"append", l, s>>)
    BY <1>1 DEF AppendData
  <2> DEFINE T == append(State, l, s, b)
  <2>2. Spare(State) /\ Inv(State) /\ Sound(State) /\ Filled(State) BY <2>1, SpareIs
  <2>3. s \in Seq(Byte) BY ChunkIs
  <2>4. Gains(State, T, l, Len(s), Len(s)) /\ Len(s) \in Int BY <2>2, <2>3, AppendIs
  <2>5. Do(T, <<"append", l, s>>) BY <2>1
  <2> HIDE DEF T
  <2>6. Inv(T) BY <2>2, <2>4, GainsInv
  <2> QED BY <2>5, <2>6, DoInv
<1>2. CASE AppendChar(l)
  <2>1. PICK b \in Bases : Room(1) /\ Do(append_char(State, l, 1, b), <<"append", l, <<1>>>>)
    BY <1>2 DEF AppendChar
  <2> DEFINE T == append_char(State, l, 1, b)
  <2>2. Spare(State) /\ Inv(State) /\ Sound(State) /\ Filled(State) BY <2>1, SpareIs
  <2>3. 1 \in Byte BY Bytes
  <2>4. Gains(State, T, l, 1, 1) BY <2>2, <2>3, AppendCharIs
  <2>5. Do(T, <<"append", l, <<1>>>>) BY <2>1
  <2> HIDE DEF T
  <2>6. Inv(T) BY <2>2, <2>4, GainsInv
  <2> QED BY <2>5, <2>6, DoInv
<1>3. CASE AppendZero(l)
  <2> DEFINE z == Zeros(2)
  <2>1. PICK b \in Bases : Room(1) /\ Do(append(State, l, z, b), <<"append", l, z>>)
    BY <1>3 DEF AppendZero
  <2> DEFINE T == append(State, l, z, b)
  <2>2. Spare(State) /\ Inv(State) /\ Sound(State) /\ Filled(State) BY <2>1, SpareIs
  <2>3. z \in Seq(Byte) BY ZerosAre
  <2>5. Do(T, <<"append", l, z>>) BY <2>1
  <2> HIDE DEF z
  <2>4. Gains(State, T, l, Len(z), Len(z)) /\ Len(z) \in Int BY <2>2, <2>3, AppendIs
  <2> HIDE DEF T
  <2>6. Inv(T) BY <2>2, <2>4, GainsInv
  <2> QED BY <2>5, <2>6, DoInv
<1>4. CASE AppendHole(l)
  <2>1. PICK s \in Chunks, b \in Bases :
          Room(1) /\ Do(append_hole(State, l, s, b), <<"append", l, s>>)
    BY <1>4 DEF AppendHole
  <2> DEFINE T == append_hole(State, l, s, b)
  <2>2. Spare(State) /\ Inv(State) /\ Sound(State) /\ Filled(State) BY <2>1, SpareIs
  <2>3. s \in Seq(Byte) /\ s # <<>> BY ChunkIs
  <2>4. Gains(State, T, l, Len(s), Len(s)) /\ Len(s) \in Int BY <2>2, <2>3, AppendHoleIs
  <2>5. Do(T, <<"append", l, s>>) BY <2>1
  <2> HIDE DEF T
  <2>6. Inv(T) BY <2>2, <2>4, GainsInv
  <2> QED BY <2>5, <2>6, DoInv
<1> QED BY <1>1, <1>2, <1>3, <1>4

(* prepend_zero(), reserve(), read_fd() and clear().                        *)
LEMMA MakingRoomKeeps ==
  ASSUME BufInv, NEW l \in Lists,
         PrependZero(l) \/ Reserve(l) \/ ReadFd(l) \/ Clear(l)
  PROVE  BufInv'
<1>1. CASE PrependZero(l)
  <2>1. PICK b \in Bases : Room(1) /\ Do(prepend_zero(State, l, 1, b), <<"prepend", l, Zeros(1)>>)
    BY <1>1 DEF PrependZero
  <2>2. Spare(State) /\ Inv(State) BY <2>1, SpareIs
  <2>3. 1 \in Nat \ {0} OBVIOUS
  <2>4. Inv(prepend_zero(State, l, 1, b)) BY <2>2, <2>3, PrependIs
  <2> QED BY <2>1, <2>4, DoInv
<1>2. CASE Reserve(l)
  <2> DEFINE T == reserve(State, l, PAGE)
  <2>1. Room(1) /\ Do(T, <<"look", "reserve">>) BY <1>2 DEF Reserve
  <2>2. Spare(State) /\ Inv(State) /\ Sound(State) /\ Filled(State) BY <2>1, SpareIs
  <2>3. PAGE \in Nat \ {0} BY BufferAssumption
  <2>4. Gains(State, T, l, 0, 0) BY <2>2, <2>3, ReserveIs
  <2> HIDE DEF T
  <2>5. Inv(T) BY <2>2, <2>4, GainsInv
  <2> QED BY <2>1, <2>5, DoInv
<1>3. CASE ReadFd(l)
  <2>1. PICK s \in Chunks, b \in Bases :
          /\ Room(1)
          /\ Do(Grow(Poke(PushRaw(State, l, Len(s) + 1, b, Len(s)), Unborn(State), 0, s), l, Len(s)),
                <<"append", l, s>>)
    BY <1>3 DEF ReadFd
  <2>2. Spare(State) /\ Inv(State) BY <2>1, SpareIs
  <2>3. s \in Seq(Byte) BY ChunkIs
  <2>4. Inv(Grow(Poke(PushRaw(State, l, Len(s) + 1, b, Len(s)), Unborn(State), 0, s), l, Len(s)))
    BY <2>2, <2>3, ReadFdIs
  <2> QED BY <2>1, <2>4, DoInv
<1>4. CASE Clear(l)
  <2>1. Do(clear(State, l), <<"clear", l>>) BY <1>4 DEF Clear
  <2>2. Inv(clear(State, l)) BY NowIs, ClearIs
  <2> QED BY <2>1, <2>2, DoInv
<1> QED BY <1>1, <1>2, <1>3, <1>4

(* rebuild(), c_str() and rebuild_aligned().                                *)
LEMMA RebuildingKeeps ==
  ASSUME BufInv, NEW l \in Lists, Rebuild(l) \/ CStr(l) \/ RebuildAligned(l)
  PROVE  BufInv'
<1>1. CASE Rebuild(l) \/ CStr(l)
  <2>1. PICK b \in Bases : Room(1) /\ Do(rebuild(State, l, b), <<"rebuild", l>>)
    BY <1>1 DEF Rebuild, CStr
  <2>2. Spare(State) /\ Inv(State) BY <2>1, SpareIs
  <2>3. Inv(rebuild(State, l, b)) BY <2>2, RebuildIs
  <2> QED BY <2>1, <2>3, DoInv
<1>2. CASE RebuildAligned(l)
  <2> DEFINE n == Len(Bufs(State, l))
             h == (n + 1) \div 2
  <2>1. Room(h) /\ Do(rebuild_aligned(State, l), <<"rebuild", l, "aligned">>)
    <3>1. lists[l].bufs = Bufs(State, l) BY StateIs DEF Bufs
    <3> QED BY <1>2, <3>1 DEF RebuildAligned
  <2>2. Inv(State) /\ Sound(State) BY NowIs
  <2>3. n \in Nat
    <3>1. Bufs(State, l) \in Seq(Node) BY <2>2, BufsTyped DEF Sound
    <3> QED BY <3>1
  <2>4. h \in Nat /\ 2 * h >= n
    <3> HIDE DEF n
    <3> QED BY <2>3
  <2>5. Free(State) >= h /\ Free(State) \in Nat
    <3> HIDE DEF h
    <3> QED BY <2>1, <2>4, RoomIs, FreeIs
  <2>6. 2 * Free(State) >= n
    <3> DEFINE fr == Free(State)
    <3> HIDE DEF fr, h, n
    <3>1. fr >= h /\ fr \in Nat BY <2>5 DEF fr
    <3>2. 2 * fr >= n BY ONLY <2>3, <2>4, <3>1
    <3> QED BY <3>2 DEF fr
  <2>7. Inv(rebuild_aligned(State, l)) BY <2>2, <2>6, RebuildAlignedIs
  <2> QED BY <2>1, <2>7, DoInv
<1> QED BY <1>1, <1>2

(* copy_in(), zero() and crc32c().                                          *)
LEMMA WritingKeeps ==
  ASSUME BufInv, NEW l \in Lists, CopyIn(l) \/ Zero(l) \/ Crc(l)
  PROVE  BufInv'
<1>0. Inv(State) /\ Now(l) \in Nat /\ Now(l) = State.lists[l].len BY NowIs
<1>1. CASE CopyIn(l)
  <2>1. PICK s \in Chunks, off \in 0..(Now(l) - 1) :
          off + Len(s) <= Now(l) /\ Do(copy_in(State, l, off, s), <<"write", l, off, s>>)
    BY <1>1 DEF CopyIn
  <2>2. s \in Seq(Byte) /\ s # <<>> BY ChunkIs
  <2>3. off \in Nat /\ off + Len(s) <= State.lists[l].len BY <1>0, <2>1
  <2>4. Inv(copy_in(State, l, off, s)) BY <1>0, <2>2, <2>3, CopyInIs
  <2> QED BY <2>1, <2>4, DoInv
<1>2. CASE Zero(l)
  <2>1. PICK off \in 0..(Now(l) - 1) : \E n \in {1, Now(l) - off} :
          Do(copy_in(State, l, off, Zeros(n)), <<"write", l, off, Zeros(n)>>)
    BY <1>2 DEF Zero
  <2>2. PICK n \in {1, Now(l) - off} :
          Do(copy_in(State, l, off, Zeros(n)), <<"write", l, off, Zeros(n)>>)
    BY <2>1
  <2> DEFINE w == Now(l)
             z == Zeros(n)
  <2>3. w \in Nat /\ off \in 0..(w - 1) /\ n \in {1, w - off} BY <1>0
  <2> HIDE DEF w
  <2>4. off \in Nat /\ n \in Nat \ {0} /\ off + n <= w BY ONLY <2>3
  <2>5. z \in Seq(Byte) /\ Len(z) = n BY <2>4, ZerosAre
  <2>6. Do(copy_in(State, l, off, z), <<"write", l, off, z>>) BY <2>2
  <2> HIDE DEF z
  <2>7. z # <<>> /\ off + Len(z) <= State.lists[l].len BY <1>0, <2>4, <2>5 DEF w
  <2>8. Inv(copy_in(State, l, off, z)) BY <1>0, <2>4, <2>5, <2>7, CopyInIs
  <2> QED BY <2>6, <2>8, DoInv
<1>3. CASE Crc(l)
  <2> DEFINE r == crc32c(State, l, Not(0))
  <2>1. Do(r.S, <<"look", "crc32c", l, Not(0), r.adjusted, r.crc>>) BY <1>3 DEF Crc
  <2>2. Inv(r.S) BY <1>0, CrcIs
  <2> HIDE DEF r
  <2> QED BY <2>1, <2>2, DoInv
<1> QED BY <1>1, <1>2, <1>3

(* The calls that copy nodes of another list, which keeps its own.          *)
LEMMA SharingKeeps ==
  ASSUME BufInv, NEW l \in Lists, NEW m \in Lists,
         IterCopy(l, m) \/ PushPtr(l, m) \/ AppendList(l, m) \/ SubstrOf(l, m)
  PROVE  BufInv'
<1>0. Inv(State) /\ Now(m) \in Nat /\ Now(m) = State.lists[m].len BY NowIs
<1>1. CASE IterCopy(l, m)
  <2>1. PICK off \in 0..(Now(m) - 1) : \E n \in {1, Now(m) - off} :
          /\ l # m
          /\ Do(append_ptrs(State, l, NonEmpty(Parts(Bufs(State, m), off, n))),
                <<"share", l, m, off, n>>)
    BY <1>1 DEF IterCopy
  <2>2. PICK n \in {1, Now(m) - off} :
          /\ l # m
          /\ Do(append_ptrs(State, l, NonEmpty(Parts(Bufs(State, m), off, n))),
                <<"share", l, m, off, n>>)
    BY <2>1
  <2> DEFINE w == Now(m)
  <2>3. w \in Nat /\ off \in 0..(w - 1) /\ n \in {1, w - off} BY <1>0
  <2> HIDE DEF w
  <2>4. off \in Nat /\ n \in Nat \ {0} /\ off + n <= w BY ONLY <2>3
  <2>5. off + n <= State.lists[m].len BY <1>0, <2>4 DEF w
  <2>6. Inv(append_ptrs(State, l, NonEmpty(Parts(Bufs(State, m), off, n))))
    BY <1>0, <2>2, <2>4, <2>5, IterCopyIs
  <2> QED BY <2>2, <2>6, DoInv
<1>2. CASE PushPtr(l, m)
  <2>0. lists[m].bufs = Bufs(State, m) BY StateIs, SMTT(30) DEF Bufs
  <2> DEFINE p(k) == Bufs(State, m)[k]
             T(k, moved) == Grow([PushBack(State, l, Copy(p(k))) EXCEPT !.lists[l] =
               [bufs |-> IF moved THEN Uncrowned(@.bufs) ELSE @.bufs, len |-> @.len,
                num |-> @.num, dangling |-> @.dangling /\ ~moved]], l, p(k).len)
  <2>1. PICK k \in DOMAIN Bufs(State, m), moved \in BOOLEAN :
          Do(T(k, moved), <<"share", l, m, Start(lists[m].bufs, k), lists[m].bufs[k].len>>)
    BY <1>2, <2>0 DEF PushPtr
  <2>2. Inv(T(k, moved)) BY <1>0, PushPtrIs
  <2> HIDE DEF T
  <2> QED BY <2>1, <2>2, DoInv
<1>3. CASE AppendList(l, m)
  <2>1. Do(append_list(State, l, m), <<"share", l, m, 0, Now(m)>>) BY <1>3 DEF AppendList
  <2>2. Inv(append_list(State, l, m)) BY <1>0, AppendListIs, SMTT(30)
  <2> QED BY <2>1, <2>2, DoInv
<1>4. CASE SubstrOf(l, m)
  <2>1. PICK off \in 0..(Now(m) - 1), n \in 1..Now(m) :
          /\ off + n <= Now(m)
          /\ Do(substr_of(State, l, m, off, n), <<"assign", l, m, off, n>>)
    BY <1>4 DEF SubstrOf
  <2>2. off \in Nat /\ n \in Nat \ {0} /\ off + n <= State.lists[m].len BY <1>0, <2>1
  <2>3. Inv(substr_of(State, l, m, off, n)) BY <1>0, <2>2, SubstrOfIs
  <2> QED BY <2>1, <2>3, DoInv
<1> QED BY <1>1, <1>2, <1>3, <1>4

(* The calls that take nodes from another list.                             *)
LEMMA ExchangingKeeps ==
  ASSUME BufInv, NEW l \in Lists, NEW m \in Lists,
         ClaimAppend(l, m) \/ Assign(l, m) \/ Move(l, m) \/ Swap(l, m)
  PROVE  BufInv'
<1>0. Inv(State) BY NowIs
<1>1. CASE ClaimAppend(l, m)
  <2>1. Do(claim_append(State, l, m), <<"claim", l, m, FALSE>>) BY <1>1 DEF ClaimAppend
  <2>2. Inv(claim_append(State, l, m)) BY <1>0, ClaimAppendIs
  <2> QED BY <2>1, <2>2, DoInv
<1>2. CASE Assign(l, m)
  <2>1. Do(Assigned(State, l, m), <<"assign", l, m, 0, Now(m)>>) BY <1>2 DEF Assign
  <2>2. Inv(Assigned(State, l, m)) BY <1>0, AssignedIs
  <2> QED BY <2>1, <2>2, DoInv
<1>3. CASE Move(l, m)
  <2> DEFINE T == clear([State EXCEPT !.lists[l] = State.lists[m]], m)
  <2>1. l # m /\ Do(T, <<"claim", l, m, TRUE>>) BY <1>3, StateIs DEF Move
  <2>2. Inv(T) BY <1>0, <2>1, MovedIs
  <2> HIDE DEF T
  <2> QED BY <2>1, <2>2, DoInv
<1>4. CASE Swap(l, m)
  <2>1. Do(Swapped(State, l, m), <<"swap", l, m>>) BY <1>4, StateIs DEF Swap, Swapped
  <2>2. Inv(Swapped(State, l, m)) BY <1>0, SwappedIs
  <2> QED BY <2>1, <2>2, DoInv
<1> QED BY <1>1, <1>2, <1>3, <1>4

(* splice(), and an encode() through a contiguous_appender.                 *)
LEMMA CuttingKeeps ==
  ASSUME BufInv, NEW l \in Lists, NEW m \in Lists, Splice(l, m) \/ Encode(l, m)
  PROVE  BufInv'
<1>0. Inv(State) /\ Now(l) \in Nat /\ Now(l) = State.lists[l].len /\ State.lists[m].len <= MaxLen
  BY NowIs
<1>1. CASE Splice(l, m)
  <2>1. PICK off \in 0..(Now(l) - 1), n \in 1..Now(l) :
          /\ off + n <= Now(l)
          /\ Do(splice(State, l, off, n, m), <<"splice", l, off, n, m>>)
    BY <1>1 DEF Splice
  <2>2. off \in Nat /\ n \in Nat \ {0} /\ off + n <= State.lists[l].len BY <1>0, <2>1
  <2>3. Inv(splice(State, l, off, n, m)) BY <1>0, <2>2, SpliceIs
  <2> QED BY <2>1, <2>3, DoInv
<1>2. CASE Encode(l, m)
  <2> DEFINE c(t) == <<"encode", l, m, <<1 + Now(m) + Len(t), Now(m)>>, t>>
  <2>1. PICK tail \in {<<>>, <<3>>}, b \in Bases :
          l # m /\ Room(1) /\ Do(encode(State, l, m, tail, b), c(tail))
    BY <1>2 DEF Encode
  <2>2. Spare(State) BY <2>1, SpareIs
  <2>3. tail \in Seq(Byte)
    <3>1. 3 \in Byte BY Bytes
    <3>2. <<3>> \in Seq(Byte) BY <3>1
    <3>3. <<>> \in Seq(Byte) OBVIOUS
    <3> QED BY <3>2, <3>3
  <2> DEFINE T == encode(State, l, m, tail, b)
  <2>4. Sound(T) /\ (T.lists[l].len <= MaxLen => Inv(T)) BY <1>0, <2>1, <2>2, <2>3, EncodeIs
  <2>5. Do(T, c(tail)) BY <2>1
  <2> HIDE DEF T, c
  <2> QED BY <2>4, <2>5, DoIs
<1> QED BY <1>1, <1>2

-----------------------------------------------------------------------------
(* The invariant and what it says                                            *)

(* Lists start empty, and no raw is live.                                   *)
LEMMA InitBufInv == Init => BufInv
<1> SUFFICES ASSUME Init PROVE BufInv OBVIOUS
<1> DEFINE S == State
<1>1. S.raws = [r \in Raws |-> Dead] /\ S.lists = [l \in Lists |-> NewList]
      /\ S = [raws |-> S.raws, lists |-> S.lists]
  BY DEF Init, State
<1> HIDE DEF S
<1>2. \A r \in Raws : S.raws[r] = Dead BY <1>1
<1>3. \A l \in Lists : S.lists[l] = NewList /\ Bufs(S, l) = <<>> BY <1>1 DEF Bufs, NewList
<1>4. NewList \in ListType /\ NewList.len = 0 /\ NewList.num = 0 BY ElsNone DEF ListType, NewList
<1>5. RawShape(Dead) /\ Dead.len = 0 /\ Dead.data = <<>> BY DEF RawShape, Dead
<1>6. Shape(S) BY <1>1, <1>2, <1>3, <1>4, <1>5 DEF Shape
<1>7. Chains(S) BY <1>3, <1>4, ElsNone DEF Chains
<1>8. Owners(S) BY <1>3, ElsNone DEF Owners
<1>9. Filled(S)
  <2>1. <<>> \in Seq(Byte) /\ Len(<<>>) = 0 OBVIOUS
  <2>2. Dead.data \in Seq(Byte) /\ Len(Dead.data) = Dead.len BY <1>5, <2>1
  <2> QED BY <1>2, <2>2 DEF Filled
<1>10. Exact(S) BY <1>3, <1>4, TotalEmpty DEF Exact
<1>11. Bounded(S)
  <2>1. 0 <= MaxLen /\ 0 <= MaxBufs /\ 0 <= MaxRaw
    <3>1. MaxRaw \in Nat /\ MaxBufs \in Nat /\ MaxLen \in Byte BY BufferAssumption
    <3> QED BY <3>1, Bytes
  <2>2. Len(<<>>) = 0 OBVIOUS
  <2> QED BY <1>2, <1>3, <1>4, <1>5, <2>1, <2>2 DEF Bounded
<1> QED BY <1>6, <1>7, <1>8, <1>9, <1>10, <1>11 DEF BufInv, Inv, Sound, S

(* Every call keeps the invariant, the release() at its end included.       *)
LEMMA NextBufInv == BufInv /\ [Next]_vars => BufInv'
<1> SUFFICES ASSUME BufInv, [Next]_vars PROVE BufInv' OBVIOUS
<1>1. CASE UNCHANGED vars BY <1>1 DEF BufInv, vars, State, Bounded, Inv, Sound, Shape, Chains,
                                     Owners, Filled, Exact, Bufs, Fit
<1>2. ASSUME NEW l \in Lists, NEW m \in Lists,
             \/ AppendData(l) \/ AppendChar(l) \/ AppendZero(l) \/ AppendHole(l) \/ PrependZero(l)
             \/ Reserve(l) \/ ReadFd(l) \/ Clear(l) \/ Rebuild(l) \/ CStr(l) \/ RebuildAligned(l)
             \/ CopyIn(l) \/ Zero(l) \/ Crc(l)
             \/ IterCopy(l, m) \/ PushPtr(l, m) \/ AppendList(l, m) \/ ClaimAppend(l, m)
             \/ Assign(l, m) \/ Move(l, m) \/ Swap(l, m) \/ SubstrOf(l, m) \/ Splice(l, m)
             \/ Encode(l, m)
      PROVE  BufInv'
  BY <1>2, AppendingKeeps, MakingRoomKeeps, RebuildingKeeps, WritingKeeps, SharingKeeps,
     ExchangingKeeps, CuttingKeeps
<1> QED BY <1>1, <1>2 DEF Next

(* At most one node of a chain is the carriage, counted.                     *)
LEMMA CarCount ==
  ASSUME NEW b \in Seq(Node), OneCar(b)
  PROVE  Cardinality({k \in DOMAIN b : b[k].car}) <= 1
<1> DEFINE C == {k \in DOMAIN b : b[k].car}
<1>1. CASE C = {}
  <2>1. Cardinality(C) = 0 BY <1>1, FS_EmptySet
  <2> QED BY <2>1
<1>2. CASE C # {}
  <2>1. PICK k \in C : TRUE BY <1>2
  <2>2. C = {k} BY <2>1 DEF OneCar
  <2> HIDE DEF C
  <2>3. Cardinality(C) = 1 BY <2>2, FS_Singleton
  <2> QED BY <2>3 DEF C
<1> QED BY <1>1, <1>2

(* The invariant holds the types and the counters ...                       *)
LEMMA TypeFromInv == BufInv => BufferTypeOK
<1> SUFFICES ASSUME BufInv PROVE BufferTypeOK OBVIOUS
<1>0. /\ Inv(State) /\ Sound(State) /\ Filled(State) /\ Exact(State) /\ Shape(State)
      /\ Chains(State) /\ Bounded(State)
  BY DEF BufInv, Inv, Sound
<1>1. ASSUME NEW l \in Lists
      PROVE  /\ lists[l].len = Total(lists[l].bufs)
             /\ lists[l].num = Len(lists[l].bufs)
             /\ Cardinality({k \in DOMAIN lists[l].bufs : lists[l].bufs[k].car}) <= 1
             /\ \A k \in DOMAIN lists[l].bufs :
                  /\ lists[l].bufs[k] \in [raw : Raws, off : 0..MaxRaw, len : 0..MaxLen, car : BOOLEAN]
                  /\ End(lists[l].bufs[k]) <= raws[lists[l].bufs[k].raw].len
  <2> DEFINE b == Bufs(State, l)
  <2>1. lists[l].bufs = b /\ lists[l] = State.lists[l] BY StateIs DEF Bufs
  <2>2. b \in Seq(Node) /\ State.lists[l].len = Total(b) /\ State.lists[l].num = Len(b) /\ OneCar(b)
        /\ State.lists[l].len <= MaxLen
    BY <1>0, BufsTyped DEF Exact, Chains, Bounded
  <2> HIDE DEF b
  <2>3. Cardinality({k \in DOMAIN b : b[k].car}) <= 1 BY <2>2, CarCount
  <2>4. ASSUME NEW k \in DOMAIN b
        PROVE  /\ b[k] \in [raw : Raws, off : 0..MaxRaw, len : 0..MaxLen, car : BOOLEAN]
               /\ End(b[k]) <= raws[b[k].raw].len
    <3> DEFINE n == b[k]
    <3>1. n \in Node /\ n \in Els(b) BY <2>2 DEF Els
    <3> HIDE DEF n
    <3>2. End(n) <= raws[n.raw].len BY <1>0, <3>1, StateIs DEF Chains, Fit, b
    <3>3. n.raw \in Raws /\ n.off \in Nat /\ n.len \in Nat /\ n.car \in BOOLEAN /\ End(n) = n.off + n.len
          /\ n = [raw |-> n.raw, off |-> n.off, len |-> n.len, car |-> n.car]
      BY <3>1 DEF Node, End
    <3>4. raws[n.raw].len \in Nat /\ raws[n.raw].len <= MaxRaw /\ MaxRaw \in Nat
      BY <1>0, <3>3, StateIs, BufferAssumption DEF Shape, RawShape, Bounded
    <3>5. n.len <= Total(b) /\ Total(b) \in Nat BY <2>2, <3>1, NodeInTotal, TotalNat
    <3>6. Total(b) <= MaxLen /\ MaxLen \in Nat
      <4>1. MaxLen \in Byte BY BufferAssumption
      <4> QED BY <2>2, <4>1, Bytes
    <3>7. n.off \in 0..MaxRaw
      <4> DEFINE o == n.off
                 w == n.len
                 R == raws[n.raw].len
      <4>1. o \in Nat /\ w \in Nat /\ R \in Nat /\ o + w <= R /\ R <= MaxRaw /\ MaxRaw \in Nat
        BY <3>2, <3>3, <3>4
      <4> HIDE DEF o, w, R
      <4>2. o \in 0..MaxRaw BY ONLY <4>1
      <4> QED BY <4>2 DEF o
    <3>8. n.len \in 0..MaxLen
      <4> DEFINE w == n.len
                 t == Total(b)
      <4>1. w \in Nat /\ t \in Nat /\ w <= t /\ t <= MaxLen /\ MaxLen \in Nat BY <3>3, <3>5, <3>6
      <4> HIDE DEF w, t
      <4>2. w \in 0..MaxLen BY ONLY <4>1
      <4> QED BY <4>2 DEF w
    <3>9. n \in [raw : Raws, off : 0..MaxRaw, len : 0..MaxLen, car : BOOLEAN] BY <3>3, <3>7, <3>8
    <3> QED BY <3>2, <3>9 DEF n
  <2> QED BY <2>1, <2>2, <2>3, <2>4
<1>2. ASSUME NEW r \in Raws PROVE raws[r].data \in Seq(Byte) /\ Len(raws[r].data) = raws[r].len
  BY <1>0, StateIs DEF Filled
<1> QED BY <1>1, <1>2 DEF BufferTypeOK

(* ... and keeps the tails apart: the only carriage in a raw is the last    *)
(* node there.                                                              *)
LEMMA TailFromInv == BufInv => TailExclusive
<1> SUFFICES ASSUME BufInv, NEW l \in Lists, HasCarriage(State, l),
                    NEW m \in Lists, NEW k \in DOMAIN lists[m].bufs
             PROVE  LET c == Carriage(State, l)
                        n == lists[m].bufs[k]
                    IN  n.raw = c.raw => /\ End(n) <= End(c)
                                         /\ (n.car /\ m # l /\ UnusedTail(State, l) > 0)
                                              => UnusedTail(State, m) = 0
  BY DEF TailExclusive
<1> DEFINE c == Carriage(State, l)
           n == lists[m].bufs[k]
<1>0. Sound(State) /\ Owners(State) BY DEF BufInv, Inv, Sound
<1>1. c \in Els(Bufs(State, l)) /\ c.car BY <1>0, CarriageIs
<1>2. n \in Els(Bufs(State, m)) BY StateIs DEF Bufs, Els
<1> HIDE DEF c, n
<1>3. n.raw = c.raw => End(n) <= End(c) /\ (n.car => m = l) BY <1>0, <1>1, <1>2 DEF Owners
<1> QED BY <1>3 DEF c, n

(* BufferTypeOK for every value of the constants: after any calls _len is   *)
(* the bytes of the chain, _num the nodes that are counted in it, a chain   *)
(* has at most one carriage, and no node reaches beyond its raw.            *)
THEOREM BufferIsTyped == Spec => []BufferTypeOK
  BY InitBufInv, NextBufInv, TypeFromInv, PTL DEF Spec

(* TailExclusive for every value of the constants: ptr::append() writes in  *)
(* the unused tail of a carriage without looking who else refers to the     *)
(* raw, and no other list has a byte or a carriage there.                   *)
THEOREM UnusedTailIsExclusive == Spec => []TailExclusive
  BY InitBufInv, NextBufInv, TailFromInv, PTL DEF Spec
=============================================================================
