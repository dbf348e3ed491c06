--------------------------- MODULE FreelistProofs ---------------------------
(***************************************************************************)
(* Proofs about the bitmap freelist manager: the bits say what the         *)
(* committed transactions did (BitmapExact), synced allocations survive a  *)
(* crash (AckedMarked), a transaction keeps to its prefixes                *)
(* (PrefixIsolation), and enumerate_next() returns exactly the free        *)
(* extents of one version (EnumeratesSnapshot), for every geometry of the  *)
(* bitmap, every set of extents and every other client of the database.    *)
(*                                                                         *)
(* The argument: what applying a transaction does, one operation after the *)
(* other (an induction on its length); the arithmetic of blocks, keys and  *)
(* bits; that _xor() toggles the bits of its extent and nothing else; the  *)
(* inductive invariant FInv over all versions a crash may come back with.  *)
(* For the enumeration: every version has finitely many keys, all of them  *)
(* on the device (KeysOK), so that an iterator's items are sorted and say  *)
(* what the version says; what the two loops of enumerate_next() find      *)
(* (FreeStartIs, FreeEndIs); and what holds between two calls (EnumOK).    *)
(***************************************************************************)
EXTENDS Freelist, Induction, TLAPS

-----------------------------------------------------------------------------
(* Transactions: FoldLeft() as a loop over the operations                   *)

(* The element a left fold takes first from a set of indices is its largest. *)
LEMMA MaxIsLargest ==
  ASSUME NEW n \in Nat, NEW s \in SUBSET (1..n), s # {}
  PROVE  Max(s) \in s /\ \A y \in s : y <= Max(s)
<1> DEFINE T == {t \in Nat : n - t \in s}
<1>0. \A y \in s : y \in 1..n
  OBVIOUS
<1>1. \A y \in s : n - y \in T
  BY <1>0
<1>2. T \in SUBSET Nat /\ T # {}
  BY <1>1
<1>3. PICK t \in T : \A u \in T : t <= u
  <2> HIDE DEF T
  <2> QED BY <1>2, LeastElement
<1>4. t \in Nat /\ n - t \in s
  OBVIOUS
<1> HIDE DEF T
<1>5. ASSUME NEW y \in s PROVE n - t >= y
  BY <1>0, <1>1, <1>3, <1>4
<1>6. Max(s) \in s /\ \A y \in s : Max(s) >= y
  BY <1>4, <1>5 DEF Max
<1> QED BY <1>0, <1>6

(* The largest of the first n + 1 operations is the last of them.           *)
LEMMA MaxOfTop ==
  ASSUME NEW n \in Nat, NEW s \in SUBSET (1..(n + 1)), n + 1 \in s
  PROVE  Max(s) = n + 1
<1>1. Max(s) \in s /\ \A y \in s : y <= Max(s)
  BY MaxIsLargest, n + 1 \in Nat, s # {}
<1>2. Max(s) \in 1..(n + 1)
  BY <1>1
<1>3. n + 1 <= Max(s)
  BY <1>1
<1> QED BY <1>2, <1>3

(* The function FoldLeft() is defined by: g[s] is the version after the     *)
(* operations at the indices s of a transaction.                            *)
IsIter(g, d, ops, n) ==
  g = [s \in SUBSET (1..n) |-> IF s = {} THEN d ELSE Apply(g[s \ {Max(s)}], ops[Max(s)])]

(* For a transaction of any length there is such a function ...             *)
LEMMA IterExists ==
  ASSUME NEW d, NEW ops, NEW n \in Nat
  PROVE  \E g : IsIter(g, d, ops, n)
<1> USE DEF IsIter
<1> HIDE DEF Apply, Max
<1> DEFINE S == {i \in Nat : \E g : IsIter(g, d, ops, i)}
<1>1. 0 \in S
  <2> DEFINE g == [s \in SUBSET (1..0) |-> d]
  <2>0. \A s \in SUBSET (1..0) : s = {} OBVIOUS
  <2>1. IsIter(g, d, ops, 0) BY <2>0
  <2> QED BY <2>1
<1>2. ASSUME NEW i \in 0..(n - 1), i \in S PROVE i + 1 \in S
  <2>1. PICK g : IsIter(g, d, ops, i) BY <1>2
  <2> DEFINE h == [s \in SUBSET (1..(i + 1)) |->
                     IF i + 1 \in s THEN Apply(g[s \ {i + 1}], ops[i + 1]) ELSE g[s]]
  <2>2. ASSUME NEW s \in SUBSET (1..(i + 1))
        PROVE  h[s] = IF s = {} THEN d ELSE Apply(h[s \ {Max(s)}], ops[Max(s)])
    <3>1. CASE i + 1 \in s
      <4>1. Max(s) = i + 1 BY <3>1, MaxOfTop
      <4>2. s \ {i + 1} \in SUBSET (1..(i + 1)) /\ i + 1 \notin s \ {i + 1} OBVIOUS
      <4>3. h[s \ {i + 1}] = g[s \ {i + 1}] BY <4>2
      <4> QED BY <3>1, <4>1, <4>3
    <3>2. CASE i + 1 \notin s
      <4>1. s \in SUBSET (1..i) BY <3>2
      <4>2. h[s] = g[s] BY <3>2
      <4>3. g[s] = IF s = {} THEN d ELSE Apply(g[s \ {Max(s)}], ops[Max(s)])
        BY <2>1, <4>1
      <4>4. s \ {Max(s)} \in SUBSET (1..(i + 1)) /\ i + 1 \notin s \ {Max(s)}
        BY <3>2
      <4>5. h[s \ {Max(s)}] = g[s \ {Max(s)}] BY <4>4
      <4> QED BY <4>2, <4>3, <4>5
    <3> QED BY <3>1, <3>2
  <2>3. IsIter(h, d, ops, i + 1) BY <2>2
  <2> HIDE DEF IsIter
  <2> QED BY <2>3
<1> HIDE DEF S, IsIter
<1>3. \A i \in 0..n : i \in S
  BY <1>1, <1>2, LoopInduction
<1>4. n \in S
  BY <1>3
<1> QED BY <1>4 DEF S

(* ... and there is one such function.                                      *)
LEMMA IterUnique ==
  ASSUME NEW d, NEW ops, NEW n \in Nat, NEW g, NEW f,
         IsIter(g, d, ops, n), IsIter(f, d, ops, n)
  PROVE  g = f
<1> HIDE DEF Apply, Max
<1> DEFINE S == {i \in Nat : \A s \in SUBSET (1..i) : i <= n => g[s] = f[s]}
<1>0. \A s \in SUBSET (1..n) :
         /\ g[s] = IF s = {} THEN d ELSE Apply(g[s \ {Max(s)}], ops[Max(s)])
         /\ f[s] = IF s = {} THEN d ELSE Apply(f[s \ {Max(s)}], ops[Max(s)])
  BY DEF IsIter
<1>1. 0 \in S
  <2>0. \A s \in SUBSET (1..0) : s = {} OBVIOUS
  <2>1. {} \in SUBSET (1..n) OBVIOUS
  <2>2. g[{}] = f[{}] BY <1>0, <2>1
  <2> QED BY <2>0, <2>2
<1>2. ASSUME NEW i \in 0..(n - 1), i \in S PROVE i + 1 \in S
  <2>1. ASSUME NEW s \in SUBSET (1..(i + 1)) PROVE g[s] = f[s]
    <3>1. CASE i + 1 \in s
      <4>1. Max(s) = i + 1 BY <3>1, MaxOfTop
      <4>2. s \ {i + 1} \in SUBSET (1..i) OBVIOUS
      <4>3. g[s \ {i + 1}] = f[s \ {i + 1}] BY <1>2, <4>2
      <4>4. s \in SUBSET (1..n) OBVIOUS
      <4> QED BY <1>0, <3>1, <4>1, <4>3, <4>4
    <3>2. CASE i + 1 \notin s
      <4>1. s \in SUBSET (1..i) BY <3>2
      <4> QED BY <1>2, <4>1
    <3> QED BY <3>1, <3>2
  <2> QED BY <2>1
<1> HIDE DEF S
<1>3. \A i \in 0..n : i \in S
  BY <1>1, <1>2, LoopInduction
<1>4. \A s \in SUBSET (1..n) : g[s] = f[s]
  BY <1>3 DEF S
<1> QED BY <1>4 DEF IsIter

(* Submitted() applies operations with this fold.                            *)
ApplyAll(d, ops) == FoldLeft(Apply, d, ops)

(* What submit_transaction() computes is that function at all indices.      *)
LEMMA FoldIsIter ==
  ASSUME NEW d, NEW ops, NEW n \in Nat, DOMAIN ops = 1..n, NEW g, IsIter(g, d, ops, n)
  PROVE  ApplyAll(d, ops) = g[1..n]
<1>1. \A h : (h = [s \in SUBSET (1..n) |-> IF s = {} THEN d ELSE Apply(h[s \ {Max(s)}], ops[Max(s)])]) => h = g
  <2>1. \A h : IsIter(h, d, ops, n) => h = g
    BY IterUnique
  <2> QED BY <2>1 DEF IsIter
<1>2. g = [s \in SUBSET (1..n) |-> IF s = {} THEN d ELSE Apply(g[s \ {Max(s)}], ops[Max(s)])]
  BY DEF IsIter
<1> HIDE DEF Apply, Max
<1> QED BY <1>1, <1>2, Zenon DEF ApplyAll, FoldLeft, MapThenFoldSet

(* A transaction is applied one operation after the other: there is a list  *)
(* of versions from the one it finds to the one it leaves.                  *)
LEMMA FoldSteps ==
  ASSUME NEW d, NEW ops, NEW n \in Nat, DOMAIN ops = 1..n
  PROVE  \E st : /\ st[0] = d
                 /\ \A i \in 1..n : st[i] = Apply(st[i - 1], ops[i])
                 /\ ApplyAll(d, ops) = st[n]
<1> HIDE DEF Apply, Max
<1>1. PICK g : IsIter(g, d, ops, n)
  BY IterExists
<1> DEFINE st == [i \in 0..n |-> g[1..i]]
<1>2. st[0] = d
  <2>1. 1..0 = {} OBVIOUS
  <2>2. {} \in SUBSET (1..n) OBVIOUS
  <2>3. g[{}] = d BY <1>1, <2>2 DEF IsIter
  <2> QED BY <2>1, <2>3
<1>3. ASSUME NEW i \in 1..n PROVE st[i] = Apply(st[i - 1], ops[i])
  <2>1. 1..i \in SUBSET (1..n) /\ 1..i # {} OBVIOUS
  <2>2. Max(1..i) = i
    <3>1. i - 1 \in Nat /\ (i - 1) + 1 = i OBVIOUS
    <3>2. 1..i \in SUBSET (1..((i - 1) + 1)) /\ (i - 1) + 1 \in 1..i BY <3>1
    <3>3. Max(1..i) = (i - 1) + 1 BY <3>1, <3>2, MaxOfTop
    <3> QED BY <3>1, <3>3
  <2>3. (1..i) \ {i} = 1..(i - 1) OBVIOUS
  <2>4. g[1..i] = Apply(g[(1..i) \ {Max(1..i)}], ops[Max(1..i)])
    BY <1>1, <2>1 DEF IsIter
  <2>5. st[i] = g[1..i] /\ st[i - 1] = g[1..(i - 1)] OBVIOUS
  <2> HIDE DEF st
  <2> QED BY <2>2, <2>3, <2>4, <2>5
<1>4. ApplyAll(d, ops) = st[n]
  <2>1. ApplyAll(d, ops) = g[1..n] BY <1>1, FoldIsIter
  <2> QED BY <2>1
<1> HIDE DEF st
<1> QED BY <1>2, <1>3, <1>4

-----------------------------------------------------------------------------
(* Blocks, keys and bits: key q covers the blocks At(q) .. At(q + 1) - 1    *)

\* the key of the bitmap's q-th group of BPK blocks
At(q) == q * BPK

(* The key of a block (the key_mask_ of _xor()) is the multiple *)
(* of blocks_per_key_ at or below it, and the rest is its bit.              *)
LEMMA KeyOfBlock ==
  ASSUME NEW b \in Nat
  PROVE  /\ b \div BPK \in Nat
         /\ KeyOf(b) = At(b \div BPK)
         /\ At(b \div BPK) <= b /\ b < At(b \div BPK) + BPK
         /\ b % BPK = b - At(b \div BPK)
         /\ b % BPK \in Bits
BY FreelistAssumption DEF At, KeyOf, Bits

(* Two different keys are at least blocks_per_key_ blocks apart.            *)
LEMMA KeysApart ==
  ASSUME NEW q \in Nat, NEW r \in Nat, q < r
  PROVE  At(q) + BPK <= At(r)
BY FreelistAssumption DEF At

(* A key is an offset that blocks_per_key_ divides.                         *)
LEMMA KeyIsMultiple ==
  ASSUME NEW q \in Nat
  PROVE  At(q) \in Nat /\ At(q) % BPK = 0
BY FreelistAssumption DEF At

(* The number of keys between two keys, as _xor() counts its merges.        *)
LEMMA KeyDistance ==
  ASSUME NEW q \in Nat, NEW r \in Nat, q <= r
  PROVE  (At(r) - At(q)) \div BPK = r - q
BY FreelistAssumption DEF At

(* The loop of _xor() goes from one key to the next.                        *)
LEMMA KeyStep ==
  ASSUME NEW q \in Nat, NEW i \in Nat
  PROVE  At(q) + i * BPK = At(q + i)
BY FreelistAssumption DEF At

(* A bit of a key is one block's, and that block's key is the key.          *)
LEMMA BlockInKey ==
  ASSUME NEW q \in Nat, NEW b \in Nat, At(q) <= b, b < At(q) + BPK
  PROVE  b \div BPK = q
<1> DEFINE p == b \div BPK
<1>1. p \in Nat /\ At(p) <= b /\ b < At(p) + BPK
  BY KeyOfBlock
<1>2. At(p) \in Nat /\ At(q) \in Nat /\ BPK \in Nat
  BY <1>1, KeyIsMultiple, FreelistAssumption
<1> HIDE DEF p
<1>3. ~(p < q)
  <2> SUFFICES ASSUME p < q PROVE FALSE OBVIOUS
  <2>1. At(p) + BPK <= At(q) BY <1>1, KeysApart
  <2> QED BY <1>1, <1>2, <2>1
<1>4. ~(q < p)
  <2> SUFFICES ASSUME q < p PROVE FALSE OBVIOUS
  <2>1. At(q) + BPK <= At(p) BY <1>1, KeysApart
  <2> QED BY <1>1, <1>2, <2>1
<1>5. p = q BY <1>1, <1>3, <1>4
<1> QED BY <1>5 DEF p

(* The bits of key q an extent covers are those of its blocks.              *)
LEMMA CoveredBit ==
  ASSUME NEW off \in Nat, NEW len \in Nat, NEW b \in Nat
  PROVE  (b % BPK) \in KeyBits(off, len, KeyOf(b)) <=> b \in Span(off, len)
<1> DEFINE k == At(b \div BPK)
<1>1. KeyOf(b) = k /\ k <= b /\ b < k + BPK /\ b % BPK = b - k /\ k \in Nat /\ BPK \in Nat
  BY KeyOfBlock, KeyIsMultiple, FreelistAssumption
<1> HIDE DEF k
<1>2. (b - k) \in KeyBits(off, len, k) <=> b \in Span(off, len)
  <2>1. (b - k) \in KeyBits(off, len, k) <=> \E a \in (k..(k + BPK - 1)) \cap Span(off, len) : b - k = a - k
    BY DEF KeyBits
  <2>2. \A a \in (k..(k + BPK - 1)) : b - k = a - k <=> a = b
    BY <1>1
  <2>3. b \in k..(k + BPK - 1) BY <1>1
  <2> QED BY <2>1, <2>2, <2>3
<1> QED BY <1>1, <1>2

(* The mask _xor() builds for a key has bits of one key only.               *)
LEMMA KeyBitsType ==
  ASSUME NEW off \in Nat, NEW len \in Nat, NEW q \in Nat
  PROVE  KeyBits(off, len, At(q)) \in SUBSET Bits
<1>1. At(q) \in Nat /\ BPK \in Nat
  BY KeyIsMultiple, FreelistAssumption
<1> QED BY <1>1 DEF KeyBits, Bits

-----------------------------------------------------------------------------
(* The effect of _xor() on a version of the database.                       *)

BitmapTyped(d) == \A x \in KeysOf(d, BITMAP) : x[2] % BPK = 0 /\ d[x] \subseteq Bits

SameOutside(d, e, p) ==
  \A x : x[1] # p => /\ x \in DOMAIN e <=> x \in DOMAIN d
                     /\ x \in DOMAIN d => e[x] = d[x]

(* One merge flips the bits of its operand in its key and nothing else.     *)
LEMMA MergeFlips ==
  ASSUME NEW d, BitmapTyped(d), NEW q \in Nat, NEW v \in SUBSET Bits, NEW e,
         e = Apply(d, MergeOp(BITMAP, At(q), v))
  PROVE  /\ BitmapTyped(e)
         /\ SameOutside(d, e, BITMAP)
         /\ Marked(e, At(q)) = SymDiff(Marked(d, At(q)), v)
         /\ \A r \in Nat : r # q => Marked(e, At(r)) = Marked(d, At(r))
<1> DEFINE x == <<BITMAP, At(q)>>
           w == IF x \in DOMAIN d THEN SymDiff(d[x], v) ELSE v
<1>1. e = With(d, x, w)
  <2>1. BITMAP \in XorPrefixes BY FreelistAssumption
  <2>2. HasOperator(BITMAP) BY <2>1 DEF HasOperator
  <2> DEFINE o == MergeOp(BITMAP, At(q), v)
  <2>3. o.op = "merge" /\ o.p = BITMAP /\ o.k = At(q) /\ o.v = v BY DEF MergeOp
  <2> HIDE DEF o
  <2>4. Apply(d, o) = Merged(d, o) BY <2>2, <2>3 DEF Apply
  <2>5. Merged(d, o) = With(d, x, w) BY <2>1, <2>3 DEF Merged, MergeValue
  <2> QED BY <2>4, <2>5 DEF o
<1>2. x[1] = BITMAP /\ x[2] = At(q) OBVIOUS
<1>3. x \in DOMAIN d => d[x] \in SUBSET Bits
  BY <1>2 DEF BitmapTyped, KeysOf
<1>4. w \in SUBSET Bits
  BY <1>3 DEF SymDiff
<1>5. At(q) % BPK = 0 BY KeyIsMultiple
<1>6. Unreadable \notin SUBSET Bits BY FreelistAssumption DEF Bits
<1>7. DOMAIN e = DOMAIN d \cup {x} /\ e[x] = w /\ \A y \in DOMAIN d : y # x => e[y] = d[y]
  BY <1>1 DEF With
<1>8. BitmapTyped(e)
  <2> SUFFICES ASSUME NEW y \in DOMAIN e, y[1] = BITMAP
               PROVE  y[2] % BPK = 0 /\ e[y] \subseteq Bits
    BY DEF BitmapTyped, KeysOf
  <2>1. CASE y = x BY <1>2, <1>4, <1>5, <1>7, <2>1
  <2>2. CASE y # x
    <3>1. y \in DOMAIN d /\ e[y] = d[y] BY <1>7, <2>2
    <3> QED BY <3>1 DEF BitmapTyped, KeysOf
  <2> QED BY <2>1, <2>2
<1>9. Marked(e, At(q)) = w
  BY <1>4, <1>6, <1>7 DEF Marked, GetOr
<1>10. Marked(d, At(q)) = IF x \in DOMAIN d THEN d[x] ELSE {}
  BY <1>3, <1>6 DEF Marked, GetOr
<1>11. Marked(e, At(q)) = SymDiff(Marked(d, At(q)), v)
  BY <1>9, <1>10 DEF SymDiff
<1>12. ASSUME NEW r \in Nat, r # q PROVE Marked(e, At(r)) = Marked(d, At(r))
  <2>1. At(r) # At(q)
    <3>1. At(r) \in Nat /\ At(q) \in Nat /\ BPK \in Nat \ {0} BY KeyIsMultiple, FreelistAssumption
    <3>2. CASE r < q BY <3>1, <3>2, KeysApart
    <3>3. CASE q < r BY <3>1, <3>3, KeysApart
    <3> QED BY <1>12, <3>2, <3>3
  <2> DEFINE y == <<BITMAP, At(r)>>
  <2>2. y # x BY <2>1
  <2>3. (y \in DOMAIN e <=> y \in DOMAIN d) /\ (y \in DOMAIN d => e[y] = d[y])
    BY <1>7, <2>2
  <2> QED BY <2>3 DEF Marked, GetOr
<1>13. SameOutside(d, e, BITMAP)
  <2> HIDE DEF x, w
  <2> QED BY <1>2, <1>7 DEF SameOutside
<1> QED BY <1>8, <1>11, <1>12, <1>13

(* _xor() as a loop over the keys from the first to the last of an extent.  *)
LEMMA XorOps ==
  ASSUME NEW off \in Nat, NEW len \in Nat \ {0}
  PROVE  LET f == off \div BPK
             l == (off + len - 1) \div BPK
             n == l - f + 1
         IN /\ f \in Nat /\ l \in Nat /\ n \in Nat
            /\ Xor(off, len) = [i \in 1..n |->
                 MergeOp(BITMAP, At(f + i - 1), KeyBits(off, len, At(f + i - 1)))]
<1> DEFINE f == off \div BPK
           l == (off + len - 1) \div BPK
           n == l - f + 1
<1>1. off + len - 1 \in Nat OBVIOUS
<1>2. /\ f \in Nat /\ KeyOf(off) = At(f) /\ At(f) <= off
      /\ l \in Nat /\ KeyOf(off + len - 1) = At(l) /\ off + len - 1 < At(l) + BPK
  BY <1>1, KeyOfBlock
<1> HIDE DEF f, l
<1>3. f <= l
  <2> SUFFICES ASSUME l < f PROVE FALSE BY <1>2
  <2>1. At(l) + BPK <= At(f) BY <1>2, KeysApart
  <2>2. At(l) \in Nat /\ At(f) \in Nat /\ BPK \in Nat BY <1>2, KeyIsMultiple, FreelistAssumption
  <2> QED BY <1>2, <2>1, <2>2
<1>4. ((At(l) - At(f)) \div BPK) + 1 = n /\ n \in Nat
  BY <1>2, <1>3, KeyDistance
<1>5. \A i \in 1..n : At(f) + (i - 1) * BPK = At(f + i - 1)
  <2> TAKE i \in 1..n
  <2>1. i - 1 \in Nat /\ f + (i - 1) = f + i - 1 BY <1>2, <1>4
  <2>2. At(f) + (i - 1) * BPK = At(f + (i - 1)) BY <1>2, <2>1, KeyStep
  <2> QED BY <2>1, <2>2
<1> HIDE DEF n
<1>6. Xor(off, len) = [i \in 1..n |->
         MergeOp(BITMAP, At(f) + (i - 1) * BPK, KeyBits(off, len, At(f) + (i - 1) * BPK))]
  <2> HIDE DEF At, MergeOp, KeyBits
  <2> QED BY <1>2, <1>4 DEF Xor
<1>7. Xor(off, len) = [i \in 1..n |->
         MergeOp(BITMAP, At(f + i - 1), KeyBits(off, len, At(f + i - 1)))]
  <2> HIDE DEF At, MergeOp, KeyBits
  <2> QED BY <1>5, <1>6
<1> QED BY <1>2, <1>4, <1>7 DEF f, l, n

(* Outside these keys the extent covers no bit.                             *)
LEMMA NoBitsOutside ==
  ASSUME NEW off \in Nat, NEW len \in Nat \ {0}, NEW q \in Nat,
         q < off \div BPK \/ (off + len - 1) \div BPK < q
  PROVE  KeyBits(off, len, At(q)) = {}
<1> SUFFICES ASSUME NEW b \in (At(q)..(At(q) + BPK - 1)) \cap Span(off, len) PROVE FALSE
  BY DEF KeyBits
<1>0. At(q) \in Nat /\ BPK \in Nat BY KeyIsMultiple, FreelistAssumption
<1>1. b \in Nat /\ At(q) <= b /\ b < At(q) + BPK /\ off <= b /\ b <= off + len - 1
  BY <1>0 DEF Span
<1>2. b \div BPK = q BY <1>1, BlockInKey
<1> DEFINE f == off \div BPK
           l == (off + len - 1) \div BPK
<1>3. f \in Nat /\ At(f) <= off /\ off < At(f) + BPK BY KeyOfBlock
<1>4. l \in Nat /\ At(l) <= off + len - 1 /\ off + len - 1 < At(l) + BPK
  BY KeyOfBlock, off + len - 1 \in Nat
<1>5. At(f) \in Nat /\ At(l) \in Nat BY <1>3, <1>4, KeyIsMultiple
<1> HIDE DEF f, l
<1>6. CASE q < f
  <2>1. At(q) + BPK <= At(f) BY <1>3, <1>6, KeysApart
  <2> QED BY <1>0, <1>1, <1>3, <1>5, <2>1
<1>7. CASE l < q
  <2>1. At(l) + BPK <= At(q) BY <1>4, <1>7, KeysApart
  <2> QED BY <1>0, <1>1, <1>4, <1>5, <2>1
<1> QED BY <1>6, <1>7 DEF f, l

(* The extent's merges, anywhere in a transaction, flip exactly its bits.   *)
Flipped(d, e, off, len) ==
  /\ BitmapTyped(e)
  /\ SameOutside(d, e, BITMAP)
  /\ \A q \in Nat : Marked(e, At(q)) = SymDiff(Marked(d, At(q)), KeyBits(off, len, At(q)))

(* The merges of _xor(), applied one after the other, toggle exactly the    *)
(* bits of the extent: the whole effect of allocate() and release().        *)
LEMMA XorFlips ==
  ASSUME NEW off \in Nat, NEW len \in Nat \ {0}, NEW st, NEW a \in Nat,
         NEW n \in Nat, DOMAIN Xor(off, len) = 1..n,
         BitmapTyped(st[a]),
         \A i \in 1..n : st[a + i] = Apply(st[a + i - 1], Xor(off, len)[i])
  PROVE  Flipped(st[a], st[a + n], off, len)
<1> DEFINE f == off \div BPK
           l == (off + len - 1) \div BPK
           K(q) == KeyBits(off, len, At(q))
<1>1. /\ f \in Nat /\ l \in Nat /\ l - f + 1 \in Nat
      /\ Xor(off, len) = [i \in 1..(l - f + 1) |-> MergeOp(BITMAP, At(f + i - 1), K(f + i - 1))]
  BY XorOps
<1>2. n = l - f + 1
  <2>1. 1..n = 1..(l - f + 1) BY <1>1
  <2> QED BY <1>1, <2>1
<1>3. \A i \in 1..n : Xor(off, len)[i] = MergeOp(BITMAP, At(f + i - 1), K(f + i - 1))
  BY <1>1, <1>2
<1>4. \A q \in Nat : K(q) \in SUBSET Bits
  BY KeyBitsType
<1>5. \A q \in Nat : q < f \/ l < q => K(q) = {}
  BY NoBitsOutside
<1> HIDE DEF f, l, K
<1> DEFINE Half(i) == /\ BitmapTyped(st[a + i])
                      /\ SameOutside(st[a], st[a + i], BITMAP)
                      /\ \A q \in Nat : Marked(st[a + i], At(q)) =
                            IF f <= q /\ q < f + i THEN SymDiff(Marked(st[a], At(q)), K(q))
                            ELSE Marked(st[a], At(q))
           S == {i \in Nat : Half(i)}
<1>6. 0 \in S
  <2>1. a + 0 = a OBVIOUS
  <2>2. \A q \in Nat : ~(f <= q /\ q < f + 0) BY <1>1
  <2> QED BY <2>1, <2>2 DEF SameOutside
<1>7. ASSUME NEW i \in 0..(n - 1), i \in S PROVE i + 1 \in S
  <2> DEFINE j == i + 1
             p == f + i
             v == K(p)
  <2>1. j \in 1..n /\ f + j - 1 = p /\ a + j - 1 = a + i /\ p \in Nat BY <1>1
  <2>2. st[a + j] = Apply(st[a + i], MergeOp(BITMAP, At(p), v))
    BY <1>3, <2>1
  <2>3. Half(i) BY <1>7
  <2>4. v \in SUBSET Bits BY <1>4, <2>1
  <2> HIDE DEF v, p, j
  <2>5. /\ BitmapTyped(st[a + j])
        /\ SameOutside(st[a + i], st[a + j], BITMAP)
        /\ Marked(st[a + j], At(p)) = SymDiff(Marked(st[a + i], At(p)), v)
        /\ \A r \in Nat : r # p => Marked(st[a + j], At(r)) = Marked(st[a + i], At(r))
    BY <2>1, <2>2, <2>3, <2>4, MergeFlips
  <2>6. SameOutside(st[a], st[a + j], BITMAP)
    BY <2>3, <2>5 DEF SameOutside
  <2>7. ASSUME NEW q \in Nat
        PROVE  Marked(st[a + j], At(q)) =
                 IF f <= q /\ q < f + j THEN SymDiff(Marked(st[a], At(q)), K(q))
                 ELSE Marked(st[a], At(q))
    <3>1. p = f + i /\ j = i + 1 /\ f \in Nat BY <1>1 DEF p, j
    <3>2. CASE q = p
      <4>1. ~(f <= q /\ q < f + i) /\ (f <= q /\ q < f + j) BY <3>1, <3>2
      <4>2. Marked(st[a + i], At(q)) = Marked(st[a], At(q)) BY <2>3, <4>1
      <4> QED BY <2>5, <3>2, <4>1, <4>2 DEF v
    <3>3. CASE q # p
      <4>1. (f <= q /\ q < f + i) <=> (f <= q /\ q < f + j) BY <3>1, <3>3
      <4>2. Marked(st[a + j], At(q)) = Marked(st[a + i], At(q)) BY <2>5, <3>3
      <4> QED BY <2>3, <4>1, <4>2
    <3> QED BY <3>2, <3>3
  <2>8. Half(j) BY <2>5, <2>6, <2>7
  <2>9. j \in Nat /\ j = i + 1 BY <2>1 DEF j
  <2> HIDE DEF Half
  <2> QED BY <2>8, <2>9
<1> HIDE DEF S
<1>8. \A i \in 0..n : i \in S
  BY <1>6, <1>7, LoopInduction
<1>9. Half(n) BY <1>8 DEF S
<1>10. ASSUME NEW q \in Nat
       PROVE  Marked(st[a + n], At(q)) = SymDiff(Marked(st[a], At(q)), K(q))
  <2>1. CASE f <= q /\ q < f + n BY <1>9, <2>1
  <2>2. CASE ~(f <= q /\ q < f + n)
    <3>1. q < f \/ l < q BY <1>1, <1>2, <2>2
    <3>2. K(q) = {} BY <1>5, <3>1
    <3>3. Marked(st[a + n], At(q)) = Marked(st[a], At(q)) BY <1>9, <2>2
    <3> QED BY <3>2, <3>3 DEF SymDiff
  <2> QED BY <2>1, <2>2
<1> QED BY <1>9, <1>10 DEF Flipped, K

-----------------------------------------------------------------------------
(* Whole transactions.                                                      *)

(* What submit_transaction() applies of a transaction is a prefix of it, on *)
(* MemDB the one before a merge without an operator.                        *)
LEMMA AppliedIsPrefix ==
  ASSUME NEW ops, NEW n \in Nat, ops \in Seq(Range(ops)), Len(ops) = n
  PROVE  \E m \in 0..n : /\ DOMAIN Applied(ops) = 1..m
                         /\ \A i \in 1..m : Applied(ops)[i] = ops[i]
                         /\ (\A i \in 1..n : ops[i].op = "merge" => HasOperator(ops[i].p)) => m = n
<1> DEFINE bad == {i \in DOMAIN ops : ops[i].op = "merge" /\ ~HasOperator(ops[i].p)}
<1>1. DOMAIN ops = 1..n OBVIOUS
<1>2. CASE backend = "memdb" /\ bad # {}
  <2>1. Min(bad) \in bad
    <3>1. bad \in SUBSET Nat BY <1>1
    <3> HIDE DEF bad
    <3>2. PICK x \in bad : \A y \in bad : x <= y BY <1>2, <3>1, LeastElement
    <3> QED BY <3>2 DEF Min
  <2> DEFINE m == Min(bad) - 1
  <2>2. m \in 0..n /\ m # n BY <1>1, <2>1
  <2>3. Applied(ops) = SubSeq(ops, 1, m) BY <1>2 DEF Applied
  <2>4. ~(\A i \in 1..n : ops[i].op = "merge" => HasOperator(ops[i].p)) BY <1>1, <1>2
  <2> HIDE DEF m, bad
  <2>5. DOMAIN SubSeq(ops, 1, m) = 1..m /\ \A i \in 1..m : SubSeq(ops, 1, m)[i] = ops[i]
    BY <1>1, <2>2
  <2> QED BY <2>2, <2>3, <2>4, <2>5
<1>3. CASE ~(backend = "memdb" /\ bad # {})
  <2>1. Applied(ops) = ops BY <1>3 DEF Applied
  <2> QED BY <1>1, <2>1
<1> QED BY <1>2, <1>3

(* The versions a transaction goes through.                                 *)
LEMMA SubmittedSteps ==
  ASSUME NEW d, NEW ops, NEW n \in Nat, ops \in Seq(Range(ops)), Len(ops) = n
  PROVE  \E st, m : /\ m \in 0..n
                    /\ st[0] = d
                    /\ \A i \in 1..m : st[i] = Apply(st[i - 1], ops[i])
                    /\ Submitted(d, ops) = st[m]
                    /\ (\A i \in 1..n : ops[i].op = "merge" => HasOperator(ops[i].p)) => m = n
<1>1. PICK m \in 0..n : /\ DOMAIN Applied(ops) = 1..m
                        /\ \A i \in 1..m : Applied(ops)[i] = ops[i]
                        /\ (\A i \in 1..n : ops[i].op = "merge" => HasOperator(ops[i].p)) => m = n
  BY AppliedIsPrefix
<1> HIDE DEF Apply, Applied
<1>2. PICK st : /\ st[0] = d
                /\ \A i \in 1..m : st[i] = Apply(st[i - 1], Applied(ops)[i])
                /\ ApplyAll(d, Applied(ops)) = st[m]
  BY <1>1, m \in Nat, FoldSteps
<1>3. \A i \in 1..m : st[i] = Apply(st[i - 1], ops[i])
  BY <1>1, <1>2
<1>4. Submitted(d, ops) = ApplyAll(d, Applied(ops)) BY DEF Submitted, ApplyAll
<1> QED BY <1>1, <1>2, <1>3, <1>4

(* The key is of a prefix no operation names, and no longer prefix of one   *)
(* that RocksDB deletes by prefix.                                          *)
Foreign(x, ops) ==
  /\ x[1] \notin {o.p : o \in Range(ops)}
  /\ ~(\E o \in Range(ops) : o.op = "rmprefix" /\ backend = "rocksdb" /\ <<o.p, x[1]>> \in Longer)

(* One operation of a transaction leaves the keys of other prefixes alone.  *)
LEMMA ApplyKeepsForeign ==
  ASSUME NEW d, NEW o, NEW x, o.op \in OpKinds, x[1] # o.p,
         ~(o.op = "rmprefix" /\ backend = "rocksdb" /\ <<o.p, x[1]>> \in Longer)
  PROVE  /\ x \in DOMAIN Apply(d, o) <=> x \in DOMAIN d
         /\ x \in DOMAIN d => Apply(d, o)[x] = d[x]
<1> DEFINE k == <<o.p, o.k>>
<1>1. x # k OBVIOUS
<1>2. ASSUME NEW v
      PROVE  /\ x \in DOMAIN With(d, k, v) <=> x \in DOMAIN d
             /\ x \in DOMAIN d => With(d, k, v)[x] = d[x]
  BY <1>1 DEF With
<1>3. ASSUME NEW S, x \notin S
      PROVE  /\ x \in DOMAIN Without(d, S) <=> x \in DOMAIN d
             /\ x \in DOMAIN d => Without(d, S)[x] = d[x]
  BY <1>3 DEF Without
<1> HIDE DEF k
<1>4. CASE o.op = "set"
  <2>1. Apply(d, o) = With(d, k, o.v) BY <1>4 DEF Apply, k
  <2> QED BY <1>2, <2>1
<1>5. CASE o.op = "rmkey"
  <2>1. Apply(d, o) = Without(d, {k}) BY <1>5 DEF Apply, k
  <2> QED BY <1>1, <1>3, <2>1
<1>6. CASE o.op = "rmprefix"
  <2> DEFINE S == {y \in DOMAIN d : y[1] \in PrefixRange(o.p)}
  <2>1. Apply(d, o) = Without(d, S) BY <1>6 DEF Apply
  <2>2. x \notin S BY <1>6 DEF PrefixRange
  <2> QED BY <1>3, <2>1, <2>2
<1>7. CASE o.op = "rmrange"
  <2> DEFINE S == {y \in KeysOf(d, o.p) : o.k <= y[2] /\ y[2] < o.e}
  <2>1. Apply(d, o) = Without(d, S) BY <1>7 DEF Apply
  <2>2. x \notin S BY DEF KeysOf
  <2> QED BY <1>3, <2>1, <2>2
<1>8. CASE o.op = "merge"
  <2>1. PICK v : Apply(d, o) = With(d, k, v) BY <1>8 DEF Apply, Merged, k
  <2> QED BY <1>2, <2>1
<1> QED BY <1>4, <1>5, <1>6, <1>7, <1>8 DEF OpKinds

(* A transaction leaves the keys of other prefixes alone.                   *)
LEMMA SubmittedKeepsForeign ==
  ASSUME NEW d, NEW ops \in OtherTxns, NEW x, Foreign(x, ops)
  PROVE  /\ x \in DOMAIN Submitted(d, ops) <=> x \in DOMAIN d
         /\ x \in DOMAIN d => Submitted(d, ops)[x] = d[x]
<1> DEFINE n == Len(ops)
<1>1. ops \in Seq(Range(ops)) /\ n \in Nat /\ DOMAIN ops = 1..n
  BY FreelistAssumption
<1> HIDE DEF n
<1>2. PICK st, m : /\ m \in 0..n
                   /\ st[0] = d
                   /\ \A i \in 1..m : st[i] = Apply(st[i - 1], ops[i])
                   /\ Submitted(d, ops) = st[m]
  BY <1>1, SubmittedSteps DEF n
<1>3. m \in Nat BY <1>1, <1>2
<1> DEFINE Same(i) == /\ x \in DOMAIN st[i] <=> x \in DOMAIN d
                      /\ x \in DOMAIN d => st[i][x] = d[x]
           S == {i \in Nat : Same(i)}
<1>4. 0 \in S BY <1>2
<1>5. ASSUME NEW i \in 0..(m - 1), i \in S PROVE i + 1 \in S
  <2> DEFINE o == ops[i + 1]
  <2>1. i + 1 \in 1..m /\ i + 1 \in 1..n /\ (i + 1) - 1 = i BY <1>1, <1>2, <1>3
  <2>2. o \in Range(ops) BY <1>1, <2>1 DEF Range
  <2>3. st[i + 1] = Apply(st[i], o) BY <1>2, <2>1
  <2> HIDE DEF o
  <2>4. o.op \in OpKinds BY <2>2, FreelistAssumption
  <2>5. x[1] # o.p /\ ~(o.op = "rmprefix" /\ backend = "rocksdb" /\ <<o.p, x[1]>> \in Longer)
    BY <2>2 DEF Foreign
  <2>6. /\ x \in DOMAIN st[i + 1] <=> x \in DOMAIN st[i]
        /\ x \in DOMAIN st[i] => st[i + 1][x] = st[i][x]
    BY <2>3, <2>4, <2>5, ApplyKeepsForeign
  <2>7. Same(i + 1) BY <1>5, <2>6
  <2> HIDE DEF Same
  <2> QED BY <2>7
<1> HIDE DEF S
<1>6. \A i \in 0..m : i \in S BY <1>3, <1>4, <1>5, LoopInduction
<1>7. m \in S BY <1>3, <1>6
<1> QED BY <1>2, <1>7 DEF S

(* PrefixIsolation, of every behaviour: a transaction of the other client   *)
(* changes keys of the prefixes it names only, except where RocksDBStore's  *)
(* rmkeys_by_prefix() reaches longer prefixes.                              *)
THEOREM TransactionsKeepToTheirPrefixes == Spec => PrefixIsolation
<1>1. ASSUME NEW ops \in OtherTxns, db' = Submitted(db, ops),
             NEW x \in DOMAIN db \cup DOMAIN db',
             x[1] \notin {o.p : o \in Range(ops)},
             ~(\E o \in Range(ops) :
                 o.op = "rmprefix" /\ backend = "rocksdb" /\ <<o.p, x[1]>> \in Longer)
      PROVE  x \in DOMAIN db \cap DOMAIN db' /\ db'[x] = db[x]
  <2>1. Foreign(x, ops) BY <1>1 DEF Foreign
  <2>2. /\ x \in DOMAIN Submitted(db, ops) <=> x \in DOMAIN db
        /\ x \in DOMAIN db => Submitted(db, ops)[x] = db[x]
    BY <2>1, SubmittedKeepsForeign
  <2> HIDE DEF Submitted
  <2> QED BY <1>1, <2>2
<1>2. [\A ops \in OtherTxns :
         (count'.other > count.other /\ db' = Submitted(db, ops)) =>
           \A x \in DOMAIN db \cup DOMAIN db' :
             (x[1] \notin {o.p : o \in Range(ops)} /\ ~(\E o \in Range(ops) :
                  o.op = "rmprefix" /\ backend = "rocksdb" /\ <<o.p, x[1]>> \in Longer))
             => x \in DOMAIN db \cap DOMAIN db' /\ db'[x] = db[x]]_vars
  <2> HIDE DEF Submitted
  <2> QED BY <1>1
<1> QED BY <1>2, PTL DEF PrefixIsolation

-----------------------------------------------------------------------------
(* The inductive invariant.  Every version RocksDB may come back with is    *)
(* either empty or formatted by create() for one size, with bits that say   *)
(* what its note says, and keeps every acknowledged allocation.             *)

Fresh(d, own) == KeysOf(d, META) = {} /\ KeysOf(d, BITMAP) = {} /\ own = {}

Formatted(d, own, size) ==
  /\ BitmapTyped(d)
  /\ <<META, 3>> \in DOMAIN d /\ d[<<META, 3>>] = BlockCount(size)
  /\ <<META, 4>> \in DOMAIN d /\ d[<<META, 4>>] = size
  /\ own \subseteq 1..(size - 1)
  /\ \A b \in 0..(BlockCount(size) - 1) :
       (b % BPK) \in Marked(d, KeyOf(b)) <=> b \in own \/ b = 0 \/ b >= size

VersionOK(d, own) == Fresh(d, own) \/ \E size \in Sizes : Formatted(d, own, size)

HistOK ==
  /\ hist \in Seq(Range(hist)) /\ hist # <<>>
  /\ hist[Len(hist)].db = db /\ hist[Len(hist)].note = owned
  /\ \A v \in Range(hist) : VersionOK(v.db, v.note) /\ acked \subseteq v.note

ManagerOK ==
  fm # None => \E size \in Sizes :
                 /\ fm = [size |-> size, blocks |-> BlockCount(size)]
                 /\ Formatted(db, owned, size)

FInv == HistOK /\ ManagerOK

(* A device has at least two blocks and fits its whole number of keys       *)
(* (_size_2_block_count()).                                                 *)
LEMMA SizeFacts ==
  ASSUME NEW size \in Sizes
  PROVE  /\ size \in Nat /\ size > 1
         /\ BlockCount(size) \in Nat /\ size <= BlockCount(size)
         /\ size # Unreadable /\ BlockCount(size) # Unreadable
<1>1. size \in Nat /\ size > 1 /\ BPK \in Nat \ {0} BY FreelistAssumption
<1> DEFINE c == size + BPK - 1
           q == c \div BPK
<1>2. c \in Nat BY <1>1
<1> HIDE DEF c
<1>3. q \in Nat /\ At(q) <= c /\ c < At(q) + BPK BY <1>2, KeyOfBlock
<1>4. At(q) \in Nat BY <1>3, KeyIsMultiple
<1>5. BlockCount(size) = At(q) BY DEF BlockCount, At, c
<1> HIDE DEF q
<1>6. size <= At(q) BY <1>1, <1>3, <1>4 DEF c
<1>7. Unreadable \notin Nat BY FreelistAssumption
<1> QED BY <1>1, <1>4, <1>5, <1>6, <1>7

(* BitmapExact, said of one version.                                        *)
LEMMA FormattedExact ==
  ASSUME NEW d, NEW own, NEW size \in Sizes, Formatted(d, own, size)
  PROVE  InUse(d, BlockCount(size)) = own \cup {0} \cup (size..(BlockCount(size) - 1))
<1> DEFINE N == BlockCount(size)
<1>1. size \in Nat /\ size > 1 /\ N \in Nat /\ size <= N BY SizeFacts
<1>2. \A b \in 0..(N - 1) : (b % BPK) \in Marked(d, KeyOf(b)) <=> b \in own \/ b = 0 \/ b >= size
  BY DEF Formatted
<1>3. own \subseteq 1..(size - 1) BY DEF Formatted
<1> HIDE DEF N
<1>4. InUse(d, N) = {b \in 0..(N - 1) : b \in own \/ b = 0 \/ b >= size}
  BY <1>2 DEF InUse
<1>5. \A b : b \in own => b \in 0..(N - 1) BY <1>1, <1>3
<1>6. \A b : (b \in 0..(N - 1) /\ b >= size) <=> b \in size..(N - 1) BY <1>1
<1>7. 0 \in 0..(N - 1) BY <1>1
<1> QED BY <1>4, <1>5, <1>6, <1>7 DEF N

(* An allocation or a release toggles the bits of its blocks.               *)
LEMMA FlipFormatted ==
  ASSUME NEW d, NEW e, NEW own, NEW size \in Sizes, Formatted(d, own, size),
         NEW off \in Nat \ {0}, NEW len \in Nat \ {0}, Flipped(d, e, off, len),
         NEW new, new \subseteq 1..(size - 1),
         \A b \in Nat : b \in new <=> ~(b \in own <=> b \in Span(off, len)),
         Span(off, len) \subseteq 1..(size - 1)
  PROVE  Formatted(e, new, size)
<1>1. META # BITMAP /\ <<META, 3>>[1] # BITMAP /\ <<META, 4>>[1] # BITMAP
  BY FreelistAssumption
<1>2. /\ <<META, 3>> \in DOMAIN e /\ e[<<META, 3>>] = BlockCount(size)
      /\ <<META, 4>> \in DOMAIN e /\ e[<<META, 4>>] = size
  BY <1>1 DEF Flipped, SameOutside, Formatted
<1>3. ASSUME NEW b \in 0..(BlockCount(size) - 1)
      PROVE  (b % BPK) \in Marked(e, KeyOf(b)) <=> b \in new \/ b = 0 \/ b >= size
  <2>1. b \in Nat /\ size \in Nat BY SizeFacts
  <2>2. b \div BPK \in Nat /\ KeyOf(b) = At(b \div BPK) BY <2>1, KeyOfBlock
  <2> DEFINE x == b % BPK
             M == Marked(d, KeyOf(b))
             K == KeyBits(off, len, KeyOf(b))
  <2>3. Marked(e, KeyOf(b)) = SymDiff(M, K) BY <2>2 DEF Flipped
  <2>4. x \in K <=> b \in Span(off, len) BY <2>1, CoveredBit
  <2>5. x \in M <=> b \in own \/ b = 0 \/ b >= size BY DEF Formatted
  <2>6. b \in Span(off, len) => b # 0 /\ ~(b >= size) BY <2>1
  <2>7. b \in new <=> ~(b \in own <=> b \in Span(off, len)) BY <2>1
  <2> HIDE DEF x, M, K
  <2>8. x \in SymDiff(M, K) <=> ~(x \in M <=> x \in K) BY DEF SymDiff
  <2>9. x \in Marked(e, KeyOf(b)) <=> b \in new \/ b = 0 \/ b >= size
    BY <2>3, <2>4, <2>5, <2>6, <2>7, <2>8
  <2> QED BY <2>9 DEF x
<1> QED BY <1>2, <1>3 DEF Formatted, Flipped

(* The operations of _xor() are merges into the bitmap.                     *)
LEMMA XorIsMerges ==
  ASSUME NEW off \in Nat, NEW len \in Nat \ {0}
  PROVE  LET X == Xor(off, len) IN
         /\ X \in Seq(Range(X)) /\ Len(X) \in Nat /\ DOMAIN X = 1..Len(X)
         /\ \A i \in 1..Len(X) : X[i].op = "merge" /\ X[i].p = BITMAP
<1> DEFINE X == Xor(off, len)
           f == off \div BPK
           n == (off + len - 1) \div BPK - f + 1
<1>1. n \in Nat /\ X = [i \in 1..n |->
        MergeOp(BITMAP, At(f + i - 1), KeyBits(off, len, At(f + i - 1)))]
  BY XorOps
<1> HIDE DEF n, f
<1>2. \A i \in 1..n : X[i].op = "merge" /\ X[i].p = BITMAP
  BY <1>1 DEF MergeOp
<1>3. DOMAIN X = 1..n BY <1>1
<1>4. X \in Seq(Range(X)) /\ Len(X) = n
  <2>1. X = [i \in 1..n |-> X[i]] /\ \A i \in 1..n : X[i] \in Range(X)
    BY <1>1, <1>3 DEF Range
  <2> HIDE DEF X
  <2> QED BY <1>1, <1>3, <2>1
<1> HIDE DEF X
<1> QED BY <1>1, <1>2, <1>3, <1>4 DEF X

(* The merges of one extent as a transaction of their own.                  *)
LEMMA XorSubmitted ==
  ASSUME NEW d, BitmapTyped(d), NEW off \in Nat, NEW len \in Nat \ {0}
  PROVE  Flipped(d, Submitted(d, Xor(off, len)), off, len)
<1> DEFINE X == Xor(off, len)
           n == Len(X)
<1>1. /\ X \in Seq(Range(X)) /\ n \in Nat /\ DOMAIN X = 1..n
      /\ \A i \in 1..n : X[i].op = "merge" /\ X[i].p = BITMAP
  BY XorIsMerges
<1>2. Len(X) = n OBVIOUS
<1> HIDE DEF X, n
<1>5. HasOperator(BITMAP) BY FreelistAssumption DEF HasOperator
<1>6. PICK st, m : /\ m \in 0..n
                   /\ st[0] = d
                   /\ \A i \in 1..m : st[i] = Apply(st[i - 1], X[i])
                   /\ Submitted(d, X) = st[m]
                   /\ (\A i \in 1..n : X[i].op = "merge" => HasOperator(X[i].p)) => m = n
  <2>1. n \in Nat /\ X \in Seq(Range(X)) BY <1>1
  <2> QED BY <1>2, <2>1, SubmittedSteps, Zenon
<1>7. m = n BY <1>1, <1>5, <1>6
<1>8. \A i \in 1..n : st[0 + i] = Apply(st[0 + i - 1], X[i])
  BY <1>1, <1>6, <1>7
<1>9. Flipped(st[0], st[0 + n], off, len)
  BY <1>1, <1>6, <1>8, XorFlips DEF X
<1> QED BY <1>1, <1>6, <1>7, <1>9 DEF X

(* A transaction of the other client leaves the bitmap and its size alone.  *)
LEMMA OtherKeepsVersion ==
  ASSUME NEW d, NEW own, NEW ops \in OtherTxns
  PROVE  /\ Fresh(d, own) => Fresh(Submitted(d, ops), own)
         /\ \A size \in Sizes : Formatted(d, own, size) => Formatted(Submitted(d, ops), own, size)
<1> DEFINE e == Submitted(d, ops)
<1>1. ASSUME NEW x, x[1] \in {META, BITMAP}
      PROVE  (x \in DOMAIN e <=> x \in DOMAIN d) /\ (x \in DOMAIN d => e[x] = d[x])
  <2>1. Foreign(x, ops)
    <3>1. \A o \in Range(ops) : o.p \notin {META, BITMAP} BY FreelistAssumption
    <3>2. \A o \in Range(ops) : <<o.p, x[1]>> \notin Longer
      <4> TAKE o \in Range(ops)
      <4>1. <<o.p, x[1]>>[2] = x[1] OBVIOUS
      <4> QED BY <1>1, <4>1, FreelistAssumption
    <3> QED BY <1>1, <3>1, <3>2 DEF Foreign
  <2> QED BY <2>1, SubmittedKeepsForeign
<1> HIDE DEF e
<1>2. Fresh(d, own) => Fresh(e, own)
  BY <1>1 DEF Fresh, KeysOf
<1>3. ASSUME NEW k PROVE Marked(e, k) = Marked(d, k)
  <2>1. <<BITMAP, k>>[1] = BITMAP OBVIOUS
  <2> QED BY <1>1, <2>1 DEF Marked, GetOr
<1>4. BitmapTyped(d) => BitmapTyped(e)
  BY <1>1 DEF BitmapTyped, KeysOf
<1>5. <<META, 3>>[1] = META /\ <<META, 4>>[1] = META OBVIOUS
<1>6. ASSUME NEW size \in Sizes, Formatted(d, own, size) PROVE Formatted(e, own, size)
  BY <1>1, <1>3, <1>4, <1>5, <1>6 DEF Formatted
<1> QED BY <1>2, <1>6 DEF e

(* A transaction put together of two parts has the operations of both.      *)
LEMMA ConcatSeq ==
  ASSUME NEW s, NEW t, s \in Seq(Range(s)), t \in Seq(Range(t))
  PROVE  /\ s \o t \in Seq(Range(s \o t))
         /\ Len(s \o t) = Len(s) + Len(t)
         /\ \A i \in 1..Len(s) : (s \o t)[i] = s[i]
         /\ \A i \in 1..Len(t) : (s \o t)[Len(s) + i] = t[i]
<1> DEFINE T == Range(s) \cup Range(t)
<1>1. s \in Seq(T) /\ t \in Seq(T)
  OBVIOUS
<1>2. /\ s \o t \in Seq(T)
      /\ Len(s \o t) = Len(s) + Len(t)
      /\ \A i \in 1..(Len(s) + Len(t)) : (s \o t)[i] = IF i <= Len(s) THEN s[i] ELSE t[i - Len(s)]
  <2> HIDE DEF T
  <2> QED BY <1>1
<1>3. Len(s) \in Nat /\ Len(t) \in Nat OBVIOUS
<1>4. s \o t \in Seq(Range(s \o t))
  <2> DEFINE u == s \o t
  <2>1. u \in Seq(T) /\ DOMAIN u = 1..Len(u) /\ Len(u) \in Nat BY <1>2
  <2> HIDE DEF u, T
  <2>2. \A i \in 1..Len(u) : u[i] \in Range(u) BY <2>1 DEF Range
  <2>3. u = [i \in 1..Len(u) |-> u[i]] BY <2>1
  <2>4. u \in Seq(Range(u)) BY <2>1, <2>2, <2>3
  <2> QED BY <2>4 DEF u
<1>5. \A i \in 1..Len(s) : (s \o t)[i] = s[i] BY <1>2, <1>3
<1>6. \A i \in 1..Len(t) : (s \o t)[Len(s) + i] = t[i]
  <2> TAKE i \in 1..Len(t)
  <2>1. Len(s) + i \in 1..(Len(s) + Len(t)) /\ ~(Len(s) + i <= Len(s)) /\ (Len(s) + i) - Len(s) = i
    BY <1>3
  <2> QED BY <1>2, <2>1
<1> QED BY <1>2, <1>4, <1>5, <1>6

(* The four records create() writes behind the bits.                        *)
MetaOps(size) ==
  <<SetOp(META, 1, 1), SetOp(META, 2, BPK),
    SetOp(META, 3, BlockCount(size)), SetOp(META, 4, size)>>

(* create(): the padding and block 0 are marked, the sizes recorded.        *)
LEMMA CreateFormats ==
  ASSUME NEW d, Fresh(d, {}), NEW size \in Sizes
  PROVE  Formatted(Submitted(d, CreateTxn(size)), {}, size)
<1> DEFINE P == Padding(size)
           X == Xor(0, 1)
           M == MetaOps(size)
           N == BlockCount(size)
           a == Len(P)
           c == Len(X)
           ops == P \o X \o M
<1>1. size \in Nat /\ size > 1 /\ N \in Nat /\ size <= N BY SizeFacts
<1>2. /\ X \in Seq(Range(X)) /\ c \in Nat /\ DOMAIN X = 1..c
      /\ \A i \in 1..c : X[i].op = "merge" /\ X[i].p = BITMAP
  BY XorIsMerges, 0 \in Nat, 1 \in Nat \ {0}
<1>3. /\ P \in Seq(Range(P)) /\ a \in Nat /\ DOMAIN P = 1..a
      /\ \A i \in 1..a : P[i].op = "merge" /\ P[i].p = BITMAP
  <2>1. CASE N > size
    <3>1. P = Xor(size, N - size) BY <2>1 DEF Padding
    <3>2. N - size \in Nat \ {0} BY <1>1, <2>1
    <3> HIDE DEF P, N
    <3> QED BY <1>1, <3>1, <3>2, XorIsMerges
  <2>2. CASE ~(N > size)
    <3>1. P = <<>> BY <2>2 DEF Padding
    <3>2. <<>> \in Seq(Range(<<>>)) /\ Len(<<>>) = 0 /\ DOMAIN <<>> = {} OBVIOUS
    <3>3. 1..0 = {} OBVIOUS
    <3>4. P \in Seq(Range(P)) /\ Len(P) = 0 /\ DOMAIN P = {} BY <3>1, <3>2
    <3> HIDE DEF P
    <3>5. a = 0 BY <3>4
    <3> HIDE DEF a
    <3>6. 1..a = {} BY <3>3, <3>5
    <3> QED BY <3>4, <3>5, <3>6
  <2> QED BY <2>1, <2>2
<1>4. /\ M \in Seq(Range(M)) /\ Len(M) = 4
      /\ M[1] = SetOp(META, 1, 1) /\ M[2] = SetOp(META, 2, BPK)
      /\ M[3] = SetOp(META, 3, N) /\ M[4] = SetOp(META, 4, size)
  BY DEF MetaOps, Range
<1>5. CreateTxn(size) = ops BY DEF CreateTxn, MetaOps
<1> HIDE DEF P, X, M, N
<1>6. /\ ops \in Seq(Range(ops)) /\ Len(ops) = a + c + 4
      /\ \A i \in 1..a : ops[i] = P[i]
      /\ \A i \in 1..c : ops[a + i] = X[i]
      /\ \A i \in 1..4 : ops[a + c + i] = M[i]
  <2> DEFINE Q == P \o X
  <2>1. /\ Q \in Seq(Range(Q)) /\ Len(Q) = a + c
        /\ \A i \in 1..a : Q[i] = P[i]
        /\ \A i \in 1..c : Q[a + i] = X[i]
    BY <1>2, <1>3, ConcatSeq
  <2> HIDE DEF Q
  <2> DEFINE R == Q \o M
  <2>6. /\ R \in Seq(Range(R)) /\ Len(R) = Len(Q) + Len(M)
        /\ \A i \in 1..Len(Q) : R[i] = Q[i]
        /\ \A i \in 1..Len(M) : R[Len(Q) + i] = M[i]
    <3>1. Q \in Seq(Range(Q)) /\ M \in Seq(Range(M)) BY <1>4, <2>1
    <3> QED BY <3>1, ConcatSeq
  <2>7. Len(Q) = a + c /\ Len(M) = 4 BY <1>4, <2>1
  <2> HIDE DEF R, a, c
  <2>2. /\ R \in Seq(Range(R)) /\ Len(R) = (a + c) + 4
        /\ \A i \in 1..(a + c) : R[i] = Q[i]
        /\ \A i \in 1..4 : R[(a + c) + i] = M[i]
    BY <2>6, <2>7
  <2>3. R = ops BY DEF Q, R
  <2> HIDE DEF ops
  <2>4. \A i \in 1..a : i \in 1..(a + c) BY <1>2, <1>3
  <2>5. \A i \in 1..c : a + i \in 1..(a + c) BY <1>2, <1>3
  <2> QED BY <2>1, <2>2, <2>3, <2>4, <2>5
<1>7. \A i \in 1..4 : M[i].op = "set" BY <1>4 DEF SetOp
<1> HIDE DEF ops, a, c
<1> DEFINE n == a + c + 4
<1>8. n \in Nat BY <1>2, <1>3
<1>9. \A i \in 1..n : ops[i].op = "merge" => HasOperator(ops[i].p)
  <2>1. HasOperator(BITMAP) BY FreelistAssumption DEF HasOperator
  <2> TAKE i \in 1..n
  <2>2. CASE i \in 1..a BY <1>3, <1>6, <2>1, <2>2
  <2>3. CASE i \in (a + 1)..(a + c)
    <3>1. i - a \in 1..c /\ a + (i - a) = i BY <1>2, <1>3, <2>3
    <3>2. ops[i] = X[i - a] BY <1>6, <3>1
    <3> QED BY <1>2, <2>1, <3>1, <3>2
  <2>4. CASE i \in (a + c + 1)..(a + c + 4)
    <3>1. i - (a + c) \in 1..4 /\ a + c + (i - (a + c)) = i BY <1>2, <1>3, <2>4
    <3>2. ops[i] = M[i - (a + c)] BY <1>6, <3>1
    <3>3. ops[i].op = "set" BY <1>7, <3>1, <3>2
    <3> QED BY <3>3
  <2> QED BY <1>2, <1>3, <2>2, <2>3, <2>4
<1>10. PICK st, m : /\ m \in 0..n
                    /\ st[0] = d
                    /\ \A i \in 1..m : st[i] = Apply(st[i - 1], ops[i])
                    /\ Submitted(d, ops) = st[m]
                    /\ (\A i \in 1..n : ops[i].op = "merge" => HasOperator(ops[i].p)) => m = n
  <2>1. ops \in Seq(Range(ops)) /\ Len(ops) = n BY <1>6
  <2> HIDE DEF n
  <2> QED BY <1>8, <2>1, SubmittedSteps, Zenon
<1>11. m = n BY <1>9, <1>10
<1>12. /\ \A i \in 1..a : st[0 + i] = Apply(st[0 + i - 1], P[i])
       /\ \A i \in 1..c : st[a + i] = Apply(st[a + i - 1], X[i])
       /\ \A i \in 1..4 : st[a + c + i] = Apply(st[a + c + i - 1], M[i])
  <2>1. ASSUME NEW i \in 1..a PROVE st[0 + i] = Apply(st[0 + i - 1], P[i])
    BY <1>2, <1>3, <1>6, <1>10, <1>11
  <2>2. ASSUME NEW i \in 1..c PROVE st[a + i] = Apply(st[a + i - 1], X[i])
    <3>1. a + i \in 1..n BY <1>2, <1>3
    <3> HIDE DEF n
    <3>2. st[a + i] = Apply(st[(a + i) - 1], ops[a + i]) BY <1>10, <1>11, <3>1
    <3>3. ops[a + i] = X[i] BY <1>6
    <3>4. (a + i) - 1 = a + i - 1 BY <1>3
    <3> QED BY <3>2, <3>3, <3>4, Zenon
  <2>3. ASSUME NEW i \in 1..4 PROVE st[a + c + i] = Apply(st[a + c + i - 1], M[i])
    <3>1. a + c + i \in 1..n BY <1>2, <1>3
    <3> HIDE DEF n
    <3>2. st[a + c + i] = Apply(st[(a + c + i) - 1], ops[a + c + i]) BY <1>10, <1>11, <3>1
    <3>3. ops[a + c + i] = M[i] BY <1>6
    <3>4. (a + c + i) - 1 = a + c + i - 1 BY <1>2, <1>3
    <3> QED BY <3>2, <3>3, <3>4, Zenon
  <2> QED BY <2>1, <2>2, <2>3
<1> DEFINE d1 == st[a]
           d2 == st[a + c]
           e == st[a + c + 4]
<1>13. BitmapTyped(d) /\ \A k : Marked(d, k) = {}
  <2>1. \A k : <<BITMAP, k>>[1] = BITMAP OBVIOUS
  <2>2. \A x \in DOMAIN d : x[1] # BITMAP BY DEF Fresh, KeysOf
  <2> QED BY <2>1, <2>2 DEF BitmapTyped, KeysOf, Marked, GetOr
<1>14. /\ BitmapTyped(d1)
       /\ \A b \in 0..(N - 1) : (b % BPK) \in Marked(d1, KeyOf(b)) <=> b >= size
  <2>1. CASE N > size
    <3>1. P = Xor(size, N - size) /\ N - size \in Nat \ {0} BY <1>1, <2>1 DEF P, Padding, N
    <3>2. DOMAIN Xor(size, N - size) = 1..a BY <1>3, <3>1
    <3>3. \A i \in 1..a : st[0 + i] = Apply(st[0 + i - 1], Xor(size, N - size)[i])
      BY <1>12, <3>1
    <3>4. Flipped(st[0], st[0 + a], size, N - size)
      BY <1>1, <1>3, <1>10, <1>13, <3>1, <3>2, <3>3, XorFlips
    <3>5. Flipped(d, d1, size, N - size) BY <1>3, <1>10, <3>4
    <3> HIDE DEF d1
    <3>6. ASSUME NEW b \in 0..(N - 1)
          PROVE  (b % BPK) \in Marked(d1, KeyOf(b)) <=> b >= size
      <4>1. b \in Nat /\ b \div BPK \in Nat /\ KeyOf(b) = At(b \div BPK) BY <1>1, KeyOfBlock
      <4>2. Marked(d1, KeyOf(b)) = SymDiff(Marked(d, KeyOf(b)), KeyBits(size, N - size, KeyOf(b)))
        BY <3>5, <4>1 DEF Flipped
      <4>3. Marked(d1, KeyOf(b)) = KeyBits(size, N - size, KeyOf(b))
        BY <1>13, <4>2 DEF SymDiff
      <4>4. (b % BPK) \in KeyBits(size, N - size, KeyOf(b)) <=> b \in Span(size, N - size)
        BY <1>1, <3>1, <4>1, CoveredBit
      <4>5. b \in Span(size, N - size) <=> b >= size BY <1>1, <4>1 DEF Span
      <4> QED BY <4>3, <4>4, <4>5
    <3> QED BY <3>5, <3>6 DEF Flipped
  <2>2. CASE ~(N > size)
    <3>1. a = 0 BY <2>2 DEF P, Padding, N, a
    <3>2. d1 = d BY <1>10, <3>1
    <3> HIDE DEF d1
    <3> QED BY <1>1, <1>13, <2>2, <3>2
  <2> QED BY <2>1, <2>2
<1>15. /\ BitmapTyped(d2)
       /\ \A b \in 0..(N - 1) : (b % BPK) \in Marked(d2, KeyOf(b)) <=> b = 0 \/ b >= size
  <2>1. Flipped(d1, d2, 0, 1)
    <3>1. DOMAIN Xor(0, 1) = 1..c /\ \A i \in 1..c : st[a + i] = Apply(st[a + i - 1], Xor(0, 1)[i])
      BY <1>2, <1>12 DEF X
    <3> QED BY <1>2, <1>3, <1>14, <3>1, XorFlips, 0 \in Nat, 1 \in Nat \ {0}
  <2> HIDE DEF d1, d2
  <2>2. ASSUME NEW b \in 0..(N - 1)
        PROVE  (b % BPK) \in Marked(d2, KeyOf(b)) <=> b = 0 \/ b >= size
    <3>1. b \in Nat /\ b \div BPK \in Nat /\ KeyOf(b) = At(b \div BPK) BY <1>1, KeyOfBlock
    <3>2. Marked(d2, KeyOf(b)) = SymDiff(Marked(d1, KeyOf(b)), KeyBits(0, 1, KeyOf(b)))
      BY <2>1, <3>1 DEF Flipped
    <3>3. (b % BPK) \in KeyBits(0, 1, KeyOf(b)) <=> b \in Span(0, 1)
      BY <3>1, CoveredBit, 0 \in Nat, 1 \in Nat
    <3>4. b \in Span(0, 1) <=> b = 0 BY <3>1 DEF Span
    <3>5. ~(b = 0 /\ b >= size) BY <1>1
    <3>6. (b % BPK) \in Marked(d1, KeyOf(b)) <=> b >= size BY <1>14
    <3>7. \A x, S, T : x \in SymDiff(S, T) <=> ~(x \in S <=> x \in T) BY DEF SymDiff
    <3> QED BY <3>2, <3>3, <3>4, <3>5, <3>6, <3>7
  <2> QED BY <2>1, <2>2 DEF Flipped
<1>16. e = With(With(With(With(d2, <<META, 1>>, 1), <<META, 2>>, BPK), <<META, 3>>, N), <<META, 4>>, size)
  <2>1. \A y, k, v : Apply(y, SetOp(META, k, v)) = With(y, <<META, k>>, v)
    BY DEF Apply, SetOp
  <2>2. /\ st[a + c + 1] = Apply(st[a + c], M[1])
        /\ st[a + c + 2] = Apply(st[a + c + 1], M[2])
        /\ st[a + c + 3] = Apply(st[a + c + 2], M[3])
        /\ st[a + c + 4] = Apply(st[a + c + 3], M[4])
    BY <1>2, <1>3, <1>12
  <2> HIDE DEF Apply
  <2> QED BY <1>4, <2>1, <2>2
<1> HIDE DEF d2, e
<1>17. META # BITMAP BY FreelistAssumption
<1>18. ASSUME NEW y, NEW k, NEW v
       PROVE  /\ \A x : x # <<META, k>> =>
                   /\ x \in DOMAIN With(y, <<META, k>>, v) <=> x \in DOMAIN y
                   /\ x \in DOMAIN y => With(y, <<META, k>>, v)[x] = y[x]
              /\ <<META, k>> \in DOMAIN With(y, <<META, k>>, v)
              /\ With(y, <<META, k>>, v)[<<META, k>>] = v
  BY DEF With
<1>19. SameOutside(d2, e, META)
  BY <1>16, <1>18 DEF SameOutside
<1>20. /\ <<META, 3>> \in DOMAIN e /\ e[<<META, 3>>] = N
       /\ <<META, 4>> \in DOMAIN e /\ e[<<META, 4>>] = size
  BY <1>16, <1>18
<1>21. BitmapTyped(e) /\ \A k : Marked(e, k) = Marked(d2, k)
  <2>1. \A k : <<BITMAP, k>>[1] # META BY <1>17
  <2>2. \A x : x[1] = BITMAP => (x \in DOMAIN e <=> x \in DOMAIN d2) /\ (x \in DOMAIN d2 => e[x] = d2[x])
    BY <1>17, <1>19 DEF SameOutside
  <2> QED BY <1>15, <2>1, <2>2 DEF BitmapTyped, KeysOf, Marked, GetOr
<1>22. Formatted(e, {}, size)
  BY <1>15, <1>20, <1>21 DEF Formatted, N
<1> QED BY <1>5, <1>10, <1>11, <1>22 DEF e

(* RocksDB's log after one more version.                                    *)
LEMMA AppendSeq ==
  ASSUME NEW h, h \in Seq(Range(h)), NEW v
  PROVE  LET g == Append(h, v) IN
         /\ g \in Seq(Range(g)) /\ g # <<>> /\ g[Len(g)] = v
         /\ \A w \in Range(g) : w \in Range(h) \/ w = v
<1> DEFINE T == Range(h) \cup {v}
           g == Append(h, v)
<1>1. h \in Seq(T) /\ v \in T OBVIOUS
<1> HIDE DEF T
<1>2. /\ g \in Seq(T) /\ Len(g) = Len(h) + 1 /\ Len(h) \in Nat
      /\ \A i \in 1..Len(h) : g[i] = h[i]
      /\ g[Len(h) + 1] = v
  BY <1>1
<1> HIDE DEF g
<1>3. DOMAIN g = 1..Len(g) /\ Len(g) \in Nat BY <1>2
<1>4. \A i \in 1..Len(g) : g[i] \in Range(g) BY <1>3 DEF Range
<1>5. g = [i \in 1..Len(g) |-> g[i]] BY <1>2, <1>3
<1>6. g \in Seq(Range(g)) BY <1>3, <1>4, <1>5
<1>7. g # <<>> /\ g[Len(g)] = v BY <1>2
<1>8. ASSUME NEW w \in Range(g) PROVE w \in Range(h) \/ w = v
  BY <1>1, <1>2, <1>3, <1>8 DEF T, Range
<1> QED BY <1>6, <1>7, <1>8 DEF g

(* RocksDB's log after a synced transaction.                                *)
LEMMA OneElement ==
  ASSUME NEW v
  PROVE  /\ <<v>> \in Seq(Range(<<v>>)) /\ <<v>> # <<>>
         /\ <<v>>[Len(<<v>>)] = v
         /\ \A w \in Range(<<v>>) : w = v
BY DEF Range

(* A transaction appends a version to RocksDB's log, and a synced one makes *)
(* it the only version a crash may come back with (submit_transaction() and *)
(* submit_transaction_sync()).                                              *)
LEMMA SubmitKeepsHist ==
  ASSUME HistOK, NEW ops, NEW sync \in BOOLEAN, Submit(ops, sync, owned'),
         VersionOK(db', owned'), acked' \subseteq owned',
         ~sync => acked' \subseteq acked
  PROVE  HistOK'
<1> DEFINE v == [db |-> db', note |-> owned']
<1>1. hist' = IF sync THEN <<v>> ELSE Append(hist, v) BY DEF Submit
<1>2. v.db = db' /\ v.note = owned' OBVIOUS
<1> HIDE DEF v
<1>3. CASE sync
  <2>1. hist' = <<v>> BY <1>1, <1>3
  <2> QED BY <1>2, <2>1, OneElement DEF HistOK
<1>4. CASE ~sync
  <2>1. hist' = Append(hist, v) BY <1>1, <1>4
  <2>2. hist \in Seq(Range(hist)) BY DEF HistOK
  <2>3. /\ hist' \in Seq(Range(hist')) /\ hist' # <<>> /\ hist'[Len(hist')] = v
        /\ \A w \in Range(hist') : w \in Range(hist) \/ w = v
    BY <2>1, <2>2, AppendSeq
  <2>4. ASSUME NEW w \in Range(hist') PROVE VersionOK(w.db, w.note) /\ acked' \subseteq w.note
    <3>1. CASE w = v BY <1>2, <3>1
    <3>2. CASE w \in Range(hist) BY <1>4, <3>2 DEF HistOK
    <3> QED BY <2>3, <3>1, <3>2
  <2> QED BY <1>2, <2>3, <2>4 DEF HistOK
<1> QED BY <1>3, <1>4

(* The version the manager works on is the last of the log.                 *)
LEMMA CurrentVersion ==
  ASSUME HistOK
  PROVE  VersionOK(db, owned) /\ acked \subseteq owned
<1>1. hist[Len(hist)] \in Range(hist)
  <2>1. hist \in Seq(Range(hist)) /\ hist # <<>> BY DEF HistOK
  <2>2. Len(hist) \in Nat /\ Len(hist) # 0 /\ DOMAIN hist = 1..Len(hist) BY <2>1
  <2> QED BY <2>2 DEF Range
<1> QED BY <1>1 DEF HistOK

(* Two sizes cannot both be recorded in one version.                        *)
LEMMA FormattedOnce ==
  ASSUME NEW d, NEW own, NEW size \in Sizes, Formatted(d, own, size)
  PROVE  /\ KeysOf(d, META) # {}
         /\ GetOr(d, META, 4, 0) = size
         /\ GetOr(d, META, 3, 0) = BlockCount(size)
<1>1. size # Unreadable /\ BlockCount(size) # Unreadable BY SizeFacts
<1>2. /\ <<META, 3>> \in DOMAIN d /\ d[<<META, 3>>] = BlockCount(size)
      /\ <<META, 4>> \in DOMAIN d /\ d[<<META, 4>>] = size
  BY DEF Formatted
<1>3. <<META, 4>>[1] = META OBVIOUS
<1>4. KeysOf(d, META) # {} BY <1>2, <1>3 DEF KeysOf
<1> QED BY <1>1, <1>2, <1>4 DEF GetOr

(* The extents of the clients are not empty and leave block 0 alone.        *)
LEMMA ExtentFacts ==
  ASSUME NEW x \in Extents
  PROVE  x[1] \in Nat \ {0} /\ x[2] \in Nat \ {0}
BY FreelistAssumption

(* A new database has no bitmap and no allocated block.                     *)
LEMMA InitHolds == Init => FInv
<1> SUFFICES ASSUME Init PROVE FInv OBVIOUS
<1> DEFINE v == [db |-> Empty, note |-> {}]
<1>1. v.db = Empty /\ v.note = {} OBVIOUS
<1>2. hist = <<v>> BY DEF Init
<1> HIDE DEF v
<1>3. db = Empty /\ owned = {} /\ acked = {} /\ fm = None BY DEF Init
<1>4. Fresh(Empty, {}) BY DEF Fresh, KeysOf, Empty
<1>5. HistOK BY <1>1, <1>2, <1>3, <1>4, OneElement DEF HistOK, VersionOK
<1> QED BY <1>3, <1>5 DEF FInv, ManagerOK

(* create() finds no bitmap and leaves one for its size.                    *)
LEMMA CreateStep ==
  ASSUME FInv, NEW size \in Sizes, Create(size)
  PROVE  FInv'
<1>1. VersionOK(db, owned) /\ acked \subseteq owned BY CurrentVersion DEF FInv
<1>2. KeysOf(db, META) = {} /\ db' = Submitted(db, CreateTxn(size))
  BY DEF Create, Submit
<1>3. Fresh(db, {}) /\ owned = {}
  <2>1. \A s \in Sizes : ~Formatted(db, owned, s) BY <1>2, FormattedOnce
  <2>2. Fresh(db, owned) BY <1>1, <2>1 DEF VersionOK
  <2> QED BY <2>2 DEF Fresh
<1>4. Formatted(db', {}, size) BY <1>2, <1>3, CreateFormats
<1>5. owned' = {} /\ acked' = {} BY <1>1, <1>3 DEF Create
<1>6. Submit(CreateTxn(size), TRUE, owned') BY <1>5 DEF Create
<1>7. VersionOK(db', owned') BY <1>4, <1>5 DEF VersionOK
<1>8. HistOK' BY <1>5, <1>6, <1>7, SubmitKeepsHist DEF FInv
<1>9. fm' = [size |-> size, blocks |-> BlockCount(size)] BY DEF Create
<1>10. ManagerOK' BY <1>4, <1>5, <1>9 DEF ManagerOK
<1> QED BY <1>8, <1>10 DEF FInv

(* init() reads the size create() recorded, whatever happened since.        *)
LEMMA InitFmStep ==
  ASSUME FInv, InitFm
  PROVE  FInv'
<1>1. VersionOK(db, owned) BY CurrentVersion DEF FInv
<1>2. KeysOf(db, META) # {} BY DEF InitFm
<1>3. PICK size \in Sizes : Formatted(db, owned, size)
  BY <1>1, <1>2 DEF VersionOK, Fresh
<1>4. fm' = [size |-> size, blocks |-> BlockCount(size)]
  BY <1>3, FormattedOnce DEF InitFm
<1>5. db' = db /\ owned' = owned /\ acked' = acked /\ hist' = hist
  BY DEF InitFm, kvVars
<1>6. ManagerOK' BY <1>3, <1>4, <1>5 DEF ManagerOK
<1>7. HistOK' BY <1>5 DEF FInv, HistOK
<1> QED BY <1>6, <1>7 DEF FInv

(* allocate() sets the bits of blocks that were free.                       *)
LEMMA AllocateStep ==
  ASSUME FInv, NEW x \in Extents, NEW sync \in BOOLEAN, Allocate(x[1], x[2], sync)
  PROVE  FInv'
<1> DEFINE off == x[1]
           len == x[2]
<1>1. off \in Nat \ {0} /\ len \in Nat \ {0} BY ExtentFacts
<1>2. acked \subseteq owned BY CurrentVersion DEF FInv
<1>3. /\ fm # None /\ off + len <= fm.size
      /\ Span(off, len) \cap owned = {}
      /\ Submit(Xor(off, len), sync, owned \cup Span(off, len))
      /\ owned' = owned \cup Span(off, len)
      /\ acked' = IF sync THEN owned' ELSE acked
      /\ fm' = fm
  BY DEF Allocate, fmVars
<1> HIDE DEF off, len
<1>4. PICK size \in Sizes : /\ fm = [size |-> size, blocks |-> BlockCount(size)]
                            /\ Formatted(db, owned, size)
  BY <1>3 DEF FInv, ManagerOK
<1>5. size \in Nat /\ fm.size = size BY <1>4, SizeFacts
<1>6. Span(off, len) \subseteq 1..(size - 1) BY <1>1, <1>3, <1>5 DEF Span
<1>7. db' = Submitted(db, Xor(off, len)) BY <1>3 DEF Submit
<1>8. Flipped(db, db', off, len)
  <2>1. BitmapTyped(db) /\ off \in Nat BY <1>1, <1>4 DEF Formatted
  <2> QED BY <1>1, <1>7, <2>1, XorSubmitted
<1>9. owned' \subseteq 1..(size - 1) BY <1>3, <1>4, <1>6 DEF Formatted
<1>10. \A b \in Nat : b \in owned' <=> ~(b \in owned <=> b \in Span(off, len))
  BY <1>3
<1>11. Formatted(db', owned', size)
  BY <1>1, <1>4, <1>6, <1>8, <1>9, <1>10, FlipFormatted
<1>12. VersionOK(db', owned') BY <1>11 DEF VersionOK
<1>13. acked' \subseteq owned' /\ (~sync => acked' \subseteq acked) BY <1>2, <1>3
<1>14. Submit(Xor(off, len), sync, owned') BY <1>3
<1>15. HistOK' BY <1>12, <1>13, <1>14, SubmitKeepsHist DEF FInv
<1>16. ManagerOK' BY <1>3, <1>4, <1>11 DEF ManagerOK
<1> QED BY <1>15, <1>16 DEF FInv

(* release() clears the bits of blocks that were in use.                    *)
LEMMA ReleaseStep ==
  ASSUME FInv, NEW x \in Extents, NEW sync \in BOOLEAN, Release(x[1], x[2], sync)
  PROVE  FInv'
<1> DEFINE off == x[1]
           len == x[2]
<1>1. off \in Nat \ {0} /\ len \in Nat \ {0} BY ExtentFacts
<1>2. acked \subseteq owned BY CurrentVersion DEF FInv
<1>3. /\ fm # None
      /\ Span(off, len) \subseteq owned
      /\ Submit(Xor(off, len), sync, owned \ Span(off, len))
      /\ owned' = owned \ Span(off, len)
      /\ acked' = IF sync THEN owned' ELSE acked \ Span(off, len)
      /\ fm' = fm
  BY DEF Release, fmVars
<1> HIDE DEF off, len
<1>4. PICK size \in Sizes : /\ fm = [size |-> size, blocks |-> BlockCount(size)]
                            /\ Formatted(db, owned, size)
  BY <1>3 DEF FInv, ManagerOK
<1>5. owned \subseteq 1..(size - 1) BY <1>4 DEF Formatted
<1>6. Span(off, len) \subseteq 1..(size - 1) BY <1>3, <1>5
<1>7. db' = Submitted(db, Xor(off, len)) BY <1>3 DEF Submit
<1>8. Flipped(db, db', off, len)
  <2>1. BitmapTyped(db) /\ off \in Nat BY <1>1, <1>4 DEF Formatted
  <2> QED BY <1>1, <1>7, <2>1, XorSubmitted
<1>9. owned' \subseteq 1..(size - 1) BY <1>3, <1>5
<1>10. \A b \in Nat : b \in owned' <=> ~(b \in owned <=> b \in Span(off, len))
  BY <1>3
<1>11. Formatted(db', owned', size)
  BY <1>1, <1>4, <1>6, <1>8, <1>9, <1>10, FlipFormatted
<1>12. VersionOK(db', owned') BY <1>11 DEF VersionOK
<1>13. acked' \subseteq owned' /\ (~sync => acked' \subseteq acked) BY <1>2, <1>3
<1>14. Submit(Xor(off, len), sync, owned') BY <1>3
<1>15. HistOK' BY <1>12, <1>13, <1>14, SubmitKeepsHist DEF FInv
<1>16. ManagerOK' BY <1>3, <1>4, <1>11 DEF ManagerOK
<1> QED BY <1>15, <1>16 DEF FInv

(* A transaction of the other client keeps every version in order.          *)
LEMMA OtherStep ==
  ASSUME FInv, NEW ops \in OtherTxns, Other(ops)
  PROVE  FInv'
<1>1. VersionOK(db, owned) /\ acked \subseteq owned BY CurrentVersion DEF FInv
<1>2. /\ Submit(ops, FALSE, owned) /\ db' = Submitted(db, ops)
      /\ fm' = fm /\ owned' = owned /\ acked' = acked
  BY DEF Other, Submit, fmVars
<1>3. \A size \in Sizes : Formatted(db, owned, size) => Formatted(db', owned', size)
  BY <1>2, OtherKeepsVersion
<1>4. Fresh(db, owned) => Fresh(db', owned') BY <1>2, OtherKeepsVersion
<1>5. VersionOK(db', owned') BY <1>1, <1>3, <1>4 DEF VersionOK
<1>6. HistOK' BY <1>1, <1>2, <1>5, SubmitKeepsHist DEF FInv
<1>7. ManagerOK' BY <1>2, <1>3 DEF FInv, ManagerOK
<1> QED BY <1>6, <1>7 DEF FInv

(* After a crash any version of the log may be the current one, and each    *)
(* is in order; MemDB starts from nothing.                                  *)
LEMMA CrashStep ==
  ASSUME FInv, Crash
  PROVE  FInv'
<1> DEFINE w == [db |-> Empty, note |-> {}]
<1>1. PICK v \in IF backend = "memdb" THEN {w} ELSE KvLoss(hist) :
        db' = v.db /\ owned' = v.note /\ hist' = <<v>>
  BY DEF Crash
<1>2. fm' = None /\ acked' = IF backend = "memdb" THEN {} ELSE acked BY DEF Crash
<1>3. VersionOK(v.db, v.note) /\ acked' \subseteq v.note
  <2>1. CASE backend = "memdb"
    <3>1. v = w BY <1>1, <2>1
    <3>2. v.db = Empty /\ v.note = {} BY <3>1
    <3>3. Fresh(Empty, {}) BY DEF Fresh, KeysOf, Empty
    <3> QED BY <1>2, <2>1, <3>2, <3>3 DEF VersionOK
  <2>2. CASE backend # "memdb"
    <3>1. v \in Range(hist) BY <1>1, <2>2 DEF KvLoss
    <3> QED BY <1>2, <2>2, <3>1 DEF FInv, HistOK
  <2> QED BY <2>1, <2>2
<1>4. HistOK' BY <1>1, <1>3, OneElement DEF HistOK
<1> QED BY <1>2, <1>4 DEF FInv, ManagerOK

(* Every step of the manager, of its clients and of the database keeps the  *)
(* invariant.                                                               *)
LEMMA NextKeepsFInv == FInv /\ [Next]_vars => FInv'
<1> SUFFICES ASSUME FInv, [Next]_vars PROVE FInv' OBVIOUS
<1>1. CASE \E n \in Sizes : Create(n) BY <1>1, CreateStep
<1>2. CASE InitFm BY <1>2, InitFmStep
<1>3. CASE \E x \in Extents, sync \in BOOLEAN : Allocate(x[1], x[2], sync)
  BY <1>3, AllocateStep
<1>4. CASE \E x \in Extents, sync \in BOOLEAN : Release(x[1], x[2], sync)
  BY <1>4, ReleaseStep
<1>5. CASE \E ops \in OtherTxns : Other(ops) BY <1>5, OtherStep
<1>6. CASE Crash BY <1>6, CrashStep
<1>7. ASSUME UNCHANGED <<kvVars, fm, owned, acked>> PROVE FInv'
  BY <1>7 DEF FInv, HistOK, ManagerOK, kvVars
<1>8. CASE EnumerateReset BY <1>7, <1>8 DEF EnumerateReset
<1>9. CASE EnumerateNext BY <1>7, <1>9 DEF EnumerateNext
<1>10. CASE UNCHANGED vars BY <1>7, <1>10 DEF vars, fmVars
<1> QED
  BY <1>1, <1>2, <1>3, <1>4, <1>5, <1>6, <1>8, <1>9, <1>10 DEF Next

(* The bits say exactly what the committed transactions did: in every       *)
(* behaviour, for every device size, number of blocks to a key, set of      *)
(* extents and mix of clients.                                              *)
THEOREM BitmapAlwaysExact == Spec => []BitmapExact
<1>1. FInv => BitmapExact
  <2> SUFFICES ASSUME FInv, fm # None
               PROVE  InUse(db, fm.blocks) = owned \cup {0} \cup (fm.size..(fm.blocks - 1))
    BY DEF BitmapExact
  <2>1. PICK size \in Sizes : /\ fm = [size |-> size, blocks |-> BlockCount(size)]
                              /\ Formatted(db, owned, size)
    BY DEF FInv, ManagerOK
  <2>2. fm.size = size /\ fm.blocks = BlockCount(size) BY <2>1
  <2> QED BY <2>1, <2>2, FormattedExact
<1> QED BY <1>1, InitHolds, NextKeepsFInv, PTL DEF Spec

(* A block whose allocation was synced and not released since is marked in  *)
(* use, whatever version of its log RocksDB comes back with.                *)
THEOREM AckedStaysMarked == Spec => []AckedMarked
<1>1. FInv => AckedMarked
  <2> SUFFICES ASSUME FInv, fm # None PROVE acked \subseteq InUse(db, fm.blocks)
    BY DEF AckedMarked
  <2>1. PICK size \in Sizes : /\ fm = [size |-> size, blocks |-> BlockCount(size)]
                              /\ Formatted(db, owned, size)
    BY DEF FInv, ManagerOK
  <2>2. fm.blocks = BlockCount(size) BY <2>1
  <2>3. acked \subseteq owned BY CurrentVersion DEF FInv
  <2> QED BY <2>1, <2>2, <2>3, FormattedExact
<1> QED BY <1>1, InitHolds, NextKeepsFInv, PTL DEF Spec

-----------------------------------------------------------------------------
(* Keys: every version holds finitely many, and they can be sorted          *)

KeysTyped(d) == IsFiniteSet(DOMAIN d) /\ DOMAIN d \subseteq Nat \X Nat

\* an operation on keys the order of full keys is defined for
OpTyped(o) == /\ o.op \in OpKinds
              /\ o.op \in {"set", "merge"} => <<o.p, o.k>> \in Nat \X Nat

(* One operation of a transaction adds at most the key it names.            *)
LEMMA ApplyKeys ==
  ASSUME NEW d, NEW o, o.op \in OpKinds
  PROVE  \A x \in DOMAIN Apply(d, o) :
           x \in DOMAIN d \/ (o.op \in {"set", "merge"} /\ x = <<o.p, o.k>>)
<1>1. CASE o.op = "set"
  <2>1. Apply(d, o) = With(d, <<o.p, o.k>>, o.v) BY <1>1 DEF Apply
  <2> QED BY <1>1, <2>1 DEF With
<1>2. CASE o.op = "rmkey"
  <2>1. Apply(d, o) = Without(d, {<<o.p, o.k>>}) BY <1>2 DEF Apply
  <2> QED BY <2>1 DEF Without
<1>3. CASE o.op = "rmprefix"
  <2>1. Apply(d, o) = Without(d, {x \in DOMAIN d : x[1] \in PrefixRange(o.p)}) BY <1>3 DEF Apply
  <2> QED BY <2>1 DEF Without
<1>4. CASE o.op = "rmrange"
  <2>1. Apply(d, o) = Without(d, {x \in KeysOf(d, o.p) : o.k <= x[2] /\ x[2] < o.e})
    BY <1>4 DEF Apply
  <2> QED BY <2>1 DEF Without
<1>5. CASE o.op = "merge" /\ HasOperator(o.p)
  <2>1. Apply(d, o) = Merged(d, o) BY <1>5 DEF Apply
  <2> QED BY <1>5, <2>1 DEF Merged, With
<1>6. CASE o.op = "merge" /\ ~HasOperator(o.p)
  <2>1. Apply(d, o) = With(d, <<o.p, o.k>>, Unreadable) BY <1>6 DEF Apply
  <2> QED BY <1>6, <2>1 DEF With
<1> QED BY <1>1, <1>2, <1>3, <1>4, <1>5, <1>6 DEF OpKinds

(* A transaction adds at most the keys its operations name.                 *)
LEMMA SubmittedKeys ==
  ASSUME NEW d, NEW ops, ops \in Seq(Range(ops)), \A o \in Range(ops) : o.op \in OpKinds
  PROVE  \A x \in DOMAIN Submitted(d, ops) :
           x \in DOMAIN d \/ \E i \in DOMAIN ops : /\ ops[i].op \in {"set", "merge"}
                                                   /\ x = <<ops[i].p, ops[i].k>>
<1> DEFINE n == Len(ops)
           Named(x) == \E i \in DOMAIN ops : /\ ops[i].op \in {"set", "merge"}
                                             /\ x = <<ops[i].p, ops[i].k>>
<1>1. n \in Nat /\ DOMAIN ops = 1..n /\ Len(ops) = n OBVIOUS
<1> HIDE DEF n
<1>2. PICK st, m : /\ m \in 0..n
                   /\ st[0] = d
                   /\ \A i \in 1..m : st[i] = Apply(st[i - 1], ops[i])
                   /\ Submitted(d, ops) = st[m]
                   /\ (\A i \in 1..n : ops[i].op = "merge" => HasOperator(ops[i].p)) => m = n
  BY <1>1, SubmittedSteps, Zenon
<1>3. \A i \in 1..n : ops[i].op \in OpKinds BY <1>1 DEF Range
<1> DEFINE S == {i \in 0..m : \A x \in DOMAIN st[i] : x \in DOMAIN d \/ Named(x)}
<1>4. 0 \in S BY <1>1, <1>2
<1>5. ASSUME NEW i \in 0..(m - 1), i \in S PROVE i + 1 \in S
  <2>1. i + 1 \in 1..m /\ i + 1 \in 1..n /\ (i + 1) - 1 = i /\ i + 1 \in 0..m BY <1>1, <1>2
  <2>2. st[i + 1] = Apply(st[i], ops[i + 1]) BY <1>2, <2>1
  <2>3. \A x \in DOMAIN st[i + 1] :
           x \in DOMAIN st[i] \/ (/\ ops[i + 1].op \in {"set", "merge"}
                                  /\ x = <<ops[i + 1].p, ops[i + 1].k>>)
    BY <1>3, <2>1, <2>2, ApplyKeys
  <2>4. \A x \in DOMAIN st[i] : x \in DOMAIN d \/ Named(x) BY <1>5
  <2>5. ASSUME NEW x \in DOMAIN st[i + 1] PROVE x \in DOMAIN d \/ Named(x)
    BY <1>1, <2>1, <2>3, <2>4
  <2> QED BY <2>1, <2>5
<1>6. m \in Nat BY <1>1, <1>2
<1> HIDE DEF S
<1>7. \A i \in 0..m : i \in S BY <1>4, <1>5, <1>6, LoopInduction
<1>8. m \in S BY <1>6, <1>7
<1> QED BY <1>2, <1>8 DEF S

(* So the keys stay finitely many pairs of numbers.                         *)
LEMMA SubmittedTyped ==
  ASSUME NEW d, KeysTyped(d), NEW ops, ops \in Seq(Range(ops)),
         \A i \in DOMAIN ops : OpTyped(ops[i])
  PROVE  KeysTyped(Submitted(d, ops))
<1> DEFINE K == {<<ops[i].p, ops[i].k>> : i \in DOMAIN ops}
<1>0. \A o \in Range(ops) : o.op \in OpKinds BY DEF OpTyped, Range
<1>1. \A x \in DOMAIN Submitted(d, ops) :
         x \in DOMAIN d \/ \E i \in DOMAIN ops : /\ ops[i].op \in {"set", "merge"}
                                                 /\ x = <<ops[i].p, ops[i].k>>
  BY <1>0, SubmittedKeys
<1>2. IsFiniteSet(K)
  <2>1. DOMAIN ops = 1..Len(ops) /\ Len(ops) \in Nat OBVIOUS
  <2>2. IsFiniteSet(DOMAIN ops) BY <2>1, FS_Interval
  <2> DEFINE h == [i \in DOMAIN ops |-> <<ops[i].p, ops[i].k>>]
  <2>3. h \in Surjection(DOMAIN ops, K) BY DEF Surjection
  <2> HIDE DEF h, K
  <2> QED BY <2>2, <2>3, FS_Surjection
<1>3. DOMAIN Submitted(d, ops) \subseteq DOMAIN d \cup K BY <1>1
<1>4. IsFiniteSet(DOMAIN d \cup K) BY <1>2, FS_Union DEF KeysTyped
<1>5. IsFiniteSet(DOMAIN Submitted(d, ops)) BY <1>3, <1>4, FS_Subset
<1>6. DOMAIN Submitted(d, ops) \subseteq Nat \X Nat
  <2> SUFFICES ASSUME NEW x \in DOMAIN Submitted(d, ops) PROVE x \in Nat \X Nat OBVIOUS
  <2>1. CASE x \in DOMAIN d BY <2>1 DEF KeysTyped
  <2>2. CASE \E i \in DOMAIN ops : ops[i].op \in {"set", "merge"} /\ x = <<ops[i].p, ops[i].k>>
    BY <2>2 DEF OpTyped
  <2> QED BY <1>1, <2>1, <2>2
<1> QED BY <1>5, <1>6 DEF KeysTyped

(* The keys of a version that is formatted lie on the device.               *)
VersionKeys(d) == /\ KeysTyped(d)
                  /\ \A x \in KeysOf(d, BITMAP) : x[2] < GetOr(d, META, 3, 0)

(* The merges of _xor() are on keys of its extent.                          *)
LEMMA XorNames ==
  ASSUME NEW off \in Nat, NEW len \in Nat \ {0}, NEW i \in DOMAIN Xor(off, len)
  PROVE  LET o == Xor(off, len)[i]
         IN  o.op = "merge" /\ o.p = BITMAP /\ o.k \in Nat /\ o.k <= off + len - 1
<1> DEFINE f == off \div BPK
           l == (off + len - 1) \div BPK
           n == l - f + 1
<1>1. /\ f \in Nat /\ l \in Nat /\ n \in Nat
      /\ Xor(off, len) = [j \in 1..n |->
           MergeOp(BITMAP, At(f + j - 1), KeyBits(off, len, At(f + j - 1)))]
  BY XorOps
<1>2. At(l) <= off + len - 1 /\ l \in Nat
  <2>1. off + len - 1 \in Nat OBVIOUS
  <2> QED BY <2>1, KeyOfBlock
<1> HIDE DEF f, l
<1>3. i \in 1..n BY <1>1
<1>4. f + i - 1 \in Nat /\ f + i - 1 <= l BY <1>1, <1>3
<1>5. At(f + i - 1) \in Nat /\ At(f + i - 1) <= At(l)
  <2>1. At(f + i - 1) \in Nat /\ At(l) \in Nat BY <1>1, <1>4, KeyIsMultiple
  <2>2. CASE f + i - 1 = l BY <2>1, <2>2
  <2>3. CASE f + i - 1 < l
    <3>1. At(f + i - 1) + BPK <= At(l) BY <1>1, <1>4, <2>3, KeysApart
    <3> QED BY <2>1, <3>1, FreelistAssumption
  <2> QED BY <1>1, <1>4, <2>2, <2>3
<1>6. Xor(off, len)[i] = MergeOp(BITMAP, At(f + i - 1), KeyBits(off, len, At(f + i - 1)))
  BY <1>1, <1>3
<1>7. At(l) \in Nat BY <1>1, KeyIsMultiple
<1> HIDE DEF n
<1> QED BY <1>2, <1>5, <1>6, <1>7 DEF MergeOp

\* operations on the bitmap's keys below a device of n blocks, and on others
OpBelow(o, n) == OpTyped(o) /\ (o.p = BITMAP => o.k < n)

(* A sequence of operations of one kind: the form in which transactions are *)
(* built from parts.                                                        *)
LEMMA RangeTyped ==
  ASSUME NEW T, NEW ops \in Seq(T)
  PROVE  /\ ops \in Seq(Range(ops))
         /\ \A i \in DOMAIN ops : ops[i] \in T
<1>1. DOMAIN ops = 1..Len(ops) /\ Len(ops) \in Nat OBVIOUS
<1>2. \A i \in 1..Len(ops) : ops[i] \in Range(ops) BY <1>1 DEF Range
<1>3. ops = [i \in 1..Len(ops) |-> ops[i]] OBVIOUS
<1>4. ops \in Seq(Range(ops)) BY <1>1, <1>2, <1>3
<1> QED BY <1>1, <1>4

(* allocate() and release() name keys of their extent.                      *)
LEMMA XorBelow ==
  ASSUME NEW off \in Nat, NEW len \in Nat \ {0}, NEW n \in Nat, off + len <= n
  PROVE  /\ Xor(off, len) \in Seq(Range(Xor(off, len)))
         /\ \A o \in Range(Xor(off, len)) : OpBelow(o, n)
<1> DEFINE X == Xor(off, len)
<1>1. X \in Seq(Range(X)) BY XorIsMerges
<1>2. ASSUME NEW i \in DOMAIN X PROVE OpBelow(X[i], n)
  <2>1. X[i].op = "merge" /\ X[i].p = BITMAP /\ X[i].k \in Nat /\ X[i].k <= off + len - 1
    BY XorNames
  <2>2. BITMAP \in Nat BY FreelistAssumption
  <2> HIDE DEF X
  <2>3. X[i].k < n BY <2>1
  <2>4. OpTyped(X[i]) BY <2>1, <2>2 DEF OpTyped, OpKinds
  <2> QED BY <2>3, <2>4 DEF OpBelow
<1> HIDE DEF X
<1>3. \A o \in Range(X) : OpBelow(o, n) BY <1>2 DEF Range
<1> QED BY <1>1, <1>3 DEF X

(* create() names keys of the device and the manager's own.                 *)
LEMMA CreateBelow ==
  ASSUME NEW size \in Sizes
  PROVE  LET ops == CreateTxn(size)
         IN  /\ ops \in Seq(Range(ops))
             /\ \A i \in DOMAIN ops : OpBelow(ops[i], BlockCount(size))
<1> DEFINE P == Padding(size)
           X == Xor(0, 1)
           M == MetaOps(size)
           N == BlockCount(size)
           T == Range(P) \cup Range(X) \cup Range(M)
           ops == P \o X \o M
<1>1. size \in Nat /\ size > 1 /\ N \in Nat /\ size <= N BY SizeFacts
<1>2. X \in Seq(Range(X)) /\ \A o \in Range(X) : OpBelow(o, N)
  <2>1. 0 + 1 <= N /\ 0 \in Nat /\ 1 \in Nat \ {0} BY <1>1
  <2> HIDE DEF N
  <2> QED BY <1>1, <2>1, XorBelow
<1>3. P \in Seq(Range(P)) /\ \A o \in Range(P) : OpBelow(o, N)
  <2>1. CASE N > size
    <3>1. P = Xor(size, N - size) BY <2>1 DEF Padding
    <3>2. N - size \in Nat \ {0} /\ size + (N - size) <= N BY <1>1, <2>1
    <3> HIDE DEF P, N
    <3> QED BY <1>1, <3>1, <3>2, XorBelow
  <2>2. CASE ~(N > size)
    <3>1. P = <<>> BY <2>2 DEF Padding
    <3>2. <<>> \in Seq(Range(<<>>)) /\ Range(<<>>) = {} BY DEF Range
    <3> HIDE DEF P
    <3> QED BY <3>1, <3>2
  <2> QED BY <2>1, <2>2
<1>4. M \in Seq(Range(M)) /\ \A o \in Range(M) : OpBelow(o, N)
  <2>1. M \in Seq(Range(M)) BY DEF MetaOps, Range
  <2>2. META \in Nat /\ META # BITMAP BY FreelistAssumption
  <2>3. ASSUME NEW k \in Nat, NEW v PROVE OpBelow(SetOp(META, k, v), N)
    BY <2>2 DEF OpBelow, OpTyped, OpKinds, SetOp
  <2>4. ASSUME NEW o \in Range(M) PROVE \E k \in Nat : \E v : o = SetOp(META, k, v)
    <3>1. PICK i \in 1..4 : o = M[i] BY <2>4 DEF Range, MetaOps
    <3>2. /\ M[1] = SetOp(META, 1, 1) /\ M[2] = SetOp(META, 2, BPK)
          /\ M[3] = SetOp(META, 3, N) /\ M[4] = SetOp(META, 4, size)
      BY DEF MetaOps
    <3> HIDE DEF M
    <3>3. i = 1 \/ i = 2 \/ i = 3 \/ i = 4 OBVIOUS
    <3>4. 1 \in Nat /\ 2 \in Nat /\ 3 \in Nat /\ 4 \in Nat OBVIOUS
    <3> QED BY <3>1, <3>2, <3>3, <3>4, Zenon
  <2> HIDE DEF M, N
  <2> QED BY <2>1, <2>3, <2>4
<1>5. CreateTxn(size) = ops BY DEF CreateTxn, MetaOps
<1> HIDE DEF P, X, M, N
<1>6. P \in Seq(T) /\ X \in Seq(T) /\ M \in Seq(T) BY <1>2, <1>3, <1>4
<1>7. \A o \in T : OpBelow(o, N) BY <1>2, <1>3, <1>4
<1> HIDE DEF T
<1>8. ops \in Seq(T)
  <2>1. P \o X \in Seq(T) BY <1>6
  <2> QED BY <1>6, <2>1
<1> HIDE DEF ops
<1>9. ops \in Seq(Range(ops)) /\ \A i \in DOMAIN ops : ops[i] \in T BY <1>8, RangeTyped
<1> QED BY <1>5, <1>7, <1>9 DEF N

(* A transaction on keys below the recorded number of blocks keeps the keys *)
(* of the bitmap there.                                                     *)
LEMMA SubmittedVersionKeys ==
  ASSUME NEW d, NEW ops, ops \in Seq(Range(ops)), NEW n \in Nat,
         \A i \in DOMAIN ops : OpBelow(ops[i], n),
         KeysTyped(d), \A x \in KeysOf(d, BITMAP) : x[2] < n,
         GetOr(Submitted(d, ops), META, 3, 0) = n
  PROVE  VersionKeys(Submitted(d, ops))
<1> DEFINE e == Submitted(d, ops)
<1>1. \A o \in Range(ops) : o.op \in OpKinds BY DEF OpBelow, OpTyped, Range
<1>2. KeysTyped(e) BY SubmittedTyped DEF OpBelow
<1>3. \A x \in DOMAIN e :
         x \in DOMAIN d \/ \E i \in DOMAIN ops : /\ ops[i].op \in {"set", "merge"}
                                                 /\ x = <<ops[i].p, ops[i].k>>
  BY <1>1, SubmittedKeys
<1> HIDE DEF e
<1>4. ASSUME NEW x \in KeysOf(e, BITMAP) PROVE x[2] < n
  <2>1. x \in DOMAIN e /\ x[1] = BITMAP BY DEF KeysOf
  <2>2. CASE x \in DOMAIN d BY <2>1, <2>2 DEF KeysOf
  <2>3. CASE \E i \in DOMAIN ops : x = <<ops[i].p, ops[i].k>> BY <2>1, <2>3 DEF OpBelow
  <2> QED BY <1>3, <2>1, <2>2, <2>3
<1> QED BY <1>2, <1>4 DEF e, VersionKeys

(* allocate() and release().                                                *)
LEMMA XorVersionKeys ==
  ASSUME NEW d, NEW own, NEW size \in Sizes, Formatted(d, own, size), VersionKeys(d),
         NEW off \in Nat, NEW len \in Nat \ {0}, off + len <= size
  PROVE  VersionKeys(Submitted(d, Xor(off, len)))
<1> DEFINE X == Xor(off, len)
           N == BlockCount(size)
           e == Submitted(d, X)
<1>1. size \in Nat /\ N \in Nat /\ size <= N BY SizeFacts
<1>2. off + len <= N BY <1>1
<1>3. X \in Seq(Range(X)) /\ \A o \in Range(X) : OpBelow(o, N) BY <1>1, <1>2, XorBelow
<1>4. \A i \in DOMAIN X : OpBelow(X[i], N) BY <1>3 DEF Range
<1>5. GetOr(d, META, 3, 0) = N BY FormattedOnce
<1>6. GetOr(e, META, 3, 0) = N
  <2>1. SameOutside(d, e, BITMAP)
    BY XorSubmitted DEF Formatted, Flipped
  <2>2. <<META, 3>>[1] # BITMAP BY FreelistAssumption
  <2>3. (<<META, 3>> \in DOMAIN e <=> <<META, 3>> \in DOMAIN d)
        /\ (<<META, 3>> \in DOMAIN d => e[<<META, 3>>] = d[<<META, 3>>])
    BY <2>1, <2>2 DEF SameOutside
  <2> HIDE DEF e
  <2> QED BY <1>5, <2>3 DEF GetOr
<1> HIDE DEF X, N
<1> QED BY <1>1, <1>3, <1>4, <1>5, <1>6, SubmittedVersionKeys DEF VersionKeys, e, X

(* create().                                                                *)
LEMMA CreateVersionKeys ==
  ASSUME NEW d, Fresh(d, {}), VersionKeys(d), NEW size \in Sizes
  PROVE  VersionKeys(Submitted(d, CreateTxn(size)))
<1> DEFINE N == BlockCount(size)
<1>1. N \in Nat BY SizeFacts
<1>2. GetOr(Submitted(d, CreateTxn(size)), META, 3, 0) = N BY CreateFormats, FormattedOnce
<1>3. \A x \in KeysOf(d, BITMAP) : x[2] < N BY DEF Fresh
<1>4. /\ CreateTxn(size) \in Seq(Range(CreateTxn(size)))
      /\ \A i \in DOMAIN CreateTxn(size) : OpBelow(CreateTxn(size)[i], N)
  BY CreateBelow
<1> HIDE DEF N
<1> QED BY <1>1, <1>2, <1>3, <1>4, SubmittedVersionKeys DEF VersionKeys

(* A transaction of the other client.                                       *)
LEMMA OtherVersionKeys ==
  ASSUME NEW d, VersionKeys(d), NEW own, VersionOK(d, own), NEW ops \in OtherTxns
  PROVE  VersionKeys(Submitted(d, ops))
<1> DEFINE N == GetOr(d, META, 3, 0)
           e == Submitted(d, ops)
<1>1. ops \in Seq(Range(ops)) BY FreelistAssumption
<1>2. \A o \in Range(ops) : o.op \in OpKinds /\ o.p \in Nat /\ o.p # BITMAP
                             /\ (o.op \in {"set", "merge"} => o.k \in Nat)
  BY FreelistAssumption
<1>3. \A i \in DOMAIN ops : ops[i] \in Range(ops) BY DEF Range
<1>4. ASSUME NEW n PROVE \A i \in DOMAIN ops : OpBelow(ops[i], n)
  BY <1>2, <1>3 DEF OpBelow, OpTyped
<1>5. CASE Fresh(d, own)
  <2>1. KeysTyped(e) BY <1>1, <1>4, SubmittedTyped DEF VersionKeys, OpBelow
  <2>2. KeysOf(e, BITMAP) = {}
    <3>1. Fresh(e, own) BY <1>5, OtherKeepsVersion
    <3> QED BY <3>1 DEF Fresh
  <2> HIDE DEF e
  <2> QED BY <2>1, <2>2 DEF VersionKeys, e
<1>6. CASE \E size \in Sizes : Formatted(d, own, size)
  <2>1. PICK size \in Sizes : Formatted(d, own, size) BY <1>6
  <2>2. N = BlockCount(size) /\ N \in Nat BY <2>1, FormattedOnce, SizeFacts
  <2>3. Formatted(e, own, size) BY <2>1, OtherKeepsVersion
  <2>4. GetOr(e, META, 3, 0) = N BY <2>2, <2>3, FormattedOnce
  <2>5. KeysTyped(d) /\ \A x \in KeysOf(d, BITMAP) : x[2] < N BY DEF VersionKeys
  <2> HIDE DEF N
  <2> QED BY <1>1, <1>4, <2>2, <2>4, <2>5, SubmittedVersionKeys
<1> QED BY <1>5, <1>6 DEF VersionOK

(* Every version a crash may come back with has its keys on the device.     *)
KeysOK == \A v \in Range(hist) : VersionKeys(v.db)

(* So has the current one.                                                  *)
LEMMA CurrentKeys ==
  ASSUME HistOK, KeysOK
  PROVE  VersionKeys(db)
<1>1. hist[Len(hist)] \in Range(hist)
  <2>1. hist \in Seq(Range(hist)) /\ hist # <<>> BY DEF HistOK
  <2>2. Len(hist) \in Nat /\ Len(hist) # 0 /\ DOMAIN hist = 1..Len(hist) BY <2>1
  <2> QED BY <2>2 DEF Range
<1> QED BY <1>1 DEF HistOK, KeysOK

(* Committing a version with its keys on the device keeps that.             *)
LEMMA SubmitKeepsKeys ==
  ASSUME HistOK, KeysOK, NEW ops, NEW sync \in BOOLEAN, NEW note, Submit(ops, sync, note),
         VersionKeys(db')
  PROVE  KeysOK'
<1> DEFINE v == [db |-> db', note |-> note]
<1>1. hist' = IF sync THEN <<v>> ELSE Append(hist, v) BY DEF Submit
<1>2. v.db = db' OBVIOUS
<1> HIDE DEF v
<1>3. \A w \in Range(hist') : w \in Range(hist) \/ w = v
  <2>1. CASE sync BY <1>1, <2>1, OneElement
  <2>2. CASE ~sync
    <3>1. hist \in Seq(Range(hist)) BY DEF HistOK
    <3> QED BY <1>1, <2>2, <3>1, AppendSeq
  <2> QED BY <2>1, <2>2
<1> QED BY <1>2, <1>3 DEF KeysOK

(* A new database has no keys.                                              *)
LEMMA EmptyKeys == VersionKeys(Empty)
<1>1. DOMAIN Empty = {} BY DEF Empty
<1> QED BY <1>1, FS_EmptySet DEF VersionKeys, KeysTyped, KeysOf

(* Initially there is only the empty version.                               *)
LEMMA InitKeys == Init => KeysOK
<1> SUFFICES ASSUME Init PROVE KeysOK OBVIOUS
<1> DEFINE v == [db |-> Empty, note |-> {}]
<1>1. hist = <<v>> /\ v.db = Empty BY DEF Init
<1> HIDE DEF v
<1>2. \A w \in Range(hist) : w = v BY <1>1, OneElement
<1> QED BY <1>1, <1>2, EmptyKeys DEF KeysOK

(* Every step keeps the keys of every version on the device.                *)
LEMMA NextKeepsKeys == FInv /\ KeysOK /\ [Next]_vars => KeysOK'
<1> SUFFICES ASSUME FInv, KeysOK, [Next]_vars PROVE KeysOK' OBVIOUS
<1>0. VersionKeys(db) /\ VersionOK(db, owned) /\ HistOK BY CurrentKeys, CurrentVersion DEF FInv
<1>1. ASSUME NEW size \in Sizes, Create(size) PROVE KeysOK'
  <2>1. KeysOf(db, META) = {} /\ db' = Submitted(db, CreateTxn(size)) BY <1>1 DEF Create, Submit
  <2>2. \A s \in Sizes : ~Formatted(db, owned, s) BY <2>1, FormattedOnce
  <2>3. Fresh(db, {}) BY <1>0, <2>2 DEF VersionOK, Fresh
  <2>4. VersionKeys(db') BY <1>0, <2>1, <2>3, CreateVersionKeys
  <2>5. Submit(CreateTxn(size), TRUE, {}) BY <1>1 DEF Create
  <2> QED BY <1>0, <2>4, <2>5, SubmitKeepsKeys
<1>2. ASSUME NEW x \in Extents, NEW sync \in BOOLEAN, NEW note,
             fm # None, Submit(Xor(x[1], x[2]), sync, note),
             Span(x[1], x[2]) \subseteq 1..(fm.size - 1)
      PROVE  KeysOK'
  <2>1. x[1] \in Nat \ {0} /\ x[2] \in Nat \ {0} BY ExtentFacts
  <2>2. PICK size \in Sizes : fm.size = size /\ Formatted(db, owned, size)
    BY <1>2 DEF FInv, ManagerOK
  <2>3. x[1] + x[2] <= size
    <3>1. x[1] + x[2] - 1 \in Span(x[1], x[2]) BY <2>1 DEF Span
    <3>2. x[1] + x[2] - 1 \in 1..(size - 1) BY <1>2, <2>2, <3>1
    <3>3. size \in Nat BY SizeFacts
    <3> QED BY <2>1, <3>2, <3>3
  <2>4. VersionKeys(Submitted(db, Xor(x[1], x[2]))) BY <1>0, <2>1, <2>2, <2>3, XorVersionKeys
  <2>5. db' = Submitted(db, Xor(x[1], x[2])) BY <1>2 DEF Submit
  <2> QED BY <1>0, <1>2, <2>4, <2>5, SubmitKeepsKeys
<1>3. ASSUME NEW x \in Extents, NEW sync \in BOOLEAN, Allocate(x[1], x[2], sync) PROVE KeysOK'
  <2>1. /\ fm # None /\ x[1] + x[2] <= fm.size
        /\ Submit(Xor(x[1], x[2]), sync, owned \cup Span(x[1], x[2]))
    BY <1>3 DEF Allocate
  <2>2. PICK size \in Sizes : fm.size = size BY <2>1 DEF FInv, ManagerOK
  <2>3. size \in Nat BY SizeFacts
  <2>4. x[1] \in Nat \ {0} /\ x[2] \in Nat \ {0} BY ExtentFacts
  <2>5. Span(x[1], x[2]) \subseteq 1..(fm.size - 1) BY <2>1, <2>2, <2>3, <2>4 DEF Span
  <2> QED BY <1>2, <2>1, <2>5
<1>4. ASSUME NEW x \in Extents, NEW sync \in BOOLEAN, Release(x[1], x[2], sync) PROVE KeysOK'
  <2>1. /\ fm # None /\ Span(x[1], x[2]) \subseteq owned
        /\ Submit(Xor(x[1], x[2]), sync, owned \ Span(x[1], x[2]))
    BY <1>4 DEF Release
  <2>2. PICK size \in Sizes : fm.size = size /\ Formatted(db, owned, size)
    BY <2>1 DEF FInv, ManagerOK
  <2>3. Span(x[1], x[2]) \subseteq 1..(fm.size - 1) BY <2>1, <2>2 DEF Formatted
  <2> QED BY <1>2, <2>1, <2>3
<1>5. ASSUME NEW ops \in OtherTxns, Other(ops) PROVE KeysOK'
  <2>1. Submit(ops, FALSE, owned) /\ db' = Submitted(db, ops) BY <1>5 DEF Other, Submit
  <2>2. VersionKeys(db') BY <1>0, <2>1, OtherVersionKeys
  <2> QED BY <1>0, <2>1, <2>2, SubmitKeepsKeys
<1>6. ASSUME Crash PROVE KeysOK'
  <2> DEFINE w == [db |-> Empty, note |-> {}]
  <2>1. PICK v \in IF backend = "memdb" THEN {w} ELSE KvLoss(hist) : hist' = <<v>>
    BY <1>6 DEF Crash
  <2>2. VersionKeys(v.db)
    <3>1. CASE backend = "memdb"
      <4>1. v.db = Empty BY <2>1, <3>1
      <4> QED BY <4>1, EmptyKeys
    <3>2. CASE backend # "memdb"
      <4>1. v \in Range(hist) BY <2>1, <3>2 DEF KvLoss
      <4> QED BY <4>1 DEF KeysOK
    <3> QED BY <3>1, <3>2
  <2> QED BY <2>1, <2>2, OneElement DEF KeysOK
<1>7. ASSUME UNCHANGED kvVars PROVE KeysOK'
  BY <1>7 DEF KeysOK, kvVars
<1>8. CASE InitFm \/ EnumerateReset \/ EnumerateNext \/ UNCHANGED vars
  BY <1>7, <1>8 DEF InitFm, EnumerateReset, EnumerateNext, vars
<1> QED BY <1>1, <1>3, <1>4, <1>5, <1>6, <1>8 DEF Next

-----------------------------------------------------------------------------
(* The items of an iterator                                                 *)

\* item i is of the bitmap
OfBitmap(items, i) == i \in 1..Len(items) /\ items[i].key[1] = BITMAP

\* no item of the bitmap has the bit of block b set
Clear(items, b) ==
  \A i \in 1..Len(items) :
    (OfBitmap(items, i) /\ ItemKey(items, i) <= b /\ b < ItemKey(items, i) + BPK)
      => b - ItemKey(items, i) \notin items[i].value

\* the items are sorted and say what is in use on a device of the given size
ItemsOK(items, own, size) ==
  /\ Len(items) \in Nat /\ DOMAIN items = 1..Len(items)
  /\ \A i \in 1..Len(items) : items[i].key[1] \in Nat /\ items[i].key[2] \in Nat
  /\ \A i, j \in 1..Len(items) : i < j => FullKeyLess(items[i].key, items[j].key)
  /\ \A i \in 1..Len(items) : OfBitmap(items, i) =>
       /\ ItemKey(items, i) % BPK = 0 /\ ItemKey(items, i) < BlockCount(size)
       /\ items[i].value \subseteq Bits
  /\ own \subseteq 1..(size - 1)
  /\ \A b \in 0..(BlockCount(size) - 1) :
       Clear(items, b) <=> ~(b \in own \/ b = 0 \/ b >= size)

\* the blocks of a list of extents
Covered(xs) == UNION {Span(x[1], x[2]) : x \in Range(xs)}
\* extents in order, with a block in use between two of them
Apart(xs) == /\ xs \in Seq(Nat \X (Nat \ {0}))
             /\ \A i \in 1..(Len(xs) - 1) : xs[i][1] + xs[i][2] < xs[i + 1][1]

\* the iterator e stands on a block in use, and everything free before it was
\* returned
Scanning(e, own, size, xs) ==
  /\ OfBitmap(e.items, e.i) /\ e.off = ItemKey(e.items, e.i) /\ e.pos \in Bits
  /\ ~Clear(e.items, e.off + e.pos)
  /\ Covered(xs) = {b \in Span(1, size - 1) \ own : b < e.off + e.pos}
  /\ xs # <<>> => xs[Len(xs)][1] + xs[Len(xs)][2] = e.off + e.pos

\* everything free was returned
Scanned(own, size, xs) == Covered(xs) = Span(1, size - 1) \ own

\* what holds between two calls of enumerate_next()
EnumOK ==
  /\ done \in BOOLEAN
  /\ DOMAIN en = {"items", "i", "off", "pos"}
  /\ ~Started => out = <<>> /\ ~done
  /\ Started =>
       /\ fm # None
       /\ ItemsOK(en.items, snap, fm.size)
       /\ en.off \in 0..(fm.blocks + BPK) /\ en.pos \in 0..BPK
       /\ Apart(out)
       /\ \/ ~done /\ Scanning(en, snap, fm.size, out)
          \/ (done \/ en.off >= fm.size) /\ Scanned(snap, fm.size, out)

(* An iterator's copy of the database holds every key once, in key order    *)
(* (MemDB's map, RocksDB's comparator).                                     *)
LEMMA ItemsSorted ==
  ASSUME NEW d, KeysTyped(d)
  PROVE  LET items == ItemsOf(d)
         IN  /\ Len(items) \in Nat /\ DOMAIN items = 1..Len(items)
             /\ \A i \in 1..Len(items) : items[i].key \in DOMAIN d /\ items[i].value = d[items[i].key]
             /\ \A i, j \in 1..Len(items) : i < j => FullKeyLess(items[i].key, items[j].key)
             /\ \A x \in DOMAIN d : \E i \in 1..Len(items) : items[i].key = x
<1> DEFINE D == DOMAIN d
           n == Cardinality(D)
           below == [x \in D |-> {y \in D : FullKeyLess(y, x)}]
           items == ItemsOf(d)
<1>1. IsFiniteSet(D) /\ \A x \in D : x[1] \in Nat /\ x[2] \in Nat /\ x = <<x[1], x[2]>>
  BY DEF KeysTyped
<1>2. n \in Nat BY <1>1, FS_CardinalityType
<1>3. /\ below \in [D -> SUBSET D]
      /\ \A x \in D : x \notin below[x]
      /\ \A x, y \in D : x \in below[y] => below[x] \subseteq below[y]
      /\ \A x, y \in D : x = y \/ x \in below[y] \/ y \in below[x]
  BY <1>1 DEF FullKeyLess
<1>4. /\ \A k \in 0..(n - 1) : \E x \in D : Cardinality(below[x]) = k
      /\ \A x \in D : Cardinality(below[x]) \in 0..(n - 1)
      /\ \A x, y \in D : x \in below[y] => Cardinality(below[x]) < Cardinality(below[y])
  <2> HIDE DEF below, D
  <2> QED BY <1>1, <1>3, Ranked DEF n
<1>5. \A x \in D : below[x] = {y \in D : FullKeyLess(y, x)} OBVIOUS
<1>6. ASSUME NEW i \in 1..n
      PROVE  KeyAt(d, i) \in D /\ Cardinality(below[KeyAt(d, i)]) = i - 1
  <2>1. i - 1 \in 0..(n - 1) BY <1>2
  <2>2. PICK x \in D : Cardinality(below[x]) = i - 1 BY <1>4, <2>1
  <2>3. \E y \in D : Cardinality({z \in D : FullKeyLess(z, y)}) = i - 1 BY <1>5, <2>2
  <2>4. KeyAt(d, i) \in D /\ Cardinality({z \in D : FullKeyLess(z, KeyAt(d, i))}) = i - 1
    BY <2>3 DEF KeyAt
  <2> HIDE DEF below
  <2> QED BY <1>5, <2>4
<1>7. items = [i \in 1..n |-> [key |-> KeyAt(d, i), value |-> d[KeyAt(d, i)]]] BY DEF ItemsOf
<1>8. Len(items) = n /\ DOMAIN items = 1..n BY <1>2, <1>7
<1> HIDE DEF below
<1>9. \A i \in 1..n : items[i].key = KeyAt(d, i) /\ items[i].value = d[KeyAt(d, i)] BY <1>7
<1> HIDE DEF items, n, D
<1>10. ASSUME NEW i \in 1..n, NEW j \in 1..n, i < j
       PROVE  FullKeyLess(KeyAt(d, i), KeyAt(d, j))
  <2>1. KeyAt(d, i) \in D /\ KeyAt(d, j) \in D BY <1>6
  <2>2. ~(KeyAt(d, j) \in below[KeyAt(d, i)])
    <3> SUFFICES ASSUME KeyAt(d, j) \in below[KeyAt(d, i)] PROVE FALSE OBVIOUS
    <3>1. Cardinality(below[KeyAt(d, j)]) < Cardinality(below[KeyAt(d, i)]) BY <1>4, <2>1
    <3>2. j - 1 < i - 1 BY <1>6, <3>1
    <3> QED BY <1>2, <1>10, <3>2
  <2>3. KeyAt(d, i) # KeyAt(d, j)
    <3>1. i - 1 # j - 1 BY <1>10, <1>2
    <3> QED BY <1>6, <3>1
  <2>4. KeyAt(d, i) \in below[KeyAt(d, j)] BY <1>3, <2>1, <2>2, <2>3
  <2> QED BY <1>5, <2>1, <2>4
<1>11. ASSUME NEW x \in D PROVE \E i \in 1..n : KeyAt(d, i) = x
  <2> DEFINE i == Cardinality(below[x]) + 1
  <2>1. Cardinality(below[x]) \in 0..(n - 1) BY <1>4
  <2>2. i \in 1..n /\ i - 1 = Cardinality(below[x]) BY <1>2, <2>1
  <2> HIDE DEF i
  <2>3. KeyAt(d, i) \in D /\ Cardinality(below[KeyAt(d, i)]) = Cardinality(below[x])
    BY <1>6, <2>2
  <2>4. Cardinality(below[x]) \in Nat BY <2>1
  <2>5. ~(x \in below[KeyAt(d, i)]) /\ ~(KeyAt(d, i) \in below[x])
    <3>1. ASSUME NEW y \in D, NEW z \in D, y \in below[z],
                 Cardinality(below[y]) = Cardinality(below[z]), Cardinality(below[z]) \in Nat
          PROVE  FALSE
      <4>1. Cardinality(below[y]) < Cardinality(below[z]) BY <1>4, <3>1
      <4> QED BY <3>1, <4>1
    <3> QED BY <2>3, <2>4, <3>1
  <2>6. KeyAt(d, i) = x BY <1>3, <2>3, <2>5
  <2> QED BY <2>2, <2>6
<1>12. /\ Len(items) \in Nat /\ DOMAIN items = 1..Len(items)
  BY <1>2, <1>8
<1>13. \A i \in 1..Len(items) : items[i].key \in DOMAIN d /\ items[i].value = d[items[i].key]
  BY <1>6, <1>8, <1>9 DEF D
<1>14. \A i, j \in 1..Len(items) : i < j => FullKeyLess(items[i].key, items[j].key)
  BY <1>8, <1>9, <1>10
<1>15. \A x \in DOMAIN d : \E i \in 1..Len(items) : items[i].key = x
  BY <1>8, <1>9, <1>11 DEF D
<1> QED BY <1>12, <1>13, <1>14, <1>15 DEF items

(* Two keys of the bitmap that cover one block are the same.                *)
LEMMA KeyCovers ==
  ASSUME NEW k \in Nat, k % BPK = 0, NEW b \in Nat, k <= b, b < k + BPK
  PROVE  KeyOf(b) = k /\ b % BPK = b - k
<1> DEFINE q == k \div BPK
<1>1. q \in Nat /\ k = At(q)
  <2>1. q \in Nat /\ At(q) <= k /\ k < At(q) + BPK /\ k % BPK = k - At(q) BY KeyOfBlock
  <2>2. At(q) \in Nat BY <2>1, KeyIsMultiple
  <2> HIDE DEF q
  <2> QED BY <2>1, <2>2
<1> HIDE DEF q
<1>2. b \div BPK = q BY <1>1, BlockInKey
<1>3. KeyOf(b) = At(b \div BPK) /\ b % BPK = b - At(b \div BPK) BY KeyOfBlock
<1> QED BY <1>1, <1>2, <1>3

(* The items of a version say what the version says.                        *)
LEMMA SnapshotItems ==
  ASSUME NEW d, NEW own, NEW size \in Sizes, Formatted(d, own, size), VersionKeys(d)
  PROVE  ItemsOK(ItemsOf(d), own, size)
<1> DEFINE items == ItemsOf(d)
           N == BlockCount(size)
<1>1. /\ Len(items) \in Nat /\ DOMAIN items = 1..Len(items)
      /\ \A i \in 1..Len(items) : items[i].key \in DOMAIN d /\ items[i].value = d[items[i].key]
      /\ \A i, j \in 1..Len(items) : i < j => FullKeyLess(items[i].key, items[j].key)
      /\ \A x \in DOMAIN d : \E i \in 1..Len(items) : items[i].key = x
  BY ItemsSorted DEF VersionKeys
<1>2. \A x \in DOMAIN d : x[1] \in Nat /\ x[2] \in Nat /\ x = <<x[1], x[2]>>
  BY DEF VersionKeys, KeysTyped
<1>3. GetOr(d, META, 3, 0) = N BY FormattedOnce
<1>4. \A x \in DOMAIN d : x[1] = BITMAP => x[2] < N /\ x[2] % BPK = 0 /\ d[x] \subseteq Bits
  BY <1>3 DEF VersionKeys, Formatted, BitmapTyped, KeysOf
<1>5. N \in Nat BY SizeFacts
<1> HIDE DEF items, N
<1>6. \A i \in 1..Len(items) : items[i].key[1] \in Nat /\ items[i].key[2] \in Nat
  BY <1>1, <1>2
<1>7. \A i \in 1..Len(items) : OfBitmap(items, i) =>
        /\ ItemKey(items, i) % BPK = 0 /\ ItemKey(items, i) < N
        /\ items[i].value \subseteq Bits
  BY <1>1, <1>4 DEF OfBitmap, ItemKey
<1>8. ASSUME NEW b \in 0..(N - 1)
      PROVE  Clear(items, b) <=> (b % BPK) \notin Marked(d, KeyOf(b))
  <2>0. b \in Nat BY <1>5
  <2>1. ASSUME Clear(items, b), (b % BPK) \in Marked(d, KeyOf(b)) PROVE FALSE
    <3> DEFINE x == <<BITMAP, KeyOf(b)>>
    <3>1. x \in DOMAIN d /\ (b % BPK) \in d[x] BY <2>1 DEF Marked, GetOr
    <3>2. PICK i \in 1..Len(items) : items[i].key = x BY <1>1, <3>1
    <3>3. OfBitmap(items, i) /\ ItemKey(items, i) = KeyOf(b) BY <3>2 DEF OfBitmap, ItemKey
    <3>4. items[i].value = d[x] BY <1>1, <3>2
    <3>5. KeyOf(b) <= b /\ b < KeyOf(b) + BPK /\ b - KeyOf(b) = b % BPK
      BY <2>0, KeyOfBlock
    <3> HIDE DEF x
    <3> QED BY <2>1, <3>1, <3>3, <3>4, <3>5 DEF Clear
  <2>2. ASSUME ~Clear(items, b), (b % BPK) \notin Marked(d, KeyOf(b)) PROVE FALSE
    <3>1. PICK i \in 1..Len(items) :
            /\ OfBitmap(items, i) /\ ItemKey(items, i) <= b /\ b < ItemKey(items, i) + BPK
            /\ b - ItemKey(items, i) \in items[i].value
      BY <2>2 DEF Clear
    <3> DEFINE k == ItemKey(items, i)
    <3>2. items[i].key \in DOMAIN d /\ items[i].value = d[items[i].key] BY <1>1
    <3>3. items[i].key = <<BITMAP, k>> /\ k \in Nat BY <1>2, <3>1, <3>2 DEF OfBitmap, ItemKey
    <3>4. k % BPK = 0 /\ d[<<BITMAP, k>>] \subseteq Bits BY <1>7, <3>1, <3>2, <3>3
    <3> HIDE DEF k
    <3>5. KeyOf(b) = k /\ b % BPK = b - k BY <2>0, <3>1, <3>3, <3>4, KeyCovers DEF k
    <3>6. d[<<BITMAP, k>>] # Unreadable BY <3>4, FreelistAssumption DEF Bits
    <3>7. Marked(d, KeyOf(b)) = d[<<BITMAP, k>>] BY <3>2, <3>3, <3>5, <3>6 DEF Marked, GetOr
    <3>8. b - k \in d[<<BITMAP, k>>] BY <3>1, <3>2, <3>3 DEF k
    <3> QED BY <2>2, <3>5, <3>7, <3>8
  <2> QED BY <2>1, <2>2
<1>9. \A b \in 0..(N - 1) : Clear(items, b) <=> ~(b \in own \/ b = 0 \/ b >= size)
  BY <1>8 DEF Formatted, N
<1>10. own \subseteq 1..(size - 1) BY DEF Formatted
<1> QED BY <1>1, <1>6, <1>7, <1>9, <1>10 DEF ItemsOK, items, N

(* A key on the device is the offset of a block of the device.              *)
LEMMA KeyBelowSize ==
  ASSUME NEW size \in Sizes, NEW k \in Nat, k % BPK = 0, k < BlockCount(size)
  PROVE  k < size /\ k + BPK <= BlockCount(size)
<1> DEFINE q == k \div BPK
           m == (size + BPK - 1) \div BPK
<1>0. size \in Nat /\ size > 1 /\ BPK \in Nat \ {0} BY SizeFacts, FreelistAssumption
<1>1. q \in Nat /\ k = At(q)
  <2>1. q \in Nat /\ At(q) <= k /\ k < At(q) + BPK /\ k % BPK = k - At(q) BY KeyOfBlock
  <2>2. At(q) \in Nat BY <2>1, KeyIsMultiple
  <2> HIDE DEF q
  <2> QED BY <2>1, <2>2
<1>2. m \in Nat /\ At(m) <= size + BPK - 1 /\ BlockCount(size) = At(m)
  <2>1. size + BPK - 1 \in Nat BY <1>0
  <2> QED BY <2>1, KeyOfBlock DEF BlockCount, At
<1> HIDE DEF q, m
<1>3. At(m) \in Nat BY <1>2, KeyIsMultiple
<1>4. q < m
  <2>1. CASE m < q
    <3>1. At(m) + BPK <= At(q) BY <1>1, <1>2, <2>1, KeysApart
    <3> QED BY <1>0, <1>1, <1>2, <1>3, <3>1
  <2>2. CASE m = q BY <1>1, <1>2, <2>2
  <2> QED BY <1>1, <1>2, <2>1, <2>2
<1>5. k + BPK <= At(m) BY <1>1, <1>2, <1>4, KeysApart
<1> QED BY <1>0, <1>1, <1>2, <1>3, <1>5

(* The keys of two items are a whole number of keys apart.                  *)
LEMMA ItemsApart ==
  ASSUME NEW items, NEW own, NEW size, ItemsOK(items, own, size),
         NEW i, NEW j, OfBitmap(items, i), OfBitmap(items, j), i < j
  PROVE  ItemKey(items, i) + BPK <= ItemKey(items, j)
<1> DEFINE k == ItemKey(items, i)
           l == ItemKey(items, j)
<1>1. i \in 1..Len(items) /\ j \in 1..Len(items) BY DEF OfBitmap
<1>2. k \in Nat /\ l \in Nat /\ k % BPK = 0 /\ l % BPK = 0 BY <1>1 DEF ItemsOK, ItemKey
<1>3. k < l
  <2>1. FullKeyLess(items[i].key, items[j].key) BY <1>1 DEF ItemsOK
  <2>2. BITMAP \in Nat BY FreelistAssumption
  <2> QED BY <2>1, <2>2 DEF FullKeyLess, OfBitmap, ItemKey
<1> HIDE DEF k, l
<1> SUFFICES ASSUME l < k + BPK PROVE FALSE BY <1>2, FreelistAssumption DEF k, l
<1>4. k <= l BY <1>2, <1>3
<1>5. KeyOf(l) = k BY <1>2, <1>4, KeyCovers
<1>6. KeyOf(l) = l
  <2>1. l <= l /\ l < l + BPK BY <1>2, FreelistAssumption
  <2> QED BY <1>2, <2>1, KeyCovers
<1> QED BY <1>2, <1>3, <1>5, <1>6

(* What an item says of the blocks it covers is all there is to say.        *)
LEMMA ClearIn ==
  ASSUME NEW items, NEW own, NEW size, ItemsOK(items, own, size),
         NEW i, OfBitmap(items, i), NEW b \in Nat,
         ItemKey(items, i) <= b, b < ItemKey(items, i) + BPK
  PROVE  Clear(items, b) <=> b - ItemKey(items, i) \notin items[i].value
<1>0. i \in 1..Len(items) BY DEF OfBitmap
<1>1. ASSUME NEW j \in 1..Len(items), OfBitmap(items, j),
             ItemKey(items, j) <= b, b < ItemKey(items, j) + BPK
      PROVE  j = i
  <2>1. ItemKey(items, i) \in Nat /\ ItemKey(items, j) \in Nat /\ BPK \in Nat
    BY <1>0, <1>1, FreelistAssumption DEF ItemsOK, ItemKey
  <2>2. ~(i < j)
    <3> SUFFICES ASSUME i < j PROVE FALSE OBVIOUS
    <3>1. ItemKey(items, i) + BPK <= ItemKey(items, j) BY <1>1, ItemsApart
    <3> QED BY <1>1, <2>1, <3>1
  <2>3. ~(j < i)
    <3> SUFFICES ASSUME j < i PROVE FALSE OBVIOUS
    <3>1. ItemKey(items, j) + BPK <= ItemKey(items, i) BY <1>1, ItemsApart
    <3> QED BY <1>1, <2>1, <3>1
  <2>4. Len(items) \in Nat BY DEF ItemsOK
  <2> QED BY <1>0, <2>2, <2>3, <2>4
<1> QED BY <1>0, <1>1 DEF Clear

(* Past the last item of the bitmap nothing is in use.                      *)
LEMMA NoMoreItems ==
  ASSUME NEW items, NEW own, NEW size, ItemsOK(items, own, size),
         NEW i, OfBitmap(items, i), ~ValidAt(items, NextAt(items, i), BITMAP)
  PROVE  \A b \in Nat : b >= ItemKey(items, i) + BPK => Clear(items, b)
<1>0. i \in 1..Len(items) /\ Len(items) \in Nat /\ DOMAIN items = 1..Len(items)
  BY DEF OfBitmap, ItemsOK
<1>1. ASSUME NEW j \in 1..Len(items), OfBitmap(items, j), i < j PROVE FALSE
  <2>1. NextAt(items, i) = i + 1 /\ i + 1 \in 1..Len(items) BY <1>0, <1>1 DEF NextAt
  <2>2. items[i + 1].key[1] # BITMAP BY <1>0, <2>1 DEF ValidAt
  <2>3. FullKeyLess(items[i].key, items[i + 1].key) BY <1>0, <2>1 DEF ItemsOK
  <2>4. /\ items[i].key[1] = BITMAP /\ items[j].key[1] = BITMAP /\ BITMAP \in Nat
        /\ items[i + 1].key[1] \in Nat
    BY <1>0, <1>1, <2>1, FreelistAssumption DEF OfBitmap, ItemsOK
  <2>5. BITMAP < items[i + 1].key[1] BY <2>2, <2>3, <2>4 DEF FullKeyLess
  <2>6. CASE j = i + 1 BY <2>2, <2>4, <2>6
  <2>7. CASE i + 1 < j
    <3>1. FullKeyLess(items[i + 1].key, items[j].key) BY <2>1, <2>7 DEF ItemsOK
    <3> QED BY <2>4, <2>5, <3>1 DEF FullKeyLess
  <2> QED BY <1>0, <1>1, <2>6, <2>7
<1>2. ASSUME NEW b \in Nat, b >= ItemKey(items, i) + BPK,
             NEW j \in 1..Len(items), OfBitmap(items, j),
             ItemKey(items, j) <= b, b < ItemKey(items, j) + BPK
      PROVE  FALSE
  <2>1. ItemKey(items, i) \in Nat /\ ItemKey(items, j) \in Nat /\ BPK \in Nat
    BY <1>0, FreelistAssumption DEF ItemsOK, ItemKey
  <2>2. j <= i BY <1>0, <1>1, <1>2
  <2>3. CASE j = i BY <1>2, <2>1, <2>3
  <2>4. CASE j < i
    <3>1. ItemKey(items, j) + BPK <= ItemKey(items, i) BY <1>2, <2>4, ItemsApart
    <3> QED BY <1>2, <2>1, <3>1
  <2> QED BY <1>0, <2>2, <2>3, <2>4
<1> QED BY <1>2 DEF Clear

(* Between an item and the next, keys are missing: nothing is in use there. *)
LEMMA NextItem ==
  ASSUME NEW items, NEW own, NEW size, ItemsOK(items, own, size),
         NEW i, OfBitmap(items, i), ValidAt(items, NextAt(items, i), BITMAP)
  PROVE  /\ NextAt(items, i) = i + 1 /\ OfBitmap(items, i + 1)
         /\ ItemKey(items, i) + BPK <= ItemKey(items, i + 1)
         /\ \A b \in Nat : b >= ItemKey(items, i) + BPK /\ b < ItemKey(items, i + 1)
                             => Clear(items, b)
<1>0. i \in 1..Len(items) /\ Len(items) \in Nat /\ DOMAIN items = 1..Len(items)
  BY DEF OfBitmap, ItemsOK
<1>1. NextAt(items, i) = i + 1 /\ OfBitmap(items, i + 1)
  BY <1>0 DEF NextAt, ValidAt, OfBitmap
<1>2. i + 1 \in 1..Len(items) /\ i < i + 1 BY <1>0, <1>1 DEF OfBitmap
<1>3. ItemKey(items, i) + BPK <= ItemKey(items, i + 1) BY <1>1, <1>2, ItemsApart
<1>4. ASSUME NEW b \in Nat, b >= ItemKey(items, i) + BPK, b < ItemKey(items, i + 1),
             NEW j \in 1..Len(items), OfBitmap(items, j),
             ItemKey(items, j) <= b, b < ItemKey(items, j) + BPK
      PROVE  FALSE
  <2>1. /\ ItemKey(items, i) \in Nat /\ ItemKey(items, j) \in Nat /\ BPK \in Nat
        /\ ItemKey(items, i + 1) \in Nat
    BY <1>0, <1>2, FreelistAssumption DEF ItemsOK, ItemKey
  <2>2. CASE j < i
    <3>1. ItemKey(items, j) + BPK <= ItemKey(items, i) BY <1>4, <2>2, ItemsApart
    <3> QED BY <1>4, <2>1, <3>1
  <2>3. CASE j = i BY <1>4, <2>1, <2>3
  <2>4. CASE j = i + 1 BY <1>4, <2>1, <2>4
  <2>5. CASE i + 1 < j
    <3>1. ItemKey(items, i + 1) + BPK <= ItemKey(items, j) BY <1>1, <1>4, <2>5, ItemsApart
    <3> QED BY <1>4, <2>1, <3>1
  <2> QED BY <1>0, <2>2, <2>3, <2>4, <2>5
<1> QED BY <1>1, <1>3, <1>4 DEF Clear

-----------------------------------------------------------------------------
(* The two loops of enumerate_next()                                        *)

\* f is the walk from each index to the first one in stop
IsWalk(f, n, stop, val) == f = [i \in 0..n |-> IF i \in stop THEN val[i] ELSE f[i + 1]]

(* From every index there is a first one at which a loop stops.             *)
LEMMA FirstIndex ==
  ASSUME NEW n \in Nat, NEW stop, n \in stop
  PROVE  \E first : \A i \in 0..n :
           /\ first[i] \in i..n /\ first[i] \in stop
           /\ \A k \in i..(first[i] - 1) : k \notin stop
           /\ i \in stop => first[i] = i
           /\ i \notin stop => i + 1 \in 0..n /\ first[i] = first[i + 1]
<1> DEFINE First(i, m) == m \in i..n /\ m \in stop /\ \A k \in i..(m - 1) : k \notin stop
           first == [i \in 0..n |-> CHOOSE m : First(i, m)]
<1>1. ASSUME NEW i \in 0..n PROVE \E m : First(i, m)
  <2> DEFINE T == {m \in i..n : m \in stop}
  <2>1. T \in SUBSET Nat /\ T # {} OBVIOUS
  <2>2. PICK m \in T : \A y \in T : m <= y
    <3> HIDE DEF T
    <3> QED BY <2>1, LeastElement
  <2>3. First(i, m) BY <2>2
  <2> QED BY <2>3
<1>2. ASSUME NEW i \in 0..n PROVE First(i, first[i])
  <2> HIDE DEF First
  <2> QED BY <1>1
<1>3. ASSUME NEW i \in 0..n, NEW m, NEW k, First(i, m), First(i, k) PROVE m = k
  BY <1>3
<1> HIDE DEF first
<1>4. ASSUME NEW i \in 0..n, i \in stop PROVE first[i] = i
  <2>1. First(i, i) BY <1>4
  <2> HIDE DEF First
  <2> QED BY <1>2, <1>3, <2>1
<1>5. ASSUME NEW i \in 0..n, i \notin stop PROVE i + 1 \in 0..n /\ first[i] = first[i + 1]
  <2>1. i + 1 \in 0..n BY <1>5
  <2>2. First(i + 1, first[i + 1]) BY <1>2, <2>1
  <2>3. First(i, first[i + 1]) BY <1>5, <2>1, <2>2
  <2> HIDE DEF First
  <2> QED BY <1>2, <1>3, <2>1, <2>3
<1> QED BY <1>2, <1>4, <1>5

(* A loop that walks forward until an index at which it stops is defined... *)
LEMMA WalkExists ==
  ASSUME NEW n \in Nat, NEW stop, n \in stop, NEW val
  PROVE  \E f : IsWalk(f, n, stop, val)
<1>1. PICK first : \A i \in 0..n :
        /\ i \in stop => first[i] = i
        /\ i \notin stop => i + 1 \in 0..n /\ first[i] = first[i + 1]
  BY FirstIndex
<1> DEFINE f == [i \in 0..n |-> val[first[i]]]
<1>2. \A i \in 0..n : f[i] = IF i \in stop THEN val[i] ELSE f[i + 1] BY <1>1
<1>3. IsWalk(f, n, stop, val) BY <1>2 DEF IsWalk
<1> QED BY <1>3

(* ... and returns what it finds at the first such index.                   *)
LEMMA WalkStops ==
  ASSUME NEW n \in Nat, NEW stop, n \in stop, NEW val, NEW f, IsWalk(f, n, stop, val),
         NEW i \in 0..n
  PROVE  \E m \in i..n : /\ m \in stop /\ f[i] = val[m]
                         /\ \A k \in i..(m - 1) : k \notin stop
<1>1. PICK first : \A j \in 0..n :
           /\ first[j] \in j..n /\ first[j] \in stop
           /\ \A k \in j..(first[j] - 1) : k \notin stop
           /\ j \in stop => first[j] = j
           /\ j \notin stop => j + 1 \in 0..n /\ first[j] = first[j + 1]
  BY FirstIndex
<1> DEFINE S == {d \in 0..n : f[n - d] = val[first[n - d]]}
<1>2. \A j \in 0..n : f[j] = IF j \in stop THEN val[j] ELSE f[j + 1] BY DEF IsWalk
<1>3. 0 \in S
  <2>1. n \in 0..n /\ n - 0 = n OBVIOUS
  <2>2. f[n] = val[n] /\ first[n] = n BY <1>1, <1>2, <2>1
  <2> QED BY <2>1, <2>2
<1>4. ASSUME NEW d \in 0..(n - 1), d \in S PROVE d + 1 \in S
  <2>1. n - (d + 1) \in 0..n /\ (n - (d + 1)) + 1 = n - d /\ d + 1 \in 0..n OBVIOUS
  <2>2. CASE n - (d + 1) \in stop BY <1>1, <1>2, <2>1, <2>2
  <2>3. CASE n - (d + 1) \notin stop
    <3>1. f[n - (d + 1)] = f[n - d] BY <1>2, <2>1, <2>3
    <3>2. first[n - (d + 1)] = first[n - d] BY <1>1, <2>1, <2>3
    <3> QED BY <1>4, <2>1, <3>1, <3>2
  <2> QED BY <2>2, <2>3
<1> HIDE DEF S
<1>5. \A d \in 0..n : d \in S BY <1>3, <1>4, LoopInduction
<1>6. n - i \in 0..n /\ n - (n - i) = i OBVIOUS
<1>7. f[i] = val[first[i]]
  <2>1. n - i \in S BY <1>5, <1>6
  <2> QED BY <1>6, <2>1 DEF S
<1> QED BY <1>1, <1>7

(* The least element of a set of bits.                                      *)
LEMMA LeastOf ==
  ASSUME NEW S \in SUBSET Nat, S # {}
  PROVE  Min(S) \in S /\ \A y \in S : Min(S) <= y
<1>1. \E x \in S : \A y \in S : x <= y BY LeastElement
<1> QED BY <1>1 DEF Min

(* get_next_clear_bit().                                                    *)
LEMMA NextClearIs ==
  ASSUME NEW bits, NEW pos \in Nat
  PROVE  LET p == NextClear(bits, pos)
         IN \/ p = -1 /\ \A b \in Bits : b >= pos => b \in bits
            \/ /\ p \in Bits /\ p >= pos /\ p \notin bits /\ p # -1
               /\ \A b \in Bits : b >= pos /\ b < p => b \in bits
<1> DEFINE s == {b \in Bits : b >= pos /\ b \notin bits}
<1>1. NextClear(bits, pos) = IF s = {} THEN -1 ELSE Min(s) BY DEF NextClear
<1>2. s \in SUBSET Nat BY FreelistAssumption DEF Bits
<1>3. CASE s = {} BY <1>1, <1>3
<1>4. CASE s # {}
  <2>1. Min(s) \in s /\ \A y \in s : Min(s) <= y
    <3> HIDE DEF s
    <3> QED BY <1>2, <1>4, LeastOf
  <2>2. \A b \in Bits : b \in Nat BY FreelistAssumption DEF Bits
  <2> DEFINE p == Min(s)
  <2>3. p \in Bits /\ p >= pos /\ p \notin bits /\ p \in Nat BY <2>1, <2>2
  <2>4. \A b \in Bits : (b >= pos /\ b \notin bits) => p <= b BY <2>1
  <2>5. NextClear(bits, pos) = p BY <1>1, <1>4
  <2> HIDE DEF p
  <2> QED BY <2>2, <2>3, <2>4, <2>5
<1> QED BY <1>3, <1>4

(* get_next_set_bit().                                                      *)
LEMMA NextSetIs ==
  ASSUME NEW bits, NEW pos \in Nat
  PROVE  LET p == NextSet(bits, pos)
         IN \/ p = -1 /\ \A b \in Bits : b >= pos => b \notin bits
            \/ /\ p \in Bits /\ p >= pos /\ p \in bits /\ p # -1
               /\ \A b \in Bits : b >= pos /\ b < p => b \notin bits
<1> DEFINE s == {b \in Bits : b >= pos /\ b \in bits}
<1>1. NextSet(bits, pos) = IF s = {} THEN -1 ELSE Min(s) BY DEF NextSet
<1>2. s \in SUBSET Nat BY FreelistAssumption DEF Bits
<1>3. CASE s = {} BY <1>1, <1>3
<1>4. CASE s # {}
  <2>1. Min(s) \in s /\ \A y \in s : Min(s) <= y
    <3> HIDE DEF s
    <3> QED BY <1>2, <1>4, LeastOf
  <2>2. \A b \in Bits : b \in Nat BY FreelistAssumption DEF Bits
  <2> DEFINE p == Min(s)
  <2>3. p \in Bits /\ p >= pos /\ p \in bits /\ p \in Nat BY <2>1, <2>2
  <2>4. \A b \in Bits : (b >= pos /\ b \in bits) => p <= b BY <2>1
  <2>5. NextSet(bits, pos) = p BY <1>1, <1>4
  <2> HIDE DEF p
  <2> QED BY <2>2, <2>3, <2>4, <2>5
<1> QED BY <1>3, <1>4

\* one iteration of the first loop, n items after the one it starts on; later
\* is what the rest of the loop returns
FoundAt(e, n) == IF n = 0 THEN NextClear(e.items[e.i + n].value, e.pos) ELSE -1
StartBody(e, n, later) ==
  IF FoundAt(e, n) # -1
    THEN [i |-> e.i + n, off |-> e.off, pos |-> FoundAt(e, n), start |-> e.off + FoundAt(e, n)]
    ELSE Arrive(e.items, ItemKey(e.items, e.i + n), NextAt(e.items, e.i + n),
                IF e.i + n < Len(e.items) THEN later ELSE None)

\* the loop, from each number of items on
IsStart(f, e, n) == f = [k \in 0..n |-> StartBody(e, k, f[k + 1])]

\* it leaves the loop in that iteration
StartStops(e, n) ==
  LET at == e.i + n
      j  == NextAt(e.items, at)
  IN \/ FoundAt(e, n) # -1
     \/ ~ValidAt(e.items, j, BITMAP)
     \/ ItemKey(e.items, j) > ItemKey(e.items, at) + BPK
     \/ NextClear(e.items[j].value, 0) # -1

(* The first loop of enumerate_next() returns what it finds at the first    *)
(* item where it stops.                                                     *)
LEMMA FreeStartStops ==
  ASSUME NEW e, NEW N \in Nat, Len(e.items) = N, DOMAIN e.items = 1..N, e.i \in 1..N
  PROVE  \E m \in 0..N : /\ StartStops(e, m) /\ FreeStart(e) = StartBody(e, m, None)
                         /\ \A k \in 0..(m - 1) : ~StartStops(e, k)
<1> DEFINE stop == {n \in 0..N : StartStops(e, n)}
           val == [n \in 0..N |-> StartBody(e, n, None)]
<1>1. ASSUME NEW n \in 0..N, NEW later
      PROVE  StartBody(e, n, later) = IF n \in stop THEN val[n] ELSE later
  <2>1. CASE StartStops(e, n)
    <3>1. StartBody(e, n, later) = StartBody(e, n, None)
      BY <2>1 DEF StartBody, StartStops, Arrive
    <3> QED BY <2>1, <3>1
  <2>2. CASE ~StartStops(e, n)
    <3>1. e.i + n < N
      <4>1. ValidAt(e.items, NextAt(e.items, e.i + n), BITMAP) BY <2>2 DEF StartStops
      <4> QED BY <4>1 DEF ValidAt, NextAt
    <3>2. StartBody(e, n, later) = later BY <2>2, <3>1 DEF StartBody, StartStops, Arrive
    <3> QED BY <2>2, <3>2
  <2> QED BY <2>1, <2>2
<1>2. N \in stop
  <2>1. NextAt(e.items, e.i + N) = 0 BY DEF NextAt
  <2>2. ~ValidAt(e.items, 0, BITMAP) BY DEF ValidAt
  <2> QED BY <2>1, <2>2 DEF StartStops
<1>3. \A m \in 0..N : (m \in stop <=> StartStops(e, m)) /\ val[m] = StartBody(e, m, None) OBVIOUS
<1> HIDE DEF stop, val
<1>4. ASSUME NEW f PROVE IsStart(f, e, N) <=> IsWalk(f, N, stop, val)
  <2>1. \A n \in 0..N : StartBody(e, n, f[n + 1]) = IF n \in stop THEN val[n] ELSE f[n + 1]
    BY <1>1
  <2>2. [n \in 0..N |-> StartBody(e, n, f[n + 1])]
          = [n \in 0..N |-> IF n \in stop THEN val[n] ELSE f[n + 1]] BY <2>1
  <2> QED BY <2>2 DEF IsStart, IsWalk
<1>5. \E f : IsStart(f, e, N) BY <1>2, <1>4, WalkExists
<1>6. PICK f : IsStart(f, e, N) /\ FreeStart(e) = f[0]
  <2>1. FreeStart(e) = (CHOOSE f : IsStart(f, e, Len(e.items)))[0]
    BY Zenon DEF FreeStart, StartBody, FoundAt, IsStart
  <2> QED BY <1>5, <2>1, Zenon
<1>7. IsWalk(f, N, stop, val) BY <1>4, <1>6
<1>8. 0 \in 0..N OBVIOUS
<1>9. PICK m \in 0..N : /\ m \in stop /\ f[0] = val[m]
                        /\ \A k \in 0..(m - 1) : k \notin stop
  BY <1>2, <1>7, <1>8, WalkStops
<1>10. \A k \in 0..(m - 1) : k \in 0..N OBVIOUS
<1> QED BY <1>3, <1>6, <1>9, <1>10

(* What the loops know of an item: its key, and the blocks of its bits.     *)
LEMMA ItemRow ==
  ASSUME NEW items, NEW own, NEW size \in Sizes, ItemsOK(items, own, size),
         NEW i, OfBitmap(items, i)
  PROVE  /\ i \in 1..Len(items) /\ ItemKey(items, i) \in Nat
         /\ ItemKey(items, i) < size /\ ItemKey(items, i) + BPK <= BlockCount(size)
         /\ \A c \in Bits : c \in Nat /\ c < BPK
                              /\ (Clear(items, ItemKey(items, i) + c) <=> c \notin items[i].value)
         /\ \A b \in Nat : ItemKey(items, i) <= b /\ b < ItemKey(items, i) + BPK =>
              b - ItemKey(items, i) \in Bits /\ b = ItemKey(items, i) + (b - ItemKey(items, i))
<1> DEFINE k == ItemKey(items, i)
<1>1. i \in 1..Len(items) BY DEF OfBitmap
<1>2. k \in Nat /\ k % BPK = 0 /\ k < BlockCount(size) BY <1>1 DEF ItemsOK, ItemKey
<1>3. BPK \in Nat \ {0} BY FreelistAssumption
<1>4. k < size /\ k + BPK <= BlockCount(size)
  <2> HIDE DEF k
  <2> QED BY <1>2, KeyBelowSize
<1>5. ASSUME NEW c \in Bits
      PROVE  c \in Nat /\ c < BPK /\ (Clear(items, k + c) <=> c \notin items[i].value)
  <2>1. c \in Nat /\ c < BPK BY <1>3 DEF Bits
  <2>2. k + c \in Nat /\ k <= k + c /\ k + c < k + BPK /\ (k + c) - k = c BY <1>2, <1>3, <2>1
  <2>3. Clear(items, k + c) <=> (k + c) - k \notin items[i].value
    BY <2>2, ClearIn
  <2> QED BY <2>1, <2>2, <2>3
<1>6. ASSUME NEW b \in Nat, k <= b, b < k + BPK
      PROVE  b - k \in Bits /\ b = k + (b - k)
  <2> HIDE DEF k
  <2> QED BY <1>2, <1>3, <1>6 DEF Bits
<1> QED BY <1>1, <1>2, <1>4, <1>5, <1>6

\* what the first loop promises: the first free block from p on, and where the
\* iterator stands then
StartOK(items, size, p, s) ==
  /\ s.start \in Nat /\ s.start >= p /\ Clear(items, s.start)
  /\ \A b \in Nat : b >= p /\ b < s.start => ~Clear(items, b)
  /\ \/ /\ s.i = 0 /\ s.off = s.start /\ s.pos = 0 /\ s.start <= BlockCount(size)
        /\ \A b \in Nat : b >= s.start => Clear(items, b)
     \/ /\ OfBitmap(items, s.i) /\ s.off = ItemKey(items, s.i) /\ s.pos \in Bits
        /\ s.start <= s.off + s.pos
        /\ \A b \in Nat : b >= s.start /\ b < s.off + s.pos => Clear(items, b)

(* The first loop keeps it.                                                 *)
LEMMA FreeStartIs ==
  ASSUME NEW e, NEW own, NEW size \in Sizes, ItemsOK(e.items, own, size),
         OfBitmap(e.items, e.i), e.off = ItemKey(e.items, e.i), e.pos \in Bits
  PROVE  StartOK(e.items, size, e.off + e.pos, FreeStart(e))
<1> DEFINE items == e.items
           N == Len(items)
           P == e.off + e.pos
           key(n) == ItemKey(items, e.i + n)
           Passed(n) == /\ OfBitmap(items, e.i + n)
                        /\ \A b \in Nat : b >= P /\ b < key(n) => ~Clear(items, b)
                        /\ n > 0 => \A c \in Bits : c \in items[e.i + n].value
<1>1. N \in Nat /\ DOMAIN items = 1..N /\ e.i \in 1..N BY DEF ItemsOK, OfBitmap
<1>2. PICK m \in 0..N : /\ StartStops(e, m) /\ FreeStart(e) = StartBody(e, m, None)
                        /\ \A k \in 0..(m - 1) : ~StartStops(e, k)
  BY <1>1, FreeStartStops
<1>3. e.off \in Nat /\ e.pos \in Nat /\ e.pos < BPK /\ P \in Nat /\ BPK \in Nat \ {0}
  <2>1. e.off \in Nat /\ e.pos \in Nat /\ e.pos < BPK BY ItemRow
  <2> QED BY <2>1, FreelistAssumption
<1>4. e.i + 0 = e.i BY <1>1
<1> HIDE DEF N
<1>5. ASSUME NEW n \in 0..N, Passed(n), FoundAt(e, n) = -1
      PROVE  /\ key(n) \in Nat
             /\ \A b \in Nat : b >= P /\ b < key(n) + BPK => ~Clear(items, b)
             /\ P <= key(n) + BPK
  <2>1. /\ key(n) \in Nat
        /\ \A c \in Bits : Clear(items, key(n) + c) <=> c \notin items[e.i + n].value
        /\ \A b \in Nat : key(n) <= b /\ b < key(n) + BPK =>
                            b - key(n) \in Bits /\ b = key(n) + (b - key(n))
    BY <1>5, ItemRow
  <2>2. ASSUME NEW b \in Nat, b >= P, b < key(n) + BPK, ~(b < key(n))
        PROVE  b - key(n) \in items[e.i + n].value
    <3>1. b - key(n) \in Bits BY <2>1, <2>2
    <3>2. CASE n > 0 BY <1>5, <3>1, <3>2
    <3>3. CASE n = 0
      <4>1. NextClear(items[e.i].value, e.pos) = -1 BY <1>4, <1>5, <3>3 DEF FoundAt
      <4>2. \A c \in Bits : c >= e.pos => c \in items[e.i].value BY <1>3, <4>1, NextClearIs
      <4>3. key(n) = e.off BY <1>4, <3>3
      <4>4. b - key(n) >= e.pos BY <1>3, <2>2, <4>3
      <4> QED BY <1>4, <3>1, <3>3, <4>2, <4>4
    <3> QED BY <1>1, <3>2, <3>3
  <2>3. ASSUME NEW b \in Nat, b >= P, b < key(n) + BPK PROVE ~Clear(items, b)
    <3>1. CASE b < key(n) BY <1>5, <2>3, <3>1
    <3>2. CASE ~(b < key(n))
      <4>1. b - key(n) \in items[e.i + n].value BY <2>2, <2>3, <3>2
      <4>2. b - key(n) \in Bits /\ b = key(n) + (b - key(n)) BY <2>1, <2>3, <3>2
      <4> QED BY <2>1, <4>1, <4>2
    <3> QED BY <3>1, <3>2
  <2>4. P <= key(n) + BPK
    <3>1. e.off <= key(n)
      <4>1. CASE n = 0 BY <1>3, <1>4, <4>1
      <4>2. CASE n # 0
        <5>1. e.i < e.i + n BY <1>1, <4>2
        <5>2. ItemKey(items, e.i) + BPK <= ItemKey(items, e.i + n) BY <1>5, <5>1, ItemsApart
        <5> QED BY <1>3, <2>1, <5>2
      <4> QED BY <4>1, <4>2
    <3> QED BY <1>3, <2>1, <3>1
  <2> QED BY <2>1, <2>3, <2>4
<1>6. Passed(0)
  <2>1. \A b \in Nat : ~(b >= P /\ b < e.off) BY <1>3
  <2> QED BY <1>4, <2>1
<1>7. ASSUME NEW n \in 0..(m - 1), Passed(n) PROVE Passed(n + 1)
  <2> DEFINE j == e.i + n + 1
  <2>0. n \in 0..N BY <1>1, <1>2
  <2>1. /\ FoundAt(e, n) = -1 /\ ValidAt(items, NextAt(items, e.i + n), BITMAP)
        /\ ~(ItemKey(items, NextAt(items, e.i + n)) > key(n) + BPK)
        /\ NextClear(items[NextAt(items, e.i + n)].value, 0) = -1
    BY <1>2, <1>7 DEF StartStops
  <2>2. NextAt(items, e.i + n) = j /\ OfBitmap(items, j) /\ key(n) + BPK <= ItemKey(items, j)
    BY <1>7, <2>1, NextItem
  <2>3. ItemKey(items, j) \in Nat /\ key(n) \in Nat BY <1>7, <2>2, ItemRow
  <2>4. ItemKey(items, j) = key(n) + BPK
    <3>1. ~(ItemKey(items, j) > key(n) + BPK) BY <2>1, <2>2
    <3> QED BY <1>3, <2>2, <2>3, <3>1
  <2>5. \A b \in Nat : b >= P /\ b < ItemKey(items, j) => ~Clear(items, b)
    BY <1>5, <1>7, <2>0, <2>1, <2>4
  <2>6. \A c \in Bits : c \in items[j].value
    <3>1. NextClear(items[j].value, 0) = -1 BY <2>1, <2>2
    <3>2. \A c \in Bits : c >= 0 BY <1>3 DEF Bits
    <3> QED BY <3>1, <3>2, NextClearIs
  <2>7. e.i + (n + 1) = j BY <1>1, <2>0
  <2> QED BY <2>2, <2>5, <2>6, <2>7
<1> HIDE DEF Passed
<1>8. Passed(m)
  <2> DEFINE S == {n \in 0..m : Passed(n)}
  <2>1. m \in Nat /\ 0 \in S BY <1>1, <1>6
  <2>2. \A n \in 0..(m - 1) : n \in S => n + 1 \in S BY <1>7
  <2> HIDE DEF S
  <2>3. \A n \in 0..m : n \in S BY <2>1, <2>2, LoopInduction
  <2> QED BY <2>1, <2>3 DEF S
<1> DEFINE s == FreeStart(e)
           at == e.i + m
           j == NextAt(items, at)
<1>9. OfBitmap(items, at) BY <1>8 DEF Passed
<1>10. CASE FoundAt(e, m) # -1
  <2> DEFINE p == FoundAt(e, m)
  <2>1. m = 0 BY <1>10 DEF FoundAt
  <2>2. p = NextClear(items[e.i].value, e.pos) BY <1>4, <2>1 DEF FoundAt
  <2>3. /\ p \in Bits /\ p >= e.pos /\ p \notin items[e.i].value
        /\ \A b \in Bits : b >= e.pos /\ b < p => b \in items[e.i].value
    BY <1>3, <1>10, <2>2, NextClearIs
  <2>4. s = [i |-> e.i, off |-> e.off, pos |-> p, start |-> e.off + p]
    BY <1>2, <1>4, <1>10, <2>1 DEF StartBody
  <2>5. s.i = e.i /\ s.off = e.off /\ s.pos = p /\ s.start = e.off + p BY <2>4
  <2> HIDE DEF s, p
  <2>6. /\ p \in Nat /\ p < BPK
        /\ \A c \in Bits : Clear(items, e.off + c) <=> c \notin items[e.i].value
        /\ \A b \in Nat : e.off <= b /\ b < e.off + BPK =>
                            b - e.off \in Bits /\ b = e.off + (b - e.off)
    BY <2>3, ItemRow
  <2>7. Clear(items, s.start) BY <2>3, <2>5, <2>6
  <2>8. ASSUME NEW b \in Nat, b >= P, b < s.start PROVE ~Clear(items, b)
    <3>1. e.off <= b /\ b < e.off + BPK BY <1>3, <2>5, <2>6, <2>8
    <3>2. b - e.off \in Bits /\ b = e.off + (b - e.off) BY <2>6, <3>1
    <3>3. b - e.off >= e.pos /\ b - e.off < p BY <1>3, <2>5, <2>6, <2>8
    <3> QED BY <2>3, <2>6, <3>2, <3>3
  <2>9. s.start \in Nat /\ s.start >= P /\ s.start <= s.off + s.pos BY <1>3, <2>3, <2>5, <2>6
  <2>10. \A b \in Nat : ~(b >= s.start /\ b < s.off + s.pos) BY <1>3, <2>5, <2>6
  <2>11. OfBitmap(items, s.i) /\ s.off = ItemKey(items, s.i) /\ s.pos \in Bits BY <2>3, <2>5
  <2> QED BY <2>7, <2>8, <2>9, <2>10, <2>11 DEF StartOK, s
<1>11. ASSUME FoundAt(e, m) = -1
       PROVE  /\ key(m) \in Nat /\ P <= key(m) + BPK
              /\ \A b \in Nat : b >= P /\ b < key(m) + BPK => ~Clear(items, b)
              /\ s = Arrive(items, key(m), j, IF at < Len(items) THEN None ELSE None)
  BY <1>2, <1>5, <1>8, <1>11 DEF StartBody
<1>12. CASE FoundAt(e, m) = -1 /\ ~ValidAt(items, j, BITMAP)
  <2> DEFINE q == key(m) + BPK
  <2>1. s = [i |-> 0, off |-> q, pos |-> 0, start |-> q] BY <1>11, <1>12 DEF Arrive
  <2>2. s.i = 0 /\ s.off = q /\ s.pos = 0 /\ s.start = q BY <2>1
  <2>3. \A b \in Nat : b >= q => Clear(items, b) BY <1>9, <1>12, NoMoreItems
  <2>4. q \in Nat /\ q <= BlockCount(size) BY <1>3, <1>9, ItemRow
  <2>5. P <= q /\ \A b \in Nat : b >= P /\ b < q => ~Clear(items, b) BY <1>11, <1>12
  <2> HIDE DEF s, q, P
  <2>6. q >= q /\ q >= P BY <1>3, <2>4, <2>5 DEF P
  <2> QED BY <2>2, <2>3, <2>4, <2>5, <2>6 DEF StartOK, s, P
<1>13. ASSUME FoundAt(e, m) = -1, ValidAt(items, j, BITMAP)
       PROVE  /\ OfBitmap(items, j) /\ ItemKey(items, j) \in Nat
              /\ key(m) + BPK <= ItemKey(items, j)
              /\ \A b \in Nat : b >= key(m) + BPK /\ b < ItemKey(items, j) => Clear(items, b)
  <2>1. /\ j = at + 1 /\ OfBitmap(items, at + 1)
        /\ key(m) + BPK <= ItemKey(items, at + 1)
        /\ \A b \in Nat : b >= key(m) + BPK /\ b < ItemKey(items, at + 1) => Clear(items, b)
    BY <1>9, <1>13, NextItem
  <2>2. ItemKey(items, at + 1) \in Nat BY <2>1, ItemRow
  <2> QED BY <2>1, <2>2
<1>14. CASE /\ FoundAt(e, m) = -1 /\ ValidAt(items, j, BITMAP)
            /\ ItemKey(items, j) > key(m) + BPK
  <2> DEFINE q == key(m) + BPK
             k == ItemKey(items, j)
  <2>1. s = [i |-> j, off |-> k, pos |-> 0, start |-> q] BY <1>11, <1>14 DEF Arrive
  <2>2. s.i = j /\ s.off = k /\ s.pos = 0 /\ s.start = q BY <2>1
  <2>3. /\ OfBitmap(items, j) /\ k \in Nat /\ q \in Nat /\ q < k
        /\ \A b \in Nat : b >= q /\ b < k => Clear(items, b)
    BY <1>3, <1>11, <1>13, <1>14
  <2>4. P <= q /\ \A b \in Nat : b >= P /\ b < q => ~Clear(items, b) BY <1>11, <1>14
  <2>5. 0 \in Bits BY <1>3 DEF Bits
  <2>6. s.off = ItemKey(items, s.i) BY <2>2
  <2> HIDE DEF s, q, P, k, j
  <2>7. q >= q /\ q >= P /\ q <= k + 0 /\ k + 0 = k BY <1>3, <2>3, <2>4 DEF P
  <2>8. Clear(items, q) BY <2>3, <2>7
  <2> QED BY <2>2, <2>3, <2>4, <2>5, <2>6, <2>7, <2>8 DEF StartOK, s, P
<1>15. CASE /\ FoundAt(e, m) = -1 /\ ValidAt(items, j, BITMAP)
            /\ ~(ItemKey(items, j) > key(m) + BPK)
  <2> DEFINE q == key(m) + BPK
             k == ItemKey(items, j)
             p == NextClear(items[j].value, 0)
  <2>0. p # -1 BY <1>2, <1>15 DEF StartStops
  <2>1. s = [i |-> j, off |-> k, pos |-> p, start |-> k + p]
    BY <1>11, <1>15, <2>0 DEF Arrive
  <2>2. s.i = j /\ s.off = k /\ s.pos = p /\ s.start = k + p BY <2>1
  <2>3. OfBitmap(items, j) /\ k \in Nat /\ q \in Nat /\ q = k
    BY <1>3, <1>11, <1>13, <1>15
  <2>4. P <= q /\ \A b \in Nat : b >= P /\ b < q => ~Clear(items, b) BY <1>11, <1>15
  <2>5. /\ p \in Bits /\ p \notin items[j].value
        /\ \A b \in Bits : b >= 0 /\ b < p => b \in items[j].value
    BY <2>0, NextClearIs
  <2>6. /\ p \in Nat /\ p < BPK
        /\ \A c \in Bits : c \in Nat /\ (Clear(items, k + c) <=> c \notin items[j].value)
        /\ \A b \in Nat : k <= b /\ b < k + BPK => b - k \in Bits /\ b = k + (b - k)
    BY <2>3, <2>5, ItemRow
  <2>7. s.off = ItemKey(items, s.i) BY <2>2
  <2> HIDE DEF s, q, P, k, p, j
  <2>8. Clear(items, k + p) BY <2>5, <2>6
  <2>9. ASSUME NEW b \in Nat, b >= P, b < k + p PROVE ~Clear(items, b)
    <3>1. CASE b < q BY <2>4, <2>9, <3>1
    <3>2. CASE ~(b < q)
      <4>1. k <= b /\ b < k + BPK BY <1>3, <2>3, <2>6, <2>9, <3>2
      <4>2. b - k \in Bits /\ b = k + (b - k) BY <2>6, <4>1
      <4>3. b - k >= 0 /\ b - k < p BY <2>3, <2>6, <2>9, <4>1
      <4>4. b - k \in items[j].value BY <2>5, <4>2, <4>3
      <4> QED BY <2>6, <4>2, <4>4
    <3> QED BY <3>1, <3>2
  <2>10. /\ k + p \in Nat /\ k + p >= P /\ k + p <= k + p
         /\ \A b \in Nat : ~(b >= k + p /\ b < k + p)
    <3>1. P \in Nat BY <1>3 DEF P
    <3> QED BY <2>3, <2>4, <2>6, <3>1
  <2> QED BY <2>2, <2>3, <2>5, <2>7, <2>8, <2>9, <2>10 DEF StartOK, s, P
<1> QED BY <1>10, <1>12, <1>14, <1>15

\* one iteration of the second loop, at item j
SetAt(items, s, j) == NextSet(items[j].value, IF j = s.i THEN s.pos ELSE 0)
EndBody(items, s, j, later) ==
  IF SetAt(items, s, j) # -1
    THEN [i |-> j, off |-> ItemKey(items, j), pos |-> SetAt(items, s, j)]
    ELSE IF ValidAt(items, NextAt(items, j), BITMAP) THEN later
         ELSE [i |-> 0, off |-> ItemKey(items, j), pos |-> 0]

\* the loop, from each item on
IsEnd(g, items, s, n) == g = [j \in 0..n |-> EndBody(items, s, j, g[j + 1])]

\* it leaves the loop in that iteration
EndStops(items, s, j) == \/ SetAt(items, s, j) # -1
                         \/ ~ValidAt(items, NextAt(items, j), BITMAP)

(* The second loop of enumerate_next() returns what it finds at the first   *)
(* item where it stops.                                                     *)
LEMMA FreeEndStops ==
  ASSUME NEW items, NEW s, NEW N \in Nat, Len(items) = N, DOMAIN items = 1..N, s.i \in 1..N
  PROVE  \E m \in (s.i)..N : /\ EndStops(items, s, m)
                             /\ FreeEnd(items, s) = EndBody(items, s, m, None)
                             /\ \A k \in (s.i)..(m - 1) : ~EndStops(items, s, k)
<1> DEFINE stop == {n \in 0..N : EndStops(items, s, n)}
           val == [n \in 0..N |-> EndBody(items, s, n, None)]
<1>1. ASSUME NEW n \in 0..N, NEW later
      PROVE  EndBody(items, s, n, later) = IF n \in stop THEN val[n] ELSE later
  BY DEF EndBody, EndStops
<1>2. N \in stop
  <2>1. NextAt(items, N) = 0 BY DEF NextAt
  <2>2. ~ValidAt(items, 0, BITMAP) BY DEF ValidAt
  <2> QED BY <2>1, <2>2 DEF EndStops
<1>3. \A m \in 0..N : (m \in stop <=> EndStops(items, s, m)) /\ val[m] = EndBody(items, s, m, None)
  OBVIOUS
<1> HIDE DEF stop, val
<1>4. ASSUME NEW f PROVE IsEnd(f, items, s, N) <=> IsWalk(f, N, stop, val)
  <2>1. \A n \in 0..N : EndBody(items, s, n, f[n + 1]) = IF n \in stop THEN val[n] ELSE f[n + 1]
    BY <1>1
  <2>2. [n \in 0..N |-> EndBody(items, s, n, f[n + 1])]
          = [n \in 0..N |-> IF n \in stop THEN val[n] ELSE f[n + 1]] BY <2>1
  <2> QED BY <2>2 DEF IsEnd, IsWalk
<1>5. \E f : IsEnd(f, items, s, N) BY <1>2, <1>4, WalkExists
<1>6. PICK f : IsEnd(f, items, s, N) /\ FreeEnd(items, s) = f[s.i]
  <2>1. s.i # 0 OBVIOUS
  <2>2. FreeEnd(items, s) = (CHOOSE f : IsEnd(f, items, s, Len(items)))[s.i]
    BY <2>1, Zenon DEF FreeEnd, EndBody, SetAt, IsEnd
  <2> QED BY <1>5, <2>2, Zenon
<1>7. IsWalk(f, N, stop, val) BY <1>4, <1>6
<1>8. s.i \in 0..N OBVIOUS
<1>9. PICK m \in (s.i)..N : /\ m \in stop /\ f[s.i] = val[m]
                            /\ \A k \in (s.i)..(m - 1) : k \notin stop
  <2> DEFINE i == s.i
  <2>1. i \in 0..N BY <1>8
  <2> HIDE DEF i
  <2>2. \E m \in i..N : m \in stop /\ f[i] = val[m] /\ \A k \in i..(m - 1) : k \notin stop
    BY <1>2, <1>7, <2>1, WalkStops
  <2> QED BY <2>2 DEF i
<1>10. m \in 0..N /\ \A k \in (s.i)..(m - 1) : k \in 0..N BY <1>8
<1> QED BY <1>3, <1>6, <1>9, <1>10

\* what the second loop promises: the first block in use past the free extent,
\* or that there is none
EndOK(items, s, t) ==
  \/ /\ OfBitmap(items, t.i) /\ t.off = ItemKey(items, t.i) /\ t.pos \in Bits
     /\ ~Clear(items, t.off + t.pos) /\ s.start < t.off + t.pos
     /\ \A b \in Nat : b >= s.start /\ b < t.off + t.pos => Clear(items, b)
  \/ /\ t.i = 0 /\ t.pos = 0 /\ s.start < t.off + BPK
     /\ \A b \in Nat : b >= s.start => Clear(items, b)
     /\ \/ t.off = s.start
        \/ \E j \in 1..Len(items) : OfBitmap(items, j) /\ t.off = ItemKey(items, j)

(* The second loop keeps it, from where the first one left the iterator.    *)
LEMMA FreeEndIs ==
  ASSUME NEW items, NEW own, NEW size \in Sizes, ItemsOK(items, own, size),
         NEW p, NEW s, StartOK(items, size, p, s)
  PROVE  EndOK(items, s, FreeEnd(items, s))
<1> DEFINE t == FreeEnd(items, s)
<1>0. s.start \in Nat /\ BPK \in Nat \ {0} BY FreelistAssumption DEF StartOK
<1>1. CASE /\ s.i = 0 /\ s.off = s.start /\ s.pos = 0
           /\ \A b \in Nat : b >= s.start => Clear(items, b)
  <2>1. t = [i |-> 0, off |-> s.off, pos |-> s.pos] BY <1>1 DEF FreeEnd
  <2>2. t.i = 0 /\ t.off = s.start /\ t.pos = 0 BY <1>1, <2>1
  <2>3. s.start < s.start + BPK BY <1>0
  <2> HIDE DEF t
  <2> QED BY <1>1, <2>2, <2>3 DEF EndOK, t
<1>2. CASE /\ OfBitmap(items, s.i) /\ s.off = ItemKey(items, s.i) /\ s.pos \in Bits
           /\ s.start <= s.off + s.pos
           /\ \A b \in Nat : b >= s.start /\ b < s.off + s.pos => Clear(items, b)
  <2> DEFINE N == Len(items)
             key(j) == ItemKey(items, j)
             from(j) == IF j = s.i THEN s.pos ELSE 0
             Passed(j) == /\ OfBitmap(items, j)
                          /\ s.start <= key(j) + from(j)
                          /\ \A b \in Nat : b >= s.start /\ b < key(j) + from(j) => Clear(items, b)
  <2>1. N \in Nat /\ DOMAIN items = 1..N /\ s.i \in 1..N BY <1>2 DEF ItemsOK, OfBitmap
  <2>2. PICK m \in (s.i)..N : /\ EndStops(items, s, m) /\ t = EndBody(items, s, m, None)
                              /\ \A k \in (s.i)..(m - 1) : ~EndStops(items, s, k)
    BY <2>1, FreeEndStops
  <2> HIDE DEF N, t
  <2>3. ASSUME NEW j, Passed(j)
        PROVE  /\ key(j) \in Nat /\ from(j) \in Nat /\ from(j) < BPK
               /\ \A c \in Bits : c \in Nat /\ c < BPK
                                    /\ (Clear(items, key(j) + c) <=> c \notin items[j].value)
               /\ \A b \in Nat : key(j) <= b /\ b < key(j) + BPK =>
                                   b - key(j) \in Bits /\ b = key(j) + (b - key(j))
    <3>1. s.pos \in Nat /\ s.pos < BPK BY <1>0, <1>2 DEF Bits
    <3> QED BY <1>0, <2>3, <3>1, ItemRow
  <2>4. ASSUME NEW j, Passed(j), NEW q \in Nat, q <= BPK,
               \A c \in Bits : c >= from(j) /\ c < q => c \notin items[j].value
        PROVE  \A b \in Nat : b >= s.start /\ b < key(j) + q => Clear(items, b)
    <3> SUFFICES ASSUME NEW b \in Nat, b >= s.start, b < key(j) + q PROVE Clear(items, b)
      OBVIOUS
    <3>1. CASE b < key(j) + from(j) BY <2>4, <3>1
    <3>2. CASE ~(b < key(j) + from(j))
      <4>1. key(j) \in Nat /\ from(j) \in Nat BY <2>3, <2>4
      <4>2. key(j) <= b /\ b < key(j) + BPK
        <5> HIDE DEF key, from
        <5> QED BY <1>0, <2>4, <3>2, <4>1
      <4>3. b - key(j) \in Bits /\ b = key(j) + (b - key(j)) BY <2>3, <2>4, <4>2
      <4>4. b - key(j) >= from(j) /\ b - key(j) < q
        <5> HIDE DEF key, from
        <5> QED BY <2>4, <3>2, <4>1, <4>2
      <4>5. b - key(j) \notin items[j].value BY <2>4, <4>3, <4>4
      <4> QED BY <2>3, <2>4, <4>3, <4>5
    <3> QED BY <3>1, <3>2
  <2>5. Passed(s.i) BY <1>2
  <2>6. ASSUME NEW j \in (s.i)..(m - 1), Passed(j) PROVE Passed(j + 1)
    <3>1. SetAt(items, s, j) = -1 /\ ValidAt(items, NextAt(items, j), BITMAP)
      BY <2>2, <2>6 DEF EndStops
    <3>2. /\ OfBitmap(items, j + 1) /\ key(j) + BPK <= key(j + 1)
          /\ \A b \in Nat : b >= key(j) + BPK /\ b < key(j + 1) => Clear(items, b)
      BY <2>6, <3>1, NextItem
    <3>3. key(j + 1) \in Nat /\ key(j) \in Nat BY <2>6, <3>2, ItemRow
    <3>4. NextSet(items[j].value, from(j)) = -1 BY <3>1 DEF SetAt
    <3>5. from(j) \in Nat /\ from(j) < BPK BY <2>3, <2>6
    <3>6. \A c \in Bits : c >= from(j) => c \notin items[j].value
      <4> HIDE DEF from
      <4> QED BY <3>4, <3>5, NextSetIs
    <3>7. \A b \in Nat : b >= s.start /\ b < key(j) + BPK => Clear(items, b)
      <4>1. BPK \in Nat /\ BPK <= BPK BY <1>0
      <4> HIDE DEF Passed, from, key
      <4> QED BY <2>4, <2>6, <3>6, <4>1
    <3>8. from(j + 1) = 0 BY <2>1, <2>2
    <3>9. s.start <= key(j + 1) + 0 /\ key(j + 1) + 0 = key(j + 1)
      <4>1. s.start <= key(j) + from(j) BY <2>6
      <4> HIDE DEF key, from
      <4> QED BY <1>0, <3>2, <3>3, <3>5, <4>1
    <3>10. \A b \in Nat : b >= s.start /\ b < key(j + 1) => Clear(items, b)
      <4> HIDE DEF key
      <4> QED BY <1>0, <3>2, <3>3, <3>7
    <3> QED BY <3>2, <3>8, <3>9, <3>10
  <2> HIDE DEF Passed
  <2>7. Passed(m)
    <3> DEFINE S == {n \in 0..(m - s.i) : Passed(s.i + n)}
    <3>1. m - s.i \in Nat /\ s.i + 0 = s.i /\ s.i + (m - s.i) = m BY <2>1, <2>2
    <3>2. 0 \in S BY <2>5, <3>1
    <3>3. ASSUME NEW n \in 0..((m - s.i) - 1), n \in S PROVE n + 1 \in S
      <4>1. s.i + n \in (s.i)..(m - 1) /\ (s.i + n) + 1 = s.i + (n + 1) /\ n + 1 \in 0..(m - s.i)
        BY <2>1, <2>2
      <4> QED BY <2>6, <3>3, <4>1
    <3> DEFINE w == m - s.i
    <3> HIDE DEF S, w
    <3>4. \A n \in 0..w : n \in S
      <4>1. w \in Nat /\ \A n \in 0..(w - 1) : n \in S => n + 1 \in S BY <3>1, <3>3 DEF w
      <4> QED BY <3>2, <4>1, LoopInduction
    <3>5. w \in S BY <3>1, <3>4 DEF w
    <3> QED BY <3>1, <3>5 DEF S, w
  <2> DEFINE f == from(m)
             c == SetAt(items, s, m)
  <2>8. OfBitmap(items, m) /\ s.start <= key(m) + f BY <2>7 DEF Passed
  <2>9. key(m) \in Nat /\ f \in Nat /\ f < BPK BY <2>3, <2>7
  <2>10. c = NextSet(items[m].value, f) BY DEF SetAt
  <2>11. CASE c # -1
    <3>1. t = [i |-> m, off |-> key(m), pos |-> c] BY <2>2, <2>11 DEF EndBody
    <3>2. t.i = m /\ t.off = key(m) /\ t.pos = c BY <3>1
    <3>3. /\ c \in Bits /\ c >= f /\ c \in items[m].value
          /\ \A x \in Bits : x >= f /\ x < c => x \notin items[m].value
      <4> HIDE DEF f, c
      <4> QED BY <2>9, <2>10, <2>11, NextSetIs
    <3>4. c \in Nat /\ c < BPK /\ ~Clear(items, key(m) + c) BY <2>3, <2>7, <3>3
    <3>5. \A b \in Nat : b >= s.start /\ b < key(m) + c => Clear(items, b)
      <4>1. c \in Nat /\ c <= BPK
        <5> HIDE DEF c
        <5> QED BY <1>0, <3>4
      <4>2. \A x \in Bits : x >= from(m) /\ x < c => x \notin items[m].value BY <3>3
      <4> HIDE DEF c, from, key
      <4> QED BY <2>4, <2>7, <4>1, <4>2
    <3>6. s.start < key(m) + c
      <4>1. s.start # key(m) + c BY <3>4 DEF StartOK
      <4> HIDE DEF c, key, f
      <4> QED BY <1>0, <2>8, <2>9, <3>3, <3>4, <4>1
    <3> HIDE DEF c
    <3> QED BY <2>8, <3>2, <3>3, <3>4, <3>5, <3>6 DEF EndOK, t
  <2>12. CASE c = -1
    <3>0. ~ValidAt(items, NextAt(items, m), BITMAP) BY <2>2, <2>12 DEF EndStops
    <3>1. t = [i |-> 0, off |-> key(m), pos |-> 0] BY <2>2, <2>12, <3>0 DEF EndBody
    <3>2. t.i = 0 /\ t.off = key(m) /\ t.pos = 0 BY <3>1
    <3>3. \A x \in Bits : x >= f => x \notin items[m].value
      <4> HIDE DEF f, c
      <4> QED BY <2>9, <2>10, <2>12, NextSetIs
    <3>4. \A b \in Nat : b >= s.start /\ b < key(m) + BPK => Clear(items, b)
      <4>1. BPK \in Nat /\ BPK <= BPK BY <1>0
      <4>2. \A x \in Bits : x >= from(m) /\ x < BPK => x \notin items[m].value BY <3>3
      <4> HIDE DEF from, key
      <4> QED BY <2>4, <2>7, <4>1, <4>2
    <3>5. \A b \in Nat : b >= key(m) + BPK => Clear(items, b) BY <2>8, <3>0, NoMoreItems
    <3>6. \A b \in Nat : b >= s.start => Clear(items, b)
      <4> HIDE DEF key
      <4> QED BY <1>0, <2>9, <3>4, <3>5
    <3>7. m \in 1..Len(items) BY <2>8 DEF OfBitmap
    <3>8. s.start < key(m) + BPK
      <4> HIDE DEF key, f
      <4> QED BY <1>0, <2>8, <2>9
    <3> QED BY <2>8, <3>2, <3>6, <3>7, <3>8 DEF EndOK, t
  <2> QED BY <2>11, <2>12
<1> QED BY <1>1, <1>2 DEF StartOK

-----------------------------------------------------------------------------
(* An enumeration                                                           *)

(* enumerate_next() finds the key of block 0 when it starts, and its bit is *)
(* set: the assertions on the first key hold.                               *)
LEMMA FreshIs ==
  ASSUME NEW size \in Sizes, Formatted(db, owned, size), VersionKeys(db)
  PROVE  LET e == FreshEnum
         IN  /\ DOMAIN e = {"items", "i", "off", "pos"}
             /\ ItemsOK(e.items, owned, size)
             /\ OfBitmap(e.items, e.i) /\ e.off = ItemKey(e.items, e.i)
             /\ e.off = 0 /\ e.pos = 0 /\ ~Clear(e.items, 0)
<1> DEFINE items == ItemsOf(db)
           i == LowerBound(items, BITMAP, 0)
<1>1. FreshEnum = [items |-> items, i |-> i, off |-> ItemKey(items, i), pos |-> 0] BY DEF FreshEnum
<1>2. ItemsOK(items, owned, size) BY SnapshotItems
<1> HIDE DEF items
<1>3. ~Clear(items, 0)
  <2>1. 0 \in 0..(BlockCount(size) - 1) BY SizeFacts
  <2> QED BY <1>2, <2>1 DEF ItemsOK
<1>4. PICK j \in 1..Len(items) : OfBitmap(items, j) /\ ItemKey(items, j) <= 0
  BY <1>3 DEF Clear
<1>5. BITMAP \in Nat BY FreelistAssumption
<1>6. items[j].key[1] = BITMAP /\ items[j].key[2] = 0
  BY <1>2, <1>4 DEF ItemsOK, ItemKey, OfBitmap
<1> DEFINE at == {k \in DOMAIN items : ~FullKeyLess(items[k].key, <<BITMAP, 0>>)}
<1>7. DOMAIN items = 1..Len(items) /\ Len(items) \in Nat BY <1>2 DEF ItemsOK
<1>8. j \in at BY <1>5, <1>6, <1>7 DEF FullKeyLess
<1>9. Min(at) \in at /\ \A k \in at : Min(at) <= k
  <2>1. at \in SUBSET Nat /\ at # {} BY <1>7, <1>8
  <2> HIDE DEF at
  <2> QED BY <2>1, LeastOf
<1>10. i = Min(at) BY <1>8 DEF LowerBound
<1>11. i = j
  <2> SUFFICES ASSUME i # j PROVE FALSE OBVIOUS
  <2>1. i \in 1..Len(items) /\ i <= j /\ ~FullKeyLess(items[i].key, <<BITMAP, 0>>)
    BY <1>7, <1>8, <1>9, <1>10
  <2> HIDE DEF i, at
  <2>2. i < j BY <1>7, <2>1
  <2>3. FullKeyLess(items[i].key, items[j].key) BY <1>2, <2>1, <2>2 DEF ItemsOK
  <2>4. FullKeyLess(items[i].key, <<BITMAP, 0>>) BY <1>6, <2>3 DEF FullKeyLess
  <2> QED BY <2>1, <2>4
<1>12. OfBitmap(items, i) /\ ItemKey(items, i) = 0 BY <1>4, <1>6, <1>11 DEF ItemKey
<1> HIDE DEF i
<1> QED BY <1>1, <1>2, <1>3, <1>12

(* One more extent is returned.                                             *)
LEMMA OneMoreExtent ==
  ASSUME NEW xs, Apart(xs), NEW a \in Nat, NEW b \in Nat, a < b,
         xs # <<>> => xs[Len(xs)][1] + xs[Len(xs)][2] < a
  PROVE  LET ys == Append(xs, <<a, b - a>>)
         IN  /\ Apart(ys) /\ Covered(ys) = Covered(xs) \cup (a..(b - 1)) /\ ys # <<>>
             /\ ys[Len(ys)][1] + ys[Len(ys)][2] = b
<1> DEFINE x == <<a, b - a>>
           ys == Append(xs, x)
           n == Len(xs)
           T == Nat \X (Nat \ {0})
<1>1. xs \in Seq(T) /\ n \in Nat /\ DOMAIN xs = 1..n BY DEF Apart
<1>2. x \in T /\ x[1] = a /\ x[2] = b - a /\ a + (b - a) = b OBVIOUS
<1>3. /\ ys \in Seq(T) /\ Len(ys) = n + 1 /\ DOMAIN ys = 1..(n + 1) /\ ys[n + 1] = x
      /\ \A i \in 1..n : ys[i] = xs[i]
  <2> HIDE DEF x, T
  <2> QED BY <1>1, <1>2
<1> HIDE DEF x, ys, T
<1>4. ys # <<>> BY <1>1, <1>3
<1>5. ASSUME NEW i \in 1..(Len(ys) - 1) PROVE ys[i][1] + ys[i][2] < ys[i + 1][1]
  <2>1. i \in 1..n /\ ys[i] = xs[i] BY <1>1, <1>3
  <2>2. CASE i = n
    <3>1. xs # <<>> BY <1>1, <2>1
    <3> QED BY <1>2, <1>3, <2>1, <2>2, <3>1 DEF n
  <2>3. CASE i # n
    <3>1. i \in 1..(n - 1) /\ i + 1 \in 1..n
      <4> HIDE DEF n
      <4> QED BY <1>1, <2>1, <2>3
    <3> QED BY <1>3, <2>1, <3>1 DEF Apart, n
  <2> QED BY <2>2, <2>3
<1>6. Range(ys) = Range(xs) \cup {x}
  <2> HIDE DEF n
  <2> QED BY <1>1, <1>3 DEF Range
<1>7. Span(x[1], x[2]) = a..(b - 1)
  <2>1. a + (b - a) - 1 = b - 1 OBVIOUS
  <2> QED BY <1>2, <2>1 DEF Span
<1>8. Covered(ys) = Covered(xs) \cup (a..(b - 1)) BY <1>6, <1>7 DEF Covered
<1>9. ys[Len(ys)][1] + ys[Len(ys)][2] = b BY <1>2, <1>3
<1> QED BY <1>3, <1>4, <1>5, <1>8, <1>9 DEF Apart, ys, x, T

(* The free blocks of the device are the blocks no item marks.              *)
LEMMA FreeBlocks ==
  ASSUME NEW items, NEW own, NEW size \in Sizes, ItemsOK(items, own, size)
  PROVE  \A b \in Nat : b \in Span(1, size - 1) \ own
                          <=> b < BlockCount(size) /\ Clear(items, b)
<1>1. size \in Nat /\ size > 1 /\ BlockCount(size) \in Nat /\ size <= BlockCount(size)
  BY SizeFacts
<1>2. ASSUME NEW b \in Nat
      PROVE  b \in Span(1, size - 1) <=> b # 0 /\ b < size
  BY <1>1 DEF Span
<1>3. \A b \in 0..(BlockCount(size) - 1) : Clear(items, b) <=> ~(b \in own \/ b = 0 \/ b >= size)
  BY DEF ItemsOK
<1> SUFFICES ASSUME NEW b \in Nat
             PROVE  b \in Span(1, size - 1) \ own <=> b < BlockCount(size) /\ Clear(items, b)
  OBVIOUS
<1>4. CASE b < BlockCount(size)
  <2>1. b \in 0..(BlockCount(size) - 1) BY <1>1, <1>4
  <2>2. b < size <=> ~(b >= size) BY <1>1
  <2> QED BY <1>2, <1>3, <1>4, <2>1, <2>2
<1>5. CASE ~(b < BlockCount(size))
  <2>1. ~(b < size) BY <1>1, <1>5
  <2> QED BY <1>2, <1>5, <2>1
<1> QED BY <1>4, <1>5

(* What one call of enumerate_next() finds: from an iterator that stands on *)
(* a block in use, the next extent, the last one, or that there is none.    *)
LEMMA EnumeratesOne ==
  ASSUME NEW e, NEW own, NEW size \in Sizes, ItemsOK(e.items, own, size), NEW xs, Apart(xs),
         Scanning(e, own, size, xs)
  PROVE  LET s == FreeStart(e)
             t == FreeEnd(e.items, s)
             N == BlockCount(size)
         IN  /\ e.off < size
             /\ t.i # 0 =>
                  /\ t.off \in 0..N /\ t.pos \in 0..BPK /\ (t.off # 0 \/ t.pos # 0)
                  /\ LET ys == Append(xs, <<s.start, Min({N, t.off + t.pos}) - s.start>>)
                     IN  /\ Apart(ys)
                         /\ \A f : (f.items = e.items /\ f.i = t.i /\ f.off = t.off /\ f.pos = t.pos)
                                      => Scanning(f, own, size, ys)
             /\ t.i = 0 /\ t.off < size =>
                  LET ys == Append(xs, <<s.start, N - s.start>>)
                  IN  Apart(ys) /\ Scanned(own, size, ys)
             /\ t.i = 0 /\ ~(t.off < size) =>
                  /\ t.off \in 0..N /\ t.off >= size /\ t.pos \in 0..BPK
                  /\ Scanned(own, size, xs)
<1> DEFINE items == e.items
           s == FreeStart(e)
           t == FreeEnd(items, s)
           N == BlockCount(size)
           P == e.off + e.pos
           F == Span(1, size - 1) \ own
<1>1. OfBitmap(items, e.i) /\ e.off = ItemKey(items, e.i) /\ e.pos \in Bits BY DEF Scanning
<1>2. StartOK(items, size, P, s) BY <1>1, FreeStartIs
<1>3. EndOK(items, s, t) BY <1>2, FreeEndIs
<1>4. e.off \in Nat /\ e.off < size /\ e.pos \in Nat /\ BPK \in Nat \ {0} /\ P \in Nat
  BY <1>1, ItemRow, FreelistAssumption
<1>5. size \in Nat /\ size > 1 /\ N \in Nat /\ size <= N BY SizeFacts
<1>6. \A b \in Nat : b \in F <=> b < N /\ Clear(items, b) BY FreeBlocks
<1>7. \A b \in F : b \in Nat BY <1>5 DEF Span
<1>8. /\ ~Clear(items, P) /\ Covered(xs) = {b \in F : b < P}
      /\ xs # <<>> => xs[Len(xs)][1] + xs[Len(xs)][2] = P
  BY DEF Scanning
<1> HIDE DEF items, s, t, N, P, F
<1>9. /\ s.start \in Nat /\ s.start >= P /\ Clear(items, s.start)
      /\ \A b \in Nat : b >= P /\ b < s.start => ~Clear(items, b)
  BY <1>2 DEF StartOK
<1>10. P < s.start
  <2>1. P # s.start BY <1>8, <1>9
  <2> QED BY <1>4, <1>9, <2>1 DEF P
<1>11. xs # <<>> => xs[Len(xs)][1] + xs[Len(xs)][2] < s.start BY <1>8, <1>10
<1>12. s.start <= N
  <2>1. CASE s.i = 0 /\ s.start <= BlockCount(size) BY <2>1 DEF N
  <2>2. CASE OfBitmap(items, s.i) /\ s.off = ItemKey(items, s.i) /\ s.pos \in Bits
             /\ s.start <= s.off + s.pos
    <3>1. s.off \in Nat /\ s.off + BPK <= N /\ s.pos \in Nat /\ s.pos < BPK
      BY <2>2, ItemRow DEF items, N
    <3> QED BY <1>4, <1>5, <1>9, <2>2, <3>1
  <2> QED BY <1>2, <2>1, <2>2 DEF StartOK
<1>13. ASSUME t.i # 0
       PROVE  /\ t.off \in 0..N /\ t.pos \in 0..BPK /\ (t.off # 0 \/ t.pos # 0)
              /\ LET ys == Append(xs, <<s.start, Min({N, t.off + t.pos}) - s.start>>)
                 IN  /\ Apart(ys)
                     /\ \A f : (f.items = items /\ f.i = t.i /\ f.off = t.off /\ f.pos = t.pos)
                                  => Scanning(f, own, size, ys)
  <2> DEFINE E == t.off + t.pos
             ys == Append(xs, <<s.start, E - s.start>>)
  <2>1. /\ OfBitmap(items, t.i) /\ t.off = ItemKey(items, t.i) /\ t.pos \in Bits
        /\ ~Clear(items, E) /\ s.start < E
        /\ \A b \in Nat : b >= s.start /\ b < E => Clear(items, b)
    BY <1>3, <1>13 DEF EndOK
  <2>2. t.off \in Nat /\ t.off + BPK <= N /\ t.pos \in Nat /\ t.pos < BPK
    BY <2>1, ItemRow DEF items, N
  <2>3. E \in Nat /\ E < N /\ E # 0 BY <1>4, <1>5, <1>9, <2>1, <2>2
  <2>4. Min({N, E}) = E
    <3>1. {N, E} \in SUBSET Nat /\ {N, E} # {} BY <1>5, <2>3
    <3> DEFINE M == {N, E}
    <3>2. Min(M) \in M /\ \A y \in M : Min(M) <= y
      <4> HIDE DEF M
      <4> QED BY <3>1, LeastOf DEF M
    <3> HIDE DEF E
    <3> QED BY <1>5, <2>3, <3>2
  <2> HIDE DEF E
  <2>5. /\ Apart(ys) /\ Covered(ys) = Covered(xs) \cup (s.start..(E - 1)) /\ ys # <<>>
        /\ ys[Len(ys)][1] + ys[Len(ys)][2] = E
    BY <1>9, <1>11, <2>1, <2>3, OneMoreExtent
  <2> HIDE DEF ys
  <2>6. Covered(ys) = {b \in F : b < E}
    <3>1. ASSUME NEW b \in Covered(ys) PROVE b \in F /\ b < E
      <4>1. CASE b \in Covered(xs) BY <1>4, <1>7, <1>8, <1>9, <1>10, <2>1, <2>3, <4>1 DEF P
      <4>2. CASE b \in s.start..(E - 1)
        <5>1. b \in Nat /\ b >= s.start /\ b < E /\ b < N BY <1>5, <1>9, <2>3, <4>2
        <5> QED BY <1>6, <2>1, <5>1
      <4> QED BY <2>5, <4>1, <4>2
    <3>2. ASSUME NEW b \in F, b < E PROVE b \in Covered(ys)
      <4>1. b \in Nat /\ Clear(items, b) BY <1>6, <1>7
      <4>2. CASE b < P BY <1>8, <2>5, <4>2
      <4>3. CASE b >= P
        <5>1. ~(b < s.start) BY <1>9, <4>1, <4>3
        <5>2. b \in s.start..(E - 1) BY <1>9, <2>3, <3>2, <4>1, <5>1
        <5> QED BY <2>5, <5>2
      <4>4. P \in Nat BY <1>4
      <4> QED BY <4>1, <4>2, <4>3, <4>4
    <3> QED BY <3>1, <3>2
  <2>7. ASSUME NEW f, f.items = items, f.i = t.i, f.off = t.off, f.pos = t.pos
        PROVE  Scanning(f, own, size, ys)
    <3>1. f.off + f.pos = E BY <2>7 DEF E
    <3> QED BY <2>1, <2>5, <2>6, <2>7, <3>1 DEF Scanning, F
  <2>8. t.off \in 0..N /\ t.pos \in 0..BPK /\ (t.off # 0 \/ t.pos # 0)
    BY <1>4, <1>5, <2>2, <2>3 DEF E
  <2> QED BY <2>4, <2>5, <2>7, <2>8 DEF E, ys
<1>14. ASSUME t.i = 0
       PROVE  /\ t.pos = 0 /\ s.start < t.off + BPK
              /\ \A b \in Nat : b >= s.start => Clear(items, b)
              /\ t.off = s.start \/ (t.off \in Nat /\ t.off < size /\ t.off + BPK <= N)
  <2>1. /\ t.pos = 0 /\ s.start < t.off + BPK
        /\ \A b \in Nat : b >= s.start => Clear(items, b)
        /\ t.off = s.start \/ \E j \in 1..Len(items) : OfBitmap(items, j) /\ t.off = ItemKey(items, j)
    BY <1>3, <1>14 DEF EndOK, OfBitmap
  <2>2. ASSUME NEW j \in 1..Len(items), OfBitmap(items, j), t.off = ItemKey(items, j)
        PROVE  t.off \in Nat /\ t.off < size /\ t.off + BPK <= N
    BY <2>2, ItemRow DEF items, N
  <2> QED BY <2>1, <2>2
<1>15. ASSUME t.i = 0, t.off < size
       PROVE  LET ys == Append(xs, <<s.start, N - s.start>>)
              IN  Apart(ys) /\ Scanned(own, size, ys)
  <2> DEFINE ys == Append(xs, <<s.start, N - s.start>>)
  <2>1. s.start < N BY <1>4, <1>5, <1>9, <1>14, <1>15
  <2>2. Apart(ys) /\ Covered(ys) = Covered(xs) \cup (s.start..(N - 1))
    BY <1>5, <1>9, <1>11, <2>1, OneMoreExtent
  <2> HIDE DEF ys
  <2>3. ASSUME NEW b \in Covered(ys) PROVE b \in F
    <3>1. CASE b \in Covered(xs) BY <1>8, <3>1
    <3>2. CASE b \in s.start..(N - 1)
      <4>1. b \in Nat /\ b >= s.start /\ b < N BY <1>5, <1>9, <3>2
      <4> QED BY <1>6, <1>14, <1>15, <4>1
    <3> QED BY <2>2, <3>1, <3>2
  <2>4. ASSUME NEW b \in F PROVE b \in Covered(ys)
    <3>1. b \in Nat /\ Clear(items, b) /\ b < N BY <1>6, <1>7
    <3>2. CASE b < P BY <1>8, <2>2, <3>2
    <3>3. CASE b >= P
      <4>1. ~(b < s.start) BY <1>9, <3>1, <3>3
      <4>2. b \in s.start..(N - 1) BY <1>5, <1>9, <3>1, <4>1
      <4> QED BY <2>2, <4>2
    <3>4. P \in Nat BY <1>4
    <3> QED BY <3>1, <3>2, <3>3, <3>4
  <2> QED BY <2>2, <2>3, <2>4 DEF Scanned, F, ys
<1>16. ASSUME t.i = 0, ~(t.off < size)
       PROVE  /\ t.off \in 0..N /\ t.off >= size /\ t.pos \in 0..BPK
              /\ Scanned(own, size, xs)
  <2>1. t.off = s.start /\ t.off \in 0..N /\ t.off >= size /\ t.pos = 0
    BY <1>5, <1>9, <1>12, <1>14, <1>16
  <2>2. ASSUME NEW b \in F PROVE b < P
    <3>1. b \in Nat /\ Clear(items, b) /\ b < size BY <1>5, <1>6, <1>7 DEF F, Span
    <3>2. b < s.start BY <1>5, <1>9, <2>1, <3>1
    <3>3. P \in Nat BY <1>4
    <3> QED BY <1>9, <3>1, <3>2, <3>3
  <2>3. Covered(xs) = F BY <1>8, <2>2
  <2>4. t.pos \in 0..BPK BY <1>4, <2>1
  <2> QED BY <2>1, <2>3, <2>4 DEF Scanned, F
<1> QED BY <1>4, <1>13, <1>15, <1>16 DEF items, s, t, N

(* A call of enumerate_next() keeps the invariant.                          *)
LEMMA EnumerateStep ==
  ASSUME FInv, KeysOK, EnumOK, EnumerateNext
  PROVE  EnumOK'
<1>1. fm # None /\ ~done /\ fm' = fm BY DEF EnumerateNext
<1>2. PICK size \in Sizes : /\ fm = [size |-> size, blocks |-> BlockCount(size)]
                            /\ Formatted(db, owned, size)
  BY <1>1 DEF FInv, ManagerOK
<1> DEFINE N == BlockCount(size)
           own == IF Started THEN snap ELSE owned
           e == IF Started THEN en ELSE FreshEnum
           s == FreeStart(e)
           t == FreeEnd(e.items, s)
<1>3. fm.size = size /\ fm.blocks = N /\ snap' = own BY <1>2 DEF EnumerateNext
<1>4. VersionKeys(db) BY CurrentKeys DEF FInv
<1>5. size \in Nat /\ size > 1 /\ N \in Nat /\ size <= N /\ BPK \in Nat \ {0}
  BY SizeFacts, FreelistAssumption
<1>6. /\ DOMAIN e = {"items", "i", "off", "pos"}
      /\ ItemsOK(e.items, own, size) /\ Apart(out)
      /\ e.off \in 0..(N + BPK) /\ e.pos \in 0..BPK
      /\ \/ Scanning(e, own, size, out)
         \/ (e.off >= size /\ Started /\ Scanned(own, size, out))
  <2>1. CASE Started
    <3>1. e = en /\ own = snap BY <2>1
    <3> HIDE DEF e, own, N
    <3> QED BY <1>1, <1>3, <2>1, <3>1 DEF EnumOK
  <2>2. CASE ~Started
    <3>1. e = FreshEnum /\ own = owned /\ out = <<>> BY <2>2 DEF EnumOK
    <3>2. /\ DOMAIN e = {"items", "i", "off", "pos"}
          /\ ItemsOK(e.items, own, size)
          /\ OfBitmap(e.items, e.i) /\ e.off = ItemKey(e.items, e.i)
          /\ e.off = 0 /\ e.pos = 0 /\ ~Clear(e.items, 0)
      BY <1>2, <1>4, <3>1, FreshIs
    <3> HIDE DEF e, own, N
    <3>3. Apart(out) BY <3>1 DEF Apart
    <3>4. Covered(out) = {} BY <3>1 DEF Covered, Range
    <3>5. {b \in Span(1, size - 1) \ own : b < e.off + e.pos} = {} BY <1>5, <3>2 DEF Span
    <3>6. 0 \in Bits /\ 0 + 0 = 0 BY <1>5 DEF Bits
    <3>7. Scanning(e, own, size, out) BY <3>1, <3>2, <3>4, <3>5, <3>6 DEF Scanning
    <3> QED BY <1>5, <3>2, <3>3, <3>7
  <2> QED BY <2>1, <2>2
<1>7. CASE e.off >= size
  <2>1. e.off < size => FALSE BY <1>5, <1>6, <1>7
  <2>2. Started /\ Scanned(own, size, out)
    <3>1. ~Scanning(e, own, size, out)
      <4> SUFFICES ASSUME Scanning(e, own, size, out) PROVE FALSE OBVIOUS
      <4> HIDE DEF e, own
      <4>1. e.off < size BY <1>6, EnumeratesOne
      <4> QED BY <2>1, <4>1
    <3> QED BY <1>6, <3>1
  <2>3. e = en /\ own = snap BY <2>2
  <2>4. done' = TRUE /\ en' = e /\ out' = out
    <3>1. \E x \in {e} : \E y \in {IF x.off >= fm.size THEN None ELSE FreeStart(x)} :
            \E z \in {IF x.off >= fm.size THEN None ELSE FreeEnd(x.items, y)} : Enumerate(x, y, z)
      BY Zenon DEF EnumerateNext
    <3> HIDE DEF e
    <3>2. PICK y, z : Enumerate(e, y, z)
      <4> HIDE DEF Enumerate
      <4> QED BY <3>1
    <3> QED BY <1>3, <1>7, <2>1, <3>2 DEF Enumerate
  <2>5. Started' BY <2>2, <2>3, <2>4 DEF Started
  <2> HIDE DEF e, own, N
  <2> QED BY <1>1, <1>3, <1>6, <2>2, <2>3, <2>4, <2>5 DEF EnumOK
<1>8. CASE ~(e.off >= size)
  <2>1. Scanning(e, own, size, out) /\ e.off < size BY <1>5, <1>6, <1>8
  <2>2. Enumerate(e, s, t)
    <3>1. ~(e.off >= fm.size) BY <1>3, <1>8
    <3>2. \E x \in {e} : \E y \in {IF x.off >= fm.size THEN None ELSE FreeStart(x)} :
            \E z \in {IF x.off >= fm.size THEN None ELSE FreeEnd(x.items, y)} : Enumerate(x, y, z)
      BY Zenon DEF EnumerateNext
    <3> HIDE DEF e, Enumerate
    <3> QED BY <3>1, <3>2
  <2> HIDE DEF e, own, N
  <2>3. /\ t.i # 0 =>
             /\ t.off \in 0..N /\ t.pos \in 0..BPK /\ (t.off # 0 \/ t.pos # 0)
             /\ LET ys == Append(out, <<s.start, Min({N, t.off + t.pos}) - s.start>>)
                IN  /\ Apart(ys)
                    /\ \A f : (f.items = e.items /\ f.i = t.i /\ f.off = t.off /\ f.pos = t.pos)
                                 => Scanning(f, own, size, ys)
        /\ t.i = 0 /\ t.off < size =>
             LET ys == Append(out, <<s.start, N - s.start>>)
             IN  Apart(ys) /\ Scanned(own, size, ys)
        /\ t.i = 0 /\ ~(t.off < size) =>
             /\ t.off \in 0..N /\ t.off >= size /\ t.pos \in 0..BPK
             /\ Scanned(own, size, out)
    BY <1>6, <2>1, EnumeratesOne DEF N
  <2> HIDE DEF s, t
  <2>4. ASSUME NEW i, NEW off, NEW pos, en' = [e EXCEPT !.i = i, !.off = off, !.pos = pos]
        PROVE  /\ en'.items = e.items /\ en'.i = i /\ en'.off = off /\ en'.pos = pos
               /\ DOMAIN en' = {"items", "i", "off", "pos"}
    BY <1>6, <2>4
  <2>5. CASE t.i # 0
    <3> DEFINE ys == Append(out, <<s.start, Min({N, t.off + t.pos}) - s.start>>)
    <3>1. /\ out' = ys /\ done' = done
          /\ en' = [e EXCEPT !.i = t.i, !.off = t.off, !.pos = t.pos]
      BY <1>3, <1>8, <2>1, <2>2, <2>5 DEF Enumerate
    <3>2. /\ en'.items = e.items /\ en'.i = t.i /\ en'.off = t.off /\ en'.pos = t.pos
          /\ DOMAIN en' = {"items", "i", "off", "pos"}
      BY <2>4, <3>1
    <3>3. /\ t.off \in 0..N /\ t.pos \in 0..BPK /\ (t.off # 0 \/ t.pos # 0)
          /\ Apart(ys) /\ Scanning(en', own, size, ys)
      BY <2>3, <2>5, <3>2
    <3>4. Started' BY <3>2, <3>3 DEF Started
    <3>5. en'.off \in 0..(N + BPK) /\ en'.pos \in 0..BPK BY <1>5, <3>2, <3>3
    <3> HIDE DEF ys
    <3> QED BY <1>1, <1>3, <1>6, <3>1, <3>2, <3>3, <3>4, <3>5 DEF EnumOK
  <2>6. CASE t.i = 0 /\ t.off < size
    <3> DEFINE ys == Append(out, <<s.start, N - s.start>>)
    <3>1. /\ out' = ys /\ done' = done
          /\ en' = [e EXCEPT !.i = 0, !.off = size, !.pos = BPK]
      BY <1>3, <1>8, <2>1, <2>2, <2>6 DEF Enumerate
    <3>2. /\ en'.items = e.items /\ en'.i = 0 /\ en'.off = size /\ en'.pos = BPK
          /\ DOMAIN en' = {"items", "i", "off", "pos"}
      BY <2>4, <3>1
    <3>3. Apart(ys) /\ Scanned(own, size, ys) BY <2>3, <2>6
    <3>4. Started' BY <1>5, <3>2 DEF Started
    <3>5. en'.off \in 0..(N + BPK) /\ en'.pos \in 0..BPK /\ en'.off >= size BY <1>5, <3>2
    <3> HIDE DEF ys
    <3> QED BY <1>1, <1>3, <1>6, <3>1, <3>2, <3>3, <3>4, <3>5 DEF EnumOK
  <2>7. CASE t.i = 0 /\ ~(t.off < size)
    <3>1. /\ out' = out /\ done' = TRUE
          /\ en' = [e EXCEPT !.i = 0, !.off = t.off, !.pos = t.pos]
      BY <1>3, <1>8, <2>1, <2>2, <2>7 DEF Enumerate
    <3>2. /\ en'.items = e.items /\ en'.i = 0 /\ en'.off = t.off /\ en'.pos = t.pos
          /\ DOMAIN en' = {"items", "i", "off", "pos"}
      BY <2>4, <3>1
    <3>3. /\ t.off \in 0..N /\ t.off >= size /\ t.pos \in 0..BPK
          /\ Scanned(own, size, out)
      BY <2>3, <2>7
    <3>4. Started' BY <1>5, <3>2, <3>3 DEF Started
    <3>5. en'.off \in 0..(N + BPK) /\ en'.pos \in 0..BPK BY <1>5, <3>2, <3>3
    <3> QED BY <1>1, <1>3, <1>6, <3>1, <3>2, <3>3, <3>4, <3>5 DEF EnumOK
  <2> QED BY <2>5, <2>6, <2>7
<1> QED BY <1>7, <1>8

(* A reset, and a crash, leave an enumeration that has not started.         *)
LEMMA IdleIs ==
  ASSUME en' = Idle, out' = <<>>, done' = FALSE
  PROVE  EnumOK'
<1>1. en'.off = 0 /\ en'.pos = 0
      /\ DOMAIN en' = {"items", "i", "off", "pos"}
  BY DEF Idle
<1>2. ~Started' BY <1>1 DEF Started
<1> QED BY <1>1, <1>2 DEF EnumOK

\* the inductive invariant of the enumeration
EInv == FInv /\ KeysOK /\ EnumOK

(* Initially nothing is enumerated.                                         *)
LEMMA InitEInv == Init => EInv
<1> SUFFICES ASSUME Init PROVE EInv OBVIOUS
<1>1. en = Idle /\ out = <<>> /\ done = FALSE BY DEF Init
<1>2. en.off = 0 /\ en.pos = 0
      /\ DOMAIN en = {"items", "i", "off", "pos"}
  BY <1>1 DEF Idle
<1>3. ~Started BY <1>2 DEF Started
<1>4. EnumOK BY <1>1, <1>2, <1>3 DEF EnumOK
<1> QED BY <1>4, InitHolds, InitKeys DEF EInv

(* Transactions and crashes leave an enumeration alone or end it.           *)
LEMMA NextKeepsEInv == EInv /\ [Next]_vars => EInv'
<1> SUFFICES ASSUME EInv, [Next]_vars PROVE EnumOK'
  BY NextKeepsFInv, NextKeepsKeys DEF EInv
<1>0. EnumOK BY DEF EInv
<1>1. ASSUME UNCHANGED fmVars PROVE EnumOK'
  BY <1>0, <1>1 DEF EnumOK, Started, Scanning, Scanned, fmVars
<1>2. ASSUME UNCHANGED <<en, out, done, snap>>, fm = None PROVE EnumOK'
  <2>1. ~Started /\ out = <<>> /\ ~done BY <1>0, <1>2 DEF EnumOK
  <2>2. ~Started' BY <1>2, <2>1 DEF Started
  <2> QED BY <1>0, <1>2, <2>1, <2>2 DEF EnumOK
<1>3. CASE \E n \in Sizes : Create(n) BY <1>2, <1>3 DEF Create
<1>4. CASE InitFm BY <1>2, <1>4 DEF InitFm
<1>5. CASE \E x \in Extents, sync \in BOOLEAN : Allocate(x[1], x[2], sync)
  BY <1>1, <1>5 DEF Allocate
<1>6. CASE \E x \in Extents, sync \in BOOLEAN : Release(x[1], x[2], sync)
  BY <1>1, <1>6 DEF Release
<1>7. CASE \E ops \in OtherTxns : Other(ops) BY <1>1, <1>7 DEF Other
<1>8. CASE Crash
  <2>1. en' = Idle /\ out' = <<>> /\ done' = FALSE BY <1>8 DEF Crash
  <2> QED BY <2>1, IdleIs
<1>9. CASE EnumerateReset
  <2>1. en' = Idle /\ out' = <<>> /\ done' = FALSE BY <1>9 DEF EnumerateReset
  <2> QED BY <2>1, IdleIs
<1>10. CASE EnumerateNext BY <1>10, EnumerateStep DEF EInv
<1>11. CASE UNCHANGED vars BY <1>1, <1>11 DEF vars
<1> QED
  BY <1>3, <1>4, <1>5, <1>6, <1>7, <1>8, <1>9, <1>10, <1>11 DEF Next

(* enumerate_next() returns the maximal free extents of the bitmap as it    *)
(* was when the enumeration started, in order, whatever is committed        *)
(* meanwhile, and all of them by the time it returns false.                 *)
LEMMA ReturnedIsSnapshot == ASSUME EInv, Started PROVE ReturnsSnapshot
<1> DEFINE free == Span(1, fm.size - 1) \ snap
           seen == UNION {Span(x[1], x[2]) : x \in Range(out)}
<1>0. fm # None /\ FInv BY DEF EInv, EnumOK
<1>1. PICK size \in Sizes : fm.size = size BY <1>0 DEF FInv, ManagerOK
<1>2. size \in Nat BY SizeFacts
<1>3. seen = Covered(out) BY DEF Covered
<1>4. \A i \in 1..(Len(out) - 1) : out[i][1] + out[i][2] < out[i + 1][1]
  BY DEF EInv, EnumOK, Apart
<1>5. CASE ~done /\ Scanning(en, snap, fm.size, out)
  <2> DEFINE P == en.off + en.pos
  <2>1. P \in Nat
    <3>1. ItemsOK(en.items, snap, size) /\ OfBitmap(en.items, en.i)
          /\ en.off = ItemKey(en.items, en.i) /\ en.pos \in Bits
      BY <1>1, <1>5 DEF EInv, EnumOK, Scanning
    <3>2. en.off \in Nat /\ en.pos \in Nat BY <3>1, ItemRow
    <3> QED BY <3>2
  <2>2. seen = {b \in free : b < P} BY <1>3, <1>5 DEF Scanning
  <2> HIDE DEF P, seen
  <2>3. \A b \in free : b \in Nat BY <1>1, <1>2 DEF Span
  <2> HIDE DEF free
  <2>4. \A b \in free \ seen : \A c \in seen : c < b BY <2>1, <2>2, <2>3
  <2>5. seen \subseteq free BY <2>2
  <2> QED BY <1>4, <1>5, <2>4, <2>5 DEF ReturnsSnapshot, free, seen
<1>6. CASE Scanned(snap, fm.size, out)
  <2>1. seen = free BY <1>3, <1>6 DEF Scanned
  <2> QED BY <1>4, <2>1 DEF ReturnsSnapshot
<1> QED BY <1>5, <1>6 DEF EInv, EnumOK

(* The assertions of enumerate_next() on its first key never fail.          *)
LEMMA FirstKeyAssertionsHold == ASSUME EInv, fm # None PROVE StartAsserts
<1> DEFINE items == ItemsOf(db)
           i == LowerBound(items, BITMAP, 0)
           v == items[i].value
<1>1. PICK size \in Sizes : Formatted(db, owned, size) BY DEF EInv, FInv, ManagerOK
<1>2. VersionKeys(db) BY CurrentKeys DEF EInv, FInv
<1>3. /\ ItemsOK(items, owned, size) /\ OfBitmap(items, i)
      /\ ItemKey(items, i) = 0 /\ ~Clear(items, 0)
  BY <1>1, <1>2, FreshIs DEF FreshEnum
<1>4. ValidAt(items, i, BITMAP)
  <2> HIDE DEF items, i
  <2> QED BY <1>3 DEF ValidAt, OfBitmap, ItemsOK
<1>5. 0 \in Bits BY FreelistAssumption DEF Bits
<1>6. 0 \in v
  <2> HIDE DEF items, i
  <2>1. Clear(items, 0 + 0) <=> 0 \notin v BY <1>3, <1>5, ItemRow
  <2> QED BY <1>3, <2>1
<1>7. NextSet(v, 0) = 0
  <2> HIDE DEF v
  <2> DEFINE p == NextSet(v, 0)
  <2>1. \A b \in Bits : b \in Nat BY FreelistAssumption DEF Bits
  <2>2. \/ p = -1 /\ \A b \in Bits : b >= 0 => b \notin v
        \/ p \in Bits /\ \A b \in Bits : b >= 0 /\ b < p => b \notin v
    BY NextSetIs
  <2> HIDE DEF p
  <2>3. p = 0 BY <1>5, <1>6, <2>1, <2>2
  <2> QED BY <2>3 DEF p
<1> HIDE DEF v
<1> QED BY <1>3, <1>4, <1>7 DEF StartAsserts, v

(* The assertions of enumerate_next() on its first key never fail, and it   *)
(* returns the maximal free extents of the bitmap as it was when the        *)
(* enumeration started, in order, whatever is committed meanwhile, and all  *)
(* of them by the time it returns false.                                    *)
THEOREM EnumerationIsExact == Spec => []EnumeratesSnapshot
<1>1. EInv => EnumeratesSnapshot
  BY FirstKeyAssertionsHold, ReturnedIsSnapshot DEF EnumeratesSnapshot
<1> QED BY <1>1, InitEInv, NextKeepsEInv, PTL DEF Spec

(* The bitmap's values, the manager's state and the iterator's position     *)
(* always have their types.                                                 *)
THEOREM FreelistIsTyped == Spec => []FreelistTypeOK
<1>1. EInv => FreelistTypeOK
  <2> SUFFICES ASSUME EInv PROVE FreelistTypeOK OBVIOUS
  <2>0. FInv /\ HistOK BY DEF EInv, FInv
  <2>1. \A x \in KeysOf(db, BITMAP) : x[2] % BPK = 0 /\ db[x] \subseteq Bits
    <3>1. VersionOK(db, owned) BY <2>0, CurrentVersion
    <3>2. CASE Fresh(db, owned) BY <3>2 DEF Fresh
    <3>3. CASE \E size \in Sizes : Formatted(db, owned, size)
      BY <3>3 DEF Formatted, BitmapTyped
    <3> QED BY <3>1, <3>2, <3>3 DEF VersionOK
  <2>2. fm # None => fm.size \in Sizes /\ fm.blocks = BlockCount(fm.size)
    BY <2>0 DEF FInv, ManagerOK
  <2>3. Started => en.off \in 0..(fm.blocks + BPK) /\ en.pos \in 0..BPK
    BY DEF EInv, EnumOK
  <2>4. hist # <<>> /\ done \in BOOLEAN BY <2>0 DEF EInv, EnumOK, HistOK
  <2> QED BY <2>1, <2>2, <2>3, <2>4 DEF FreelistTypeOK
<1> QED BY <1>1, InitEInv, NextKeepsEInv, PTL DEF Spec
=============================================================================
