--------------------------- MODULE AllocatorProofs ---------------------------
(***************************************************************************)
(* Proofs about the block allocators, for any device, bitmap geometry,     *)
(* cap of the tree, requests and number of threads.                        *)
(*                                                                         *)
(* The argument: each method of the three classes keeps SpaceOK (segments  *)
(* apart, free space in one piece, counters and L1 entries right) and      *)
(* moves a known set of blocks into or out of the free ones; the owners    *)
(* get or lose the same set (OwnersOK).  AllocInv is both together, with   *)
(* the part that survives a double allocation (AlwaysOK) kept apart.       *)
(***************************************************************************)
EXTENDS Allocator, Induction, FiniteSetTheorems, SequenceTheorems, TLAPS

-----------------------------------------------------------------------------
(* Numbers and intervals                                                    *)

(* The quotient of an offset by a granularity, as the levels of the bitmap  *)
(* compute their positions.                                                 *)
LEMMA Quotient ==
  ASSUME NEW a \in Nat, NEW d \in Nat \ {0}
  PROVE  /\ a \div d \in Nat
         /\ (a \div d) * d <= a /\ a < (a \div d) * d + d
         /\ (a \div d) * d \in Nat
OBVIOUS

(* Only one quotient fits: the position of a block in a level of the        *)
(* bitmap.                                                                  *)
LEMMA QuotientUnique ==
  ASSUME NEW a \in Nat, NEW d \in Nat \ {0}, NEW q \in Nat,
         q * d <= a, a < q * d + d
  PROVE  a \div d = q
<1> DEFINE p == a \div d
<1>1. p \in Nat /\ p * d <= a /\ a < p * d + d BY Quotient
<1> HIDE DEF p
<1>2. ~(p < q)
  <2> SUFFICES ASSUME p < q PROVE FALSE OBVIOUS
  <2>1. (p + 1) * d <= q * d BY <1>1
  <2>2. (p + 1) * d = p * d + d BY <1>1
  <2> QED BY <1>1, <2>1, <2>2
<1>3. ~(q < p)
  <2> SUFFICES ASSUME q < p PROVE FALSE OBVIOUS
  <2>1. (q + 1) * d <= p * d BY <1>1
  <2>2. (q + 1) * d = q * d + d BY <1>1
  <2> QED BY <1>1, <2>1, <2>2
<1>4. p = q BY <1>1, <1>2, <1>3
<1> QED BY <1>4 DEF p

(* round_up() is the next multiple.                                         *)
LEMMA RoundedUp ==
  ASSUME NEW n \in Nat, NEW a \in Nat \ {0}
  PROVE  /\ RoundUp(n, a) \in Nat
         /\ n <= RoundUp(n, a) /\ RoundUp(n, a) < n + a
         /\ \E q \in Nat : RoundUp(n, a) = q * a /\ RoundUp(n, a) \div a = q
<1> DEFINE c == n + a - 1
           q == c \div a
<1>1. c \in Nat OBVIOUS
<1>2. q \in Nat /\ q * a <= c /\ c < q * a + a /\ q * a \in Nat BY <1>1, Quotient
<1>3. RoundUp(n, a) = q * a BY DEF RoundUp
<1> HIDE DEF q
<1>4. (q * a) \div a = q BY <1>2, QuotientUnique
<1> QED BY <1>2, <1>3, <1>4

(* The levels of the bitmap are not empty, and the counters' word holds     *)
(* twice the device.                                                        *)
LEMMA Geometry ==
  /\ Size \in Nat /\ BITS \in Nat \ {0} /\ SLOTS \in Nat \ {0} /\ ENTRIES \in Nat \ {0}
  /\ EntryBits \in Nat \ {0} /\ RegionBlocks \in Nat \ {0}
  /\ CAP \in Nat \ {0} /\ WORD \in Nat /\ 2 * Size < WORD
  /\ SLOTS * ENTRIES \in Nat \ {0}
  /\ RegionBlocks = EntryBits * (SLOTS * ENTRIES)
<1>0. /\ Size \in Nat /\ BITS \in Nat \ {0} /\ SLOTS \in Nat \ {0} /\ ENTRIES \in Nat \ {0}
      /\ CAP \in Nat \ {0} /\ WORD \in Nat /\ 2 * Size < WORD
  BY GeometryAssumption
<1>1. ASSUME NEW x \in Nat \ {0}, NEW y \in Nat \ {0} PROVE x * y \in Nat \ {0}
  <2>1. x * y >= x BY <1>1
  <2> QED BY <1>1, <2>1
<1>2. EntryBits \in Nat \ {0} BY <1>0, <1>1 DEF EntryBits
<1>3. SLOTS * ENTRIES \in Nat \ {0} BY <1>0, <1>1
<1>4. RegionBlocks = EntryBits * (SLOTS * ENTRIES) BY <1>0, <1>2 DEF RegionBlocks
<1>5. RegionBlocks \in Nat \ {0} BY <1>1, <1>2, <1>3, <1>4
<1> QED BY <1>0, <1>2, <1>3, <1>4, <1>5

(* A counter below 2^64 does not wrap.                                      *)
LEMMA InWord ==
  ASSUME NEW x \in Nat, x < WORD
  PROVE  x % WORD = x
BY Geometry

(* Two intervals without a common element: one ends before the other.       *)
LEMMA IntervalsApart ==
  ASSUME NEW a \in Int, NEW b \in Int, NEW c \in Int, NEW d \in Int, a < b, c < d,
         \A x \in a..(b - 1) : x \notin c..(d - 1)
  PROVE  b <= c \/ d <= a
<1>1. CASE a <= c
  <2>1. c \in c..(d - 1) OBVIOUS
  <2>2. c \notin a..(b - 1) BY <2>1
  <2> QED BY <1>1, <2>2
<1>2. CASE c < a
  <2>1. a \in a..(b - 1) OBVIOUS
  <2> QED BY <1>2, <2>1
<1> QED BY <1>1, <1>2

(* A segment has as many blocks as it is long.                              *)
LEMMA IntervalSize ==
  ASSUME NEW a \in Int, NEW b \in Int, a <= b
  PROVE  IsFiniteSet(a..(b - 1)) /\ Cardinality(a..(b - 1)) = b - a
<1>1. b - 1 \in Int OBVIOUS
<1>2. /\ IsFiniteSet(a..(b - 1))
      /\ Cardinality(a..(b - 1)) = IF a > b - 1 THEN 0 ELSE ((b - 1) - a) + 1
  BY <1>1, FS_Interval
<1> QED BY <1>2

(* A block is a position inside the device, after block 0.                  *)
LEMMA BlockIs ==
  ASSUME NEW b \in Blocks
  PROVE  b \in Nat /\ 1 <= b /\ b < Size /\ Size \in Nat
BY Geometry DEF Blocks

(* Sets of blocks are finite, and their sizes fit the counters.             *)
LEMMA BlocksFinite ==
  ASSUME NEW S \in SUBSET Blocks
  PROVE  /\ IsFiniteSet(S) /\ Cardinality(S) \in Nat
         /\ Cardinality(S) <= Size /\ Cardinality(S) < WORD
<1>0. CASE Size = 0
  <2>1. Blocks = {} BY <1>0 DEF Blocks
  <2> QED BY <2>1, <1>0, FS_EmptySet, Geometry
<1>1. CASE Size # 0
  <2>1. IsFiniteSet(Blocks) /\ Cardinality(Blocks) = Size - 1
    BY <1>1, Geometry, IntervalSize DEF Blocks
  <2>2. IsFiniteSet(S) /\ Cardinality(S) <= Cardinality(Blocks) BY <2>1, FS_Subset
  <2>3. Cardinality(S) \in Nat BY <2>2, FS_CardinalityType
  <2> QED BY <2>1, <2>2, <2>3, Geometry
<1> QED BY <1>0, <1>1, Geometry

(* The size of two sets of blocks that share none.                          *)
LEMMA DisjointSize ==
  ASSUME NEW S, NEW T, IsFiniteSet(S), IsFiniteSet(T), S \cap T = {}
  PROVE  /\ IsFiniteSet(S \cup T)
         /\ Cardinality(S \cup T) = Cardinality(S) + Cardinality(T)
<1>1. /\ IsFiniteSet(S \cup T)
      /\ Cardinality(S \cup T) = Cardinality(S) + Cardinality(T) - Cardinality(S \cap T)
  BY FS_Union
<1>2. Cardinality(S \cap T) = 0 BY FS_EmptySet
<1>3. Cardinality(S) \in Nat /\ Cardinality(T) \in Nat BY FS_CardinalityType
<1> QED BY <1>1, <1>2, <1>3

(* What is left of a set of blocks when some are taken.                     *)
LEMMA RestSize ==
  ASSUME NEW S, NEW T, IsFiniteSet(S), T \subseteq S
  PROVE  /\ IsFiniteSet(T) /\ IsFiniteSet(S \ T)
         /\ Cardinality(S \ T) = Cardinality(S) - Cardinality(T)
<1>1. IsFiniteSet(T) /\ IsFiniteSet(S \ T) BY FS_Subset, FS_Difference
<1>2. (S \ T) \cap T = {} /\ (S \ T) \cup T = S OBVIOUS
<1>3. Cardinality(S) = Cardinality(S \ T) + Cardinality(T) BY <1>1, <1>2, DisjointSize
<1>4. /\ Cardinality(S) \in Nat /\ Cardinality(T) \in Nat /\ Cardinality(S \ T) \in Nat
  BY <1>1, FS_CardinalityType
<1> QED BY <1>1, <1>3, <1>4

(* std::max and std::min of a finite set of sizes.                          *)
LEMMA MaxIn ==
  ASSUME NEW N \in Nat, NEW S \in SUBSET (0..N), S # {}
  PROVE  Max(S) \in S /\ \A y \in S : y <= Max(S)
<1> DEFINE T == {k \in 0..N : N - k \in S}
<1>1. PICK z \in S : TRUE OBVIOUS
<1>2. N - z \in T OBVIOUS
<1>3. T \in SUBSET Nat /\ T # {}
  <2>1. T \in SUBSET Nat OBVIOUS
  <2> HIDE DEF T
  <2> QED BY <1>2, <2>1
<1>4. PICK k \in T : \A j \in T : k <= j
  <2> HIDE DEF T
  <2> QED BY <1>3, LeastElement
<1>5. ASSUME NEW y \in S PROVE N - k >= y
  <2>1. y \in 0..N /\ N - y \in T OBVIOUS
  <2> QED BY <1>4, <2>1
<1>6. N - k \in S BY <1>4
<1>7. \E x \in S : \A y \in S : x >= y BY <1>5, <1>6
<1>8. Max(S) \in S /\ \A y \in S : Max(S) >= y BY <1>7 DEF Max
<1> QED BY <1>8

(* The smallest member of a set of positions is one of them.                *)
LEMMA MinIn ==
  ASSUME NEW S \in SUBSET Nat, S # {}
  PROVE  Min(S) \in S /\ \A y \in S : Min(S) <= y
<1>1. \E x \in S : \A y \in S : x <= y BY LeastElement
<1> QED BY <1>1 DEF Min

-----------------------------------------------------------------------------
(* Where a block lies in the three levels of the bitmap                     *)

(* Multiples of a granularity are ordered as their factors are.             *)
LEMMA Multiples ==
  ASSUME NEW x \in Nat, NEW y \in Nat, NEW d \in Nat \ {0}
  PROVE  /\ x * d \in Nat
         /\ x <= y => x * d <= y * d
         /\ x * d < y * d => x < y
         /\ (x + 1) * d = x * d + d
<1>1. x * d \in Nat /\ y * d \in Nat OBVIOUS
<1>2. ASSUME NEW u \in Nat, NEW v \in Nat, u <= v PROVE u * d <= v * d
  BY <1>2
<1>3. x * d < y * d => x < y
  <2> SUFFICES ASSUME x * d < y * d, ~(x < y) PROVE FALSE OBVIOUS
  <2>1. y <= x OBVIOUS
  <2>2. y * d <= x * d BY <2>1, <1>2
  <2> QED BY <1>1, <2>2
<1> QED BY <1>1, <1>2, <1>3

(* A position of one level covers the offsets whose quotient it is.         *)
LEMMA Position ==
  ASSUME NEW d \in Nat \ {0}, NEW q \in Nat, NEW b \in Nat
  PROVE  b \in (q * d)..((q + 1) * d - 1) <=> b \div d = q
<1>1. (q + 1) * d = q * d + d /\ q * d \in Nat BY Multiples
<1>2. ASSUME b \in (q * d)..((q + 1) * d - 1) PROVE b \div d = q
  <2>1. q * d <= b /\ b < q * d + d BY <1>1, <1>2
  <2> QED BY <2>1, QuotientUnique
<1>3. ASSUME b \div d = q PROVE b \in (q * d)..((q + 1) * d - 1)
  <2>1. (b \div d) * d <= b /\ b < (b \div d) * d + d BY Quotient
  <2>2. q * d <= b /\ b < q * d + d BY <1>3, <2>1
  <2> HIDE <1>3
  <2> QED BY <1>1, <2>2
<1> QED BY <1>2, <1>3

(* A block is in the L1 entry its offset divides to.                        *)
LEMMA InEntry ==
  ASSUME NEW e \in Nat, NEW b \in Nat
  PROVE  b \in EntryBlocks(e) <=> b \div EntryBits = e
BY Geometry, Position DEF EntryBlocks

(* A block is under the L2 bit its offset divides to.                       *)
LEMMA InRegion ==
  ASSUME NEW r \in Nat, NEW b \in Nat
  PROVE  b \in RegionOf(r) <=> b \div RegionBlocks = r
BY Geometry, Position DEF RegionOf

(* A range of offsets touches the positions from its first to its last.     *)
LEMMA PositionsTouched ==
  ASSUME NEW d \in Nat \ {0}, NEW lo \in Nat, NEW hi \in Nat, NEW b \in Nat,
         lo <= b, b < hi
  PROVE  b \div d \in (lo \div d)..((RoundUp(hi, d) \div d) - 1)
<1> DEFINE p == b \div d
           k == lo \div d
<1>1. p \in Nat /\ p * d <= b /\ b < p * d + d /\ p * d \in Nat BY Quotient
<1>2. k \in Nat /\ k * d <= lo /\ lo < k * d + d /\ k * d \in Nat BY Quotient
<1>3. PICK q \in Nat : RoundUp(hi, d) = q * d /\ RoundUp(hi, d) \div d = q /\ hi <= RoundUp(hi, d)
  BY RoundedUp
<1> HIDE DEF p, k
<1>4. p < q
  <2>1. q * d \in Nat BY Multiples
  <2>2. p * d < q * d BY <1>1, <1>3, <2>1
  <2> QED BY <1>1, <2>2, Multiples
<1>5. k <= p
  <2>1. (p + 1) * d = p * d + d /\ (p + 1) * d \in Nat BY <1>1, Multiples
  <2>2. k * d < (p + 1) * d BY <1>1, <1>2, <2>1
  <2>3. p + 1 \in Nat BY <1>1
  <2>4. k < p + 1 BY <1>2, <2>2, <2>3, Multiples
  <2> QED BY <1>1, <1>2, <2>4
<1>6. p \in k..(q - 1) BY <1>1, <1>2, <1>3, <1>4, <1>5
<1> QED BY <1>3, <1>6 DEF p, k

(* _mark_l1_on_l0() visits the entry of every block of its range.           *)
LEMMA InEntriesOf ==
  ASSUME NEW lo \in Nat, NEW hi \in Nat, NEW b \in Nat, lo <= b, b < hi
  PROVE  b \div EntryBits \in EntriesOf(lo, hi)
BY Geometry, PositionsTouched DEF EntriesOf

(* _mark_l2_free() and its kin visit the region of every block of the       *)
(* range.                                                                   *)
LEMMA InRegionsOf ==
  ASSUME NEW lo \in Nat, NEW hi \in Nat, NEW b \in Nat, lo <= b, b < hi
  PROVE  b \div RegionBlocks \in RegionsOf(lo, hi)
BY Geometry, PositionsTouched DEF RegionsOf

(* The regions cover the device, and a range of it touches only regions.    *)
LEMMA RegionCount ==
  /\ NumRegions \in Nat /\ NumRegions * RegionBlocks \in Nat
  /\ Size <= NumRegions * RegionBlocks
<1>1. PICK q \in Nat : /\ RoundUp(Size, RegionBlocks) = q * RegionBlocks
                       /\ RoundUp(Size, RegionBlocks) \div RegionBlocks = q
                       /\ Size <= RoundUp(Size, RegionBlocks)
  BY Geometry, RoundedUp
<1>2. NumRegions = q BY <1>1 DEF NumRegions
<1>3. q * RegionBlocks \in Nat BY Geometry
<1> QED BY <1>1, <1>2, <1>3

(* A range inside the device touches only regions the bitmap has.           *)
LEMMA RegionsOfDevice ==
  ASSUME NEW lo \in Nat, NEW hi \in Nat, hi <= Size
  PROVE  RegionsOf(lo, hi) \subseteq Regions
<1>0. RegionBlocks \in Nat \ {0} /\ Size \in Nat BY Geometry
<1>1. PICK q \in Nat : /\ RoundUp(hi, RegionBlocks) = q * RegionBlocks
                       /\ RoundUp(hi, RegionBlocks) \div RegionBlocks = q
                       /\ RoundUp(hi, RegionBlocks) < hi + RegionBlocks
  BY <1>0, RoundedUp
<1>2. NumRegions \in Nat /\ NumRegions * RegionBlocks \in Nat /\ Size <= NumRegions * RegionBlocks
  BY RegionCount
<1>3. q <= NumRegions
  <2>1. (NumRegions + 1) * RegionBlocks = NumRegions * RegionBlocks + RegionBlocks
    BY <1>0, <1>2, Multiples
  <2>2. q * RegionBlocks \in Nat BY <1>0
  <2>3. q * RegionBlocks < (NumRegions + 1) * RegionBlocks BY <1>0, <1>1, <1>2, <2>1, <2>2
  <2>4. NumRegions + 1 \in Nat BY <1>2
  <2>5. q < NumRegions + 1 BY <1>0, <2>3, <2>4, Multiples
  <2> QED BY <1>2, <2>5
<1>4. lo \div RegionBlocks \in Nat BY <1>0, Quotient
<1>5. ASSUME NEW r \in (lo \div RegionBlocks)..(q - 1) PROVE r \in 0..(NumRegions - 1)
  BY <1>2, <1>3, <1>4
<1> QED BY <1>1, <1>5 DEF RegionsOf, Regions

(* Every block has its entry and its region, and the entry is the region's. *)
LEMMA Place ==
  ASSUME NEW b \in Nat, b < Size
  PROVE  /\ b \div EntryBits \in Entries
         /\ b \div RegionBlocks \in Regions
         /\ b \div EntryBits \in RegionEnts(b \div RegionBlocks)
<1> DEFINE n == SLOTS * ENTRIES
           e == b \div EntryBits
           r == b \div RegionBlocks
<1>0. /\ EntryBits \in Nat \ {0} /\ RegionBlocks \in Nat \ {0} /\ n \in Nat \ {0}
      /\ RegionBlocks = EntryBits * n /\ SLOTS \in Nat \ {0} /\ ENTRIES \in Nat \ {0}
      /\ Size \in Nat
  BY Geometry
<1>1. e \in Nat /\ e * EntryBits <= b /\ b < e * EntryBits + EntryBits BY <1>0, Quotient
<1>2. r \in Nat /\ r * RegionBlocks <= b /\ b < r * RegionBlocks + RegionBlocks
  BY <1>0, Quotient
<1>3. NumRegions \in Nat /\ NumRegions * RegionBlocks \in Nat /\ Size <= NumRegions * RegionBlocks
  BY RegionCount
<1>4. ASSUME NEW k \in Nat
      PROVE  /\ k * n \in Nat /\ k * RegionBlocks = (k * n) * EntryBits
             /\ k * SLOTS * ENTRIES = k * n
  <2> HIDE DEF n
  <2>1. k * n \in Nat BY <1>0
  <2>2. k * RegionBlocks = (k * n) * EntryBits BY <1>0
  <2>3. k * SLOTS * ENTRIES = k * n BY <1>0 DEF n
  <2> QED BY <2>1, <2>2, <2>3
<1> HIDE DEF n, e, r
<1>5. r < NumRegions
  <2>1. r * RegionBlocks \in Nat BY <1>0, <1>2
  <2>2. r * RegionBlocks < NumRegions * RegionBlocks BY <1>0, <1>2, <1>3, <2>1
  <2> QED BY <1>0, <1>2, <1>3, <2>2, Multiples
<1>6. e < NumRegions * n
  <2>1. e * EntryBits \in Nat BY <1>0, <1>1
  <2>2. NumRegions * n \in Nat /\ NumRegions * RegionBlocks = (NumRegions * n) * EntryBits
    BY <1>3, <1>4
  <2>3. e * EntryBits < (NumRegions * n) * EntryBits BY <1>0, <1>1, <1>3, <2>1, <2>2
  <2> QED BY <1>0, <1>1, <2>2, <2>3, Multiples
<1>7. r * n <= e
  <2>1. r * n \in Nat /\ r * RegionBlocks = (r * n) * EntryBits BY <1>2, <1>4
  <2>2. (e + 1) * EntryBits = e * EntryBits + EntryBits /\ e + 1 \in Nat
    BY <1>0, <1>1, Multiples
  <2>3. (r * n) * EntryBits < (e + 1) * EntryBits
    <3>1. (r * n) * EntryBits \in Nat /\ e * EntryBits \in Nat
      BY <1>0, <1>1, <2>1, Multiples
    <3> QED BY <1>0, <1>1, <1>2, <2>1, <2>2, <3>1
  <2>4. r * n < e + 1 BY <1>0, <2>1, <2>2, <2>3, Multiples
  <2> QED BY <1>1, <2>1, <2>4
<1>8. e < (r + 1) * n
  <2>0. r + 1 \in Nat BY <1>2
  <2>1. (r + 1) * n \in Nat /\ (r + 1) * RegionBlocks = ((r + 1) * n) * EntryBits
    BY <2>0, <1>4
  <2>2. (r + 1) * RegionBlocks = r * RegionBlocks + RegionBlocks BY <1>0, <1>2, Multiples
  <2>3. e * EntryBits < ((r + 1) * n) * EntryBits
    <3>1. e * EntryBits \in Nat /\ r * RegionBlocks \in Nat BY <1>0, <1>1, <1>2, Multiples
    <3> QED BY <1>0, <1>1, <1>2, <2>1, <2>2, <3>1
  <2> QED BY <1>0, <1>1, <2>1, <2>3, Multiples
<1>9. r + 1 \in Nat BY <1>2
<1>10. /\ NumRegions * SLOTS * ENTRIES = NumRegions * n /\ NumRegions * n \in Nat
       /\ r * SLOTS * ENTRIES = r * n /\ r * n \in Nat
       /\ (r + 1) * SLOTS * ENTRIES = (r + 1) * n /\ (r + 1) * n \in Nat
  BY <1>2, <1>3, <1>4, <1>9
<1>11. e \in 0..(NumRegions * n - 1) BY <1>1, <1>6, <1>10
<1>12. e \in (r * n)..((r + 1) * n - 1) BY <1>1, <1>7, <1>8, <1>10
<1>13. r \in 0..(NumRegions - 1) BY <1>2, <1>3, <1>5
<1>14. e \in Entries BY <1>10, <1>11 DEF Entries
<1>15. r \in Regions BY <1>13 DEF Regions
<1>16. e \in RegionEnts(r) BY <1>10, <1>12 DEF RegionEnts
<1> QED BY <1>14, <1>15, <1>16 DEF e, r

(* A non-empty range has a block in each region it is said to touch.        *)
LEMMA RegionsTouched ==
  ASSUME NEW lo \in Nat, NEW hi \in Nat, lo < hi, NEW r \in RegionsOf(lo, hi)
  PROVE  \E b \in lo..(hi - 1) : b \div RegionBlocks = r
<1>0. RegionBlocks \in Nat \ {0} BY Geometry
<1> DEFINE k == lo \div RegionBlocks
<1>1. k \in Nat /\ k * RegionBlocks <= lo /\ lo < k * RegionBlocks + RegionBlocks
  BY <1>0, Quotient
<1>2. PICK q \in Nat : /\ RoundUp(hi, RegionBlocks) = q * RegionBlocks
                       /\ RoundUp(hi, RegionBlocks) \div RegionBlocks = q
                       /\ RoundUp(hi, RegionBlocks) < hi + RegionBlocks
  BY <1>0, RoundedUp
<1>3. r \in k..(q - 1) BY <1>2 DEF RegionsOf
<1> HIDE DEF k
<1>4. CASE r = k
  <2>1. lo \in lo..(hi - 1) OBVIOUS
  <2> QED BY <1>4, <2>1 DEF k
<1>5. CASE r # k
  <2>1. r \in Nat /\ k + 1 <= r /\ r + 1 <= q /\ k + 1 \in Nat /\ r + 1 \in Nat
    BY <1>1, <1>2, <1>3, <1>5
  <2>2. (k + 1) * RegionBlocks <= r * RegionBlocks BY <1>0, <2>1, Multiples
  <2>3. (k + 1) * RegionBlocks = k * RegionBlocks + RegionBlocks BY <1>0, <1>1, Multiples
  <2>4. (r + 1) * RegionBlocks <= q * RegionBlocks BY <1>0, <1>2, <2>1, Multiples
  <2>5. (r + 1) * RegionBlocks = r * RegionBlocks + RegionBlocks BY <1>0, <2>1, Multiples
  <2>6. /\ r * RegionBlocks \in Nat /\ k * RegionBlocks \in Nat /\ q * RegionBlocks \in Nat
    BY <1>0, <1>1, <1>2, <2>1, Multiples
  <2> DEFINE b == r * RegionBlocks
  <2>7. b \in lo..(hi - 1) BY <1>0, <1>1, <1>2, <2>2, <2>3, <2>4, <2>5, <2>6
  <2>8. b <= b /\ b < b + RegionBlocks BY <1>0, <2>6
  <2>9. b \div RegionBlocks = r BY <1>0, <2>1, <2>6, <2>8, QuotientUnique
  <2> QED BY <2>7, <2>9
<1> QED BY <1>4, <1>5

(* A region that a range touches, and that is not touched by what is left   *)
(* and right of it, lies inside the range.                                  *)
LEMMA RegionInside ==
  ASSUME NEW lo \in Nat, NEW start \in Nat, NEW end \in Nat, NEW hi \in Nat,
         lo <= start, start < end, end <= hi, NEW c \in start..(end - 1),
         c \div RegionBlocks \notin RegionsOf(lo, start),
         c \div RegionBlocks \notin RegionsOf(end, hi),
         NEW b \in Nat, b \div RegionBlocks = c \div RegionBlocks
  PROVE  b \in start..(end - 1)
<1> DEFINE r == c \div RegionBlocks
<1>0. RegionBlocks \in Nat \ {0} /\ c \in Nat BY Geometry
<1>1. r \in Nat /\ r * RegionBlocks <= c /\ r * RegionBlocks \in Nat BY <1>0, Quotient
<1>2. r * RegionBlocks <= b /\ b < r * RegionBlocks + RegionBlocks
  <2>1. (b \div RegionBlocks) * RegionBlocks <= b
        /\ b < (b \div RegionBlocks) * RegionBlocks + RegionBlocks
    BY <1>0, Quotient
  <2> QED BY <2>1
<1>3. ASSUME NEW x \in Nat, NEW y \in Nat, NEW z \in Nat, x <= z, z \div RegionBlocks = r,
             r * RegionBlocks < y
      PROVE  r \in RegionsOf(x, y)
  <2>1. PICK q \in Nat : /\ RoundUp(y, RegionBlocks) = q * RegionBlocks
                         /\ RoundUp(y, RegionBlocks) \div RegionBlocks = q
                         /\ y <= RoundUp(y, RegionBlocks)
    BY <1>0, RoundedUp
  <2>2. q * RegionBlocks \in Nat BY <1>0, <2>1
  <2>3. r * RegionBlocks < q * RegionBlocks BY <1>1, <1>3, <2>1, <2>2
  <2>4. r < q BY <1>0, <1>1, <2>3, Multiples
  <2>5. z < z + 1 /\ z + 1 \in Nat OBVIOUS
  <2>6. z \div RegionBlocks
          \in (x \div RegionBlocks)..((RoundUp(z + 1, RegionBlocks) \div RegionBlocks) - 1)
    BY <1>0, <1>3, <2>5, PositionsTouched
  <2>7. x \div RegionBlocks \in Nat BY <1>0, Quotient
  <2>8. x \div RegionBlocks <= r BY <1>3, <2>6, <2>7
  <2> HIDE DEF r
  <2>9. r \in (x \div RegionBlocks)..(q - 1) BY <1>1, <2>4, <2>7, <2>8
  <2> QED BY <2>1, <2>9 DEF RegionsOf
<1>4. ~(b < start)
  <2> SUFFICES ASSUME b < start PROVE FALSE OBVIOUS
  <2>1. r * RegionBlocks < start BY <1>1, <1>2
  <2>2. lo <= c BY <1>0
  <2> QED BY <1>0, <1>3, <2>1, <2>2
<1>5. ~(end <= b)
  <2> SUFFICES ASSUME end <= b PROVE FALSE OBVIOUS
  <2>1. r * RegionBlocks < hi BY <1>0, <1>1
  <2> QED BY <1>3, <2>1
<1> QED BY <1>4, <1>5

-----------------------------------------------------------------------------
(* Runs of free blocks                                                      *)

(* claim_free_to_left() takes an interval that ends at pos and could not be *)
(* longer.                                                                  *)
LEMMA LeftRunIs ==
  ASSUME NEW l0 \in SUBSET Blocks, NEW pos \in 1..Size
  PROVE  LET run == LeftRun(l0, pos)
             lo  == pos - Cardinality(run)
         IN /\ lo \in 1..pos
            /\ run = lo..(pos - 1)
            /\ lo - 1 \notin l0
<1> DEFINE run == LeftRun(l0, pos)
<1>0. Size \in Nat BY Geometry
<1>1. \A b \in l0 : b \in 1..(Size - 1) BY DEF Blocks
<1>2. ASSUME NEW lo \in 1..pos, run = lo..(pos - 1), lo - 1 \notin l0
      PROVE  lo = pos - Cardinality(run)
  <2>1. Cardinality(lo..(pos - 1)) = pos - lo BY <1>0, IntervalSize
  <2> QED BY <1>0, <1>2, <2>1
<1>3. \E lo \in 1..pos : run = lo..(pos - 1) /\ lo - 1 \notin l0
  <2>1. CASE run = {}
    <3>1. pos - 1 \notin l0
      <4> SUFFICES ASSUME pos - 1 \in l0 PROVE FALSE OBVIOUS
      <4>1. pos - 1 < pos BY <1>0
      <4>2. ((pos - 1)..(pos - 1)) \subseteq l0 BY <1>0
      <4>3. pos - 1 \in run BY <4>1, <4>2 DEF LeftRun
      <4> QED BY <4>3, <2>1
    <3>2. pos..(pos - 1) = {} BY <1>0
    <3> QED BY <2>1, <3>1, <3>2, <1>0
  <2>2. CASE run # {}
    <3>1. run \in SUBSET Nat BY <1>1 DEF LeftRun
    <3> HIDE DEF run
    <3>2. PICK a \in run : \A b \in run : a <= b BY <2>2, <3>1, LeastElement
    <3> USE DEF run
    <3>3. a \in l0 /\ a < pos /\ (a..(pos - 1)) \subseteq l0 BY <3>2 DEF LeftRun
    <3>4. a \in 1..pos BY <1>0, <1>1, <3>3
    <3>5. ASSUME NEW b \in a..(pos - 1) PROVE b \in run
      <4>1. b \in l0 /\ b < pos BY <1>0, <3>3, <3>4
      <4>2. (b..(pos - 1)) \subseteq l0 BY <1>0, <3>3, <3>4
      <4> QED BY <4>1, <4>2 DEF LeftRun
    <3>6. ASSUME NEW b \in run PROVE b \in a..(pos - 1)
      <4>1. b \in l0 /\ b < pos BY DEF LeftRun
      <4>2. a <= b BY <3>2
      <4> QED BY <1>0, <1>1, <3>4, <4>1, <4>2
    <3>7. a - 1 \notin l0
      <4> SUFFICES ASSUME a - 1 \in l0 PROVE FALSE OBVIOUS
      <4>1. a - 1 < pos BY <1>0, <3>4
      <4>2. ((a - 1)..(pos - 1)) \subseteq l0
        <5>1. ASSUME NEW x \in (a - 1)..(pos - 1) PROVE x = a - 1 \/ x \in a..(pos - 1)
          BY <1>0, <3>4
        <5> QED BY <5>1, <3>3
      <4>3. a - 1 \in run BY <4>1, <4>2 DEF LeftRun
      <4>4. a <= a - 1 BY <3>2, <4>3
      <4> QED BY <1>0, <3>4, <4>4
    <3>8. run = a..(pos - 1) BY <3>5, <3>6
    <3> QED BY <3>4, <3>7, <3>8
  <2> QED BY <2>1, <2>2
<1> HIDE DEF run
<1>4. PICK lo \in 1..pos : run = lo..(pos - 1) /\ lo - 1 \notin l0 BY <1>3
<1>5. lo = pos - Cardinality(run) BY <1>2, <1>4
<1> QED BY <1>4, <1>5 DEF run

(* claim_free_to_right() takes an interval that starts at pos.              *)
LEMMA RightRunIs ==
  ASSUME NEW l0 \in SUBSET Blocks, NEW pos \in 1..Size
  PROVE  LET run == RightRun(l0, pos)
             hi  == pos + Cardinality(run)
         IN /\ hi \in pos..Size
            /\ run = pos..(hi - 1)
            /\ hi \notin l0
<1> DEFINE run == RightRun(l0, pos)
<1>0. Size \in Nat BY Geometry
<1>1. \A b \in l0 : b \in 1..(Size - 1) BY DEF Blocks
<1>2. ASSUME NEW hi \in pos..Size, run = pos..(hi - 1)
      PROVE  hi = pos + Cardinality(run)
  <2>1. Cardinality(pos..(hi - 1)) = hi - pos BY <1>0, IntervalSize
  <2> QED BY <1>0, <1>2, <2>1
<1> DEFINE T == {x \in pos..Size : x \notin l0}
<1>3. Size \in T
  <2>1. Size \notin l0 BY <1>0, <1>1
  <2> QED BY <1>0, <2>1
<1>4. T \in SUBSET Nat BY <1>0
<1>5. PICK hi \in T : \A x \in T : hi <= x
  <2> HIDE DEF T
  <2> QED BY <1>3, <1>4, LeastElement
<1>6. hi \in pos..Size /\ hi \notin l0 BY <1>5
<1>7. ASSUME NEW b \in pos..(hi - 1) PROVE b \in l0
  <2> SUFFICES ASSUME b \notin l0 PROVE FALSE OBVIOUS
  <2>1. b \in T BY <1>0, <1>6
  <2>2. hi <= b BY <1>5, <2>1
  <2> QED BY <1>0, <1>6, <2>2
<1>8. ASSUME NEW b \in pos..(hi - 1) PROVE b \in run
  <2>1. b \in l0 /\ b >= pos BY <1>0, <1>6, <1>7
  <2>2. (pos..b) \subseteq l0
    <3>1. ASSUME NEW x \in pos..b PROVE x \in pos..(hi - 1) BY <1>0, <1>6
    <3> QED BY <3>1, <1>7
  <2> QED BY <2>1, <2>2 DEF RightRun
<1>9. ASSUME NEW b \in run PROVE b \in pos..(hi - 1)
  <2>1. b \in l0 /\ b >= pos /\ (pos..b) \subseteq l0 BY DEF RightRun
  <2>2. b \in Nat BY <1>0, <1>1, <2>1
  <2>3. ~(hi <= b)
    <3> SUFFICES ASSUME hi <= b PROVE FALSE OBVIOUS
    <3>1. hi \in pos..b BY <1>0, <1>6, <2>2
    <3> QED BY <1>6, <2>1, <3>1
  <2> QED BY <1>0, <1>6, <2>1, <2>2, <2>3
<1>10. run = pos..(hi - 1) BY <1>8, <1>9
<1> HIDE DEF run, T
<1>11. hi = pos + Cardinality(run) BY <1>2, <1>6, <1>10
<1> QED BY <1>6, <1>10, <1>11 DEF run

(* The run _allocate_l0() emits from b on is the free blocks up to the      *)
(* first one missing.                                                       *)
LEMMA RunIs ==
  ASSUME NEW S \in SUBSET Blocks, NEW b \in S
  PROVE  /\ RunLength(S, b) \in Nat \ {0}
         /\ Span(b, RunLength(S, b)) = RightRun(S, b)
<1> DEFINE hi == b + Cardinality(RightRun(S, b))
           K  == {k \in 1..Cardinality(S) : Span(b, k) \subseteq S}
<1>0. Size \in Nat /\ b \in 1..Size /\ b \in Nat BY Geometry DEF Blocks
<1>1. hi \in b..Size /\ RightRun(S, b) = b..(hi - 1) /\ hi \notin S BY <1>0, RightRunIs
<1> DEFINE n == Cardinality(RightRun(S, b))
<1>2. IsFiniteSet(S) /\ Cardinality(S) \in Nat BY BlocksFinite
<1>3. n \in Nat /\ n <= Cardinality(S)
  <2>1. RightRun(S, b) \in SUBSET S BY DEF RightRun
  <2>2. IsFiniteSet(RightRun(S, b)) /\ Cardinality(RightRun(S, b)) <= Cardinality(S)
    BY <1>2, <2>1, FS_Subset
  <2>3. Cardinality(RightRun(S, b)) \in Nat BY <2>2, FS_CardinalityType
  <2> QED BY <2>2, <2>3
<1>4. hi = b + n OBVIOUS
<1> HIDE DEF hi, n
<1>5. n # 0
  <2>1. hi # b BY <1>1
  <2> QED BY <1>0, <1>3, <1>4, <2>1
<1>6. n \in K
  <2>1. Span(b, n) = b..(hi - 1) BY <1>0, <1>3, <1>4 DEF Span
  <2>2. Span(b, n) \subseteq S BY <1>1, <2>1 DEF RightRun
  <2>3. n \in 1..Cardinality(S) BY <1>2, <1>3, <1>5
  <2> QED BY <2>2, <2>3
<1>7. ASSUME NEW k \in K PROVE k <= n
  <2> SUFFICES ASSUME ~(k <= n) PROVE FALSE OBVIOUS
  <2>1. k \in Nat /\ Span(b, k) \subseteq S BY <1>2
  <2>2. hi \in Span(b, k) BY <1>0, <1>3, <1>4, <2>1 DEF Span
  <2> QED BY <1>1, <2>1, <2>2
<1>8. K \in SUBSET (0..Cardinality(S)) /\ K # {}
  <2>1. K \subseteq 0..Cardinality(S) BY <1>2
  <2> HIDE DEF K
  <2> QED BY <1>6, <2>1
<1>a. \A k \in K : k \in Nat BY <1>2
<1> HIDE DEF K
<1>9. Max(K) \in K /\ \A y \in K : y <= Max(K) BY <1>2, <1>8, MaxIn
<1>10. Max(K) \in Nat BY <1>a, <1>9
<1>11. Max(K) = n BY <1>3, <1>6, <1>7, <1>9, <1>10
<1>12. RunLength(S, b) = n BY <1>11 DEF RunLength, K
<1>13. Span(b, n) = b..(hi - 1) BY <1>0, <1>3, <1>4 DEF Span
<1> QED BY <1>1, <1>3, <1>5, <1>12, <1>13

-----------------------------------------------------------------------------
(* The tree of free segments                                                *)

Segments == { g \in Blocks \X (2..Size) : g[1] < g[2] }
Apart(g, h) == g[2] < h[1] \/ h[2] < g[1]
TreeType == [segs : SUBSET Segments, numFree : Nat, lbas : [Aligns -> 0..Size]]
L1States == {"FULL", "PARTIAL", "FREE"}
MapType  == [l0 : SUBSET Blocks, l1 : [Entries -> L1States], l2 : SUBSET Regions,
             available : Nat]

(* What an AvlAllocator is between two calls: segments that neither overlap *)
(* nor touch, and an exact num_free_.                                       *)
Spread(segs) == \A g, h \in segs : g # h => Apart(g, h)
TreeOK(a) ==
  /\ a \in TreeType
  /\ Spread(a.segs)
  /\ a.numFree = Cardinality(BlocksOf(a.segs))

(* What a BitmapAllocator is between two calls: an exact available, no free *)
(* block in an entry that says full, and no entry that says free over the   *)
(* end of the device.                                                       *)
Honest(m) ==
  \A e \in Entries : /\ m.l1[e] = "FULL" => EntryBlocks(e) \cap m.l0 = {}
                     /\ m.l1[e] = "FREE" => EntryBlocks(e) \subseteq Blocks
MapOK(m) ==
  /\ m \in MapType
  /\ m.available = Cardinality(m.l0)
  /\ Honest(m)

(* Segment g neither overlaps nor touches a free block of the bitmap.       *)
Clear(g, l0) == \A b \in l0 : b < g[1] - 1 \/ b > g[2]

SpaceType == [avl : TreeType, bmp : MapType]
SpaceOK(s) ==
  /\ s \in SpaceType
  /\ TreeOK(s.avl) /\ MapOK(s.bmp)
  /\ \A g \in s.avl.segs : Clear(g, s.bmp.l0)
  /\ Limited => Cardinality(s.avl.segs) <= CAP

(* What a segment of the tree is: a start and a later end inside the        *)
(* device.                                                                  *)
LEMMA SegmentIs ==
  ASSUME NEW g
  PROVE  g \in Segments <=>
           /\ g = <<g[1], g[2]>> /\ g[1] \in Nat /\ g[2] \in Nat
           /\ 1 <= g[1] /\ g[1] < g[2] /\ g[2] <= Size
BY Geometry DEF Segments, Blocks

(* A start and a later end inside the device make a segment.                *)
LEMMA SegmentMade ==
  ASSUME NEW a \in Nat, NEW b \in Nat, 1 <= a, a < b, b <= Size
  PROVE  /\ <<a, b>> \in Segments
         /\ <<a, b>>[1] = a /\ <<a, b>>[2] = b
BY Geometry DEF Segments, Blocks

(* A block is in the tree when it is in one of its segments.                *)
LEMMA InBlocksOf ==
  ASSUME NEW segs, NEW b
  PROVE  b \in BlocksOf(segs) <=> \E g \in segs : b \in g[1]..(g[2] - 1)
BY DEF BlocksOf

(* Segments hold blocks of the device only.                                 *)
LEMMA SegmentBlocks ==
  ASSUME NEW segs \in SUBSET Segments
  PROVE  BlocksOf(segs) \subseteq Blocks
<1>1. ASSUME NEW b \in BlocksOf(segs) PROVE b \in Blocks
  <2>1. PICK g \in segs : b \in g[1]..(g[2] - 1) BY InBlocksOf
  <2>2. g[1] \in Nat /\ g[2] \in Nat /\ 1 <= g[1] /\ g[1] < g[2] /\ g[2] <= Size
    BY SegmentIs
  <2> QED BY <2>1, <2>2, Geometry DEF Blocks
<1> QED BY <1>1

(* Segments of a tree are finitely many: each begins at its own block.      *)
LEMMA SegmentsFinite ==
  ASSUME NEW segs \in SUBSET Segments
  PROVE  IsFiniteSet(segs) /\ Cardinality(segs) \in Nat
<1>0. Size \in Nat BY Geometry
<1>1. IsFiniteSet(1..(Size - 1)) /\ IsFiniteSet(2..Size) BY <1>0, FS_Interval
<1>2. IsFiniteSet((1..(Size - 1)) \X (2..Size)) BY <1>1, FS_Product
<1>3. segs \in SUBSET ((1..(Size - 1)) \X (2..Size)) BY DEF Segments, Blocks
<1>4. IsFiniteSet(segs) BY <1>2, <1>3, FS_Subset
<1> QED BY <1>4, FS_CardinalityType

(* Segments of a tree without a common block are apart from the rest.       *)
LEMMA OnlyInOne ==
  ASSUME NEW segs \in SUBSET Segments, Spread(segs), NEW g \in segs
  PROVE  /\ BlocksOf(segs \ {g}) = BlocksOf(segs) \ (g[1]..(g[2] - 1))
         /\ (g[1]..(g[2] - 1)) \subseteq BlocksOf(segs)
<1>0. g[1] \in Nat /\ g[2] \in Nat /\ g[1] < g[2] BY SegmentIs
<1>1. ASSUME NEW b \in BlocksOf(segs \ {g}) PROVE b \in BlocksOf(segs) \ (g[1]..(g[2] - 1))
  <2>1. PICK h \in segs \ {g} : b \in h[1]..(h[2] - 1) BY InBlocksOf
  <2>2. Apart(g, h) BY <2>1 DEF Spread
  <2>3. h[1] \in Nat /\ h[2] \in Nat BY <2>1, SegmentIs
  <2>4. b \notin g[1]..(g[2] - 1) BY <1>0, <2>1, <2>2, <2>3 DEF Apart
  <2>5. b \in BlocksOf(segs) BY <2>1, InBlocksOf
  <2> QED BY <2>4, <2>5
<1>2. ASSUME NEW b \in BlocksOf(segs) \ (g[1]..(g[2] - 1)) PROVE b \in BlocksOf(segs \ {g})
  <2>1. PICK h \in segs : b \in h[1]..(h[2] - 1) BY InBlocksOf
  <2>2. h # g BY <2>1
  <2> QED BY <2>1, <2>2, InBlocksOf
<1>3. (g[1]..(g[2] - 1)) \subseteq BlocksOf(segs) BY InBlocksOf
<1> QED BY <1>1, <1>2, <1>3

(* A segment that joins the tree brings its blocks.                         *)
LEMMA OneMore ==
  ASSUME NEW segs, NEW g
  PROVE  BlocksOf(segs \cup {g}) = BlocksOf(segs) \cup (g[1]..(g[2] - 1))
<1>1. ASSUME NEW b PROVE b \in BlocksOf(segs \cup {g})
                          <=> b \in BlocksOf(segs) \/ b \in g[1]..(g[2] - 1)
  BY InBlocksOf
<1> QED BY <1>1

(* The record operations of the tree, field by field.                       *)
LEMMA RmFields ==
  ASSUME NEW s \in SpaceType, NEW g
  PROVE  /\ Rm(s, g).avl.segs = s.avl.segs \ {g}
         /\ Rm(s, g).avl.numFree = (s.avl.numFree - SegLen(g)) % WORD
         /\ Rm(s, g).avl.lbas = s.avl.lbas
         /\ Rm(s, g).bmp = s.bmp
         /\ Rm(s, g).avl \in TreeType => Rm(s, g) \in SpaceType
         /\ Rm(s, g).avl = [segs |-> Rm(s, g).avl.segs, numFree |-> Rm(s, g).avl.numFree,
                            lbas |-> Rm(s, g).avl.lbas]
<1>1. Rm(s, g).avl.segs = s.avl.segs \ {g} BY DEF Rm, SpaceType, TreeType
<1>2. Rm(s, g).avl.numFree = (s.avl.numFree - SegLen(g)) % WORD
  BY DEF Rm, SpaceType, TreeType
<1>3. Rm(s, g).avl.lbas = s.avl.lbas BY DEF Rm, SpaceType, TreeType
<1>4. Rm(s, g).bmp = s.bmp BY DEF Rm, SpaceType
<1>5. ASSUME Rm(s, g).avl \in TreeType PROVE Rm(s, g) \in SpaceType
  BY <1>5 DEF Rm, SpaceType
<1>6. Rm(s, g).avl = [segs |-> Rm(s, g).avl.segs, numFree |-> Rm(s, g).avl.numFree,
                      lbas |-> Rm(s, g).avl.lbas]
  BY DEF Rm, SpaceType, TreeType
<1> QED BY <1>1, <1>2, <1>3, <1>4, <1>5, <1>6

(* Segments, a count and cursors make a tree.                               *)
LEMMA TreeFields ==
  ASSUME NEW segs \in SUBSET Segments, NEW n \in Nat, NEW l \in [Aligns -> 0..Size]
  PROVE  [segs |-> segs, numFree |-> n, lbas |-> l] \in TreeType
BY DEF TreeType

(* The parts of the trees and the bitmap have their types.                  *)
LEMMA SpaceFields ==
  ASSUME NEW s \in SpaceType
  PROVE  /\ s.avl \in TreeType /\ s.bmp \in MapType
         /\ s.avl.segs \in SUBSET Segments /\ s.avl.numFree \in Nat
         /\ s.avl.lbas \in [Aligns -> 0..Size]
         /\ s.bmp.l0 \in SUBSET Blocks /\ s.bmp.l1 \in [Entries -> L1States]
         /\ s.bmp.l2 \in SUBSET Regions /\ s.bmp.available \in Nat
BY DEF SpaceType, TreeType, MapType

(* The length of a segment is the number of its blocks, none of them        *)
(* outside the device.                                                      *)
LEMMA SegmentSize ==
  ASSUME NEW g \in Segments
  PROVE  /\ IsFiniteSet(g[1]..(g[2] - 1)) /\ SegLen(g) \in Nat \ {0} /\ SegLen(g) <= Size
         /\ Cardinality(g[1]..(g[2] - 1)) = SegLen(g)
         /\ (g[1]..(g[2] - 1)) \subseteq Blocks
<1>1. g[1] \in Nat /\ g[2] \in Nat /\ 1 <= g[1] /\ g[1] < g[2] /\ g[2] <= Size /\ Size \in Nat
  BY SegmentIs, Geometry
<1>2. IsFiniteSet(g[1]..(g[2] - 1)) /\ Cardinality(g[1]..(g[2] - 1)) = g[2] - g[1]
  BY <1>1, IntervalSize
<1>3. (g[1]..(g[2] - 1)) \subseteq Blocks BY <1>1 DEF Blocks
<1> QED BY <1>1, <1>2, <1>3 DEF SegLen

(* _range_size_tree_rm(): one segment leaves, the rest is as it was.        *)
LEMMA RmOK ==
  ASSUME NEW s, SpaceOK(s), NEW g \in s.avl.segs
  PROVE  /\ SpaceOK(Rm(s, g))
         /\ Rm(s, g).bmp = s.bmp
         /\ Rm(s, g).avl.segs = s.avl.segs \ {g}
         /\ Rm(s, g).avl.lbas = s.avl.lbas
         /\ BlocksOf(Rm(s, g).avl.segs) = BlocksOf(s.avl.segs) \ (g[1]..(g[2] - 1))
         /\ Limited => Cardinality(Rm(s, g).avl.segs) < CAP
<1> DEFINE t == Rm(s, g)
<1>0. s \in SpaceType /\ Spread(s.avl.segs) /\ s.avl.numFree = Cardinality(BlocksOf(s.avl.segs))
  BY DEF SpaceOK, TreeOK
<1>1. /\ t.avl.segs = s.avl.segs \ {g} /\ t.avl.lbas = s.avl.lbas /\ t.bmp = s.bmp
      /\ t.avl.numFree = (s.avl.numFree - SegLen(g)) % WORD
      /\ t.avl \in TreeType => t \in SpaceType
      /\ t.avl = [segs |-> t.avl.segs, numFree |-> t.avl.numFree, lbas |-> t.avl.lbas]
  BY <1>0, RmFields
<1> HIDE DEF t
<1>2. s.avl.segs \in SUBSET Segments /\ s.avl.lbas \in [Aligns -> 0..Size] /\ s.bmp \in MapType
  BY <1>0, SpaceFields
<1>3. /\ BlocksOf(s.avl.segs \ {g}) = BlocksOf(s.avl.segs) \ (g[1]..(g[2] - 1))
      /\ (g[1]..(g[2] - 1)) \subseteq BlocksOf(s.avl.segs)
  BY <1>0, <1>2, OnlyInOne
<1>4. /\ IsFiniteSet(BlocksOf(s.avl.segs)) /\ Cardinality(BlocksOf(s.avl.segs)) \in Nat
      /\ Cardinality(BlocksOf(s.avl.segs)) < WORD
  BY <1>2, SegmentBlocks, BlocksFinite
<1>5. g \in Segments BY <1>2
<1>6. SegLen(g) \in Nat \ {0} /\ Cardinality(g[1]..(g[2] - 1)) = SegLen(g)
  BY <1>5, SegmentSize
<1>7. /\ Cardinality(BlocksOf(t.avl.segs)) = Cardinality(BlocksOf(s.avl.segs)) - SegLen(g)
      /\ IsFiniteSet(BlocksOf(t.avl.segs))
  <2>1. /\ IsFiniteSet(BlocksOf(s.avl.segs) \ (g[1]..(g[2] - 1)))
        /\ Cardinality(BlocksOf(s.avl.segs) \ (g[1]..(g[2] - 1)))
             = Cardinality(BlocksOf(s.avl.segs)) - Cardinality(g[1]..(g[2] - 1))
    BY <1>3, <1>4, RestSize
  <2> QED BY <1>1, <1>3, <1>6, <2>1
<1>8. Cardinality(BlocksOf(t.avl.segs)) \in Nat BY <1>7, FS_CardinalityType
<1>9. t.avl.numFree = Cardinality(BlocksOf(t.avl.segs))
  <2>1. s.avl.numFree - SegLen(g) = Cardinality(BlocksOf(t.avl.segs)) BY <1>0, <1>7
  <2>2. \A x, y, z \in Nat : x = y - z /\ y < WORD => x < WORD BY Geometry
  <2>3. Cardinality(BlocksOf(t.avl.segs)) < WORD BY <1>4, <1>6, <1>7, <1>8, <2>2
  <2> QED BY <1>1, <1>8, <2>1, <2>3, InWord
<1>10. t.avl \in TreeType
  <2>1. t.avl.segs \in SUBSET Segments BY <1>1, <1>2
  <2>2. t.avl.numFree \in Nat BY <1>8, <1>9
  <2>3. t.avl.lbas \in [Aligns -> 0..Size] BY <1>1, <1>2
  <2>4. [segs |-> t.avl.segs, numFree |-> t.avl.numFree, lbas |-> t.avl.lbas] \in TreeType
    BY <2>1, <2>2, <2>3, TreeFields
  <2> QED BY <1>1, <2>4
<1>11. t \in SpaceType BY <1>1, <1>10
<1>12. Spread(t.avl.segs) BY <1>0, <1>1 DEF Spread
<1>13. TreeOK(t.avl) BY <1>9, <1>10, <1>12 DEF TreeOK
<1>14. MapOK(t.bmp) BY <1>1 DEF SpaceOK
<1>15. \A h \in t.avl.segs : Clear(h, t.bmp.l0) BY <1>1 DEF SpaceOK
<1>16. Limited => Cardinality(t.avl.segs) < CAP
  <2>1. IsFiniteSet(s.avl.segs) /\ Cardinality(s.avl.segs) \in Nat BY <1>2, SegmentsFinite
  <2>2. Cardinality(s.avl.segs \ {g}) = Cardinality(s.avl.segs) - 1
    BY <2>1, FS_RemoveElement
  <2>3. Limited => Cardinality(s.avl.segs) <= CAP BY DEF SpaceOK
  <2> QED BY <1>1, <2>1, <2>2, <2>3, Geometry
<1>17. Limited => Cardinality(t.avl.segs) <= CAP
  <2>1. Cardinality(t.avl.segs) \in Nat BY <1>1, <1>2, SegmentsFinite
  <2> QED BY <1>16, <2>1, Geometry
<1>18. SpaceOK(t) BY <1>11, <1>13, <1>14, <1>15, <1>17 DEF SpaceOK
<1> QED BY <1>1, <1>3, <1>16, <1>18 DEF t

-----------------------------------------------------------------------------
(* Marking in the bitmap                                                    *)

(* Free blocks in regions whose L2 bit is clear: the scan never finds them. *)
Unseen(m) == { b \in m.l0 : b \div RegionBlocks \notin m.l2 }

(* Every L1 entry covers a block.                                           *)
LEMMA EntryNotEmpty ==
  ASSUME NEW e \in Entries
  PROVE  e \in Nat /\ e * EntryBits \in EntryBlocks(e)
<1>0. EntryBits \in Nat \ {0} BY Geometry
<1>1. e \in Nat
  <2>1. NumRegions * SLOTS * ENTRIES \in Int BY RegionCount, Geometry
  <2> QED BY <2>1 DEF Entries
<1>2. e * EntryBits \in Nat /\ (e + 1) * EntryBits = e * EntryBits + EntryBits
  BY <1>0, <1>1, Multiples
<1> QED BY <1>0, <1>1, <1>2 DEF EntryBlocks

(* _is_empty_l0() and its kin tell an entry's state from its slots.         *)
LEMMA L1StateIs ==
  ASSUME NEW l0, NEW e \in Entries
  PROVE  /\ L1State(l0, e) \in L1States
         /\ L1State(l0, e) = "FULL" <=> EntryBlocks(e) \cap l0 = {}
         /\ L1State(l0, e) = "FREE" <=> EntryBlocks(e) \subseteq l0
<1>1. ~(EntryBlocks(e) \cap l0 = {} /\ EntryBlocks(e) \subseteq l0) BY EntryNotEmpty
<1>2. CASE EntryBlocks(e) \cap l0 = {}
  <2>1. L1State(l0, e) = "FULL" BY <1>1, <1>2 DEF L1State
  <2> QED BY <1>1, <1>2, <2>1 DEF L1States
<1>3. CASE EntryBlocks(e) \subseteq l0
  <2>1. L1State(l0, e) = "FREE" BY <1>1, <1>3 DEF L1State
  <2> QED BY <1>1, <1>3, <2>1 DEF L1States
<1>4. CASE ~(EntryBlocks(e) \cap l0 = {}) /\ ~(EntryBlocks(e) \subseteq l0)
  <2>1. L1State(l0, e) = "PARTIAL" BY <1>4 DEF L1State
  <2> QED BY <1>4, <2>1 DEF L1States
<1> QED BY <1>2, <1>3, <1>4

Updated(m, l0, E) == [e \in Entries |-> IF e \in E THEN L1State(l0, e) ELSE m.l1[e]]
CoveredBy(l0, m, E) == \A b \in l0 : b \in m.l0 \/ b \div EntryBits \in E

(* Entries brought up to date stay honest if every block that became free   *)
(* lies in one of them.                                                     *)
LEMMA Remarked ==
  ASSUME NEW m \in MapType, Honest(m), NEW l0 \in SUBSET Blocks, NEW E, NEW n,
         CoveredBy(l0, m, E), n.l0 = l0, n.l1 = Updated(m, l0, E)
  PROVE  n.l1 \in [Entries -> L1States] /\ Honest(n)
<1>0. m.l1 \in [Entries -> L1States] BY DEF MapType
<1>1. n.l1 \in [Entries -> L1States] BY <1>0, L1StateIs DEF Updated
<1>2. ASSUME NEW e \in Entries
      PROVE  /\ n.l1[e] = "FULL" => EntryBlocks(e) \cap n.l0 = {}
             /\ n.l1[e] = "FREE" => EntryBlocks(e) \subseteq Blocks
  <2>1. CASE e \in E
    <3>1. n.l1[e] = L1State(l0, e) BY <2>1 DEF Updated
    <3> QED BY <3>1, L1StateIs
  <2>2. CASE e \notin E
    <3>1. n.l1[e] = m.l1[e] BY <2>2 DEF Updated
    <3>2. ASSUME NEW b \in EntryBlocks(e) \cap l0 PROVE b \in m.l0
      <4>1. e \in Nat BY EntryNotEmpty
      <4>2. b \in Blocks OBVIOUS
      <4>2a. b \in Nat BY <4>2, BlockIs
      <4>3. b \div EntryBits = e BY <4>1, <4>2a, InEntry
      <4> QED BY <2>2, <4>3 DEF CoveredBy
    <3> QED BY <3>1, <3>2 DEF Honest
  <2> QED BY <2>1, <2>2
<1> QED BY <1>1, <1>2 DEF Honest

(* A bitmap is given by its four fields.                                    *)
LEMMA MapRecord ==
  ASSUME NEW n, DOMAIN n = {"l0", "l1", "l2", "available"}, n = [x \in DOMAIN n |-> n[x]]
  PROVE  n = [l0 |-> n.l0, l1 |-> n.l1, l2 |-> n.l2, available |-> n.available]
OBVIOUS

(* The bitmap after _mark_free(), field by field.                           *)
LEMMA MarkFreeFields ==
  ASSUME NEW m \in MapType, NEW off, NEW len
  PROVE  LET n == MarkFree(m, off, len)
         IN /\ n.l0 = m.l0 \cup Span(off, len)
            /\ n.l1 = Updated(m, m.l0 \cup Span(off, len), EntriesOf(off, off + len))
            /\ n.l2 = m.l2 \cup RegionsOf(off, off + len)
            /\ n.available = (m.available + len) % WORD
            /\ n = [l0 |-> n.l0, l1 |-> n.l1, l2 |-> n.l2, available |-> n.available]
<1>1. MarkFree(m, off, len).l0 = m.l0 \cup Span(off, len)
  BY DEF MarkFree, MarkL1OnL0, MapType
<1>2. MarkFree(m, off, len).l1
        = Updated(m, m.l0 \cup Span(off, len), EntriesOf(off, off + len))
  BY DEF MarkFree, MarkL1OnL0, MapType, Updated
<1>3. MarkFree(m, off, len).l2 = m.l2 \cup RegionsOf(off, off + len)
  BY DEF MarkFree, MarkL1OnL0, MapType
<1>4. MarkFree(m, off, len).available = (m.available + len) % WORD
  BY DEF MarkFree, MarkL1OnL0, MapType
<1> DEFINE n == MarkFree(m, off, len)
<1>5. n = [l0 |-> n.l0, l1 |-> n.l1, l2 |-> n.l2, available |-> n.available]
  <2>1. DOMAIN n = {"l0", "l1", "l2", "available"} BY DEF MarkFree, MarkL1OnL0, MapType
  <2>2. n = [x \in DOMAIN n |-> n[x]] BY DEF MarkFree, MarkL1OnL0, MapType
  <2> HIDE DEF n
  <2> QED BY <2>1, <2>2, MapRecord
<1> QED BY <1>1, <1>2, <1>3, <1>4, <1>5

(* Two levels, a summary and a count make a bitmap.                         *)
LEMMA MapFields ==
  ASSUME NEW l0 \in SUBSET Blocks, NEW l1 \in [Entries -> L1States],
         NEW l2 \in SUBSET Regions, NEW k \in Nat
  PROVE  [l0 |-> l0, l1 |-> l1, l2 |-> l2, available |-> k] \in MapType
BY DEF MapType

(* _mark_free(), for a range that was not free: no other block changes and  *)
(* none goes out of sight.                                                  *)
LEMMA MarkFreeOK ==
  ASSUME NEW m, MapOK(m), NEW off \in Nat, NEW len \in Nat \ {0},
         1 <= off, off + len <= Size, Span(off, len) \cap m.l0 = {}
  PROVE  /\ MapOK(MarkFree(m, off, len))
         /\ MarkFree(m, off, len).l0 = m.l0 \cup Span(off, len)
         /\ Unseen(MarkFree(m, off, len)) \subseteq Unseen(m)
<1> DEFINE n == MarkFree(m, off, len)
           l0 == m.l0 \cup Span(off, len)
<1>0. /\ m \in MapType /\ Honest(m) /\ m.available = Cardinality(m.l0)
      /\ m.l0 \in SUBSET Blocks /\ m.l2 \in SUBSET Regions
  BY DEF MapOK, MapType
<1>1. /\ n.l0 = l0
      /\ n.l1 = Updated(m, l0, EntriesOf(off, off + len))
      /\ n.l2 = m.l2 \cup RegionsOf(off, off + len)
      /\ n.available = (m.available + len) % WORD
      /\ n = [l0 |-> n.l0, l1 |-> n.l1, l2 |-> n.l2, available |-> n.available]
  BY <1>0, MarkFreeFields
<1> HIDE DEF n
<1>2. ASSUME NEW b \in Span(off, len) PROVE b \in Nat /\ off <= b /\ b < off + len
  BY DEF Span
<1>3. Span(off, len) \subseteq Blocks BY <1>2, Geometry DEF Blocks
<1>4. l0 \in SUBSET Blocks BY <1>0, <1>3
<1>5. CoveredBy(l0, m, EntriesOf(off, off + len))
  <2>1. ASSUME NEW b \in Span(off, len) PROVE b \div EntryBits \in EntriesOf(off, off + len)
    BY <1>2, <2>1, InEntriesOf
  <2> QED BY <2>1 DEF CoveredBy
<1>6. n.l1 \in [Entries -> L1States] /\ Honest(n)
  <2> HIDE DEF l0
  <2> QED BY <1>0, <1>1, <1>4, <1>5, Remarked
<1>7. n.l2 \in SUBSET Regions
  <2>1. RegionsOf(off, off + len) \subseteq Regions BY RegionsOfDevice
  <2> QED BY <1>0, <1>1, <2>1
<1>8. n.available = Cardinality(n.l0) /\ n.available \in Nat
  <2>1. IsFiniteSet(m.l0) /\ Cardinality(m.l0) \in Nat BY <1>0, BlocksFinite
  <2>2. IsFiniteSet(Span(off, len)) /\ Cardinality(Span(off, len)) = len
    <3>1. Span(off, len) = off..((off + len) - 1) BY DEF Span
    <3>0. off + len \in Int /\ off \in Int /\ off <= off + len OBVIOUS
    <3>2. /\ IsFiniteSet(off..((off + len) - 1))
          /\ Cardinality(off..((off + len) - 1)) = (off + len) - off
      BY <3>0, IntervalSize
    <3> QED BY <3>1, <3>2
  <2>3. Cardinality(l0) = Cardinality(m.l0) + Cardinality(Span(off, len))
    BY <2>1, <2>2, DisjointSize
  <2>4. Cardinality(l0) \in Nat /\ Cardinality(l0) < WORD BY <1>4, BlocksFinite
  <2>5. Cardinality(l0) % WORD = Cardinality(l0) BY <2>4, InWord
  <2> QED BY <1>0, <1>1, <2>2, <2>3, <2>4, <2>5
<1>9. n \in MapType
  <2>1. [l0 |-> n.l0, l1 |-> n.l1, l2 |-> n.l2, available |-> n.available] \in MapType
    BY <1>1, <1>4, <1>6, <1>7, <1>8, MapFields
  <2> QED BY <1>1, <2>1
<1>10. MapOK(n) BY <1>6, <1>8, <1>9 DEF MapOK
<1>11. ASSUME NEW b \in Unseen(n) PROVE b \in Unseen(m)
  <2>1. b \in l0 /\ b \div RegionBlocks \notin m.l2
        /\ b \div RegionBlocks \notin RegionsOf(off, off + len)
    BY <1>1 DEF Unseen
  <2>2. b \notin Span(off, len) BY <1>2, <2>1, InRegionsOf
  <2> QED BY <2>1, <2>2 DEF Unseen
<1> QED BY <1>1, <1>10, <1>11 DEF n

(* The bitmap after _mark_allocated(), field by field.                      *)
LEMMA MarkAllocatedFields ==
  ASSUME NEW m \in MapType, NEW off, NEW len
  PROVE  LET n == MarkAllocated(m, off, len)
         IN /\ n.l0 = m.l0 \ Span(off, len)
            /\ n.l1 = Updated(m, m.l0 \ Span(off, len), EntriesOf(off, off + len))
            /\ n.l2 = m.l2 \ RegionsOf(off, off + len)
            /\ n.available = (m.available - len) % WORD
            /\ n = [l0 |-> n.l0, l1 |-> n.l1, l2 |-> n.l2, available |-> n.available]
<1>1. MarkAllocated(m, off, len).l0 = m.l0 \ Span(off, len)
  BY DEF MarkAllocated, MarkL1OnL0, MapType
<1>2. MarkAllocated(m, off, len).l1
        = Updated(m, m.l0 \ Span(off, len), EntriesOf(off, off + len))
  BY DEF MarkAllocated, MarkL1OnL0, MapType, Updated
<1>3. MarkAllocated(m, off, len).l2 = m.l2 \ RegionsOf(off, off + len)
  BY DEF MarkAllocated, MarkL1OnL0, MapType
<1>4. MarkAllocated(m, off, len).available = (m.available - len) % WORD
  BY DEF MarkAllocated, MarkL1OnL0, MapType
<1> DEFINE n == MarkAllocated(m, off, len)
<1>5. n = [l0 |-> n.l0, l1 |-> n.l1, l2 |-> n.l2, available |-> n.available]
  <2>1. DOMAIN n = {"l0", "l1", "l2", "available"} BY DEF MarkAllocated, MarkL1OnL0, MapType
  <2>2. n = [x \in DOMAIN n |-> n[x]] BY DEF MarkAllocated, MarkL1OnL0, MapType
  <2> HIDE DEF n
  <2> QED BY <2>1, <2>2, MapRecord
<1> QED BY <1>1, <1>2, <1>3, <1>4, <1>5

(* The blocks that leave the bitmap, whether the L2 bits go with them or    *)
(* are worked out again: what is left is a sound bitmap.                    *)
LEMMA TakenOK ==
  ASSUME NEW m, MapOK(m), NEW S \in SUBSET m.l0, NEW E, NEW n,
         n.l0 = m.l0 \ S,
         n.l1 = Updated(m, m.l0 \ S, E),
         n.l2 \in SUBSET Regions,
         n.available = (m.available - Cardinality(S)) % WORD,
         n = [l0 |-> n.l0, l1 |-> n.l1, l2 |-> n.l2, available |-> n.available]
  PROVE  MapOK(n)
<1>0. m \in MapType /\ Honest(m) /\ m.available = Cardinality(m.l0) /\ m.l0 \in SUBSET Blocks
  BY DEF MapOK, MapType
<1>1. n.l0 \in SUBSET Blocks BY <1>0
<1>2. n.l1 \in [Entries -> L1States] /\ Honest(n)
  <2> DEFINE l0 == m.l0 \ S
  <2>1. l0 \in SUBSET Blocks BY <1>0
  <2>2. CoveredBy(l0, m, E) BY DEF CoveredBy
  <2>3. n.l0 = l0 /\ n.l1 = Updated(m, l0, E) OBVIOUS
  <2> HIDE DEF l0
  <2> QED BY <1>0, <2>1, <2>2, <2>3, Remarked
<1>3. n.available = Cardinality(n.l0) /\ n.available \in Nat
  <2>1. IsFiniteSet(m.l0) BY <1>0, BlocksFinite
  <2>2. Cardinality(m.l0 \ S) = Cardinality(m.l0) - Cardinality(S) BY <2>1, RestSize
  <2>3. m.l0 \ S \in SUBSET Blocks BY <1>0
  <2>4. Cardinality(m.l0 \ S) \in Nat /\ Cardinality(m.l0 \ S) < WORD BY <2>3, BlocksFinite
  <2>5. Cardinality(m.l0 \ S) % WORD = Cardinality(m.l0 \ S) BY <2>4, InWord
  <2> QED BY <1>0, <2>2, <2>4, <2>5
<1>4. n \in MapType
  <2>1. [l0 |-> n.l0, l1 |-> n.l1, l2 |-> n.l2, available |-> n.available] \in MapType
    BY <1>1, <1>2, <1>3, MapFields
  <2> QED BY <2>1
<1> QED BY <1>2, <1>3, <1>4 DEF MapOK

(* _mark_allocated(): the L2 bits of the range go, so that blocks go out of *)
(* sight in the regions it touches and nowhere else.                        *)
LEMMA MarkAllocatedOK ==
  ASSUME NEW m, MapOK(m), NEW off \in Nat, NEW len \in Nat \ {0},
         off + len <= Size, Span(off, len) \subseteq m.l0
  PROVE  /\ MapOK(MarkAllocated(m, off, len))
         /\ MarkAllocated(m, off, len).l0 = m.l0 \ Span(off, len)
         /\ \A b \in Unseen(MarkAllocated(m, off, len)) :
              b \in Unseen(m) \/ b \div RegionBlocks \in RegionsOf(off, off + len)
<1> DEFINE n == MarkAllocated(m, off, len)
           S == Span(off, len)
<1>0. m \in MapType /\ m.l2 \in SUBSET Regions BY DEF MapOK, MapType
<1>1. /\ n.l0 = m.l0 \ S
      /\ n.l1 = Updated(m, m.l0 \ S, EntriesOf(off, off + len))
      /\ n.l2 = m.l2 \ RegionsOf(off, off + len)
      /\ n.available = (m.available - len) % WORD
      /\ n = [l0 |-> n.l0, l1 |-> n.l1, l2 |-> n.l2, available |-> n.available]
  BY <1>0, MarkAllocatedFields
<1>2. Cardinality(S) = len
  <2>1. S = off..((off + len) - 1) BY DEF Span
  <2>2. off + len \in Int /\ off \in Int /\ off <= off + len OBVIOUS
  <2>3. Cardinality(off..((off + len) - 1)) = (off + len) - off BY <2>2, IntervalSize
  <2> QED BY <2>1, <2>3
<1> HIDE DEF n, S
<1>3. S \in SUBSET m.l0 BY DEF S
<1>4. n.l2 \in SUBSET Regions BY <1>0, <1>1
<1>5. n.available = (m.available - Cardinality(S)) % WORD BY <1>1, <1>2
<1>6. MapOK(n) BY <1>1, <1>3, <1>4, <1>5, TakenOK
<1>7. ASSUME NEW b \in Unseen(n)
      PROVE  b \in Unseen(m) \/ b \div RegionBlocks \in RegionsOf(off, off + len)
  BY <1>1 DEF Unseen
<1> QED BY <1>1, <1>6, <1>7 DEF n, S

NotFull(l1, rs) == { r \in rs : \E e \in RegionEnts(r) : l1[e] # "FULL" }
Claimed(run, lo, hi) == IF run = {} THEN {} ELSE EntriesOf(lo, hi)

IsClaim(n, m, run, lo, hi) ==
  /\ n.l0 = m.l0 \ run
  /\ n.l1 = Updated(m, m.l0 \ run, Claimed(run, lo, hi))
  /\ n.l2 = (m.l2 \ RegionsOf(lo, hi)) \cup NotFull(n.l1, RegionsOf(lo, hi))
  /\ n.available = (m.available - Cardinality(run)) % WORD
  /\ n = [l0 |-> n.l0, l1 |-> n.l1, l2 |-> n.l2, available |-> n.available]

(* The bitmap after claim_free_to_left() or _right(), field by field.       *)
LEMMA ClaimFields ==
  ASSUME NEW m \in MapType, NEW run, NEW lo, NEW hi, NEW n, n = Claim(m, run, lo, hi)
  PROVE  IsClaim(n, m, run, lo, hi)
<1> DEFINE E == Claimed(run, lo, hi)
           m1 == IF run = {} THEN m ELSE MarkL1OnL0([m EXCEPT !.l0 = @ \ run], lo, hi)
           m2 == [m1 EXCEPT !.available = (@ - Cardinality(run)) % WORD]
<1>1. /\ m1.l0 = m.l0 \ run /\ m1.l1 = Updated(m, m.l0 \ run, E)
      /\ m1.l2 = m.l2 /\ m1.available = m.available
      /\ DOMAIN m1 = {"l0", "l1", "l2", "available"} /\ m1 = [x \in DOMAIN m1 |-> m1[x]]
  <2>1. CASE run = {}
    <3>1. m1 = m BY <2>1
    <3>2. m.l1 = [e \in Entries |-> m.l1[e]] BY DEF MapType
    <3>3. Updated(m, m.l0 \ run, E) = m.l1
      <4>1. E = {} BY <2>1 DEF Claimed
      <4> HIDE DEF E
      <4> QED BY <3>2, <4>1 DEF Updated
    <3>4. m.l0 \ run = m.l0 BY <2>1
    <3>5. DOMAIN m = {"l0", "l1", "l2", "available"} /\ m = [x \in DOMAIN m |-> m[x]]
      BY DEF MapType
    <3> HIDE DEF m1
    <3> QED BY <3>1, <3>3, <3>4, <3>5
  <2>2. CASE run # {}
    <3> DEFINE x1 == MarkL1OnL0([m EXCEPT !.l0 = @ \ run], lo, hi)
    <3>1. m1 = x1 /\ E = EntriesOf(lo, hi) BY <2>2 DEF Claimed
    <3>2. x1.l0 = m.l0 \ run BY DEF MarkL1OnL0, MapType
    <3>3. x1.l1 = Updated(m, m.l0 \ run, EntriesOf(lo, hi))
      BY DEF MarkL1OnL0, MapType, Updated
    <3>4. x1.l2 = m.l2 BY DEF MarkL1OnL0, MapType
    <3>5. x1.available = m.available BY DEF MarkL1OnL0, MapType
    <3>6. DOMAIN x1 = {"l0", "l1", "l2", "available"} BY DEF MarkL1OnL0, MapType
    <3>7. x1 = [x \in DOMAIN x1 |-> x1[x]] BY DEF MarkL1OnL0, MapType
    <3> HIDE DEF x1, m1, E
    <3> QED BY <3>1, <3>2, <3>3, <3>4, <3>5, <3>6, <3>7
  <2> QED BY <2>1, <2>2
<1> HIDE DEF m1
<1>2. /\ m2.l0 = m1.l0 /\ m2.l1 = m1.l1 /\ m2.l2 = m1.l2
      /\ m2.available = (m1.available - Cardinality(run)) % WORD
      /\ DOMAIN m2 = {"l0", "l1", "l2", "available"} /\ m2 = [x \in DOMAIN m2 |-> m2[x]]
  BY <1>1
<1>3. n = MarkL2OnL1(m2, RegionsOf(lo, hi)) BY DEF Claim, m1
<1> HIDE DEF m2, E
<1>4. /\ n.l0 = m2.l0 /\ n.l1 = m2.l1 /\ n.available = m2.available
      /\ n.l2 = (m2.l2 \ RegionsOf(lo, hi)) \cup NotFull(m2.l1, RegionsOf(lo, hi))
      /\ DOMAIN n = {"l0", "l1", "l2", "available"} /\ n = [x \in DOMAIN n |-> n[x]]
  BY <1>2, <1>3 DEF MarkL2OnL1, NotFull
<1>5. n = [l0 |-> n.l0, l1 |-> n.l1, l2 |-> n.l2, available |-> n.available]
  BY <1>4, MapRecord
<1> QED BY <1>1, <1>2, <1>4, <1>5 DEF E, IsClaim

TakesRun(m, n, run, rs) ==
  /\ MapOK(n)
  /\ n.l0 = m.l0 \ run
  /\ \A b \in Unseen(n) : b \in Unseen(m) /\ b \div RegionBlocks \notin rs

(* Claiming a run out of the bitmap leaves no block out of sight in the     *)
(* regions whose bits it works out.                                         *)
LEMMA ClaimOK ==
  ASSUME NEW m, MapOK(m), NEW run \in SUBSET m.l0, NEW lo \in Nat, NEW hi \in Nat, hi <= Size
  PROVE  TakesRun(m, Claim(m, run, lo, hi), run, RegionsOf(lo, hi))
<1>n. PICK n : n = Claim(m, run, lo, hi) OBVIOUS
<1> DEFINE E == Claimed(run, lo, hi)
           L == NotFull(n.l1, RegionsOf(lo, hi))
<1>0. /\ m \in MapType /\ m.l2 \in SUBSET Regions /\ m.l0 \in SUBSET Blocks
  BY DEF MapOK, MapType
<1>1. /\ n.l0 = m.l0 \ run
      /\ n.l1 = Updated(m, m.l0 \ run, E)
      /\ n.l2 = (m.l2 \ RegionsOf(lo, hi)) \cup L
      /\ n.available = (m.available - Cardinality(run)) % WORD
      /\ n = [l0 |-> n.l0, l1 |-> n.l1, l2 |-> n.l2, available |-> n.available]
  <2>1. IsClaim(n, m, run, lo, hi) BY <1>0, <1>n, ClaimFields
  <2> QED BY <2>1 DEF IsClaim
<1>2. L \subseteq RegionsOf(lo, hi) BY DEF NotFull
<1> HIDE DEF E
<1>3. n.l2 \in SUBSET Regions
  <2>1. RegionsOf(lo, hi) \subseteq Regions BY RegionsOfDevice
  <2> HIDE DEF L
  <2> QED BY <1>0, <1>1, <1>2, <2>1
<1>4. MapOK(n) BY <1>1, <1>3, TakenOK
<1>5. ASSUME NEW b \in Unseen(n)
      PROVE  b \in Unseen(m) /\ b \div RegionBlocks \notin RegionsOf(lo, hi)
  <2>1. b \in n.l0 /\ b \div RegionBlocks \notin n.l2 BY DEF Unseen
  <2>2. b \in m.l0 /\ b \in Blocks BY <1>0, <1>1, <2>1
  <2>3. b \in Nat /\ b < Size BY <2>2, BlockIs
  <2>4. b \div EntryBits \in Entries /\ b \div EntryBits \in RegionEnts(b \div RegionBlocks)
    BY <2>3, Place
  <2>5. n.l1[b \div EntryBits] # "FULL"
    <3>1. b \div EntryBits \in Nat BY <2>4, EntryNotEmpty
    <3>2. b \in EntryBlocks(b \div EntryBits) BY <2>3, <3>1, InEntry
    <3>3. Honest(n) BY <1>4 DEF MapOK
    <3> QED BY <2>1, <2>4, <3>2, <3>3 DEF Honest
  <2>6. b \div RegionBlocks \notin RegionsOf(lo, hi)
    BY <1>1, <2>1, <2>4, <2>5 DEF NotFull
  <2>7. b \div RegionBlocks \notin m.l2 BY <1>1, <2>1, <2>6
  <2> QED BY <2>2, <2>6, <2>7 DEF Unseen
<1>6. TakesRun(m, n, run, RegionsOf(lo, hi)) BY <1>1, <1>4, <1>5 DEF TakesRun
<1> QED BY <1>n, <1>6

-----------------------------------------------------------------------------
(* Segments into the tree, or over its cap into the bitmap                  *)

FreeIn(s) == BlocksOf(s.avl.segs) \cup s.bmp.l0
SegBlocks(g) == g[1]..(g[2] - 1)

(* Segment g could join the tree: it neither overlaps nor touches a segment *)
(* or a free block of the bitmap.                                           *)
Fresh(s, g) ==
  /\ g \in Segments
  /\ \A h \in s.avl.segs : Apart(g, h)
  /\ Clear(g, s.bmp.l0)

(* _spillover_range() leaves the tree alone.                                *)
LEMMA SpillFields ==
  ASSUME NEW s \in SpaceType, NEW g
  PROVE  /\ Spill(s, g).avl = s.avl
         /\ Spill(s, g).bmp = MarkFree(s.bmp, g[1], SegLen(g))
         /\ Spill(s, g).bmp \in MapType => Spill(s, g) \in SpaceType
<1>1. Spill(s, g).avl = s.avl BY DEF Spill, SpaceType
<1>2. Spill(s, g).bmp = MarkFree(s.bmp, g[1], SegLen(g)) BY DEF Spill, SpaceType
<1>3. ASSUME Spill(s, g).bmp \in MapType PROVE Spill(s, g) \in SpaceType
  BY <1>3 DEF Spill, SpaceType
<1> QED BY <1>1, <1>2, <1>3

(* HybridAllocator::_spillover_range().                                     *)
LEMMA SpillOK ==
  ASSUME NEW s, SpaceOK(s), NEW g, Fresh(s, g)
  PROVE  /\ SpaceOK(Spill(s, g))
         /\ Spill(s, g).avl = s.avl
         /\ Spill(s, g).bmp.l0 = s.bmp.l0 \cup SegBlocks(g)
         /\ Unseen(Spill(s, g).bmp) \subseteq Unseen(s.bmp)
<1>t. PICK t : t = Spill(s, g) OBVIOUS
<1>0. s \in SpaceType /\ TreeOK(s.avl) /\ MapOK(s.bmp) /\ s.avl.segs \in SUBSET Segments
  BY DEF SpaceOK, SpaceType, TreeType
<1>1. /\ t.avl = s.avl /\ t.bmp = MarkFree(s.bmp, g[1], SegLen(g))
      /\ t.bmp \in MapType => t \in SpaceType
  BY <1>0, <1>t, SpillFields
<1>2. g[1] \in Nat /\ g[2] \in Nat /\ 1 <= g[1] /\ g[1] < g[2] /\ g[2] <= Size /\ g \in Segments
  BY SegmentIs DEF Fresh
<1>3. SegLen(g) \in Nat \ {0} /\ g[1] + SegLen(g) = g[2] BY <1>2 DEF SegLen
<1>4. Span(g[1], SegLen(g)) = SegBlocks(g)
  <2>1. (g[1] + SegLen(g)) - 1 = g[2] - 1 BY <1>2, <1>3
  <2>2. g[1] + SegLen(g) - 1 = (g[1] + SegLen(g)) - 1 BY <1>2, <1>3
  <2> QED BY <2>1, <2>2 DEF Span, SegBlocks
<1>5. ASSUME NEW b \in SegBlocks(g) PROVE b \notin s.bmp.l0
  <2>1. b \in Nat /\ g[1] <= b /\ b < g[2] BY <1>2 DEF SegBlocks
  <2> QED BY <1>2, <2>1 DEF Fresh, Clear
<1>6. /\ MapOK(t.bmp) /\ t.bmp.l0 = s.bmp.l0 \cup SegBlocks(g)
      /\ Unseen(t.bmp) \subseteq Unseen(s.bmp)
  <2>1. Span(g[1], SegLen(g)) \cap s.bmp.l0 = {} BY <1>4, <1>5
  <2>2. g[1] + SegLen(g) <= Size BY <1>2, <1>3
  <2>3. /\ MapOK(MarkFree(s.bmp, g[1], SegLen(g)))
        /\ MarkFree(s.bmp, g[1], SegLen(g)).l0 = s.bmp.l0 \cup Span(g[1], SegLen(g))
        /\ Unseen(MarkFree(s.bmp, g[1], SegLen(g))) \subseteq Unseen(s.bmp)
    BY <1>0, <1>2, <1>3, <2>1, <2>2, MarkFreeOK
  <2> QED BY <1>1, <1>4, <2>3
<1>7. t \in SpaceType BY <1>1, <1>6 DEF MapOK
<1>8. ASSUME NEW h \in t.avl.segs PROVE Clear(h, t.bmp.l0)
  <2>1. h \in s.avl.segs BY <1>1
  <2>2. Clear(h, s.bmp.l0) /\ Apart(g, h) BY <2>1 DEF SpaceOK, Fresh
  <2>3. h[1] \in Nat /\ h[2] \in Nat BY <1>0, <2>1, SegmentIs
  <2>4. ASSUME NEW b \in SegBlocks(g) PROVE b < h[1] - 1 \/ b > h[2]
    BY <1>2, <2>2, <2>3 DEF SegBlocks, Apart
  <2> QED BY <1>6, <2>2, <2>4 DEF Clear
<1>9. SpaceOK(t) BY <1>0, <1>1, <1>6, <1>7, <1>8 DEF SpaceOK
<1> QED BY <1>t, <1>1, <1>6, <1>9

(* A new segment leaves the cursors and the bitmap alone.                   *)
LEMMA InsertFields ==
  ASSUME NEW s \in SpaceType, NEW g
  PROVE  /\ Insert(s, g).avl.segs = s.avl.segs \cup {g}
         /\ Insert(s, g).avl.numFree = (s.avl.numFree + SegLen(g)) % WORD
         /\ Insert(s, g).avl.lbas = s.avl.lbas
         /\ Insert(s, g).bmp = s.bmp
         /\ Insert(s, g).avl \in TreeType => Insert(s, g) \in SpaceType
         /\ Insert(s, g).avl = [segs |-> Insert(s, g).avl.segs,
                                numFree |-> Insert(s, g).avl.numFree,
                                lbas |-> Insert(s, g).avl.lbas]
<1>1. Insert(s, g).avl.segs = s.avl.segs \cup {g} BY DEF Insert, SpaceType, TreeType
<1>2. Insert(s, g).avl.numFree = (s.avl.numFree + SegLen(g)) % WORD
  BY DEF Insert, SpaceType, TreeType
<1>3. Insert(s, g).avl.lbas = s.avl.lbas BY DEF Insert, SpaceType, TreeType
<1>4. Insert(s, g).bmp = s.bmp BY DEF Insert, SpaceType
<1>5. ASSUME Insert(s, g).avl \in TreeType PROVE Insert(s, g) \in SpaceType
  BY <1>5 DEF Insert, SpaceType
<1>6. Insert(s, g).avl = [segs |-> Insert(s, g).avl.segs,
                          numFree |-> Insert(s, g).avl.numFree,
                          lbas |-> Insert(s, g).avl.lbas]
  BY DEF Insert, SpaceType, TreeType
<1> QED BY <1>1, <1>2, <1>3, <1>4, <1>5, <1>6

(* A segment joins a tree that has room for it.                             *)
LEMMA InsertOK ==
  ASSUME NEW s, SpaceOK(s), NEW g, Fresh(s, g), Limited => Cardinality(s.avl.segs) < CAP
  PROVE  /\ SpaceOK(Insert(s, g))
         /\ Insert(s, g).avl.segs = s.avl.segs \cup {g}
         /\ Insert(s, g).avl.lbas = s.avl.lbas
         /\ Insert(s, g).bmp = s.bmp
<1>t. PICK t : t = Insert(s, g) OBVIOUS
<1>0. /\ s \in SpaceType /\ MapOK(s.bmp) /\ s.avl.segs \in SUBSET Segments
      /\ s.avl.lbas \in [Aligns -> 0..Size] /\ Spread(s.avl.segs)
      /\ s.avl.numFree = Cardinality(BlocksOf(s.avl.segs)) /\ g \in Segments
  BY DEF SpaceOK, SpaceType, TreeType, TreeOK, Fresh
<1>1. /\ t.avl.segs = s.avl.segs \cup {g} /\ t.avl.lbas = s.avl.lbas /\ t.bmp = s.bmp
      /\ t.avl.numFree = (s.avl.numFree + SegLen(g)) % WORD
      /\ t.avl \in TreeType => t \in SpaceType
      /\ t.avl = [segs |-> t.avl.segs, numFree |-> t.avl.numFree, lbas |-> t.avl.lbas]
  BY <1>0, <1>t, InsertFields
<1>2. g[1] \in Nat /\ g[2] \in Nat /\ 1 <= g[1] /\ g[1] < g[2] /\ g[2] <= Size
  BY <1>0, SegmentIs
<1>3. t.avl.segs \in SUBSET Segments BY <1>0, <1>1
<1>4. ASSUME NEW b \in SegBlocks(g) PROVE b \notin BlocksOf(s.avl.segs)
  <2> SUFFICES ASSUME b \in BlocksOf(s.avl.segs) PROVE FALSE OBVIOUS
  <2>1. PICK h \in s.avl.segs : b \in h[1]..(h[2] - 1) BY InBlocksOf
  <2>2. Apart(g, h) /\ h[1] \in Nat /\ h[2] \in Nat BY <1>0, SegmentIs DEF Fresh
  <2> QED BY <1>2, <2>1, <2>2 DEF Apart, SegBlocks
<1>5. BlocksOf(t.avl.segs) = BlocksOf(s.avl.segs) \cup SegBlocks(g)
  BY <1>1, OneMore DEF SegBlocks
<1>6. t.avl.numFree = Cardinality(BlocksOf(t.avl.segs)) /\ t.avl.numFree \in Nat
  <2>1. BlocksOf(s.avl.segs) \in SUBSET Blocks /\ BlocksOf(t.avl.segs) \in SUBSET Blocks
    BY <1>0, <1>3, SegmentBlocks
  <2>2. IsFiniteSet(BlocksOf(s.avl.segs)) /\ Cardinality(BlocksOf(s.avl.segs)) \in Nat
    BY <2>1, BlocksFinite
  <2>3. IsFiniteSet(SegBlocks(g)) /\ Cardinality(SegBlocks(g)) = SegLen(g) /\ SegLen(g) \in Nat
    BY <1>0, SegmentSize DEF SegBlocks
  <2>4. BlocksOf(s.avl.segs) \cap SegBlocks(g) = {} BY <1>4
  <2>5. Cardinality(BlocksOf(s.avl.segs) \cup SegBlocks(g))
          = Cardinality(BlocksOf(s.avl.segs)) + Cardinality(SegBlocks(g))
    BY <2>2, <2>3, <2>4, DisjointSize
  <2>6. Cardinality(BlocksOf(t.avl.segs)) \in Nat /\ Cardinality(BlocksOf(t.avl.segs)) < WORD
    BY <2>1, BlocksFinite
  <2>7. Cardinality(BlocksOf(t.avl.segs)) % WORD = Cardinality(BlocksOf(t.avl.segs))
    BY <2>6, InWord
  <2> QED BY <1>0, <1>1, <1>5, <2>3, <2>5, <2>6, <2>7
<1>7. t.avl \in TreeType
  <2>1. t.avl.lbas \in [Aligns -> 0..Size] BY <1>0, <1>1
  <2>2. [segs |-> t.avl.segs, numFree |-> t.avl.numFree, lbas |-> t.avl.lbas] \in TreeType
    BY <1>3, <1>6, <2>1, TreeFields
  <2> QED BY <1>1, <2>2
<1>8. Spread(t.avl.segs)
  <2>1. \A h \in s.avl.segs : Apart(g, h) BY DEF Fresh
  <2>2. \A h \in s.avl.segs : Apart(h, g) BY <2>1 DEF Apart
  <2> QED BY <1>0, <1>1, <2>1, <2>2 DEF Spread
<1>9. \A h \in t.avl.segs : Clear(h, t.bmp.l0) BY <1>1 DEF SpaceOK, Fresh
<1>10. Limited => Cardinality(t.avl.segs) <= CAP
  <2>1. IsFiniteSet(s.avl.segs) /\ Cardinality(s.avl.segs) \in Nat BY <1>0, SegmentsFinite
  <2>2. Cardinality(s.avl.segs \cup {g})
          = IF g \in s.avl.segs THEN Cardinality(s.avl.segs) ELSE Cardinality(s.avl.segs) + 1
    BY <2>1, FS_AddElement
  <2> QED BY <1>1, <2>1, <2>2, Geometry
<1>11. TreeOK(t.avl) BY <1>6, <1>7, <1>8 DEF TreeOK
<1>12. SpaceOK(t) BY <1>0, <1>1, <1>7, <1>9, <1>10, <1>11 DEF SpaceOK
<1> QED BY <1>t, <1>1, <1>12

(* The segment at the head of the size tree: the shortest, the lowest of    *)
(* several.                                                                 *)
LEMMA LowestIs ==
  ASSUME NEW segs \in SUBSET Segments, segs # {}
  PROVE  Lowest(segs) \in segs
<1> DEFINE L == {n \in Nat : \E g \in segs : SegLen(g) = n}
<1>1. PICK g0 \in segs : TRUE OBVIOUS
<1>2. ASSUME NEW g \in segs PROVE SegLen(g) \in Nat /\ SegLen(g) \in L /\ g[1] \in Nat
  <2>1. SegLen(g) \in Nat BY SegmentSize
  <2> QED BY <2>1, SegmentIs
<1>3. L \in SUBSET Nat /\ L # {}
  <2>1. L \in SUBSET Nat OBVIOUS
  <2> HIDE DEF L
  <2> QED BY <1>1, <1>2, <2>1
<1>4. PICK n \in L : \A k \in L : n <= k
  <2> HIDE DEF L
  <2> QED BY <1>3, LeastElement
<1> DEFINE S == {a \in Nat : \E g \in segs : SegLen(g) = n /\ g[1] = a}
<1>5. PICK g1 \in segs : SegLen(g1) = n BY <1>4
<1>6. S \in SUBSET Nat /\ S # {}
  <2>1. S \in SUBSET Nat OBVIOUS
  <2>2. g1[1] \in S BY <1>2, <1>5
  <2> HIDE DEF S
  <2> QED BY <2>1, <2>2
<1>7. PICK a \in S : \A k \in S : a <= k
  <2> HIDE DEF S
  <2> QED BY <1>6, LeastElement
<1>8. PICK g \in segs : SegLen(g) = n /\ g[1] = a BY <1>7
<1>9. ASSUME NEW h \in segs PROVE ~Shorter(h, g)
  <2>1. n <= SegLen(h) BY <1>2, <1>4
  <2>2. SegLen(h) = n => a <= h[1] BY <1>2, <1>7
  <2>3. SegLen(h) \in Nat /\ h[1] \in Nat /\ n \in Nat /\ a \in Nat BY <1>2, <1>4, <1>7
  <2> QED BY <1>8, <2>1, <2>2, <2>3 DEF Shorter
<1>10. \E x \in segs : \A h \in segs : ~Shorter(h, x) BY <1>9
<1> QED BY <1>10 DEF Lowest

(* What _try_insert_range() makes of s: g is free as well, in the tree or   *)
(* in the bitmap, and at most other segments move there too.                *)
Joins(s, t, g) ==
  /\ SpaceOK(t)
  /\ FreeIn(t) = FreeIn(s) \cup SegBlocks(g)
  /\ t.avl.segs \subseteq s.avl.segs \cup {g}
  /\ t.bmp.l0 \subseteq s.bmp.l0 \cup BlocksOf(s.avl.segs) \cup SegBlocks(g)
  /\ t.avl.lbas = s.avl.lbas
  /\ Unseen(t.bmp) \subseteq Unseen(s.bmp)
  /\ ~Limited => t.bmp = s.bmp

(* _try_insert_range(): whichever of the two segments is spilled, no block  *)
(* is lost.                                                                 *)
LEMMA TryInsertRangeOK ==
  ASSUME NEW s, SpaceOK(s), NEW g, Fresh(s, g)
  PROVE  Joins(s, TryInsertRange(s, g), g)
<1> DEFINE room == ~Limited \/ Cardinality(s.avl.segs) < CAP
           lowest == Lowest(s.avl.segs)
<1>0. /\ s.avl.segs \in SUBSET Segments /\ Spread(s.avl.segs) /\ g \in Segments
  BY DEF SpaceOK, SpaceType, TreeType, TreeOK, Fresh
<1>1. CASE room
  <2>1. TryInsertRange(s, g) = Insert(s, g) BY <1>1 DEF TryInsertRange
  <2>2. PICK t : t = Insert(s, g) OBVIOUS
  <2>3. /\ SpaceOK(t) /\ t.avl.segs = s.avl.segs \cup {g}
        /\ t.avl.lbas = s.avl.lbas /\ t.bmp = s.bmp
    BY <1>1, <2>2, InsertOK
  <2>4. BlocksOf(t.avl.segs) = BlocksOf(s.avl.segs) \cup SegBlocks(g)
    BY <2>3, OneMore DEF SegBlocks
  <2>5. FreeIn(t) = FreeIn(s) \cup SegBlocks(g) BY <2>3, <2>4 DEF FreeIn
  <2>6. Joins(s, t, g) BY <2>3, <2>5 DEF Joins
  <2> QED BY <2>1, <2>2, <2>6
<1>2. CASE ~room /\ SegLen(g) > SegLen(lowest)
  <2> DEFINE u == Rm(s, lowest)
             v == Spill(u, lowest)
  <2>1. TryInsertRange(s, g) = Insert(v, g) BY <1>2 DEF TryInsertRange
  <2>2. lowest \in s.avl.segs
    <3>1. Limited /\ ~(Cardinality(s.avl.segs) < CAP) BY <1>2
    <3>2. s.avl.segs # {}
      <4> SUFFICES ASSUME s.avl.segs = {} PROVE FALSE OBVIOUS
      <4>1. Cardinality(s.avl.segs) = 0 BY FS_EmptySet
      <4> QED BY <3>1, <4>1, Geometry
    <3> QED BY <1>0, <3>2, LowestIs
  <2> HIDE DEF lowest
  <2>3. /\ SpaceOK(u) /\ u.bmp = s.bmp /\ u.avl.segs = s.avl.segs \ {lowest}
        /\ u.avl.lbas = s.avl.lbas
        /\ BlocksOf(u.avl.segs) = BlocksOf(s.avl.segs) \ SegBlocks(lowest)
        /\ Limited => Cardinality(u.avl.segs) < CAP
    BY <2>2, RmOK DEF SegBlocks
  <2> HIDE DEF u
  <2>4. Fresh(u, lowest)
    <3>1. lowest \in Segments BY <1>0, <2>2
    <3>2. \A h \in u.avl.segs : Apart(lowest, h) BY <1>0, <2>2, <2>3 DEF Spread
    <3>3. Clear(lowest, u.bmp.l0) BY <2>2, <2>3 DEF SpaceOK
    <3> QED BY <3>1, <3>2, <3>3 DEF Fresh
  <2>5. /\ SpaceOK(v) /\ v.avl = u.avl /\ v.bmp.l0 = u.bmp.l0 \cup SegBlocks(lowest)
        /\ Unseen(v.bmp) \subseteq Unseen(u.bmp)
    BY <2>3, <2>4, SpillOK
  <2> HIDE DEF v
  <2>6. Fresh(v, g)
    <3>1. \A h \in v.avl.segs : Apart(g, h) BY <2>3, <2>5 DEF Fresh
    <3>2. ASSUME NEW b \in SegBlocks(lowest) PROVE b < g[1] - 1 \/ b > g[2]
      <4>1. Apart(g, lowest) BY <2>2 DEF Fresh
      <4>2. g[1] \in Nat /\ g[2] \in Nat /\ lowest[1] \in Nat /\ lowest[2] \in Nat
        BY <1>0, <2>2, SegmentIs
      <4> QED BY <4>1, <4>2 DEF Apart, SegBlocks
    <3>3. Clear(g, v.bmp.l0) BY <2>3, <2>5, <3>2 DEF Clear, Fresh
    <3> QED BY <1>0, <3>1, <3>3 DEF Fresh
  <2>7. PICK t : t = Insert(v, g) OBVIOUS
  <2>8. /\ SpaceOK(t) /\ t.avl.segs = v.avl.segs \cup {g}
        /\ t.avl.lbas = v.avl.lbas /\ t.bmp = v.bmp
    <3>1. SpaceOK(v) /\ (Limited => Cardinality(v.avl.segs) < CAP) BY <2>3, <2>5
    <3>2. /\ SpaceOK(Insert(v, g)) /\ Insert(v, g).avl.segs = v.avl.segs \cup {g}
          /\ Insert(v, g).avl.lbas = v.avl.lbas /\ Insert(v, g).bmp = v.bmp
      BY <2>6, <3>1, InsertOK
    <3> QED BY <2>7, <3>2
  <2>9. BlocksOf(t.avl.segs) = BlocksOf(v.avl.segs) \cup SegBlocks(g)
    BY <2>8, OneMore DEF SegBlocks
  <2>10. SegBlocks(lowest) \subseteq BlocksOf(s.avl.segs)
    BY <1>0, <2>2, OnlyInOne DEF SegBlocks
  <2>11. FreeIn(t) = FreeIn(s) \cup SegBlocks(g)
    BY <2>3, <2>5, <2>8, <2>9, <2>10 DEF FreeIn
  <2>12. t.avl.segs \subseteq s.avl.segs \cup {g} BY <2>3, <2>5, <2>8
  <2>13. t.bmp.l0 \subseteq s.bmp.l0 \cup BlocksOf(s.avl.segs) \cup SegBlocks(g)
    BY <2>3, <2>5, <2>8, <2>10
  <2>14. t.avl.lbas = s.avl.lbas BY <2>3, <2>5, <2>8
  <2>15. Unseen(t.bmp) \subseteq Unseen(s.bmp) BY <2>3, <2>5, <2>8
  <2>16. Limited BY <1>2
  <2>17. Joins(s, t, g) BY <2>8, <2>11, <2>12, <2>13, <2>14, <2>15, <2>16 DEF Joins
  <2> QED BY <2>1, <2>7, <2>17
<1>3. CASE ~room /\ ~(SegLen(g) > SegLen(lowest))
  <2>1. TryInsertRange(s, g) = Spill(s, g) BY <1>3 DEF TryInsertRange
  <2>2. PICK t : t = Spill(s, g) OBVIOUS
  <2>3. /\ SpaceOK(t) /\ t.avl = s.avl /\ t.bmp.l0 = s.bmp.l0 \cup SegBlocks(g)
        /\ Unseen(t.bmp) \subseteq Unseen(s.bmp)
    BY <2>2, SpillOK
  <2>4. FreeIn(t) = FreeIn(s) \cup SegBlocks(g) BY <2>3 DEF FreeIn
  <2>5. Limited BY <1>3
  <2>6. Joins(s, t, g) BY <2>3, <2>4, <2>5 DEF Joins
  <2> QED BY <2>1, <2>2, <2>6
<1> QED BY <1>1, <1>2, <1>3

(* What _add_to_tree() makes of s: the range is free as well.               *)
Adds(s, t, start, end) ==
  /\ SpaceOK(t)
  /\ FreeIn(t) = FreeIn(s) \cup (start..(end - 1))
  /\ t.avl.lbas = s.avl.lbas
  /\ ~Limited => t.bmp = s.bmp

(* AvlAllocator::_add_to_tree(): the neighbours that touch the range leave  *)
(* the tree and come back as one segment with it.                           *)
LEMMA AvlAddToTreeOK ==
  ASSUME NEW s, SpaceOK(s), NEW start \in Nat, NEW end \in Nat,
         1 <= start, start < end, end <= Size,
         \A b \in start..(end - 1) : b \notin BlocksOf(s.avl.segs),
         \A b \in s.bmp.l0 : b < start - 1 \/ b > end
  PROVE  /\ Adds(s, AvlAddToTree(s, start, end), start, end)
         /\ Unseen(AvlAddToTree(s, start, end).bmp) \subseteq Unseen(s.bmp)
<1> DEFINE B == MergeBefore(s, start)
           A == MergeAfter(s, end)
           p == Before(s, start)
           q == After(s, end)
           lo == IF B THEN p[1] ELSE start
           hi == IF A THEN q[2] ELSE end
           x == IF B THEN Rm(s, p) ELSE s
           y == IF A THEN Rm(x, q) ELSE x
           g == <<lo, hi>>
<1>0. /\ s.avl.segs \in SUBSET Segments /\ Spread(s.avl.segs) /\ Size \in Nat
  BY Geometry DEF SpaceOK, SpaceType, TreeType, TreeOK
<1>1. ASSUME NEW h \in s.avl.segs
      PROVE  /\ h[1] \in Nat /\ h[2] \in Nat /\ 1 <= h[1] /\ h[1] < h[2] /\ h[2] <= Size
             /\ h[2] <= start \/ end <= h[1]
  <2>1. h[1] \in Nat /\ h[2] \in Nat /\ 1 <= h[1] /\ h[1] < h[2] /\ h[2] <= Size
    BY <1>0, SegmentIs
  <2>2. \A b \in h[1]..(h[2] - 1) : b \notin start..(end - 1) BY InBlocksOf
  <2>3. h[2] <= start \/ end <= h[1] BY <2>1, <2>2, IntervalsApart
  <2> QED BY <2>1, <2>3
<1>2. B => p \in s.avl.segs /\ p[2] = start BY DEF MergeBefore, Before
<1>3. A => q \in s.avl.segs /\ q[1] = end BY DEF MergeAfter, After
<1>4. ASSUME B, NEW h \in s.avl.segs, h[2] = start PROVE h = p
  <2> SUFFICES ASSUME h # p PROVE FALSE OBVIOUS
  <2>1. Apart(h, p) BY <1>0, <1>2, <1>4 DEF Spread
  <2> HIDE DEF p
  <2> QED BY <1>1, <1>2, <1>4, <2>1 DEF Apart
<1>5. ASSUME A, NEW h \in s.avl.segs, h[1] = end PROVE h = q
  <2> SUFFICES ASSUME h # q PROVE FALSE OBVIOUS
  <2>1. Apart(h, q) BY <1>0, <1>3, <1>5 DEF Spread
  <2> HIDE DEF q
  <2> QED BY <1>1, <1>3, <1>5, <2>1 DEF Apart
<1>6. AvlAddToTree(s, start, end) = TryInsertRange(y, g) BY DEF AvlAddToTree
<1>7. B <=> \E h \in s.avl.segs : h[2] = start BY DEF MergeBefore
<1>8. A <=> \E h \in s.avl.segs : h[1] = end BY DEF MergeAfter
<1> HIDE DEF A, B, p, q
<1>9. /\ lo \in Nat /\ 1 <= lo /\ lo <= start
      /\ SpaceOK(x) /\ x.bmp = s.bmp /\ x.avl.lbas = s.avl.lbas
      /\ \A h : h \in x.avl.segs <=> h \in s.avl.segs /\ h[2] # start
      /\ BlocksOf(s.avl.segs) = BlocksOf(x.avl.segs) \cup (lo..(start - 1))
  <2>1. CASE B
    <3>1. x = Rm(s, p) /\ lo = p[1] BY <2>1
    <3>2. p \in s.avl.segs /\ p[2] = start BY <1>2, <2>1
    <3>3. /\ SpaceOK(Rm(s, p)) /\ Rm(s, p).bmp = s.bmp /\ Rm(s, p).avl.lbas = s.avl.lbas
          /\ Rm(s, p).avl.segs = s.avl.segs \ {p}
          /\ BlocksOf(Rm(s, p).avl.segs) = BlocksOf(s.avl.segs) \ (p[1]..(p[2] - 1))
      BY <3>2, RmOK
    <3>4. (p[1]..(p[2] - 1)) \subseteq BlocksOf(s.avl.segs) BY <1>0, <3>2, OnlyInOne
    <3>5. lo \in Nat /\ 1 <= lo /\ lo <= start BY <1>1, <3>1, <3>2
    <3>6. BlocksOf(s.avl.segs) = BlocksOf(x.avl.segs) \cup (lo..(start - 1))
      BY <3>1, <3>2, <3>3, <3>4
    <3>7. \A h : h \in x.avl.segs <=> h \in s.avl.segs /\ h[2] # start
      BY <1>4, <2>1, <3>1, <3>2, <3>3
    <3> HIDE DEF x, lo
    <3> QED BY <3>1, <3>3, <3>5, <3>6, <3>7
  <2>2. CASE ~B
    <3>1. x = s /\ lo = start BY <2>2
    <3>2. start..(start - 1) = {} OBVIOUS
    <3>3. \A h : h \in s.avl.segs <=> h \in s.avl.segs /\ h[2] # start BY <1>7, <2>2
    <3> HIDE DEF x, lo
    <3> QED BY <3>1, <3>2, <3>3
  <2> QED BY <2>1, <2>2
<1> HIDE DEF x
<1>10. /\ hi \in Nat /\ end <= hi /\ hi <= Size
       /\ SpaceOK(y) /\ y.bmp = s.bmp /\ y.avl.lbas = s.avl.lbas
       /\ \A h : h \in y.avl.segs <=> h \in s.avl.segs /\ h[2] # start /\ h[1] # end
       /\ BlocksOf(x.avl.segs) = BlocksOf(y.avl.segs) \cup (end..(hi - 1))
  <2>1. CASE A
    <3>1. y = Rm(x, q) /\ hi = q[2] BY <2>1
    <3>2. q \in s.avl.segs /\ q[1] = end BY <1>3, <2>1
    <3>3. q \in x.avl.segs BY <1>1, <1>9, <3>2
    <3>4. /\ SpaceOK(Rm(x, q)) /\ Rm(x, q).bmp = x.bmp /\ Rm(x, q).avl.lbas = x.avl.lbas
          /\ Rm(x, q).avl.segs = x.avl.segs \ {q}
          /\ BlocksOf(Rm(x, q).avl.segs) = BlocksOf(x.avl.segs) \ (q[1]..(q[2] - 1))
      BY <1>9, <3>3, RmOK
    <3>5. (q[1]..(q[2] - 1)) \subseteq BlocksOf(x.avl.segs) BY InBlocksOf, <3>3
    <3>6. hi \in Nat /\ end <= hi /\ hi <= Size BY <1>1, <3>1, <3>2
    <3>7. BlocksOf(x.avl.segs) = BlocksOf(y.avl.segs) \cup (end..(hi - 1))
      BY <3>1, <3>2, <3>4, <3>5
    <3>8. \A h : h \in y.avl.segs <=> h \in s.avl.segs /\ h[2] # start /\ h[1] # end
      BY <1>5, <1>9, <2>1, <3>1, <3>2, <3>4
    <3> HIDE DEF y, hi, lo
    <3> QED BY <1>9, <3>1, <3>4, <3>6, <3>7, <3>8
  <2>2. CASE ~A
    <3>1. y = x /\ hi = end BY <2>2
    <3>2. end..(end - 1) = {} OBVIOUS
    <3>3. \A h : h \in x.avl.segs <=> h \in s.avl.segs /\ h[2] # start /\ h[1] # end
      BY <1>8, <1>9, <2>2
    <3> HIDE DEF y, hi, lo
    <3> QED BY <1>9, <3>1, <3>2, <3>3
  <2> QED BY <2>1, <2>2
<1> HIDE DEF y
<1>11. g \in Segments /\ g[1] = lo /\ g[2] = hi
  <2> HIDE DEF lo, hi
  <2> QED BY <1>9, <1>10, SegmentMade
<1>12. ASSUME NEW h \in y.avl.segs PROVE Apart(g, h)
  <2>1. h \in s.avl.segs /\ h[2] # start /\ h[1] # end BY <1>10
  <2>2. h[1] \in Nat /\ h[2] \in Nat /\ h[1] < h[2] /\ (h[2] < start \/ end < h[1])
    BY <1>1, <2>1
  <2>3. h[2] < start => h[2] < lo
    <3>1. CASE B
      <4>1. lo = p[1] BY <3>1
      <4>2. p \in s.avl.segs /\ p[2] = start BY <1>2, <3>1
      <4>3. Apart(h, p) BY <1>0, <2>1, <4>2 DEF Spread
      <4> QED BY <1>1, <2>2, <4>1, <4>2, <4>3 DEF Apart
    <3>2. CASE ~B BY <3>2
    <3> QED BY <3>1, <3>2
  <2>4. end < h[1] => hi < h[1]
    <3>1. CASE A
      <4>1. hi = q[2] BY <3>1
      <4>2. q \in s.avl.segs /\ q[1] = end BY <1>3, <3>1
      <4>3. Apart(h, q) BY <1>0, <2>1, <4>2 DEF Spread
      <4> QED BY <1>1, <2>2, <4>1, <4>2, <4>3 DEF Apart
    <3>2. CASE ~A BY <3>2
    <3> QED BY <3>1, <3>2
  <2> HIDE DEF g, lo, hi
  <2> QED BY <1>11, <2>2, <2>3, <2>4 DEF Apart
<1>13. Clear(g, y.bmp.l0)
  <2>1. ASSUME NEW b \in s.bmp.l0 PROVE b < lo - 1 \/ b > hi
    <3>0. b \in Nat
      <4>1. b \in Blocks BY DEF SpaceOK, SpaceType, MapType
      <4> QED BY <4>1, BlockIs
    <3>1. b < start - 1 => b < lo - 1
      <4>1. CASE B
        <5>1. lo = p[1] BY <4>1
        <5>2. p \in s.avl.segs /\ p[2] = start BY <1>2, <4>1
        <5>3. b < p[1] - 1 \/ b > p[2] BY <5>2 DEF SpaceOK, Clear
        <5> QED BY <1>1, <3>0, <5>1, <5>2, <5>3
      <4>2. CASE ~B BY <4>2
      <4> QED BY <4>1, <4>2
    <3>2. b > end => b > hi
      <4>1. CASE A
        <5>1. hi = q[2] BY <4>1
        <5>2. q \in s.avl.segs /\ q[1] = end BY <1>3, <4>1
        <5>3. b < q[1] - 1 \/ b > q[2] BY <5>2 DEF SpaceOK, Clear
        <5> QED BY <1>1, <3>0, <5>1, <5>2, <5>3
      <4>2. CASE ~A BY <4>2
      <4> QED BY <4>1, <4>2
    <3> QED BY <3>1, <3>2
  <2> HIDE DEF g, lo, hi
  <2> QED BY <1>10, <1>11, <2>1 DEF Clear
<1>14. Fresh(y, g) BY <1>11, <1>12, <1>13 DEF Fresh
<1>15. PICK t : t = TryInsertRange(y, g) OBVIOUS
<1>16. Joins(y, t, g) BY <1>10, <1>14, <1>15, TryInsertRangeOK
<1>17. SegBlocks(g) = (lo..(start - 1)) \cup (start..(end - 1)) \cup (end..(hi - 1))
  <2> HIDE DEF g, lo, hi
  <2>1. SegBlocks(g) = lo..(hi - 1) BY <1>11 DEF SegBlocks
  <2> QED BY <1>9, <1>10, <2>1
<1>18. FreeIn(t) = FreeIn(s) \cup (start..(end - 1))
  <2> HIDE DEF g, lo, hi
  <2> QED BY <1>9, <1>10, <1>16, <1>17 DEF Joins, FreeIn
<1>19. /\ SpaceOK(t) /\ t.avl.lbas = s.avl.lbas
       /\ ~Limited => t.bmp = s.bmp
       /\ Unseen(t.bmp) \subseteq Unseen(s.bmp)
  BY <1>10, <1>16 DEF Joins
<1> QED BY <1>6, <1>15, <1>18, <1>19 DEF Adds

(* The hybrid's bitmap changes and its tree does not.                       *)
LEMMA MapReplaced ==
  ASSUME NEW s \in SpaceType, NEW m \in MapType
  PROVE  /\ [s EXCEPT !.bmp = m] \in SpaceType
         /\ [s EXCEPT !.bmp = m].avl = s.avl
         /\ [s EXCEPT !.bmp = m].bmp = m
BY DEF SpaceType

(* Space stays sound when its bitmap is replaced by a smaller one.          *)
LEMMA SmallerMap ==
  ASSUME NEW s, SpaceOK(s), NEW m, MapOK(m), m.l0 \subseteq s.bmp.l0
  PROVE  /\ SpaceOK([s EXCEPT !.bmp = m])
         /\ [s EXCEPT !.bmp = m].avl = s.avl
         /\ [s EXCEPT !.bmp = m].bmp = m
<1>t. PICK t : t = [s EXCEPT !.bmp = m] OBVIOUS
<1>1. s \in SpaceType /\ m \in MapType BY DEF SpaceOK, MapOK
<1>2. t \in SpaceType /\ t.avl = s.avl /\ t.bmp = m BY <1>t, <1>1, MapReplaced
<1>3. \A g \in t.avl.segs : Clear(g, t.bmp.l0) BY <1>2 DEF SpaceOK, Clear
<1>4. SpaceOK(t) BY <1>2, <1>3 DEF SpaceOK
<1> QED BY <1>t, <1>2, <1>4

(* HybridAllocator::_add_to_tree(): the free neighbours leave the bitmap    *)
(* first, so that free space stays in one piece; and no block is out of     *)
(* sight afterwards in a region the range touches.                          *)
LEMMA AddToTreeOK ==
  ASSUME NEW s, SpaceOK(s), NEW start \in Nat, NEW end \in Nat,
         1 <= start, start < end, end <= Size,
         \A b \in start..(end - 1) : b \notin FreeIn(s),
         ~Limited => s.bmp.l0 = {}
  PROVE  /\ Adds(s, AddToTree(s, start, end), start, end)
         /\ \A b \in Unseen(AddToTree(s, start, end).bmp) :
              /\ b \in Unseen(s.bmp)
              /\ \A c \in start..(end - 1) : c \div RegionBlocks # b \div RegionBlocks
<1>t. PICK t : t = AddToTree(s, start, end) OBVIOUS
<1>0. /\ s.bmp.l0 \in SUBSET Blocks /\ MapOK(s.bmp) /\ Size \in Nat
  BY Geometry DEF SpaceOK, SpaceType, MapType
<1>1. CASE ~Limited
  <2>1. t = AvlAddToTree(s, start, end) BY <1>t, <1>1 DEF AddToTree
  <2>2. \A b \in start..(end - 1) : b \notin BlocksOf(s.avl.segs) BY DEF FreeIn
  <2>3. \A b \in s.bmp.l0 : b < start - 1 \/ b > end BY <1>1
  <2>4. Adds(s, t, start, end) /\ Unseen(t.bmp) \subseteq Unseen(s.bmp)
    BY <2>1, <2>2, <2>3, AvlAddToTreeOK
  <2>5. Unseen(s.bmp) = {} BY <1>1 DEF Unseen
  <2> QED BY <1>t, <2>4, <2>5
<1>2. CASE Limited
  <2> DEFINE left == LeftRun(s.bmp.l0, start)
             lo == start - Cardinality(left)
             m == Claim(s.bmp, left, lo, start)
             right == RightRun(m.l0, end)
             hi == end + Cardinality(right)
             n == Claim(m, right, end, hi)
             x == [s EXCEPT !.bmp = n]
  <2>1. t = AvlAddToTree(x, lo, hi)
    BY <1>t, <1>2 DEF AddToTree, ClaimFreeToLeft, ClaimFreeToRight
  <2>2. lo \in 1..start /\ left = lo..(start - 1) /\ lo - 1 \notin s.bmp.l0
    <3>1. start \in 1..Size BY <1>0
    <3> QED BY <1>0, <3>1, LeftRunIs
  <2> HIDE DEF lo
  <2>3. /\ MapOK(m) /\ m.l0 = s.bmp.l0 \ left
        /\ \A b \in Unseen(m) :
             b \in Unseen(s.bmp) /\ b \div RegionBlocks \notin RegionsOf(lo, start)
    <3>1. left \in SUBSET s.bmp.l0 BY DEF LeftRun
    <3>2. lo \in Nat /\ start <= Size BY <1>0, <2>2
    <3> HIDE DEF left
    <3>3. TakesRun(s.bmp, m, left, RegionsOf(lo, start)) BY <1>0, <3>1, <3>2, ClaimOK
    <3> HIDE DEF m
    <3> QED BY <3>3 DEF TakesRun
  <2> HIDE DEF m, left
  <2>4. hi \in end..Size /\ right = end..(hi - 1) /\ hi \notin m.l0
    <3>1. end \in 1..Size BY <1>0
    <3>2. m.l0 \in SUBSET Blocks BY <1>0, <2>3
    <3> QED BY <3>1, <3>2, RightRunIs
  <2> HIDE DEF hi
  <2>5. /\ MapOK(n) /\ n.l0 = m.l0 \ right
        /\ \A b \in Unseen(n) :
             b \in Unseen(m) /\ b \div RegionBlocks \notin RegionsOf(end, hi)
    <3>1. right \in SUBSET m.l0 BY DEF RightRun
    <3>2. hi \in Nat /\ hi <= Size BY <1>0, <2>4
    <3> HIDE DEF right
    <3>3. TakesRun(m, n, right, RegionsOf(end, hi)) BY <2>3, <3>1, <3>2, ClaimOK
    <3> HIDE DEF n
    <3> QED BY <3>3 DEF TakesRun
  <2>6. right \subseteq s.bmp.l0 BY <2>3 DEF RightRun
  <2> HIDE DEF n, right
  <2>7. SpaceOK(x) /\ x.avl = s.avl /\ x.bmp = n BY <2>3, <2>5, SmallerMap
  <2> HIDE DEF x
  <2>8. left \subseteq s.bmp.l0 BY DEF left, LeftRun
  <2>9. ASSUME NEW b \in s.bmp.l0 PROVE b \notin BlocksOf(s.avl.segs)
    <3> SUFFICES ASSUME b \in BlocksOf(s.avl.segs) PROVE FALSE OBVIOUS
    <3>1. PICK g \in s.avl.segs : b \in g[1]..(g[2] - 1) BY InBlocksOf
    <3>2. b < g[1] - 1 \/ b > g[2] BY DEF SpaceOK, Clear
    <3>3. g \in Segments BY DEF SpaceOK, SpaceType, TreeType
    <3>4. g[1] \in Nat /\ g[2] \in Nat BY <3>3, SegmentIs
    <3> QED BY <3>1, <3>2, <3>4
  <2>10. lo..(hi - 1) = left \cup (start..(end - 1)) \cup right
    BY <1>0, <2>2, <2>4
  <2>11. \A b \in lo..(hi - 1) : b \notin BlocksOf(x.avl.segs)
    BY <2>6, <2>7, <2>8, <2>9, <2>10 DEF FreeIn
  <2>12. ASSUME NEW b \in x.bmp.l0 PROVE b < lo - 1 \/ b > hi
    <3>1. b \in s.bmp.l0 /\ b \notin left /\ b \notin right /\ b \in m.l0
      BY <2>3, <2>5, <2>7
    <3>2. b \in Blocks BY <1>0, <3>1
    <3>3. b \in Nat BY <3>2, BlockIs
    <3>4. b \notin start..(end - 1) BY <3>1 DEF FreeIn
    <3>5. b \notin lo..(hi - 1) BY <2>10, <3>1, <3>4
    <3>6. b # lo - 1 /\ b # hi BY <2>2, <2>4, <3>1
    <3> QED BY <1>0, <2>2, <2>4, <3>3, <3>5, <3>6
  <2>13. lo \in Nat /\ hi \in Nat /\ 1 <= lo /\ lo < hi /\ hi <= Size BY <1>0, <2>2, <2>4
  <2>14. Adds(x, t, lo, hi) /\ Unseen(t.bmp) \subseteq Unseen(x.bmp)
    BY <2>1, <2>7, <2>11, <2>12, <2>13, AvlAddToTreeOK
  <2>15. Adds(s, t, start, end)
    <3>1. FreeIn(t) = FreeIn(x) \cup (lo..(hi - 1)) /\ SpaceOK(t) /\ t.avl.lbas = x.avl.lbas
      BY <2>14 DEF Adds
    <3>2. FreeIn(t) = FreeIn(s) \cup (start..(end - 1))
      BY <2>3, <2>5, <2>6, <2>7, <2>8, <2>10, <3>1 DEF FreeIn
    <3> QED BY <1>2, <2>7, <3>1, <3>2 DEF Adds
  <2>16. ASSUME NEW b \in Unseen(t.bmp)
         PROVE  /\ b \in Unseen(s.bmp)
                /\ \A c \in start..(end - 1) : c \div RegionBlocks # b \div RegionBlocks
    <3>1. b \in Unseen(n) BY <2>7, <2>14
    <3>2. b \in Unseen(m) /\ b \div RegionBlocks \notin RegionsOf(end, hi) BY <2>5, <3>1
    <3>3. b \in Unseen(s.bmp) /\ b \div RegionBlocks \notin RegionsOf(lo, start)
      BY <2>3, <3>2
    <3>4. b \in s.bmp.l0 BY <3>3 DEF Unseen
    <3>5. b \in Blocks BY <1>0, <3>4
    <3>6. b \in Nat BY <3>5, BlockIs
    <3>7. b \notin start..(end - 1) BY <3>4 DEF FreeIn
    <3>8. ASSUME NEW c \in start..(end - 1), c \div RegionBlocks = b \div RegionBlocks
          PROVE  FALSE
      <4>1. lo <= start /\ end <= hi BY <1>0, <2>2, <2>4
      <4>2. b \div RegionBlocks = c \div RegionBlocks BY <3>8
      <4>3. /\ c \div RegionBlocks \notin RegionsOf(lo, start)
            /\ c \div RegionBlocks \notin RegionsOf(end, hi)
        BY <3>2, <3>3, <4>2
      <4>4. b \in start..(end - 1)
        BY <2>13, <3>6, <4>1, <4>2, <4>3, RegionInside
      <4> QED BY <3>7, <4>4
    <3> QED BY <3>3, <3>8
  <2> QED BY <1>t, <2>15, <2>16
<1> QED BY <1>1, <1>2

(* What _process_range_removal() makes of s: the range is not free any      *)
(* more, and nothing comes into the tree that was not there.                *)
Removes(s, t, start, end) ==
  /\ SpaceOK(t)
  /\ FreeIn(t) = FreeIn(s) \ (start..(end - 1))
  /\ BlocksOf(t.avl.segs) \subseteq BlocksOf(s.avl.segs) \ (start..(end - 1))
  /\ t.avl.lbas = s.avl.lbas
  /\ Unseen(t.bmp) \subseteq Unseen(s.bmp)
  /\ ~Limited => t.bmp = s.bmp

(* A free block of the bitmap is in no segment.                             *)
LEMMA TreeApart ==
  ASSUME NEW s, SpaceOK(s), NEW b \in s.bmp.l0
  PROVE  b \notin BlocksOf(s.avl.segs)
<1> SUFFICES ASSUME b \in BlocksOf(s.avl.segs) PROVE FALSE OBVIOUS
<1>1. PICK g \in s.avl.segs : b \in g[1]..(g[2] - 1) BY InBlocksOf
<1>2. b < g[1] - 1 \/ b > g[2] BY DEF SpaceOK, Clear
<1>3. g \in Segments BY DEF SpaceOK, SpaceType, TreeType
<1>4. g[1] \in Nat /\ g[2] \in Nat BY <1>3, SegmentIs
<1> QED BY <1>1, <1>2, <1>4

(* A part of a segment that left the tree may come back.                    *)
LEMMA PartFresh ==
  ASSUME NEW s, SpaceOK(s), NEW g, Fresh(s, g), NEW a \in Nat, NEW b \in Nat,
         g[1] <= a, a < b, b <= g[2]
  PROVE  Fresh(s, <<a, b>>)
<1>1. g[1] \in Nat /\ g[2] \in Nat /\ 1 <= g[1] /\ g[2] <= Size BY SegmentIs DEF Fresh
<1>2. <<a, b>> \in Segments /\ <<a, b>>[1] = a /\ <<a, b>>[2] = b
  BY <1>1, Geometry, SegmentMade
<1>h. PICK h : h = <<a, b>> OBVIOUS
<1>3. ASSUME NEW k \in s.avl.segs PROVE Apart(h, k)
  <2>1. Apart(g, k) BY DEF Fresh
  <2>2. k \in Segments BY DEF SpaceOK, SpaceType, TreeType
  <2>3. k[1] \in Nat /\ k[2] \in Nat BY <2>2, SegmentIs
  <2> QED BY <1>1, <1>2, <1>h, <2>1, <2>3 DEF Apart
<1>4. ASSUME NEW x \in s.bmp.l0 PROVE x < h[1] - 1 \/ x > h[2]
  <2>1. x < g[1] - 1 \/ x > g[2] BY DEF Fresh, Clear
  <2>2. x \in Blocks BY DEF SpaceOK, SpaceType, MapType
  <2>3. x \in Nat BY <2>2, BlockIs
  <2> QED BY <1>1, <1>2, <1>h, <2>1, <2>3
<1>5. Fresh(s, h) BY <1>2, <1>3, <1>4, <1>h DEF Fresh, Clear
<1> QED BY <1>5, <1>h

(* _process_range_removal(): the rests on both sides stay free, wherever    *)
(* they go.                                                                 *)
LEMMA ProcessRangeRemovalOK ==
  ASSUME NEW s, SpaceOK(s), NEW g \in s.avl.segs, NEW start \in Nat, NEW end \in Nat,
         g[1] <= start, start < end, end <= g[2]
  PROVE  Removes(s, ProcessRangeRemoval(s, start, end, g), start, end)
<1>t. PICK t : t = ProcessRangeRemoval(s, start, end, g) OBVIOUS
<1> DEFINE gone == Rm(s, g)
           rest == <<end, g[2]>>
           head == <<g[1], start>>
           right == IF end = g[2] THEN gone ELSE TryInsertRange(gone, rest)
<1>0. /\ s.avl.segs \in SUBSET Segments /\ Spread(s.avl.segs) /\ g \in Segments
  BY DEF SpaceOK, SpaceType, TreeType, TreeOK
<1>1. g[1] \in Nat /\ g[2] \in Nat /\ 1 <= g[1] /\ g[1] < g[2] /\ g[2] <= Size
  BY <1>0, SegmentIs
<1>2. t = IF start = g[1] THEN right ELSE TryInsertRange(right, head)
  BY <1>t DEF ProcessRangeRemoval
<1>3. /\ SpaceOK(gone) /\ gone.bmp = s.bmp /\ gone.avl.segs = s.avl.segs \ {g}
      /\ gone.avl.lbas = s.avl.lbas
      /\ BlocksOf(gone.avl.segs) = BlocksOf(s.avl.segs) \ SegBlocks(g)
  BY RmOK DEF SegBlocks
<1>4. Fresh(gone, g)
  <2>1. \A h \in gone.avl.segs : Apart(g, h) BY <1>0, <1>3 DEF Spread
  <2>2. Clear(g, gone.bmp.l0) BY <1>3 DEF SpaceOK
  <2> HIDE DEF gone
  <2> QED BY <1>0, <2>1, <2>2 DEF Fresh
<1>5. SegBlocks(g) \subseteq BlocksOf(s.avl.segs) BY <1>0, OnlyInOne DEF SegBlocks
<1>6. \A b \in SegBlocks(g) : b \notin s.bmp.l0 BY <1>5, TreeApart
<1> HIDE DEF gone
(* the right rest *)
<1>7. /\ SpaceOK(right)
      /\ FreeIn(right) = FreeIn(gone) \cup (end..(g[2] - 1))
      /\ BlocksOf(right.avl.segs) \subseteq BlocksOf(gone.avl.segs) \cup (end..(g[2] - 1))
      /\ right.avl.lbas = s.avl.lbas
      /\ Unseen(right.bmp) \subseteq Unseen(s.bmp)
      /\ ~Limited => right.bmp = s.bmp
      /\ start # g[1] => Fresh(right, head)
  <2>1. CASE end = g[2]
    <3>1. right = gone BY <2>1
    <3>2. end..(g[2] - 1) = {} BY <1>1, <2>1
    <3>3. start # g[1] => Fresh(gone, head)
      BY <1>1, <1>3, <1>4, PartFresh
    <3> HIDE DEF right
    <3> QED BY <1>3, <3>1, <3>2, <3>3
  <2>2. CASE end # g[2]
    <3>0. end < g[2] BY <1>1, <2>2
    <3>1. right = TryInsertRange(gone, rest) BY <2>2
    <3>2. Fresh(gone, rest)
      <4>1. g[1] <= end /\ g[2] <= g[2] BY <1>1
      <4> QED BY <1>1, <1>3, <1>4, <3>0, <4>1, PartFresh
    <3>3. Joins(gone, right, rest) BY <1>3, <3>1, <3>2, TryInsertRangeOK
    <3>4. SegBlocks(rest) = end..(g[2] - 1) BY DEF SegBlocks
    <3>5. BlocksOf(right.avl.segs) \subseteq BlocksOf(gone.avl.segs) \cup (end..(g[2] - 1))
      <4>1. ASSUME NEW b \in BlocksOf(right.avl.segs)
            PROVE  b \in BlocksOf(gone.avl.segs) \cup (end..(g[2] - 1))
        <5>1. PICK h \in right.avl.segs : b \in h[1]..(h[2] - 1) BY InBlocksOf
        <5>2. h \in gone.avl.segs \/ h = rest BY <3>3 DEF Joins
        <5>3. h = rest => b \in SegBlocks(rest) BY <5>1 DEF SegBlocks
        <5> HIDE DEF right, rest
        <5> QED BY <3>4, <5>1, <5>2, <5>3, InBlocksOf
      <4> QED BY <4>1
    <3>6. start # g[1] => Fresh(right, head)
      <4> SUFFICES ASSUME start # g[1] PROVE Fresh(right, head) OBVIOUS
      <4>0. g[1] < start BY <1>1
      <4>1. Fresh(gone, head) BY <1>1, <1>3, <1>4, <4>0, PartFresh
      <4>2. head[1] = g[1] /\ head[2] = start /\ rest[1] = end /\ rest[2] = g[2] OBVIOUS
      <4> HIDE DEF right, head, rest
      <4>3. Apart(head, rest) BY <1>1, <4>2 DEF Apart
      <4>4. \A h \in right.avl.segs : Apart(head, h) BY <3>3, <4>1, <4>3 DEF Joins, Fresh
      <4>5. ASSUME NEW b \in right.bmp.l0 PROVE b < head[1] - 1 \/ b > head[2]
        <5>1. b \in gone.bmp.l0 \/ b \in BlocksOf(gone.avl.segs) \/ b \in SegBlocks(rest)
          BY <3>3 DEF Joins
        <5>2. CASE b \in gone.bmp.l0 BY <4>1, <5>2 DEF Fresh, Clear
        <5>3. CASE b \in BlocksOf(gone.avl.segs)
          <6>1. PICK h \in gone.avl.segs : b \in h[1]..(h[2] - 1) BY <5>3, InBlocksOf
          <6>2. Apart(head, h) BY <4>1 DEF Fresh
          <6>3. h[1] \in Nat /\ h[2] \in Nat BY <1>0, <1>3, SegmentIs
          <6> QED BY <1>1, <4>2, <6>1, <6>2, <6>3 DEF Apart
        <5>4. CASE b \in SegBlocks(rest) BY <1>1, <3>4, <4>2, <5>4
        <5> QED BY <5>1, <5>2, <5>3, <5>4
      <4> QED BY <4>1, <4>4, <4>5 DEF Fresh, Clear
    <3>7. /\ SpaceOK(right) /\ FreeIn(right) = FreeIn(gone) \cup (end..(g[2] - 1))
          /\ right.avl.lbas = s.avl.lbas /\ Unseen(right.bmp) \subseteq Unseen(s.bmp)
          /\ ~Limited => right.bmp = s.bmp
      BY <1>3, <3>3, <3>4 DEF Joins
    <3> HIDE DEF right
    <3> QED BY <3>5, <3>6, <3>7
  <2> QED BY <2>1, <2>2
<1> HIDE DEF right
<1>8. /\ SpaceOK(t)
      /\ FreeIn(t) = FreeIn(right) \cup (g[1]..(start - 1))
      /\ BlocksOf(t.avl.segs) \subseteq BlocksOf(right.avl.segs) \cup (g[1]..(start - 1))
      /\ t.avl.lbas = s.avl.lbas
      /\ Unseen(t.bmp) \subseteq Unseen(s.bmp)
      /\ ~Limited => t.bmp = s.bmp
  <2>1. CASE start = g[1]
    <3>1. t = right BY <1>2, <2>1
    <3>2. g[1]..(start - 1) = {} BY <1>1, <2>1
    <3> QED BY <1>7, <3>1, <3>2
  <2>2. CASE start # g[1]
    <3>1. t = TryInsertRange(right, head) BY <1>2, <2>2
    <3>3. Joins(right, t, head) BY <1>7, <2>2, <3>1, TryInsertRangeOK
    <3>4. SegBlocks(head) = g[1]..(start - 1) BY DEF SegBlocks
    <3>5. BlocksOf(t.avl.segs) \subseteq BlocksOf(right.avl.segs) \cup (g[1]..(start - 1))
      <4>1. ASSUME NEW b \in BlocksOf(t.avl.segs)
            PROVE  b \in BlocksOf(right.avl.segs) \cup (g[1]..(start - 1))
        <5>1. PICK h \in t.avl.segs : b \in h[1]..(h[2] - 1) BY InBlocksOf
        <5>2. h \in right.avl.segs \/ h = head BY <3>3 DEF Joins
        <5>3. h = head => b \in SegBlocks(head) BY <5>1 DEF SegBlocks
        <5> HIDE DEF head
        <5> QED BY <3>4, <5>1, <5>2, <5>3, InBlocksOf
      <4> QED BY <4>1
    <3> QED BY <1>7, <3>3, <3>4, <3>5 DEF Joins
  <2> QED BY <2>1, <2>2
<1>9. SegBlocks(g) = (g[1]..(start - 1)) \cup (start..(end - 1)) \cup (end..(g[2] - 1))
  BY <1>1 DEF SegBlocks
<1>10. /\ \A b \in start..(end - 1) : b \notin g[1]..(start - 1) /\ b \notin end..(g[2] - 1)
  BY <1>1
<1>11. FreeIn(t) = FreeIn(s) \ (start..(end - 1))
  BY <1>3, <1>5, <1>6, <1>7, <1>8, <1>9, <1>10 DEF FreeIn
<1>12. BlocksOf(t.avl.segs) \subseteq BlocksOf(s.avl.segs) \ (start..(end - 1))
  BY <1>3, <1>5, <1>7, <1>8, <1>9, <1>10
<1>13. Removes(s, t, start, end) BY <1>8, <1>11, <1>12 DEF Removes
<1> QED BY <1>13, <1>t

-----------------------------------------------------------------------------
(* Ranges that come back                                                    *)

(* A range of the device lies between its first block and its end.          *)
LEMMA RangeIs ==
  ASSUME NEW off \in Nat, NEW len \in Nat \ {0}, Span(off, len) \subseteq Blocks
  PROVE  /\ 1 <= off /\ off + len <= Size
         /\ off + len \in Nat /\ off < off + len
         /\ Span(off, len) = off..(off + len - 1)
<1>0. Size \in Nat BY Geometry
<1>1. off \in Span(off, len) /\ (off + len) - 1 \in Span(off, len) BY DEF Span
<1>2. off \in Blocks /\ (off + len) - 1 \in Blocks BY <1>1
<1>3. 1 <= off /\ (off + len) - 1 <= Size - 1 BY <1>0, <1>2 DEF Blocks
<1> QED BY <1>0, <1>3 DEF Span

(* Which of the two halves a class has: a plain tree has no bitmap, a plain *)
(* bitmap no tree.                                                          *)
KindOK(s) ==
  /\ kind \in {"avl", "bitmap", "hybrid"}
  /\ kind = "avl" => s.bmp.l0 = {}
  /\ kind = "bitmap" => s.avl.segs = {}

(* t is s with the blocks S free again, and no block is out of sight in a   *)
(* region that has one of S.                                                *)
Frees(s, t, S) ==
  /\ SpaceOK(t) /\ KindOK(t)
  /\ FreeIn(t) = FreeIn(s) \cup S
  /\ \A b \in Unseen(t.bmp) :
       b \in Unseen(s.bmp) /\ \A c \in S : c \div RegionBlocks # b \div RegionBlocks

(* init_add_free() and one interval of release(), in all three classes.     *)
LEMMA AddFreeOK ==
  ASSUME NEW s, SpaceOK(s), KindOK(s), NEW off \in Nat, NEW len \in Nat \ {0},
         Span(off, len) \subseteq Blocks, Span(off, len) \cap FreeIn(s) = {}
  PROVE  Frees(s, AddFree(s, off, len), Span(off, len))
<1>t. PICK t : t = AddFree(s, off, len) OBVIOUS
<1>1. /\ 1 <= off /\ off + len <= Size
      /\ off + len \in Nat /\ off < off + len
      /\ Span(off, len) = off..(off + len - 1)
  BY RangeIs
<1>2. CASE kind = "bitmap"
  <2>n. PICK n : n = MarkFree(s.bmp, off, len) OBVIOUS
  <2>1. t = [s EXCEPT !.bmp = n] BY <1>t, <1>2, <2>n DEF AddFree
  <2>2. s \in SpaceType /\ MapOK(s.bmp) /\ s.bmp \in MapType /\ TreeOK(s.avl)
    BY DEF SpaceOK, MapOK
  <2>3. Span(off, len) \cap s.bmp.l0 = {} BY DEF FreeIn
  <2>4. MapOK(n) /\ n.l0 = s.bmp.l0 \cup Span(off, len) /\ Unseen(n) \subseteq Unseen(s.bmp)
    BY <1>1, <2>2, <2>3, <2>n, MarkFreeOK
  <2>5. n.l2 = s.bmp.l2 \cup RegionsOf(off, off + len)
    <3>1. PICK m \in MapType : m = s.bmp BY <2>2
    <3>2. MarkFree(m, off, len).l2 = m.l2 \cup RegionsOf(off, off + len)
      BY DEF MarkFree, MarkL1OnL0, MapType
    <3> QED BY <3>1, <3>2, <2>n
  <2>6. t \in SpaceType /\ t.avl = s.avl /\ t.bmp = n
    BY <2>1, <2>2, <2>4, MapReplaced DEF MapOK
  <2>7. s.avl.segs = {} BY <1>2 DEF KindOK
  <2>8. ~Limited BY <1>2 DEF Limited
  <2>9. SpaceOK(t) BY <2>2, <2>4, <2>6, <2>7, <2>8 DEF SpaceOK
  <2>10. KindOK(t) BY <1>2, <2>6, <2>7 DEF KindOK
  <2>11. FreeIn(t) = FreeIn(s) \cup Span(off, len) BY <2>4, <2>6 DEF FreeIn
  <2>12. ASSUME NEW b \in Unseen(t.bmp)
         PROVE  b \in Unseen(s.bmp) /\ \A c \in Span(off, len) : c \div RegionBlocks # b \div RegionBlocks
    <3>1. b \in Unseen(s.bmp) BY <2>4, <2>6
    <3>2. b \div RegionBlocks \notin RegionsOf(off, off + len) BY <2>5, <2>6 DEF Unseen
    <3>3. ASSUME NEW c \in Span(off, len) PROVE c \div RegionBlocks \in RegionsOf(off, off + len)
      <4>1. c \in Nat /\ off <= c /\ c < off + len BY <1>1
      <4> QED BY <1>1, <4>1, InRegionsOf
    <3> QED BY <3>1, <3>2, <3>3
  <2> QED BY <1>t, <2>9, <2>10, <2>11, <2>12 DEF Frees
<1>3. CASE kind # "bitmap"
  <2>1. t = AddToTree(s, off, off + len) BY <1>t, <1>3 DEF AddFree
  <2>2. ~Limited => s.bmp.l0 = {} BY <1>3 DEF KindOK, Limited
  <2>e. PICK end \in Nat : end = off + len BY <1>1
  <2>3. \A b \in off..(end - 1) : b \notin FreeIn(s) BY <1>1, <2>e
  <2>a. off < end /\ end <= Size /\ t = AddToTree(s, off, end) BY <1>1, <2>1, <2>e
  <2>4. /\ Adds(s, t, off, end)
        /\ \A b \in Unseen(t.bmp) :
              /\ b \in Unseen(s.bmp)
              /\ \A c \in off..(end - 1) : c \div RegionBlocks # b \div RegionBlocks
    BY <1>1, <2>a, <2>2, <2>3, AddToTreeOK
  <2>5. KindOK(t)
    <3>1. kind \in {"avl", "bitmap", "hybrid"} BY DEF KindOK
    <3>2. kind = "avl" => t.bmp.l0 = {} BY <2>2, <2>4 DEF Adds, Limited
    <3> QED BY <1>3, <3>1, <3>2 DEF KindOK
  <2> QED BY <1>1, <1>t, <2>e, <2>4, <2>5 DEF Frees, Adds
<1> QED BY <1>2, <1>3

(* A range that is free as a whole is in one piece: in one segment of the   *)
(* tree, or in the bitmap.  init_rm_free() counts on it.                    *)
LEMMA InOnePiece ==
  ASSUME NEW s, SpaceOK(s), NEW off \in Nat, NEW len \in Nat \ {0},
         Span(off, len) \subseteq FreeIn(s), Holding(s, off, off + len) = {}
  PROVE  Span(off, len) \subseteq s.bmp.l0
<1>0. s \in SpaceType /\ Spread(s.avl.segs) /\ \A g \in s.avl.segs : Clear(g, s.bmp.l0)
  BY DEF SpaceOK, TreeOK
<1>1. s.avl.segs \in SUBSET Segments /\ s.bmp.l0 \in SUBSET Blocks BY <1>0, SpaceFields
<1>s. \A g \in s.avl.segs : g[1] \in Nat /\ g[2] \in Nat /\ g[1] < g[2] BY <1>1, SegmentIs
<1>l. \A b \in s.bmp.l0 : b \in Nat BY <1>1, BlockIs
<1> DEFINE end == off + len
<1>2. ASSUME NEW g \in s.avl.segs, NEW b \in Span(off, len), b \in g[1]..(g[2] - 1)
      PROVE  FALSE
  <2>1. g[1] \in Nat /\ g[2] \in Nat /\ g[1] < g[2] BY <1>s
  <2>2. b \in Nat /\ off <= b /\ b < end BY DEF Span
  <2>3. ~(g[1] <= off /\ end <= g[2]) BY DEF Holding
  <2>4. CASE off < g[1]
    <3>1. g[1] - 1 \in Span(off, len) BY <1>2, <2>1, <2>2, <2>4 DEF Span
    <3>2. g[1] - 1 \in FreeIn(s) BY <3>1
    <3>3. g[1] - 1 \notin s.bmp.l0 BY <1>0, <2>1 DEF Clear
    <3>4. PICK h \in s.avl.segs : g[1] - 1 \in h[1]..(h[2] - 1)
      BY <3>2, <3>3, InBlocksOf DEF FreeIn
    <3>5. h[1] \in Nat /\ h[2] \in Nat /\ h[1] < h[2] BY <1>s
    <3>6. h # g BY <2>1, <3>4
    <3>7. Apart(g, h) BY <1>0, <3>6 DEF Spread
    <3> QED BY <2>1, <3>4, <3>5, <3>7 DEF Apart
  <2>5. CASE g[2] < end
    <3>1. g[2] \in Span(off, len) BY <1>2, <2>1, <2>2, <2>5 DEF Span
    <3>2. g[2] \in FreeIn(s) BY <3>1
    <3>3. g[2] \notin s.bmp.l0 BY <1>0, <2>1 DEF Clear
    <3>4. PICK h \in s.avl.segs : g[2] \in h[1]..(h[2] - 1)
      BY <3>2, <3>3, InBlocksOf DEF FreeIn
    <3>5. h[1] \in Nat /\ h[2] \in Nat /\ h[1] < h[2] BY <1>s
    <3>6. h # g BY <2>1, <3>4
    <3>7. Apart(g, h) BY <1>0, <3>6 DEF Spread
    <3> QED BY <2>1, <3>4, <3>5, <3>7 DEF Apart
  <2> QED BY <2>1, <2>2, <2>3, <2>4, <2>5
<1>3. ASSUME NEW b \in Span(off, len) PROVE b \in s.bmp.l0
  <2>1. b \in FreeIn(s) OBVIOUS
  <2>2. b \notin BlocksOf(s.avl.segs) BY <1>2, InBlocksOf
  <2> QED BY <2>1, <2>2 DEF FreeIn
<1> QED BY <1>3

(* _remove_from_tree() of a range some segment holds.                       *)
LEMMA RemoveFromTreeOK ==
  ASSUME NEW s, SpaceOK(s), NEW start \in Nat, NEW end \in Nat, start < end,
         Holding(s, start, end) # {}
  PROVE  Removes(s, RemoveFromTree(s, start, end), start, end)
<1> DEFINE g == CHOOSE h \in Holding(s, start, end) : TRUE
<1>1. g \in Holding(s, start, end) OBVIOUS
<1>2. g \in s.avl.segs /\ g[1] <= start /\ end <= g[2] BY <1>1 DEF Holding
<1>3. RemoveFromTree(s, start, end) = ProcessRangeRemoval(s, start, end, g)
  BY DEF RemoveFromTree
<1> HIDE DEF g
<1> QED BY <1>2, <1>3, ProcessRangeRemovalOK

-----------------------------------------------------------------------------
(* Loops                                                                    *)

IsRun(x, n, base, step) ==
  x[0] = base /\ \A i \in 1..n : x[i] = step[<<x[i - 1], i>>]

(* A loop of n iterations whose body maps the states T to states T has a    *)
(* run from every state of T.                                               *)
LEMMA LoopRuns ==
  ASSUME NEW n \in Nat, NEW T, NEW base \in T, NEW step \in [T \X (1..n) -> T]
  PROVE  \E x \in [0..n -> T] : IsRun(x, n, base, step)
<1> DEFINE Run(x, k) == /\ x \in [0..k -> T] /\ x[0] = base
                        /\ \A i \in 1..k : x[i] = step[<<x[i - 1], i>>]
           S == {k \in 0..n : \E x : Run(x, k)}
<1>1. 0 \in S
  <2>1. Run([i \in 0..0 |-> base], 0) OBVIOUS
  <2> HIDE DEF Run
  <2> QED BY <2>1
<1>2. ASSUME NEW k \in 0..(n - 1), k \in S PROVE k + 1 \in S
  <2>1. PICK x : Run(x, k) BY <1>2
  <2>2. k + 1 \in 1..n /\ k \in Nat BY <1>2
  <2> DEFINE y == [i \in 0..(k + 1) |-> IF i = k + 1 THEN step[<<x[k], k + 1>>] ELSE x[i]]
  <2>3. step[<<x[k], k + 1>>] \in T BY <2>1, <2>2
  <2>4. y \in [0..(k + 1) -> T] BY <2>1, <2>2, <2>3
  <2>5. y[0] = base BY <2>1, <2>2
  <2>6. ASSUME NEW i \in 1..(k + 1) PROVE y[i] = step[<<y[i - 1], i>>]
    <3>1. CASE i = k + 1
      <4>1. y[i] = step[<<x[k], k + 1>>] BY <3>1, <2>2
      <4>2. y[i - 1] = x[k] BY <3>1, <2>2
      <4> QED BY <3>1, <4>1, <4>2
    <3>2. CASE i # k + 1
      <4>1. y[i] = x[i] /\ y[i - 1] = x[i - 1] /\ i \in 1..k BY <3>2, <2>2
      <4> QED BY <2>1, <4>1
    <3> QED BY <3>1, <3>2
  <2>7. Run(y, k + 1) BY <2>4, <2>5, <2>6
  <2> HIDE DEF Run
  <2> QED BY <2>2, <2>7
<1> HIDE DEF S
<1>3. \A k \in 0..n : k \in S BY <1>1, <1>2, LoopInduction
<1>4. n \in S BY <1>3
<1> QED BY <1>4 DEF S, IsRun

(* What the loop's state starts in and its body keeps, it ends in.          *)
LEMMA LoopEnds ==
  ASSUME NEW n \in Nat, NEW T, NEW x, x[0] \in T,
         \A i \in 1..n : x[i - 1] \in T => x[i] \in T
  PROVE  x[n] \in T
<1> DEFINE S == {k \in 0..n : x[k] \in T}
<1>1. 0 \in S OBVIOUS
<1>2. ASSUME NEW k \in 0..(n - 1), k \in S PROVE k + 1 \in S
  <2>1. k + 1 \in 1..n /\ (k + 1) - 1 = k BY <1>2
  <2>2. x[(k + 1) - 1] \in T => x[k + 1] \in T BY <2>1
  <2> QED BY <1>2, <2>1, <2>2
<1> HIDE DEF S
<1>3. \A k \in 0..n : k \in S BY <1>1, <1>2, LoopInduction
<1>4. n \in S BY <1>3
<1> QED BY <1>4 DEF S

-----------------------------------------------------------------------------
(* The search for a segment                                                 *)

(* range_tree_ in order: every place of the walk holds a segment.           *)
LEMMA ByOffsetIn ==
  ASSUME NEW segs \in SUBSET Segments, Spread(segs)
  PROVE  ByOffset(segs) \in Seq(segs)
<1> DEFINE n == Cardinality(segs)
           below == [x \in segs |-> { y \in segs : y[1] < x[1] }]
<1>1. IsFiniteSet(segs) /\ n \in Nat BY SegmentsFinite
<1>2. \A g \in segs : g[1] \in Nat /\ g[2] \in Nat /\ g[1] < g[2] BY SegmentIs
<1>3. below \in [segs -> SUBSET segs] OBVIOUS
<1>4. \A x \in segs : x \notin below[x] BY <1>2
<1>5. \A x, y \in segs : x \in below[y] => below[x] \subseteq below[y] BY <1>2
<1>6. \A x, y \in segs : x = y \/ x \in below[y] \/ y \in below[x]
  BY <1>2 DEF Spread, Apart
<1> HIDE DEF below
<1>7. \A k \in 0..(n - 1) : \E x \in segs : Cardinality(below[x]) = k
  BY <1>1, <1>3, <1>4, <1>5, <1>6, Ranked
<1>8. ASSUME NEW i \in 1..n
      PROVE  (CHOOSE x \in segs : Cardinality({ y \in segs : y[1] < x[1] }) = i - 1) \in segs
  <2>1. i - 1 \in 0..(n - 1) BY <1>1
  <2>2. PICK x \in segs : Cardinality(below[x]) = i - 1 BY <1>7, <2>1
  <2>3. Cardinality({ y \in segs : y[1] < x[1] }) = i - 1 BY <2>2 DEF below
  <2> QED BY <2>3
<1>9. ByOffset(segs) =
        [i \in 1..n |-> CHOOSE x \in segs : Cardinality({ y \in segs : y[1] < x[1] }) = i - 1]
  BY DEF ByOffset, Sorted
<1>10. ByOffset(segs) \in [1..n -> segs] BY <1>8, <1>9
<1> QED BY <1>1, <1>10

(* range_size_tree_ in order.                                               *)
LEMMA BySizeIn ==
  ASSUME NEW segs \in SUBSET Segments
  PROVE  BySize(segs) \in Seq(segs)
<1> DEFINE n == Cardinality(segs)
           below == [x \in segs |-> { y \in segs : Shorter(y, x) }]
<1>1. IsFiniteSet(segs) /\ n \in Nat BY SegmentsFinite
<1>2. \A g \in segs : g = <<g[1], g[2]>> /\ g[1] \in Nat /\ g[2] \in Nat /\ SegLen(g) \in Nat /\ SegLen(g) = g[2] - g[1]
  BY SegmentIs, SegmentSize DEF SegLen
<1>3. below \in [segs -> SUBSET segs] OBVIOUS
<1>4. \A x \in segs : x \notin below[x] BY <1>2 DEF Shorter
<1>5. \A x, y, z \in segs : Shorter(x, y) /\ Shorter(z, x) => Shorter(z, y)
  BY <1>2 DEF Shorter
<1>6. \A x, y \in segs : x \in below[y] => below[x] \subseteq below[y] BY <1>5
<1>7. \A x, y \in segs : x = y \/ x \in below[y] \/ y \in below[x]
  <2>1. ASSUME NEW x \in segs, NEW y \in segs, SegLen(x) = SegLen(y), x[1] = y[1] PROVE x = y
    <3>1. x[2] = y[2] BY <1>2, <2>1
    <3> QED BY <1>2, <2>1, <3>1
  <2>2. ASSUME NEW x \in segs, NEW y \in segs PROVE x = y \/ Shorter(x, y) \/ Shorter(y, x)
    BY <1>2, <2>1 DEF Shorter
  <2> QED BY <2>2
<1> HIDE DEF below
<1>8. \A k \in 0..(n - 1) : \E x \in segs : Cardinality(below[x]) = k
  BY <1>1, <1>3, <1>4, <1>6, <1>7, Ranked
<1>9. ASSUME NEW i \in 1..n
      PROVE  (CHOOSE x \in segs : Cardinality({ y \in segs : Shorter(y, x) }) = i - 1) \in segs
  <2>1. i - 1 \in 0..(n - 1) BY <1>1
  <2>2. PICK x \in segs : Cardinality(below[x]) = i - 1 BY <1>8, <2>1
  <2>3. Cardinality({ y \in segs : Shorter(y, x) }) = i - 1 BY <2>2 DEF below
  <2> QED BY <2>3
<1>10. BySize(segs) =
        [i \in 1..n |-> CHOOSE x \in segs : Cardinality({ y \in segs : Shorter(y, x) }) = i - 1]
  BY DEF BySize, Sorted
<1>11. BySize(segs) \in [1..n -> segs] BY <1>9, <1>10
<1> QED BY <1>1, <1>11

(* A place the search found: the start of a piece of the given size inside  *)
(* a segment.                                                               *)
Found(start, size, segs) ==
  start \in Nat /\ \E g \in segs : g[1] <= start /\ start + size <= g[2]

(* A segment that fits holds the piece that is cut at its first aligned     *)
(* block.                                                                   *)
LEMMA FitsFound ==
  ASSUME NEW segs \in SUBSET Segments, NEW g \in segs, NEW size \in Nat \ {0},
         NEW unit \in Nat \ {0}, Fits(g, size, unit)
  PROVE  Found(RoundUp(g[1], unit), size, segs)
<1>1. g[1] \in Nat BY SegmentIs
<1>2. RoundUp(g[1], unit) \in Nat /\ g[1] <= RoundUp(g[1], unit) BY <1>1, RoundedUp
<1> QED BY <1>2 DEF Fits, Found

(* _pick_block_after(), whatever the cursor and wherever the search stops.  *)
LEMMA PickBlockAfterIs ==
  ASSUME NEW segs \in SUBSET Segments, Spread(segs), NEW cursor, NEW size \in Nat \ {0},
         NEW unit \in Nat \ {0}, NEW giveUp
  PROVE  \/ PickBlockAfter(segs, cursor, size, unit, giveUp) = None
         \/ Found(PickBlockAfter(segs, cursor, size, unit, giveUp), size, segs)
<1> DEFINE s1 == { g \in segs : g[2] > cursor }
           s2 == { g \in segs : cursor # 0 /\ g[2] <= cursor }
           q1 == ByOffset(s1)
           q2 == ByOffset(s2)
           q == q1 \o q2
           hits == { i \in DOMAIN q :
                  /\ Fits(q[i], size, unit)
                  /\ \A j \in 1..(i - 1) : j <= SEARCH /\ Searched(q1, q2, j, giveUp) <= BYTES }
<1>1. s1 \in SUBSET Segments /\ Spread(s1) /\ s2 \in SUBSET Segments /\ Spread(s2)
      /\ s1 \subseteq segs /\ s2 \subseteq segs
  BY DEF Spread
<1>2. PickBlockAfter(segs, cursor, size, unit, giveUp)
        = IF hits = {} THEN None ELSE RoundUp(q[Min(hits)][1], unit)
  BY DEF PickBlockAfter, FirstFit
<1> HIDE DEF s1, s2
<1>3. q1 \in Seq(s1) /\ q2 \in Seq(s2) BY <1>1, ByOffsetIn
<1>4. q1 \in Seq(segs) /\ q2 \in Seq(segs) BY <1>1, <1>3
<1> HIDE DEF q1, q2
<1>5. q \in Seq(segs) BY <1>4
<1> HIDE DEF q
<1>6. hits \in SUBSET Nat /\ \A i \in hits : q[i] \in segs /\ Fits(q[i], size, unit) BY <1>5
<1> HIDE DEF hits
<1>7. CASE hits = {} BY <1>2, <1>7
<1>8. CASE hits # {}
  <2>1. Min(hits) \in hits BY <1>6, <1>8, MinIn
  <2>2. q[Min(hits)] \in segs /\ Fits(q[Min(hits)], size, unit) BY <1>6, <2>1
  <2> QED BY <1>2, <1>8, <2>2, FitsFound
<1> QED BY <1>7, <1>8

(* _pick_block_fits()                                                       *)
LEMMA PickBlockFitsIs ==
  ASSUME NEW segs \in SUBSET Segments, NEW size \in Nat \ {0}, NEW unit \in Nat \ {0}
  PROVE  \/ PickBlockFits(segs, size, unit) = None
         \/ Found(PickBlockFits(segs, size, unit), size, segs)
<1> DEFINE s1 == { g \in segs : SegLen(g) >= size }
           q == BySize(s1)
           hits == { i \in DOMAIN q : i <= SEARCH /\ Fits(q[i], size, unit) }
<1>1. s1 \in SUBSET Segments /\ s1 \subseteq segs OBVIOUS
<1>2. PickBlockFits(segs, size, unit)
        = IF hits = {} THEN None ELSE RoundUp(q[Min(hits)][1], unit)
  BY DEF PickBlockFits, BestFit
<1> HIDE DEF s1
<1>3. q \in Seq(s1) BY <1>1, BySizeIn
<1>5. q \in Seq(segs) BY <1>1, <1>3
<1> HIDE DEF q
<1>6. hits \in SUBSET Nat /\ \A i \in hits : q[i] \in segs /\ Fits(q[i], size, unit) BY <1>5
<1> HIDE DEF hits
<1>7. CASE hits = {} BY <1>2, <1>7
<1>8. CASE hits # {}
  <2>1. Min(hits) \in hits BY <1>6, <1>8, MinIn
  <2>2. q[Min(hits)] \in segs /\ Fits(q[Min(hits)], size, unit) BY <1>6, <2>1
  <2> QED BY <1>2, <1>8, <2>2, FitsFound
<1> QED BY <1>7, <1>8

(* A piece to cut out of the tree, or nothing.                              *)
Piece(p, segs) == p.len \in Nat \ {0} /\ Found(p.start, p.len, segs)

(* The halving of _allocate_single() ends with nothing or with a piece of a *)
(* segment.                                                                 *)
LEMMA FallbackIs ==
  ASSUME NEW segs \in SUBSET Segments, NEW size \in Nat \ {0}, NEW unit \in Nat \ {0}
  PROVE  Fallback(segs, size, unit) = None \/ Piece(Fallback(segs, size, unit), segs)
<1> DEFINE fits == { n \in Halves(size, unit) : PickBlockFits(segs, n, unit) # None }
<1>1. Halves(size, unit) \subseteq 1..size BY DEF Halves
<1>2. fits \in SUBSET (0..size) /\ \A n \in fits : n \in Nat \ {0} BY <1>1
<1>3. \A n \in fits : PickBlockFits(segs, n, unit) # None OBVIOUS
<1>4. Fallback(segs, size, unit)
        = IF fits = {} THEN None
          ELSE [start |-> PickBlockFits(segs, Max(fits), unit), len |-> Max(fits), moved |-> FALSE]
  BY DEF Fallback
<1> HIDE DEF fits
<1>5. CASE fits = {} BY <1>4, <1>5
<1>6. CASE fits # {}
  <2>1. Max(fits) \in fits BY <1>2, <1>6, MaxIn
  <2>2. Max(fits) \in Nat \ {0} /\ PickBlockFits(segs, Max(fits), unit) # None
    BY <1>2, <1>3, <2>1
  <2>3. Found(PickBlockFits(segs, Max(fits), unit), Max(fits), segs)
    BY <2>2, PickBlockFitsIs
  <2> QED BY <1>4, <1>6, <2>2, <2>3 DEF Piece
<1> QED BY <1>5, <1>6

(* _allocate_single(): what it returns lies inside a segment.               *)
LEMMA AllocateSingleIs ==
  ASSUME NEW a \in TreeType, Spread(a.segs), NEW want \in Nat \ {0}, NEW unit \in Nat \ {0},
         NEW giveUp
  PROVE  \/ AllocateSingle(a, want, unit, giveUp) = None
         \/ Piece(AllocateSingle(a, want, unit, giveUp), a.segs)
<1> DEFINE lens == {0} \cup { SegLen(g) : g \in a.segs }
           maxSize == Max(lens)
           near == PickBlockAfter(a.segs, a.lbas[CursorOf(want)], want, unit, giveUp)
<1>0. a.segs \in SUBSET Segments BY DEF TreeType
<1>1. lens \in SUBSET (0..Size) /\ lens # {}
  <2>1. Size \in Nat BY Geometry
  <2>2. \A g \in a.segs : SegLen(g) \in Nat /\ SegLen(g) <= Size BY <1>0, SegmentSize
  <2> QED BY <2>1, <2>2
<1> HIDE DEF lens
<1>2. maxSize \in Nat
  <2>1. Size \in Nat BY Geometry
  <2>2. maxSize \in lens BY <1>1, <2>1, MaxIn
  <2> HIDE DEF maxSize
  <2> QED BY <1>1, <2>1, <2>2
<1>3. AllocateSingle(a, want, unit, giveUp) = Single(a, maxSize, want, unit, giveUp)
  BY DEF AllocateSingle, lens
<1> HIDE DEF maxSize
<1>4. Fallback(a.segs, want, unit) = None \/ Piece(Fallback(a.segs, want, unit), a.segs)
  BY <1>0, FallbackIs
<1>5. ASSUME maxSize >= unit
      PROVE  \/ Fallback(a.segs, AlignDown(maxSize, unit), unit) = None
             \/ Piece(Fallback(a.segs, AlignDown(maxSize, unit), unit), a.segs)
  <2>1. AlignDown(maxSize, unit) \in Nat /\ maxSize < AlignDown(maxSize, unit) + unit
    BY <1>2, Quotient DEF AlignDown
  <2>2. AlignDown(maxSize, unit) \in Nat \ {0} BY <1>2, <1>5, <2>1
  <2> QED BY <1>0, <2>2, FallbackIs
<1>6. NearOrBest(a.segs, near, want, unit) = None \/ Piece(NearOrBest(a.segs, near, want, unit), a.segs)
  <2>1. near = None \/ Found(near, want, a.segs) BY <1>0, PickBlockAfterIs
  <2> HIDE DEF near
  <2>2. CASE near = None BY <1>4, <2>2 DEF NearOrBest
  <2>3. CASE near # None
    <3>1. NearOrBest(a.segs, near, want, unit) = [start |-> near, len |-> want, moved |-> TRUE]
      BY <2>3 DEF NearOrBest
    <3> QED BY <2>1, <2>3, <3>1 DEF Piece
  <2> QED BY <2>2, <2>3
<1>7. \/ Single(a, maxSize, want, unit, giveUp) = None
      \/ Single(a, maxSize, want, unit, giveUp) = Fallback(a.segs, want, unit)
      \/ /\ Single(a, maxSize, want, unit, giveUp) = Fallback(a.segs, AlignDown(maxSize, unit), unit)
         /\ maxSize >= unit
      \/ Single(a, maxSize, want, unit, giveUp) = NearOrBest(a.segs, near, want, unit)
  BY DEF Single
<1> HIDE DEF near
<1> QED BY <1>3, <1>4, <1>5, <1>6, <1>7

-----------------------------------------------------------------------------
(* Answers                                                                  *)

Exts == Nat \X (Nat \ {0})

(* What an answer hands out twice.                                          *)
Twice(s) ==
  { b \in SeqCovered(s) : \E i, j \in DOMAIN s :
      i # j /\ b \in Span(s[i][1], s[i][2]) \cap Span(s[j][1], s[j][2]) }

(* A block is in an answer when one of its extents covers it.               *)
LEMMA InSeqCovered ==
  ASSUME NEW s, NEW b
  PROVE  b \in SeqCovered(s) <=> \E i \in DOMAIN s : b \in Span(s[i][1], s[i][2])
BY DEF SeqCovered, Covered, Range

(* What was handed out wrongly: blocks that were not free, and blocks given *)
(* twice.                                                                   *)
LEMMA StolenIs ==
  ASSUME NEW s, NEW had
  PROVE  Stolen(s, had) = (SeqCovered(s) \ had) \cup Twice(s)
BY DEF Stolen, Twice

(* An empty answer hands out nothing.                                       *)
LEMMA NoExtents ==
  /\ <<>> \in Seq(Exts) /\ SeqCovered(<<>>) = {} /\ Twice(<<>>) = {}
<1>1. SeqCovered(<<>>) = {} BY InSeqCovered
<1> QED BY <1>1 DEF Twice

(* PExtentVector::emplace_back(): one more extent.                          *)
LEMMA Appended ==
  ASSUME NEW s \in Seq(Exts), NEW off \in Nat, NEW len \in Nat \ {0}
  PROVE  /\ Append(s, <<off, len>>) \in Seq(Exts)
         /\ SeqCovered(Append(s, <<off, len>>)) = SeqCovered(s) \cup Span(off, len)
         /\ Twice(Append(s, <<off, len>>)) = Twice(s) \cup (SeqCovered(s) \cap Span(off, len))
<1>t. PICK t : t = Append(s, <<off, len>>) OBVIOUS
<1>n. PICK n \in Nat : n = Len(s) OBVIOUS
<1>1. /\ t \in Seq(Exts) /\ DOMAIN t = 1..(n + 1) /\ DOMAIN s = 1..n
      /\ \A i \in 1..n : t[i] = s[i]
      /\ t[n + 1] = <<off, len>>
  BY <1>t, <1>n DEF Exts
<1>2. t[n + 1][1] = off /\ t[n + 1][2] = len BY <1>1
<1>3. \A i \in 1..(n + 1) : i \in 1..n \/ i = n + 1 BY <1>n
<1>4. \A i \in 1..n : i \in 1..(n + 1) /\ i # n + 1 BY <1>n
<1>5. n + 1 \in 1..(n + 1) BY <1>n
<1>6. ASSUME NEW b PROVE b \in SeqCovered(t) <=> b \in SeqCovered(s) \/ b \in Span(off, len)
  <2>1. b \in SeqCovered(t) <=> \E i \in 1..(n + 1) : b \in Span(t[i][1], t[i][2])
    BY <1>1, InSeqCovered
  <2>2. b \in SeqCovered(s) <=> \E i \in 1..n : b \in Span(s[i][1], s[i][2])
    BY <1>1, InSeqCovered
  <2>3. \A i \in 1..n : t[i] = s[i] BY <1>1
  <2> HIDE <1>1
  <2> QED BY <1>2, <1>3, <1>4, <1>5, <2>1, <2>2, <2>3
<1>7. ASSUME NEW b
      PROVE  b \in Twice(t) <=> b \in Twice(s) \/ (b \in SeqCovered(s) /\ b \in Span(off, len))
  <2> DEFINE In(q, i) == b \in Span(q[i][1], q[i][2])
  <2>1. b \in Twice(t) <=> \E i, j \in 1..(n + 1) : i # j /\ In(t, i) /\ In(t, j)
    BY <1>1, InSeqCovered DEF Twice
  <2>2. b \in Twice(s) <=> \E i, j \in 1..n : i # j /\ In(s, i) /\ In(s, j)
    BY <1>1, InSeqCovered DEF Twice
  <2>3. b \in SeqCovered(s) <=> \E i \in 1..n : In(s, i)
    BY <1>1, InSeqCovered
  <2>4. \A i \in 1..n : In(t, i) <=> In(s, i) BY <1>1
  <2>5. In(t, n + 1) <=> b \in Span(off, len) BY <1>2
  <2> HIDE DEF In
  <2> QED BY <1>3, <1>4, <1>5, <2>1, <2>2, <2>3, <2>4, <2>5
<1> QED BY <1>1, <1>6, <1>7, <1>t

-----------------------------------------------------------------------------
(* AvlAllocator::_allocate()                                                *)

(* Pieces were cut out of the tree of s: each block of them was in the tree *)
(* and left it, none was taken twice, and nothing else changed hands.       *)
Cuts(s, r) ==
  /\ SpaceOK(r.s)
  /\ r.ext \in Seq(Exts) /\ r.got \in Nat
  /\ FreeIn(r.s) = FreeIn(s) \ SeqCovered(r.ext)
  /\ SeqCovered(r.ext) \subseteq BlocksOf(s.avl.segs)
  /\ BlocksOf(r.s.avl.segs) \subseteq BlocksOf(s.avl.segs) \ SeqCovered(r.ext)
  /\ Twice(r.ext) = {}
  /\ Unseen(r.s.bmp) \subseteq Unseen(s.bmp)
  /\ ~Limited => r.s.bmp = s.bmp

(* A cursor that moves leaves the rest of the allocator alone.              *)
LEMMA CursorMoved ==
  ASSUME NEW s, SpaceOK(s), NEW l \in [Aligns -> 0..Size], NEW t,
         t = [s EXCEPT !.avl.lbas = l]
  PROVE  /\ SpaceOK(t) /\ t.avl.segs = s.avl.segs /\ t.bmp = s.bmp
<1>1. /\ s \in SpaceType /\ TreeOK(s.avl) /\ MapOK(s.bmp)
      /\ \A g \in s.avl.segs : Clear(g, s.bmp.l0)
      /\ Limited => Cardinality(s.avl.segs) <= CAP
  BY DEF SpaceOK
<1>2. s.avl \in TreeType /\ s.avl.segs \in SUBSET Segments /\ s.avl.numFree \in Nat
  BY <1>1, SpaceFields
<1>3. t.bmp = s.bmp BY <1>1 DEF SpaceType
<1>4. t.avl.segs = s.avl.segs /\ t.avl.numFree = s.avl.numFree /\ t.avl.lbas = l
  BY <1>1, <1>2 DEF SpaceType, TreeType
<1>5. t.avl = [segs |-> t.avl.segs, numFree |-> t.avl.numFree, lbas |-> t.avl.lbas]
  BY <1>1, <1>2 DEF SpaceType, TreeType
<1>6. t.avl \in TreeType BY <1>2, <1>4, <1>5, TreeFields
<1>7. t.avl \in TreeType => t \in SpaceType BY <1>1 DEF SpaceType
<1>8. TreeOK(t.avl) BY <1>1, <1>4, <1>6 DEF TreeOK
<1> QED BY <1>1, <1>3, <1>4, <1>6, <1>7, <1>8 DEF SpaceOK

(* One round of AvlAllocator::_allocate(): the piece leaves the tree and    *)
(* joins the answer.                                                        *)
LEMMA CutOK ==
  ASSUME NEW s, NEW r, Cuts(s, r), NEW p, p = None \/ Piece(p, r.s.avl.segs)
  PROVE  Cuts(s, Cut(r, p))
<1>1. CASE p = None BY <1>1 DEF Cut
<1>2. CASE p # None
  <2>r. PICK x : x = r.s OBVIOUS
  <2>0. SpaceOK(x) /\ x \in SpaceType /\ x.avl.segs \in SUBSET Segments /\ x.avl.lbas \in [Aligns -> 0..Size]
    BY <2>r, SpaceFields DEF Cuts, SpaceOK
  <2>1. p.start \in Nat /\ p.len \in Nat \ {0} BY <1>2 DEF Piece, Found
  <2>2. PICK g \in x.avl.segs : g[1] <= p.start /\ p.start + p.len <= g[2]
    BY <1>2, <2>r DEF Piece, Found
  <2>3. PICK end \in Nat : end = p.start + p.len BY <2>1
  <2>4. Size \in Nat /\ g[2] \in Nat /\ g[2] <= Size BY <2>0, SegmentIs, Geometry
  <2> DEFINE l == [a \in Aligns |->
                     IF p.moved /\ a = CursorOf(p.len) THEN p.start + p.len ELSE x.avl.lbas[a]]
  <2>5. l \in [Aligns -> 0..Size]
    <3>1. p.start + p.len \in 0..Size BY <2>2, <2>3, <2>4
    <3> QED BY <2>0, <3>1
  <2>y. PICK y : y = [x EXCEPT !.avl.lbas = l] OBVIOUS
  <2>6. Cut(r, p) = [s   |-> RemoveFromTree(y, p.start, p.start + p.len),
                     ext |-> Append(r.ext, <<p.start, p.len>>),
                     got |-> r.got + p.len]
    BY <1>2, <2>r, <2>y DEF Cut
  <2> HIDE DEF l
  <2>7. SpaceOK(y) /\ y.avl.segs = x.avl.segs /\ y.bmp = x.bmp
    BY <2>0, <2>5, <2>y, CursorMoved
  <2>8. Holding(y, p.start, end) # {} BY <2>2, <2>3, <2>7 DEF Holding
  <2>t. PICK t : t = RemoveFromTree(y, p.start, end) OBVIOUS
  <2>9. p.start < end /\ p.start..(end - 1) = Span(p.start, p.len) BY <2>1, <2>3 DEF Span
  <2>10. Removes(y, t, p.start, end) BY <2>1, <2>3, <2>7, <2>8, <2>9, <2>t, RemoveFromTreeOK
  <2>S. PICK S : S = Span(p.start, p.len) OBVIOUS
  <2>11. /\ SpaceOK(t) /\ FreeIn(t) = FreeIn(x) \ S
         /\ BlocksOf(t.avl.segs) \subseteq BlocksOf(x.avl.segs) \ S
         /\ Unseen(t.bmp) \subseteq Unseen(x.bmp)
         /\ ~Limited => t.bmp = x.bmp
    BY <2>7, <2>9, <2>10, <2>S DEF Removes, FreeIn
  <2>12. S \subseteq BlocksOf(x.avl.segs)
    <3>1. ASSUME NEW b \in S PROVE b \in g[1]..(g[2] - 1)
      <4>1. g[1] \in Nat BY <2>0, SegmentIs
      <4>2. b \in Int /\ p.start <= b /\ b < end BY <2>1, <2>3, <2>9, <2>S
      <4>3. g[1] <= p.start /\ end <= g[2] BY <2>2, <2>3
      <4> QED BY <2>1, <2>4, <4>1, <4>2, <4>3
    <3> QED BY <3>1, InBlocksOf
  <2>e. PICK e : e = Append(r.ext, <<p.start, p.len>>) OBVIOUS
  <2>13. /\ e \in Seq(Exts) /\ SeqCovered(e) = SeqCovered(r.ext) \cup S
         /\ Twice(e) = Twice(r.ext) \cup (SeqCovered(r.ext) \cap S)
    BY <2>1, <2>S, <2>e, Appended DEF Cuts
  <2>14. SeqCovered(r.ext) \cap S = {} BY <2>12, <2>r DEF Cuts
  <2>15. r.got + p.len \in Nat BY <2>1 DEF Cuts
  <2>16. Cut(r, p).s = t /\ Cut(r, p).ext = e /\ Cut(r, p).got = r.got + p.len
    BY <2>3, <2>6, <2>t, <2>e
  <2>17. /\ FreeIn(t) = FreeIn(s) \ SeqCovered(e)
         /\ SeqCovered(e) \subseteq BlocksOf(s.avl.segs)
         /\ BlocksOf(t.avl.segs) \subseteq BlocksOf(s.avl.segs) \ SeqCovered(e)
    BY <2>r, <2>11, <2>12, <2>13 DEF Cuts
  <2>18. Twice(e) = {} BY <2>13, <2>14 DEF Cuts
  <2>19. /\ Unseen(t.bmp) \subseteq Unseen(s.bmp)
         /\ ~Limited => t.bmp = s.bmp
    BY <2>r, <2>11 DEF Cuts
  <2> QED BY <2>11, <2>13, <2>15, <2>16, <2>17, <2>18, <2>19 DEF Cuts
<1> QED BY <1>1, <1>2

(* The loop of AvlAllocator::_allocate() goes on, or stops with what it     *)
(* has.                                                                     *)
LEMMA CutNextOK ==
  ASSUME NEW s, NEW r, Cuts(s, r), NEW want \in Nat \ {0}, NEW unit \in Nat \ {0},
         NEW max \in Nat \ {0}, NEW giveUp
  PROVE  Cuts(s, CutNext(r, want, unit, max, giveUp))
<1>1. CASE r.got >= want BY <1>1 DEF CutNext
<1>2. CASE ~(r.got >= want)
  <2>1. r.got \in Nat /\ SpaceOK(r.s) BY DEF Cuts
  <2> DEFINE m == Min({max, want - r.got})
  <2>2. m \in Nat \ {0}
    <3>1. {max, want - r.got} \in SUBSET (Nat \ {0}) BY <1>2, <2>1
    <3>2. m \in {max, want - r.got} BY <3>1, MinIn
    <3> HIDE DEF m
    <3> QED BY <3>1, <3>2
  <2>3. CutNext(r, want, unit, max, giveUp) = Cut(r, AllocateSingle(r.s.avl, m, unit, giveUp))
    BY <1>2 DEF CutNext
  <2> HIDE DEF m
  <2>4. r.s.avl \in TreeType /\ Spread(r.s.avl.segs) BY <2>1 DEF SpaceOK, TreeOK
  <2>p. PICK p : p = AllocateSingle(r.s.avl, m, unit, giveUp) OBVIOUS
  <2>5. p = None \/ Piece(p, r.s.avl.segs) BY <2>2, <2>4, <2>p, AllocateSingleIs
  <2> QED BY <2>3, <2>5, <2>p, CutOK
<1> QED BY <1>1, <1>2

(* AvlAllocator::_allocate(): only blocks of the tree leave, each once.     *)
LEMMA AvlAllocateOK ==
  ASSUME NEW s, SpaceOK(s), NEW want \in Nat \ {0}, NEW unit \in Nat \ {0},
         NEW max \in Nat \ {0}, NEW giveUp
  PROVE  Cuts(s, AvlAllocate(s, want, unit, max, giveUp))
<1> DEFINE Results == [s : SpaceType, ext : Seq(Exts), got : Nat]
           T == { r \in Results : Cuts(s, r) }
           base == [s |-> s, ext |-> <<>>, got |-> 0]
           step == [c \in T \X (1..want) |-> CutNext(c[1], want, unit, max, giveUp)]
           Def(f) == [i \in 0..want |-> IF i = 0 THEN base
                                        ELSE CutNext(f[i - 1], want, unit, max, giveUp)]
<1>1. base \in T
  <2>1. s \in SpaceType BY DEF SpaceOK
  <2>2. base \in Results BY <2>1, NoExtents
  <2>3. base.s = s /\ base.ext = <<>> /\ base.got = 0 OBVIOUS
  <2> HIDE DEF base, Results
  <2>4. Cuts(s, base) BY <2>3, NoExtents DEF Cuts
  <2> QED BY <2>2, <2>4
<1>2. ASSUME NEW r \in T PROVE CutNext(r, want, unit, max, giveUp) \in T
  <2>r. Cuts(s, r) OBVIOUS
  <2>c. PICK c : c = CutNext(r, want, unit, max, giveUp) OBVIOUS
  <2>1. Cuts(s, c) BY <2>r, <2>c, CutNextOK
  <2>2. c = r \/ c = [s |-> c.s, ext |-> c.ext, got |-> c.got]
    <3>1. c = r \/ \E p : c = Cut(r, p) BY <2>c DEF CutNext
    <3>2. ASSUME NEW p PROVE Cut(r, p) = r \/ \E a, e, k : Cut(r, p) = [s |-> a, ext |-> e, got |-> k]
      BY DEF Cut
    <3>3. c = r \/ \E a, e, k : c = [s |-> a, ext |-> e, got |-> k] BY <3>1, <3>2
    <3> QED BY <3>3
  <2>3. c.s \in SpaceType /\ c.ext \in Seq(Exts) /\ c.got \in Nat BY <2>1 DEF Cuts, SpaceOK
  <2>4. c \in Results BY <2>2, <2>3
  <2> HIDE DEF Results
  <2> QED BY <2>c, <2>1, <2>4
<1> HIDE DEF T, base
<1>3. step \in [T \X (1..want) -> T] BY <1>2
<1>w. want \in Nat OBVIOUS
<1>4. PICK x \in [0..want -> T] : IsRun(x, want, base, step)
  <2> HIDE DEF step
  <2> QED BY <1>1, <1>3, <1>w, LoopRuns
<1>5. ASSUME NEW i \in 1..want PROVE x[i] = CutNext(x[i - 1], want, unit, max, giveUp)
  <2>1. x[i - 1] \in T BY <1>4
  <2> QED BY <1>4, <2>1 DEF IsRun
<1>6. x = Def(x)
  <2>1. DOMAIN x = 0..want /\ x = [i \in 0..want |-> x[i]] BY <1>4
  <2>2. ASSUME NEW i \in 0..want PROVE x[i] = Def(x)[i] BY <1>4, <1>5 DEF IsRun
  <2> QED BY <2>1, <2>2
<1>y. PICK y : y = CHOOSE f : f = Def(f) OBVIOUS
<1>7. y = Def(y) BY <1>6, <1>y
<1>8. AvlAllocate(s, want, unit, max, giveUp) = y[want] BY <1>y DEF AvlAllocate, base
<1>9. y[0] = base /\ \A i \in 1..want : y[i] = CutNext(y[i - 1], want, unit, max, giveUp)
  <2>1. \A i \in 0..want : y[i] = Def(y)[i] BY <1>7
  <2> QED BY <2>1
<1>10. y[want] \in T
  <2>1. y[0] \in T BY <1>1, <1>9
  <2>2. \A i \in 1..want : y[i - 1] \in T => y[i] \in T BY <1>2, <1>9
  <2> QED BY <1>w, <2>1, <2>2, LoopEnds
<1> QED BY <1>8, <1>10 DEF T

-----------------------------------------------------------------------------
(* _fragment_and_emplace()                                                  *)

Lists(max) == Seq(Nat \X (1..max))

(* The answer out is ext with the blocks S handed out once more.            *)
HandsOut(ext, out, S, max) ==
  /\ out \in Lists(max)
  /\ SeqCovered(out) = SeqCovered(ext) \cup S
  /\ Twice(out) = Twice(ext) \cup (SeqCovered(ext) \cap S)

Both(u, s, t, E) ==
  /\ u \in Seq(E)
  /\ SeqCovered(u) = SeqCovered(s) \cup SeqCovered(t)
  /\ Twice(u) = Twice(s) \cup Twice(t) \cup (SeqCovered(s) \cap SeqCovered(t))

(* The tree's extents followed by the bitmap's: what they cover, and what   *)
(* they cover twice.                                                        *)
LEMMA Concatenated ==
  ASSUME NEW E, NEW s \in Seq(E), NEW t \in Seq(E)
  PROVE  Both(s \o t, s, t, E)
<1>u. PICK u : u = s \o t OBVIOUS
<1>n. PICK n \in Nat : n = Len(s) OBVIOUS
<1>k. PICK k \in Nat : k = Len(t) OBVIOUS
<1>1. /\ u \in Seq(E) /\ DOMAIN u = 1..(n + k) /\ DOMAIN s = 1..n /\ DOMAIN t = 1..k
      /\ \A i \in 1..n : u[i] = s[i]
      /\ \A i \in 1..k : u[n + i] = t[i]
  BY <1>u, <1>n, <1>k
<1>a. \A i \in 1..n : i \in 1..(n + k) BY <1>n, <1>k
<1>b. \A i \in 1..k : n + i \in 1..(n + k) BY <1>n, <1>k
<1>c. \A i \in 1..(n + k) : i \in 1..n \/ \E j \in 1..k : i = n + j
  <2> TAKE i \in 1..(n + k)
  <2>1. CASE i <= n BY <1>n, <1>k, <2>1
  <2>2. CASE i > n
    <3>1. i - n \in 1..k /\ i = n + (i - n) BY <1>n, <1>k, <2>2
    <3> QED BY <3>1
  <2> QED BY <1>n, <2>1, <2>2
<1>d. \A i \in 1..n, j \in 1..k : i # n + j BY <1>n, <1>k
<1>e. \A i, j \in 1..k : n + i = n + j => i = j BY <1>n, <1>k
<1>2. ASSUME NEW b
      PROVE  /\ b \in SeqCovered(u) <=> b \in SeqCovered(s) \/ b \in SeqCovered(t)
             /\ b \in Twice(u) <=> b \in Twice(s) \/ b \in Twice(t)
                                     \/ (b \in SeqCovered(s) /\ b \in SeqCovered(t))
  <2> DEFINE In(q, i) == b \in Span(q[i][1], q[i][2])
  <2>1. b \in SeqCovered(u) <=> \E i \in 1..(n + k) : In(u, i) BY <1>1, InSeqCovered
  <2>2. b \in SeqCovered(s) <=> \E i \in 1..n : In(s, i) BY <1>1, InSeqCovered
  <2>3. b \in SeqCovered(t) <=> \E i \in 1..k : In(t, i) BY <1>1, InSeqCovered
  <2>4. b \in Twice(u) <=> \E i, j \in 1..(n + k) : i # j /\ In(u, i) /\ In(u, j)
    BY <1>1, InSeqCovered DEF Twice
  <2>5. b \in Twice(s) <=> \E i, j \in 1..n : i # j /\ In(s, i) /\ In(s, j)
    BY <1>1, InSeqCovered DEF Twice
  <2>6. b \in Twice(t) <=> \E i, j \in 1..k : i # j /\ In(t, i) /\ In(t, j)
    BY <1>1, InSeqCovered DEF Twice
  <2>7. \A i \in 1..n : In(u, i) <=> In(s, i) BY <1>1
  <2>8. \A i \in 1..k : In(u, n + i) <=> In(t, i) BY <1>1
  <2> HIDE DEF In
  <2>9. b \in SeqCovered(u) <=> b \in SeqCovered(s) \/ b \in SeqCovered(t)
    BY <1>a, <1>b, <1>c, <2>1, <2>2, <2>3, <2>7, <2>8
  <2>10. b \in Twice(s) => b \in Twice(u) BY <1>a, <2>4, <2>5, <2>7
  <2>11. b \in Twice(t) => b \in Twice(u)
    <3> SUFFICES ASSUME b \in Twice(t) PROVE b \in Twice(u) OBVIOUS
    <3>1. PICK i \in 1..k, j \in 1..k : i # j /\ In(t, i) /\ In(t, j) BY <2>6
    <3>2. In(u, n + i) /\ In(u, n + j) /\ n + i # n + j BY <1>e, <2>8, <3>1
    <3> QED BY <1>b, <2>4, <3>2
  <2>12. b \in SeqCovered(s) /\ b \in SeqCovered(t) => b \in Twice(u)
    BY <1>a, <1>b, <1>d, <2>2, <2>3, <2>4, <2>7, <2>8
  <2>13. ASSUME b \in Twice(u)
         PROVE  b \in Twice(s) \/ b \in Twice(t) \/ (b \in SeqCovered(s) /\ b \in SeqCovered(t))
    <3>1. PICK i \in 1..(n + k), j \in 1..(n + k) : i # j /\ In(u, i) /\ In(u, j)
      BY <2>4, <2>13
    <3>2. CASE i \in 1..n /\ j \in 1..n BY <2>5, <2>7, <3>1, <3>2
    <3>3. CASE i \in 1..n /\ \E m \in 1..k : j = n + m BY <2>2, <2>3, <2>7, <2>8, <3>1, <3>3
    <3>4. CASE j \in 1..n /\ \E m \in 1..k : i = n + m BY <2>2, <2>3, <2>7, <2>8, <3>1, <3>4
    <3>5. CASE (\E m \in 1..k : i = n + m) /\ (\E m \in 1..k : j = n + m)
      <4>1. PICK m \in 1..k : i = n + m BY <3>5
      <4>2. PICK l \in 1..k : j = n + l BY <3>5
      <4>3. m # l /\ In(t, m) /\ In(t, l) BY <2>8, <3>1, <4>1, <4>2
      <4> QED BY <2>6, <4>3
    <3> QED BY <1>c, <3>2, <3>3, <3>4, <3>5
  <2> QED BY <2>9, <2>10, <2>11, <2>12, <2>13
<1>3. Both(u, s, t, E) BY <1>1, <1>2 DEF Both
<1> QED BY <1>3, <1>u

(* A run cut into pieces of at most max: the pieces cover it, each block    *)
(* once.                                                                    *)
LEMMA PiecesIs ==
  ASSUME NEW off \in Nat, NEW len \in Nat, NEW max \in Nat \ {0}
  PROVE  /\ Pieces(off, len, max) \in Lists(max)
         /\ SeqCovered(Pieces(off, len, max)) = Span(off, len)
         /\ Twice(Pieces(off, len, max)) = {}
<1>p. PICK p : p = Pieces(off, len, max) OBVIOUS
<1>q. PICK q \in Nat : /\ RoundUp(len, max) = q * max /\ RoundUp(len, max) \div max = q
                       /\ len <= q * max /\ q * max < len + max
  BY RoundedUp
<1>1. p = [i \in 1..q |-> <<off + (i - 1) * max, Min({max, len - (i - 1) * max})>>]
  BY <1>p, <1>q DEF Pieces
<1>2. ASSUME NEW i \in 1..q
      PROVE  /\ p[i] \in Nat \X (1..max)
             /\ \A b : b \in Span(p[i][1], p[i][2]) <=>
                         b \in Span(off, len) /\ (b - off) \div max = i - 1
  <2>1. PICK a \in Nat : a = (i - 1) * max
    <3>1. i - 1 \in Nat BY <1>q
    <3> QED BY <3>1, Multiples
  <2>2. a < len
    <3>1. i - 1 \in Nat /\ q - 1 \in Nat /\ i - 1 <= q - 1 /\ (q - 1) + 1 = q BY <1>q
    <3>2. (i - 1) * max <= (q - 1) * max /\ q * max = (q - 1) * max + max /\ (q - 1) * max \in Nat
      BY <3>1, Multiples
    <3> QED BY <1>q, <2>1, <3>2
  <2>3. PICK l : l = Min({max, len - a}) OBVIOUS
  <2>4. l \in 1..max /\ l <= len - a /\ (l = max \/ l = len - a)
    <3>1. {max, len - a} \in SUBSET Nat /\ {max, len - a} # {} BY <2>1, <2>2
    <3>2. l \in {max, len - a} /\ \A y \in {max, len - a} : l <= y BY <2>3, <3>1, MinIn
    <3> QED BY <2>1, <2>2, <3>2
  <2>5. p[i] = <<off + a, l>> BY <1>1, <2>1, <2>3
  <2>6. p[i] \in Nat \X (1..max) /\ p[i][1] = off + a /\ p[i][2] = l BY <2>1, <2>4, <2>5
  <2>7. ASSUME NEW b \in Nat, off <= b
        PROVE  (b - off) \div max = i - 1 <=> a <= b - off /\ b - off < a + max
    <3>1. b - off \in Nat /\ i - 1 \in Nat BY <1>q, <2>7
    <3>2. PICK c \in Nat : c = b - off BY <3>1
    <3>3. ASSUME a <= c, c < a + max PROVE c \div max = i - 1
      BY <2>1, <3>1, <3>3, QuotientUnique
    <3>4. ASSUME c \div max = i - 1 PROVE a <= c /\ c < a + max
      BY <2>1, <3>2, <3>4, Quotient
    <3> QED BY <3>2, <3>3, <3>4
  <2>8. ASSUME NEW b
        PROVE  b \in Span(off + a, l) <=> b \in Span(off, len) /\ (b - off) \div max = i - 1
    <3>1. b \in Span(off, len) => b \in Nat /\ off <= b BY DEF Span
    <3>2. b \in Span(off + a, l) => b \in Nat /\ off <= b BY <2>1, <2>4 DEF Span
    <3>3. ASSUME b \in Nat, off <= b
          PROVE  b \in Span(off + a, l) <=> b \in Span(off, len) /\ a <= b - off /\ b - off < a + max
      BY <2>1, <2>2, <2>4, <3>3 DEF Span
    <3> QED BY <2>7, <3>1, <3>2, <3>3
  <2> QED BY <2>6, <2>8
<1>3. p \in Lists(max) /\ DOMAIN p = 1..q
  <2>1. DOMAIN p = 1..q BY <1>1
  <2>2. p \in [1..q -> Nat \X (1..max)] BY <1>1, <1>2
  <2> QED BY <2>1, <2>2 DEF Lists
<1>4. ASSUME NEW b \in Span(off, len) PROVE b \in SeqCovered(p)
  <2>1. b - off \in Nat /\ b - off < len BY DEF Span
  <2>2. PICK k \in Nat : k = (b - off) \div max BY <2>1, Quotient
  <2>3. k * max <= b - off /\ k * max \in Nat BY <2>1, <2>2, Quotient
  <2>4. k * max < q * max /\ q * max \in Nat BY <1>q, <2>1, <2>3, Multiples
  <2>5. k < q BY <2>4, Multiples
  <2>6. k + 1 \in 1..q /\ (k + 1) - 1 = k BY <2>5
  <2>7. b \in Span(p[k + 1][1], p[k + 1][2]) BY <1>2, <2>2, <2>6
  <2> QED BY <1>3, <2>6, <2>7, InSeqCovered
<1>5. ASSUME NEW b \in SeqCovered(p) PROVE b \in Span(off, len)
  BY <1>2, <1>3, InSeqCovered
<1>6. ASSUME NEW b \in Twice(p) PROVE FALSE
  <2>1. PICK i \in 1..q, j \in 1..q : /\ i # j /\ b \in Span(p[i][1], p[i][2])
                                      /\ b \in Span(p[j][1], p[j][2])
    BY <1>3 DEF Twice
  <2>2. i - 1 = j - 1 BY <1>2, <2>1
  <2> QED BY <2>1, <2>2
<1> QED BY <1>3, <1>4, <1>5, <1>6, <1>p

(* A list that is not empty, as its front and its last extent.              *)
LEMMA FrontAndLast ==
  ASSUME NEW max \in Nat \ {0}, NEW s \in Lists(max), s # <<>>
  PROVE  /\ Front(s) \in Lists(max)
         /\ Last(s) = <<Last(s)[1], Last(s)[2]>>
         /\ Last(s)[1] \in Nat /\ Last(s)[2] \in 1..max
         /\ s = Append(Front(s), Last(s))
<1>n. PICK n \in Nat : n = Len(s) BY DEF Lists
<1>1. n # 0 BY <1>n DEF Lists
<1>2. n \in 1..n /\ n - 1 \in Nat /\ n - 1 <= n BY <1>1
<1>3. s[n] \in Nat \X (1..max) BY <1>n, <1>2 DEF Lists
<1>4. /\ Front(s) \in Lists(max) /\ Len(Front(s)) = n - 1
      /\ \A i \in 1..(n - 1) : Front(s)[i] = s[i]
  BY <1>n, <1>1, <1>2 DEF Front, Lists
<1>5. Last(s) = s[n] BY <1>n DEF Last
<1>6. s = Append(Front(s), s[n])
  <2>t. PICK t : t = Append(Front(s), s[n]) OBVIOUS
  <2>1. /\ t \in Lists(max) /\ Len(t) = n /\ t[n] = s[n]
        /\ \A i \in 1..(n - 1) : t[i] = s[i]
    BY <1>2, <1>3, <1>4, <2>t DEF Lists
  <2>2. \A i \in 1..n : t[i] = s[i] BY <1>1, <2>1
  <2>3. t \in Seq(Nat \X (1..max)) /\ s \in Seq(Nat \X (1..max)) /\ Len(s) = Len(t)
    BY <1>n, <2>1 DEF Lists
  <2>4. \A i \in 1..Len(t) : t[i] = s[i] BY <2>1, <2>2
  <2>5. t = s BY <2>3, <2>4, SeqEqual
  <2> QED BY <2>5, <2>t
<1> QED BY <1>3, <1>4, <1>5, <1>6

(* Extents of at most max are extents.                                      *)
LEMMA ListsAreExtents ==
  ASSUME NEW max \in Nat \ {0}, NEW s \in Lists(max)
  PROVE  s \in Seq(Exts)
<1>1. Nat \X (1..max) \subseteq Exts BY DEF Exts
<1> QED BY <1>1 DEF Lists

(* One more extent at the end of the answer.                                *)
LEMMA AppendedList ==
  ASSUME NEW max \in Nat \ {0}, NEW s \in Lists(max), NEW off \in Nat, NEW len \in 1..max
  PROVE  HandsOut(s, Append(s, <<off, len>>), Span(off, len), max)
<1>1. Append(s, <<off, len>>) \in Lists(max) BY DEF Lists
<1>2. s \in Seq(Exts) /\ len \in Nat \ {0} BY ListsAreExtents
<1> QED BY <1>1, <1>2, Appended DEF HandsOut

(* The last extent grows by the head of the run.                            *)
LEMMA GrownIs ==
  ASSUME NEW max \in Nat \ {0}, NEW ext \in Lists(max), NEW off \in Nat, NEW n \in Nat,
         n # 0 => /\ ext # <<>> /\ Last(ext)[1] + Last(ext)[2] = off
                  /\ n <= max - Last(ext)[2]
  PROVE  HandsOut(ext, Grown(ext, n), Span(off, n), max)
<1>1. CASE n = 0
  <2>1. Span(off, n) = {} BY <1>1 DEF Span
  <2> QED BY <1>1, <2>1 DEF Grown, HandsOut
<1>2. CASE n # 0
  <2>f. PICK f : f = Front(ext) OBVIOUS
  <2>1. PICK a \in Nat, l \in 1..max :
          f \in Lists(max) /\ ext = Append(f, <<a, l>>) /\ Last(ext)[1] = a /\ Last(ext)[2] = l
    BY <1>2, <2>f, FrontAndLast
  <2>2. a + l = off /\ l + n \in 1..max BY <1>2, <2>1
  <2>3. Grown(ext, n) = Append(f, <<a, l + n>>) BY <1>2, <2>1, <2>f DEF Grown
  <2>4. HandsOut(f, ext, Span(a, l), max) BY <2>1, AppendedList
  <2>5. HandsOut(f, Grown(ext, n), Span(a, l + n), max) BY <2>1, <2>2, <2>3, AppendedList
  <2>6. Span(a, l + n) = Span(a, l) \cup Span(off, n) /\ Span(a, l) \cap Span(off, n) = {}
    BY <2>1, <2>2 DEF Span
  <2> QED BY <2>4, <2>5, <2>6 DEF HandsOut
<1> QED BY <1>1, <1>2

(* _fragment_and_emplace(): the blocks of the run, and no others.           *)
LEMMA EmplaceOK ==
  ASSUME NEW max \in Nat \ {0}, NEW ext \in Lists(max), NEW off \in Nat, NEW len \in Nat \ {0}
  PROVE  HandsOut(ext, Emplace(ext, <<off, len>>, max), Span(off, len), max)
<1>n. PICK n : n = Joined(ext, <<off, len>>, max) OBVIOUS
<1>1. /\ n \in Nat /\ n <= len
      /\ n # 0 => /\ ext # <<>> /\ Last(ext)[1] + Last(ext)[2] = off
                  /\ n <= max - Last(ext)[2]
  <2>1. CASE ext # <<>> /\ Last(ext)[1] + Last(ext)[2] = off
    <3>1. Last(ext)[2] \in 1..max BY <2>1, FrontAndLast
    <3>2. n = Min({len, max - Last(ext)[2]}) BY <1>n, <2>1 DEF Joined
    <3>k. PICK k \in Nat : k = max - Last(ext)[2] BY <3>1
    <3>3. {len, k} \in SUBSET Nat /\ {len, k} # {} OBVIOUS
    <3>4. n \in {len, k} /\ \A y \in {len, k} : n <= y BY <3>2, <3>3, <3>k, MinIn
    <3> QED BY <2>1, <3>4, <3>k
  <2>2. CASE ~(ext # <<>> /\ Last(ext)[1] + Last(ext)[2] = off)
    BY <1>n, <2>2 DEF Joined
  <2> QED BY <2>1, <2>2
<1>g. PICK g : g = Grown(ext, n) OBVIOUS
<1>p. PICK p : p = Pieces(off + n, len - n, max) OBVIOUS
<1>2. Emplace(ext, <<off, len>>, max) = g \o p
  BY <1>n, <1>g, <1>p DEF Emplace, EmplaceAfter
<1>3. HandsOut(ext, g, Span(off, n), max) BY <1>1, <1>g, GrownIs
<1>4. /\ p \in Lists(max) /\ SeqCovered(p) = Span(off + n, len - n) /\ Twice(p) = {}
  <2>1. off + n \in Nat /\ len - n \in Nat BY <1>1
  <2> QED BY <1>p, <2>1, PiecesIs
<1>o. PICK o : o = Emplace(ext, <<off, len>>, max) OBVIOUS
<1>5. /\ o \in Lists(max)
      /\ SeqCovered(o) = SeqCovered(g) \cup SeqCovered(p)
      /\ Twice(o) = Twice(g) \cup Twice(p) \cup (SeqCovered(g) \cap SeqCovered(p))
  <2>1. o = g \o p BY <1>2, <1>o
  <2>2. g \in Lists(max) /\ p \in Lists(max) BY <1>3, <1>4 DEF HandsOut
  <2>3. Both(g \o p, g, p, Nat \X (1..max)) BY <2>2, Concatenated DEF Lists
  <2>4. Both(o, g, p, Nat \X (1..max)) BY <2>1, <2>3
  <2> QED BY <2>4 DEF Both, Lists
<1>6. /\ Span(off, len) = Span(off, n) \cup Span(off + n, len - n)
      /\ Span(off, n) \cap Span(off + n, len - n) = {}
  BY <1>1 DEF Span
<1>7. HandsOut(ext, o, Span(off, len), max) BY <1>3, <1>4, <1>5, <1>6 DEF HandsOut
<1> QED BY <1>7, <1>o

(* The blocks of taken in runs that begin at b or before.                   *)
Begun(taken, b) == { c \in taken : c <= b \/ (b..c) \subseteq taken }

(* The scan of _allocate_l0() at the next block: a new run begins, or       *)
(* nothing does.                                                            *)
LEMMA BegunNext ==
  ASSUME NEW taken \in SUBSET Blocks, NEW b \in 1..(Size - 1)
  PROVE  /\ (b \in taken /\ b - 1 \notin taken)
              => /\ Begun(taken, b) = Begun(taken, b - 1) \cup RightRun(taken, b)
                 /\ Begun(taken, b - 1) \cap RightRun(taken, b) = {}
         /\ ~(b \in taken /\ b - 1 \notin taken) => Begun(taken, b) = Begun(taken, b - 1)
<1>0. Size \in Nat /\ b \in Nat /\ \A c \in taken : c \in Nat BY Geometry, BlockIs
<1>1. ASSUME NEW c \in taken
      PROVE  /\ c \in Begun(taken, b) <=> c <= b \/ (b..c) \subseteq taken
             /\ c \in Begun(taken, b - 1) <=> c <= b - 1 \/ ((b - 1)..c) \subseteq taken
             /\ c \in RightRun(taken, b) <=> c >= b /\ (b..c) \subseteq taken
  BY DEF Begun, RightRun
<1>2. /\ Begun(taken, b) \subseteq taken /\ Begun(taken, b - 1) \subseteq taken
      /\ RightRun(taken, b) \subseteq taken
  BY DEF Begun, RightRun
<1>3. ASSUME NEW c \in taken
      PROVE  /\ c < b \/ c >= b
             /\ c <= b <=> c < b \/ c = b
             /\ c <= b - 1 <=> c < b
             /\ c >= b /\ ((b - 1)..c) \subseteq taken => b - 1 \in taken /\ b \in taken
             /\ c = b => (b..c) = {b}
  <2>1. c >= b => b - 1 \in (b - 1)..c /\ b \in (b - 1)..c BY <1>0
  <2>2. c \in Nat BY <1>0
  <2> QED BY <1>0, <2>1, <2>2
<1>4. ASSUME b \in taken, b - 1 \notin taken
      PROVE  /\ Begun(taken, b) = Begun(taken, b - 1) \cup RightRun(taken, b)
             /\ Begun(taken, b - 1) \cap RightRun(taken, b) = {}
  <2>1. ASSUME NEW c \in taken
        PROVE  /\ c \in Begun(taken, b) <=> c \in Begun(taken, b - 1) \/ c \in RightRun(taken, b)
               /\ ~(c \in Begun(taken, b - 1) /\ c \in RightRun(taken, b))
    <3>1. c = b => (b..c) \subseteq taken BY <1>3, <1>4
    <3>2. c \in Nat BY <1>0
    <3>3. c < b => ~(c >= b) BY <1>0, <3>2
    <3> QED BY <1>1, <1>3, <1>4, <3>1, <3>3
  <2> QED BY <1>2, <2>1
<1>5. ASSUME ~(b \in taken /\ b - 1 \notin taken)
      PROVE  Begun(taken, b) = Begun(taken, b - 1)
  <2>1. ASSUME NEW c \in taken
        PROVE  c \in Begun(taken, b) <=> c \in Begun(taken, b - 1)
    <3>0. c \in Nat BY <1>0
    <3>1. CASE c < b BY <1>1, <1>3, <3>1
    <3>2. CASE c >= b
      <4>1. b \in b..c BY <1>0, <3>0, <3>2
      <4>2. (b - 1)..c = {b - 1} \cup (b..c) BY <1>0, <3>0, <3>2
      <4>3. c = b => (b..c) \subseteq taken BY <1>3
      <4>4. ~(c <= b - 1) BY <1>0, <3>0, <3>2
      <4>5. c <= b => c = b BY <1>0, <3>0, <3>2
      <4> QED BY <1>1, <1>5, <4>1, <4>2, <4>3, <4>4, <4>5
    <3> QED BY <1>0, <3>0, <3>1, <3>2
  <2> QED BY <1>2, <2>1
<1> QED BY <1>4, <1>5

(* One block of the scan: a run that begins here joins the answer.          *)
LEMMA RunEmplaced ==
  ASSUME NEW max \in Nat \ {0}, NEW ext \in Lists(max), NEW taken \in SUBSET Blocks,
         NEW b \in 1..(Size - 1), NEW x, HandsOut(ext, x, Begun(taken, b - 1), max)
  PROVE  HandsOut(ext,
           IF b \in taken /\ b - 1 \notin taken
             THEN Emplace(x, <<b, RunLength(taken, b)>>, max) ELSE x,
           Begun(taken, b), max)
<1>1. CASE b \in taken /\ b - 1 \notin taken
  <2>0. x \in Lists(max) BY DEF HandsOut
  <2>1. RunLength(taken, b) \in Nat \ {0} /\ Span(b, RunLength(taken, b)) = RightRun(taken, b)
    BY <1>1, RunIs
  <2>2. b \in Nat BY Geometry
  <2>y. PICK y : y = Emplace(x, <<b, RunLength(taken, b)>>, max) OBVIOUS
  <2>3. HandsOut(x, y, RightRun(taken, b), max) BY <2>0, <2>1, <2>2, <2>y, EmplaceOK
  <2>4. /\ Begun(taken, b) = Begun(taken, b - 1) \cup RightRun(taken, b)
        /\ Begun(taken, b - 1) \cap RightRun(taken, b) = {}
    BY <1>1, BegunNext
  <2>5. HandsOut(ext, y, Begun(taken, b), max) BY <2>3, <2>4 DEF HandsOut
  <2> QED BY <1>1, <2>5, <2>y
<1>2. CASE ~(b \in taken /\ b - 1 \notin taken)
  <2>1. Begun(taken, b) = Begun(taken, b - 1) BY <1>2, BegunNext
  <2> QED BY <1>2, <2>1
<1> QED BY <1>1, <1>2

(* The runs of the blocks taken join the answer, each block once.           *)
LEMMA EmplaceRunsOK ==
  ASSUME NEW max \in Nat \ {0}, NEW ext \in Lists(max), NEW taken \in SUBSET Blocks, Size # 0
  PROVE  HandsOut(ext, EmplaceRuns(ext, taken, max), taken, max)
<1>n. PICK n \in Nat : n = Size - 1 BY Geometry
<1> DEFINE T == Lists(max)
           Body(x, b) == IF b \in taken /\ b - 1 \notin taken
                           THEN Emplace(x, <<b, RunLength(taken, b)>>, max) ELSE x
           step == [c \in T \X (1..n) |-> Body(c[1], c[2])]
           Def(f) == [b \in 0..n |-> IF b = 0 THEN ext
                        ELSE IF b \in taken /\ b - 1 \notin taken
                               THEN Emplace(f[b - 1], <<b, RunLength(taken, b)>>, max)
                               ELSE f[b - 1]]
<1>1. ASSUME NEW x \in T, NEW b \in 1..n PROVE Body(x, b) \in T
  <2>1. CASE b \in taken
    <3>1. RunLength(taken, b) \in Nat \ {0} /\ b \in Nat BY <2>1, RunIs
    <3>2. Emplace(x, <<b, RunLength(taken, b)>>, max) \in T BY <3>1, EmplaceOK DEF HandsOut
    <3> QED BY <3>2
  <2>2. CASE b \notin taken BY <2>2
  <2> QED BY <2>1, <2>2
<1>d. ASSUME NEW f PROVE Def(f) = [b \in 0..n |-> IF b = 0 THEN ext ELSE Body(f[b - 1], b)]
  OBVIOUS
<1>r. EmplaceRuns(ext, taken, max) = (CHOOSE f : f = Def(f))[n] BY <1>n DEF EmplaceRuns
<1> HIDE DEF Def
<1>3. step \in [T \X (1..n) -> T]
  <2> HIDE DEF T, Body
  <2>1. ASSUME NEW c \in T \X (1..n) PROVE Body(c[1], c[2]) \in T BY <1>1
  <2> QED BY <2>1
<1>4. PICK x \in [0..n -> T] : IsRun(x, n, ext, step)
  <2> HIDE DEF step
  <2> QED BY <1>3, LoopRuns
<1>5. ASSUME NEW b \in 1..n PROVE x[b] = Body(x[b - 1], b)
  <2>1. x[b - 1] \in T BY <1>4
  <2> HIDE DEF Body, T
  <2>2. step[<<x[b - 1], b>>] = Body(x[b - 1], b) BY <2>1
  <2> QED BY <1>4, <2>2 DEF IsRun
<1>6. x = Def(x)
  <2> HIDE DEF Body, step
  <2>1. DOMAIN x = 0..n /\ x = [i \in 0..n |-> x[i]] BY <1>4
  <2>2. x[0] = ext BY <1>4 DEF IsRun
  <2>3. ASSUME NEW i \in 0..n PROVE x[i] = IF i = 0 THEN ext ELSE Body(x[i - 1], i)
    BY <2>2, <1>5
  <2> QED BY <1>d, <2>1, <2>3
<1>y. PICK y : y = CHOOSE f : f = Def(f) OBVIOUS
<1>7. y = Def(y) BY <1>6, <1>y
<1>8. EmplaceRuns(ext, taken, max) = y[n] BY <1>r, <1>y
<1>9. y[0] = ext /\ \A b \in 1..n : y[b] = Body(y[b - 1], b)
  <2> HIDE DEF Body
  <2>1. y = [b \in 0..n |-> IF b = 0 THEN ext ELSE Body(y[b - 1], b)] BY <1>7, <1>d
  <2> QED BY <2>1
<1> DEFINE S == { b \in 0..n : HandsOut(ext, y[b], Begun(taken, b), max) }
<1>10. 0 \in S
  <2>1. Begun(taken, 0) = {}
    <3>1. \A c \in taken : c \in Nat /\ 1 <= c BY BlockIs
    <3>2. 0 \notin taken BY <3>1
    <3>3. \A c \in taken : ~(c <= 0) /\ 0 \in 0..c BY <3>1
    <3> QED BY <3>2, <3>3 DEF Begun
  <2> QED BY <1>9, <2>1 DEF HandsOut
<1>11. ASSUME NEW i \in 0..(n - 1), i \in S PROVE i + 1 \in S
  <2>1. i + 1 \in 1..n /\ (i + 1) - 1 = i BY <1>11
  <2>2. PICK b \in 1..n : b = i + 1 /\ b - 1 = i BY <2>1
  <2>3. b \in 1..(Size - 1) BY <1>n
  <2>4. HandsOut(ext, y[b - 1], Begun(taken, b - 1), max) BY <1>11, <2>2
  <2>5. HandsOut(ext, Body(y[b - 1], b), Begun(taken, b), max) BY <2>3, <2>4, RunEmplaced
  <2>6. y[b] = Body(y[b - 1], b) BY <1>9
  <2> HIDE DEF Body
  <2> QED BY <2>2, <2>5, <2>6
<1> HIDE DEF S
<1>12. \A i \in 0..n : i \in S BY <1>10, <1>11, LoopInduction
<1>13. HandsOut(ext, y[n], Begun(taken, n), max) BY <1>12 DEF S
<1>14. Begun(taken, n) = taken
  <2>1. \A c \in taken : c <= n
    <3> TAKE c \in taken
    <3>1. c \in Nat /\ c < Size /\ Size \in Nat BY BlockIs
    <3> QED BY <1>n, <3>1
  <2> QED BY <2>1 DEF Begun
<1> QED BY <1>8, <1>13, <1>14

-----------------------------------------------------------------------------
(* BitmapAllocator::_allocate_l2()                                          *)

(* Block b is in an entry of m that says free, and all of it is handed out. *)
StaleFree(m, S, b) ==
  m.l1[b \div EntryBits] = "FREE" /\ EntryBlocks(b \div EntryBits) \subseteq S

(* r is where a request stands that found the bitmap as m: it handed out    *)
(* blocks of m, and others only with a whole entry that said free; what it  *)
(* handed out is no longer free, and is what it counted.                    *)
Taking(m, r, max) ==
  /\ r \in [m : MapType, ext : Lists(max), got : Nat]
  /\ Honest(r.m)
  /\ SeqCovered(r.ext) \subseteq Blocks
  /\ r.m.l0 = m.l0 \ SeqCovered(r.ext)
  /\ r.m.available = m.available
  /\ \A e \in Entries : r.m.l1[e] = "FREE" => m.l1[e] = "FREE"
  /\ Unseen(r.m) \subseteq Unseen(m)
  /\ \A b \in Stolen(r.ext, m.l0) : StaleFree(m, SeqCovered(r.ext), b)
  /\ Stolen(r.ext, m.l0) = {} => r.got + Cardinality(r.m.l0) = Cardinality(m.l0)

(* A device that does not fill its last region is not empty.                *)
LEMMA SizePositive == Size # 0
<1>1. RegionBlocks \in Nat \ {0} /\ Size \in Nat /\ Size % RegionBlocks # 0
  BY Geometry, GeometryAssumption
<1> QED BY <1>1

(* Blocks S more are handed out: free ones, or a whole entry that said free. *)
LEMMA TakeMore ==
  ASSUME NEW max \in Nat \ {0}, NEW m, NEW r, Taking(m, r, max), NEW S \in SUBSET Blocks,
         NEW n \in MapType, n.l0 = r.m.l0 \ S, n.l2 = r.m.l2, n.available = r.m.available,
         Honest(n),
         \A e \in Entries : n.l1[e] = "FREE" => r.m.l1[e] = "FREE",
         NEW x, HandsOut(r.ext, x, S, max),
         \A b \in S : b \in r.m.l0 \/ StaleFree(m, S, b),
         NEW q, q = [m |-> n, ext |-> x, got |-> r.got + Cardinality(S)]
  PROVE  Taking(m, q, max)
<1>0. /\ r.m \in MapType /\ r.m.l0 \in SUBSET Blocks /\ r.got \in Nat
      /\ SeqCovered(r.ext) \subseteq Blocks
      /\ r.m.l0 = m.l0 \ SeqCovered(r.ext)
  BY DEF Taking, MapType
<1>1. /\ x \in Lists(max) /\ SeqCovered(x) = SeqCovered(r.ext) \cup S
      /\ Twice(x) = Twice(r.ext) \cup (SeqCovered(r.ext) \cap S)
  BY DEF HandsOut
<1>2. IsFiniteSet(S) /\ Cardinality(S) \in Nat BY BlocksFinite
<1>3. q.got \in Nat BY <1>0, <1>2
<1>4. SeqCovered(x) \subseteq Blocks BY <1>0, <1>1
<1>5. n.l0 = m.l0 \ SeqCovered(x) BY <1>0, <1>1
<1>6. \A e \in Entries : n.l1[e] = "FREE" => m.l1[e] = "FREE" BY DEF Taking
<1>7. Unseen(n) \subseteq Unseen(m)
  <2>1. Unseen(n) \subseteq Unseen(r.m) BY DEF Unseen
  <2> QED BY <2>1 DEF Taking
<1>8. Stolen(x, m.l0) = Stolen(r.ext, m.l0) \cup (S \ r.m.l0)
  BY <1>0, <1>1, StolenIs
<1>9. ASSUME NEW b \in Stolen(x, m.l0) PROVE StaleFree(m, SeqCovered(x), b)
  <2>1. CASE b \in Stolen(r.ext, m.l0)
    <3>1. StaleFree(m, SeqCovered(r.ext), b) BY <2>1 DEF Taking
    <3> QED BY <1>1, <3>1 DEF StaleFree
  <2>2. CASE b \in S \ r.m.l0
    <3>1. StaleFree(m, S, b) BY <2>2
    <3> QED BY <1>1, <3>1 DEF StaleFree
  <2> QED BY <1>8, <2>1, <2>2
<1>10. ASSUME Stolen(x, m.l0) = {} PROVE q.got + Cardinality(n.l0) = Cardinality(m.l0)
  <2>1. Stolen(r.ext, m.l0) = {} /\ S \subseteq r.m.l0 BY <1>8, <1>10
  <2>2. r.got + Cardinality(r.m.l0) = Cardinality(m.l0) BY <2>1 DEF Taking
  <2>3. IsFiniteSet(r.m.l0) /\ Cardinality(r.m.l0) \in Nat BY <1>0, BlocksFinite
  <2>4. Cardinality(n.l0) = Cardinality(r.m.l0) - Cardinality(S) BY <2>1, <2>3, RestSize
  <2> QED BY <1>0, <1>2, <2>2, <2>3, <2>4
<1>11. q.m.available = m.available BY DEF Taking
<1>12. q \in [m : MapType, ext : Lists(max), got : Nat] /\ q.m = n /\ q.ext = x
  BY <1>1, <1>3
<1> QED BY <1>4, <1>5, <1>6, <1>7, <1>9, <1>10, <1>11, <1>12 DEF Taking

(* _allocate_l0()                                                           *)
LEMMA AllocateL0OK ==
  ASSUME NEW max \in Nat \ {0}, NEW m, NEW r, Taking(m, r, max), NEW need, NEW e
  PROVE  Taking(m, AllocateL0(r, need, e, max), max)
<1>S. PICK S : S = Smallest(Reachable(r.m.l0, e), need) OBVIOUS
<1>q. PICK q : q = AllocateL0(r, need, e, max) OBVIOUS
<1>0. /\ r.m \in MapType /\ r.m.l0 \in SUBSET Blocks /\ Honest(r.m) /\ r.ext \in Lists(max)
  BY DEF Taking, MapType
<1>1. S \subseteq r.m.l0 BY <1>S DEF Smallest, Reachable
<1>n. PICK n : n = [r.m EXCEPT !.l0 = @ \ S] OBVIOUS
<1>2. /\ n \in MapType /\ n.l0 = r.m.l0 \ S /\ n.l1 = r.m.l1 /\ n.l2 = r.m.l2
      /\ n.available = r.m.available
  BY <1>0, <1>n DEF MapType
<1>3. Honest(n) BY <1>0, <1>2 DEF Honest
<1>x. PICK x : x = EmplaceRuns(r.ext, S, max) OBVIOUS
<1>4. HandsOut(r.ext, x, S, max) BY <1>0, <1>1, <1>x, SizePositive, EmplaceRunsOK
<1>5. q = [m |-> n, ext |-> x, got |-> r.got + Cardinality(S)]
  BY <1>n, <1>q, <1>S, <1>x DEF AllocateL0, TakeBlocks
<1>6. S \in SUBSET Blocks BY <1>0, <1>1
<1>7. \A b \in S : b \in r.m.l0 \/ StaleFree(m, S, b) BY <1>1
<1>8. \A k \in Entries : n.l1[k] = "FREE" => r.m.l1[k] = "FREE" BY <1>2
<1>9. Taking(m, q, max) BY <1>2, <1>3, <1>4, <1>5, <1>6, <1>7, <1>8, TakeMore
<1> QED BY <1>9, <1>q

(* _mark_alloc_l1_l0() of one entry touches that entry.                     *)
LEMMA OneEntry ==
  ASSUME NEW e \in Nat
  PROVE  EntriesOf(e * EntryBits, e * EntryBits + EntryBits) = {e}
<1>0. EntryBits \in Nat \ {0} BY Geometry
<1>d. PICK d \in Nat \ {0} : d = EntryBits BY <1>0
<1>1. PICK a \in Nat : a = e * d BY <1>d, Multiples
<1>2. a \div d = e BY <1>1, <1>d, QuotientUnique
<1>3. PICK q \in Nat : /\ RoundUp(a + d, d) = q * d /\ RoundUp(a + d, d) \div d = q
                       /\ a + d <= q * d /\ q * d < (a + d) + d
  <2>1. PICK n \in Nat : n = a + d BY <1>1
  <2>2. /\ n <= RoundUp(n, d) /\ RoundUp(n, d) < n + d
        /\ \E q \in Nat : RoundUp(n, d) = q * d /\ RoundUp(n, d) \div d = q
    BY RoundedUp
  <2>3. PICK q \in Nat : RoundUp(n, d) = q * d /\ RoundUp(n, d) \div d = q BY <2>2
  <2> QED BY <2>1, <2>2, <2>3
<1>4. q = e + 1
  <2>1. (e + 1) * d = a + d /\ (e + 2) * d = (a + d) + d
    BY <1>1
  <2>2. e + 1 \in Nat /\ e + 2 \in Nat OBVIOUS
  <2>3. q * d < (e + 2) * d BY <1>3, <2>1
  <2>4. q < e + 2 BY <2>2, <2>3, Multiples
  <2>5. e * d < q * d BY <1>1, <1>3
  <2>6. e < q BY <2>5, Multiples
  <2> QED BY <2>4, <2>6
<1>5. EntriesOf(a, a + d) = e..e BY <1>2, <1>3, <1>4, <1>d DEF EntriesOf
<1> QED BY <1>1, <1>5, <1>d

(* A free entry taken whole.                                                *)
LEMMA EntryTaken ==
  ASSUME NEW max \in Nat \ {0}, NEW m, NEW r, Taking(m, r, max), NEW e \in Entries,
         r.m.l1[e] = "FREE", NEW lo, lo = e * EntryBits,
         NEW q, q = [m   |-> MarkL1OnL0([r.m EXCEPT !.l0 = @ \ EntryBlocks(e)], lo, lo + EntryBits),
                     ext |-> Emplace(r.ext, <<lo, EntryBits>>, max),
                     got |-> r.got + EntryBits]
  PROVE  Taking(m, q, max)
<1>S. PICK S : S = EntryBlocks(e) OBVIOUS
<1>w. PICK w : w = r.m OBVIOUS
<1>0. /\ w \in MapType /\ w.l0 \in SUBSET Blocks /\ Honest(w) /\ r.ext \in Lists(max)
      /\ w.l1 \in [Entries -> L1States] /\ w.l2 \in SUBSET Regions /\ w.available \in Nat
  BY <1>w DEF Taking, MapType
<1>1. e \in Nat /\ EntryBits \in Nat \ {0} BY EntryNotEmpty, Geometry
<1>2. lo \in Nat /\ (e + 1) * EntryBits = lo + EntryBits BY <1>1, Multiples
<1>3. S = Span(lo, EntryBits) BY <1>1, <1>2, <1>S DEF EntryBlocks, Span
<1>4. S \in SUBSET Blocks BY <1>0, <1>S, <1>w DEF Honest
<1>5. Cardinality(S) = EntryBits
  <2>1. PICK hi \in Nat : hi = lo + EntryBits BY <1>1, <1>2
  <2>2. lo <= hi BY <1>1, <1>2, <2>1
  <2>3. Cardinality(lo..(hi - 1)) = hi - lo BY <1>2, <2>1, <2>2, IntervalSize
  <2>4. S = lo..(hi - 1) BY <1>1, <1>2, <1>3, <2>1 DEF Span
  <2> QED BY <1>1, <1>2, <2>1, <2>3, <2>4
<1>n. PICK n : n = MarkL1OnL0([w EXCEPT !.l0 = @ \ S], lo, lo + EntryBits) OBVIOUS
<1>6. n.l0 = w.l0 \ S BY <1>0, <1>n DEF MarkL1OnL0, MapType
<1>7. n.l1 = Updated(w, w.l0 \ S, EntriesOf(lo, lo + EntryBits))
  BY <1>0, <1>n DEF MarkL1OnL0, MapType, Updated
<1>8. n.l2 = w.l2 BY <1>0, <1>n DEF MarkL1OnL0, MapType
<1>9. n.available = w.available BY <1>0, <1>n DEF MarkL1OnL0, MapType
<1>10. DOMAIN n = {"l0", "l1", "l2", "available"} BY <1>0, <1>n DEF MarkL1OnL0, MapType
<1>11. n = [x \in DOMAIN n |-> n[x]] BY <1>0, <1>n DEF MarkL1OnL0, MapType
<1>12. n = [l0 |-> n.l0, l1 |-> n.l1, l2 |-> n.l2, available |-> n.available]
  BY <1>10, <1>11, MapRecord
<1>13. w.l0 \ S \in SUBSET Blocks BY <1>0
<1>14. n.l1 \in [Entries -> L1States] /\ Honest(n)
  <2>1. CoveredBy(w.l0 \ S, w, EntriesOf(lo, lo + EntryBits)) BY DEF CoveredBy
  <2> QED BY <1>0, <1>6, <1>7, <1>13, <2>1, Remarked
<1>15. n \in MapType
  <2>1. [l0 |-> n.l0, l1 |-> n.l1, l2 |-> n.l2, available |-> n.available] \in MapType
    BY <1>0, <1>6, <1>8, <1>9, <1>13, <1>14, MapFields
  <2> QED BY <1>12, <2>1
<1>16. ASSUME NEW k \in Entries, n.l1[k] = "FREE" PROVE w.l1[k] = "FREE"
  <2>1. EntriesOf(lo, lo + EntryBits) = {e} BY <1>1, OneEntry
  <2>2. CASE k = e BY <1>w, <2>2
  <2>3. CASE k # e BY <1>7, <1>16, <2>1, <2>3 DEF Updated
  <2> QED BY <2>2, <2>3
<1>17. ASSUME NEW b \in S PROVE StaleFree(m, S, b)
  <2>1. b \in Nat BY <1>4, BlockIs
  <2>2. b \div EntryBits = e BY <1>1, <1>S, <2>1, InEntry
  <2>3. m.l1[e] = "FREE" BY DEF Taking
  <2> QED BY <1>S, <2>2, <2>3 DEF StaleFree
<1>x. PICK x : x = Emplace(r.ext, <<lo, EntryBits>>, max) OBVIOUS
<1>18. HandsOut(r.ext, x, S, max) BY <1>0, <1>1, <1>2, <1>3, <1>x, EmplaceOK
<1>19. q = [m |-> n, ext |-> x, got |-> r.got + Cardinality(S)]
  BY <1>5, <1>n, <1>S, <1>w, <1>x
<1> QED BY <1>4, <1>6, <1>8, <1>9, <1>14, <1>15, <1>16, <1>17, <1>18, <1>19, <1>w, TakeMore

(* One entry of the scan of _allocate_l1().                                 *)
LEMMA AllocateEntryOK ==
  ASSUME NEW max \in Nat \ {0}, NEW m, NEW r, Taking(m, r, max), NEW e \in Entries, NEW want
  PROVE  Taking(m, AllocateEntry(r, want, max, e), max)
<1> DEFINE rem == want - r.got
           lo == e * EntryBits
           whole == [m   |-> MarkL1OnL0([r.m EXCEPT !.l0 = @ \ EntryBlocks(e)], lo, lo + EntryBits),
                     ext |-> Emplace(r.ext, <<lo, EntryBits>>, max),
                     got |-> r.got + EntryBits]
<1>1. \/ AllocateEntry(r, want, max, e) = r
      \/ AllocateEntry(r, want, max, e) = whole /\ r.m.l1[e] = "FREE"
      \/ AllocateEntry(r, want, max, e) = AllocateL0(r, rem, e, max)
  BY DEF AllocateEntry
<1>2. ASSUME r.m.l1[e] = "FREE" PROVE Taking(m, whole, max)
  BY <1>2, EntryTaken
<1>3. Taking(m, AllocateL0(r, rem, e, max), max) BY AllocateL0OK
<1> HIDE DEF whole, rem
<1> QED BY <1>1, <1>2, <1>3

(* The entries of a region are entries of the bitmap.                       *)
LEMMA EntriesOfRegion ==
  ASSUME NEW r \in Regions, NEW i \in 1..(SLOTS * ENTRIES)
  PROVE  r * SLOTS * ENTRIES + i - 1 \in Entries
<1>0. SLOTS \in Nat \ {0} /\ ENTRIES \in Nat \ {0} /\ NumRegions \in Nat
  BY Geometry, RegionCount
<1>n. PICK n \in Nat \ {0} : n = SLOTS * ENTRIES BY Geometry
<1>1. r \in Nat /\ r + 1 \in Nat /\ r + 1 <= NumRegions BY <1>0 DEF Regions
<1>2. r * SLOTS * ENTRIES = r * n BY <1>0, <1>1, <1>n
<1>3. NumRegions * SLOTS * ENTRIES = NumRegions * n BY <1>0, <1>n
<1>4. r * n \in Nat /\ (r + 1) * n <= NumRegions * n /\ (r + 1) * n = r * n + n /\ NumRegions * n \in Nat
  BY <1>0, <1>1, Multiples
<1>a. PICK a \in Nat : a = r * n BY <1>4
<1>b. PICK b \in Nat : b = NumRegions * n BY <1>4
<1>5. a + n <= b BY <1>4, <1>a, <1>b
<1>6. i \in 1..n BY <1>n
<1>7. a + i - 1 \in 0..(b - 1) BY <1>5, <1>6
<1>8. Entries = 0..(b - 1) BY <1>3, <1>b DEF Entries
<1>9. r * SLOTS * ENTRIES + i - 1 = a + i - 1 BY <1>2, <1>a
<1> QED BY <1>7, <1>8, <1>9

(* _allocate_l1() of one region.                                            *)
LEMMA AllocateL1OK ==
  ASSUME NEW max \in Nat \ {0}, NEW m, NEW r, Taking(m, r, max), NEW want, NEW region \in Regions
  PROVE  Taking(m, AllocateL1(r, want, max, region), max)
<1>n. PICK n \in Nat : n = SLOTS * ENTRIES BY Geometry
<1> DEFINE Walks == [m : MapType, ext : Lists(max), got : Nat]
           T == { w \in Walks : Taking(m, w, max) }
           Body(w, i) == AllocateEntry(w, want, max, region * SLOTS * ENTRIES + i - 1)
           step == [c \in T \X (1..n) |-> Body(c[1], c[2])]
           Def(f) == [i \in 0..n |-> IF i = 0 THEN r
                        ELSE AllocateEntry(f[i - 1], want, max, region * SLOTS * ENTRIES + i - 1)]
<1>t. \A w : w \in T <=> Taking(m, w, max) BY DEF Taking
<1>1. ASSUME NEW w \in T, NEW i \in 1..n PROVE Body(w, i) \in T
  <2>1. region * SLOTS * ENTRIES + i - 1 \in Entries BY <1>n, EntriesOfRegion
  <2>2. Taking(m, w, max) BY <1>t
  <2>3. Taking(m, Body(w, i), max) BY <2>1, <2>2, AllocateEntryOK
  <2> HIDE DEF T, Body
  <2> QED BY <1>t, <2>3
<1>2. r \in T BY <1>t
<1>d. ASSUME NEW f PROVE Def(f) = [i \in 0..n |-> IF i = 0 THEN r ELSE Body(f[i - 1], i)]
  OBVIOUS
<1>r. AllocateL1(r, want, max, region) = (CHOOSE f : f = Def(f))[n] BY <1>n DEF AllocateL1
<1> HIDE DEF Def, T, Body
<1>3. step \in [T \X (1..n) -> T]
  <2>1. ASSUME NEW c \in T \X (1..n) PROVE Body(c[1], c[2]) \in T BY <1>1
  <2> QED BY <2>1
<1>4. PICK x \in [0..n -> T] : IsRun(x, n, r, step)
  <2> HIDE DEF step
  <2> QED BY <1>2, <1>3, LoopRuns
<1>5. ASSUME NEW i \in 1..n PROVE x[i] = Body(x[i - 1], i)
  <2>1. x[i - 1] \in T BY <1>4
  <2>2. step[<<x[i - 1], i>>] = Body(x[i - 1], i) BY <2>1
  <2> QED BY <1>4, <2>2 DEF IsRun
<1>6. x = Def(x)
  <2> HIDE DEF step
  <2>1. DOMAIN x = 0..n /\ x = [i \in 0..n |-> x[i]] BY <1>4
  <2>2. x[0] = r BY <1>4 DEF IsRun
  <2>3. ASSUME NEW i \in 0..n PROVE x[i] = IF i = 0 THEN r ELSE Body(x[i - 1], i)
    BY <2>2, <1>5
  <2> QED BY <1>d, <2>1, <2>3
<1>y. PICK y : y = CHOOSE f : f = Def(f) OBVIOUS
<1>7. y = Def(y) BY <1>6, <1>y
<1>8. AllocateL1(r, want, max, region) = y[n] BY <1>r, <1>y
<1>9. y[0] = r /\ \A i \in 1..n : y[i] = Body(y[i - 1], i)
  <2>1. y = [i \in 0..n |-> IF i = 0 THEN r ELSE Body(y[i - 1], i)] BY <1>7, <1>d
  <2> QED BY <2>1
<1>10. y[n] \in T
  <2>1. y[0] \in T BY <1>2, <1>9
  <2>2. \A i \in 1..n : y[i - 1] \in T => y[i] \in T BY <1>1, <1>9
  <2> QED BY <2>1, <2>2, LoopEnds
<1> QED BY <1>8, <1>10, <1>t

(* The L2 bit goes with the last free block: no free block goes out of sight. *)
LEMMA ClearIfEmptyOK ==
  ASSUME NEW max \in Nat \ {0}, NEW m, NEW r, Taking(m, r, max), NEW region
  PROVE  Taking(m, ClearIfEmpty(r, region), max)
<1>q. PICK q : q = ClearIfEmpty(r, region) OBVIOUS
<1>w. PICK w : w = r.m OBVIOUS
<1>l. PICK l : l = { k \in w.l2 : k = region => RegionOf(k) \cap w.l0 # {} } OBVIOUS
<1>0. /\ r \in [m : MapType, ext : Lists(max), got : Nat] /\ w \in MapType
      /\ w.l0 \in SUBSET Blocks /\ w.l2 \in SUBSET Regions /\ Honest(w)
  BY <1>w DEF Taking, MapType
<1>n. PICK n : n = [w EXCEPT !.l2 = l] OBVIOUS
<1>1. l \in SUBSET Regions BY <1>0, <1>l
<1>2. n \in MapType /\ n.l0 = w.l0 /\ n.l1 = w.l1 /\ n.l2 = l /\ n.available = w.available
  BY <1>0, <1>1, <1>n DEF MapType
<1>3. q.m = n /\ q.ext = r.ext /\ q.got = r.got /\ q = [m |-> q.m, ext |-> q.ext, got |-> q.got]
  BY <1>0, <1>l, <1>n, <1>q, <1>w DEF ClearIfEmpty
<1>4. q \in [m : MapType, ext : Lists(max), got : Nat]
  <2>1. r.ext \in Lists(max) /\ r.got \in Nat BY <1>0
  <2>2. [m |-> q.m, ext |-> q.ext, got |-> q.got] \in [m : MapType, ext : Lists(max), got : Nat]
    BY <1>2, <1>3, <2>1
  <2> QED BY <1>3, <2>2
<1>5. Honest(n) BY <1>0, <1>2 DEF Honest
<1>6. Unseen(n) \subseteq Unseen(w)
  <2>1. ASSUME NEW b \in Unseen(n) PROVE b \in Unseen(w)
    <3>1. b \in w.l0 /\ b \div RegionBlocks \notin l BY <1>2 DEF Unseen
    <3>2. b \in Nat /\ b < Size BY <1>0, <3>1, BlockIs
    <3>3. b \div RegionBlocks \in Nat BY <3>2, Geometry, Quotient
    <3>4. b \in RegionOf(b \div RegionBlocks) BY <3>2, <3>3, InRegion
    <3>5. RegionOf(b \div RegionBlocks) \cap w.l0 # {} BY <3>1, <3>4
    <3>6. b \div RegionBlocks \notin w.l2 BY <1>l, <3>1, <3>5
    <3> QED BY <3>1, <3>6 DEF Unseen
  <2> QED BY <2>1
<1>7. Taking(m, q, max) BY <1>2, <1>3, <1>4, <1>5, <1>6, <1>w DEF Taking
<1> QED BY <1>7, <1>q

(* One round of _allocate_l2(): the region is scanned and its L2 bit        *)
(* brought up to date.                                                      *)
LEMMA AllocateRegionOK ==
  ASSUME NEW max \in Nat \ {0}, NEW m, NEW r, Taking(m, r, max), NEW want, NEW region \in Regions
  PROVE  Taking(m, AllocateRegion(r, want, max, region), max)
<1>1. Taking(m, AllocateL1(r, want, max, region), max) BY AllocateL1OK
<1>2. Taking(m, ClearIfEmpty(AllocateL1(r, want, max, region), region), max)
  BY <1>1, ClearIfEmptyOK
<1> QED BY <1>2 DEF AllocateRegion

(* The answer of BitmapAllocator::allocate().                               *)
Takes(m, r) ==
  /\ r.m \in MapType /\ Honest(r.m)
  /\ r.ext \in Seq(Exts) /\ r.got \in Nat
  /\ SeqCovered(r.ext) \subseteq Blocks
  /\ r.m.l0 = m.l0 \ SeqCovered(r.ext)
  /\ Unseen(r.m) \subseteq Unseen(m)
  /\ \A b \in Stolen(r.ext, m.l0) : StaleFree(m, SeqCovered(r.ext), b)
  /\ Stolen(r.ext, m.l0) = {} => r.m.available = Cardinality(r.m.l0)

(* available goes down by what was handed out, and is exact unless a block  *)
(* was handed out twice.                                                    *)
LEMMA ChargeOK ==
  ASSUME NEW max \in Nat \ {0}, NEW m, MapOK(m), NEW r, Taking(m, r, max)
  PROVE  Takes(m, Charge(r))
<1>q. PICK q : q = Charge(r) OBVIOUS
<1>w. PICK w : w = r.m OBVIOUS
<1>0. /\ r \in [m : MapType, ext : Lists(max), got : Nat] /\ w \in MapType
      /\ w.l0 \in SUBSET Blocks /\ Honest(w) /\ w.available = m.available
      /\ m \in MapType /\ m.available = Cardinality(m.l0) /\ m.l0 \in SUBSET Blocks
  BY <1>w DEF Taking, MapType, MapOK
<1>a. PICK a : a = (w.available - r.got) % WORD OBVIOUS
<1>n. PICK n : n = [w EXCEPT !.available = a] OBVIOUS
<1>1. a \in Nat
  <2>1. WORD \in Nat /\ WORD > 0 BY Geometry
  <2>2. w.available \in Nat /\ r.got \in Nat BY <1>0 DEF MapType
  <2> QED BY <1>a, <2>1, <2>2
<1>2. n \in MapType /\ n.l0 = w.l0 /\ n.l1 = w.l1 /\ n.l2 = w.l2 /\ n.available = a
  BY <1>0, <1>1, <1>n DEF MapType
<1>3. q.m = n /\ q.ext = r.ext /\ q.got = r.got
  BY <1>0, <1>a, <1>n, <1>q, <1>w DEF Charge
<1>4. Honest(n) /\ Unseen(n) = Unseen(w) BY <1>0, <1>2 DEF Honest, Unseen
<1>5. ASSUME Stolen(r.ext, m.l0) = {} PROVE a = Cardinality(n.l0)
  <2>1. r.got + Cardinality(w.l0) = Cardinality(m.l0) BY <1>5, <1>w DEF Taking
  <2>2. Cardinality(w.l0) \in Nat /\ Cardinality(w.l0) < WORD BY <1>0, BlocksFinite
  <2>3. r.got \in Nat /\ Cardinality(m.l0) \in Nat BY <1>0, BlocksFinite
  <2>4. Cardinality(w.l0) % WORD = Cardinality(w.l0) BY <2>2, InWord
  <2>5. w.available - r.got = Cardinality(w.l0) BY <1>0, <2>1, <2>2, <2>3
  <2> QED BY <1>2, <1>a, <2>4, <2>5
<1>6. r.ext \in Lists(max) /\ r.got \in Nat BY <1>0
<1>7. r.ext \in Seq(Exts) BY <1>6, ListsAreExtents
<1>8. Takes(m, q) BY <1>2, <1>3, <1>4, <1>5, <1>6, <1>7, <1>w DEF Taking, Takes
<1> QED BY <1>8, <1>q

(* _allocate_l2() with the counter brought up to date.                      *)
LEMMA AllocateL2OK ==
  ASSUME NEW max \in Nat \ {0}, NEW m, MapOK(m), NEW want
  PROVE  Takes(m, AllocateL2(m, want, max))
<1>n. PICK n \in Nat : n = NumRegions BY RegionCount
<1> DEFINE Walks == [m : MapType, ext : Lists(max), got : Nat]
           T == { w \in Walks : Taking(m, w, max) }
           base == [m |-> m, ext |-> <<>>, got |-> 0]
           Body(w, i) == AllocateRegion(w, want, max, i - 1)
           step == [c \in T \X (1..n) |-> Body(c[1], c[2])]
           Def(f) == [i \in 0..n |-> IF i = 0 THEN base ELSE AllocateRegion(f[i - 1], want, max, i - 1)]
<1>t. \A w : w \in T <=> Taking(m, w, max) BY DEF Taking
<1>0. m \in MapType /\ Honest(m) /\ m.l0 \in SUBSET Blocks BY DEF MapOK, MapType
<1>1. ASSUME NEW w \in T, NEW i \in 1..n PROVE Body(w, i) \in T
  <2>1. i - 1 \in Regions BY <1>n DEF Regions
  <2>2. Taking(m, w, max) BY <1>t
  <2>3. Taking(m, Body(w, i), max) BY <2>1, <2>2, AllocateRegionOK
  <2> HIDE DEF T, Body
  <2> QED BY <1>t, <2>3
<1>2. base \in T
  <2>1. <<>> \in Lists(max) BY DEF Lists
  <2>2. base \in Walks BY <1>0, <2>1
  <2>3. base.m = m /\ base.ext = <<>> /\ base.got = 0 OBVIOUS
  <2>4. Stolen(<<>>, m.l0) = {} BY NoExtents, StolenIs
  <2>5. Cardinality(m.l0) \in Nat BY <1>0, BlocksFinite
  <2>6. 0 + Cardinality(m.l0) = Cardinality(m.l0) BY <2>5
  <2> HIDE DEF base
  <2>7. Taking(m, base, max) BY <1>0, <2>2, <2>3, <2>4, <2>6, NoExtents DEF Taking
  <2> QED BY <1>t, <2>7
<1>d. ASSUME NEW f PROVE Def(f) = [i \in 0..n |-> IF i = 0 THEN base ELSE Body(f[i - 1], i)]
  OBVIOUS
<1>r. AllocateL2(m, want, max) = Charge((CHOOSE f : f = Def(f))[n]) BY <1>n DEF AllocateL2
<1> HIDE DEF Def, T, Body, base
<1>3. step \in [T \X (1..n) -> T]
  <2>1. ASSUME NEW c \in T \X (1..n) PROVE Body(c[1], c[2]) \in T BY <1>1
  <2> QED BY <2>1
<1>4. PICK x \in [0..n -> T] : IsRun(x, n, base, step)
  <2> HIDE DEF step
  <2> QED BY <1>2, <1>3, LoopRuns
<1>5. ASSUME NEW i \in 1..n PROVE x[i] = Body(x[i - 1], i)
  <2>1. x[i - 1] \in T BY <1>4
  <2>2. step[<<x[i - 1], i>>] = Body(x[i - 1], i) BY <2>1
  <2> QED BY <1>4, <2>2 DEF IsRun
<1>6. x = Def(x)
  <2> HIDE DEF step
  <2>1. DOMAIN x = 0..n /\ x = [i \in 0..n |-> x[i]] BY <1>4
  <2>2. x[0] = base BY <1>4 DEF IsRun
  <2>3. ASSUME NEW i \in 0..n PROVE x[i] = IF i = 0 THEN base ELSE Body(x[i - 1], i)
    BY <2>2, <1>5
  <2> QED BY <1>d, <2>1, <2>3
<1>y. PICK y : y = CHOOSE f : f = Def(f) OBVIOUS
<1>7. y = Def(y) BY <1>6, <1>y
<1>8. AllocateL2(m, want, max) = Charge(y[n]) BY <1>r, <1>y
<1>9. y[0] = base /\ \A i \in 1..n : y[i] = Body(y[i - 1], i)
  <2>1. y = [i \in 0..n |-> IF i = 0 THEN base ELSE Body(y[i - 1], i)] BY <1>7, <1>d
  <2> QED BY <2>1
<1>10. y[n] \in T
  <2>1. y[0] \in T BY <1>2, <1>9
  <2>2. \A i \in 1..n : y[i - 1] \in T => y[i] \in T BY <1>1, <1>9
  <2> QED BY <2>1, <2>2, LoopEnds
<1>11. Taking(m, y[n], max) BY <1>10, <1>t
<1> QED BY <1>8, <1>11, ChargeOK

(* BitmapAllocator::allocate()                                              *)
LEMMA BitmapAllocateOK ==
  ASSUME NEW m, MapOK(m), NEW want, NEW unit \in Nat \ {0}, NEW max \in Nat
  PROVE  Takes(m, BitmapAllocate(m, want, unit, max))
<1> DEFINE k == IF max = 0 THEN WORD ELSE max
           a == AlignDown(k, unit)
<1>0. WORD \in Nat BY Geometry
<1>1. k \in Nat BY <1>0
<1> HIDE DEF k
<1>2. a \in Nat BY <1>1, Quotient DEF AlignDown
<1>3. MaxLength(max, unit) = Max({unit, a}) BY DEF MaxLength, k
<1> HIDE DEF a
<1>4. {unit, a} \in SUBSET (0..(unit + a)) /\ {unit, a} # {} /\ unit + a \in Nat BY <1>2
<1>5. Max({unit, a}) \in {unit, a} /\ \A y \in {unit, a} : y <= Max({unit, a})
  BY <1>4, MaxIn
<1>x. PICK x : x = MaxLength(max, unit) OBVIOUS
<1>6. x \in Nat \ {0} BY <1>2, <1>3, <1>5, <1>x
<1>7. BitmapAllocate(m, want, unit, max) = AllocateL2(m, want, x) BY <1>x DEF BitmapAllocate
<1> QED BY <1>6, <1>7, AllocateL2OK

-----------------------------------------------------------------------------
(* release()                                                                *)

ExtentBlocks(e) == Span(e[1], e[2])
ExtentOf(e) == e = <<e[1], e[2]>> /\ e[1] \in Nat /\ e[2] \in Nat \ {0}

(* interval_set of one extent.                                              *)
LEMMA InsertFirst ==
  ASSUME NEW a, ExtentOf(a)
  PROVE  IntervalInsert({}, a) = {a}
<1>0. a = <<a[1], a[2]>> /\ a[1] \in Nat /\ a[2] \in Nat \ {0} BY DEF ExtentOf
<1> DEFINE after == { x \in {} : a[1] <= x[1] /\ x[1] <= a[1] + a[2] }
           ends == {a[2]} \cup { x[1] + x[2] - a[1] : x \in after }
           below == { x \in {} : x[1] < a[1] }
           prev  == { x \in below : /\ x[1] + x[2] >= a[1]
                               /\ \A y \in below : y[1] <= x[1] }
<1>1. after = {} /\ prev = {} /\ ends = {a[2]} OBVIOUS
<1>2. Max({a[2]}) = a[2]
  <2>1. a[2] \in Nat /\ {a[2]} \in SUBSET (0..a[2]) /\ {a[2]} # {} BY <1>0
  <2> QED BY <2>1, MaxIn
<1>3. IntervalInsert({}, a)
        = ({} \ (after \cup prev)) \cup
            {<<IF prev = {} THEN a[1] ELSE (CHOOSE x \in prev : TRUE)[1],
               a[1] + Max(ends) - (IF prev = {} THEN a[1] ELSE (CHOOSE x \in prev : TRUE)[1])>>}
  BY DEF IntervalInsert
<1> HIDE DEF after, prev, ends
<1>4. IntervalInsert({}, a) = {<<a[1], a[1] + a[2] - a[1]>>} BY <1>1, <1>2, <1>3
<1>5. a[1] + a[2] - a[1] = a[2] BY <1>0
<1> QED BY <1>0, <1>4, <1>5

(* A set of one or two extents without a common block that covers S.        *)
OneOrTwo(R, S) ==
  \/ \E x : ExtentOf(x) /\ R = {x} /\ ExtentBlocks(x) = S
  \/ \E x, y : /\ ExtentOf(x) /\ ExtentOf(y) /\ R = {x, y} /\ x[1] < y[1]
               /\ ExtentBlocks(x) \cup ExtentBlocks(y) = S
               /\ ExtentBlocks(x) \cap ExtentBlocks(y) = {}

(* interval_set::insert() of a second extent: it joins the first if they    *)
(* touch.                                                                   *)
LEMMA InsertSecond ==
  ASSUME NEW a, ExtentOf(a), NEW b, ExtentOf(b), ExtentBlocks(a) \cap ExtentBlocks(b) = {}
  PROVE  OneOrTwo(IntervalInsert({a}, b), ExtentBlocks(a) \cup ExtentBlocks(b))
<1>0. /\ a = <<a[1], a[2]>> /\ a[1] \in Nat /\ a[2] \in Nat \ {0}
      /\ b = <<b[1], b[2]>> /\ b[1] \in Nat /\ b[2] \in Nat \ {0}
  BY DEF ExtentOf
<1>1. a[1] + a[2] <= b[1] \/ b[1] + b[2] <= a[1]
  <2>1. PICK ea \in Nat : ea = a[1] + a[2] BY <1>0
  <2>2. PICK eb \in Nat : eb = b[1] + b[2] BY <1>0
  <2>a. ExtentBlocks(a) = a[1]..(ea - 1) /\ ExtentBlocks(b) = b[1]..(eb - 1)
    BY <1>0, <2>1, <2>2 DEF ExtentBlocks, Span
  <2>3. \A x \in a[1]..(ea - 1) : x \notin b[1]..(eb - 1) BY <2>a
  <2>4. a[1] < ea /\ b[1] < eb BY <1>0, <2>1, <2>2
  <2>5. ea <= b[1] \/ eb <= a[1] BY <1>0, <2>1, <2>2, <2>3, <2>4, IntervalsApart
  <2> QED BY <2>1, <2>2, <2>5
<1> DEFINE after == { x \in {a} : b[1] <= x[1] /\ x[1] <= b[1] + b[2] }
           ends == {b[2]} \cup { x[1] + x[2] - b[1] : x \in after }
           below == { x \in {a} : x[1] < b[1] }
           prev  == { x \in below : /\ x[1] + x[2] >= b[1]
                               /\ \A y \in below : y[1] <= x[1] }
           start == IF prev = {} THEN b[1] ELSE (CHOOSE x \in prev : TRUE)[1]
           R == ({a} \ (after \cup prev)) \cup {<<start, b[1] + Max(ends) - start>>}
           S == ExtentBlocks(a) \cup ExtentBlocks(b)
<1>2. IntervalInsert({a}, b) = R BY DEF IntervalInsert
<1>3. CASE b[1] + b[2] = a[1]
  <2>1. after = {a} /\ below = {} BY <1>0, <1>3
  <2>2. prev = {} /\ start = b[1] BY <2>1
  <2>3. ends = {b[2], a[1] + a[2] - b[1]} BY <2>1
  <2>4. a[1] + a[2] - b[1] = b[2] + a[2] BY <1>0, <1>3
  <2>5. Max(ends) = b[2] + a[2]
    <3> HIDE DEF ends
    <3>1. ends = {b[2], b[2] + a[2]} BY <2>3, <2>4
    <3>2. b[2] + a[2] \in Nat /\ ends \in SUBSET (0..(b[2] + a[2])) /\ ends # {}
      BY <1>0, <3>1
    <3>3. Max(ends) \in ends /\ \A y \in ends : y <= Max(ends) BY <3>2, MaxIn
    <3> QED BY <1>0, <3>1, <3>3
  <2>6. R = {<<b[1], b[1] + Max(ends) - b[1]>>} BY <2>1, <2>2
  <2>7. b[1] + Max(ends) - b[1] = b[2] + a[2] BY <1>0, <2>5
  <2>x. PICK x : x = <<b[1], b[2] + a[2]>> OBVIOUS
  <2>8. R = {x} BY <2>6, <2>7, <2>x
  <2> HIDE DEF R
  <2>9. ExtentOf(x) BY <1>0, <2>x DEF ExtentOf
  <2>10. ExtentBlocks(x) = S BY <1>0, <1>3, <2>x DEF ExtentBlocks, Span
  <2> QED BY <1>2, <2>8, <2>9, <2>10 DEF OneOrTwo
<1>4. CASE a[1] + a[2] = b[1]
  <2>1. after = {} /\ below = {a} BY <1>0, <1>4
  <2>2. prev = {a}
    <3>1. a[1] + a[2] >= b[1] /\ a[1] <= a[1] BY <1>0, <1>4
    <3> QED BY <2>1, <3>1
  <2>3. start = a[1] BY <2>2
  <2>4. ends = {b[2]} BY <2>1
  <2>5. Max(ends) = b[2]
    <3> HIDE DEF ends
    <3>1. b[2] \in Nat /\ ends \in SUBSET (0..b[2]) /\ ends # {} BY <1>0, <2>4
    <3> QED BY <2>4, <3>1, MaxIn
  <2>6. R = {<<a[1], b[1] + Max(ends) - a[1]>>} BY <2>1, <2>2, <2>3
  <2>7. b[1] + Max(ends) - a[1] = a[2] + b[2] BY <1>0, <1>4, <2>5
  <2>x. PICK x : x = <<a[1], a[2] + b[2]>> OBVIOUS
  <2>8. R = {x} BY <2>6, <2>7, <2>x
  <2> HIDE DEF R
  <2>9. ExtentOf(x) BY <1>0, <2>x DEF ExtentOf
  <2>10. ExtentBlocks(x) = S BY <1>0, <1>4, <2>x DEF ExtentBlocks, Span
  <2> QED BY <1>2, <2>8, <2>9, <2>10 DEF OneOrTwo
<1>5. CASE b[1] + b[2] # a[1] /\ a[1] + a[2] # b[1]
  <2>1. after = {} BY <1>0, <1>1, <1>5
  <2>2. prev = {} BY <1>0, <1>1, <1>5
  <2>3. start = b[1] BY <2>2
  <2>4. ends = {b[2]} BY <2>1
  <2>5. Max(ends) = b[2]
    <3> HIDE DEF ends
    <3>1. b[2] \in Nat /\ ends \in SUBSET (0..b[2]) /\ ends # {} BY <1>0, <2>4
    <3> QED BY <2>4, <3>1, MaxIn
  <2>6. R = {a} \cup {<<b[1], b[1] + Max(ends) - b[1]>>} BY <2>1, <2>2, <2>3
  <2>7. b[1] + Max(ends) - b[1] = b[2] BY <1>0, <2>5
  <2>8. R = {a, b} BY <1>0, <2>6, <2>7
  <2> HIDE DEF R
  <2>9. a[1] < b[1] \/ b[1] < a[1] BY <1>0, <1>1
  <2>10. R = {b, a} /\ ExtentBlocks(b) \cup ExtentBlocks(a) = S /\ ExtentBlocks(b) \cap ExtentBlocks(a) = {}
    BY <2>8
  <2> HIDE DEF S
  <2>11. OneOrTwo(R, S)
    <3>1. CASE a[1] < b[1] BY <2>8, <3>1 DEF OneOrTwo, S
    <3>2. CASE b[1] < a[1] BY <2>10, <3>2 DEF OneOrTwo
    <3> QED BY <2>9, <3>1, <3>2
  <2> QED BY <1>2, <2>11 DEF S
<1> QED BY <1>3, <1>4, <1>5

(* The set release() builds of one extent, and of two.                      *)
LEMMA IntervalSetOfOne ==
  ASSUME NEW a, ExtentOf(a)
  PROVE  IntervalSet(<<a>>) = {a}
<1> DEFINE Def(f) == [i \in 0..Len(<<a>>) |-> IF i = 0 THEN {} ELSE IntervalInsert(f[i - 1], <<a>>[i])]
           z == [i \in 0..1 |-> IF i = 0 THEN {} ELSE IntervalInsert({}, a)]
<1>r. IntervalSet(<<a>>) = (CHOOSE f : f = Def(f))[Len(<<a>>)] BY DEF IntervalSet
<1>1. Len(<<a>>) = 1 /\ <<a>>[1] = a OBVIOUS
<1>d. \A f : Def(f) = [i \in 0..1 |-> IF i = 0 THEN {} ELSE IntervalInsert(f[i - 1], <<a>>[i])]
  BY <1>1
<1> HIDE DEF Def
<1>2. z = Def(z)
  <2>1. z[0] = {} OBVIOUS
  <2>2. ASSUME NEW i \in 0..1
        PROVE  z[i] = IF i = 0 THEN {} ELSE IntervalInsert(z[i - 1], <<a>>[i])
    <3>1. CASE i = 0 BY <3>1
    <3>2. CASE i = 1
      <4>1. i - 1 = 0 /\ <<a>>[i] = a BY <3>2
      <4> QED BY <2>1, <3>2, <4>1
    <3> QED BY <3>1, <3>2
  <2>3. z = [i \in 0..1 |-> z[i]] OBVIOUS
  <2> HIDE DEF z
  <2> QED BY <1>d, <2>2, <2>3
<1>y. PICK y : y = CHOOSE f : f = Def(f) OBVIOUS
<1>3. y = Def(y) BY <1>2, <1>y
<1>4. y = [i \in 0..1 |-> IF i = 0 THEN {} ELSE IntervalInsert(y[i - 1], <<a>>[i])]
  BY <1>3, <1>d
<1>5. y[0] = {} BY <1>4
<1>6. y[1] = IntervalInsert(y[0], a)
  <2>1. y[1] = IntervalInsert(y[1 - 1], <<a>>[1]) BY <1>4
  <2> QED BY <2>1
<1> QED BY <1>r, <1>1, <1>y, <1>5, <1>6, InsertFirst

(* release() of two extents inserts the second into the set of the first.   *)
LEMMA IntervalSetOfTwo ==
  ASSUME NEW a, ExtentOf(a), NEW b
  PROVE  IntervalSet(<<a, b>>) = IntervalInsert({a}, b)
<1>s. PICK s : s = <<a, b>> OBVIOUS
<1> DEFINE Def(f) == [i \in 0..Len(s) |-> IF i = 0 THEN {} ELSE IntervalInsert(f[i - 1], s[i])]
           z == [i \in 0..2 |-> IF i = 0 THEN {} ELSE IF i = 1 THEN {a} ELSE IntervalInsert({a}, b)]
<1>r. IntervalSet(s) = (CHOOSE f : f = Def(f))[Len(s)] BY DEF IntervalSet
<1>1. Len(s) = 2 /\ s[1] = a /\ s[2] = b BY <1>s
<1>d. \A f : Def(f) = [i \in 0..2 |-> IF i = 0 THEN {} ELSE IntervalInsert(f[i - 1], s[i])]
  BY <1>1
<1> HIDE DEF Def
<1>a. IntervalInsert({}, a) = {a} BY InsertFirst
<1>2. z = Def(z)
  <2>1. z[0] = {} /\ z[1] = {a} /\ z[2] = IntervalInsert({a}, b) OBVIOUS
  <2>3. z = [i \in 0..2 |-> z[i]] OBVIOUS
  <2> HIDE DEF z
  <2>2. ASSUME NEW i \in 0..2
        PROVE  z[i] = IF i = 0 THEN {} ELSE IntervalInsert(z[i - 1], s[i])
    <3>1. CASE i = 0 BY <2>1, <3>1
    <3>2. CASE i = 1
      <4>1. i - 1 = 0 BY <3>2
      <4> QED BY <1>1, <1>a, <2>1, <3>2, <4>1
    <3>3. CASE i = 2
      <4>1. i - 1 = 1 BY <3>3
      <4> QED BY <1>1, <2>1, <3>3, <4>1
    <3> QED BY <3>1, <3>2, <3>3
  <2> QED BY <1>d, <2>2, <2>3
<1>y. PICK y : y = CHOOSE f : f = Def(f) OBVIOUS
<1>3. y = Def(y) BY <1>2, <1>y
<1>4. y = [i \in 0..2 |-> IF i = 0 THEN {} ELSE IntervalInsert(y[i - 1], s[i])]
  BY <1>3, <1>d
<1>5. y[0] = {} /\ y[1] = IntervalInsert(y[1 - 1], s[1]) /\ y[2] = IntervalInsert(y[2 - 1], s[2])
  BY <1>4
<1>6. y[1] = {a}
  <2>1. 1 - 1 = 0 OBVIOUS
  <2> QED BY <1>1, <1>5, <1>a, <2>1
<1>7. y[2] = IntervalInsert({a}, b)
  <2>1. 2 - 1 = 1 OBVIOUS
  <2> QED BY <1>1, <1>5, <1>6, <2>1
<1> QED BY <1>r, <1>1, <1>y, <1>7, <1>s

(* The interval_set in order.                                               *)
InOrder(S) == Sorted(S, LAMBDA x, y : x[1] < y[1])

(* A set of one interval in order.                                          *)
LEMMA SortedOne ==
  ASSUME NEW x, ExtentOf(x)
  PROVE  InOrder({x}) = <<x>>
<1>1. Cardinality({x}) = 1 BY FS_Singleton
<1>2. Cardinality({}) = 0 BY FS_EmptySet
<1> DEFINE P(u, i) == Cardinality({ v \in {x} : v[1] < u[1] }) = i - 1
           q == [i \in 1..1 |-> CHOOSE u \in {x} : P(u, i)]
<1>3. InOrder({x}) = q BY <1>1 DEF Sorted, InOrder
<1>4. { v \in {x} : v[1] < x[1] } = {} BY DEF ExtentOf
<1>5. P(x, 1) BY <1>2, <1>4
<1> HIDE DEF P
<1>6. q[1] = x BY <1>5
<1>7. q = <<x>>
  <2>1. q = [i \in 1..1 |-> q[i]] OBVIOUS
  <2> HIDE DEF q
  <2>2. <<x>> = [i \in 1..1 |-> <<x>>[i]] OBVIOUS
  <2>3. \A i \in 1..1 : q[i] = <<x>>[i] BY <1>6
  <2> QED BY <2>1, <2>2, <2>3
<1> QED BY <1>3, <1>7

(* A set of two intervals in order.                                         *)
LEMMA SortedTwo ==
  ASSUME NEW x, ExtentOf(x), NEW y, ExtentOf(y), x[1] < y[1]
  PROVE  InOrder({x, y}) = <<x, y>>
<1>0. x[1] \in Nat /\ y[1] \in Nat /\ x # y BY DEF ExtentOf
<1>1. Cardinality({x, y}) = 2
  <2>1. IsFiniteSet({x}) /\ Cardinality({x}) = 1 /\ y \notin {x} BY <1>0, FS_Singleton
  <2>2. Cardinality({x} \cup {y}) = Cardinality({x}) + 1 BY <2>1, FS_AddElement
  <2>3. {x} \cup {y} = {x, y} OBVIOUS
  <2> QED BY <2>1, <2>2, <2>3
<1>2. Cardinality({}) = 0 /\ Cardinality({x}) = 1 BY FS_EmptySet, FS_Singleton
<1> DEFINE S == {x, y}
           P(u, i) == Cardinality({ v \in S : v[1] < u[1] }) = i - 1
           q == [i \in 1..2 |-> CHOOSE u \in S : P(u, i)]
<1>3. InOrder(S) = q BY <1>1 DEF Sorted, InOrder
<1>4. { v \in S : v[1] < x[1] } = {} /\ { v \in S : v[1] < y[1] } = {x} BY <1>0
<1>5. P(x, 1) /\ ~P(y, 1) /\ P(y, 2) /\ ~P(x, 2) BY <1>2, <1>4
<1>s. x \in S /\ y \in S /\ \A u \in S : u = x \/ u = y OBVIOUS
<1> HIDE DEF P, S
<1>6. q[1] = x /\ q[2] = y
  <2>1. q[1] = CHOOSE u \in S : P(u, 1) OBVIOUS
  <2>2. q[2] = CHOOSE u \in S : P(u, 2) OBVIOUS
  <2> HIDE DEF q
  <2>3. (CHOOSE u \in S : P(u, 1)) \in S /\ P(CHOOSE u \in S : P(u, 1), 1) BY <1>5, <1>s
  <2>4. (CHOOSE u \in S : P(u, 2)) \in S /\ P(CHOOSE u \in S : P(u, 2), 2) BY <1>5, <1>s
  <2>5. q[1] = x BY <1>5, <1>s, <2>1, <2>3
  <2>6. q[2] = y BY <1>5, <1>s, <2>2, <2>4
  <2> QED BY <2>5, <2>6
<1>7. q = <<x, y>>
  <2>1. q = [i \in 1..2 |-> q[i]] OBVIOUS
  <2> HIDE DEF q
  <2>2. <<x, y>> = [i \in 1..2 |-> <<x, y>>[i]] OBVIOUS
  <2>3. \A i \in 1..2 : q[i] = <<x, y>>[i] BY <1>6
  <2> QED BY <2>1, <2>2, <2>3
<1> QED BY <1>3, <1>7 DEF S

(* release() gives back one interval, or two.                               *)
LEMMA GiveBackOne ==
  ASSUME NEW s, NEW x
  PROVE  GiveBack(s, <<x>>) = AddFree(s, x[1], x[2])
<1>q. PICK q : q = <<x>> OBVIOUS
<1> DEFINE Def(f) == [i \in 0..Len(q) |-> IF i = 0 THEN s ELSE AddFree(f[i - 1], q[i][1], q[i][2])]
           z == [i \in 0..1 |-> IF i = 0 THEN s ELSE AddFree(s, x[1], x[2])]
<1>r. GiveBack(s, q) = (CHOOSE f : f = Def(f))[Len(q)] BY DEF GiveBack
<1>1. Len(q) = 1 /\ q[1] = x BY <1>q
<1>d. \A f : Def(f) = [i \in 0..1 |-> IF i = 0 THEN s ELSE AddFree(f[i - 1], q[i][1], q[i][2])]
  BY <1>1
<1> HIDE DEF Def
<1>2. z = Def(z)
  <2>1. z[0] = s /\ z[1] = AddFree(s, x[1], x[2]) OBVIOUS
  <2>3. z = [i \in 0..1 |-> z[i]] OBVIOUS
  <2> HIDE DEF z
  <2>2. ASSUME NEW i \in 0..1
        PROVE  z[i] = IF i = 0 THEN s ELSE AddFree(z[i - 1], q[i][1], q[i][2])
    <3>1. CASE i = 0 BY <2>1, <3>1
    <3>2. CASE i = 1
      <4>1. i - 1 = 0 BY <3>2
      <4> QED BY <1>1, <2>1, <3>2, <4>1
    <3> QED BY <3>1, <3>2
  <2> QED BY <1>d, <2>2, <2>3
<1>y. PICK y : y = CHOOSE f : f = Def(f) OBVIOUS
<1>3. y = Def(y) BY <1>2, <1>y
<1>4. y = [i \in 0..1 |-> IF i = 0 THEN s ELSE AddFree(y[i - 1], q[i][1], q[i][2])]
  BY <1>3, <1>d
<1>5. y[0] = s /\ y[1] = AddFree(y[1 - 1], q[1][1], q[1][2]) BY <1>4
<1>6. y[1] = AddFree(s, x[1], x[2])
  <2>1. 1 - 1 = 0 OBVIOUS
  <2> QED BY <1>1, <1>5, <2>1
<1> QED BY <1>r, <1>1, <1>y, <1>6, <1>q

(* _release() of two intervals gives back one after the other.              *)
LEMMA GiveBackTwo ==
  ASSUME NEW s, NEW x, NEW w
  PROVE  GiveBack(s, <<x, w>>) = AddFree(AddFree(s, x[1], x[2]), w[1], w[2])
<1>q. PICK q : q = <<x, w>> OBVIOUS
<1>t. PICK t : t = AddFree(s, x[1], x[2]) OBVIOUS
<1> DEFINE Def(f) == [i \in 0..Len(q) |-> IF i = 0 THEN s ELSE AddFree(f[i - 1], q[i][1], q[i][2])]
           z == [i \in 0..2 |-> IF i = 0 THEN s ELSE IF i = 1 THEN t ELSE AddFree(t, w[1], w[2])]
<1>r. GiveBack(s, q) = (CHOOSE f : f = Def(f))[Len(q)] BY DEF GiveBack
<1>1. Len(q) = 2 /\ q[1] = x /\ q[2] = w BY <1>q
<1>d. \A f : Def(f) = [i \in 0..2 |-> IF i = 0 THEN s ELSE AddFree(f[i - 1], q[i][1], q[i][2])]
  BY <1>1
<1> HIDE DEF Def
<1>2. z = Def(z)
  <2>1. z[0] = s /\ z[1] = t /\ z[2] = AddFree(t, w[1], w[2]) OBVIOUS
  <2>3. z = [i \in 0..2 |-> z[i]] OBVIOUS
  <2> HIDE DEF z
  <2>2. ASSUME NEW i \in 0..2
        PROVE  z[i] = IF i = 0 THEN s ELSE AddFree(z[i - 1], q[i][1], q[i][2])
    <3>1. CASE i = 0 BY <2>1, <3>1
    <3>2. CASE i = 1
      <4>1. i - 1 = 0 BY <3>2
      <4> QED BY <1>1, <1>t, <2>1, <3>2, <4>1
    <3>3. CASE i = 2
      <4>1. i - 1 = 1 BY <3>3
      <4> QED BY <1>1, <2>1, <3>3, <4>1
    <3> QED BY <3>1, <3>2, <3>3
  <2> QED BY <1>d, <2>2, <2>3
<1>y. PICK y : y = CHOOSE f : f = Def(f) OBVIOUS
<1>3. y = Def(y) BY <1>2, <1>y
<1>4. y = [i \in 0..2 |-> IF i = 0 THEN s ELSE AddFree(y[i - 1], q[i][1], q[i][2])]
  BY <1>3, <1>d
<1>5. y[0] = s /\ y[1] = AddFree(y[1 - 1], q[1][1], q[1][2]) /\ y[2] = AddFree(y[2 - 1], q[2][1], q[2][2])
  BY <1>4
<1>6. y[1] = t
  <2>1. 1 - 1 = 0 OBVIOUS
  <2> QED BY <1>1, <1>5, <1>t, <2>1
<1>7. y[2] = AddFree(t, w[1], w[2])
  <2>1. 2 - 1 = 1 OBVIOUS
  <2> QED BY <1>1, <1>5, <1>6, <2>1
<1> QED BY <1>r, <1>1, <1>y, <1>7, <1>q, <1>t

(* What release() gives back is free afterwards, and nothing else changed.  *)
LEMMA GiveBackOK ==
  ASSUME NEW s, SpaceOK(s), KindOK(s), NEW R, NEW S \in SUBSET Blocks, OneOrTwo(R, S),
         S \cap FreeIn(s) = {}
  PROVE  Frees(s, GiveBack(s, InOrder(R)), S)
<1>1. CASE \E x : ExtentOf(x) /\ R = {x} /\ ExtentBlocks(x) = S
  <2>1. PICK x : ExtentOf(x) /\ R = {x} /\ ExtentBlocks(x) = S BY <1>1
  <2>2. GiveBack(s, InOrder(R)) = AddFree(s, x[1], x[2]) BY <2>1, SortedOne, GiveBackOne
  <2>3. x[1] \in Nat /\ x[2] \in Nat \ {0} /\ S = Span(x[1], x[2])
    BY <2>1 DEF ExtentOf, ExtentBlocks
  <2> QED BY <2>2, <2>3, AddFreeOK
<1>2. CASE \E x, y : /\ ExtentOf(x) /\ ExtentOf(y) /\ R = {x, y} /\ x[1] < y[1]
                     /\ ExtentBlocks(x) \cup ExtentBlocks(y) = S
                     /\ ExtentBlocks(x) \cap ExtentBlocks(y) = {}
  <2>1. PICK x, y : /\ ExtentOf(x) /\ ExtentOf(y) /\ R = {x, y} /\ x[1] < y[1]
                    /\ ExtentBlocks(x) \cup ExtentBlocks(y) = S
                    /\ ExtentBlocks(x) \cap ExtentBlocks(y) = {}
    BY <1>2
  <2>t. PICK t : t = AddFree(s, x[1], x[2]) OBVIOUS
  <2>u. PICK u : u = AddFree(t, y[1], y[2]) OBVIOUS
  <2>2. GiveBack(s, InOrder(R)) = u
    <3>1. InOrder(R) = <<x, y>> BY <2>1, SortedTwo
    <3> QED BY <2>t, <2>u, <3>1, GiveBackTwo
  <2>3. /\ x[1] \in Nat /\ x[2] \in Nat \ {0} /\ ExtentBlocks(x) = Span(x[1], x[2])
        /\ y[1] \in Nat /\ y[2] \in Nat \ {0} /\ ExtentBlocks(y) = Span(y[1], y[2])
    BY <2>1 DEF ExtentOf, ExtentBlocks
  <2>4. Frees(s, t, ExtentBlocks(x)) BY <2>1, <2>3, <2>t, AddFreeOK
  <2>5. SpaceOK(t) /\ KindOK(t) /\ FreeIn(t) = FreeIn(s) \cup ExtentBlocks(x)
    BY <2>4 DEF Frees
  <2>6. ExtentBlocks(y) \cap FreeIn(t) = {} /\ ExtentBlocks(y) \subseteq Blocks
    BY <2>1, <2>5
  <2>7. Frees(t, u, ExtentBlocks(y)) BY <2>3, <2>5, <2>6, <2>u, AddFreeOK
  <2>8. Frees(s, u, S) BY <2>1, <2>4, <2>7 DEF Frees
  <2> QED BY <2>2, <2>8
<1> QED BY <1>1, <1>2 DEF OneOrTwo

-----------------------------------------------------------------------------
(* Owners                                                                   *)

Waiting(p) == { t \in Threads : p[t] # None }
PendBlocks(p) == UNION { SeqCovered(p[t].ext) : t \in Waiting(p) }
OwnedBy(h, u, p) == Covered(h) \cup u \cup PendBlocks(p)

(* No two owners share a block: not two extents of clients, not a client    *)
(* and what was in use before, and no half-done request with any other.     *)
OwnersOK(h, u, p) ==
  /\ \A x \in h : ExtentOf(x)
  /\ \A x, y \in h : x # y => ExtentBlocks(x) \cap ExtentBlocks(y) = {}
  /\ Covered(h) \cap u = {}
  /\ \A t \in Waiting(p) : /\ p[t].ext \in Seq(Exts) /\ Twice(p[t].ext) = {}
                           /\ SeqCovered(p[t].ext) \cap (Covered(h) \cup u) = {}
  /\ \A t, v \in Waiting(p) :
       t # v => SeqCovered(p[t].ext) \cap SeqCovered(p[v].ext) = {}

(* A block has an owner when it is in one of the owned extents.             *)
LEMMA InCovered ==
  ASSUME NEW h, NEW b
  PROVE  b \in Covered(h) <=> \E x \in h : b \in ExtentBlocks(x)
BY DEF Covered, ExtentBlocks

(* A block is in a half-done allocate() when one of its extents covers it.  *)
LEMMA InPendBlocks ==
  ASSUME NEW p, NEW b
  PROVE  b \in PendBlocks(p) <=> \E t \in Waiting(p) : b \in SeqCovered(p[t].ext)
BY DEF PendBlocks

(* The extents of an answer.                                                *)
LEMMA AnswerExtents ==
  ASSUME NEW s \in Seq(Exts)
  PROVE  /\ \A x \in Range(s) : ExtentOf(x) /\ ExtentBlocks(x) \subseteq SeqCovered(s)
         /\ Twice(s) = {} =>
              \A x, y \in Range(s) : x # y => ExtentBlocks(x) \cap ExtentBlocks(y) = {}
         /\ Covered(Range(s)) = SeqCovered(s)
<1>1. \A x \in Range(s) : \E i \in DOMAIN s : x = s[i] BY DEF Range
<1>2. \A i \in DOMAIN s : s[i] \in Exts OBVIOUS
<1>3. ASSUME NEW x \in Range(s) PROVE ExtentOf(x) /\ ExtentBlocks(x) \subseteq SeqCovered(s)
  <2>1. PICK i \in DOMAIN s : x = s[i] BY <1>1
  <2>2. x \in Exts BY <1>2, <2>1
  <2>3. ExtentOf(x) BY <2>2 DEF Exts, ExtentOf
  <2>4. \A b \in ExtentBlocks(x) : b \in SeqCovered(s)
    BY <2>1, InSeqCovered DEF ExtentBlocks
  <2> QED BY <2>3, <2>4
<1>4. ASSUME Twice(s) = {}, NEW x \in Range(s), NEW y \in Range(s), x # y,
             NEW b, b \in ExtentBlocks(x), b \in ExtentBlocks(y)
      PROVE  FALSE
  <2>1. PICK i \in DOMAIN s : x = s[i] BY <1>1
  <2>2. PICK j \in DOMAIN s : y = s[j] BY <1>1
  <2>3. i # j BY <1>4, <2>1, <2>2
  <2>4. b \in Span(s[i][1], s[i][2]) /\ b \in Span(s[j][1], s[j][2])
    BY <1>4, <2>1, <2>2 DEF ExtentBlocks
  <2>5. b \in SeqCovered(s) BY <2>4, InSeqCovered
  <2>6. b \in Twice(s) BY <2>3, <2>4, <2>5 DEF Twice
  <2> QED BY <1>4, <2>6
<1>5. Covered(Range(s)) = SeqCovered(s) BY DEF SeqCovered
<1> QED BY <1>3, <1>4, <1>5

(* More blocks for the clients.                                             *)
LEMMA MoreHeld ==
  ASSUME NEW h, NEW u, NEW p, NEW X
  PROVE  /\ Covered(h \cup X) = Covered(h) \cup Covered(X)
         /\ OwnedBy(h \cup X, u, p) = OwnedBy(h, u, p) \cup Covered(X)
<1>1. Covered(h \cup X) = Covered(h) \cup Covered(X) BY DEF Covered
<1> QED BY <1>1 DEF OwnedBy

(* The answer of allocate() reaches a client: nobody owned its blocks.      *)
LEMMA AnswerOwned ==
  ASSUME NEW h, NEW u, NEW p, OwnersOK(h, u, p), NEW s \in Seq(Exts), Twice(s) = {},
         SeqCovered(s) \cap OwnedBy(h, u, p) = {}, NEW g, g = h \cup Range(s)
  PROVE  /\ OwnersOK(g, u, p)
         /\ OwnedBy(g, u, p) = OwnedBy(h, u, p) \cup SeqCovered(s)
<1>1. /\ \A x \in Range(s) : ExtentOf(x) /\ ExtentBlocks(x) \subseteq SeqCovered(s)
      /\ \A x, y \in Range(s) : x # y => ExtentBlocks(x) \cap ExtentBlocks(y) = {}
      /\ Covered(Range(s)) = SeqCovered(s)
  BY AnswerExtents
<1>2. Covered(g) = Covered(h) \cup SeqCovered(s) BY <1>1, MoreHeld
<1>3. OwnedBy(g, u, p) = OwnedBy(h, u, p) \cup SeqCovered(s) BY <1>2 DEF OwnedBy
<1>4. \A x \in h : ExtentBlocks(x) \subseteq Covered(h) BY InCovered
<1>5. SeqCovered(s) \cap Covered(h) = {} /\ SeqCovered(s) \cap u = {} /\ SeqCovered(s) \cap PendBlocks(p) = {}
  BY DEF OwnedBy
<1>6. \A x \in g : ExtentOf(x) BY <1>1 DEF OwnersOK
<1>7. ASSUME NEW x \in g, NEW y \in g, x # y PROVE ExtentBlocks(x) \cap ExtentBlocks(y) = {}
  <2>1. CASE x \in h /\ y \in h BY <1>7, <2>1 DEF OwnersOK
  <2>2. CASE x \in Range(s) /\ y \in Range(s) BY <1>1, <1>7, <2>2
  <2>3. CASE x \in h /\ y \in Range(s) BY <1>1, <1>4, <1>5, <2>3
  <2>4. CASE x \in Range(s) /\ y \in h BY <1>1, <1>4, <1>5, <2>4
  <2> QED BY <2>1, <2>2, <2>3, <2>4
<1>8. Covered(g) \cap u = {} BY <1>2, <1>5 DEF OwnersOK
<1>9. \A t \in Waiting(p) : SeqCovered(p[t].ext) \subseteq PendBlocks(p) BY InPendBlocks
<1>10. \A t \in Waiting(p) : SeqCovered(p[t].ext) \cap (Covered(g) \cup u) = {}
  BY <1>2, <1>5, <1>9 DEF OwnersOK
<1>11. OwnersOK(g, u, p) BY <1>6, <1>7, <1>8, <1>10 DEF OwnersOK
<1> QED BY <1>3, <1>11

(* The thread t now stands at w.                                            *)
Puts(p, q, t, w) == Threads \subseteq DOMAIN p /\ q = [p EXCEPT ![t] = w]

(* A request waits for its second lock with what the tree gave it.          *)
LEMMA WaitOwned ==
  ASSUME NEW h, NEW u, NEW p, OwnersOK(h, u, p), NEW t \in Threads, p[t] = None,
         NEW q, NEW w, Puts(p, q, t, w), w # None,
         w.ext \in Seq(Exts), Twice(w.ext) = {},
         SeqCovered(w.ext) \cap OwnedBy(h, u, p) = {}
  PROVE  /\ OwnersOK(h, u, q)
         /\ OwnedBy(h, u, q) = OwnedBy(h, u, p) \cup SeqCovered(w.ext)
<1>1. q[t] = w /\ \A v \in Threads : v # t => q[v] = p[v] BY DEF Puts
<1>2. Waiting(q) = Waiting(p) \cup {t} /\ t \notin Waiting(p) BY <1>1 DEF Waiting
<1>2a. Waiting(p) \subseteq Threads BY DEF Waiting
<1>3. PendBlocks(q) = PendBlocks(p) \cup SeqCovered(w.ext)
  <2>1. ASSUME NEW b PROVE b \in PendBlocks(q) <=> b \in PendBlocks(p) \/ b \in SeqCovered(w.ext)
    BY <1>1, <1>2, <1>2a, InPendBlocks
  <2> QED BY <2>1
<1>4. OwnedBy(h, u, q) = OwnedBy(h, u, p) \cup SeqCovered(w.ext) BY <1>3 DEF OwnedBy
<1>5. SeqCovered(w.ext) \cap (Covered(h) \cup u) = {} /\ SeqCovered(w.ext) \cap PendBlocks(p) = {}
  BY DEF OwnedBy
<1>6. \A v \in Waiting(p) : SeqCovered(p[v].ext) \subseteq PendBlocks(p) BY InPendBlocks
<1>7. ASSUME NEW v \in Waiting(q)
      PROVE  /\ q[v].ext \in Seq(Exts) /\ Twice(q[v].ext) = {}
             /\ SeqCovered(q[v].ext) \cap (Covered(h) \cup u) = {}
  <2>1. CASE v = t BY <1>1, <1>5, <2>1
  <2>2. CASE v # t
    <3>1. v \in Waiting(p) /\ q[v] = p[v] BY <1>1, <1>2, <1>2a, <2>2
    <3> QED BY <3>1 DEF OwnersOK
  <2> QED BY <2>1, <2>2
<1>8. ASSUME NEW v \in Waiting(q), NEW z \in Waiting(q), v # z
      PROVE  SeqCovered(q[v].ext) \cap SeqCovered(q[z].ext) = {}
  <2>1. CASE v = t
    <3>1. z \in Waiting(p) /\ q[z] = p[z] BY <1>1, <1>2, <1>2a, <1>8, <2>1
    <3> QED BY <1>1, <1>5, <1>6, <2>1, <3>1
  <2>2. CASE z = t
    <3>1. v \in Waiting(p) /\ q[v] = p[v] BY <1>1, <1>2, <1>2a, <1>8, <2>2
    <3> QED BY <1>1, <1>5, <1>6, <2>2, <3>1
  <2>3. CASE v # t /\ z # t
    <3>1. v \in Waiting(p) /\ q[v] = p[v] /\ z \in Waiting(p) /\ q[z] = p[z]
      BY <1>1, <1>2, <1>2a, <2>3
    <3> QED BY <1>8, <3>1 DEF OwnersOK
  <2> QED BY <2>1, <2>2, <2>3
<1>9. OwnersOK(h, u, q) BY <1>7, <1>8 DEF OwnersOK
<1> QED BY <1>4, <1>9

(* A request is done waiting.                                               *)
LEMMA DoneOwned ==
  ASSUME NEW h, NEW u, NEW p, NEW t \in Threads, p[t] # None,
         NEW q, Puts(p, q, t, None)
  PROVE  /\ OwnedBy(h, u, q) \cup SeqCovered(p[t].ext) = OwnedBy(h, u, p)
         /\ Waiting(q) \subseteq Waiting(p)
         /\ OwnersOK(h, u, p) =>
              OwnersOK(h, u, q) /\ SeqCovered(p[t].ext) \cap OwnedBy(h, u, q) = {}
<1>1. q[t] = None /\ \A v \in Threads : v # t => q[v] = p[v] BY DEF Puts
<1>2. Waiting(q) = Waiting(p) \ {t} /\ t \in Waiting(p) BY <1>1 DEF Waiting
<1>2a. Waiting(p) \subseteq Threads BY DEF Waiting
<1>2b. \A v \in Waiting(q) : v \in Waiting(p) /\ v # t /\ q[v] = p[v] BY <1>1, <1>2, <1>2a
<1>3. PendBlocks(q) \cup SeqCovered(p[t].ext) = PendBlocks(p)
  <2>1. ASSUME NEW b PROVE b \in PendBlocks(q) \/ b \in SeqCovered(p[t].ext) <=> b \in PendBlocks(p)
    BY <1>2, <1>2b, InPendBlocks
  <2> QED BY <2>1
<1>4. OwnedBy(h, u, q) \cup SeqCovered(p[t].ext) = OwnedBy(h, u, p) BY <1>3 DEF OwnedBy
<1>5. ASSUME OwnersOK(h, u, p)
      PROVE  OwnersOK(h, u, q) /\ SeqCovered(p[t].ext) \cap OwnedBy(h, u, q) = {}
  <2>1. OwnersOK(h, u, q) BY <1>2b, <1>5 DEF OwnersOK
  <2>2. SeqCovered(p[t].ext) \cap (Covered(h) \cup u) = {} BY <1>2, <1>5 DEF OwnersOK
  <2>3. ASSUME NEW b \in SeqCovered(p[t].ext), b \in PendBlocks(q) PROVE FALSE
    <3>1. PICK v \in Waiting(q) : b \in SeqCovered(q[v].ext) BY <2>3, InPendBlocks
    <3>2. v \in Waiting(p) /\ v # t /\ b \in SeqCovered(p[v].ext) BY <1>2b, <3>1
    <3> QED BY <1>2, <1>5, <3>2 DEF OwnersOK
  <2> QED BY <2>1, <2>2, <2>3 DEF OwnedBy
<1> QED BY <1>2, <1>4, <1>5

(* A client gives extents back.                                             *)
LEMMA GivenBack ==
  ASSUME NEW h, NEW u, NEW p, OwnersOK(h, u, p), NEW X \in SUBSET h
  PROVE  /\ OwnersOK(h \ X, u, p)
         /\ OwnedBy(h \ X, u, p) = OwnedBy(h, u, p) \ Covered(X)
         /\ Covered(X) \subseteq OwnedBy(h, u, p)
<1> DEFINE g == h \ X
<1>1. Covered(g) \subseteq Covered(h) /\ Covered(X) \subseteq Covered(h)
  BY InCovered
<1>2. ASSUME NEW b \in Covered(g), b \in Covered(X) PROVE FALSE
  <2>1. PICK x \in g : b \in ExtentBlocks(x) BY InCovered
  <2>2. PICK y \in X : b \in ExtentBlocks(y) BY <1>2, InCovered
  <2>3. x # y /\ x \in h /\ y \in h OBVIOUS
  <2> QED BY <2>1, <2>2, <2>3 DEF OwnersOK
<1>3. ASSUME NEW b \in Covered(h) PROVE b \in Covered(g) \/ b \in Covered(X)
  BY InCovered
<1>4. \A x \in g : x \in h OBVIOUS
<1> HIDE DEF g
<1>5. OwnersOK(g, u, p) BY <1>1, <1>4 DEF OwnersOK
<1>6. Covered(X) \cap u = {} /\ Covered(X) \cap PendBlocks(p) = {}
  <2>1. Covered(X) \cap u = {} BY <1>1 DEF OwnersOK
  <2>2. ASSUME NEW b \in Covered(X), b \in PendBlocks(p) PROVE FALSE
    <3>1. PICK t \in Waiting(p) : b \in SeqCovered(p[t].ext) BY <2>2, InPendBlocks
    <3> QED BY <1>1, <3>1 DEF OwnersOK
  <2> QED BY <2>1, <2>2
<1>7. OwnedBy(g, u, p) = OwnedBy(h, u, p) \ Covered(X) BY <1>1, <1>2, <1>3, <1>6 DEF OwnedBy
<1> QED BY <1>1, <1>5, <1>7 DEF g, OwnedBy

(* Nobody holds anything and nobody waits.                                  *)
LEMMA NoOwners ==
  ASSUME NEW p, \A t \in Threads : p[t] = None, NEW u
  PROVE  Waiting(p) = {} /\ OwnersOK({}, u, p) /\ OwnedBy({}, u, p) = u
<1>1. Waiting(p) = {} BY DEF Waiting
<1>2. PendBlocks(p) = {} BY <1>1 DEF PendBlocks
<1>3. Covered({}) = {} BY DEF Covered
<1> QED BY <1>1, <1>2, <1>3 DEF OwnersOK, OwnedBy

-----------------------------------------------------------------------------
(* The inductive invariant                                                  *)

Halfway == [req : Requests, ext : Seq(Exts), got : Nat]

(* Holds whatever was handed out twice.                                     *)
AlwaysOK ==
  /\ kind \in {"avl", "bitmap", "hybrid"}
  /\ avl \in TreeType /\ bmp \in MapType /\ Honest(bmp)
  /\ \A x \in held : ExtentOf(x) /\ ExtentBlocks(x) \subseteq Blocks
  /\ used \subseteq Blocks
  /\ pend \in [Threads -> {None} \cup Halfway]
  /\ \A b \in Unseen(bmp) : \E c \in used : c \div RegionBlocks = b \div RegionBlocks

(* Holds until a block is handed out twice.                                 *)
SoundOK ==
  /\ SpaceOK(Space) /\ KindOK(Space)
  /\ OwnersOK(held, used, pend)
  /\ FreeIn(Space) \cup OwnedBy(held, used, pend) = Blocks
  /\ FreeIn(Space) \cap OwnedBy(held, used, pend) = {}
  /\ Waiting(pend) # {} => kind = "hybrid"

AllocInv == AlwaysOK /\ (dup = {} => SoundOK)

(* What the clients see: free blocks become lent, lent ones free again, or  *)
(* a new allocator starts from nothing.                                     *)
Lending == \E S \in SUBSET (FreeNow \ dup) :
             (FreeNow \ dup)' = (FreeNow \ dup) \ S /\ Owned' = Owned \cup S
TakingBack == \E S \in SUBSET Owned :
                (FreeNow \ dup)' = (FreeNow \ dup) \cup S /\ Owned' = Owned \ S
Restarting == (FreeNow \ dup)' = {} /\ Owned' = Blocks

(* allocate() hands out only free blocks, but for a stale L1 entry.         *)
OnlyStale == \A b \in dup' \ dup : /\ kind # "avl"
                                   /\ bmp.l1[b \div EntryBits] = "FREE"
                                   /\ EntryBlocks(b \div EntryBits) \subseteq Covered(held')

StepOK == AllocInv' /\ OnlyStale /\ (Lending \/ TakingBack \/ Restarting)

(* The free and the owned blocks, as the lemmas above name them.            *)
LEMMA SpaceIs ==
  /\ Space.avl = avl /\ Space.bmp = bmp
  /\ FreeNow = FreeIn(Space)
  /\ Owned = OwnedBy(held, used, pend)
BY DEF Space, FreeNow, TreeBlocks, FreeIn, Owned, OwnedBy, Pending, PendBlocks, Waiting

(* The same for the state after a step.                                     *)
LEMMA SpaceIsNext ==
  /\ FreeNow' = BlocksOf(avl'.segs) \cup bmp'.l0
  /\ Owned' = OwnedBy(held', used', pend')
BY DEF FreeNow, TreeBlocks, Owned, OwnedBy, Pending, PendBlocks, Waiting

(* The trees and the bitmap become s under the lock.                        *)
LEMMA Moved ==
  ASSUME kind' = kind, NEW s, SpaceOK(s), KindOK(s), avl' = s.avl, bmp' = s.bmp
  PROVE  SpaceOK(Space)' /\ KindOK(Space)' /\ FreeIn(Space)' = FreeIn(s)
<1>1. Space' = s BY DEF SpaceOK, SpaceType, Space
<1>2. SpaceOK(Space)' BY <1>1 DEF SpaceOK, Limited
<1>3. KindOK(Space)' BY <1>1 DEF KindOK
<1>4. FreeIn(Space)' = FreeIn(s) BY <1>1 DEF FreeIn
<1> QED BY <1>2, <1>3, <1>4

Accounts(s, h, u, p) ==
  /\ OwnersOK(h, u, p)
  /\ FreeIn(s) \cup OwnedBy(h, u, p) = Blocks
  /\ FreeIn(s) \cap OwnedBy(h, u, p) = {}

(* A step with no double allocation keeps the invariant.                    *)
LEMMA SoundStep ==
  ASSUME kind' = kind, NEW s, SpaceOK(s), KindOK(s), avl' = s.avl, bmp' = s.bmp,
         Accounts(s, held', used', pend'),
         Waiting(pend') # {} => kind = "hybrid",
         pend' \in [Threads -> {None} \cup Halfway],
         \A b \in Unseen(s.bmp) : \E c \in used' : c \div RegionBlocks = b \div RegionBlocks
  PROVE  AllocInv'
<1>1. SpaceOK(Space)' /\ KindOK(Space)' /\ FreeIn(Space)' = FreeIn(s) BY Moved
<1>2. OwnersOK(held, used, pend)' BY DEF Accounts, OwnersOK, Waiting
<1>3. OwnedBy(held, used, pend)' = OwnedBy(held', used', pend')
  BY DEF OwnedBy, PendBlocks, Waiting
<1>4. SoundOK' BY <1>1, <1>2, <1>3 DEF SoundOK, Accounts, Waiting
<1>5. avl' \in TreeType /\ bmp' \in MapType /\ Honest(bmp') BY DEF SpaceOK, SpaceType, MapOK
<1>6. ASSUME NEW x \in held' PROVE ExtentOf(x) /\ ExtentBlocks(x) \subseteq Blocks
  <2>1. ExtentOf(x) BY DEF Accounts, OwnersOK
  <2>2. ExtentBlocks(x) \subseteq Covered(held') BY InCovered
  <2> QED BY <2>1, <2>2 DEF Accounts, OwnedBy
<1>7. used' \subseteq Blocks BY DEF Accounts, OwnedBy
<1>8. kind' \in {"avl", "bitmap", "hybrid"} BY DEF KindOK
<1>9. AlwaysOK' BY <1>5, <1>6, <1>7, <1>8 DEF AlwaysOK, Honest, Unseen
<1> QED BY <1>4, <1>9 DEF AllocInv

(* A state in which nothing was handed out twice.                           *)
LEMMA SoundState ==
  ASSUME AllocInv, Sound
  PROVE  /\ dup = {} /\ AlwaysOK
         /\ SpaceOK(Space) /\ KindOK(Space) /\ Accounts(Space, held, used, pend)
         /\ Waiting(pend) # {} => kind = "hybrid"
         /\ FreeNow = FreeIn(Space) /\ Owned = OwnedBy(held, used, pend)
         /\ Space.avl = avl /\ Space.bmp = bmp
BY SpaceIs DEF AllocInv, Sound, SoundOK, Accounts

(* Nobody waits: only the blocks in use and the clients' are owned.         *)
LEMMA IdleOwners ==
  ASSUME held = {}, Idle
  PROVE  /\ \A t \in Threads : pend[t] = None
         /\ OwnedBy(held, used, pend) = used
BY NoOwners DEF Idle

(* init_add_free() takes back blocks of the clients' metadata.              *)
LEMMA InitAddFreeOK ==
  ASSUME AllocInv, NEW off \in Nat, NEW len \in Nat \ {0}, InitAddFree(off, len)
  PROVE  StepOK
<1> DEFINE S == Span(off, len)
<1>1. /\ kind' = kind /\ held' = held /\ pend' = pend /\ dup' = dup
      /\ held = {} /\ Idle /\ Sound
      /\ S \subseteq used /\ used' = used \ S
      /\ avl' = AddFree(Space, off, len).avl /\ bmp' = AddFree(Space, off, len).bmp
  BY DEF InitAddFree, Become
<1>2. /\ dup = {} /\ AlwaysOK
      /\ SpaceOK(Space) /\ KindOK(Space) /\ Accounts(Space, held, used, pend)
      /\ Waiting(pend) # {} => kind = "hybrid"
      /\ FreeNow = FreeIn(Space) /\ Owned = OwnedBy(held, used, pend)
      /\ Space.avl = avl /\ Space.bmp = bmp
  BY <1>1, SoundState
<1>3. OwnedBy(held, used, pend) = used /\ \A t \in Threads : pend[t] = None
  BY <1>1, IdleOwners
<1>4. FreeIn(Space) \cup used = Blocks /\ FreeIn(Space) \cap used = {}
  BY <1>2, <1>3 DEF Accounts
<1>5. S \subseteq Blocks /\ S \cap FreeIn(Space) = {} BY <1>1, <1>4
<1>6. PICK s : s = AddFree(Space, off, len) OBVIOUS
<1>7. Frees(Space, s, S) BY <1>2, <1>5, <1>6, AddFreeOK
<1>8. OwnersOK(held', used', pend') /\ OwnedBy(held', used', pend') = used'
  BY <1>1, <1>3, NoOwners
<1>9. SpaceOK(s) /\ KindOK(s) /\ FreeIn(s) = FreeIn(Space) \cup S BY <1>7 DEF Frees
<1> HIDE DEF S
<1>10. Accounts(s, held', used', pend') BY <1>1, <1>4, <1>8, <1>9 DEF Accounts
<1>11. ASSUME NEW b \in Unseen(s.bmp)
       PROVE  \E c \in used' : c \div RegionBlocks = b \div RegionBlocks
  <2>1. b \in Unseen(bmp) /\ \A c \in S : c \div RegionBlocks # b \div RegionBlocks
    BY <1>2, <1>7 DEF Frees
  <2>2. PICK c \in used : c \div RegionBlocks = b \div RegionBlocks
    BY <1>2, <2>1 DEF AlwaysOK
  <2> QED BY <1>1, <2>1, <2>2
<1>12. Waiting(pend') # {} => kind = "hybrid" BY <1>1, <1>2
<1>13. pend' \in [Threads -> {None} \cup Halfway] BY <1>1, <1>2 DEF AlwaysOK
<1>14. avl' = s.avl /\ bmp' = s.bmp BY <1>1, <1>6
<1>15. AllocInv' BY <1>1, <1>9, <1>10, <1>11, <1>12, <1>13, <1>14, SoundStep
<1>16. FreeNow' = FreeIn(s) BY <1>14, SpaceIsNext DEF FreeIn
<1>17. Owned' = used' BY <1>8, SpaceIsNext
<1>18. TakingBack
  <2>1. (FreeNow \ dup)' = (FreeNow \ dup) \cup S BY <1>1, <1>2, <1>9, <1>16
  <2>2. Owned' = Owned \ S /\ S \subseteq Owned BY <1>1, <1>2, <1>3, <1>17
  <2> QED BY <2>1, <2>2 DEF TakingBack
<1> QED BY <1>1, <1>15, <1>18 DEF StepOK, OnlyStale

(* What init_rm_free() leaves of the trees and the bitmap.                  *)
Drops(s, S) ==
  /\ SpaceOK(s) /\ KindOK(s)
  /\ FreeIn(s) = FreeIn(Space) \ S
  /\ avl' = s.avl /\ bmp' = s.bmp
  /\ \A b \in Unseen(s.bmp) :
       b \in Unseen(bmp) \/ \E c \in S : c \div RegionBlocks = b \div RegionBlocks

(* init_rm_free() cuts the range out of the one segment that holds it, or   *)
(* out of the bitmap: free space is in one piece, so nothing is in both.    *)
LEMMA InitRmFreeLeaves ==
  ASSUME SpaceOK(Space), KindOK(Space), NEW off \in Nat, NEW len \in Nat \ {0},
         InitRmFree(off, len), Span(off, len) \subseteq FreeIn(Space),
         Span(off, len) \subseteq Blocks
  PROVE  \E s : Drops(s, Span(off, len))
<1>0. Space.avl = avl /\ Space.bmp = bmp BY SpaceIs
<1>1. PICK end \in Nat : end = off + len OBVIOUS
<1>2. off < end /\ end <= Size /\ Span(off, len) = off..(end - 1) BY <1>1, RangeIs
<1>3. CASE kind # "bitmap" /\ Holding(Space, off, end) # {}
  <2>1. PICK s : s = RemoveFromTree(Space, off, end) OBVIOUS
  <2>2. avl' = s.avl /\ bmp' = s.bmp BY <1>1, <1>3, <2>1 DEF InitRmFree, Become
  <2>3. Removes(Space, s, off, end) BY <1>2, <1>3, <2>1, RemoveFromTreeOK
  <2>4. KindOK(s) BY <1>3, <2>3 DEF Removes, KindOK, Limited
  <2>5. \A b \in Unseen(s.bmp) : b \in Unseen(bmp) BY <1>0, <2>3 DEF Removes
  <2>6. SpaceOK(s) /\ FreeIn(s) = FreeIn(Space) \ Span(off, len) BY <1>2, <2>3 DEF Removes
  <2> QED BY <2>2, <2>4, <2>5, <2>6 DEF Drops
<1>4. CASE kind = "bitmap" \/ Holding(Space, off, end) = {}
  <2>1. Span(off, len) \subseteq bmp.l0
    <3>1. CASE kind = "bitmap"
      <4>1. BlocksOf(Space.avl.segs) = {} BY <3>1 DEF KindOK, BlocksOf
      <4> QED BY <1>0, <4>1 DEF FreeIn
    <3>2. CASE Holding(Space, off, end) = {} BY <1>0, <1>1, <3>2, InOnePiece
    <3> QED BY <1>4, <3>1, <3>2
  <2>2. off \in Span(off, len) BY <1>2
  <2>3. kind # "avl" BY <1>0, <2>1, <2>2 DEF KindOK
  <2>4. PICK m : m = MarkAllocated(bmp, off, len) OBVIOUS
  <2>5. avl' = avl /\ bmp' = m BY <1>1, <1>4, <2>3, <2>4 DEF InitRmFree
  <2>6. MapOK(bmp) BY <1>0 DEF SpaceOK
  <2>7. /\ MapOK(m) /\ m.l0 = bmp.l0 \ Span(off, len)
        /\ \A b \in Unseen(m) :
             b \in Unseen(bmp) \/ b \div RegionBlocks \in RegionsOf(off, off + len)
    <3>1. off + len <= Size BY <1>1, <1>2
    <3>2. /\ MapOK(MarkAllocated(bmp, off, len))
          /\ MarkAllocated(bmp, off, len).l0 = bmp.l0 \ Span(off, len)
          /\ \A b \in Unseen(MarkAllocated(bmp, off, len)) :
               b \in Unseen(bmp) \/ b \div RegionBlocks \in RegionsOf(off, off + len)
      BY <2>1, <2>6, <3>1, MarkAllocatedOK
    <3> QED BY <2>4, <3>2
  <2>8. PICK s : s = [Space EXCEPT !.bmp = m] OBVIOUS
  <2>9. SpaceOK(s) /\ s.avl = avl /\ s.bmp = m BY <1>0, <2>7, <2>8, SmallerMap
  <2>10. KindOK(s) BY <1>0, <2>3, <2>9 DEF KindOK
  <2>11. ASSUME NEW b \in Span(off, len) PROVE b \notin BlocksOf(avl.segs)
    BY <1>0, <2>1, TreeApart
  <2>12. FreeIn(s) = FreeIn(Space) \ Span(off, len) BY <1>0, <2>7, <2>9, <2>11 DEF FreeIn
  <2>13. ASSUME NEW b \in Unseen(m), b \notin Unseen(bmp)
         PROVE  \E c \in Span(off, len) : c \div RegionBlocks = b \div RegionBlocks
    <3>1. b \div RegionBlocks \in RegionsOf(off, end) BY <1>1, <2>7, <2>13
    <3> QED BY <1>2, <3>1, RegionsTouched
  <2> QED BY <2>5, <2>9, <2>10, <2>12, <2>13 DEF Drops
<1> QED BY <1>3, <1>4

(* init_rm_free() lends the range to what is in use.                        *)
LEMMA InitRmFreeOK ==
  ASSUME AllocInv, NEW off \in Nat, NEW len \in Nat \ {0}, InitRmFree(off, len)
  PROVE  StepOK
<1> DEFINE S == Span(off, len)
<1>1. /\ kind' = kind /\ held' = held /\ pend' = pend /\ dup' = dup
      /\ held = {} /\ Idle /\ Sound
      /\ S \subseteq FreeNow /\ used' = used \cup S
  BY DEF InitRmFree
<1>2. /\ dup = {} /\ AlwaysOK
      /\ SpaceOK(Space) /\ KindOK(Space) /\ Accounts(Space, held, used, pend)
      /\ Waiting(pend) # {} => kind = "hybrid"
      /\ FreeNow = FreeIn(Space) /\ Owned = OwnedBy(held, used, pend)
  BY <1>1, SoundState
<1>3. OwnedBy(held, used, pend) = used /\ \A t \in Threads : pend[t] = None
  BY <1>1, IdleOwners
<1>4. FreeIn(Space) \cup used = Blocks /\ FreeIn(Space) \cap used = {}
  BY <1>2, <1>3 DEF Accounts
<1>5. S \subseteq Blocks /\ S \subseteq FreeIn(Space) BY <1>1, <1>2, <1>4
<1>6. PICK s : Drops(s, S) BY <1>2, <1>5, InitRmFreeLeaves
<1>7. SpaceOK(s) /\ KindOK(s) /\ FreeIn(s) = FreeIn(Space) \ S /\ avl' = s.avl /\ bmp' = s.bmp
  BY <1>6 DEF Drops
<1>8. OwnersOK(held', used', pend') /\ OwnedBy(held', used', pend') = used'
  BY <1>1, <1>3, NoOwners
<1> HIDE DEF S
<1>10. Accounts(s, held', used', pend') BY <1>1, <1>4, <1>5, <1>7, <1>8 DEF Accounts
<1>11. ASSUME NEW b \in Unseen(s.bmp)
       PROVE  \E c \in used' : c \div RegionBlocks = b \div RegionBlocks
  <2>1. b \in Unseen(bmp) \/ \E c \in S : c \div RegionBlocks = b \div RegionBlocks
    BY <1>6 DEF Drops
  <2> QED BY <1>1, <1>2, <2>1 DEF AlwaysOK
<1>12. Waiting(pend') # {} => kind = "hybrid" BY <1>1, <1>2
<1>13. pend' \in [Threads -> {None} \cup Halfway] BY <1>1, <1>2 DEF AlwaysOK
<1>15. AllocInv' BY <1>1, <1>7, <1>10, <1>11, <1>12, <1>13, SoundStep
<1>16. FreeNow' = FreeIn(s) BY <1>7, SpaceIsNext DEF FreeIn
<1>17. Owned' = used' BY <1>8, SpaceIsNext
<1>18. Lending
  <2>1. (FreeNow \ dup)' = (FreeNow \ dup) \ S BY <1>1, <1>2, <1>7, <1>16
  <2>2. Owned' = Owned \cup S /\ S \subseteq FreeNow \ dup BY <1>1, <1>2, <1>3, <1>17
  <2> QED BY <2>1, <2>2 DEF Lending
<1> QED BY <1>1, <1>15, <1>18 DEF StepOK, OnlyStale

(* A tree allocation took the blocks of ext, which now have an owner.       *)
LEMMA LentOK ==
  ASSUME AllocInv, Sound, kind' = kind, used' = used, dup' = dup,
         NEW s, SpaceOK(s), KindOK(s), avl' = s.avl, bmp' = s.bmp,
         NEW S, S \subseteq FreeIn(Space), FreeIn(s) = FreeIn(Space) \ S,
         OwnersOK(held', used', pend'),
         OwnedBy(held', used', pend') = OwnedBy(held, used, pend) \cup S,
         Unseen(s.bmp) \subseteq Unseen(bmp),
         Waiting(pend') # {} => kind = "hybrid",
         pend' \in [Threads -> {None} \cup Halfway]
  PROVE  StepOK
<1>1. /\ dup = {} /\ AlwaysOK /\ Accounts(Space, held, used, pend)
      /\ FreeNow = FreeIn(Space) /\ Owned = OwnedBy(held, used, pend)
  BY SoundState
<1>2. Accounts(s, held', used', pend') BY <1>1 DEF Accounts
<1>3. \A b \in Unseen(s.bmp) : \E c \in used' : c \div RegionBlocks = b \div RegionBlocks
  BY <1>1 DEF AlwaysOK
<1>4. AllocInv' BY <1>2, <1>3, SoundStep
<1>5. FreeNow' = FreeIn(s) BY SpaceIsNext DEF FreeIn
<1>6. Owned' = OwnedBy(held', used', pend') BY SpaceIsNext
<1>7. Lending
  <2>1. (FreeNow \ dup)' = (FreeNow \ dup) \ S BY <1>1, <1>5
  <2>2. Owned' = Owned \cup S /\ S \subseteq FreeNow \ dup BY <1>1, <1>6
  <2> QED BY <2>1, <2>2 DEF Lending
<1> QED BY <1>4, <1>7 DEF StepOK, OnlyStale

(* An answer made of the tree's blocks.                                     *)
LEMMA TreeAnswerOK ==
  ASSUME AllocInv, Sound, kind' = kind, used' = used, pend' = pend, NEW r, Cuts(Space, r),
         kind # "bitmap", avl' = r.s.avl, bmp' = r.s.bmp,
         held' = held \cup Range(r.ext), dup' = dup \cup Stolen(r.ext, TreeBlocks)
  PROVE  StepOK
<1>1. /\ dup = {} /\ AlwaysOK
      /\ SpaceOK(Space) /\ KindOK(Space) /\ Accounts(Space, held, used, pend)
      /\ Waiting(pend) # {} => kind = "hybrid"
      /\ Space.avl = avl /\ Space.bmp = bmp
  BY SoundState
<1>2. PICK s : s = r.s OBVIOUS
<1>3. PICK e : e = r.ext OBVIOUS
<1>4. /\ SpaceOK(s) /\ e \in Seq(Exts) /\ FreeIn(s) = FreeIn(Space) \ SeqCovered(e)
      /\ SeqCovered(e) \subseteq BlocksOf(avl.segs) /\ Twice(e) = {}
      /\ Unseen(s.bmp) \subseteq Unseen(bmp)
      /\ ~Limited => s.bmp = bmp
  BY <1>1, <1>2, <1>3 DEF Cuts
<1>5. KindOK(s)
  <2>1. kind = "avl" => s.bmp.l0 = {} BY <1>1, <1>4 DEF KindOK, Limited
  <2> QED BY <1>1, <2>1 DEF KindOK
<1>6. Stolen(e, TreeBlocks) = {} BY <1>4, StolenIs DEF TreeBlocks
<1>7. dup' = dup BY <1>3, <1>6
<1>8. SeqCovered(e) \subseteq FreeIn(Space) BY <1>1, <1>4 DEF FreeIn
<1>9. SeqCovered(e) \cap OwnedBy(held, used, pend) = {} BY <1>1, <1>8 DEF Accounts
<1>10. OwnersOK(held, used, pend) BY <1>1 DEF Accounts
<1>11. /\ OwnersOK(held', used', pend')
       /\ OwnedBy(held', used', pend') = OwnedBy(held, used, pend) \cup SeqCovered(e)
  <2>1. held' = held \cup Range(e) BY <1>3
  <2>2. /\ OwnersOK(held', used, pend)
        /\ OwnedBy(held', used, pend) = OwnedBy(held, used, pend) \cup SeqCovered(e)
    BY <1>4, <1>9, <1>10, <2>1, AnswerOwned
  <2> QED BY <2>2
<1>12. pend' \in [Threads -> {None} \cup Halfway] BY <1>1 DEF AlwaysOK
<1>13. avl' = s.avl /\ bmp' = s.bmp BY <1>2
<1> QED BY <1>1, <1>4, <1>5, <1>7, <1>8, <1>11, <1>12, <1>13, LentOK

(* A request has a length and a unit.                                       *)
LEMMA RequestIs ==
  ASSUME NEW req \in Requests
  PROVE  req[1] \in Nat \ {0} /\ req[2] \in Nat \ {0} /\ req[3] \in Nat
BY CallAssumption

(* AvlAllocator::allocate() lends blocks of the tree, each once.            *)
LEMMA AllocateAvlOK ==
  ASSUME AllocInv, NEW req \in Requests, AllocateAvl(req)
  PROVE  StepOK
<1>1. PICK max \in Nat \ {0} : max = IF req[3] = 0 THEN req[1] ELSE req[3] BY RequestIs
<1>2. /\ kind' = kind /\ used' = used /\ pend' = pend /\ Sound /\ kind = "avl"
      /\ \E giveUp \in BOOLEAN : \E r \in {AvlAllocate(Space, req[1], req[2], max, giveUp)} :
           Become(r.s) /\ Answer(req, r.ext, r.got, TreeBlocks)
  BY <1>1 DEF AllocateAvl
<1>3. PICK giveUp : \E r \in {AvlAllocate(Space, req[1], req[2], max, giveUp)} :
                      Become(r.s) /\ Answer(req, r.ext, r.got, TreeBlocks)
  BY <1>2
<1>4. PICK r : /\ r = AvlAllocate(Space, req[1], req[2], max, giveUp)
               /\ Become(r.s) /\ Answer(req, r.ext, r.got, TreeBlocks)
  BY <1>3
<1>5. SpaceOK(Space) BY <1>2, SoundState
<1>6. Cuts(Space, r) BY <1>4, <1>5, RequestIs, AvlAllocateOK
<1>7. /\ avl' = r.s.avl /\ bmp' = r.s.bmp /\ held' = held \cup Range(r.ext)
      /\ dup' = dup \cup Stolen(r.ext, TreeBlocks)
  BY <1>4 DEF Become, Answer
<1> QED BY <1>2, <1>6, <1>7, TreeAnswerOK

(* The tree's half of a hybrid allocate(): an answer, or a thread that      *)
(* waits for the bitmap's lock with what it has.                            *)
LEMMA HybridAllocateTreeOK ==
  ASSUME AllocInv, NEW t \in Threads, NEW req \in Requests, HybridAllocateTree(t, req)
  PROVE  StepOK
<1>1. req[1] \in Nat \ {0} /\ req[2] \in Nat \ {0} /\ req[3] \in Nat \ {0}
  BY RequestIs DEF HybridAllocateTree
<1>2. kind' = kind /\ used' = used /\ Sound /\ kind = "hybrid" /\ pend[t] = None
  BY DEF HybridAllocateTree
<1>3. PICK r : /\ Cuts(Space, r)
               /\ avl' = r.s.avl /\ bmp' = r.s.bmp
               /\ IF r.got < req[1]
                    THEN /\ pend' = [pend EXCEPT ![t] = [req |-> req, ext |-> r.ext, got |-> r.got]]
                         /\ held' = held /\ dup' = dup
                    ELSE Answer(req, r.ext, r.got, TreeBlocks) /\ pend' = pend
  <2>1. PICK giveUp : \E r \in {AvlAllocate(Space, req[1], req[2], req[3], giveUp)} :
          /\ Become(r.s)
          /\ IF r.got < req[1]
               THEN /\ pend' = [pend EXCEPT ![t] = [req |-> req, ext |-> r.ext, got |-> r.got]]
                    /\ last' = None
                    /\ UNCHANGED <<held, dup>>
               ELSE Answer(req, r.ext, r.got, TreeBlocks) /\ UNCHANGED pend
    BY DEF HybridAllocateTree
  <2>2. PICK r : /\ r = AvlAllocate(Space, req[1], req[2], req[3], giveUp)
                 /\ Become(r.s)
                 /\ IF r.got < req[1]
                      THEN /\ pend' = [pend EXCEPT ![t] = [req |-> req, ext |-> r.ext, got |-> r.got]]
                           /\ held' = held /\ dup' = dup
                      ELSE Answer(req, r.ext, r.got, TreeBlocks) /\ pend' = pend
    BY <2>1
  <2>3. SpaceOK(Space) BY <1>2, SoundState
  <2>4. Cuts(Space, r) BY <1>1, <2>2, <2>3, AvlAllocateOK
  <2> QED BY <2>2, <2>4 DEF Become
<1>4. CASE ~(r.got < req[1])
  <2>1. /\ pend' = pend /\ held' = held \cup Range(r.ext)
        /\ dup' = dup \cup Stolen(r.ext, TreeBlocks)
    BY <1>3, <1>4 DEF Answer
  <2> QED BY <1>2, <1>3, <2>1, TreeAnswerOK
<1>5. CASE r.got < req[1]
  <2>1. /\ dup = {} /\ AlwaysOK
        /\ SpaceOK(Space) /\ KindOK(Space) /\ Accounts(Space, held, used, pend)
        /\ Space.avl = avl /\ Space.bmp = bmp
    BY <1>2, SoundState
  <2>2. PICK s : s = r.s OBVIOUS
  <2>3. PICK w : w = [req |-> req, ext |-> r.ext, got |-> r.got] OBVIOUS
  <2>4. /\ SpaceOK(s) /\ w.ext \in Seq(Exts) /\ FreeIn(s) = FreeIn(Space) \ SeqCovered(w.ext)
        /\ SeqCovered(w.ext) \subseteq BlocksOf(avl.segs) /\ Twice(w.ext) = {}
        /\ Unseen(s.bmp) \subseteq Unseen(bmp)
    BY <1>3, <2>1, <2>2, <2>3 DEF Cuts
  <2>5. w \in Halfway BY <1>3, <2>3 DEF Halfway, Cuts
  <2>6. w # None
    <3>1. Seq(Exts) \subseteq Seq(Nat \X Nat) BY DEF Exts
    <3>2. w \in [req : Requests, ext : Seq(Nat \X Nat), got : Nat] BY <2>5, <3>1 DEF Halfway
    <3> QED BY <3>2, CallAssumption
  <2>7. KindOK(s) BY <1>2 DEF KindOK
  <2>8. SeqCovered(w.ext) \subseteq FreeIn(Space) BY <2>1, <2>4 DEF FreeIn
  <2>9. SeqCovered(w.ext) \cap OwnedBy(held, used, pend) = {} BY <2>1, <2>8 DEF Accounts
  <2>10. OwnersOK(held, used, pend) BY <2>1 DEF Accounts
  <2>11. pend \in [Threads -> {None} \cup Halfway] BY <2>1 DEF AlwaysOK
  <2>12. pend' = [pend EXCEPT ![t] = w] /\ held' = held /\ dup' = dup BY <1>3, <1>5, <2>3
  <2>13. Puts(pend, pend', t, w) BY <2>11, <2>12 DEF Puts
  <2>14. /\ OwnersOK(held, used, pend')
         /\ OwnedBy(held, used, pend') = OwnedBy(held, used, pend) \cup SeqCovered(w.ext)
    BY <1>2, <2>4, <2>6, <2>9, <2>10, <2>13, WaitOwned
  <2>15. pend' \in [Threads -> {None} \cup Halfway] BY <2>5, <2>11, <2>12
  <2>16. avl' = s.avl /\ bmp' = s.bmp BY <1>3, <2>2
  <2>17. /\ OwnersOK(held', used', pend')
         /\ OwnedBy(held', used', pend') = OwnedBy(held, used, pend) \cup SeqCovered(w.ext)
    BY <1>2, <2>12, <2>14
  <2> QED BY <1>2, <2>4, <2>7, <2>8, <2>12, <2>15, <2>16, <2>17, LentOK
<1> QED BY <1>4, <1>5

(* The bitmap answers with r, and the client gets e: those extents after    *)
(* the ones d its request already had.                                      *)
BitmapAnswer(r, d, e) ==
  /\ Takes(bmp, r) /\ bmp' = r.m /\ avl' = avl
  /\ d \in Seq(Exts) /\ Twice(d) = {} /\ Both(e, d, r.ext, Exts)
  /\ held' = held \cup Range(e) /\ dup' = dup \cup Stolen(r.ext, bmp.l0)
  /\ OwnersOK(held, used, pend')
  /\ OwnedBy(held, used, pend') \cup SeqCovered(d) = OwnedBy(held, used, pend)
  /\ SeqCovered(d) \cap OwnedBy(held, used, pend') = {}
  /\ Waiting(pend') \subseteq Waiting(pend)
  /\ pend' \in [Threads -> {None} \cup Halfway]

(* After the bitmap's answer its blocks have an owner.                      *)
LEMMA BitmapAnswerOwned ==
  ASSUME NEW r, NEW d, NEW e, BitmapAnswer(r, d, e)
  PROVE  /\ OwnedBy(held', used, pend') = OwnedBy(held, used, pend) \cup SeqCovered(r.ext)
         /\ SeqCovered(e) = SeqCovered(d) \cup SeqCovered(r.ext)
         /\ SeqCovered(e) \subseteq Covered(held')
<1>1. /\ held' = held \cup Range(e)
      /\ OwnedBy(held, used, pend') \cup SeqCovered(d) = OwnedBy(held, used, pend)
  BY DEF BitmapAnswer
<1>2. SeqCovered(e) = SeqCovered(d) \cup SeqCovered(r.ext) BY DEF BitmapAnswer, Both
<1>3. Covered(held') = Covered(held) \cup SeqCovered(e) BY <1>1, MoreHeld DEF SeqCovered
<1>4. OwnedBy(held', used, pend') = OwnedBy(held, used, pend') \cup SeqCovered(e)
  BY <1>3 DEF OwnedBy
<1> QED BY <1>1, <1>2, <1>3, <1>4

(* A block that was not free comes from an L1 entry that said free.         *)
LEMMA BitmapAnswerStale ==
  ASSUME dup = {}, kind # "avl", NEW r, NEW d, NEW e, BitmapAnswer(r, d, e)
  PROVE  OnlyStale
<1>1. SeqCovered(r.ext) \subseteq Covered(held') BY BitmapAnswerOwned
<1>2. dup' = Stolen(r.ext, bmp.l0) BY DEF BitmapAnswer
<1>3. \A b \in Stolen(r.ext, bmp.l0) : StaleFree(bmp, SeqCovered(r.ext), b)
  BY DEF BitmapAnswer, Takes
<1> QED BY <1>1, <1>2, <1>3 DEF OnlyStale, StaleFree

(* Every block handed out was free.                                         *)
LEMMA BitmapAnswerSound ==
  ASSUME AllocInv, Sound, kind' = kind, used' = used, kind # "avl",
         NEW r, NEW d, NEW e, BitmapAnswer(r, d, e), Stolen(r.ext, bmp.l0) = {}
  PROVE  StepOK
<1>1. /\ dup = {} /\ AlwaysOK
      /\ SpaceOK(Space) /\ KindOK(Space) /\ Accounts(Space, held, used, pend)
      /\ Waiting(pend) # {} => kind = "hybrid"
      /\ Space.avl = avl /\ Space.bmp = bmp
  BY SoundState
<1>2. PICK m : m = r.m OBVIOUS
<1>3. PICK S : S = SeqCovered(r.ext) OBVIOUS
<1>4. /\ m \in MapType /\ Honest(m) /\ m.l0 = bmp.l0 \ S
      /\ Unseen(m) \subseteq Unseen(bmp) /\ m.available = Cardinality(m.l0)
      /\ bmp' = m /\ avl' = avl
  BY <1>2, <1>3 DEF BitmapAnswer, Takes
<1>5. S \subseteq bmp.l0 /\ Twice(r.ext) = {} BY <1>3, StolenIs
<1>6. MapOK(m) BY <1>4 DEF MapOK
<1>7. PICK s : s = [Space EXCEPT !.bmp = m] OBVIOUS
<1>8. SpaceOK(s) /\ s.avl = avl /\ s.bmp = m BY <1>1, <1>4, <1>6, <1>7, SmallerMap
<1>9. KindOK(s) BY <1>1, <1>8 DEF KindOK
<1>10. ASSUME NEW b \in S PROVE b \notin BlocksOf(avl.segs) BY <1>1, <1>5, TreeApart
<1>11. FreeIn(s) = FreeIn(Space) \ S /\ S \subseteq FreeIn(Space)
  BY <1>1, <1>4, <1>5, <1>8, <1>10 DEF FreeIn
<1>12. S \cap OwnedBy(held, used, pend) = {} BY <1>1, <1>11 DEF Accounts
<1>13. /\ OwnedBy(held', used, pend') = OwnedBy(held, used, pend) \cup S
       /\ SeqCovered(e) = SeqCovered(d) \cup S
  BY <1>3, BitmapAnswerOwned
<1>14. /\ OwnedBy(held, used, pend') \cup SeqCovered(d) = OwnedBy(held, used, pend)
       /\ SeqCovered(d) \cap OwnedBy(held, used, pend') = {}
       /\ OwnersOK(held, used, pend')
       /\ Twice(d) = {} /\ held' = held \cup Range(e)
       /\ dup' = dup \cup Stolen(r.ext, bmp.l0)
       /\ Waiting(pend') \subseteq Waiting(pend)
       /\ pend' \in [Threads -> {None} \cup Halfway]
  BY DEF BitmapAnswer
<1>15. e \in Seq(Exts) /\ Twice(e) = Twice(d) \cup Twice(r.ext) \cup (SeqCovered(d) \cap S)
  BY <1>3 DEF BitmapAnswer, Both
<1>16. Twice(e) = {} BY <1>5, <1>12, <1>14, <1>15
<1>17. SeqCovered(e) \cap OwnedBy(held, used, pend') = {} BY <1>12, <1>13, <1>14
<1>18. OwnersOK(held', used, pend') BY <1>14, <1>15, <1>16, <1>17, AnswerOwned
<1>19. Waiting(pend') # {} => kind = "hybrid" BY <1>1, <1>14
<1>20. avl' = s.avl /\ bmp' = s.bmp /\ dup' = dup /\ Unseen(s.bmp) \subseteq Unseen(bmp)
  BY <1>4, <1>8, <1>14
<1>21. /\ OwnersOK(held', used', pend')
       /\ OwnedBy(held', used', pend') = OwnedBy(held, used, pend) \cup S
  BY <1>13, <1>18
<1>22. pend' \in [Threads -> {None} \cup Halfway] BY <1>14
<1> QED BY <1>8, <1>9, <1>11, <1>19, <1>20, <1>21, <1>22, LentOK

(* Some block handed out was not free: the types and the summaries hold on. *)
LEMMA BitmapAnswerDouble ==
  ASSUME AllocInv, Sound, kind' = kind, used' = used, kind # "avl",
         NEW r, NEW d, NEW e, BitmapAnswer(r, d, e), Stolen(r.ext, bmp.l0) # {}
  PROVE  StepOK
<1>1. /\ dup = {} /\ AlwaysOK /\ Accounts(Space, held, used, pend)
      /\ FreeNow = FreeIn(Space) /\ Owned = OwnedBy(held, used, pend)
      /\ Space.avl = avl /\ Space.bmp = bmp
  BY SoundState
<1>2. PICK S : S = SeqCovered(r.ext) OBVIOUS
<1>3. /\ bmp' \in MapType /\ Honest(bmp') /\ bmp'.l0 = bmp.l0 \ S
      /\ Unseen(bmp') \subseteq Unseen(bmp) /\ S \subseteq Blocks
      /\ avl' = avl
  BY <1>2 DEF BitmapAnswer, Takes
<1>4. /\ OwnedBy(held', used, pend') = OwnedBy(held, used, pend) \cup S
      /\ SeqCovered(e) = SeqCovered(d) \cup S
  BY <1>2, BitmapAnswerOwned
<1>5. /\ OwnedBy(held, used, pend') \cup SeqCovered(d) = OwnedBy(held, used, pend)
      /\ held' = held \cup Range(e)
      /\ dup' = dup \cup Stolen(r.ext, bmp.l0)
      /\ pend' \in [Threads -> {None} \cup Halfway]
  BY DEF BitmapAnswer
<1>6. e \in Seq(Exts) BY DEF BitmapAnswer, Both
<1>7. SeqCovered(e) \subseteq Blocks BY <1>1, <1>3, <1>4, <1>5 DEF Accounts
<1>8. \A x \in held' : ExtentOf(x) /\ ExtentBlocks(x) \subseteq Blocks
  <2>1. \A x \in Range(e) : ExtentOf(x) /\ ExtentBlocks(x) \subseteq SeqCovered(e)
    BY <1>6, AnswerExtents
  <2> QED BY <1>1, <1>5, <1>7, <2>1 DEF AlwaysOK
<1>9. AlwaysOK' BY <1>1, <1>3, <1>5, <1>8 DEF AlwaysOK, Honest, Unseen
<1>10. dup' # {} BY <1>5
<1>11. AllocInv' BY <1>9, <1>10 DEF AllocInv
<1>12. FreeNow' = BlocksOf(avl.segs) \cup (bmp.l0 \ S) BY <1>3, SpaceIsNext
<1>13. Owned' = Owned \cup S BY <1>1, <1>4, SpaceIsNext
<1>14. dup' = (S \ bmp.l0) \cup Twice(r.ext) /\ Twice(r.ext) \subseteq S
  BY <1>1, <1>2, <1>5, StolenIs DEF Twice
<1>15. FreeIn(Space) = BlocksOf(avl.segs) \cup bmp.l0 BY <1>1 DEF FreeIn
<1>16. Lending
  <2> DEFINE T == S \cap FreeIn(Space)
  <2>1. T \subseteq FreeNow \ dup BY <1>1
  <2>2. \A b \in bmp.l0 : b \notin BlocksOf(avl.segs) BY <1>1, SoundState, TreeApart
  <2>2a. (FreeNow \ dup)' = (FreeNow \ dup) \ T BY <1>1, <1>12, <1>14, <1>15, <2>2
  <2>3. Owned' = Owned \cup T BY <1>1, <1>3, <1>13 DEF Accounts
  <2> QED BY <2>1, <2>2a, <2>3 DEF Lending
<1>17. OnlyStale BY <1>1, BitmapAnswerStale
<1> QED BY <1>11, <1>16, <1>17 DEF StepOK

(* BitmapAllocator::allocate() lends blocks of the bitmap.                  *)
LEMMA AllocateBitmapOK ==
  ASSUME AllocInv, NEW req \in Requests, AllocateBitmap(req)
  PROVE  StepOK
<1>1. /\ Sound /\ kind' = kind /\ avl' = avl /\ used' = used /\ pend' = pend /\ kind = "bitmap"
  BY DEF AllocateBitmap
<1>2. PICK r : /\ r = BitmapAllocate(bmp, req[1], req[2], req[3])
               /\ bmp' = r.m /\ Answer(req, r.ext, r.got, bmp.l0)
  BY DEF AllocateBitmap
<1>3. /\ AlwaysOK /\ SpaceOK(Space) /\ Accounts(Space, held, used, pend) /\ Space.bmp = bmp
  BY <1>1, SoundState
<1>4. MapOK(bmp) BY <1>3 DEF SpaceOK
<1>5. Takes(bmp, r) BY <1>2, <1>4, RequestIs, BitmapAllocateOK
<1>6. /\ <<>> \in Seq(Exts) /\ SeqCovered(<<>>) = {} /\ Twice(<<>>) = {} BY NoExtents
<1>7. r.ext \in Seq(Exts) BY <1>5 DEF Takes
<1>8. Both(r.ext, <<>>, r.ext, Exts) BY <1>6, <1>7 DEF Both
<1>9. held' = held \cup Range(r.ext) /\ dup' = dup \cup Stolen(r.ext, bmp.l0)
  BY <1>2 DEF Answer
<1>10. OwnersOK(held, used, pend') BY <1>1, <1>3 DEF Accounts
<1>11. pend' \in [Threads -> {None} \cup Halfway] BY <1>1, <1>3 DEF AlwaysOK
<1>12. /\ OwnedBy(held, used, pend') \cup SeqCovered(<<>>) = OwnedBy(held, used, pend)
       /\ SeqCovered(<<>>) \cap OwnedBy(held, used, pend') = {}
       /\ Waiting(pend') \subseteq Waiting(pend)
  BY <1>1, <1>6
<1>13. BitmapAnswer(r, <<>>, r.ext)
  BY <1>1, <1>2, <1>5, <1>6, <1>8, <1>9, <1>10, <1>11, <1>12 DEF BitmapAnswer
<1>14. PICK d : d = <<>> OBVIOUS
<1>15. PICK e : e = r.ext OBVIOUS
<1>16. BitmapAnswer(r, d, e) BY <1>13, <1>14, <1>15
<1> QED BY <1>1, <1>16, BitmapAnswerSound, BitmapAnswerDouble

(* The bitmap's half of a hybrid allocate().                                *)
LEMMA HybridAllocateChildOK ==
  ASSUME AllocInv, NEW t \in Threads, HybridAllocateChild(t)
  PROVE  StepOK
<1>1. /\ Sound /\ kind' = kind /\ avl' = avl /\ used' = used /\ pend[t] # None
      /\ pend' = [pend EXCEPT ![t] = None]
  BY DEF HybridAllocateChild
<1>2. PICK p : p = pend[t] OBVIOUS
<1>3. PICK r : /\ r = BitmapAllocate(bmp, p.req[1] - p.got, p.req[2], p.req[3])
               /\ bmp' = r.m
               /\ held' = held \cup Range(p.ext \o r.ext)
               /\ dup' = dup \cup Stolen(r.ext, bmp.l0)
  BY <1>2 DEF HybridAllocateChild
<1>4. /\ AlwaysOK /\ SpaceOK(Space) /\ Accounts(Space, held, used, pend) /\ Space.bmp = bmp
      /\ Waiting(pend) # {} => kind = "hybrid"
  BY <1>1, SoundState
<1>5. pend \in [Threads -> {None} \cup Halfway] BY <1>4 DEF AlwaysOK
<1>6. p \in Halfway BY <1>1, <1>2, <1>5
<1>7. p.req \in Requests /\ p.ext \in Seq(Exts) BY <1>6 DEF Halfway
<1>8. p.req[2] \in Nat \ {0} /\ p.req[3] \in Nat BY <1>7, RequestIs
<1>9. MapOK(bmp) BY <1>4 DEF SpaceOK
<1>10. Takes(bmp, r) BY <1>3, <1>8, <1>9, BitmapAllocateOK
<1>11. t \in Waiting(pend) BY <1>1 DEF Waiting
<1>12. kind = "hybrid" BY <1>4, <1>11
<1>13. Puts(pend, pend', t, None) BY <1>1, <1>5 DEF Puts
<1>14. OwnersOK(held, used, pend) BY <1>4 DEF Accounts
<1>15. Twice(p.ext) = {} BY <1>2, <1>11, <1>14 DEF OwnersOK
<1>16. /\ OwnedBy(held, used, pend') \cup SeqCovered(p.ext) = OwnedBy(held, used, pend)
       /\ Waiting(pend') \subseteq Waiting(pend)
       /\ OwnersOK(held, used, pend') /\ SeqCovered(p.ext) \cap OwnedBy(held, used, pend') = {}
  <2>1. /\ OwnedBy(held, used, pend') \cup SeqCovered(pend[t].ext) = OwnedBy(held, used, pend)
        /\ Waiting(pend') \subseteq Waiting(pend)
        /\ OwnersOK(held, used, pend) =>
             /\ OwnersOK(held, used, pend')
             /\ SeqCovered(pend[t].ext) \cap OwnedBy(held, used, pend') = {}
    <3>1. pend[t] # None BY <1>1
    <3> QED BY <1>13, <3>1, DoneOwned
  <2> QED BY <1>2, <1>14, <2>1
<1>17. r.ext \in Seq(Exts) BY <1>10 DEF Takes
<1>18. PICK d \in Seq(Exts) : d = p.ext BY <1>7
<1>19. PICK f \in Seq(Exts) : f = r.ext BY <1>17
<1>20. PICK e : e = d \o f OBVIOUS
<1>21. Both(e, d, f, Exts) BY <1>20, Concatenated
<1>22. held' = held \cup Range(e) BY <1>3, <1>18, <1>19, <1>20
<1>23. pend' \in [Threads -> {None} \cup Halfway] BY <1>1, <1>5
<1>24. Both(e, d, r.ext, Exts) /\ Twice(d) = {} BY <1>15, <1>18, <1>19, <1>21
<1>25. /\ OwnedBy(held, used, pend') \cup SeqCovered(d) = OwnedBy(held, used, pend)
       /\ SeqCovered(d) \cap OwnedBy(held, used, pend') = {}
  BY <1>16, <1>18
<1>26. BitmapAnswer(r, d, e)
  BY <1>1, <1>3, <1>10, <1>16, <1>22, <1>23, <1>24, <1>25 DEF BitmapAnswer
<1>27. kind # "avl" BY <1>12
<1> QED BY <1>1, <1>26, <1>27, BitmapAnswerSound, BitmapAnswerDouble

(* The extents R a release() gives back: the sorted set covers just them.   *)
LEMMA ReleaseOK ==
  ASSUME AllocInv, NEW exts, Release(exts), NEW X, X = Range(exts),
         OneOrTwo(IntervalSet(exts), Covered(X))
  PROVE  StepOK
<1>1. /\ Sound /\ X \subseteq held /\ held' = held \ X
      /\ kind' = kind /\ used' = used /\ pend' = pend /\ dup' = dup
      /\ avl' = GiveBack(Space, ReleaseSet(exts)).avl /\ bmp' = GiveBack(Space, ReleaseSet(exts)).bmp
  BY DEF Release, Become
<1>2. /\ dup = {} /\ AlwaysOK
      /\ SpaceOK(Space) /\ KindOK(Space) /\ Accounts(Space, held, used, pend)
      /\ Waiting(pend) # {} => kind = "hybrid"
      /\ FreeNow = FreeIn(Space) /\ Owned = OwnedBy(held, used, pend)
      /\ Space.bmp = bmp
  BY <1>1, SoundState
<1>3. PICK S : S = Covered(X) OBVIOUS
<1>4. PICK R : R = IntervalSet(exts) OBVIOUS
<1>5. ReleaseSet(exts) = InOrder(R) BY <1>4 DEF ReleaseSet, InOrder
<1>6. PICK s : s = GiveBack(Space, InOrder(R)) OBVIOUS
<1>7. avl' = s.avl /\ bmp' = s.bmp BY <1>1, <1>5, <1>6
<1>8. OwnersOK(held, used, pend) BY <1>2 DEF Accounts
<1>9. /\ OwnersOK(held \ X, used, pend)
      /\ OwnedBy(held \ X, used, pend) = OwnedBy(held, used, pend) \ S
      /\ S \subseteq OwnedBy(held, used, pend)
  BY <1>1, <1>3, <1>8, GivenBack
<1>10. S \subseteq Blocks /\ S \cap FreeIn(Space) = {} BY <1>2, <1>9 DEF Accounts
<1>11. OneOrTwo(R, S) BY <1>3, <1>4
<1>12. Frees(Space, s, S) BY <1>2, <1>6, <1>10, <1>11, GiveBackOK
<1>13. SpaceOK(s) /\ KindOK(s) /\ FreeIn(s) = FreeIn(Space) \cup S BY <1>12 DEF Frees
<1>14. /\ OwnersOK(held', used', pend')
       /\ OwnedBy(held', used', pend') = OwnedBy(held, used, pend) \ S
  BY <1>1, <1>9
<1>15. Accounts(s, held', used', pend') BY <1>2, <1>10, <1>13, <1>14 DEF Accounts
<1>16. \A b \in Unseen(s.bmp) : \E c \in used' : c \div RegionBlocks = b \div RegionBlocks
  BY <1>1, <1>2, <1>12 DEF Frees, AlwaysOK
<1>17. pend' \in [Threads -> {None} \cup Halfway] BY <1>1, <1>2 DEF AlwaysOK
<1>18. Waiting(pend') # {} => kind = "hybrid" BY <1>1, <1>2
<1>19. AllocInv' BY <1>1, <1>7, <1>13, <1>15, <1>16, <1>17, <1>18, SoundStep
<1>20. FreeNow' = FreeIn(s) BY <1>7, SpaceIsNext DEF FreeIn
<1>21. Owned' = OwnedBy(held, used, pend) \ S BY <1>14, SpaceIsNext
<1>22. TakingBack
  <2>1. (FreeNow \ dup)' = (FreeNow \ dup) \cup S BY <1>1, <1>2, <1>13, <1>20
  <2>2. Owned' = Owned \ S /\ S \subseteq Owned BY <1>2, <1>9, <1>21
  <2> QED BY <2>1, <2>2 DEF TakingBack
<1> QED BY <1>1, <1>19, <1>22 DEF StepOK, OnlyStale

(* release() of one extent.                                                 *)
LEMMA ReleaseOneOK ==
  ASSUME AllocInv, NEW a \in held, Release(<<a>>)
  PROVE  StepOK
<1>1. ExtentOf(a) BY DEF AllocInv, AlwaysOK
<1>2. Range(<<a>>) = {a} BY DEF Range
<1>3. IntervalSet(<<a>>) = {a} BY <1>1, IntervalSetOfOne
<1>4. Covered({a}) = ExtentBlocks(a) BY DEF Covered, ExtentBlocks
<1>5. OneOrTwo(IntervalSet(<<a>>), Covered({a})) BY <1>1, <1>3, <1>4 DEF OneOrTwo
<1>6. PICK exts : exts = <<a>> OBVIOUS
<1>7. PICK X : X = {a} OBVIOUS
<1>8. Release(exts) /\ X = Range(exts) /\ OneOrTwo(IntervalSet(exts), Covered(X))
  BY <1>2, <1>5, <1>6, <1>7
<1> QED BY <1>8, ReleaseOK

(* release() of two extents, touching or not, in any order.                 *)
LEMMA ReleaseTwoOK ==
  ASSUME AllocInv, NEW a \in held, NEW b \in held, a # b, Release(<<a, b>>)
  PROVE  StepOK
<1>1. ExtentOf(a) /\ ExtentOf(b) BY DEF AllocInv, AlwaysOK
<1>2. Range(<<a, b>>) = {a, b} BY DEF Range
<1>3. IntervalSet(<<a, b>>) = IntervalInsert({a}, b) BY <1>1, IntervalSetOfTwo
<1>4. Covered({a, b}) = ExtentBlocks(a) \cup ExtentBlocks(b) BY DEF Covered, ExtentBlocks
<1>5. Sound BY DEF Release
<1>6. ExtentBlocks(a) \cap ExtentBlocks(b) = {} BY <1>5, SoundState DEF Accounts, OwnersOK
<1>7. OneOrTwo(IntervalInsert({a}, b), ExtentBlocks(a) \cup ExtentBlocks(b))
  BY <1>1, <1>6, InsertSecond
<1>8. OneOrTwo(IntervalSet(<<a, b>>), Covered({a, b})) BY <1>3, <1>4, <1>7
<1>9. PICK exts : exts = <<a, b>> OBVIOUS
<1>10. PICK X : X = {a, b} OBVIOUS
<1>11. Release(exts) /\ X = Range(exts) /\ OneOrTwo(IntervalSet(exts), Covered(X))
  BY <1>2, <1>8, <1>9, <1>10
<1> QED BY <1>11, ReleaseOK

(* A new allocator is empty.                                                *)
LEMMA NewAllocator ==
  ASSUME kind \in {"avl", "bitmap", "hybrid"}, NEW s, s = [avl |-> EmptyAvl, bmp |-> EmptyMap]
  PROVE  /\ SpaceOK(s) /\ KindOK(s) /\ FreeIn(s) = {} /\ Unseen(s.bmp) = {}
         /\ s.avl = EmptyAvl /\ s.bmp = EmptyMap
<1>1. EmptyAvl.segs = {} /\ EmptyAvl.numFree = 0 /\ EmptyAvl \in TreeType
  BY Geometry DEF EmptyAvl, TreeType
<1>2. EmptyMap.l0 = {} /\ EmptyMap.available = 0 /\ EmptyMap.l1 = [e \in Entries |-> "FULL"]
  BY DEF EmptyMap
<1>3. EmptyMap \in MapType BY DEF EmptyMap, MapType, L1States
<1>4. BlocksOf({}) = {} BY DEF BlocksOf
<1>5. Cardinality({}) = 0 BY FS_EmptySet
<1>6. TreeOK(EmptyAvl) BY <1>1, <1>4, <1>5 DEF TreeOK, Spread
<1>7. Honest(EmptyMap) BY <1>2 DEF Honest
<1>8. MapOK(EmptyMap) BY <1>2, <1>3, <1>5, <1>7 DEF MapOK
<1>9. s.avl = EmptyAvl /\ s.bmp = EmptyMap /\ s \in SpaceType BY <1>1, <1>3 DEF SpaceType
<1>10. Limited => Cardinality(s.avl.segs) <= CAP BY <1>1, <1>5, <1>9, Geometry
<1>11. SpaceOK(s) BY <1>1, <1>6, <1>8, <1>9, <1>10 DEF SpaceOK
<1>12. KindOK(s) BY <1>1, <1>2, <1>9 DEF KindOK
<1>13. FreeIn(s) = {} BY <1>1, <1>2, <1>4, <1>9 DEF FreeIn
<1>14. Unseen(s.bmp) = {} BY <1>2, <1>9 DEF Unseen
<1> QED BY <1>9, <1>11, <1>12, <1>13, <1>14

(* shutdown(): the next mount starts from an empty allocator.               *)
LEMMA ShutdownOK ==
  ASSUME AllocInv, Shutdown
  PROVE  StepOK
<1>1. /\ Sound /\ Idle /\ avl' = EmptyAvl /\ bmp' = EmptyMap /\ held' = {} /\ used' = Blocks
      /\ kind' = kind /\ pend' = pend /\ dup' = dup
  BY DEF Shutdown
<1>2. dup = {} /\ AlwaysOK BY <1>1, SoundState
<1>3. kind \in {"avl", "bitmap", "hybrid"} /\ pend \in [Threads -> {None} \cup Halfway]
  BY <1>2 DEF AlwaysOK
<1>4. PICK s : s = [avl |-> EmptyAvl, bmp |-> EmptyMap] OBVIOUS
<1>5. /\ SpaceOK(s) /\ KindOK(s) /\ FreeIn(s) = {} /\ Unseen(s.bmp) = {}
      /\ s.avl = EmptyAvl /\ s.bmp = EmptyMap
  BY <1>3, <1>4, NewAllocator
<1>6. \A t \in Threads : pend[t] = None BY <1>1 DEF Idle
<1>7. Waiting(pend) = {} /\ OwnersOK({}, Blocks, pend) /\ OwnedBy({}, Blocks, pend) = Blocks
  BY <1>6, NoOwners
<1>8. Waiting(pend') = {} /\ OwnersOK(held', used', pend') /\ OwnedBy(held', used', pend') = Blocks
  BY <1>1, <1>7
<1>9. Accounts(s, held', used', pend') BY <1>5, <1>8 DEF Accounts
<1>10. avl' = s.avl /\ bmp' = s.bmp /\ pend' \in [Threads -> {None} \cup Halfway]
  BY <1>1, <1>3, <1>5
<1>11. \A b \in Unseen(s.bmp) : \E c \in used' : c \div RegionBlocks = b \div RegionBlocks
  BY <1>5
<1>12. AllocInv' BY <1>1, <1>5, <1>8, <1>9, <1>10, <1>11, SoundStep
<1>13. FreeNow' = FreeIn(s) BY <1>10, SpaceIsNext DEF FreeIn
<1>14. Restarting BY <1>5, <1>8, <1>13, SpaceIsNext DEF Restarting
<1> QED BY <1>1, <1>12, <1>14 DEF StepOK, OnlyStale

(* A new allocator has nothing free.                                        *)
LEMMA InitOK ==
  ASSUME Init
  PROVE  AllocInv /\ FreeNow \ dup = {} /\ Owned = Blocks
<1>1. /\ kind \in {"avl", "bitmap", "hybrid"} /\ avl = EmptyAvl /\ bmp = EmptyMap /\ held = {}
      /\ used = Blocks /\ pend = [t \in Threads |-> None] /\ dup = {}
  BY GeometryAssumption DEF Init
<1>2. /\ SpaceOK(Space) /\ KindOK(Space) /\ FreeIn(Space) = {} /\ Unseen(bmp) = {}
  <2>1. PICK s : s = [avl |-> EmptyAvl, bmp |-> EmptyMap] OBVIOUS
  <2>2. s = Space BY <1>1, <2>1 DEF Space
  <2> QED BY <1>1, <2>1, <2>2, NewAllocator
<1>3. \A t \in Threads : pend[t] = None BY <1>1
<1>4. Waiting(pend) = {} /\ OwnersOK({}, Blocks, pend) /\ OwnedBy({}, Blocks, pend) = Blocks
  BY <1>3, NoOwners
<1>5. SoundOK BY <1>1, <1>2, <1>4 DEF SoundOK
<1>6. avl \in TreeType /\ bmp \in MapType /\ Honest(bmp)
  BY <1>2, SpaceIs DEF SpaceOK, SpaceType, MapOK
<1>7. AlwaysOK BY <1>1, <1>2, <1>6 DEF AlwaysOK
<1>8. FreeNow \ dup = {} /\ Owned = Blocks BY <1>1, <1>2, <1>4, SpaceIs
<1> QED BY <1>5, <1>7, <1>8 DEF AllocInv

(* A range has a length.                                                    *)
LEMMA RangeOf ==
  ASSUME NEW r \in Ranges
  PROVE  r[1] \in Nat /\ r[2] \in Nat \ {0}
BY CallAssumption

(* Every action of Next.                                                    *)
LEMMA NextOK ==
  ASSUME AllocInv, Next
  PROVE  StepOK
<1>1. CASE \E r \in Ranges : InitAddFree(r[1], r[2]) BY <1>1, RangeOf, InitAddFreeOK
<1>2. CASE \E r \in Ranges : InitRmFree(r[1], r[2]) BY <1>2, RangeOf, InitRmFreeOK
<1>3. CASE \E req \in Requests : AllocateAvl(req) BY <1>3, AllocateAvlOK
<1>4. CASE \E req \in Requests : AllocateBitmap(req) BY <1>4, AllocateBitmapOK
<1>5. CASE \E t \in Threads, req \in Requests : HybridAllocateTree(t, req)
  BY <1>5, HybridAllocateTreeOK
<1>6. CASE \E t \in Threads : HybridAllocateChild(t) BY <1>6, HybridAllocateChildOK
<1>7. CASE \E a \in held : Release(<<a>>) BY <1>7, ReleaseOneOK
<1>8. CASE \E a, b \in held : a # b /\ Release(<<a, b>>) BY <1>8, ReleaseTwoOK
<1>9. CASE Shutdown BY <1>9, ShutdownOK
<1> QED BY <1>1, <1>2, <1>3, <1>4, <1>5, <1>6, <1>7, <1>8, <1>9 DEF Next

(* A step that changes nothing.                                             *)
LEMMA Stutter ==
  ASSUME AllocInv, UNCHANGED vars
  PROVE  AllocInv'
<1>1. /\ kind' = kind /\ avl' = avl /\ bmp' = bmp /\ held' = held /\ used' = used
      /\ pend' = pend /\ dup' = dup
  BY DEF vars
<1>2. AlwaysOK' BY <1>1 DEF AllocInv, AlwaysOK, Honest, Unseen
<1>3. Space' = Space /\ Limited' = Limited BY <1>1 DEF Space, Limited
<1>4. SoundOK' = SoundOK BY <1>1, <1>3 DEF SoundOK, SpaceOK, KindOK
<1> QED BY <1>1, <1>2, <1>4 DEF AllocInv

-----------------------------------------------------------------------------
(* What the invariant says                                                  *)

(* The types, from the invariant.                                           *)
LEMMA InvTypeOK == ASSUME AllocInv PROVE AllocatorTypeOK
<1>1. AlwaysOK BY DEF AllocInv
<1>2. /\ avl.segs \subseteq Segments /\ avl.lbas \in [Aligns -> 0..Size]
      /\ bmp.l0 \subseteq Blocks /\ bmp.l1 \in [Entries -> L1States] /\ bmp.l2 \subseteq Regions
  BY <1>1 DEF AlwaysOK, TreeType, MapType
<1>3. ASSUME NEW x \in held PROVE x \in (0..Size) \X (1..Size)
  <2>1. ExtentOf(x) /\ ExtentBlocks(x) \subseteq Blocks BY <1>1 DEF AlwaysOK
  <2>2. PICK off \in Nat : off = x[1] BY <2>1 DEF ExtentOf
  <2>3. PICK len \in Nat \ {0} : len = x[2] BY <2>1 DEF ExtentOf
  <2>4. Span(off, len) \subseteq Blocks BY <2>1, <2>2, <2>3 DEF ExtentBlocks
  <2>5. off + len <= Size BY <2>4, RangeIs
  <2>6. off \in 0..Size /\ len \in 1..Size BY <2>5, Geometry
  <2> QED BY <2>1, <2>2, <2>3, <2>6 DEF ExtentOf
<1>4. used \subseteq Blocks BY <1>1 DEF AlwaysOK
<1> QED BY <1>2, <1>3, <1>4 DEF AllocatorTypeOK, Segments, L1States

(* The accounts of blocks, counters and pieces, from the invariant.         *)
LEMMA InvAccounted == ASSUME AllocInv PROVE Accounted
<1> SUFFICES ASSUME dup = {} PROVE Partitioned /\ CountsExact /\ Coalesced BY DEF Accounted
<1>1. SpaceOK(Space) /\ OwnersOK(held, used, pend)
      /\ FreeIn(Space) \cup OwnedBy(held, used, pend) = Blocks
      /\ FreeIn(Space) \cap OwnedBy(held, used, pend) = {}
  BY DEF AllocInv, SoundOK
<1>2. /\ Space.avl = avl /\ Space.bmp = bmp
      /\ FreeNow = FreeIn(Space) /\ Owned = OwnedBy(held, used, pend)
  BY SpaceIs
<1>3. Partitioned
  <2>1. FreeNow \cup Owned = Blocks /\ FreeNow \cap Owned = {} BY <1>1, <1>2
  <2>2. TreeBlocks \cap bmp.l0 = {} BY <1>1, <1>2, TreeApart DEF TreeBlocks
  <2>3. ASSUME NEW x \in held, NEW y \in held, x # y PROVE Covered({x}) \cap Covered({y}) = {}
    <3>1. ExtentBlocks(x) \cap ExtentBlocks(y) = {} BY <1>1, <2>3 DEF OwnersOK
    <3>2. Covered({x}) = ExtentBlocks(x) /\ Covered({y}) = ExtentBlocks(y)
      BY DEF Covered, ExtentBlocks
    <3> QED BY <3>1, <3>2
  <2> QED BY <2>1, <2>2, <2>3 DEF Partitioned
<1>4. CountsExact BY <1>1, <1>2 DEF CountsExact, SpaceOK, TreeOK, MapOK, TreeBlocks
<1>5. Coalesced
  <2>1. Spread(avl.segs) /\ avl.segs \subseteq Segments /\ bmp.l0 \subseteq Blocks
    BY <1>1, <1>2 DEF SpaceOK, TreeOK, TreeType, MapOK, MapType
  <2>2. ASSUME NEW g \in avl.segs, NEW h \in avl.segs, g[2] = h[1] PROVE FALSE
    <3>1. /\ g[1] \in Nat /\ g[2] \in Nat /\ g[1] < g[2]
          /\ h[1] \in Nat /\ h[2] \in Nat /\ h[1] < h[2]
      BY <2>1, SegmentIs
    <3>2. g # h BY <2>2, <3>1
    <3>3. Apart(g, h) BY <2>1, <3>2 DEF Spread
    <3> QED BY <2>2, <3>1, <3>3 DEF Apart
  <2>3. ASSUME NEW g \in avl.segs PROVE g[1] - 1 \notin bmp.l0 /\ g[2] \notin bmp.l0
    <3>1. g[1] \in Nat /\ g[2] \in Nat /\ g[1] < g[2] BY <2>1, SegmentIs
    <3>2. \A b \in bmp.l0 : b < g[1] - 1 \/ b > g[2] BY <1>1, <1>2 DEF SpaceOK, Clear
    <3> QED BY <3>1, <3>2
  <2>4. Limited => Cardinality(avl.segs) <= CAP BY <1>1, <1>2 DEF SpaceOK
  <2> QED BY <2>2, <2>3, <2>4 DEF Coalesced
<1> QED BY <1>3, <1>4, <1>5

(* What the summaries show, from the invariant.                             *)
LEMMA InvSummaries == ASSUME AllocInv PROVE SummariesHideNothing
<1>1. AlwaysOK BY DEF AllocInv
<1>2. \A e \in Entries : bmp.l1[e] = "FULL" => EntryBlocks(e) \cap bmp.l0 = {}
  BY <1>1 DEF AlwaysOK, Honest
<1>3. ASSUME NEW r \in Regions, r \notin bmp.l2, RegionOf(r) \cap bmp.l0 # {}
      PROVE  RegionOf(r) \cap used # {}
  <2>1. r \in Nat BY DEF Regions
  <2>2. PICK b \in bmp.l0 : b \in RegionOf(r) BY <1>3
  <2>3. b \in Blocks BY <1>1 DEF AlwaysOK, MapType
  <2>4. b \in Nat BY <2>3, BlockIs
  <2>5. b \div RegionBlocks = r BY <2>1, <2>2, <2>4, InRegion
  <2>6. b \in Unseen(bmp) BY <1>3, <2>5 DEF Unseen
  <2>7. PICK c \in used : c \div RegionBlocks = r BY <1>1, <2>5, <2>6 DEF AlwaysOK
  <2>8. c \in Nat
    <3>1. c \in Blocks BY <1>1 DEF AlwaysOK
    <3> QED BY <3>1, BlockIs
  <2>9. c \in RegionOf(r) BY <2>1, <2>7, <2>8, InRegion
  <2> QED BY <2>9
<1> QED BY <1>2, <1>3 DEF SummariesHideNothing

-----------------------------------------------------------------------------
(* Theorems                                                                 *)

(* Every reachable state of the allocators satisfies the invariant.         *)
LEMMA Invariance == Spec => []AllocInv
<1>1. Init => AllocInv BY InitOK
<1>2. AllocInv /\ [Next]_vars => AllocInv' BY NextOK, Stutter DEF StepOK
<1> QED BY <1>1, <1>2, PTL DEF Spec

(* The segments, the counters and the two summaries keep their types        *)
(* between two locked sections, for every geometry of the bitmap, every     *)
(* cap of the hybrid's tree and any number of threads in allocate().        *)
THEOREM TypeCorrect == Spec => []AllocatorTypeOK
BY Invariance, InvTypeOK, PTL

(* Until a block is handed out twice, spilling, claiming back, cutting and  *)
(* merging of _add_to_tree(), _try_insert_range(), _process_range_removal() *)
(* and _free_l2() lose and duplicate no block, keep num_free_ and available *)
(* exact, and leave free space in one piece under the cap.                  *)
THEOREM AccountedAlways == Spec => []Accounted
BY Invariance, InvAccounted, PTL

(* No L1 entry that says full hides a free block, and a clear L2 bit over a *)
(* free block is left only by _mark_allocated() of init_rm_free().          *)
THEOREM SummariesHonest == Spec => []SummariesHideNothing
BY Invariance, InvSummaries, PTL

(* allocate() of all three classes hands out only free blocks, unless an L1 *)
(* entry still says free after _allocate_l0() took blocks of it; then the   *)
(* whole entry is in the answer.                                            *)
THEOREM OnlyFreeHandedOut == Spec => HandsOutFree
<1> DEFINE Free == \A b \in dup' \ dup : /\ kind # "avl"
                                         /\ bmp.l1[b \div EntryBits] = "FREE"
                                         /\ EntryBlocks(b \div EntryBits) \subseteq Covered(held')
<1>1. AllocInv /\ Next => Free BY NextOK DEF StepOK, OnlyStale
<1>2. AllocInv /\ [Next]_vars => [Free]_vars BY <1>1
<1> HIDE DEF Free
<1>3. Spec => [][Free]_vars BY <1>2, Invariance, PTL DEF Spec
<1> QED BY <1>3 DEF HandsOutFree, Free

(* Whatever their insides, the allocators are one set of free and one of    *)
(* lent blocks: each step of the code lends free blocks, takes lent ones    *)
(* back, starts anew, or changes nothing the clients see.                   *)
THEOREM AllocatorRefinesFreeSpace == Spec => RefinesFreeSpace
<1>1. Init => Abstract!Init BY InitOK DEF Abstract!Init
<1>2. AllocInv /\ Next => Abstract!Next
  <2> SUFFICES ASSUME AllocInv, Next PROVE Abstract!Next OBVIOUS
  <2>1. Lending \/ TakingBack \/ Restarting BY NextOK DEF StepOK
  <2>2. Lending => Abstract!Lend BY DEF Lending, Abstract!Lend
  <2>3. TakingBack => Abstract!TakeBack BY DEF TakingBack, Abstract!TakeBack
  <2>4. Restarting => Abstract!Restart BY DEF Restarting, Abstract!Restart
  <2> QED BY <2>1, <2>2, <2>3, <2>4 DEF Abstract!Next
<1>3. UNCHANGED vars => UNCHANGED Abstract!vars
  <2> SUFFICES ASSUME UNCHANGED vars PROVE UNCHANGED Abstract!vars OBVIOUS
  <2>1. avl' = avl /\ bmp' = bmp /\ held' = held /\ used' = used /\ pend' = pend /\ dup' = dup
    BY DEF vars
  <2>2. FreeNow' = FreeNow BY <2>1 DEF FreeNow, TreeBlocks
  <2>3. Owned' = Owned BY <2>1 DEF Owned, Pending
  <2> QED BY <2>1, <2>2, <2>3 DEF Abstract!vars
<1>4. AllocInv /\ [Next]_vars => [Abstract!Next]_Abstract!vars BY <1>2, <1>3
<1> QED BY <1>1, <1>4, Invariance, PTL DEF Spec, RefinesFreeSpace, Abstract!Spec
=============================================================================
