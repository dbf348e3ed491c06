----------------------------- MODULE Allocator -----------------------------
(***************************************************************************)
(* The block allocators of src/blk: AvlAllocator (free segments in a tree, *)
(* found by position or by size), BitmapAllocator (one bit per block with  *)
(* two levels of summaries above it) and HybridAllocator (a tree of at     *)
(* most CAP segments that spills into a bitmap).  Lengths and offsets are  *)
(* in blocks.  Each public method holds the allocator's lock for its whole *)
(* run and is one action, but for HybridAllocator::allocate(), which       *)
(* releases the tree's lock before it takes the bitmap's.                  *)
(***************************************************************************)
EXTENDS Integers, Sequences, FiniteSets, SequencesExt, FiniteSetsExt

CONSTANTS
  Kinds,      \* the types Allocator::create() is called with
  Size,       \* device_size; block 0 is never handed out (see Blocks)
  BITS,       \* bits_per_slot
  SLOTS,      \* slots_per_slotset
  ENTRIES,    \* L1_ENTRIES_PER_SLOT
  CAP,        \* range_count_cap_ of the hybrid allocator
  THRESHOLD,  \* range_size_alloc_threshold_
  FREEPCT,    \* range_size_alloc_free_pct_
  SEARCH,     \* max_search_count_
  BYTES,      \* max_search_bytes_
  WORD,       \* 2^64: the counters wrap
  Threads,    \* threads inside HybridAllocator::allocate()
  Requests,   \* <<want, unit, max_alloc_size>> triples the clients use
  Ranges,     \* <<offset, length>> pairs given to init_add/rm_free()
  None

(* One bitmap entry has EntryBits blocks, one L2 bit covers RegionBlocks.   *)
EntryBits    == BITS * SLOTS
RegionBlocks == EntryBits * SLOTS * ENTRIES
RoundUp(n, a)   == ((n + a - 1) \div a) * a
AlignDown(n, a) == (n \div a) * a

(* Block 0 holds a superblock for every client (BlueFS starts at skip, the  *)
(* freelist marks block 0), so no client ever adds or releases it.          *)
Blocks  == 1..(Size - 1)
NumRegions == RoundUp(Size, RegionBlocks) \div RegionBlocks
Entries == 0..(NumRegions * SLOTS * ENTRIES - 1)
Regions == 0..(NumRegions - 1)
EntryBlocks(e)  == (e * EntryBits)..((e + 1) * EntryBits - 1)
RegionOf(r)     == (r * RegionBlocks)..((r + 1) * RegionBlocks - 1)
RegionEnts(r)   == (r * SLOTS * ENTRIES)..((r + 1) * SLOTS * ENTRIES - 1)
Span(off, len)  == off..(off + len - 1)

(* The L2 summary fits one slot, and the device does not fill the bitmap's  *)
(* last region: the scan of _allocate_l0 stops inside the vector.           *)
ASSUME GeometryAssumption ==
  /\ Size \in Nat /\ BITS \in Nat \ {0} /\ SLOTS \in Nat \ {0}
  /\ ENTRIES \in Nat \ {0} /\ CAP \in Nat \ {0} /\ WORD \in Nat
  /\ Size % RegionBlocks # 0
  /\ Size < BITS * RegionBlocks
  /\ 2 * Size < WORD
  /\ Kinds \subseteq {"avl", "bitmap", "hybrid"}

(* Lengths and units are not zero (the code asserts it, or returns at once). *)
ASSUME CallAssumption ==
  /\ Ranges \subseteq Nat \X (Nat \ {0})
  /\ Requests \subseteq (Nat \ {0}) \X (Nat \ {0}) \X Nat
  /\ None \notin Nat
  /\ None \notin [req : Requests, ext : Seq(Nat \X Nat), got : Nat]

VARIABLES
  kind,   \* which class Allocator::create() made
  avl,    \* AvlAllocator: [segs, numFree, lbas]
  bmp,    \* BitmapAllocator, or the hybrid's child: [l0, l1, l2, available]
  held,   \* extents the clients own, as <<offset, length>>
  used,   \* blocks in use from before the mount, or never added
  pend,   \* thread -> a hybrid allocate() between its two locks, or None
  last,   \* the last completed request and its answer, or None
  dup     \* blocks handed out that were not free, or twice in one answer

vars == <<kind, avl, bmp, held, used, pend, last, dup>>

-----------------------------------------------------------------------------
(* Extents *)

Covered(exts) == UNION { Span(e[1], e[2]) : e \in exts }
SeqCovered(s) == Covered(Range(s))
Total(s) == FoldLeft(LAMBDA n, e : n + e[2], 0, s)

\* what an answer hands out that was not in had, or hands out twice
Stolen(s, had) ==
  (SeqCovered(s) \ had)
    \cup { b \in SeqCovered(s) : \E i, j \in DOMAIN s :
            i # j /\ b \in Span(s[i][1], s[i][2]) \cap Span(s[j][1], s[j][2]) }

\* S as a sequence, sorted by the order less
Sorted(S, less(_, _)) ==
  [i \in 1..Cardinality(S) |->
     CHOOSE x \in S : Cardinality({ y \in S : less(y, x) }) = i - 1]

\* the n smallest members of S
Smallest(S, n) == { b \in S : Cardinality({ c \in S : c < b }) < n }

\* the length of the run of S that begins at b
RunLength(S, b) == Max({ k \in 1..Cardinality(S) : Span(b, k) \subseteq S })

(* interval_set::insert() of one extent into a map offset -> length, kept  *)
(* as a set of extents; release(PExtentVector) builds its set with it.      *)
IntervalInsert(m, e) ==
  LET after == { x \in m : e[1] <= x[1] /\ x[1] <= e[1] + e[2] }
      len   == Max({e[2]} \cup { x[1] + x[2] - e[1] : x \in after })
      below == { x \in m : x[1] < e[1] }
      prev  == { x \in below : /\ x[1] + x[2] >= e[1]
                               /\ \A y \in below : y[1] <= x[1] }
      start == IF prev = {} THEN e[1] ELSE (CHOOSE x \in prev : TRUE)[1]
  IN (m \ (after \cup prev)) \cup {<<start, e[1] + len - start>>}

IntervalSet(exts) ==
  LET m[i \in 0..Len(exts)] == IF i = 0 THEN {} ELSE IntervalInsert(m[i - 1], exts[i])
  IN m[Len(exts)]
ReleaseSet(exts) == Sorted(IntervalSet(exts), LAMBDA x, y : x[1] < y[1])

-----------------------------------------------------------------------------
(* BitmapAllocator: l0 is the set of free blocks, l1 the two-bit entries,   *)
(* l2 the set of regions whose bit is set.                                  *)

EmptyMap == [l0 |-> {}, l1 |-> [e \in Entries |-> "FULL"], l2 |-> {},
             available |-> 0]

L1State(l0, e) ==
  CASE EntryBlocks(e) \cap l0 = {}      -> "FULL"
    [] EntryBlocks(e) \subseteq l0      -> "FREE"
    [] OTHER                            -> "PARTIAL"

\* regions and entries a block range touches
RegionsOf(lo, hi) == (lo \div RegionBlocks)..((RoundUp(hi, RegionBlocks) \div RegionBlocks) - 1)
EntriesOf(lo, hi) == (lo \div EntryBits)..((RoundUp(hi, EntryBits) \div EntryBits) - 1)

MarkL1OnL0(m, lo, hi) ==
  [m EXCEPT !.l1 = [e \in Entries |->
     IF e \in EntriesOf(lo, hi) THEN L1State(m.l0, e) ELSE m.l1[e]]]

MarkL2OnL1(m, rs) ==
  [m EXCEPT !.l2 = (@ \ rs) \cup
     { r \in rs : \E e \in RegionEnts(r) : m.l1[e] # "FULL" }]

\* Mutant: one block too many is freed
MarkFree_inclusive(m, off, len) ==
  [MarkL1OnL0([m EXCEPT !.l0 = @ \cup (off..(off + len))], off, off + len)
     EXCEPT !.l2 = @ \cup RegionsOf(off, off + len),
            !.available = (@ + len) % WORD]

\* _mark_free(), and one interval of _free_l2()
MarkFree(m, off, len) ==
  [MarkL1OnL0([m EXCEPT !.l0 = @ \cup Span(off, len)], off, off + len)
     EXCEPT !.l2 = @ \cup RegionsOf(off, off + len),
            !.available = (@ + len) % WORD]

\* every L2 bit of the range is cleared, whatever else its region has free
MarkAllocated(m, off, len) ==
  [MarkL1OnL0([m EXCEPT !.l0 = @ \ Span(off, len)], off, off + len)
     EXCEPT !.l2 = @ \ RegionsOf(off, off + len),
            !.available = (@ - len) % WORD]

(* _fragment_and_emplace(): extend the last extent up to max, then cut the  *)
(* rest into pieces of at most max.                                         *)
Joined(ext, run, max) ==
  IF ext # <<>> /\ Last(ext)[1] + Last(ext)[2] = run[1]
    THEN Min({run[2], max - Last(ext)[2]}) ELSE 0
Grown(ext, n) ==
  IF n = 0 THEN ext ELSE Append(Front(ext), <<Last(ext)[1], Last(ext)[2] + n>>)
Pieces(off, len, max) ==
  [i \in 1..(RoundUp(len, max) \div max) |->
     <<off + (i - 1) * max, Min({max, len - (i - 1) * max})>>]
EmplaceAfter(ext, run, max, n) == Grown(ext, n) \o Pieces(run[1] + n, run[2] - n, max)

Emplace(ext, run, max) == EmplaceAfter(ext, run, max, Joined(ext, run, max))

(* _allocate_l0(): free blocks of the entry in order; the last run is       *)
(* followed past the entry's end.  Only l0 changes: the l1 entries of the   *)
(* blocks taken are not brought up to date.                                 *)
Reachable(l0, e) ==
  (EntryBlocks(e) \cap l0)
    \cup { b \in l0 : b >= (e + 1) * EntryBits /\ (((e + 1) * EntryBits - 1)..b) \subseteq l0 }
EmplaceRuns(ext, taken, max) ==
  LET x[b \in 0..(Size - 1)] ==
        IF b = 0 THEN ext
        ELSE IF b \in taken /\ b - 1 \notin taken
               THEN Emplace(x[b - 1], <<b, RunLength(taken, b)>>, max) ELSE x[b - 1]
  IN x[Size - 1]
TakeBlocks(r, taken, max) ==
  [m   |-> [r.m EXCEPT !.l0 = @ \ taken],
   ext |-> EmplaceRuns(r.ext, taken, max),
   got |-> r.got + Cardinality(taken)]

AllocateL0(r, need, e, max) == TakeBlocks(r, Smallest(Reachable(r.m.l0, e), need), max)

\* Mutant: any entry that is not full is taken whole
AllocateEntry_not_full(r, want, max, e) ==
  IF r.m.l1[e] # "FULL" /\ want - r.got >= EntryBits
    THEN [m   |-> MarkL1OnL0([r.m EXCEPT !.l0 = @ \ EntryBlocks(e)],
                             e * EntryBits, (e + 1) * EntryBits),
          ext |-> Emplace(r.ext, <<e * EntryBits, EntryBits>>, max),
          got |-> r.got + EntryBits]
    ELSE IF r.m.l1[e] = "FULL" \/ want = r.got THEN r ELSE AllocateL0(r, want - r.got, e, max)

\* Mutant: partial entries are skipped
AllocateEntry_free_only(r, want, max, e) ==
  IF r.m.l1[e] # "FREE" \/ want = r.got THEN r ELSE AllocateL0(r, want - r.got, e, max)

\* a free entry is taken whole when enough is still wanted
AllocateEntry(r, want, max, e) ==
  LET rem == want - r.got
      lo  == e * EntryBits
  IN CASE r.m.l1[e] = "FULL" \/ rem = 0 -> r
       [] r.m.l1[e] = "FREE" /\ rem >= EntryBits ->
            [m   |-> MarkL1OnL0([r.m EXCEPT !.l0 = @ \ EntryBlocks(e)],
                                lo, lo + EntryBits),
             ext |-> Emplace(r.ext, <<lo, EntryBits>>, max),
             got |-> r.got + EntryBits]
       [] OTHER -> AllocateL0(r, rem, e, max)

AllocateL1(r, want, max, region) ==
  LET x[i \in 0..(SLOTS * ENTRIES)] ==
        IF i = 0 THEN r
        ELSE AllocateEntry(x[i - 1], want, max, region * SLOTS * ENTRIES + i - 1)
  IN x[SLOTS * ENTRIES]

\* Mutant: the L2 bit goes with the first block
ClearIfEmpty_always(r, region) == [r EXCEPT !.m.l2 = @ \ {region}]

\* the L2 bit goes with the region's last free block
ClearIfEmpty(r, region) ==
  [r EXCEPT !.m.l2 = { k \in @ : k = region => RegionOf(k) \cap r.m.l0 # {} }]

AllocateRegion(r, want, max, region) ==
  IF region \notin r.m.l2 \/ r.got >= want THEN r
  ELSE ClearIfEmpty(AllocateL1(r, want, max, region), region)

\* BitmapAllocator::allocate(): the unit rounds max_alloc_size, nothing else
MaxLength(max, unit) == Max({unit, AlignDown(IF max = 0 THEN WORD ELSE max, unit)})
Charge(r) == [r EXCEPT !.m.available = (@ - r.got) % WORD]

AllocateL2(m, want, max) ==
  LET r[i \in 0..NumRegions] ==
        IF i = 0 THEN [m |-> m, ext |-> <<>>, got |-> 0]
        ELSE AllocateRegion(r[i - 1], want, max, i - 1)
  IN Charge(r[NumRegions])

BitmapAllocate(m, want, unit, max) == AllocateL2(m, want, MaxLength(max, unit))

(* claim_free_to_left/right(): the run of free blocks that ends, or starts, *)
(* at pos leaves the bitmap.                                                *)
LeftRun(l0, pos)  == { b \in l0 : b < pos /\ (b..(pos - 1)) \subseteq l0 }
RightRun(l0, pos) == { b \in l0 : b >= pos /\ (pos..b) \subseteq l0 }

\* Mutant: the claimed blocks stay in the bitmap
ClaimFreeToLeft_keep(m, pos) ==
  [m EXCEPT !.available = (@ - Cardinality(LeftRun(m.l0, pos))) % WORD]

Claim(m, run, lo, hi) ==
  LET m1 == IF run = {} THEN m ELSE MarkL1OnL0([m EXCEPT !.l0 = @ \ run], lo, hi)
  IN MarkL2OnL1([m1 EXCEPT !.available = (@ - Cardinality(run)) % WORD],
                RegionsOf(lo, hi))
ClaimFreeToLeft(m, pos) ==
  LET run == LeftRun(m.l0, pos) IN Claim(m, run, pos - Cardinality(run), pos)
ClaimFreeToRight(m, pos) ==
  LET run == RightRun(m.l0, pos) IN Claim(m, run, pos, pos + Cardinality(run))

-----------------------------------------------------------------------------
(* AvlAllocator: segs is the content of both trees as <<start, end>> pairs. *)
(* The operators work on s = [avl, bmp]; only the hybrid's touch s.bmp.     *)

Aligns   == { 2^k : k \in 0..Size } \cap 1..Size
EmptyAvl == [segs |-> {}, numFree |-> 0, lbas |-> [a \in Aligns |-> 0]]
SegLen(g) == g[2] - g[1]
Shorter(g, h) == SegLen(g) < SegLen(h) \/ (SegLen(g) = SegLen(h) /\ g[1] < h[1])
BySize(segs)   == Sorted(segs, Shorter)
Lowest(segs)   == CHOOSE g \in segs : \A h \in segs : ~Shorter(h, g)
ByOffset(segs) == Sorted(segs, LAMBDA g, h : g[1] < h[1])
Limited == kind = "hybrid"        \* range_count_cap_ is 0 for "avl"

\* _range_size_tree_rm(), of a segment that leaves the tree or changes
Rm(s, g) == [s EXCEPT !.avl.segs = @ \ {g},
                      !.avl.numFree = (@ - SegLen(g)) % WORD]

\* Mutant: the base class's spillover, which drops the range
Spill_dropped(s, g) == s

\* HybridAllocator::_spillover_range()
Spill(s, g) == [s EXCEPT !.bmp = MarkFree(@, g[1], SegLen(g))]

\* the segment joins both trees
Insert(s, g) == [s EXCEPT !.avl.segs = @ \cup {g},
                          !.avl.numFree = (@ + SegLen(g)) % WORD]

(* _try_insert_range(), for a new segment and for one that changed: at the  *)
(* cap the shorter of the new and the shortest segment goes to the bitmap.  *)
TryInsertRange(s, g) ==
  LET room   == ~Limited \/ Cardinality(s.avl.segs) < CAP
      lowest == Lowest(s.avl.segs)
  IN CASE room -> Insert(s, g)
       [] ~room /\ SegLen(g) > SegLen(lowest) -> Insert(Spill(Rm(s, lowest), lowest), g)
       [] OTHER -> Spill(s, g)

\* AvlAllocator::_add_to_tree(): merge with the neighbours, then insert
MergeBefore(s, start) == \E g \in s.avl.segs : g[2] = start
MergeAfter(s, end)    == \E g \in s.avl.segs : g[1] = end
Before(s, start) == CHOOSE g \in s.avl.segs : g[2] = start
After(s, end)    == CHOOSE g \in s.avl.segs : g[1] = end
AvlAddToTree(s, start, end) ==
  LET lo == IF MergeBefore(s, start) THEN Before(s, start)[1] ELSE start
      hi == IF MergeAfter(s, end) THEN After(s, end)[2] ELSE end
      x  == IF MergeBefore(s, start) THEN Rm(s, Before(s, start)) ELSE s
      y  == IF MergeAfter(s, end) THEN Rm(x, After(s, end)) ELSE x
  IN TryInsertRange(y, <<lo, hi>>)

\* HybridAllocator::_add_to_tree(): first take the free neighbours out of the bitmap
AddToTree(s, start, end) ==
  IF ~Limited THEN AvlAddToTree(s, start, end)
  ELSE LET lo == start - Cardinality(LeftRun(s.bmp.l0, start))
           m  == ClaimFreeToLeft(s.bmp, start)
           hi == end + Cardinality(RightRun(m.l0, end))
       IN AvlAddToTree([s EXCEPT !.bmp = ClaimFreeToRight(m, end)], lo, hi)

\* _process_range_removal(): the right rest goes in before the left one
ProcessRangeRemoval(s, start, end, g) ==
  LET gone  == Rm(s, g)
      right == IF end = g[2] THEN gone ELSE TryInsertRange(gone, <<end, g[2]>>)
  IN IF start = g[1] THEN right ELSE TryInsertRange(right, <<g[1], start>>)

\* the one segment that holds [start, end), if there is one
Holding(s, start, end) == { g \in s.avl.segs : g[1] <= start /\ end <= g[2] }

RemoveFromTree(s, start, end) ==
  ProcessRangeRemoval(s, start, end, CHOOSE g \in Holding(s, start, end) : TRUE)

Fits(g, size, unit) == RoundUp(g[1], unit) + size <= g[2]

(* _pick_block_after(): first fit from the cursor on, then from the start.  *)
(* The search gives up after SEARCH misfits or BYTES blocks; past the last  *)
(* segment it compares with the end of the tree, where giveUp stands for    *)
(* what the read returns.                                                   *)
Searched(q1, q2, j, giveUp) ==
  CASE j <= Len(q1) -> q1[j][1] - q1[1][1]
    [] j > Len(q1) /\ q1 # <<>> -> Last(q1)[1] - q2[j - Len(q1)][1]
    [] OTHER -> IF giveUp THEN BYTES + 1 ELSE 0
FirstFit(q1, q2, size, unit, giveUp) ==
  LET q == q1 \o q2
      hits == { i \in DOMAIN q :
                  /\ Fits(q[i], size, unit)
                  /\ \A j \in 1..(i - 1) : j <= SEARCH /\ Searched(q1, q2, j, giveUp) <= BYTES }
  IN IF hits = {} THEN None ELSE RoundUp(q[Min(hits)][1], unit)

\* the lbas_ cursor a size uses: one per largest power of two that divides it
CursorOf(size) == Max({ a \in Aligns : size % a = 0 })

PickBlockAfter(segs, cursor, size, unit, giveUp) ==
  FirstFit(ByOffset({ g \in segs : g[2] > cursor }),
           ByOffset({ g \in segs : cursor # 0 /\ g[2] <= cursor }),
           size, unit, giveUp)

\* _pick_block_fits(): best fit among the first SEARCH segments long enough
BestFit(q, size, unit) ==
  LET hits == { i \in DOMAIN q : i <= SEARCH /\ Fits(q[i], size, unit) }
  IN IF hits = {} THEN None ELSE RoundUp(q[Min(hits)][1], unit)
PickBlockFits(segs, size, unit) ==
  BestFit(BySize({ g \in segs : SegLen(g) >= size }), size, unit)

\* the sizes the fallback of _allocate_single() tries: all, half, a quarter, ...
Halves(size, unit) ==
  {size} \cup { n \in unit..size : \E k \in 1..Size : n = AlignDown(size \div 2^k, unit) }
Fallback(segs, size, unit) ==
  LET fits == { n \in Halves(size, unit) : PickBlockFits(segs, n, unit) # None }
  IN IF fits = {} THEN None
     ELSE [start |-> PickBlockFits(segs, Max(fits), unit), len |-> Max(fits), moved |-> FALSE]

(* _allocate_single(): the piece to cut out of the tree, and whether it     *)
(* moves the cursor of its size, or None.                                   *)
NearOrBest(segs, near, size, unit) ==
  IF near # None THEN [start |-> near, len |-> size, moved |-> TRUE]
  ELSE Fallback(segs, size, unit)
Single(a, maxSize, want, unit, giveUp) ==
  CASE maxSize < want /\ maxSize < unit -> None
    [] maxSize < want /\ maxSize >= unit -> Fallback(a.segs, AlignDown(maxSize, unit), unit)
    [] maxSize >= want /\ (maxSize < THRESHOLD \/ (a.numFree * 100) \div Size < FREEPCT) ->
         Fallback(a.segs, want, unit)
    [] OTHER -> NearOrBest(a.segs,
                  PickBlockAfter(a.segs, a.lbas[CursorOf(want)], want, unit, giveUp), want, unit)
AllocateSingle(a, want, unit, giveUp) ==
  Single(a, Max({0} \cup { SegLen(g) : g \in a.segs }), want, unit, giveUp)

(* AvlAllocator::_allocate(): pieces of at most max until want is met or    *)
(* nothing fits; a short answer is an answer.                               *)
Cut(r, p) ==
  IF p = None THEN r
  ELSE [s   |-> RemoveFromTree([r.s EXCEPT !.avl.lbas = [a \in Aligns |->
                    IF p.moved /\ a = CursorOf(p.len) THEN p.start + p.len ELSE @[a]]],
                  p.start, p.start + p.len),
        ext |-> Append(r.ext, <<p.start, p.len>>),
        got |-> r.got + p.len]
CutNext(r, want, unit, max, giveUp) ==
  IF r.got >= want THEN r
  ELSE Cut(r, AllocateSingle(r.s.avl, Min({max, want - r.got}), unit, giveUp))
AvlAllocate(s0, want, unit, max, giveUp) ==
  LET r[i \in 0..want] == IF i = 0 THEN [s |-> s0, ext |-> <<>>, got |-> 0]
                          ELSE CutNext(r[i - 1], want, unit, max, giveUp)
  IN r[want]

-----------------------------------------------------------------------------
Space == [avl |-> avl, bmp |-> bmp]
Become(s) == avl' = s.avl /\ bmp' = s.bmp

BlocksOf(segs) == UNION { g[1]..(g[2] - 1) : g \in segs }
TreeBlocks == BlocksOf(avl.segs)
FreeNow    == TreeBlocks \cup bmp.l0
Pending    == UNION { SeqCovered(pend[t].ext) : t \in { u \in Threads : pend[u] # None } }
Owned      == Covered(held) \cup used \cup Pending

\* one interval of _free_l2() or _release(), and init_add_free()
AddFree(s, off, len) ==
  IF kind = "bitmap" THEN [s EXCEPT !.bmp = MarkFree(@, off, len)]
  ELSE AddToTree(s, off, off + len)

Idle == \A t \in Threads : pend[t] = None
\* exploration stops at the first double allocation, which HandsOutFree describes
Sound == dup = {}

Init ==
  /\ kind \in Kinds
  /\ avl = EmptyAvl
  /\ bmp = EmptyMap
  /\ held = {}
  /\ used = Blocks
  /\ pend = [t \in Threads |-> None]
  /\ last = None
  /\ dup = {}

\* init_add_free() of a range the client's metadata says is free
InitAddFree(off, len) ==
  /\ Sound /\ held = {} /\ Idle
  /\ Span(off, len) \subseteq used
  /\ Become(AddFree(Space, off, len))
  /\ used' = used \ Span(off, len)
  /\ last' = None
  /\ UNCHANGED <<kind, held, pend, dup>>

(* init_rm_free() of a range the client's metadata says is in use, out of   *)
(* what it added before.  The tree ignores a range it does not hold whole,  *)
(* the hybrid passes it on to its bitmap.                                   *)
InitRmFree(off, len) ==
  /\ Sound /\ held = {} /\ Idle
  /\ Span(off, len) \subseteq FreeNow
  /\ CASE kind # "bitmap" /\ Holding(Space, off, off + len) # {} ->
             Become(RemoveFromTree(Space, off, off + len))
       [] kind = "avl" /\ Holding(Space, off, off + len) = {} ->
             UNCHANGED <<avl, bmp>>
       [] OTHER -> /\ bmp.available >= len
                   /\ bmp' = MarkAllocated(bmp, off, len)
                   /\ UNCHANGED avl
  /\ used' = used \cup Span(off, len)
  /\ last' = None
  /\ UNCHANGED <<kind, held, pend, dup>>

\* the answer of allocate() reaches the client
Answer(req, ext, got, had) ==
  /\ held' = held \cup Range(ext)
  /\ dup' = dup \cup Stolen(ext, had)
  /\ last' = [want |-> req[1], unit |-> req[2], max |-> req[3], ext |-> ext, got |-> got]

\* AvlAllocator::allocate(); max_alloc_size 0 means no limit
AllocateAvl(req) ==
  /\ Sound /\ kind = "avl"
  /\ \E giveUp \in BOOLEAN :
       \E r \in {AvlAllocate(Space, req[1], req[2], IF req[3] = 0 THEN req[1] ELSE req[3], giveUp)} :
         Become(r.s) /\ Answer(req, r.ext, r.got, TreeBlocks)
  /\ UNCHANGED <<kind, used, pend>>

AllocateBitmap(req) ==
  /\ Sound /\ kind = "bitmap"
  /\ \E r \in {BitmapAllocate(bmp, req[1], req[2], req[3])} :
       bmp' = r.m /\ Answer(req, r.ext, r.got, bmp.l0)
  /\ UNCHANGED <<kind, avl, used, pend>>

(* HybridAllocator::allocate(), the tree's half under lock_.  It does not    *)
(* replace a max_alloc_size of 0, with which _allocate_single() runs into   *)
(* an assertion.                                                            *)
HybridAllocateTree(t, req) ==
  /\ Sound /\ kind = "hybrid" /\ pend[t] = None
  /\ req[3] # 0
  /\ \E giveUp \in BOOLEAN :
       \E r \in {AvlAllocate(Space, req[1], req[2], req[3], giveUp)} :
          /\ Become(r.s)
          /\ IF r.got < req[1]
               THEN /\ pend' = [pend EXCEPT ![t] = [req |-> req, ext |-> r.ext, got |-> r.got]]
                    /\ last' = None
                    /\ UNCHANGED <<held, dup>>
               ELSE Answer(req, r.ext, r.got, TreeBlocks) /\ UNCHANGED pend
  /\ UNCHANGED <<kind, used>>

\* the rest is asked of the child, under the child's own lock
HybridAllocateChild(t) ==
  /\ Sound /\ pend[t] # None
  /\ \E p \in {pend[t]} :
     \E r \in {BitmapAllocate(bmp, p.req[1] - p.got, p.req[2], p.req[3])} :
        /\ bmp' = r.m
        /\ held' = held \cup Range(p.ext \o r.ext)
        /\ dup' = dup \cup Stolen(r.ext, bmp.l0)
        /\ last' = [want |-> p.req[1], unit |-> p.req[2], max |-> p.req[3],
                    ext |-> p.ext \o r.ext, got |-> p.got + r.got]
  /\ pend' = [pend EXCEPT ![t] = None]
  /\ UNCHANGED <<kind, avl, used>>

\* release() gives back one interval after the other
GiveBack(s, q) ==
  LET x[i \in 0..Len(q)] == IF i = 0 THEN s ELSE AddFree(x[i - 1], q[i][1], q[i][2])
  IN x[Len(q)]

\* release(PExtentVector) of extents the client owns, in any order
Release(exts) ==
  /\ Sound
  /\ Range(exts) \subseteq held /\ exts # <<>>
  /\ Become(GiveBack(Space, ReleaseSet(exts)))
  /\ held' = held \ Range(exts)
  /\ last' = None
  /\ UNCHANGED <<kind, used, pend, dup>>

(* shutdown() and the destruction that follows it; the next mount creates a *)
(* new allocator.                                                           *)
Shutdown ==
  /\ Sound /\ Idle
  /\ avl' = EmptyAvl /\ bmp' = EmptyMap
  /\ held' = {} /\ used' = Blocks
  /\ last' = None
  /\ UNCHANGED <<kind, pend, dup>>

Next ==
  \/ \E r \in Ranges : InitAddFree(r[1], r[2])
  \/ \E r \in Ranges : InitRmFree(r[1], r[2])
  \/ \E req \in Requests : AllocateAvl(req)
  \/ \E req \in Requests : AllocateBitmap(req)
  \/ \E t \in Threads, req \in Requests : HybridAllocateTree(t, req)
  \/ \E t \in Threads : HybridAllocateChild(t)
  \/ \E a \in held : Release(<<a>>)
  \/ \E a, b \in held : a # b /\ Release(<<a, b>>)
  \/ Shutdown

Spec == Init /\ [][Next]_vars

-----------------------------------------------------------------------------
(* Properties *)

\* The allocators' state has its type between two locked sections.
AllocatorTypeOK ==
  /\ avl.segs \subseteq { g \in Blocks \X (2..Size) : g[1] < g[2] }
  /\ avl.lbas \in [Aligns -> 0..Size]
  /\ bmp.l0 \subseteq Blocks
  /\ bmp.l1 \in [Entries -> {"FULL", "PARTIAL", "FREE"}]
  /\ bmp.l2 \subseteq Regions
  /\ held \subseteq (0..Size) \X (1..Size)
  /\ used \subseteq Blocks

(* Every block is in exactly one place: in one segment of the tree, in the  *)
(* bitmap, with one owner, or in a half-done hybrid allocate().             *)
Partitioned ==
  /\ FreeNow \cup Owned = Blocks
  /\ FreeNow \cap Owned = {}
  /\ TreeBlocks \cap bmp.l0 = {}
  /\ \A x, y \in held : x # y => Covered({x}) \cap Covered({y}) = {}

(* get_free() is exact: num_free_ is the length of the segments, available  *)
(* the number of set bits.                                                  *)
CountsExact ==
  /\ avl.numFree = Cardinality(TreeBlocks)
  /\ bmp.available = Cardinality(bmp.l0)

(* Free space is in one piece: no two segments touch, no free block of the  *)
(* hybrid's bitmap touches a segment, and the tree stays under its cap.     *)
(* (init_rm_free() and _remove_from_tree() count on it.)                    *)
Coalesced ==
  /\ \A g, h \in avl.segs : g[2] = h[1] => FALSE
  /\ \A g \in avl.segs : g[1] - 1 \notin bmp.l0 /\ g[2] \notin bmp.l0
  /\ Limited => Cardinality(avl.segs) <= CAP

(* Until a double allocation, spilling, claiming back, splitting and        *)
(* merging lose and duplicate no block, keep both counters exact and leave  *)
(* free space in one piece.                                                 *)
Accounted == dup = {} => Partitioned /\ CountsExact /\ Coalesced

(* A summary hides no free block: an L1 entry that says full has none, and  *)
(* a clear L2 bit over a free block is left only by init_rm_free(), over a  *)
(* region it took a block of.                                               *)
SummariesHideNothing ==
  /\ \A e \in Entries : bmp.l1[e] = "FULL" => EntryBlocks(e) \cap bmp.l0 = {}
  /\ \A r \in Regions : (r \notin bmp.l2 /\ RegionOf(r) \cap bmp.l0 # {})
                         => RegionOf(r) \cap used # {}

(* allocate() hands out only free blocks.  The one way around it is an L1   *)
(* entry that still says free after _allocate_l0() took blocks of it        *)
(* (bitmap_allocator.h:366): the same request, which followed a run into    *)
(* it, or a later one takes the entry whole.                                *)
HandsOutFree ==
  [][\A b \in dup' \ dup : /\ kind # "avl"
                           /\ bmp.l1[b \div EntryBits] = "FREE"
                           /\ EntryBlocks(b \div EntryBits) \subseteq Covered(held')]_vars

(* The answer of allocate() is what was asked for: the extents do not       *)
(* overlap, add up to the result, never exceed the request or the largest   *)
(* extent allowed, and the tree's are aligned to the unit.                  *)
Fitting(a) ==
  /\ a.got = Total(a.ext)
  /\ a.got <= a.want
  /\ dup = {} => Cardinality(SeqCovered(a.ext)) = a.got
  /\ a.max # 0 => \A e \in Range(a.ext) : e[2] <= a.max
  /\ kind = "avl" => \A e \in Range(a.ext) : e[1] % a.unit = 0 /\ e[2] % a.unit = 0

(* An answer fits the request, and the bitmap answers short only when no    *)
(* block under a set L2 bit is left: the scan skips nothing it can see.     *)
AnswersRight ==
  [][last' # last /\ last' # None =>
       /\ Fitting(last)'
       /\ (kind = "bitmap" /\ last'.got < last'.want)
            => \A r \in bmp.l2 : RegionOf(r) \cap bmp'.l0 = {}]_vars

(* Whatever the classes do inside, their clients see one set of free blocks *)
(* and one of lent ones.                                                    *)
Abstract == INSTANCE FreeSpace WITH
  Managed <- Blocks, free <- FreeNow \ dup, lent <- Owned
RefinesFreeSpace == Abstract!Spec

=============================================================================
