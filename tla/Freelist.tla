------------------------------ MODULE Freelist ------------------------------
(***************************************************************************)
(* BitmapFreelistManager (src/bluestore): the persistent record of which   *)
(* blocks are in use, one bit per block, BPK bits to a key, kept in a      *)
(* KeyValueDB.  allocate() and release() both XOR bits through the         *)
(* database's merge operator, so that no transaction reads what it         *)
(* changes; enumerate_next() lists the free extents at mount.  Offsets are *)
(* in blocks; a key is the offset of its first block (encoded big-endian,  *)
(* so that the key order is the offset order).                             *)
(***************************************************************************)
EXTENDS KeyValue

CONSTANTS
  BPK,        \* blocks_per_key_
  Sizes,      \* device sizes create() is called with
  Extents,    \* <<offset, length>> pairs the clients allocate and release
  OtherTxns,  \* transactions of another client of the database
  MaxTxns,    \* bound on allocate/release transactions
  MaxOther,   \* bound on the other client's transactions
  MaxCrashes,
  META, BITMAP,  \* meta_prefix_ and bitmap_prefix_
  None

ASSUME FreelistAssumption ==
  /\ BPK \in Nat \ {0} /\ \A n \in Sizes : n \in Nat /\ n > 1
  /\ KeyPrefixes \subseteq Nat /\ {META, BITMAP} \subseteq KeyPrefixes
  /\ META # BITMAP /\ BITMAP \in XorPrefixes
  /\ \A pq \in Longer : pq[2] \notin {META, BITMAP}
  /\ Extents \subseteq (Nat \ {0}) \X (Nat \ {0})
  /\ Unreadable \notin Nat /\ \A S \in SUBSET (0..(BPK - 1)) : Unreadable # S
  /\ \A ops \in OtherTxns :
       /\ ops \in Seq(Range(ops))
       /\ \A o \in Range(ops) : /\ o.op \in OpKinds
                                /\ o.p \in KeyPrefixes \ {META, BITMAP}
                                /\ o.op \in {"set", "merge"} => o.k \in Nat

VARIABLES
  fm,      \* size_ and blocks_ of the manager, or None before create()/init()
  en,      \* enumerate_*: [items, i, off, pos]; all zero after a reset
  out,     \* extents enumerate_next() returned since the reset
  done,    \* it has returned false
  snap,    \* ghost: the blocks in use when the enumeration started
  owned,   \* ghost: blocks the clients have allocated, by committed transactions
  acked,   \* ghost: blocks of synced allocations not released since
  count    \* [txns, other, crashes] so far

fmVars == <<fm, en, out, done, snap>>
vars == <<kvVars, fmVars, owned, acked, count>>

Span(off, len) == off..(off + len - 1)
KeyOf(b) == (b \div BPK) * BPK
Bits == 0..(BPK - 1)

\* _size_2_block_count()
BlockCount(size) == ((size + BPK - 1) \div BPK) * BPK

\* Mutant: a key's mask reaches into the next key
KeyBits_inclusive(off, len, k) == { b - k : b \in (k..(k + BPK)) \cap Span(off, len) }

\* the bits of one key that an extent covers
KeyBits(off, len, k) == { b - k : b \in (k..(k + BPK - 1)) \cap Span(off, len) }

\* _xor(): one merge for the first key, one for each whole key, one for the last
Xor(off, len) ==
  LET first == KeyOf(off)
      last  == KeyOf(off + len - 1)
      key(i) == first + (i - 1) * BPK
  IN [i \in 1..(((last - first) \div BPK) + 1) |->
        MergeOp(BITMAP, key(i), KeyBits(off, len, key(i)))]

\* the bits above the device are marked in use
Padding(size) ==
  IF BlockCount(size) > size THEN Xor(size, BlockCount(size) - size) ELSE <<>>

CreateTxn(size) ==
  Padding(size) \o Xor(0, 1)
    \o <<SetOp(META, 1, 1), SetOp(META, 2, BPK),
         SetOp(META, 3, BlockCount(size)), SetOp(META, 4, size)>>

\* what enumerate_reset() leaves; enumerate_next() starts over from it
Idle == [items |-> <<>>, i |-> 0, off |-> 0, pos |-> 0]
Started == en.off # 0 \/ en.pos # 0

-----------------------------------------------------------------------------
Init ==
  /\ backend \in Backends
  /\ db = Empty
  /\ hist = <<[db |-> Empty, note |-> {}]>>
  /\ fm = None /\ en = Idle /\ out = <<>> /\ done = FALSE /\ snap = {}
  /\ owned = {} /\ acked = {}
  /\ count = [txns |-> 0, other |-> 0, crashes |-> 0]

\* create() on an empty database, and the transaction it fills
Create(size) ==
  /\ fm = None /\ KeysOf(db, META) = {}
  /\ fm' = [size |-> size, blocks |-> BlockCount(size)]
  /\ Submit(CreateTxn(size), TRUE, {})
  /\ UNCHANGED <<en, out, done, snap, owned, acked, count>>

\* init() without configuration: _load_from_db() reads the four meta keys
InitFm ==
  /\ fm = None /\ KeysOf(db, META) # {}
  /\ fm' = [size |-> GetOr(db, META, 4, 0), blocks |-> GetOr(db, META, 3, 0)]
  /\ UNCHANGED <<kvVars, en, out, done, snap, owned, acked, count>>

(* allocate() of an extent nobody owns, in a transaction of its own; the    *)
(* block allocator hands each extent to one client.                         *)
Allocate(off, len, sync) ==
  /\ fm # None /\ off + len <= fm.size
  /\ Span(off, len) \cap owned = {}
  /\ count.txns < MaxTxns
  /\ Submit(Xor(off, len), sync, owned \cup Span(off, len))
  /\ owned' = owned \cup Span(off, len)
  /\ acked' = IF sync THEN owned' ELSE acked
  /\ count' = [count EXCEPT !.txns = @ + 1]
  /\ UNCHANGED fmVars

\* release() of blocks the client owns
Release(off, len, sync) ==
  /\ fm # None
  /\ Span(off, len) \subseteq owned
  /\ count.txns < MaxTxns
  /\ Submit(Xor(off, len), sync, owned \ Span(off, len))
  /\ owned' = owned \ Span(off, len)
  /\ acked' = IF sync THEN owned' ELSE acked \ Span(off, len)
  /\ count' = [count EXCEPT !.txns = @ + 1]
  /\ UNCHANGED fmVars

\* another client of the same database, on prefixes of its own
Other(ops) ==
  /\ count.other < MaxOther
  /\ Submit(ops, FALSE, owned)
  /\ count' = [count EXCEPT !.other = @ + 1]
  /\ UNCHANGED <<fmVars, owned, acked>>

(* The process dies.  RocksDB comes back with a prefix of its log, MemDB    *)
(* with nothing.                                                            *)
Crash ==
  /\ count.crashes < MaxCrashes
  /\ \E v \in IF backend = "memdb" THEN {[db |-> Empty, note |-> {}]} ELSE KvLoss(hist) :
       /\ db' = v.db /\ owned' = v.note
       /\ hist' = <<v>>
  /\ acked' = IF backend = "memdb" THEN {} ELSE acked
  /\ fm' = None /\ en' = Idle /\ out' = <<>> /\ done' = FALSE /\ snap' = {}
  /\ count' = [count EXCEPT !.crashes = @ + 1]
  /\ UNCHANGED backend

-----------------------------------------------------------------------------
(* Enumeration *)

\* get_next_set_bit() and get_next_clear_bit(), -1 when there is none
NextSet(bits, pos)   == LET s == { b \in Bits : b >= pos /\ b \in bits }
                        IN IF s = {} THEN -1 ELSE Min(s)
NextClear(bits, pos) == LET s == { b \in Bits : b >= pos /\ b \notin bits }
                        IN IF s = {} THEN -1 ELSE Min(s)

ItemKey(items, i) == items[i].key[2]

\* Mutant: a missing key is not noticed
Arrive_no_gap(items, off, j, later) ==
  IF ~ValidAt(items, j, BITMAP)
    THEN [i |-> 0, off |-> off + BPK, pos |-> 0, start |-> off + BPK]
    ELSE IF NextClear(items[j].value, 0) = -1 THEN later
         ELSE [i |-> j, off |-> ItemKey(items, j), pos |-> NextClear(items[j].value, 0),
               start |-> ItemKey(items, j) + NextClear(items[j].value, 0)]

(* The first loop of enumerate_next(): from item i on, the next block that  *)
(* is clear or has no key.  s is the iterator's item (0 when not valid),    *)
(* its offset, the bit position and the free extent's start.                *)
Arrive(items, off, j, later) ==
  CASE ~ValidAt(items, j, BITMAP) ->
         [i |-> 0, off |-> off + BPK, pos |-> 0, start |-> off + BPK]
    [] ValidAt(items, j, BITMAP) /\ ItemKey(items, j) > off + BPK ->
         [i |-> j, off |-> ItemKey(items, j), pos |-> 0, start |-> off + BPK]
    [] OTHER ->
         IF NextClear(items[j].value, 0) = -1 THEN later
         ELSE [i |-> j, off |-> ItemKey(items, j), pos |-> NextClear(items[j].value, 0),
               start |-> ItemKey(items, j) + NextClear(items[j].value, 0)]

FreeStart(e) ==
  LET f[n \in 0..Len(e.items)] ==      \* n items looked at after item e.i
        LET at == e.i + n
            p  == IF n = 0 THEN NextClear(e.items[at].value, e.pos) ELSE -1
        IN IF p # -1 THEN [i |-> at, off |-> e.off, pos |-> p, start |-> e.off + p]
           ELSE Arrive(e.items, ItemKey(e.items, at), NextAt(e.items, at),
                       IF at < Len(e.items) THEN f[n + 1] ELSE None)
  IN f[0]

(* The second loop: from there, the next set bit; missing keys are free.    *)
FreeEnd(items, s) ==
  LET g[j \in 0..Len(items)] ==
        LET p == NextSet(items[j].value, IF j = s.i THEN s.pos ELSE 0)
        IN IF p # -1 THEN [i |-> j, off |-> ItemKey(items, j), pos |-> p]
           ELSE IF ValidAt(items, NextAt(items, j), BITMAP) THEN g[j + 1]
           ELSE [i |-> 0, off |-> ItemKey(items, j), pos |-> 0]
  IN IF s.i = 0 THEN [i |-> 0, off |-> s.off, pos |-> s.pos] ELSE g[s.i]

EnumerateReset ==
  /\ fm # None /\ Started
  /\ en' = Idle /\ out' = <<>> /\ done' = FALSE /\ snap' = {}
  /\ UNCHANGED <<kvVars, fm, owned, acked, count>>

\* the state of a fresh enumeration: the first key is the one of block 0
FreshEnum ==
  LET items == ItemsOf(db)
      i     == LowerBound(items, BITMAP, 0)
  IN [items |-> items, i |-> i, off |-> ItemKey(items, i), pos |-> 0]

(* enumerate_next(): one extent, or false at the end of the device.         *)
Enumerate(e, s, t) ==
  CASE e.off >= fm.size -> /\ done' = TRUE /\ en' = e /\ UNCHANGED out
    [] e.off < fm.size /\ t.i # 0 ->
         /\ out' = Append(out, <<s.start, Min({fm.blocks, t.off + t.pos}) - s.start>>)
         /\ en' = [e EXCEPT !.i = t.i, !.off = t.off, !.pos = t.pos]
         /\ UNCHANGED done
    [] OTHER ->
         IF t.off < fm.size
           THEN /\ out' = Append(out, <<s.start, fm.blocks - s.start>>)
                /\ en' = [e EXCEPT !.i = 0, !.off = fm.size, !.pos = BPK]
                /\ UNCHANGED done
           ELSE /\ done' = TRUE
                /\ en' = [e EXCEPT !.i = 0, !.off = t.off, !.pos = t.pos]
                /\ UNCHANGED out

EnumerateNext ==
  /\ fm # None /\ ~done
  /\ \E e \in {IF Started THEN en ELSE FreshEnum} :
     \E s \in {IF e.off >= fm.size THEN None ELSE FreeStart(e)} :
     \E t \in {IF e.off >= fm.size THEN None ELSE FreeEnd(e.items, s)} :
       Enumerate(e, s, t)
  /\ snap' = IF Started THEN snap ELSE owned
  /\ UNCHANGED <<kvVars, fm, owned, acked, count>>

Next ==
  \/ \E n \in Sizes : Create(n)
  \/ InitFm
  \/ \E x \in Extents, sync \in BOOLEAN : Allocate(x[1], x[2], sync)
  \/ \E x \in Extents, sync \in BOOLEAN : Release(x[1], x[2], sync)
  \/ \E ops \in OtherTxns : Other(ops)
  \/ Crash
  \/ EnumerateReset
  \/ EnumerateNext

Spec == Init /\ [][Next]_vars

-----------------------------------------------------------------------------
(* Properties *)

Marked(d, k) == GetOr(d, BITMAP, k, {})
InUse(d, n) == { b \in 0..(n - 1) : (b % BPK) \in Marked(d, KeyOf(b)) }

\* The manager's state and the bitmap's values have their types.
FreelistTypeOK ==
  /\ \A x \in KeysOf(db, BITMAP) : x[2] % BPK = 0 /\ db[x] \subseteq Bits
  /\ fm # None => fm.size \in Sizes /\ fm.blocks = BlockCount(fm.size)
  /\ Started => en.off \in 0..(fm.blocks + BPK) /\ en.pos \in 0..BPK
  /\ hist # <<>> /\ done \in BOOLEAN

(* The bits say exactly what the committed transactions did: after any mix  *)
(* of allocations and releases of different clients in one key, after       *)
(* another client's transactions and after any crash, a block's bit is set  *)
(* when it is allocated, is block 0, or lies above the device.              *)
BitmapExact ==
  fm # None => InUse(db, fm.blocks) = owned \cup {0} \cup (fm.size..(fm.blocks - 1))

\* The assertions of enumerate_next() on its first key, with other prefixes
\* of the database on both sides of the bitmap's: lower_bound() of the empty
\* key finds the key of block 0 and the bit of block 0 is set.
StartAsserts ==
  LET items == ItemsOf(db)
      i     == LowerBound(items, BITMAP, 0)
  IN ValidAt(items, i, BITMAP) /\ ItemKey(items, i) = 0 /\ NextSet(items[i].value, 0) = 0

\* The extents returned so far are maximal free extents of the version the
\* enumeration started from, in order, and all of them once it is done.
ReturnsSnapshot ==
  LET free == Span(1, fm.size - 1) \ snap
      seen == UNION { Span(x[1], x[2]) : x \in Range(out) }
  IN /\ seen \subseteq free
     /\ \A b \in free \ seen : ~done /\ \A c \in seen : c < b
     /\ \A i \in 1..(Len(out) - 1) : out[i][1] + out[i][2] < out[i + 1][1]

(* Whenever an enumeration may start, the assertions of enumerate_next() on *)
(* its first key hold; one that has started returns the maximal free        *)
(* extents of one version of the bitmap, in order, whatever is committed    *)
(* meanwhile, and all of them by the time it returns false.                 *)
EnumeratesSnapshot ==
  /\ fm # None /\ ~Started => StartAsserts
  /\ Started => ReturnsSnapshot

(* A block whose allocation was committed with submit_transaction_sync()    *)
(* and not released since is marked in use, before and after any crash.     *)
AckedMarked == fm # None => acked \subseteq InUse(db, fm.blocks)

(* A transaction changes keys of the prefixes it names only.  The exception *)
(* is rmkeys_by_prefix() on RocksDB, which reaches longer prefixes.         *)
PrefixIsolation ==
  [][\A ops \in OtherTxns :
       (count'.other > count.other /\ db' = Submitted(db, ops)) =>
         \A x \in DOMAIN db \cup DOMAIN db' :
           (x[1] \notin { o.p : o \in Range(ops) } /\ ~(\E o \in Range(ops) :
                o.op = "rmprefix" /\ backend = "rocksdb" /\ <<o.p, x[1]>> \in Longer))
           => x \in DOMAIN db \cap DOMAIN db' /\ db'[x] = db[x]]_vars

=============================================================================
