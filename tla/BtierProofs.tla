----------------------------- MODULE BtierProofs -----------------------------
(***************************************************************************)
(* Proofs about the engine, for any number of clients, keys, extents,      *)
(* cycles and failed I/Os.                                                 *)
(***************************************************************************)
EXTENDS Btier, FiniteSetTheorems, TLAPS

-----------------------------------------------------------------------------
(* The extent map, for any devices, extent capacity, number of extents and  *)
(* movers.                                                                  *)

(* The inductive invariant.  ClaimExclusive and GenerationProtocol are not  *)
(* inductive alone: they need that a held extent has been handed out, is    *)
(* still where the handle says and still MIGRATING (so append_slot is       *)
(* closed to it), and that its generation never falls behind the handle's.  *)
Held(m) == handle[m] # None

IdsHandedOut == entries \subseteq Created /\ erased \subseteq Created
Located == \A e \in Created : location[e] \in Loc
LiveWithinUsed == \A e \in Eid : live[e] <= used[e]

HandleSound(m) ==
  LET e == handle[m].eid IN
  /\ e \in Created
  /\ state[e] = MIGRATING
  /\ location[e] = handle[m].src
  /\ handle[m].gen <= gen[e]
  /\ gen[e] = handle[m].gen => used[e] = handle[m].used /\ live[e] = handle[m].live
HandlesSound == \A m \in Movers : Held(m) => HandleSound(m)

ClaimsDistinct ==
  \A m1, m2 \in Movers :
    m1 # m2 /\ Held(m1) /\ Held(m2) => handle[m1].eid # handle[m2].eid
MigratingIsHeld ==
  \A e \in entries : state[e] = MIGRATING => \E m \in Movers : Held(m) /\ handle[m].eid = e

IInv ==
  /\ TypeOK
  /\ IdsHandedOut
  /\ Located
  /\ LiveWithinUsed
  /\ HandlesSound
  /\ ClaimsDistinct
  /\ MigratingIsHeld

-----------------------------------------------------------------------------
(* Facts about the operators.                                               *)

(* Every id handed out is an extent id.                                     *)
LEMMA CreatedInEid == TypeOK => Created \subseteq Eid
  BY ExtentMapAssumption DEF TypeOK, Created, Eid

(* A location is on a tier, has room for the header, and lies on a device.  *)
LEMMA LocFacts ==
  \A l \in Loc : l[1] \in Tier /\ Capacity(l) \in 0..Slots /\ Units(l) \subseteq Unit
  BY ExtentMapAssumption DEF Loc, Capacity

(* The number of free units of a tier is a natural number.                  *)
LEMMA FreeCount ==
  ASSUME NEW t
  PROVE  Free(t) \subseteq Unit /\ Cardinality(Free(t)) \in Nat
<1>1. IsFiniteSet({FAST} \X FastUnits) /\ IsFiniteSet({SLOW} \X SlowUnits)
  BY ExtentMapAssumption, FS_Singleton, FS_Product
<1>2. IsFiniteSet(Unit)
  BY <1>1, FS_Union DEF Unit
<1>3. Free(t) \subseteq Unit
  BY DEF Free
<1> QED
  BY <1>2, <1>3, FS_Subset, FS_CardinalityType

(* A segment of the free trees is a run of free units of its tier.          *)
LEMMA SegmentFacts ==
  ASSUME NEW t \in Tier, NEW g \in Segments(t)
  PROVE  /\ g = <<t, g[2], g[3]>>
         /\ g[2] \in FastUnits \cup SlowUnits /\ g[2] \in Nat
         /\ g[3] \in Nat \ {0}
         /\ Units(g) \subseteq Free(t)
<1>1. g \in {t} \X {u[2] : u \in Free(t)} \X (1..Cardinality(Free(t))) /\ Units(g) \subseteq Free(t)
  BY DEF Segments
<1>2. {u[2] : u \in Free(t)} \subseteq FastUnits \cup SlowUnits
  BY DEF Free, Unit
<1> QED
  BY <1>1, <1>2, FreeCount, ExtentMapAssumption

(* What the allocator takes was free, and holds the location it gives.      *)
LEMMA AnswerFacts ==
  ASSUME NEW t \in Tier, NEW n \in 1..(Slots + 1), NEW a \in Answers(t, n)
  PROVE  a.first \in Loc /\ Units(a.first) \subseteq a.taken /\ a.taken \subseteq Free(t)
<1>1. CASE a \in OneExtent(t, n)
  <2>1. PICK g \in Segments(t) :
          g[3] >= n /\ a = [first |-> <<t, g[2], n>>, taken |-> Units(<<t, g[2], n>>)]
    BY <1>1 DEF OneExtent
  <2>2. Units(<<t, g[2], n>>) \subseteq Units(g)
    BY <2>1, SegmentFacts DEF Units
  <2>3. <<t, g[2], n>> \in Tier \X (FastUnits \cup SlowUnits) \X (1..(Slots + 1))
    BY SegmentFacts
  <2>4. Units(<<t, g[2], n>>) \subseteq Free(t) /\ Free(t) \subseteq Unit
    BY <2>2, SegmentFacts, FreeCount
  <2> QED
    BY <2>1, <2>3, <2>4 DEF Loc
<1>2. CASE a \in ManyExtents(t, n)
  <2>1. PICK q \in Segments(t) \X Segments(t) \X Segments(t) \X (1..n) :
          /\ q[1][3] < n
          /\ UpTo(t, q[1]) = {q[1]}
          /\ q[3][3] >= q[4]
          /\ a = [first |-> q[1],
                   taken |-> Whole(UpTo(t, q[2])) \cup Units(<<t, q[3][2], q[4]>>)]
    BY <1>2 DEF ManyExtents
  <2>2. PICK x \in Segments(t), y \in Segments(t), z \in Segments(t), m \in 1..n :
          x = q[1] /\ y = q[2] /\ z = q[3] /\ m = q[4]
    BY <2>1
  <2>3. x \in UpTo(t, y)
    <3>1. x = y \/ Before(x, y) \/ Before(y, x)
      BY SegmentFacts DEF Before
    <3> QED
      BY <2>1, <2>2, <3>1 DEF UpTo
  <2>4. Whole(UpTo(t, y)) \subseteq Free(t) /\ Units(x) \subseteq Whole(UpTo(t, y))
    BY <2>3, SegmentFacts DEF Whole, UpTo
  <2>5. Units(<<t, z[2], m>>) \subseteq Units(z)
    <3>1. z = <<t, z[2], z[3]>> /\ z[2] \in Nat /\ z[3] \in Nat
      BY SegmentFacts
    <3>2. z[1] = t
      BY <3>1
    <3>3. m \in Nat /\ m <= z[3]
      BY <2>1, <2>2
    <3> QED
      BY <3>1, <3>2, <3>3 DEF Units
  <2>6. Units(z) \subseteq Free(t) /\ Units(x) \subseteq Free(t) /\ Free(t) \subseteq Unit
    BY SegmentFacts, FreeCount
  <2>7. x \in Tier \X (FastUnits \cup SlowUnits) \X (1..(Slots + 1))
    <3>1. x[3] \in Nat \ {0} /\ x[3] < n
      BY <2>1, <2>2, SegmentFacts
    <3>2. x = <<t, x[2], x[3]>> /\ x[2] \in FastUnits \cup SlowUnits
      BY SegmentFacts
    <3> QED
      BY <3>1, <3>2, ExtentMapAssumption
  <2> QED
    BY <2>1, <2>2, <2>4, <2>5, <2>6, <2>7 DEF Loc
<1> QED
  BY <1>1, <1>2 DEF Answers

(* add_deferred_free keeps the deferred-free list well typed and finite.    *)
LEMMA DeferTyped ==
  ASSUME TypeOK, NEW l \in Loc, add_deferred_free(l)
  PROVE  deferred' \subseteq (Loc \X Nat \X Nat) /\ IsFiniteSet(deferred')
<1> DEFINE copies == {d \in deferred : d[1] = l /\ d[2] = seqno}
<1>1. IsFiniteSet(copies)
  BY FS_Subset DEF TypeOK
<1>2. Cardinality(copies) \in Nat
  BY <1>1, FS_CardinalityType
<1> DEFINE new == <<l, seqno, Cardinality(copies)>>
<1>3. deferred' = deferred \cup {new}
  BY DEF add_deferred_free
<1>4. new \in Loc \X Nat \X Nat
  BY <1>2 DEF TypeOK
<1>5. IsFiniteSet(deferred \cup {new})
  BY FS_AddElement DEF TypeOK
<1> HIDE DEF new
<1> QED
  BY <1>3, <1>4, <1>5 DEF TypeOK

(* process_deferred_free gives back a natural number of copies of each      *)
(* unit, and keeps a finite list.                                           *)
LEMMA ReleaseTyped ==
  ASSUME TypeOK, process_deferred_free
  PROVE  /\ space' \in [Unit -> Nat]
         /\ deferred' \subseteq (Loc \X Nat \X Nat) /\ IsFiniteSet(deferred')
<1>1. ASSUME NEW u \in Unit PROVE Cardinality(AgedAt(u)) \in Nat
  BY FS_Subset, FS_CardinalityType DEF TypeOK, AgedAt
<1>2. space' \in [Unit -> Nat]
  BY <1>1 DEF TypeOK, process_deferred_free
<1>3. deferred' \subseteq deferred
  BY DEF process_deferred_free
<1> QED
  BY <1>2, <1>3, FS_Subset DEF TypeOK

(* update_free_list keeps the hints well typed.                             *)
LEMMA HintsTyped ==
  ASSUME TypeOK, NEW e \in Eid, location[e] \in Loc,
         NEW old, NEW new \in Nat, update_free_list(e, old, new)
  PROVE  freeLists' \subseteq (Tier \X Nat \X Eid)
  BY LocFacts DEF TypeOK, update_free_list

-----------------------------------------------------------------------------
(* The empty map satisfies the invariant.                                   *)
LEMMA InitIInv == ExtentMapInit => IInv
<1> SUFFICES ASSUME ExtentMapInit PROVE IInv
  OBVIOUS
<1>1. TypeOK
  BY ExtentMapAssumption, FS_EmptySet DEF ExtentMapInit, TypeOK, Eid
<1>2. Created = {}
  BY DEF ExtentMapInit, Created
<1> QED
  BY <1>1, <1>2 DEF ExtentMapInit, IInv, IdsHandedOut, Located, LiveWithinUsed,
    HandlesSound, Held, ClaimsDistinct, MigratingIsHeld, Eid

-----------------------------------------------------------------------------
(* One lemma per operation: it preserves the invariant.                     *)

(* append_slot works on ACTIVE extents, so on none that a mover holds.      *)
LEMMA AppendPreserves ==
  ASSUME IInv, NEW e \in Created, NEW n \in 0..Slots, append_slot(e, n)
  PROVE  IInv'
<1> USE ExtentMapAssumption DEF IInv
<1>1. /\ e \in Eid /\ location[e] \in Loc /\ state[e] = ACTIVE
      /\ used[e] + n <= Capacity(location[e]) /\ Capacity(location[e]) \in 0..Slots
  BY CreatedInEid, LocFacts DEF Located, append_slot, CanAppend
<1>2. used' \in [Eid -> 0..Slots] /\ live' \in [Eid -> 0..Slots] /\ LiveWithinUsed'
  BY <1>1 DEF TypeOK, append_slot, LiveWithinUsed
<1>3. freeLists' \subseteq (Tier \X Nat \X Eid)
  <2>1. free_bytes_of(e) - n \in Nat
    BY <1>1 DEF TypeOK, free_bytes_of
  <2> QED
    BY <1>1, <2>1, HintsTyped DEF append_slot
<1>4. TypeOK'
  BY <1>2, <1>3 DEF TypeOK, append_slot
<1>5. IdsHandedOut' /\ Located'
  BY DEF IdsHandedOut, Located, Created, append_slot
<1>6. HandlesSound'
  BY <1>1 DEF HandlesSound, HandleSound, Held, Created, TypeOK, append_slot
<1>7. ClaimsDistinct' /\ MigratingIsHeld'
  BY DEF ClaimsDistinct, MigratingIsHeld, Held, append_slot
<1> QED
  BY <1>2, <1>4, <1>5, <1>6, <1>7

(* mark_dead_slot may hit a held extent; the generation then runs ahead of  *)
(* the handle's for good.                                                   *)
LEMMA MarkDeadPreserves ==
  ASSUME IInv, NEW e \in Created, NEW n \in 0..Slots, mark_dead_slot(e, n)
  PROVE  IInv'
<1> USE ExtentMapAssumption DEF IInv
<1>1. e \in Eid /\ location[e] \in Loc /\ Capacity(location[e]) \in 0..Slots
  BY CreatedInEid, LocFacts DEF Located
<1>2. live' \in [Eid -> 0..Slots] /\ LiveWithinUsed'
  BY <1>1 DEF TypeOK, mark_dead_slot, LiveWithinUsed
<1>3. freeLists' \subseteq (Tier \X Nat \X Eid)
  <2>1. free_bytes_of(e) \in Nat
    BY <1>1 DEF TypeOK, free_bytes_of
  <2> QED
    BY <1>1, <2>1, HintsTyped DEF mark_dead_slot
<1>4. TypeOK'
  BY <1>2, <1>3 DEF TypeOK, mark_dead_slot
<1>5. IdsHandedOut' /\ Located'
  BY DEF IdsHandedOut, Located, Created, mark_dead_slot
<1>6. HandlesSound'
  <2> SUFFICES ASSUME NEW m \in Movers, Held(m)' PROVE HandleSound(m)'
    BY DEF HandlesSound
  <2>1. Held(m) /\ HandleSound(m) /\ handle[m] \in Handle
    BY DEF HandlesSound, Held, TypeOK, mark_dead_slot
  <2>2. CASE handle[m].eid # e
    BY <1>1, <2>1, <2>2, CreatedInEid DEF HandleSound, Created, TypeOK, mark_dead_slot
  <2>3. CASE handle[m].eid = e
    <3>1. gen'[e] = gen[e] + 1 /\ gen[e] \in Nat /\ handle[m].gen \in Nat
      BY <1>1, <2>1 DEF TypeOK, Handle, mark_dead_slot
    <3> QED
      BY <1>1, <2>1, <2>3, <3>1 DEF HandleSound, Created, mark_dead_slot
  <2> QED
    BY <2>2, <2>3
<1>7. ClaimsDistinct' /\ MigratingIsHeld'
  BY DEF ClaimsDistinct, MigratingIsHeld, Held, mark_dead_slot
<1> QED
  BY <1>2, <1>4, <1>5, <1>6, <1>7

(* The allocators share no state with the protocol, and give only units     *)
(* that are free.                                                           *)
LEMMA AllocatePreserves ==
  ASSUME IInv, NEW t \in Tier, NEW n \in 1..(Slots + 1),
         allocation_fails(t, n) \/ \E a \in Answers(t, n) : allocate(t, n, a)
  PROVE  IInv'
<1> USE DEF IInv
<1>1. UNCHANGED <<entries, location, state, gen, used, live, nextId, freeLists, erased,
                  deferred, seqno, handle>>
  BY DEF allocate, allocation_fails, entryVars
<1>2. PICK S \in SUBSET Free(t), L \in SUBSET Free(t) :
        /\ space' = [u \in Unit |-> IF u \in S THEN space[u] - 1 ELSE space[u]]
        /\ leaked' = leaked \cup L
  <2>1. CASE allocation_fails(t, n)
    BY <2>1 DEF allocation_fails
  <2>2. CASE \E a \in Answers(t, n) : allocate(t, n, a)
    <3>1. PICK a \in Answers(t, n) : allocate(t, n, a)
      BY <2>2
    <3>2. a.taken \subseteq Free(t)
      BY AnswerFacts
    <3> QED
      BY <3>1, <3>2 DEF allocate
  <2> QED
    BY <2>1, <2>2
<1>3. space' \in [Unit -> Nat]
  BY <1>2 DEF TypeOK, Free
<1>4. leaked' \subseteq Unit
  BY <1>2, FreeCount DEF TypeOK
<1>5. TypeOK'
  BY <1>1, <1>3, <1>4 DEF TypeOK
<1> QED
  BY <1>1, <1>5 DEF IdsHandedOut, Located, LiveWithinUsed, HandlesSound, HandleSound,
    ClaimsDistinct, MigratingIsHeld, Held, Created

(* The new id is not one that a mover can hold.                             *)
LEMMA InstallPreserves ==
  ASSUME IInv, nextId <= MaxExtents, NEW l \in Loc, install_entry(nextId, l)
  PROVE  IInv'
<1> USE ExtentMapAssumption DEF IInv
<1>1. nextId \in Eid /\ nextId \notin Created
  BY DEF TypeOK, Eid, Created
<1>2. Created' = Created \cup {nextId}
  BY DEF TypeOK, Created, install_entry
<1>3. freeLists' \subseteq (Tier \X Nat \X Eid)
  BY <1>1, LocFacts DEF TypeOK, install_entry
<1>4. TypeOK'
  BY <1>1, <1>3 DEF TypeOK, install_entry
<1>5. IdsHandedOut'
  BY <1>2 DEF IdsHandedOut, install_entry
<1>6. Located'
  BY <1>1, <1>2, CreatedInEid DEF Located, TypeOK, install_entry
<1>7. LiveWithinUsed'
  BY <1>1 DEF LiveWithinUsed, TypeOK, install_entry
<1>8. HandlesSound'
  BY <1>1, <1>2 DEF HandlesSound, HandleSound, Held, TypeOK, install_entry
<1>9. ClaimsDistinct' /\ MigratingIsHeld'
  BY <1>1 DEF ClaimsDistinct, MigratingIsHeld, Held, TypeOK, IdsHandedOut, install_entry
<1> QED
  BY <1>4, <1>5, <1>6, <1>7, <1>8, <1>9

(* begin_migration takes an ACTIVE extent, so one that nobody holds.        *)
LEMMA BeginPreserves ==
  ASSUME IInv, NEW m \in Movers, NEW e \in Created, begin_migration(m, e)
  PROVE  IInv'
<1> USE ExtentMapAssumption DEF IInv
<1> DEFINE claim == [eid |-> e, gen |-> gen[e], src |-> location[e],
                     used |-> used[e], live |-> live[e]]
<1>1. e \in Eid /\ location[e] \in Loc
  BY CreatedInEid DEF Located
<1>2. claim \in Handle /\ claim # None
  BY <1>1, NoneAssumption DEF TypeOK, Handle
<1>3. /\ handle' = [handle EXCEPT ![m] = claim]
      /\ handle[m] = None
      /\ state[e] = ACTIVE /\ state' = [state EXCEPT ![e] = MIGRATING]
  BY DEF begin_migration
<1>4. TypeOK'
  BY <1>1, <1>2, <1>3 DEF TypeOK, begin_migration
<1>5. IdsHandedOut' /\ Located' /\ LiveWithinUsed'
  BY DEF IdsHandedOut, Located, LiveWithinUsed, Created, begin_migration
<1>6. \A m1 \in Movers : Held(m1) => handle[m1].eid # e
  BY <1>3 DEF HandlesSound, HandleSound
<1>7. HandlesSound'
  <2> SUFFICES ASSUME NEW m1 \in Movers, Held(m1)' PROVE HandleSound(m1)'
    BY DEF HandlesSound
  <2>1. CASE m1 = m
    BY <1>1, <1>3, <2>1 DEF HandleSound, Created, TypeOK, begin_migration
  <2>2. CASE m1 # m
    BY <1>1, <1>3, <2>2, <1>6 DEF HandlesSound, HandleSound, Held, Created, TypeOK, begin_migration
  <2> QED
    BY <2>1, <2>2
<1>8. ClaimsDistinct'
  BY <1>2, <1>3, <1>6 DEF ClaimsDistinct, Held, TypeOK
<1>9. MigratingIsHeld'
  <2> SUFFICES ASSUME NEW x \in entries, state'[x] = MIGRATING
               PROVE  \E m1 \in Movers : handle'[m1] # None /\ handle'[m1].eid = x
    BY DEF MigratingIsHeld, Held, begin_migration
  <2>1. CASE x = e
    BY <1>2, <1>3, <2>1 DEF TypeOK
  <2>2. CASE x # e
    <3>1. PICK m1 \in Movers : handle[m1] # None /\ handle[m1].eid = x
      BY <1>3, <2>2 DEF MigratingIsHeld, Held, TypeOK
    <3> QED
      BY <1>3, <3>1 DEF TypeOK
  <2> QED
    BY <2>1, <2>2
<1> QED
  BY <1>4, <1>5, <1>7, <1>8, <1>9

(* Dropping a handle leaves the other claims as they were.                  *)
LEMMA DropHandle ==
  ASSUME TypeOK, ClaimsDistinct, NEW m \in Movers, Held(m),
         handle' = [handle EXCEPT ![m] = None]
  PROVE  /\ handle' \in [Movers -> Handle \cup {None}]
         /\ ~Held(m)'
         /\ \A m1 \in Movers \ {m} :
              /\ handle'[m1] = handle[m1]
              /\ Held(m1) => handle[m1].eid # handle[m].eid
         /\ ClaimsDistinct'
  BY DEF TypeOK, ClaimsDistinct, Held

(* commit_migration moves the extent, makes it ACTIVE and drops the handle. *)
LEMMA CommitPreserves ==
  ASSUME IInv, NEW m \in Movers, NEW l \in Loc, commit_migration(m, l)
  PROVE  IInv'
<1> USE ExtentMapAssumption DEF IInv
<1> DEFINE e == handle[m].eid
<1>1. Held(m) /\ handle[m] \in Handle /\ e \in Created /\ e \in Eid /\ location[e] \in Loc
  BY CreatedInEid DEF commit_migration, Held, TypeOK, HandlesSound, HandleSound, Located
<1>2. handle' = [handle EXCEPT ![m] = None]
  BY DEF commit_migration
<1>3. deferred' \subseteq (Loc \X Nat \X Nat) /\ IsFiniteSet(deferred')
  BY <1>1, DeferTyped DEF commit_migration
<1>4. handle[m].gen \in Nat
  BY <1>1 DEF Handle
<1>5. TypeOK'
  BY <1>1, <1>2, <1>3, <1>4, DropHandle DEF TypeOK, commit_migration
<1>6. IdsHandedOut' /\ LiveWithinUsed'
  BY DEF IdsHandedOut, LiveWithinUsed, Created, commit_migration
<1>7. Located'
  BY <1>1, CreatedInEid DEF Located, TypeOK, Created, commit_migration
<1>8. HandlesSound' /\ ClaimsDistinct'
  <2>1. ClaimsDistinct'
    BY <1>1, <1>2, DropHandle
  <2> SUFFICES ASSUME NEW m1 \in Movers, Held(m1)' PROVE HandleSound(m1)'
    BY <2>1 DEF HandlesSound
  <2>2. /\ m1 # m /\ handle'[m1] = handle[m1]
        /\ Held(m1) /\ HandleSound(m1) /\ handle[m1].eid # e
    BY <1>1, <1>2, DropHandle DEF Held, HandlesSound
  <2> QED
    BY <1>1, <2>2, CreatedInEid DEF HandleSound, Created, TypeOK, commit_migration
<1>9. MigratingIsHeld'
  BY <1>1, <1>2, DropHandle DEF MigratingIsHeld, Held, TypeOK, commit_migration
<1> QED
  BY <1>5, <1>6, <1>7, <1>8, <1>9

(* abort_migration makes a mapped extent ACTIVE again; one that has left    *)
(* the map stays MIGRATING and can never be claimed again.                  *)
LEMMA AbortPreserves ==
  ASSUME IInv, NEW m \in Movers, NEW dsts \in SUBSET Loc, abort_migration(m, dsts)
  PROVE  IInv'
<1> USE ExtentMapAssumption DEF IInv
<1> DEFINE e == handle[m].eid
<1>1. Held(m) /\ e \in Created /\ e \in Eid
  BY CreatedInEid DEF abort_migration, Held, TypeOK, HandlesSound, HandleSound
<1>2. handle' = [handle EXCEPT ![m] = None]
  BY DEF abort_migration
<1>3. deferred' \subseteq (Loc \X Nat \X Nat) /\ IsFiniteSet(deferred')
  BY DeferTyped DEF abort_migration, TypeOK
<1>4. state' \in [Eid -> {ACTIVE, MIGRATING}] /\ \A x \in Eid \ {e} : state'[x] = state[x]
  BY <1>1 DEF TypeOK, abort_migration
<1>5. TypeOK'
  BY <1>1, <1>2, <1>3, <1>4, DropHandle DEF TypeOK, abort_migration
<1>6. IdsHandedOut' /\ Located' /\ LiveWithinUsed'
  BY DEF IdsHandedOut, Located, LiveWithinUsed, Created, abort_migration
<1>7. HandlesSound' /\ ClaimsDistinct'
  <2>1. ClaimsDistinct'
    BY <1>1, <1>2, DropHandle
  <2> SUFFICES ASSUME NEW m1 \in Movers, Held(m1)' PROVE HandleSound(m1)'
    BY <2>1 DEF HandlesSound
  <2>2. /\ m1 # m /\ handle'[m1] = handle[m1]
        /\ Held(m1) /\ HandleSound(m1) /\ handle[m1].eid # e
    BY <1>1, <1>2, DropHandle DEF Held, HandlesSound
  <2> QED
    BY <1>4, <2>2, CreatedInEid DEF HandleSound, Created, abort_migration
<1>8. MigratingIsHeld'
  <2> SUFFICES ASSUME NEW x \in entries, state'[x] = MIGRATING
               PROVE  \E m1 \in Movers : handle'[m1] # None /\ handle'[m1].eid = x
    BY DEF MigratingIsHeld, Held, abort_migration
  <2>1. x # e /\ x \in Eid
    BY DEF abort_migration, TypeOK
  <2>2. PICK m1 \in Movers : handle[m1] # None /\ handle[m1].eid = x
    BY <1>4, <2>1 DEF MigratingIsHeld, Held
  <2> QED
    BY <1>2, <2>1, <2>2 DEF TypeOK
<1> QED
  BY <1>5, <1>6, <1>7, <1>8

(* free: the entry leaves the map.                                          *)
LEMMA FreeErasePreserves ==
  ASSUME IInv, NEW e \in Created, free_erase(e)
  PROVE  IInv'
<1> USE DEF IInv
<1>1. e \in Eid
  BY CreatedInEid
<1>2. TypeOK'
  BY <1>1 DEF TypeOK, free_erase, entryVars
<1> QED
  BY <1>2 DEF IdsHandedOut, Located, LiveWithinUsed, HandlesSound, HandleSound,
    ClaimsDistinct, MigratingIsHeld, Held, Created, free_erase, entryVars

(* free: the location is deferred.                                          *)
LEMMA FreeDeferPreserves ==
  ASSUME IInv, NEW e \in Created, free_defer(e)
  PROVE  IInv'
<1> USE DEF IInv
<1>1. location[e] \in Loc
  BY DEF Located
<1>2. deferred' \subseteq (Loc \X Nat \X Nat) /\ IsFiniteSet(deferred')
  BY <1>1, DeferTyped DEF free_defer
<1>3. TypeOK'
  BY <1>2 DEF TypeOK, free_defer, entryVars
<1> QED
  BY <1>3 DEF IdsHandedOut, Located, LiveWithinUsed, HandlesSound, HandleSound,
    ClaimsDistinct, MigratingIsHeld, Held, Created, free_defer, entryVars

(* A finished compaction frees the extent it holds.                         *)
LEMMA FreeClaimedPreserves ==
  ASSUME IInv, NEW m \in Movers, free_claimed(m)
  PROVE  IInv'
<1> USE DEF IInv
<1> DEFINE e == handle[m].eid
<1>1. Held(m) /\ e \in Created /\ e \in Eid
  BY CreatedInEid DEF free_claimed, Held, HandlesSound, HandleSound
<1>2. handle' = [handle EXCEPT ![m] = None]
  BY DEF free_claimed
<1>3. TypeOK'
  BY <1>1, <1>2, DropHandle DEF TypeOK, free_claimed, entryVars
<1>4. IdsHandedOut' /\ Located' /\ LiveWithinUsed'
  BY <1>1 DEF IdsHandedOut, Located, LiveWithinUsed, Created, free_claimed, entryVars
<1>5. HandlesSound' /\ ClaimsDistinct'
  <2>1. ClaimsDistinct'
    BY <1>1, <1>2, DropHandle
  <2> SUFFICES ASSUME NEW m1 \in Movers, Held(m1)' PROVE HandleSound(m1)'
    BY <2>1 DEF HandlesSound
  <2>2. /\ m1 # m /\ handle'[m1] = handle[m1]
        /\ Held(m1) /\ HandleSound(m1) /\ handle[m1].eid # e
    BY <1>1, <1>2, DropHandle DEF Held, HandlesSound
  <2> QED
    BY <1>1, <2>2, CreatedInEid DEF HandleSound, Created, TypeOK, free_claimed, entryVars
<1>6. MigratingIsHeld'
  BY <1>1, <1>2, DropHandle DEF MigratingIsHeld, Held, free_claimed, entryVars
<1> QED
  BY <1>3, <1>4, <1>5, <1>6

(* process_deferred_free touches the allocators and its own list only.      *)
LEMMA ReleasePreserves ==
  ASSUME IInv, process_deferred_free
  PROVE  IInv'
<1> USE DEF IInv
<1>1. seqno' \in Nat
  BY DEF TypeOK, process_deferred_free
<1>2. TypeOK'
  BY <1>1, ReleaseTyped DEF TypeOK, process_deferred_free, entryVars
<1> QED
  BY <1>2 DEF IdsHandedOut, Located, LiveWithinUsed, HandlesSound, HandleSound,
    ClaimsDistinct, MigratingIsHeld, Held, Created, process_deferred_free, entryVars

-----------------------------------------------------------------------------
(* A locked body on an id that was handed out, without the bounds that keep *)
(* ExtentMapNext finite.                                                    *)
LockedBody ==
  \/ \E e \in Created, n \in 0..Slots : append_slot(e, n) \/ mark_dead_slot(e, n)
  \/ \E t \in Tier, n \in 1..(Slots + 1) :
       allocation_fails(t, n) \/ \E a \in Answers(t, n) : allocate(t, n, a)
  \/ nextId <= MaxExtents /\ \E l \in Loc : install_entry(nextId, l)
  \/ \E m \in Movers, e \in Created : begin_migration(m, e)
  \/ \E m \in Movers, l \in Loc : commit_migration(m, l)
  \/ \E m \in Movers, dsts \in SUBSET Loc : abort_migration(m, dsts)
  \/ \E e \in Created : free_erase(e) \/ free_defer(e)
  \/ \E m \in Movers : free_claimed(m)
  \/ process_deferred_free

(* The invariant is inductive.                                              *)
LEMMA BodyIInv == IInv /\ [LockedBody]_extentVars => IInv'
<1>1. ASSUME IInv, UNCHANGED extentVars PROVE IInv'
  BY <1>1 DEF IInv, TypeOK, IdsHandedOut, Located, LiveWithinUsed, HandlesSound,
    HandleSound, ClaimsDistinct, MigratingIsHeld, Held, Created, extentVars, entryVars
<1> QED
  BY <1>1, AppendPreserves, MarkDeadPreserves, AllocatePreserves, InstallPreserves,
    BeginPreserves, CommitPreserves, AbortPreserves, FreeErasePreserves,
    FreeDeferPreserves, FreeClaimedPreserves, ReleasePreserves
  DEF LockedBody

(* The stand-alone extent map runs nothing but locked bodies.               *)
LEMMA NextIsBody == ExtentMapNext => LockedBody
<1>1. AppendSlot \/ MarkDeadSlot \/ AllocateSpace \/ InstallEntry \/ BeginMigration => LockedBody
  BY DEF LockedBody, AppendSlot, MarkDeadSlot, AllocateSpace, InstallEntry, BeginMigration
<1>2. CommitMigration \/ AbortMigration \/ FreeErase \/ FreeDefer \/ FreeClaimed => LockedBody
  BY DEF LockedBody, CommitMigration, AbortMigration, FreeErase, FreeDefer, FreeClaimed
<1> QED
  BY <1>1, <1>2 DEF ExtentMapNext, LockedBody

(* What ExtentMapSpec says of one step.                                     *)
MapStep == [extentVars' # extentVars => ExtentMapNext]_extentVars

LEMMA MapStepIsBody == MapStep => [LockedBody]_extentVars
  BY NextIsBody DEF MapStep

(* So the invariant is inductive for the stand-alone extent map.            *)
LEMMA StepIInv == IInv /\ MapStep => IInv'
  BY BodyIInv, MapStepIsBody

(* Every reachable state satisfies the invariant.                           *)
THEOREM Invariance == ExtentMapSpec => []IInv
  BY InitIInv, StepIInv, PTL DEF ExtentMapSpec, MapStep

(* extent_map.cc keeps every field in range: in particular append_slot      *)
(* never overfills an extent and the live bytes never go negative.          *)
THEOREM TypeCorrect == ExtentMapSpec => []TypeOK
<1>1. IInv => TypeOK
  BY DEF IInv
<1> QED
  BY <1>1, Invariance, PTL

(* begin_migration, commit_migration and abort_migration form a lock on the *)
(* extent, however many threads migrate and whoever frees the extent.       *)
THEOREM ClaimIsALock == ExtentMapSpec => []ClaimExclusive
<1>1. IInv => ClaimExclusive
  BY DEF IInv, ClaimsDistinct, HandlesSound, HandleSound, MigratingIsHeld, Held, ClaimExclusive
<1> QED
  BY <1>1, Invariance, PTL

(* An unchanged generation means an unchanged extent.                       *)
THEOREM GenerationDetectsChange == ExtentMapSpec => []GenerationProtocol
<1>1. IInv => GenerationProtocol
  BY DEF IInv, HandlesSound, HandleSound, Held, GenUnchanged, GenerationProtocol
<1> QED
  BY <1>1, Invariance, PTL

(* What MovesOnlyByCommit says of one step.                                 *)
MovesByCommit ==
  \A e \in Created : location'[e] # location[e] =>
    /\ \E m \in Movers :
         /\ handle[m] # None
         /\ handle[m].eid = e
         /\ handle[m].src = location[e]
         /\ handle[m].used = used[e]
         /\ handle[m].live = live[e]
    /\ used'[e] = used[e]
    /\ live'[e] = live[e]

(* Of the locked bodies only commit_migration changes the location of an id *)
(* that was handed out, and it compares the generation first.               *)
LEMMA BodyMovesByCommit ==
  ASSUME IInv, [LockedBody]_extentVars
  PROVE  MovesByCommit
<1> SUFFICES ASSUME NEW e \in Created, location'[e] # location[e]
             PROVE  /\ \E m \in Movers :
                         /\ handle[m] # None
                         /\ handle[m].eid = e
                         /\ handle[m].src = location[e]
                         /\ handle[m].used = used[e]
                         /\ handle[m].live = live[e]
                    /\ used'[e] = used[e]
                    /\ live'[e] = live[e]
  BY DEF MovesByCommit
<1>1. e \in Eid
  BY CreatedInEid DEF IInv
<1>2. ~(nextId <= MaxExtents /\ \E l \in Loc : install_entry(nextId, l))
  BY <1>1 DEF IInv, TypeOK, Created, install_entry
<1>3. PICK m \in Movers, l \in Loc : commit_migration(m, l)
  BY <1>2 DEF LockedBody, append_slot, mark_dead_slot, allocate, allocation_fails, begin_migration,
    abort_migration, free_erase, free_defer, free_claimed, process_deferred_free,
    extentVars, entryVars
<1>4. handle[m].eid = e
  BY <1>1, <1>3 DEF IInv, TypeOK, commit_migration
<1>5. Held(m) /\ HandleSound(m) /\ gen[e] = handle[m].gen /\ UNCHANGED <<used, live>>
  BY <1>3, <1>4 DEF IInv, HandlesSound, Held, commit_migration, GenUnchanged
<1> QED
  BY <1>4, <1>5 DEF HandleSound, Held

(* Only commit_migration by the holder of an unchanged extent moves it.     *)
THEOREM MovesOnlyByCommitHolds == ExtentMapSpec => MovesOnlyByCommit
<1>1. IInv /\ MapStep => [MovesByCommit]_extentVars
  BY BodyMovesByCommit, MapStepIsBody
<1> QED
  BY <1>1, Invariance, PTL DEF ExtentMapSpec, MapStep, MovesOnlyByCommit, MovesByCommit

-----------------------------------------------------------------------------
(* The key map, for any keys, extents and locations.                        *)

(* The reverse index is exact only together with the types: the sets that   *)
(* put and erase edit are those of extents that exist.                      *)
KeyMapInv == KeyMapTypeOK /\ ReverseIndexExact

(* The keys that the map places in extent e.                                *)
KeysOf(e) == {k \in Keys : kmap[k] # Absent /\ kmap[k].eid = e}

(* A location is never Absent, and its extent is an extent.                 *)
LEMMA LocationFacts == \A l \in KeyLocation : l # Absent /\ l.eid \in Extents
  BY KeyMapAssumption DEF KeyLocation

(* put() moves the key from its old extent's set to the new one's.          *)
LEMMA PutPreserves ==
  ASSUME KeyMapInv, NEW k \in Keys, NEW kloc \in KeyLocation, KeyPut(k, kloc)
  PROVE  KeyMapInv'
<1> USE DEF KeyMapInv, KeyMapTypeOK
<1> DEFINE ri == Unindex(reverseIndex, k, kmap[k], kloc.eid)
<1>1. kloc # Absent /\ kloc.eid \in Extents
  BY LocationFacts
<1>2. kmap' = [kmap EXCEPT ![k] = kloc] /\ kmap' \in [Keys -> KeyLocation \cup {Absent}]
  BY DEF KeyPut
<1>3. /\ ri \in [Extents -> SUBSET Keys]
      /\ \A e \in Extents \ {kloc.eid} : ri[e] = KeysOf(e) \ {k}
      /\ ri[kloc.eid] = KeysOf(kloc.eid)
  <2>1. CASE kmap[k] = Absent
    BY <1>1, <2>1 DEF Unindex, ReverseIndexExact, KeysOf
  <2>2. CASE kmap[k] # Absent
    BY <1>1, <2>2, LocationFacts DEF Unindex, ReverseIndexExact, KeysOf
  <2> QED
    BY <2>1, <2>2
<1>4. reverseIndex' = [ri EXCEPT ![kloc.eid] = @ \cup {k}]
  BY DEF KeyPut
<1> HIDE DEF ri
<1>5. reverseIndex' \in [Extents -> SUBSET Keys]
  BY <1>1, <1>3, <1>4
<1>6. ReverseIndexExact'
  <2> SUFFICES ASSUME NEW e \in Extents
               PROVE  reverseIndex'[e] = {x \in Keys : kmap'[x] # Absent /\ kmap'[x].eid = e}
    BY DEF ReverseIndexExact
  <2>1. CASE e = kloc.eid
    BY <1>1, <1>2, <1>3, <1>4, <2>1 DEF KeysOf
  <2>2. CASE e # kloc.eid
    BY <1>1, <1>2, <1>3, <1>4, <2>2 DEF KeysOf
  <2> QED
    BY <2>1, <2>2
<1> QED
  BY <1>2, <1>5, <1>6

(* erase() takes the key out of both maps.                                  *)
LEMMA ErasePreserves ==
  ASSUME KeyMapInv, NEW k \in Keys, KeyErase(k)
  PROVE  KeyMapInv'
<1> USE DEF KeyMapInv, KeyMapTypeOK
<1>1. CASE kmap[k] = Absent
  BY <1>1 DEF KeyErase, ReverseIndexExact
<1>2. CASE kmap[k] # Absent
  BY <1>2, LocationFacts DEF KeyErase, ReverseIndexExact
<1> QED
  BY <1>1, <1>2

(* batch_update() moves all its keys to one extent, also those that were    *)
(* erased since compact() looked at them.                                   *)
LEMMA BatchPreserves ==
  ASSUME KeyMapInv, NEW e \in Extents, NEW S \in SUBSET Keys,
         NEW updates \in [S -> {kloc \in KeyLocation : kloc.eid = e}],
         BatchUpdate(updates, e)
  PROVE  KeyMapInv'
<1> USE DEF KeyMapInv, KeyMapTypeOK
<1>1. \A k \in S : updates[k] \in KeyLocation /\ updates[k] # Absent /\ updates[k].eid = e
  BY LocationFacts
<1>2. /\ kmap' = [k \in Keys |-> IF k \in S THEN updates[k] ELSE kmap[k]]
      /\ reverseIndex' = [x \in Extents |->
           IF x = e THEN reverseIndex[x] \cup S
           ELSE reverseIndex[x] \ {k \in S : kmap[k] # Absent /\ kmap[k].eid = x}]
  BY DEF BatchUpdate
<1>3. KeyMapTypeOK'
  BY <1>1, <1>2
<1>4. ReverseIndexExact'
  <2> SUFFICES ASSUME NEW x \in Extents
               PROVE  reverseIndex'[x] = {k \in Keys : kmap'[k] # Absent /\ kmap'[k].eid = x}
    BY DEF ReverseIndexExact
  <2>1. CASE x = e
    BY <1>1, <1>2, <2>1 DEF ReverseIndexExact
  <2>2. CASE x # e
    BY <1>1, <1>2, <2>2 DEF ReverseIndexExact
  <2> QED
    BY <2>1, <2>2
<1> QED
  BY <1>3, <1>4

(* Whatever order put, erase and batch_update run in, and wherever they     *)
(* place a key, keys_in_extent() lists exactly the keys of the extent.      *)
THEOREM ReverseIndexAlwaysExact == KeyMapSpec => [](KeyMapTypeOK /\ ReverseIndexExact)
<1>1. KeyMapInit => KeyMapInv
  BY DEF KeyMapInit, KeyMapInv, KeyMapTypeOK, ReverseIndexExact
<1>2. KeyMapInv /\ [KeyMapNext]_keyVars => KeyMapInv'
  <2> SUFFICES ASSUME KeyMapInv, [KeyMapNext]_keyVars PROVE KeyMapInv'
    OBVIOUS
  <2>1. CASE Put
    BY <2>1, PutPreserves DEF Put
  <2>2. CASE Erase
    BY <2>2, ErasePreserves DEF Erase
  <2>3. CASE Batch
    BY <2>3, BatchPreserves DEF Batch
  <2>4. CASE UNCHANGED keyVars
    BY <2>4 DEF KeyMapInv, KeyMapTypeOK, ReverseIndexExact, keyVars
  <2> QED
    BY <2>1, <2>2, <2>3, <2>4 DEF KeyMapNext
<1> QED
  BY <1>1, <1>2, PTL DEF KeyMapSpec, KeyMapInv

-----------------------------------------------------------------------------
(* The engine that composes them.                                           *)

(* What the theorems assume of a behaviour: no restart so far, and no two   *)
(* threads between reading next_extent_id and storing its increment.        *)
OneAllocation ==
  /\ \A c, d \in Clients : cl[c].pc = "install" /\ cl[d].pc = "install" => c = d
  /\ mg.pc = "cinstall" => \A c \in Clients : cl[c].pc # "install"
Undisturbed == restarts = 0 /\ OneAllocation

-----------------------------------------------------------------------------
(* The inductive invariant. *)

ClFields == {"pc", "op", "key", "val", "len", "old", "eid", "off", "loc", "fresh",
             "retried", "then", "ckpt", "born"}
MgFields == {"pc", "queue", "to", "new", "loc", "keys", "updates", "copy"}

(* The records of the threads keep their fields.                            *)
Shape ==
  /\ cl = [c \in Clients |-> cl[c]]
  /\ \A c \in Clients : DOMAIN cl[c] = ClFields
  /\ DOMAIN mg = MgFields
  /\ restarts \in Nat

(* Locations the engine writes into the key map.                            *)
Placed == [eid : Eid, off : 0..Slots, len : 0..Slots]
MapOK == KeyMapInv /\ \A k \in Keys : kmap[k] \in Placed \cup {Absent}

ClientOK(c) ==
  /\ cl[c].len \in 0..Slots /\ cl[c].off \in 0..Slots
  /\ cl[c].old \in Placed \cup {Absent}
  /\ cl[c].pc # "idle" /\ cl[c].op \in {"put", "del"} => cl[c].key \in Keys
  /\ cl[c].pc # "idle" /\ cl[c].op = "del" => cl[c].old # Absent
  /\ cl[c].pc \in {"dead", "check"} => cl[c].old # Absent
  /\ cl[c].pc = "install" => cl[c].eid = nextId /\ nextId <= MaxExtents /\ cl[c].loc \in Loc
  /\ cl[c].pc \in {"write", "log", "apply"} => cl[c].op = "del" \/ cl[c].eid \in Eid
  /\ cl[c].pc \in {"ckpt", "ckpt_write"} =>
       cl[c].then = "lookup" \/ (cl[c].then = "apply" /\ cl[c].eid \in Eid)
  /\ cl[c].pc \in {"free", "defer"} => cl[c].then \in {"fail", "alloc", "return"}
  /\ cl[c].pc \in {"getloc", "read"} => cl[c].op = "get"
  /\ cl[c].op = "get" => cl[c].born \in Nat /\ cl[c].born <= seqno

CopyingPcs == {"ccopy", "cupdate"}
LatePcs == CopyingPcs \cup {"cfree", "cundo", "cdefer", "cdone"}
CarryPcs == {"twrite", "tcommit", "tlocked", "cinstall"}
HoldPcs == {"tread", "talloc", "talloc_slow", "ckeys", "calloc", "calloc_slow"}

Task == [type : {"TIER"}, eid : Eid, to : Tier] \cup [type : {"COMPACT"}, eid : Eid, to : {None}]

WorkerOK ==
  /\ mg.queue \in Seq(Task)
  /\ mg.keys \subseteq Keys
  /\ mg.pc \in HoldPcs => handle[Worker] # None
  /\ mg.pc \in {"tread", "talloc"} => mg.to \in Tier
  /\ mg.pc \in CarryPcs => mg.loc \in Loc
  /\ mg.pc = "cinstall" => mg.new = nextId /\ nextId <= MaxExtents
  /\ mg.pc \notin LatePcs => mg.updates = <<>>
  /\ mg.pc \in CopyingPcs =>
       /\ mg.new \in Eid
       /\ mg.updates = [k \in DOMAIN mg.updates |-> mg.updates[k]]
       /\ DOMAIN mg.updates \subseteq Keys
       /\ \A k \in DOMAIN mg.updates : mg.updates[k] \in Placed /\ mg.updates[k].eid = mg.new

(* Who has a unit of a device: an extent in the map or on its way out of    *)
(* it, the deferred-free list, a put() or a compaction that is about to     *)
(* install an extent, a migration that is about to commit; or an allocation *)
(* lost it.                                                                 *)
InMap(u)    == \E e \in entries \cup erased : u \in Units(location[e])
Waiting(u)  == \E d \in deferred : u \in Units(d[1])
Reserved(u) == \E c \in Clients : cl[c].pc = "install" /\ u \in Units(cl[c].loc)
Carried(u)  == mg.pc \in CarryPcs /\ u \in Units(mg.loc)
Leaked(u)   == u \in leaked

Sole(u) ==
  /\ \/ space[u] = 0
     \/ space[u] = 1 /\ ~InMap(u) /\ ~Waiting(u) /\ ~Reserved(u) /\ ~Carried(u) /\ ~Leaked(u)
  /\ InMap(u) => ~Waiting(u) /\ ~Reserved(u) /\ ~Carried(u) /\ ~Leaked(u)
  /\ Waiting(u) => ~Reserved(u) /\ ~Carried(u) /\ ~Leaked(u)
  /\ Reserved(u) => ~Carried(u) /\ ~Leaked(u)
  /\ Carried(u) => ~Leaked(u)
  /\ \A e, f \in entries \cup erased :
       u \in Units(location[e]) /\ u \in Units(location[f]) => e = f
  /\ \A d, x \in deferred : u \in Units(d[1]) /\ u \in Units(x[1]) => d = x
OneOwner == \A u \in Unit \ doubled : Sole(u)

(* What a get() is about to read is still mapped, or was deferred after the *)
(* get() started.                                                           *)
SafeUnit(u, born) ==
  u \in doubled \/ InMap(u) \/ \E d \in deferred : u \in Units(d[1]) /\ d[2] >= born
Safe(l, born) == l \in Loc /\ \A u \in Units(l) : SafeUnit(u, born)
ReadersSafe == \A c \in Clients : cl[c].pc = "read" => Safe(cl[c].loc, cl[c].born)

EngineInv ==
  /\ Shape /\ IInv /\ MapOK
  /\ \A c \in Clients : ClientOK(c)
  /\ WorkerOK
  /\ entries \cap erased = {}
  /\ OneOwner /\ ReadersSafe

-----------------------------------------------------------------------------
(* The threads' records.                                                    *)

(* Go(c, r) overwrites the fields of c's call that r has, and nothing else. *)
LEMMA GoFacts ==
  ASSUME Shape, NEW c \in Clients, NEW r, Go(c, r)
  PROVE  /\ \A d \in Clients \ {c} : cl'[d] = cl[d]
         /\ \A f \in ClFields : cl'[c][f] = IF f \in DOMAIN r THEN r[f] ELSE cl[c][f]
         /\ cl' = [d \in Clients |-> cl'[d]]
         /\ \A d \in Clients : DOMAIN cl'[d] = ClFields
<1>1. cl' = [d \in Clients |-> IF d = c THEN Updated(cl[c], r) ELSE cl[d]]
  BY DEF Shape, Go
<1>2. Updated(cl[c], r) = [f \in ClFields |-> IF f \in DOMAIN r THEN r[f] ELSE cl[c][f]]
  BY DEF Shape, Updated
<1> QED
  BY <1>1, <1>2 DEF Shape

(* GoWorker(r) does the same to the worker's locals.                        *)
LEMMA GoWorkerFacts ==
  ASSUME Shape, NEW r, GoWorker(r)
  PROVE  /\ \A f \in MgFields : mg'[f] = IF f \in DOMAIN r THEN r[f] ELSE mg[f]
         /\ DOMAIN mg' = MgFields
  BY DEF Shape, GoWorker, Updated

-----------------------------------------------------------------------------
(* Ownership.                                                               *)

(* Nobody gets a unit: each still has one owner at most.                    *)
LEMMA OwnersKept ==
  ASSUME OneOwner, UNCHANGED <<location, deferred, space, leaked, doubled>>,
         entries' \cup erased' = entries \cup erased,
         \A u \in Unit : Reserved(u)' => Reserved(u),
         \A u \in Unit : Carried(u)' => Carried(u)
  PROVE  OneOwner'
<1> SUFFICES ASSUME NEW u \in Unit \ doubled PROVE Sole(u)'
  BY DEF OneOwner
<1>1. Sole(u)
  BY DEF OneOwner
<1>2. (InMap(u)' <=> InMap(u)) /\ (Waiting(u)' <=> Waiting(u)) /\ (Leaked(u)' <=> Leaked(u))
  BY DEF InMap, Waiting, Leaked
<1>3. (Reserved(u)' => Reserved(u)) /\ (Carried(u)' => Carried(u))
  OBVIOUS
<1> QED
  BY <1>1, <1>2, <1>3 DEF Sole

(* What a get() may read stays readable while the maps stay as they are.    *)
LEMMA SafeKept ==
  ASSUME NEW l, NEW born, Safe(l, born),
         UNCHANGED <<location, deferred>>, doubled \subseteq doubled',
         entries' \cup erased' = entries \cup erased
  PROVE  Safe(l, born)'
  BY DEF Safe, SafeUnit, InMap

(* The call in progress of a thread that does nothing.                      *)
LEMMA OtherClient ==
  ASSUME TypeOK, NEW d \in Clients, ClientOK(d), cl'[d] = cl[d],
         seqno' \in Nat, seqno' >= seqno, nextId' = nextId \/ cl[d].pc # "install"
  PROVE  ClientOK(d)'
  BY DEF ClientOK, TypeOK

(* A step of client c that gives nobody a location.                         *)
LEMMA ClientKeeps ==
  ASSUME EngineInv, NEW c \in Clients,
         [LockedBody]_extentVars,
         UNCHANGED <<location, deferred, space, leaked, nextId, seqno, handle, mg, doubled, restarts>>,
         entries' \cup erased' = entries \cup erased, entries' \cap erased' = {},
         MapOK',
         \A d \in Clients \ {c} : cl'[d] = cl[d],
         cl' = [d \in Clients |-> cl'[d]], DOMAIN cl'[c] = ClFields,
         ClientOK(c)',
         cl'[c].pc # "install",
         cl'[c].pc = "read" => Safe(cl'[c].loc, cl'[c].born)
  PROVE  EngineInv'
<1>1. IInv'
  BY BodyIInv DEF EngineInv
<1>2. Shape'
  BY DEF EngineInv, Shape
<1>3. TypeOK
  BY DEF EngineInv, IInv
<1>4. ASSUME NEW d \in Clients PROVE ClientOK(d)'
  <2>1. CASE d = c
    BY <2>1
  <2>2. CASE d # c
    BY <1>3, <2>2, OtherClient DEF EngineInv, TypeOK
  <2> QED
    BY <2>1, <2>2
<1>5. WorkerOK'
  BY DEF EngineInv, WorkerOK
<1>6. OneOwner'
  BY OwnersKept DEF EngineInv, Reserved, Carried
<1>7. ReadersSafe'
  BY SafeKept DEF EngineInv, ReadersSafe
<1> QED
  BY <1>1, <1>2, <1>4, <1>5, <1>6, <1>7 DEF EngineInv

(* A step of the worker that gives nobody a location.                       *)
LEMMA WorkerKeeps ==
  ASSUME EngineInv,
         [LockedBody]_extentVars,
         UNCHANGED <<location, deferred, space, leaked, nextId, seqno, cl, doubled, restarts>>,
         entries' \cup erased' = entries \cup erased, entries' \cap erased' = {},
         MapOK', DOMAIN mg' = MgFields, WorkerOK',
         \A u \in Unit : Carried(u)' => Carried(u)
  PROVE  EngineInv'
<1>1. IInv'
  BY BodyIInv DEF EngineInv
<1>2. Shape'
  BY DEF EngineInv, Shape
<1>3. \A d \in Clients : ClientOK(d)'
  BY DEF EngineInv, ClientOK
<1>4. OneOwner'
  BY OwnersKept DEF EngineInv, Reserved
<1>5. ReadersSafe'
  BY SafeKept DEF EngineInv, ReadersSafe
<1> QED
  BY <1>1, <1>2, <1>3, <1>4, <1>5 DEF EngineInv

-----------------------------------------------------------------------------
(* Steps of put, del and get that leave the extent map alone.               *)

(* What is left to show of such a step: the fields of the call itself.      *)
LEMMA ClientLocal ==
  ASSUME EngineInv, NEW c \in Clients, NEW r, Go(c, r),
         UNCHANGED <<extentVars, mg, doubled, restarts>>, MapOK', ClientOK(c)',
         cl'[c].pc # "install",
         cl'[c].pc = "read" => Safe(cl'[c].loc, cl'[c].born)
  PROVE  EngineInv'
<1>1. /\ \A d \in Clients \ {c} : cl'[d] = cl[d]
      /\ cl' = [d \in Clients |-> cl'[d]] /\ DOMAIN cl'[c] = ClFields
  BY GoFacts DEF EngineInv
<1>2. /\ UNCHANGED <<location, deferred, space, leaked, nextId, seqno, handle>>
      /\ entries' \cup erased' = entries \cup erased /\ entries' \cap erased' = {}
  BY DEF extentVars, entryVars, EngineInv
<1> QED
  BY <1>1, <1>2, ClientKeeps

(* A step that leaves the key map alone.                                    *)
LEMMA MapKept == MapOK /\ UNCHANGED keyVars => MapOK'
  BY DEF MapOK, KeyMapInv, KeyMapTypeOK, ReverseIndexExact, keyVars

(* The locals of a call that most of its steps keep.                        *)
SameArgs(c) ==
  /\ cl'[c].op = cl[c].op /\ cl'[c].key = cl[c].key /\ cl'[c].len = cl[c].len
  /\ cl'[c].off = cl[c].off /\ cl'[c].old = cl[c].old /\ cl'[c].born = cl[c].born
SameCall(c) == SameArgs(c) /\ cl'[c].eid = cl[c].eid /\ cl'[c].then = cl[c].then

(* put starts: a checkpoint first if the journal is nearly full.            *)
LEMMA PutStartKeeps ==
  ASSUME EngineInv, NEW c \in Clients, NEW k \in Keys, NEW n \in {1, Large}, PutStart(c, k, n)
  PROVE  EngineInv'
<1> DEFINE r == [op |-> "put", key |-> k, val |-> ops + 1, len |-> n, then |-> "lookup",
                 pc |-> IF is_near_full(jlog) THEN "ckpt" ELSE "lookup"]
<1>1. Go(c, r) /\ UNCHANGED <<extentVars, keyVars, mg, doubled, restarts>>
  BY DEF PutStart, ghostVars
<1>2. \A f \in ClFields : cl'[c][f] = IF f \in DOMAIN r THEN r[f] ELSE cl[c][f]
  BY <1>1, GoFacts DEF EngineInv
<1>3. /\ cl'[c].op = "put" /\ cl'[c].key = k /\ cl'[c].len = n /\ cl'[c].then = "lookup"
      /\ cl'[c].pc \in {"ckpt", "lookup"}
      /\ cl'[c].off = cl[c].off /\ cl'[c].old = cl[c].old
  BY <1>2 DEF ClFields
<1>4. n \in 0..Slots
  BY BtierAssumption, ExtentMapAssumption
<1>5. ClientOK(c)'
  BY <1>3, <1>4 DEF EngineInv, ClientOK
<1> QED
  BY <1>1, <1>3, <1>5, MapKept, ClientLocal DEF EngineInv

(* The checkpoint is built from the maps and held by the caller ...         *)
LEMMA CkptBuildKeeps ==
  ASSUME EngineInv, NEW c \in Clients, CkptBuild(c)
  PROVE  EngineInv'
<1> DEFINE r == [pc |-> "ckpt_write", ckpt |-> build_checkpoint_state]
<1>1. /\ Go(c, r) /\ UNCHANGED <<extentVars, keyVars, mg, doubled, restarts>>
      /\ cl[c].pc = "ckpt"
  BY DEF CkptBuild, Keep, ghostVars, boundVars
<1>2. \A f \in ClFields : cl'[c][f] = IF f \in DOMAIN r THEN r[f] ELSE cl[c][f]
  BY <1>1, GoFacts DEF EngineInv
<1>3. cl'[c].pc = "ckpt_write" /\ SameCall(c)
  BY <1>2 DEF ClFields, SameCall, SameArgs
<1>4. ClientOK(c)'
  BY <1>1, <1>3 DEF EngineInv, ClientOK, SameCall, SameArgs, extentVars
<1> QED
  BY <1>1, <1>3, <1>4, MapKept, ClientLocal DEF EngineInv

(* ... and written; the call goes on where it left off.                     *)
LEMMA CkptWriteKeeps ==
  ASSUME EngineInv, NEW c \in Clients, CkptWrite(c)
  PROVE  EngineInv'
<1> DEFINE r == [pc |-> cl[c].then, ckpt |-> <<>>]
<1>1. /\ Go(c, r) /\ UNCHANGED <<extentVars, keyVars, mg, doubled, restarts>>
      /\ cl[c].pc = "ckpt_write"
  BY DEF CkptWrite, boundVars
<1>2. \A f \in ClFields : cl'[c][f] = IF f \in DOMAIN r THEN r[f] ELSE cl[c][f]
  BY <1>1, GoFacts DEF EngineInv
<1>3. cl'[c].pc = cl[c].then /\ SameCall(c)
  BY <1>2 DEF ClFields, SameCall, SameArgs
<1>4. ClientOK(c)' /\ cl'[c].pc \in {"lookup", "apply"}
  BY <1>1, <1>3 DEF EngineInv, ClientOK, SameCall, SameArgs, extentVars
<1> QED
  BY <1>1, <1>3, <1>4, MapKept, ClientLocal DEF EngineInv

(* put looks its key up.                                                    *)
LEMMA PutLookupKeeps ==
  ASSUME EngineInv, NEW c \in Clients, PutLookup(c)
  PROVE  EngineInv'
<1> DEFINE r == [pc |-> IF cl[c].len = Large THEN "alloc" ELSE "find", old |-> kmap[cl[c].key]]
<1>1. /\ Go(c, r) /\ UNCHANGED <<extentVars, keyVars, mg, doubled, restarts>>
      /\ cl[c].pc = "lookup" /\ cl[c].op = "put"
  BY DEF PutLookup, Keep, ghostVars, boundVars
<1>2. \A f \in ClFields : cl'[c][f] = IF f \in DOMAIN r THEN r[f] ELSE cl[c][f]
  BY <1>1, GoFacts DEF EngineInv
<1>3. /\ cl'[c].pc \in {"alloc", "find"} /\ cl'[c].old = kmap[cl[c].key]
      /\ cl'[c].op = "put" /\ cl'[c].key = cl[c].key
      /\ cl'[c].len = cl[c].len /\ cl'[c].off = cl[c].off
  BY <1>1, <1>2 DEF ClFields
<1>4. ClientOK(c)'
  BY <1>1, <1>3 DEF EngineInv, MapOK, ClientOK
<1> QED
  BY <1>1, <1>3, <1>4, MapKept, ClientLocal DEF EngineInv

(* put looks for a shared extent with room.                                 *)
LEMMA PutFindKeeps ==
  ASSUME EngineInv, NEW c \in Clients, PutFind(c)
  PROVE  EngineInv'
<1>1. UNCHANGED <<extentVars, keyVars, mg, doubled, restarts>> /\ cl[c].pc = "find"
  BY DEF PutFind, Keep, ghostVars, boundVars
<1>2. PICK r : Go(c, r) /\ (r = [pc |-> "alloc"] \/ \E e : r = [pc |-> "locate", eid |-> e])
  BY DEF PutFind
<1>3. \A f \in ClFields : cl'[c][f] = IF f \in DOMAIN r THEN r[f] ELSE cl[c][f]
  BY <1>2, GoFacts DEF EngineInv
<1>4. /\ cl'[c].pc \in {"alloc", "locate"}
      /\ SameArgs(c)
  BY <1>2, <1>3 DEF ClFields, SameArgs
<1>5. ClientOK(c)'
  BY <1>1, <1>4 DEF EngineInv, ClientOK, SameArgs, extentVars
<1> QED
  BY <1>1, <1>2, <1>4, <1>5, MapKept, ClientLocal DEF EngineInv

(* put reads the location of the extent it found.                           *)
LEMMA PutLocateKeeps ==
  ASSUME EngineInv, NEW c \in Clients, PutLocate(c)
  PROVE  EngineInv'
<1>1. UNCHANGED <<extentVars, keyVars, mg, doubled, restarts>> /\ cl[c].pc = "locate"
  BY DEF PutLocate, Keep, ghostVars, boundVars
<1>2. PICK r : Go(c, r) /\ (r = [pc |-> "fail"] \/ \E l : r = [pc |-> "append", loc |-> l])
  BY DEF PutLocate
<1>3. \A f \in ClFields : cl'[c][f] = IF f \in DOMAIN r THEN r[f] ELSE cl[c][f]
  BY <1>2, GoFacts DEF EngineInv
<1>4. /\ cl'[c].pc \in {"append", "fail"}
      /\ SameArgs(c)
  BY <1>2, <1>3 DEF ClFields, SameArgs
<1>5. ClientOK(c)'
  BY <1>1, <1>4 DEF EngineInv, ClientOK, SameArgs, extentVars
<1> QED
  BY <1>1, <1>2, <1>4, <1>5, MapKept, ClientLocal DEF EngineInv

(* The pre-transaction of a fresh extent is logged, or fails.               *)
LEMMA PutPrelogKeeps ==
  ASSUME EngineInv, NEW c \in Clients, PutPrelog(c)
  PROVE  EngineInv'
<1>1. UNCHANGED <<extentVars, keyVars, mg, doubled, restarts>> /\ cl[c].pc = "prelog"
  BY DEF PutPrelog, KeepButLog
<1>2. PICK r : Go(c, r) /\ (r = [pc |-> "append"] \/ r = [pc |-> "free", then |-> "fail"])
  BY DEF PutPrelog
<1>3. \A f \in ClFields : cl'[c][f] = IF f \in DOMAIN r THEN r[f] ELSE cl[c][f]
  BY <1>2, GoFacts DEF EngineInv
<1>4. /\ cl'[c].pc = "append" \/ (cl'[c].pc = "free" /\ cl'[c].then = "fail")
      /\ SameArgs(c)
  BY <1>2, <1>3 DEF ClFields, SameArgs
<1>5. ClientOK(c)'
  BY <1>1, <1>4 DEF EngineInv, ClientOK, SameArgs, extentVars
<1> QED
  BY <1>1, <1>2, <1>4, <1>5, MapKept, ClientLocal DEF EngineInv

(* Undo: a fresh extent is about to be freed, or the slot is marked dead.   *)
LEMMA UndoKeeps ==
  ASSUME EngineInv, NEW c \in Clients, cl[c].pc \in {"write", "log"}, Undo(c),
         UNCHANGED <<keyVars, mg, doubled, restarts>>
  PROVE  EngineInv'
<1>1. PICK r :
        /\ Go(c, r)
        /\ \/ r = [pc |-> "free", eid |-> cl[c].eid, then |-> "fail"]
           \/ r = [pc |-> "fail"]
  BY DEF Undo
<1>2. \A f \in ClFields : cl'[c][f] = IF f \in DOMAIN r THEN r[f] ELSE cl[c][f]
  BY <1>1, GoFacts DEF EngineInv
<1>3. /\ cl'[c].pc = "fail" \/ (cl'[c].pc = "free" /\ cl'[c].then = "fail")
      /\ SameArgs(c)
  BY <1>1, <1>2 DEF ClFields, SameArgs
<1>4. \/ UNCHANGED extentVars
      \/ cl[c].eid \in entries /\ mark_dead_slot(cl[c].eid, cl[c].len)
  BY DEF Undo
<1>5. /\ [LockedBody]_extentVars
      /\ UNCHANGED <<location, deferred, space, leaked, nextId, seqno, handle, entries, erased>>
  BY <1>4 DEF EngineInv, IInv, IdsHandedOut, ClientOK, LockedBody, mark_dead_slot, extentVars,
    entryVars
<1>6. ClientOK(c)'
  BY <1>3, <1>5 DEF EngineInv, ClientOK, SameArgs
<1>7. /\ \A d \in Clients \ {c} : cl'[d] = cl[d]
      /\ cl' = [d \in Clients |-> cl'[d]] /\ DOMAIN cl'[c] = ClFields
  BY <1>1, GoFacts DEF EngineInv
<1> QED
  BY <1>3, <1>5, <1>6, <1>7, MapKept, ClientKeeps DEF EngineInv

(* The value is written, or the write fails and the reservation is undone.  *)
LEMMA PutWriteKeeps ==
  ASSUME EngineInv, NEW c \in Clients, PutWrite(c)
  PROVE  EngineInv'
<1>1. UNCHANGED <<keyVars, mg, doubled, restarts>> /\ cl[c].pc = "write"
  BY DEF PutWrite, KeepButIo, ghostVars
<1>2. CASE Undo(c)
  BY <1>1, <1>2, UndoKeeps
<1>3. CASE Go(c, [pc |-> "log"]) /\ UNCHANGED extentVars
  <2>1. \A f \in ClFields : cl'[c][f] = IF f \in DOMAIN [pc |-> "log"] THEN "log" ELSE cl[c][f]
    BY <1>3, GoFacts DEF EngineInv
  <2>2. cl'[c].pc = "log" /\ SameCall(c)
    BY <2>1 DEF ClFields, SameCall, SameArgs
  <2>3. ClientOK(c)'
    BY <1>1, <1>3, <2>2 DEF EngineInv, ClientOK, SameCall, SameArgs, extentVars
  <2> QED
    BY <1>1, <1>3, <2>2, <2>3, MapKept, ClientLocal DEF EngineInv
<1> QED
  BY <1>2, <1>3 DEF PutWrite

(* The main transaction is logged, or fails and the reservation is undone.  *)
LEMMA PutLogKeeps ==
  ASSUME EngineInv, NEW c \in Clients, PutLog(c)
  PROVE  EngineInv'
<1>1. UNCHANGED <<keyVars, mg, doubled, restarts>> /\ cl[c].pc = "log" /\ cl[c].op = "put"
  BY DEF PutLog, KeepButLog
<1>2. CASE Undo(c)
  BY <1>1, <1>2, UndoKeeps
<1> DEFINE r == [pc |-> IF needs_checkpoint(jlog') THEN "ckpt" ELSE "apply", then |-> "apply"]
<1>3. CASE Go(c, r) /\ UNCHANGED extentVars
  <2>1. \A f \in ClFields : cl'[c][f] = IF f \in DOMAIN r THEN r[f] ELSE cl[c][f]
    BY <1>3, GoFacts DEF EngineInv
  <2>2. /\ cl'[c].pc \in {"ckpt", "apply"} /\ cl'[c].then = "apply"
        /\ SameArgs(c) /\ cl'[c].eid = cl[c].eid
    BY <2>1 DEF ClFields, SameArgs
  <2>3. ClientOK(c)'
    BY <1>1, <1>3, <2>2 DEF EngineInv, ClientOK, SameArgs, extentVars
  <2> QED
    BY <1>1, <1>3, <2>2, <2>3, MapKept, ClientLocal DEF EngineInv
<1> QED
  BY <1>2, <1>3 DEF PutLog

(* The locations the engine writes into the key map are key locations.      *)
LEMMA PlacedFacts == Placed \subseteq KeyLocation /\ Absent \notin Placed
  BY BtierAssumption, KeyMapAssumption DEF Placed, KeyLocation, Eid

(* KeyMap::put: the key now maps to the slots the value was written to.     *)
LEMMA PutApplyKeeps ==
  ASSUME EngineInv, NEW c \in Clients, PutApply(c)
  PROVE  EngineInv'
<1>1. /\ Go(c, [pc |-> IF cl[c].old = Absent THEN "return" ELSE "dead"])
      /\ UNCHANGED <<extentVars, mg, doubled, restarts>>
      /\ cl[c].pc = "apply" /\ cl[c].op = "put"
  BY DEF PutApply, Keep, ghostVars, boundVars
<1> DEFINE r == [pc |-> IF cl[c].old = Absent THEN "return" ELSE "dead"]
<1>2. \A f \in ClFields : cl'[c][f] = IF f \in DOMAIN r THEN r[f] ELSE cl[c][f]
  BY <1>1, GoFacts DEF EngineInv
<1>3. cl'[c].pc = (IF cl[c].old = Absent THEN "return" ELSE "dead") /\ SameArgs(c)
  BY <1>2 DEF ClFields, SameArgs
<1>4. ClientOK(c)'
  BY <1>1, <1>3 DEF EngineInv, ClientOK, SameArgs, extentVars
<1>5. cl[c].key \in Keys /\ NewLocation(c) \in Placed
  BY <1>1 DEF EngineInv, ClientOK, NewLocation, Placed
<1>6. KeyMapInv'
  <2>1. KeyPut(cl[c].key, NewLocation(c)) /\ KeyMapInv
    BY DEF PutApply, EngineInv, MapOK
  <2> QED
    BY <1>5, <2>1, PlacedFacts, PutPreserves
<1>7. MapOK'
  BY <1>5, <1>6 DEF EngineInv, MapOK, PutApply, KeyPut, KeyMapInv, KeyMapTypeOK
<1> QED
  BY <1>1, <1>3, <1>4, <1>7, ClientLocal

(* append_slot reserves the slots, or the call goes on without them.        *)
LEMMA PutAppendKeeps ==
  ASSUME EngineInv, NEW c \in Clients, PutAppend(c)
  PROVE  EngineInv'
<1>1. UNCHANGED <<keyVars, mg, doubled, restarts>> /\ cl[c].pc = "append"
  BY DEF PutAppend, boundVars
<1>2. CASE /\ cl[c].eid \in entries /\ append_slot(cl[c].eid, cl[c].len)
           /\ Go(c, [pc |-> "write", off |-> used[cl[c].eid]])
  <2> DEFINE r == [pc |-> "write", off |-> used[cl[c].eid]]
  <2>1. \A f \in ClFields : cl'[c][f] = IF f \in DOMAIN r THEN r[f] ELSE cl[c][f]
    BY <1>2, GoFacts DEF EngineInv
  <2>2. /\ cl'[c].pc = "write" /\ cl'[c].off = used[cl[c].eid] /\ cl'[c].eid = cl[c].eid
        /\ cl'[c].op = cl[c].op /\ cl'[c].key = cl[c].key /\ cl'[c].len = cl[c].len
        /\ cl'[c].old = cl[c].old /\ cl'[c].born = cl[c].born
    BY <2>1 DEF ClFields
  <2>3. /\ cl[c].eid \in Eid /\ used[cl[c].eid] \in 0..Slots
        /\ [LockedBody]_extentVars
        /\ UNCHANGED <<location, deferred, space, leaked, nextId, seqno, handle, entries, erased>>
    BY <1>2 DEF EngineInv, IInv, TypeOK, IdsHandedOut, ClientOK, LockedBody, append_slot
  <2>4. ClientOK(c)'
    BY <1>1, <2>2, <2>3 DEF EngineInv, ClientOK
  <2>5. /\ \A d \in Clients \ {c} : cl'[d] = cl[d]
        /\ cl' = [d \in Clients |-> cl'[d]] /\ DOMAIN cl'[c] = ClFields
    BY <1>2, GoFacts DEF EngineInv
  <2> QED
    BY <1>1, <2>2, <2>3, <2>4, <2>5, MapKept, ClientKeeps DEF EngineInv
<1>3. CASE ~(cl[c].eid \in entries /\ CanAppend(cl[c].eid, cl[c].len)) /\ UNCHANGED extentVars
  <2>1. PICK r : Go(c, r) /\ \E p \in {"free", "alloc"}, t \in {"fail", "alloc"} :
                               r = [retried |-> TRUE, then |-> t, pc |-> p]
    BY <1>3 DEF PutAppend, append_slot
  <2>2. \A f \in ClFields : cl'[c][f] = IF f \in DOMAIN r THEN r[f] ELSE cl[c][f]
    BY <2>1, GoFacts DEF EngineInv
  <2>3. cl'[c].pc \in {"free", "alloc"} /\ cl'[c].then \in {"fail", "alloc"} /\ SameArgs(c)
    BY <2>1, <2>2 DEF ClFields, SameArgs
  <2>4. ClientOK(c)'
    BY <1>1, <1>3, <2>3 DEF EngineInv, ClientOK, SameArgs, extentVars
  <2> QED
    BY <1>1, <1>3, <2>1, <2>3, <2>4, MapKept, ClientLocal DEF EngineInv
<1> QED
  BY <1>2, <1>3 DEF PutAppend

(* del starts with the location it looked up.                               *)
LEMMA DelStartKeeps ==
  ASSUME EngineInv, NEW c \in Clients, NEW k \in Keys, DelStart(c, k)
  PROVE  EngineInv'
<1> DEFINE r == [op |-> "del", key |-> k, old |-> kmap[k], pc |-> "log"]
<1>1. /\ Go(c, r) /\ UNCHANGED <<extentVars, keyVars, mg, doubled, restarts>>
      /\ kmap[k] # Absent
  BY DEF DelStart, ghostVars
<1>2. \A f \in ClFields : cl'[c][f] = IF f \in DOMAIN r THEN r[f] ELSE cl[c][f]
  BY <1>1, GoFacts DEF EngineInv
<1>3. /\ cl'[c].op = "del" /\ cl'[c].key = k /\ cl'[c].old = kmap[k] /\ cl'[c].pc = "log"
      /\ cl'[c].len = cl[c].len /\ cl'[c].off = cl[c].off
  BY <1>2 DEF ClFields
<1>4. ClientOK(c)'
  BY <1>1, <1>3 DEF EngineInv, MapOK, ClientOK
<1> QED
  BY <1>1, <1>3, <1>4, MapKept, ClientLocal DEF EngineInv

(* The deletion is logged, or the call fails.                               *)
LEMMA DelLogKeeps ==
  ASSUME EngineInv, NEW c \in Clients, DelLog(c)
  PROVE  EngineInv'
<1>1. /\ UNCHANGED <<extentVars, keyVars, mg, doubled, restarts>>
      /\ cl[c].pc = "log" /\ cl[c].op = "del"
  BY DEF DelLog, KeepButLog
<1>2. PICK r : Go(c, r) /\ (r = [pc |-> "apply"] \/ r = [pc |-> "fail"])
  BY DEF DelLog
<1>3. \A f \in ClFields : cl'[c][f] = IF f \in DOMAIN r THEN r[f] ELSE cl[c][f]
  BY <1>2, GoFacts DEF EngineInv
<1>4. cl'[c].pc \in {"apply", "fail"} /\ SameArgs(c)
  BY <1>2, <1>3 DEF ClFields, SameArgs
<1>5. ClientOK(c)'
  BY <1>1, <1>4 DEF EngineInv, ClientOK, SameArgs, extentVars
<1> QED
  BY <1>1, <1>2, <1>4, <1>5, MapKept, ClientLocal DEF EngineInv

(* KeyMap::erase: the key leaves the map.                                   *)
LEMMA DelApplyKeeps ==
  ASSUME EngineInv, NEW c \in Clients, DelApply(c)
  PROVE  EngineInv'
<1>1. /\ Go(c, [pc |-> "dead"]) /\ UNCHANGED <<extentVars, mg, doubled, restarts>>
      /\ cl[c].pc = "apply" /\ cl[c].op = "del" /\ cl[c].key \in Keys
  BY DEF DelApply, Keep, ghostVars, boundVars, EngineInv, ClientOK
<1>2. \A f \in ClFields : cl'[c][f] = IF f \in DOMAIN [pc |-> "dead"] THEN "dead" ELSE cl[c][f]
  BY <1>1, GoFacts DEF EngineInv
<1>3. cl'[c].pc = "dead" /\ SameArgs(c)
  BY <1>2 DEF ClFields, SameArgs
<1>4. ClientOK(c)'
  BY <1>1, <1>3 DEF EngineInv, ClientOK, SameArgs, extentVars
<1>5. KeyMapInv'
  <2>1. KeyErase(cl[c].key) /\ KeyMapInv
    BY DEF DelApply, EngineInv, MapOK
  <2> QED
    BY <1>1, <2>1, ErasePreserves
<1>6. MapOK'
  BY <1>1, <1>5 DEF EngineInv, MapOK, DelApply, KeyErase, KeyMapInv, KeyMapTypeOK
<1> QED
  BY <1>1, <1>3, <1>4, <1>6, ClientLocal

(* The old slots of the key are marked dead if their extent is mapped.      *)
LEMMA MarkOldDeadKeeps ==
  ASSUME EngineInv, NEW c \in Clients, MarkOldDead(c)
  PROVE  EngineInv'
<1>1. /\ Go(c, [pc |-> "check"]) /\ UNCHANGED <<keyVars, mg, doubled, restarts>>
      /\ cl[c].pc = "dead"
  BY DEF MarkOldDead, Keep, ghostVars, boundVars
<1>2. \A f \in ClFields : cl'[c][f] = IF f \in DOMAIN [pc |-> "check"] THEN "check" ELSE cl[c][f]
  BY <1>1, GoFacts DEF EngineInv
<1>3. cl'[c].pc = "check" /\ SameArgs(c)
  BY <1>2 DEF ClFields, SameArgs
<1>4. cl[c].old \in Placed
  BY <1>1 DEF EngineInv, ClientOK
<1>5. \/ UNCHANGED extentVars
      \/ cl[c].old.eid \in entries /\ mark_dead_slot(cl[c].old.eid, cl[c].old.len)
  BY DEF MarkOldDead
<1>6. /\ [LockedBody]_extentVars
      /\ UNCHANGED <<location, deferred, space, leaked, nextId, seqno, handle, entries, erased>>
  BY <1>4, <1>5 DEF EngineInv, IInv, IdsHandedOut, Placed, LockedBody, mark_dead_slot, extentVars,
    entryVars
<1>7. ClientOK(c)'
  BY <1>1, <1>3, <1>6 DEF EngineInv, ClientOK, SameArgs
<1>8. /\ \A d \in Clients \ {c} : cl'[d] = cl[d]
      /\ cl' = [d \in Clients |-> cl'[d]] /\ DOMAIN cl'[c] = ClFields
  BY <1>1, GoFacts DEF EngineInv
<1> QED
  BY <1>1, <1>3, <1>6, <1>7, <1>8, MapKept, ClientKeeps DEF EngineInv

(* The old extent is freed next if nothing in it is live.                   *)
LEMMA CheckOldLiveKeeps ==
  ASSUME EngineInv, NEW c \in Clients, CheckOldLive(c)
  PROVE  EngineInv'
<1>1. UNCHANGED <<extentVars, keyVars, mg, doubled, restarts>> /\ cl[c].pc = "check"
  BY DEF CheckOldLive, Keep, ghostVars, boundVars
<1>2. PICK r : Go(c, r) /\ \/ r = [pc |-> "return"]
                           \/ r = [pc |-> "free", eid |-> cl[c].old.eid, then |-> "return"]
  BY DEF CheckOldLive
<1>3. \A f \in ClFields : cl'[c][f] = IF f \in DOMAIN r THEN r[f] ELSE cl[c][f]
  BY <1>2, GoFacts DEF EngineInv
<1>4. /\ cl'[c].pc = "return" \/ (cl'[c].pc = "free" /\ cl'[c].then = "return")
      /\ SameArgs(c)
  BY <1>2, <1>3 DEF ClFields, SameArgs
<1>5. ClientOK(c)'
  BY <1>1, <1>4 DEF EngineInv, ClientOK, SameArgs, extentVars
<1> QED
  BY <1>1, <1>2, <1>4, <1>5, MapKept, ClientLocal DEF EngineInv

(* free: the extent leaves the map, unless it has left it already.          *)
LEMMA ClientFreeEraseKeeps ==
  ASSUME EngineInv, NEW c \in Clients, ClientFreeErase(c)
  PROVE  EngineInv'
<1>1. UNCHANGED <<keyVars, mg, doubled, restarts>> /\ cl[c].pc = "free"
  BY DEF ClientFreeErase, Keep, ghostVars, boundVars
<1>2. PICK r : Go(c, r) /\ (r = [pc |-> "defer"] \/ r = [pc |-> cl[c].then])
  BY DEF ClientFreeErase
<1>3. \A f \in ClFields : cl'[c][f] = IF f \in DOMAIN r THEN r[f] ELSE cl[c][f]
  BY <1>2, GoFacts DEF EngineInv
<1>4. cl'[c].pc \in {"defer", cl[c].then} /\ SameCall(c)
  BY <1>2, <1>3 DEF ClFields, SameCall, SameArgs
<1>5. UNCHANGED extentVars \/ free_erase(cl[c].eid)
  BY DEF ClientFreeErase
<1>6. /\ [LockedBody]_extentVars
      /\ UNCHANGED <<location, deferred, space, leaked, nextId, seqno, handle>>
      /\ entries' \cup erased' = entries \cup erased /\ entries' \cap erased' = {}
  BY <1>5 DEF EngineInv, IInv, IdsHandedOut, LockedBody, free_erase, extentVars, entryVars
<1>7. ClientOK(c)' /\ cl'[c].pc \notin {"install", "read"}
  BY <1>1, <1>4, <1>6 DEF EngineInv, ClientOK, SameCall, SameArgs
<1>8. /\ \A d \in Clients \ {c} : cl'[d] = cl[d]
      /\ cl' = [d \in Clients |-> cl'[d]] /\ DOMAIN cl'[c] = ClFields
  BY <1>2, GoFacts DEF EngineInv
<1> QED
  BY <1>1, <1>6, <1>7, <1>8, MapKept, ClientKeeps DEF EngineInv

(* The call returns.                                                        *)
LEMMA ReturnKeeps ==
  ASSUME EngineInv, NEW c \in Clients, Return(c)
  PROVE  EngineInv'
<1>1. /\ UNCHANGED <<extentVars, keyVars, mg, doubled, restarts>>
      /\ cl' = [cl EXCEPT ![c] = Idle]
  BY DEF Return, boundVars
<1>2. /\ \A d \in Clients \ {c} : cl'[d] = cl[d]
      /\ cl' = [d \in Clients |-> cl'[d]] /\ cl'[c] = Idle
  BY <1>1 DEF EngineInv, Shape
<1>3. DOMAIN Idle = ClFields
  BY DEF Idle, ClFields
<1>4. ClientOK(c)'
  BY <1>1, <1>2, ExtentMapAssumption DEF EngineInv, IInv, TypeOK, ClientOK, Idle, extentVars
<1>5. /\ UNCHANGED <<location, deferred, space, leaked, nextId, seqno, handle>>
      /\ entries' \cup erased' = entries \cup erased /\ entries' \cap erased' = {}
  BY <1>1 DEF extentVars, entryVars, EngineInv
<1>6. cl'[c].pc = "idle"
  BY <1>2 DEF Idle
<1> QED
  BY <1>1, <1>2, <1>3, <1>4, <1>5, <1>6, MapKept, ClientKeeps DEF EngineInv

(* get starts: it looks its key up, at the current sequence number.         *)
LEMMA GetLookupKeeps ==
  ASSUME EngineInv, NEW c \in Clients, NEW k \in Keys, GetLookup(c, k)
  PROVE  EngineInv'
<1> DEFINE r == [op |-> "get", key |-> k, old |-> kmap[k], pc |-> "getloc", born |-> seqno]
<1>1. Go(c, r) /\ UNCHANGED <<extentVars, keyVars, mg, doubled, restarts>>
  BY DEF GetLookup, ghostVars
<1>2. \A f \in ClFields : cl'[c][f] = IF f \in DOMAIN r THEN r[f] ELSE cl[c][f]
  BY <1>1, GoFacts DEF EngineInv
<1>3. /\ cl'[c].op = "get" /\ cl'[c].old = kmap[k] /\ cl'[c].pc = "getloc"
      /\ cl'[c].born = seqno /\ cl'[c].len = cl[c].len /\ cl'[c].off = cl[c].off
  BY <1>2 DEF ClFields
<1>4. seqno \in Nat /\ seqno' = seqno
  BY <1>1 DEF EngineInv, IInv, TypeOK, extentVars
<1>5. ClientOK(c)'
  BY <1>3, <1>4 DEF EngineInv, MapOK, ClientOK
<1> QED
  BY <1>1, <1>3, <1>5, MapKept, ClientLocal DEF EngineInv

(* get takes the location of an extent that is in the map, or gives up.     *)
LEMMA GetLocationKeeps ==
  ASSUME EngineInv, NEW c \in Clients, GetLocation(c)
  PROVE  EngineInv'
<1>1. UNCHANGED <<extentVars, keyVars, mg, doubled, restarts>> /\ cl[c].pc = "getloc"
  BY DEF GetLocation, Keep, ghostVars, boundVars
<1> DEFINE e == cl[c].old.eid
<1>2. CASE e \in entries /\ Go(c, [pc |-> "read", loc |-> location[e]])
  <2> DEFINE r == [pc |-> "read", loc |-> location[e]]
  <2>1. \A f \in ClFields : cl'[c][f] = IF f \in DOMAIN r THEN r[f] ELSE cl[c][f]
    BY <1>2, GoFacts DEF EngineInv
  <2>2. cl'[c].pc = "read" /\ cl'[c].loc = location[e] /\ SameArgs(c)
    BY <2>1 DEF ClFields, SameArgs
  <2>3. ClientOK(c)'
    BY <1>1, <2>2 DEF EngineInv, ClientOK, SameArgs, extentVars
  <2>4. Safe(cl'[c].loc, cl'[c].born)
    BY <1>2, <2>2 DEF EngineInv, IInv, IdsHandedOut, Located, Safe, SafeUnit, InMap
  <2> QED
    BY <1>1, <1>2, <2>2, <2>3, <2>4, MapKept, ClientLocal DEF EngineInv
<1>3. CASE Go(c, Idle)
  <2>1. \A f \in ClFields : cl'[c][f] = Idle[f]
    BY <1>3, GoFacts DEF EngineInv, Idle, ClFields
  <2>2. ClientOK(c)' /\ cl'[c].pc = "idle"
    BY <1>1, <2>1, ExtentMapAssumption
    DEF EngineInv, IInv, TypeOK, ClientOK, Idle, ClFields, extentVars
  <2> QED
    BY <1>1, <1>3, <2>2, MapKept, ClientLocal DEF EngineInv
<1> QED
  BY <1>2, <1>3 DEF GetLocation

(* get reads and returns.                                                   *)
LEMMA GetReadKeeps ==
  ASSUME EngineInv, NEW c \in Clients, GetRead(c)
  PROVE  EngineInv'
<1>1. UNCHANGED <<extentVars, keyVars, mg, doubled, restarts>> /\ Go(c, Idle)
  BY DEF GetRead, Keep, ghostVars, boundVars
<1>2. \A f \in ClFields : cl'[c][f] = Idle[f]
  BY <1>1, GoFacts DEF EngineInv, Idle, ClFields
<1>3. ClientOK(c)' /\ cl'[c].pc = "idle"
  BY <1>1, <1>2, ExtentMapAssumption
  DEF EngineInv, IInv, TypeOK, ClientOK, Idle, ClFields, extentVars
<1> QED
  BY <1>1, <1>3, MapKept, ClientLocal DEF EngineInv

-----------------------------------------------------------------------------
(* A location changes hands.                                                *)

(* The allocator gives the units T: one caller gets those of l, if any, and *)
(* the others are lost.                                                     *)
LEMMA AllocateOwners ==
  ASSUME IInv, OneOwner, UNCHANGED doubled, NEW T \in SUBSET Unit, NEW S \in SUBSET T,
         \A u \in T : space[u] > 0,
         space' = [u \in Unit |-> IF u \in T THEN space[u] - 1 ELSE space[u]],
         leaked' = leaked \cup (T \ S),
         UNCHANGED <<entries, erased, location, deferred>>,
         \A u \in Unit \ S : (Reserved(u)' => Reserved(u)) /\ (Carried(u)' => Carried(u)),
         \A u \in S : (Reserved(u)' => Reserved(u)) \/ (Carried(u)' => Carried(u))
  PROVE  OneOwner'
<1> SUFFICES ASSUME NEW u \in Unit \ doubled PROVE Sole(u)'
  BY DEF OneOwner
<1>1. Sole(u)
  BY DEF OneOwner
<1>2. (InMap(u)' <=> InMap(u)) /\ (Waiting(u)' <=> Waiting(u))
  BY DEF InMap, Waiting
<1>3. Leaked(u)' <=> Leaked(u) \/ u \in T \ S
  BY DEF Leaked
<1>4. CASE u \notin T
  <2>1. space'[u] = space[u]
    BY <1>4
  <2> QED
    BY <1>1, <1>2, <1>3, <1>4, <2>1 DEF Sole
<1>5. CASE u \in T
  <2>1. space[u] > 0 /\ space'[u] = space[u] - 1 /\ space[u] \in Nat
    BY <1>5 DEF IInv, TypeOK
  <2>2. /\ space[u] = 1 /\ ~InMap(u) /\ ~Waiting(u) /\ ~Reserved(u) /\ ~Carried(u)
        /\ ~Leaked(u)
    BY <1>1, <2>1 DEF Sole
  <2>3. space'[u] = 0
    BY <2>1, <2>2
  <2> QED
    BY <1>1, <1>2, <1>3, <2>2, <2>3 DEF Sole
<1> QED
  BY <1>4, <1>5

(* allocate_extent and allocate_raw when they get something ...             *)
LEMMA AnswerOwners ==
  ASSUME IInv, OneOwner, NEW t \in Tier, NEW n \in 1..(Slots + 1), NEW a \in Answers(t, n),
         allocate(t, n, a), UNCHANGED doubled,
         \A u \in Unit \ Units(a.first) :
           (Reserved(u)' => Reserved(u)) /\ (Carried(u)' => Carried(u)),
         \A u \in Units(a.first) : (Reserved(u)' => Reserved(u)) \/ (Carried(u)' => Carried(u))
  PROVE  OneOwner'
<1>1. Units(a.first) \subseteq a.taken /\ a.taken \subseteq Free(t)
  BY AnswerFacts
<1>2. a.taken \subseteq Unit /\ \A u \in a.taken : space[u] > 0
  BY <1>1 DEF Free
<1>3. /\ space' = [u \in Unit |-> IF u \in a.taken THEN space[u] - 1 ELSE space[u]]
      /\ leaked' = leaked \cup (a.taken \ Units(a.first))
      /\ UNCHANGED <<entries, erased, location, deferred>>
  BY DEF allocate, entryVars
<1> QED
  BY <1>1, <1>2, <1>3, AllocateOwners

(* ... and when they do not.                                                *)
LEMMA FailOwners ==
  ASSUME IInv, OneOwner, NEW t, NEW n, allocation_fails(t, n), UNCHANGED doubled,
         \A u \in Unit : (Reserved(u)' => Reserved(u)) /\ (Carried(u)' => Carried(u))
  PROVE  OneOwner'
<1>1. Free(t) \subseteq Unit /\ \A u \in Free(t) : space[u] > 0
  BY DEF Free
<1>2. /\ space' = [u \in Unit |-> IF u \in Free(t) THEN space[u] - 1 ELSE space[u]]
      /\ leaked' = leaked \cup (Free(t) \ {})
      /\ UNCHANGED <<entries, erased, location, deferred>>
  BY DEF allocation_fails, entryVars
<1> QED
  BY <1>1, <1>2, AllocateOwners

(* allocate_extent installs its location under the next id.                 *)
LEMMA InstallOwners ==
  ASSUME IInv, OneOwner, NEW l \in Loc, nextId <= MaxExtents, install_entry(nextId, l),
         UNCHANGED doubled, \A u \in Units(l) : Reserved(u) \/ Carried(u),
         \A u \in Unit : (Reserved(u)' => Reserved(u)) /\ (Carried(u)' => Carried(u)),
         \A u \in Units(l) \ doubled : ~Reserved(u)' /\ ~Carried(u)'
  PROVE  OneOwner' /\ \A u \in Unit : InMap(u) => InMap(u)'
<1> DEFINE M == entries \cup erased
<1>1. nextId \in Eid /\ nextId \notin M
  BY ExtentMapAssumption DEF IInv, TypeOK, IdsHandedOut, Created, Eid
<1>2. /\ entries' \cup erased' = M \cup {nextId}
      /\ location'[nextId] = l /\ \A e \in M : location'[e] = location[e]
      /\ UNCHANGED <<deferred, space, leaked>>
  BY <1>1 DEF IInv, TypeOK, install_entry
<1>3. \A u \in Unit : InMap(u)' <=> InMap(u) \/ u \in Units(l)
  BY <1>2 DEF InMap
<1> SUFFICES ASSUME NEW u \in Unit \ doubled PROVE Sole(u)'
  BY <1>3 DEF OneOwner
<1>4. Sole(u)
  BY DEF OneOwner
<1>5. (Waiting(u)' <=> Waiting(u)) /\ (Leaked(u)' <=> Leaked(u))
  BY <1>2 DEF Waiting, Leaked
<1>6. CASE u \notin Units(l)
  <2>1. \A e, f \in (entries \cup erased)' :
          u \in Units(location'[e]) /\ u \in Units(location'[f]) =>
            e \in M /\ f \in M /\ u \in Units(location[e]) /\ u \in Units(location[f])
    BY <1>2, <1>6
  <2>2. \A e, f \in (entries \cup erased)' :
          u \in Units(location'[e]) /\ u \in Units(location'[f]) => e = f
    BY <1>4, <2>1 DEF Sole
  <2> QED
    BY <1>2, <1>3, <1>4, <1>5, <1>6, <2>2 DEF Sole
<1>7. CASE u \in Units(l)
  <2>1. ~InMap(u) /\ ~Waiting(u) /\ ~Leaked(u) /\ space[u] = 0
    BY <1>4, <1>7 DEF Sole
  <2>2. \A e, f \in (entries \cup erased)' :
          u \in Units(location'[e]) /\ u \in Units(location'[f]) => e = f
    BY <1>2, <1>7, <2>1 DEF InMap
  <2> QED
    BY <1>2, <1>4, <1>5, <1>7, <2>1, <2>2 DEF Sole
<1> QED
  BY <1>6, <1>7

(* The list after add_deferred_free.                                        *)
LEMMA DeferredGrows ==
  ASSUME TypeOK, NEW l \in Loc, add_deferred_free(l)
  PROVE  \E n : /\ deferred' = deferred \cup {<<l, seqno, n>>}
                /\ \A u : Waiting(u)' <=> Waiting(u) \/ u \in Units(l)
                /\ \A u : ~Waiting(u) => \A d, y \in deferred' :
                     u \in Units(d[1]) /\ u \in Units(y[1]) => d = y
                /\ \A u : u \notin Units(l) => \A d \in deferred' :
                     u \in Units(d[1]) => d \in deferred
<1> DEFINE n == Cardinality({d \in deferred : d[1] = l /\ d[2] = seqno})
<1>1. deferred' = deferred \cup {<<l, seqno, n>>}
  BY DEF add_deferred_free
<1> HIDE DEF n
<1> DEFINE new == <<l, seqno, n>>
<1>2. new[1] = l /\ deferred' = deferred \cup {new}
  BY <1>1
<1> HIDE DEF new
<1>3. \A u : Waiting(u)' <=> Waiting(u) \/ u \in Units(l)
  BY <1>2 DEF Waiting
<1>4. \A u : ~Waiting(u) => \A d, y \in deferred' :
        u \in Units(d[1]) /\ u \in Units(y[1]) => d = y
  BY <1>2 DEF Waiting
<1>5. \A u : u \notin Units(l) => \A d \in deferred' : u \in Units(d[1]) => d \in deferred
  BY <1>2
<1> QED
  BY <1>1, <1>3, <1>4, <1>5

(* A location that an extent on its way out, or a migration, gives up goes  *)
(* to the deferred-free list.                                               *)
LEMMA DeferOwners ==
  ASSUME TypeOK, OneOwner, NEW l \in Loc, add_deferred_free(l), UNCHANGED <<space, leaked>>,
         doubled \subseteq doubled',
         \A u \in Units(l) \ doubled' :
           (InMap(u) \/ Carried(u)) /\ ~InMap(u)' /\ ~Reserved(u)' /\ ~Carried(u)',
         \A u \in Unit \ (doubled' \cup Units(l)) :
           /\ Reserved(u)' => Reserved(u)
           /\ InMap(u)' => InMap(u) \/ Carried(u)
           /\ InMap(u)' /\ ~InMap(u) => ~Carried(u)'
           /\ Carried(u)' => Carried(u)
           /\ \A e, f \in (entries \cup erased)' :
                u \in Units(location'[e]) /\ u \in Units(location'[f]) => e = f
  PROVE  OneOwner'
<1> SUFFICES ASSUME NEW u \in Unit \ doubled' PROVE Sole(u)'
  BY DEF OneOwner
<1>1. Sole(u)
  BY DEF OneOwner
<1>2. PICK n : /\ deferred' = deferred \cup {<<l, seqno, n>>}
               /\ \A x : Waiting(x)' <=> Waiting(x) \/ x \in Units(l)
               /\ \A x : ~Waiting(x) => \A d, y \in deferred' :
                    x \in Units(d[1]) /\ x \in Units(y[1]) => d = y
               /\ \A x : x \notin Units(l) => \A d \in deferred' :
                    x \in Units(d[1]) => d \in deferred
  BY DeferredGrows
<1>3. Leaked(u)' <=> Leaked(u)
  BY DEF Leaked
<1>4. CASE u \in Units(l)
  <2>1. ~Waiting(u) /\ ~Leaked(u) /\ space[u] = 0
    BY <1>1, <1>4 DEF Sole
  <2>2. \A e, f \in (entries \cup erased)' :
          u \in Units(location'[e]) /\ u \in Units(location'[f]) => e = f
    BY <1>4 DEF InMap
  <2>3. \A d, y \in deferred' : u \in Units(d[1]) /\ u \in Units(y[1]) => d = y
    BY <1>2, <2>1
  <2> QED
    BY <1>3, <1>4, <2>1, <2>2, <2>3 DEF Sole
<1>5. CASE u \notin Units(l)
  <2>1. Waiting(u)' <=> Waiting(u)
    BY <1>2, <1>5
  <2>2. \A d, y \in deferred' : u \in Units(d[1]) /\ u \in Units(y[1]) => d = y
    BY <1>1, <1>2, <1>5 DEF Sole
  <2> QED
    BY <1>1, <1>3, <1>5, <2>1, <2>2 DEF Sole
<1> QED
  BY <1>4, <1>5

(* A get() whose location is deferred started no later than now.            *)
LEMMA SafeAfterDefer ==
  ASSUME TypeOK, NEW l \in Loc, add_deferred_free(l), doubled \subseteq doubled',
         NEW u \in Unit, NEW born \in Nat, born <= seqno, SafeUnit(u, born),
         InMap(u) => InMap(u)' \/ u \in Units(l)
  PROVE  SafeUnit(u, born)'
<1>1. PICK n : deferred' = deferred \cup {<<l, seqno, n>>}
  BY DeferredGrows
<1>2. seqno \in Nat
  BY DEF TypeOK
<1>3. CASE InMap(u) /\ u \in Units(l)
  <2> DEFINE d == <<l, seqno, n>>
  <2>1. d \in deferred' /\ u \in Units(d[1]) /\ d[2] >= born
    BY <1>1, <1>2, <1>3
  <2> HIDE DEF d
  <2> QED
    BY <2>1 DEF SafeUnit
<1>4. CASE ~(InMap(u) /\ u \in Units(l))
  BY <1>1, <1>4 DEF SafeUnit
<1> QED
  BY <1>3, <1>4

(* The gets that are about to read keep what they read.                     *)
LEMMA ReadersKept ==
  ASSUME ReadersSafe, \A c \in Clients : ClientOK(c),
         \A c \in Clients : cl'[c].pc = "read" => cl[c].pc = "read" /\ cl'[c] = cl[c],
         \A u \in Unit, born \in Nat : born <= seqno /\ SafeUnit(u, born) => SafeUnit(u, born)'
  PROVE  ReadersSafe'
<1> SUFFICES ASSUME NEW c \in Clients, cl'[c].pc = "read" PROVE Safe(cl[c].loc, cl[c].born)'
  BY DEF ReadersSafe
<1> DEFINE l == cl[c].loc
           b == cl[c].born
<1>1. l \in Loc /\ (\A u \in Units(l) : SafeUnit(u, b)) /\ cl'[c] = cl[c] /\ Units(l) \subseteq Unit
  BY LocFacts DEF ReadersSafe, Safe
<1>2. b \in Nat /\ b <= seqno
  BY DEF ClientOK
<1>3. PICK x \in Loc, y \in Nat : x = l /\ y = b
  BY <1>1, <1>2
<1>4. \A u \in Units(x) : SafeUnit(u, y)'
  BY <1>1, <1>2, <1>3
<1>5. Safe(x, y)'
  BY <1>4 DEF Safe
<1> QED
  BY <1>1, <1>3, <1>5

(* process_deferred_free: what it releases had no other owner.              *)
LEMMA ReleaseOwners ==
  ASSUME IInv, OneOwner, process_deferred_free, UNCHANGED doubled,
         \A u \in Unit : (Reserved(u)' => Reserved(u)) /\ (Carried(u)' => Carried(u))
  PROVE  OneOwner'
<1> SUFFICES ASSUME NEW u \in Unit \ doubled PROVE Sole(u)'
  BY DEF OneOwner
<1>1. Sole(u)
  BY DEF OneOwner
<1>2. /\ UNCHANGED <<entries, erased, location, leaked>>
      /\ space'[u] = space[u] + Cardinality(AgedAt(u))
      /\ deferred' = {d \in deferred : ~Aged(d)}
  BY DEF process_deferred_free, entryVars
<1>3. (InMap(u)' <=> InMap(u)) /\ (Leaked(u)' <=> Leaked(u))
  BY <1>2 DEF InMap, Leaked
<1>4. Waiting(u)' => Waiting(u)
  BY <1>2 DEF Waiting
<1>5. CASE AgedAt(u) = {}
  BY <1>1, <1>2, <1>3, <1>4, <1>5, FS_EmptySet DEF Sole, IInv, TypeOK
<1>6. CASE AgedAt(u) # {}
  <2>1. PICK d \in deferred : u \in Units(d[1]) /\ Aged(d)
    BY <1>6 DEF AgedAt
  <2>2. \A y \in deferred : u \in Units(y[1]) => y = d
    BY <1>1, <2>1 DEF Sole
  <2>3. AgedAt(u) = {d}
    BY <2>1, <2>2 DEF AgedAt
  <2>4. Waiting(u) /\ space[u] = 0
    BY <1>1, <2>1 DEF Sole, Waiting
  <2>5. Cardinality(AgedAt(u)) = 1
    BY <2>3, FS_Singleton
  <2>6. space'[u] = 1
    BY <1>2, <2>4, <2>5
  <2>7. ~Waiting(u)'
    BY <1>2, <2>1, <2>2 DEF Waiting
  <2> QED
    BY <1>1, <1>2, <1>3, <2>4, <2>6, <2>7 DEF Sole
<1> QED
  BY <1>5, <1>6

-----------------------------------------------------------------------------
(* Steps of put and del that move a location.                               *)

(* What is left to show of a call of the allocator by client c.             *)
LEMMA ClientAllocates ==
  ASSUME EngineInv, NEW c \in Clients, NEW r, Go(c, r),
         UNCHANGED <<entries, erased, location, deferred, nextId, seqno, handle>>,
         UNCHANGED <<keyVars, mg, doubled, restarts>>,
         IInv', OneOwner', ClientOK(c)', cl'[c].pc # "read"
  PROVE  EngineInv'
<1>1. /\ \A d \in Clients \ {c} : cl'[d] = cl[d]
      /\ cl' = [d \in Clients |-> cl'[d]]
      /\ \A d \in Clients : DOMAIN cl'[d] = ClFields
  BY GoFacts DEF EngineInv
<1>2. Shape'
  BY <1>1 DEF EngineInv, Shape
<1>3. \A d \in Clients \ {c} : ClientOK(d)'
  BY <1>1 DEF EngineInv, ClientOK
<1>4. WorkerOK'
  BY DEF EngineInv, WorkerOK
<1>5. ReadersSafe'
  <2>1. \A d \in Clients : cl'[d].pc = "read" => d # c /\ cl'[d] = cl[d]
    BY <1>1
  <2> QED
    BY <2>1, SafeKept DEF EngineInv, ReadersSafe
<1> QED
  BY <1>2, <1>3, <1>4, <1>5, MapKept DEF EngineInv

(* put asks for one header and at least one slot.                           *)
LEMMA RequestFacts == \A c \in Clients : RequestedUnits(c) \in 1..(Slots + 1)
<1>1. Slots \in Nat /\ SmallSlots \in 1..Slots /\ Large \in 1..Slots
  BY BtierAssumption, ExtentMapAssumption
<1> QED
  BY <1>1 DEF RequestedUnits

(* allocate_extent takes the space and reads the next id, or loses what it  *)
(* got and goes on to SLOW, or fails.                                       *)
LEMMA PutAllocKeeps ==
  ASSUME EngineInv, NEW c \in Clients, PutAlloc(c)
  PROVE  EngineInv'
<1>1. /\ UNCHANGED <<keyVars, mg, doubled, restarts>>
      /\ cl[c].pc \in {"alloc", "alloc_slow"} /\ nextId <= MaxExtents
  BY DEF PutAlloc, Keep, ghostVars, boundVars
<1>2. PICK t \in Tier, n \in 1..(Slots + 1) :
        \/ allocation_fails(t, n) /\ \E p \in {"alloc_slow", "fail"} : Go(c, [pc |-> p])
        \/ \E a \in Answers(t, n) :
             allocate(t, n, a) /\ Go(c, [pc |-> "install", eid |-> nextId, loc |-> a.first])
  BY RequestFacts DEF PutAlloc, Tier
<1>3. UNCHANGED <<entries, erased, location, deferred, nextId, seqno, handle>>
  BY <1>2 DEF allocate, allocation_fails, entryVars
<1>4. IInv'
  BY <1>2, AllocatePreserves DEF EngineInv
<1>5. \A u \in Unit : Carried(u)' => Carried(u)
  BY <1>1 DEF Carried
<1>6. ASSUME NEW p \in {"alloc_slow", "fail"}, Go(c, [pc |-> p]), allocation_fails(t, n)
      PROVE  EngineInv'
  <2>1. /\ \A f \in ClFields : cl'[c][f] = IF f \in DOMAIN [pc |-> p] THEN p ELSE cl[c][f]
        /\ \A d \in Clients \ {c} : cl'[d] = cl[d]
    BY <1>6, GoFacts DEF EngineInv
  <2>2. cl'[c].pc = p /\ SameArgs(c)
    BY <2>1 DEF ClFields, SameArgs
  <2>3. ClientOK(c)'
    BY <1>1, <1>3, <2>2 DEF EngineInv, ClientOK, SameArgs
  <2>4. \A u \in Unit : Reserved(u)' => Reserved(u)
    BY <2>1, <2>2 DEF Reserved
  <2>5. OneOwner'
    BY <1>1, <1>5, <1>6, <2>4, FailOwners DEF EngineInv
  <2> QED
    BY <1>1, <1>3, <1>4, <1>6, <2>2, <2>3, <2>5, ClientAllocates
<1>7. ASSUME NEW a \in Answers(t, n), allocate(t, n, a),
             Go(c, [pc |-> "install", eid |-> nextId, loc |-> a.first])
      PROVE  EngineInv'
  <2> DEFINE r == [pc |-> "install", eid |-> nextId, loc |-> a.first]
  <2>1. /\ \A f \in ClFields : cl'[c][f] = IF f \in DOMAIN r THEN r[f] ELSE cl[c][f]
        /\ \A d \in Clients \ {c} : cl'[d] = cl[d]
    BY <1>7, GoFacts DEF EngineInv
  <2>2. cl'[c].pc = "install" /\ cl'[c].eid = nextId /\ cl'[c].loc = a.first /\ SameArgs(c)
    BY <2>1 DEF ClFields, SameArgs
  <2>3. ClientOK(c)'
    BY <1>1, <1>3, <2>2, AnswerFacts DEF EngineInv, ClientOK, SameArgs
  <2>4. \A u \in Unit \ Units(a.first) : Reserved(u)' => Reserved(u)
    BY <2>1, <2>2 DEF Reserved
  <2>5. Units(a.first) \subseteq Unit
    BY AnswerFacts, LocFacts
  <2>6. OneOwner'
    BY <1>1, <1>5, <1>7, <2>4, <2>5, AnswerOwners DEF EngineInv
  <2> QED
    BY <1>1, <1>3, <1>4, <1>7, <2>2, <2>3, <2>6, ClientAllocates
<1> QED
  BY <1>2, <1>6, <1>7

(* allocate_extent stores the entry and the incremented id.                 *)
LEMMA PutInstallKeeps ==
  ASSUME EngineInv, OneAllocation, NEW c \in Clients, PutInstall(c)
  PROVE  EngineInv'
<1> DEFINE l == cl[c].loc
<1>1. /\ UNCHANGED <<keyVars, mg, doubled, restarts>>
      /\ cl[c].pc = "install" /\ Go(c, [pc |-> "prelog", fresh |-> TRUE])
  BY DEF PutInstall, Keep, ghostVars, boundVars
<1>2. l \in Loc /\ nextId <= MaxExtents /\ install_entry(nextId, l)
  BY <1>1 DEF EngineInv, ClientOK, PutInstall
<1> DEFINE r == [pc |-> "prelog", fresh |-> TRUE]
<1>3. /\ \A f \in ClFields : cl'[c][f] = IF f \in DOMAIN r THEN r[f] ELSE cl[c][f]
      /\ \A d \in Clients \ {c} : cl'[d] = cl[d]
      /\ cl' = [d \in Clients |-> cl'[d]]
      /\ \A d \in Clients : DOMAIN cl'[d] = ClFields
  BY <1>1, GoFacts DEF EngineInv
<1>4. cl'[c].pc = "prelog" /\ SameArgs(c)
  BY <1>3 DEF ClFields, SameArgs
<1>5. UNCHANGED <<erased, deferred, seqno, space, leaked, handle>> /\ entries' = entries \cup {nextId}
  BY <1>2 DEF install_entry
<1>6. IInv'
  BY <1>2, InstallPreserves DEF EngineInv
<1>7. Shape'
  BY <1>1, <1>3 DEF EngineInv, Shape
<1>8. \A d \in Clients \ {c} : cl[d].pc # "install"
  BY <1>1 DEF OneAllocation
<1>9. \A d \in Clients : ClientOK(d)'
  <2>1. ClientOK(c)'
    BY <1>1, <1>4, <1>5 DEF EngineInv, ClientOK, SameArgs
  <2>2. \A d \in Clients \ {c} : ClientOK(d)'
    BY <1>3, <1>5, <1>8 DEF EngineInv, ClientOK
  <2> QED
    BY <2>1, <2>2
<1>10. WorkerOK'
  BY <1>1, <1>5 DEF EngineInv, WorkerOK, OneAllocation
<1>11. entries' \cap erased' = {}
  <2>1. nextId \notin erased
    BY ExtentMapAssumption DEF EngineInv, IInv, TypeOK, IdsHandedOut, Created
  <2> QED
    BY <1>5, <2>1 DEF EngineInv
<1>12. OneOwner' /\ \A u \in Unit : InMap(u) => InMap(u)'
  <2>1. Units(l) \subseteq Unit /\ \A u \in Units(l) : Reserved(u)
    BY <1>1, <1>2, LocFacts DEF Reserved
  <2>2. \A u \in Unit : Carried(u)' <=> Carried(u)
    BY <1>1 DEF Carried
  <2>3. \A u \in Unit : ~Reserved(u)'
    BY <1>3, <1>4, <1>8 DEF Reserved
  <2>4. \A u \in Units(l) \ doubled : ~Carried(u)
    BY <2>1 DEF EngineInv, OneOwner, Sole
  <2> QED
    BY <1>1, <1>2, <2>1, <2>2, <2>3, <2>4, InstallOwners DEF EngineInv
<1>13. ReadersSafe'
  <2>1. \A d \in Clients : cl'[d].pc = "read" => cl[d].pc = "read" /\ cl'[d] = cl[d]
    BY <1>3, <1>4
  <2>2. \A u \in Unit, born \in Nat : SafeUnit(u, born) => SafeUnit(u, born)'
    BY <1>1, <1>5, <1>12 DEF SafeUnit
  <2> QED
    BY <2>1, <2>2, ReadersKept DEF EngineInv
<1> QED
  BY <1>1, <1>6, <1>7, <1>9, <1>10, <1>11, <1>12, <1>13, MapKept DEF EngineInv

(* The extent that free() erased hands its location to the list; nobody     *)
(* else has that extent or its location.                                    *)
LEMMA FreeDeferOwners ==
  ASSUME EngineInv, NEW e, free_defer(e), UNCHANGED doubled,
         \A u \in Unit : (Reserved(u)' => Reserved(u)) /\ (Carried(u)' => Carried(u))
  PROVE  /\ OneOwner'
         /\ \A u \in Unit, born \in Nat : born <= seqno /\ SafeUnit(u, born) => SafeUnit(u, born)'
         /\ IInv' /\ entries' \cap erased' = {}
         /\ UNCHANGED <<nextId, seqno, handle>>
<1> DEFINE l == location[e]
<1>1. e \in erased /\ e \in Created /\ l \in Loc /\ add_deferred_free(l)
  BY DEF free_defer, EngineInv, IInv, IdsHandedOut, Located
<1>2. /\ UNCHANGED <<entries, location, space, leaked, nextId, seqno, handle>>
      /\ erased' = erased \ {e}
  BY DEF free_defer, entryVars
<1>3. IInv'
  BY <1>1, FreeDeferPreserves DEF EngineInv
<1>4. (entries \cup erased)' = (entries \cup erased) \ {e} /\ entries' \cap erased' = {}
  BY <1>1, <1>2 DEF EngineInv
<1>5. \A u : InMap(u) => InMap(u)' \/ u \in Units(l)
  BY <1>2, <1>4 DEF InMap
<1>6. OneOwner'
  <2>1. Units(l) \subseteq Unit /\ \A u \in Units(l) : InMap(u)
    BY <1>1, LocFacts DEF InMap
  <2>2. \A u \in Unit \ doubled : Sole(u)
    BY DEF EngineInv, OneOwner
  <2>3. \A u \in Units(l) \ doubled : ~InMap(u)' /\ ~Reserved(u) /\ ~Carried(u)
    BY <1>1, <1>2, <1>4, <2>1, <2>2 DEF Sole, InMap
  <2>4. \A u \in Unit \ doubled : \A a, b \in (entries \cup erased)' :
          u \in Units(location'[a]) /\ u \in Units(location'[b]) => a = b
    BY <1>2, <1>4, <2>2 DEF Sole
  <2>5. \A u : InMap(u)' => InMap(u)
    BY <1>2, <1>4 DEF InMap
  <2> QED
    BY <1>1, <1>2, <2>1, <2>3, <2>4, <2>5, DeferOwners DEF EngineInv, IInv
<1>7. \A u \in Unit, born \in Nat : born <= seqno /\ SafeUnit(u, born) => SafeUnit(u, born)'
  BY <1>1, <1>5, SafeAfterDefer DEF EngineInv, IInv
<1> QED
  BY <1>2, <1>3, <1>4, <1>6, <1>7

(* free: the location of the erased extent is deferred.                     *)
LEMMA ClientFreeDeferKeeps ==
  ASSUME EngineInv, NEW c \in Clients, ClientFreeDefer(c)
  PROVE  EngineInv'
<1>1. /\ UNCHANGED <<keyVars, mg, doubled, restarts>> /\ free_defer(cl[c].eid)
      /\ cl[c].pc = "defer" /\ Go(c, [pc |-> cl[c].then, fresh |-> FALSE])
  BY DEF ClientFreeDefer, Keep, ghostVars, boundVars
<1> DEFINE r == [pc |-> cl[c].then, fresh |-> FALSE]
<1>2. /\ \A f \in ClFields : cl'[c][f] = IF f \in DOMAIN r THEN r[f] ELSE cl[c][f]
      /\ \A d \in Clients \ {c} : cl'[d] = cl[d]
      /\ cl' = [d \in Clients |-> cl'[d]]
      /\ \A d \in Clients : DOMAIN cl'[d] = ClFields
  BY <1>1, GoFacts DEF EngineInv
<1>3. cl'[c].pc \in {"fail", "alloc", "return"} /\ SameArgs(c)
  BY <1>1, <1>2 DEF ClFields, SameArgs, EngineInv, ClientOK
<1>4. \A u \in Unit : (Reserved(u)' => Reserved(u)) /\ (Carried(u)' => Carried(u))
  BY <1>1, <1>2, <1>3 DEF Reserved, Carried
<1>5. /\ OneOwner'
      /\ \A u \in Unit, born \in Nat : born <= seqno /\ SafeUnit(u, born) => SafeUnit(u, born)'
      /\ IInv' /\ entries' \cap erased' = {}
      /\ UNCHANGED <<nextId, seqno, handle>>
  BY <1>1, <1>4, FreeDeferOwners
<1>6. Shape'
  BY <1>1, <1>2 DEF EngineInv, Shape
<1>7. \A d \in Clients : ClientOK(d)'
  <2>1. ClientOK(c)'
    BY <1>1, <1>3, <1>5 DEF EngineInv, ClientOK, SameArgs
  <2>2. \A d \in Clients \ {c} : ClientOK(d)'
    BY <1>2, <1>5 DEF EngineInv, ClientOK
  <2> QED
    BY <2>1, <2>2
<1>8. WorkerOK'
  BY <1>1, <1>5 DEF EngineInv, WorkerOK
<1>9. ReadersSafe'
  <2>1. \A d \in Clients : cl'[d].pc = "read" => cl[d].pc = "read" /\ cl'[d] = cl[d]
    BY <1>2, <1>3
  <2> QED
    BY <1>5, <2>1, ReadersKept DEF EngineInv
<1> QED
  BY <1>1, <1>5, <1>6, <1>7, <1>8, <1>9, MapKept DEF EngineInv

-----------------------------------------------------------------------------
(* Steps of the worker that give nobody a location.                         *)

(* The worker is the only mover.                                            *)
LEMMA WorkerMoves == Worker \in Movers
  BY BtierAssumption

(* Done drops the locals of the task.                                       *)
LEMMA DoneFacts ==
  ASSUME Done
  PROVE  /\ DOMAIN mg' = MgFields /\ mg'.pc = "next" /\ mg'.queue = mg.queue
         /\ mg'.keys = {} /\ mg'.updates = <<>>
  BY DEF Done, WorkerIdle, MgFields

(* WorkerOK for the states between two tasks.                               *)
LEMMA WorkerFree ==
  ASSUME mg'.queue \in Seq(Task), mg'.keys \subseteq Keys, mg'.updates = <<>>,
         mg'.pc \in {"idle", "plan", "next"}
  PROVE  WorkerOK' /\ \A u \in Unit : ~Carried(u)'
  BY DEF WorkerOK, Carried, CopyingPcs, LatePcs, CarryPcs, HoldPcs

(* The cycle's tasks are chosen.                                            *)
LEMMA CyclePlanKeeps ==
  ASSUME EngineInv, CyclePlan
  PROVE  EngineInv'
<1>1. UNCHANGED <<extentVars, keyVars, cl, doubled, restarts>> /\ mg.pc = "plan"
  BY DEF CyclePlan, ghostVars
<1>2. PICK t \in AtMost(MaxMigrations, TierTasks), x \in AtMost(MaxCompactions, CompactTasks) :
        GoWorker([pc |-> "next", queue |-> t \o x])
  BY DEF CyclePlan
<1>3. t \o x \in Seq(Task)
  <2>1. TierTasks \subseteq Task /\ CompactTasks \subseteq Task
    BY DEF TierTasks, CompactTasks, Task, Tier, EngineInv, IInv, TypeOK
  <2>2. \A n, S : S \subseteq Task => AtMost(n, S) \subseteq Seq(Task)
    <3> SUFFICES ASSUME NEW n, NEW S, S \subseteq Task, NEW q \in AtMost(n, S)
                 PROVE  q \in Seq(Task)
      OBVIOUS
    <3>1. q = <<>> \/ \E y \in S : q = <<y>>
      BY DEF AtMost
    <3>2. ASSUME NEW y \in Task PROVE <<y>> \in Seq(Task)
      BY <3>2
    <3>3. <<>> \in Seq(Task)
      OBVIOUS
    <3> QED
      BY <3>1, <3>2, <3>3, Zenon
  <2>3. t \in Seq(Task) /\ x \in Seq(Task)
    BY <2>1, <2>2
  <2> QED
    BY <2>3
<1>4. /\ mg'.pc = "next" /\ mg'.queue = t \o x /\ mg'.keys = mg.keys
      /\ mg'.updates = mg.updates /\ DOMAIN mg' = MgFields
  BY <1>2, GoWorkerFacts DEF EngineInv, MgFields
<1>5. WorkerOK' /\ \A u \in Unit : ~Carried(u)'
  BY <1>1, <1>3, <1>4, WorkerFree DEF EngineInv, WorkerOK, CopyingPcs, LatePcs
<1>6. /\ UNCHANGED <<location, deferred, space, leaked, nextId, seqno>>
      /\ entries' \cup erased' = entries \cup erased /\ entries' \cap erased' = {}
  BY <1>1 DEF extentVars, entryVars, EngineInv
<1> QED
  BY <1>1, <1>4, <1>5, <1>6, MapKept, WorkerKeeps DEF EngineInv

(* A task is popped: its extent is claimed, or it is given up.              *)
LEMMA NextTaskKeeps ==
  ASSUME EngineInv, NextTask
  PROVE  EngineInv'
<1>1. UNCHANGED <<keyVars, cl, doubled, restarts>> /\ mg.pc = "next"
  BY DEF NextTask, Keep, ghostVars, boundVars
<1>2. mg.updates = <<>> /\ mg.keys \subseteq Keys /\ mg.queue \in Seq(Task)
  BY <1>1 DEF EngineInv, WorkerOK, CopyingPcs, LatePcs
<1>3. CASE mg' = WorkerIdle /\ UNCHANGED extentVars
  <2>1. /\ DOMAIN mg' = MgFields /\ mg'.pc = "idle" /\ mg'.queue = <<>>
        /\ mg'.keys = {} /\ mg'.updates = <<>>
    BY <1>3 DEF WorkerIdle, MgFields
  <2>2. WorkerOK' /\ \A u \in Unit : ~Carried(u)'
    BY <2>1, WorkerFree
  <2>3. /\ UNCHANGED <<location, deferred, space, leaked, nextId, seqno>>
        /\ entries' \cup erased' = entries \cup erased /\ entries' \cap erased' = {}
    BY <1>3 DEF extentVars, entryVars, EngineInv
  <2> QED
    BY <1>1, <1>3, <2>1, <2>2, <2>3, MapKept, WorkerKeeps DEF EngineInv
<1> DEFINE rest == Tail(mg.queue)
<1>7. mg.queue # <<>> => rest \in Seq(Task)
  BY <1>2
<1> HIDE DEF rest
<1>4. CASE mg.queue # <<>> /\ UNCHANGED extentVars /\ GoWorker([queue |-> rest])
  <2>1. /\ mg'.pc = mg.pc /\ mg'.queue = rest /\ mg'.keys = mg.keys /\ mg'.updates = mg.updates
        /\ DOMAIN mg' = MgFields
    BY <1>4, GoWorkerFacts DEF EngineInv, MgFields
  <2>2. WorkerOK' /\ \A u \in Unit : ~Carried(u)'
    BY <1>1, <1>2, <1>7, <1>4, <2>1, WorkerFree
  <2>3. /\ UNCHANGED <<location, deferred, space, leaked, nextId, seqno>>
        /\ entries' \cup erased' = entries \cup erased /\ entries' \cap erased' = {}
    BY <1>4 DEF extentVars, entryVars, EngineInv
  <2> QED
    BY <1>1, <1>4, <2>1, <2>2, <2>3, MapKept, WorkerKeeps DEF EngineInv
<1>5. ASSUME mg.queue # <<>>, NEW e \in entries, begin_migration(Worker, e),
             NEW p \in {"tread", "ckeys"}, NEW to, p = "tread" => to \in Tier,
             GoWorker([pc |-> p, to |-> to, queue |-> rest])
      PROVE  EngineInv'
  <2>1. /\ mg'.pc = p /\ mg'.to = to /\ mg'.queue = rest /\ mg'.keys = mg.keys
        /\ mg'.updates = mg.updates /\ DOMAIN mg' = MgFields
    BY <1>5, GoWorkerFacts DEF EngineInv, MgFields
  <2>2. e \in Created /\ LockedBody
    BY <1>5, WorkerMoves DEF EngineInv, IInv, IdsHandedOut, LockedBody
  <2>3. handle'[Worker] # None
    <3> DEFINE claim == [eid |-> e, gen |-> gen[e], src |-> location[e],
                         used |-> used[e], live |-> live[e]]
    <3>1. e \in Eid /\ location[e] \in Loc
      BY <2>2, CreatedInEid DEF EngineInv, IInv, Located
    <3>2. claim \in Handle
      BY <3>1 DEF EngineInv, IInv, TypeOK, Handle
    <3>3. handle' = [handle EXCEPT ![Worker] = claim] /\ handle \in [Movers -> Handle \cup {None}]
      BY <1>5 DEF begin_migration, EngineInv, IInv, TypeOK
    <3> HIDE DEF claim
    <3> QED
      BY <3>2, <3>3, WorkerMoves, NoneAssumption
  <2>4. WorkerOK' /\ \A u \in Unit : ~Carried(u)'
    BY <1>2, <1>7, <1>5, <2>1, <2>3 DEF WorkerOK, Carried, CopyingPcs, LatePcs, CarryPcs, HoldPcs
  <2>5. /\ UNCHANGED <<location, deferred, space, leaked, nextId, seqno>>
        /\ entries' \cup erased' = entries \cup erased /\ entries' \cap erased' = {}
    BY <1>5 DEF begin_migration, EngineInv
  <2> QED
    BY <1>1, <2>1, <2>2, <2>4, <2>5, MapKept, WorkerKeeps DEF EngineInv
<1>6. ASSUME mg.queue # <<>>, Head(mg.queue).eid \in entries,
             begin_migration(Worker, Head(mg.queue).eid),
             GoWorker([pc |-> IF Head(mg.queue).type = "TIER" THEN "tread" ELSE "ckeys",
                       to |-> Head(mg.queue).to, queue |-> rest])
      PROVE  EngineInv'
  <2>1. Head(mg.queue) \in Task
    BY <1>2, <1>6
  <2>2. Head(mg.queue).type = "TIER" => Head(mg.queue).to \in Tier
    BY <2>1 DEF Task
  <2> QED
    BY <1>5, <1>6, <2>2
<1> QED
  BY <1>3, <1>4, <1>6 DEF NextTask, rest

(* abort_migration without a destination, and back to the queue.            *)
LEMMA AbortKeeps ==
  ASSUME EngineInv, abort_migration(Worker, {}), DOMAIN mg' = MgFields,
         mg'.pc \in {"next", "cundo"}, mg'.queue = mg.queue, mg'.keys \subseteq Keys,
         mg'.pc = "next" => mg'.updates = <<>>,
         UNCHANGED <<keyVars, cl, doubled, restarts>>
  PROVE  EngineInv'
<1>1. LockedBody
  BY WorkerMoves DEF LockedBody
<1>2. WorkerOK' /\ \A u \in Unit : ~Carried(u)'
  BY DEF EngineInv, WorkerOK, Carried, CopyingPcs, LatePcs, CarryPcs, HoldPcs
<1>3. /\ UNCHANGED <<location, deferred, space, leaked, nextId, seqno>>
      /\ entries' \cup erased' = entries \cup erased /\ entries' \cap erased' = {}
  BY DEF abort_migration, EngineInv
<1> QED
  BY <1>1, <1>2, <1>3, MapKept, WorkerKeeps DEF EngineInv

(* migrate_tier reads its source.                                           *)
LEMMA TierReadKeeps ==
  ASSUME EngineInv, TierRead
  PROVE  EngineInv'
<1>1. UNCHANGED <<keyVars, cl, doubled, restarts>> /\ mg.pc = "tread"
  BY DEF TierRead, KeepButIo, ghostVars
<1>2. CASE abort_migration(Worker, {}) /\ Done
  BY <1>1, <1>2, DoneFacts, AbortKeeps
<1>3. CASE UNCHANGED extentVars /\ \E x : GoWorker([pc |-> "talloc", copy |-> x])
  <2>1. /\ mg'.pc = "talloc" /\ mg'.to = mg.to /\ mg'.queue = mg.queue
        /\ mg'.keys = mg.keys /\ mg'.updates = mg.updates
        /\ DOMAIN mg' = MgFields
    BY <1>3, GoWorkerFacts DEF EngineInv, MgFields
  <2>2. WorkerOK' /\ \A u \in Unit : ~Carried(u)'
    BY <1>1, <1>3, <2>1
    DEF EngineInv, WorkerOK, Carried, CopyingPcs, LatePcs, CarryPcs, HoldPcs, extentVars
  <2>3. /\ UNCHANGED <<location, deferred, space, leaked, nextId, seqno>>
        /\ entries' \cup erased' = entries \cup erased /\ entries' \cap erased' = {}
    BY <1>3 DEF extentVars, entryVars, EngineInv
  <2> QED
    BY <1>1, <1>3, <2>1, <2>2, <2>3, MapKept, WorkerKeeps DEF EngineInv
<1> QED
  BY <1>2, <1>3 DEF TierRead

(* compact lists the keys of its extent.                                    *)
LEMMA CompactKeysKeeps ==
  ASSUME EngineInv, CompactKeys
  PROVE  EngineInv'
<1>1. UNCHANGED <<extentVars, keyVars, cl, doubled, restarts>> /\ mg.pc = "ckeys"
  BY DEF CompactKeys, Keep, ghostVars, boundVars
<1>2. keys_in_extent(h.eid) \subseteq Keys
  <2>1. h.eid \in Extents
    BY <1>1, WorkerMoves, BtierAssumption
    DEF EngineInv, WorkerOK, HoldPcs, IInv, TypeOK, Handle, h, Eid
  <2> QED
    BY <2>1 DEF EngineInv, MapOK, KeyMapInv, KeyMapTypeOK, keys_in_extent
<1>3. PICK r : GoWorker(r) /\ \/ r = [pc |-> "cfree"]
                              \/ r = [pc |-> "calloc", keys |-> keys_in_extent(h.eid)]
  BY DEF CompactKeys
<1>4. /\ mg'.pc \in {"cfree", "calloc"} /\ mg'.keys \in {mg.keys, keys_in_extent(h.eid)}
      /\ mg'.queue = mg.queue /\ mg'.updates = mg.updates /\ DOMAIN mg' = MgFields
  BY <1>3, GoWorkerFacts DEF EngineInv, MgFields
<1>5. WorkerOK' /\ \A u \in Unit : ~Carried(u)'
  BY <1>1, <1>2, <1>4
  DEF EngineInv, WorkerOK, Carried, CopyingPcs, LatePcs, CarryPcs, HoldPcs, extentVars
<1>6. /\ UNCHANGED <<location, deferred, space, leaked, nextId, seqno>>
      /\ entries' \cup erased' = entries \cup erased /\ entries' \cap erased' = {}
  BY <1>1 DEF extentVars, entryVars, EngineInv
<1> QED
  BY <1>1, <1>4, <1>5, <1>6, MapKept, WorkerKeeps DEF EngineInv

(* One key is copied, or the compaction is given up.                        *)
LEMMA CompactCopyKeeps ==
  ASSUME EngineInv, CompactCopy
  PROVE  EngineInv'
<1>1. UNCHANGED <<keyVars, cl, doubled, restarts>> /\ mg.pc = "ccopy" /\ mg.keys # {}
  BY DEF CompactCopy
<1> DEFINE k == CHOOSE x \in mg.keys : TRUE
           old == LookupOrZero(k)
           new == [eid |-> mg.new, off |-> used[mg.new], len |-> old.len]
           ups == [x \in DOMAIN mg.updates \cup {k} |-> IF x = k THEN new ELSE mg.updates[x]]
<1>2. k \in mg.keys /\ k \in Keys
  BY <1>1 DEF EngineInv, WorkerOK
<1>3. old.len \in 0..Slots
  <2>1. kmap[k] = Absent \/ kmap[k] \in Placed
    BY <1>2 DEF EngineInv, MapOK
  <2> HIDE DEF k
  <2> QED
    BY <2>1, ExtentMapAssumption DEF LookupOrZero, ZeroLocation, Placed
<1>4. /\ mg.new \in Eid /\ DOMAIN mg.updates \subseteq Keys
      /\ mg.updates = [x \in DOMAIN mg.updates |-> mg.updates[x]]
      /\ \A x \in DOMAIN mg.updates : mg.updates[x] \in Placed /\ mg.updates[x].eid = mg.new
  BY <1>1 DEF EngineInv, WorkerOK, CopyingPcs
<1> HIDE DEF k
<1>5. CASE /\ mg.new \in entries /\ append_slot(mg.new, old.len)
           /\ GoWorker([keys |-> mg.keys \ {k}, updates |-> ups])
  <2>1. new \in Placed /\ new.eid = mg.new
    BY <1>3, <1>4 DEF Placed, EngineInv, IInv, TypeOK
  <2> HIDE DEF new
  <2>2. /\ DOMAIN ups \subseteq Keys /\ ups = [x \in DOMAIN ups |-> ups[x]]
        /\ \A x \in DOMAIN ups : ups[x] \in Placed /\ ups[x].eid = mg.new
    BY <1>2, <1>4, <2>1
  <2> HIDE DEF ups
  <2>3. /\ mg'.pc = "ccopy" /\ mg'.queue = mg.queue /\ mg'.keys = mg.keys \ {k} /\ mg'.updates = ups
        /\ mg'.new = mg.new /\ DOMAIN mg' = MgFields
    BY <1>1, <1>5, GoWorkerFacts DEF EngineInv, MgFields
  <2>4. WorkerOK'
    BY <1>4, <2>2, <2>3 DEF EngineInv, WorkerOK, CopyingPcs, LatePcs, CarryPcs, HoldPcs
  <2>5. \A u \in Unit : ~Carried(u)'
    BY <2>3 DEF Carried, CarryPcs
  <2>6. LockedBody
    BY <1>3, <1>5 DEF EngineInv, IInv, IdsHandedOut, LockedBody
  <2>7. /\ UNCHANGED <<location, deferred, space, leaked, nextId, seqno>>
        /\ entries' \cup erased' = entries \cup erased /\ entries' \cap erased' = {}
    BY <1>5 DEF append_slot, EngineInv
  <2> QED
    BY <1>1, <2>3, <2>4, <2>5, <2>6, <2>7, MapKept, WorkerKeeps DEF EngineInv
<1>6. CASE abort_migration(Worker, {}) /\ GoWorker([pc |-> "cundo"])
  <2>1. mg'.pc = "cundo" /\ mg'.queue = mg.queue /\ mg'.keys = mg.keys /\ DOMAIN mg' = MgFields
    BY <1>6, GoWorkerFacts DEF EngineInv, MgFields
  <2> QED
    BY <1>1, <1>6, <2>1, AbortKeeps DEF EngineInv, WorkerOK
<1> QED
  BY <1>5, <1>6 DEF CompactCopy, k

(* check_migration passes, or the copy is dropped.                          *)
LEMMA CompactCheckKeeps ==
  ASSUME EngineInv, CompactCheck
  PROVE  EngineInv'
<1>1. UNCHANGED <<keyVars, cl, doubled, restarts>> /\ mg.pc = "ccopy"
  BY DEF CompactCheck, Keep, ghostVars, boundVars
<1>2. CASE abort_migration(Worker, {}) /\ GoWorker([pc |-> "cundo"])
  <2>1. mg'.pc = "cundo" /\ mg'.queue = mg.queue /\ mg'.keys = mg.keys /\ DOMAIN mg' = MgFields
    BY <1>2, GoWorkerFacts DEF EngineInv, MgFields
  <2> QED
    BY <1>1, <1>2, <2>1, AbortKeeps DEF EngineInv, WorkerOK
<1>3. CASE UNCHANGED extentVars /\ GoWorker([pc |-> "cupdate"])
  <2>1. /\ mg'.pc = "cupdate" /\ mg'.queue = mg.queue /\ mg'.keys = mg.keys /\ mg'.updates = mg.updates
        /\ mg'.new = mg.new /\ DOMAIN mg' = MgFields
    BY <1>3, GoWorkerFacts DEF EngineInv, MgFields
  <2>2. WorkerOK' /\ \A u \in Unit : ~Carried(u)'
    BY <1>1, <2>1 DEF EngineInv, WorkerOK, Carried, CopyingPcs, LatePcs, CarryPcs, HoldPcs
  <2>3. /\ UNCHANGED <<location, deferred, space, leaked, nextId, seqno>>
        /\ entries' \cup erased' = entries \cup erased /\ entries' \cap erased' = {}
    BY <1>3 DEF extentVars, entryVars, EngineInv
  <2> QED
    BY <1>1, <1>3, <2>1, <2>2, <2>3, MapKept, WorkerKeeps DEF EngineInv
<1> QED
  BY <1>2, <1>3 DEF CompactCheck

(* The updates of a compaction are a batch that KeyMap accepts.             *)
LEMMA UpdatesTyped ==
  ASSUME EngineInv, mg.pc = "cupdate"
  PROVE  /\ mg.new \in Extents /\ DOMAIN mg.updates \in SUBSET Keys
         /\ mg.updates \in [DOMAIN mg.updates -> {kloc \in KeyLocation : kloc.eid = mg.new}]
<1>1. /\ mg.new \in Eid /\ DOMAIN mg.updates \subseteq Keys
      /\ mg.updates = [x \in DOMAIN mg.updates |-> mg.updates[x]]
      /\ \A x \in DOMAIN mg.updates : mg.updates[x] \in Placed /\ mg.updates[x].eid = mg.new
  BY DEF EngineInv, WorkerOK, CopyingPcs
<1>2. mg.new \in Extents
  BY <1>1, BtierAssumption DEF Eid
<1>3. \A x \in DOMAIN mg.updates : mg.updates[x] \in {kloc \in KeyLocation : kloc.eid = mg.new}
  BY <1>1, PlacedFacts
<1> QED
  BY <1>1, <1>2, <1>3

(* batch_update moves the copied keys to the new extent.                    *)
LEMMA CompactUpdateKeeps ==
  ASSUME EngineInv, CompactUpdate
  PROVE  EngineInv'
<1>1. /\ UNCHANGED <<extentVars, cl, doubled, restarts>> /\ mg.pc = "cupdate"
      /\ GoWorker([pc |-> "cfree"]) /\ BatchUpdate(mg.updates, mg.new)
  BY DEF CompactUpdate, boundVars
<1>2. mg'.pc = "cfree" /\ mg'.queue = mg.queue /\ mg'.keys = mg.keys /\ DOMAIN mg' = MgFields
  BY <1>1, GoWorkerFacts DEF EngineInv, MgFields
<1>3. WorkerOK' /\ \A u \in Unit : ~Carried(u)'
  BY <1>1, <1>2 DEF EngineInv, WorkerOK, Carried, CopyingPcs, LatePcs, CarryPcs, HoldPcs
<1>4. KeyMapInv'
  <2>1. KeyMapInv
    BY DEF EngineInv, MapOK
  <2> QED
    BY <1>1, <2>1, UpdatesTyped, BatchPreserves
<1>5. \A k \in Keys : kmap'[k] \in Placed \cup {Absent}
  BY <1>1 DEF EngineInv, MapOK, WorkerOK, CopyingPcs, BatchUpdate
<1>6. MapOK'
  BY <1>4, <1>5 DEF MapOK
<1>7. /\ UNCHANGED <<location, deferred, space, leaked, nextId, seqno>>
      /\ entries' \cup erased' = entries \cup erased /\ entries' \cap erased' = {}
  BY <1>1 DEF extentVars, entryVars, EngineInv
<1> QED
  BY <1>1, <1>2, <1>3, <1>6, <1>7, WorkerKeeps

(* free of the compacted extent or of the abandoned copy: it leaves the map.*)
LEMMA CompactFreeKeeps ==
  ASSUME EngineInv, CompactFree
  PROVE  EngineInv'
<1>1. UNCHANGED <<keyVars, cl, doubled, restarts>> /\ mg.pc \in {"cfree", "cundo"}
  BY DEF CompactFree, Keep, ghostVars, boundVars
<1>2. PICK r : /\ GoWorker(r)
               /\ \E p \in {"cdefer", "cdone"} : r = [pc |-> p, new |-> h.eid] \/ r = [pc |-> p]
  BY DEF CompactFree
<1>3. mg'.pc \in {"cdefer", "cdone"} /\ mg'.queue = mg.queue /\ mg'.keys = mg.keys /\ DOMAIN mg' = MgFields
  BY <1>2, GoWorkerFacts DEF EngineInv, MgFields
<1>4. WorkerOK' /\ \A u \in Unit : ~Carried(u)'
  BY <1>1, <1>3 DEF EngineInv, WorkerOK, Carried, CopyingPcs, LatePcs, CarryPcs, HoldPcs
<1>5. free_claimed(Worker) \/ free_erase(mg.new) \/ UNCHANGED extentVars
  BY DEF CompactFree
<1>6. /\ [LockedBody]_extentVars
      /\ UNCHANGED <<location, deferred, space, leaked, nextId, seqno>>
      /\ entries' \cup erased' = entries \cup erased /\ entries' \cap erased' = {}
  BY <1>5, WorkerMoves DEF EngineInv, IInv, IdsHandedOut, LockedBody, free_erase, free_claimed,
    extentVars, entryVars
<1> QED
  BY <1>1, <1>3, <1>4, <1>6, MapKept, WorkerKeeps DEF EngineInv

-----------------------------------------------------------------------------
(* Steps of the worker that move a location.                                *)

(* What is left to show of such a step.                                     *)
LEMMA WorkerMoved ==
  ASSUME EngineInv, UNCHANGED <<cl, keyVars, restarts>>,
         IInv', entries' \cap erased' = {}, DOMAIN mg' = MgFields, WorkerOK',
         seqno' >= seqno, nextId' = nextId \/ \A c \in Clients : cl[c].pc # "install",
         OneOwner', ReadersSafe'
  PROVE  EngineInv'
<1>1. Shape'
  BY DEF EngineInv, Shape
<1>2. ASSUME NEW c \in Clients PROVE ClientOK(c)'
  BY <1>2, OtherClient DEF EngineInv, IInv, TypeOK
<1> QED
  BY <1>1, <1>2, MapKept DEF EngineInv

(* allocate_raw and allocate_extent, called by the worker for an extent it  *)
(* holds.                                                                   *)
LEMMA WorkerAllocates ==
  ASSUME EngineInv, mg.pc \in HoldPcs, NEW t \in Tier, NEW n \in 1..(Slots + 1),
         UNCHANGED <<cl, keyVars, doubled, restarts>>,
         DOMAIN mg' = MgFields, mg'.queue = mg.queue, mg'.keys = mg.keys, mg'.updates = <<>>,
         \/ allocation_fails(t, n) /\ mg'.pc \in {"talloc_slow", "calloc_slow", "nospace"}
         \/ /\ \E a \in Answers(t, n) : allocate(t, n, a) /\ mg'.loc = a.first
            /\ mg'.pc \in {"twrite", "cinstall"}
            /\ mg'.pc = "cinstall" => mg'.new = nextId /\ nextId <= MaxExtents
  PROVE  EngineInv'
<1>1. UNCHANGED <<entries, erased, location, deferred, nextId, seqno, handle>>
  BY DEF allocate, allocation_fails, entryVars
<1>2. IInv'
  BY AllocatePreserves DEF EngineInv
<1>3. \A u \in Unit : Reserved(u)' => Reserved(u)
  BY DEF Reserved
<1>4. WorkerOK' /\ OneOwner'
  <2>1. CASE allocation_fails(t, n) /\ mg'.pc \in {"talloc_slow", "calloc_slow", "nospace"}
    <3>1. WorkerOK' /\ \A u \in Unit : ~Carried(u)'
      BY <1>1, <2>1 DEF EngineInv, WorkerOK, Carried, CopyingPcs, LatePcs, CarryPcs, HoldPcs
    <3> QED
      BY <1>3, <2>1, <3>1, FailOwners DEF EngineInv
  <2>2. ASSUME NEW a \in Answers(t, n), allocate(t, n, a), mg'.loc = a.first,
               mg'.pc \in {"twrite", "cinstall"},
               mg'.pc = "cinstall" => mg'.new = nextId /\ nextId <= MaxExtents
        PROVE  WorkerOK' /\ OneOwner'
    <3>1. a.first \in Loc /\ Units(a.first) \subseteq Unit
      BY AnswerFacts, LocFacts
    <3>2. WorkerOK'
      BY <1>1, <2>2, <3>1 DEF EngineInv, WorkerOK, CopyingPcs, LatePcs, CarryPcs, HoldPcs
    <3>3. \A u \in Unit \ Units(a.first) : ~Carried(u)'
      BY <2>2 DEF Carried
    <3>4. OneOwner'
      BY <1>3, <2>2, <3>1, <3>3, AnswerOwners DEF EngineInv
    <3> QED
      BY <3>2, <3>4
  <2> QED
    BY <2>1, <2>2
<1>5. ReadersSafe'
  BY <1>1, SafeKept DEF EngineInv, ReadersSafe
<1>6. entries' \cap erased' = {} /\ seqno' >= seqno
  BY <1>1 DEF EngineInv, IInv, TypeOK
<1> QED
  BY <1>1, <1>2, <1>4, <1>5, <1>6, WorkerMoved

(* The source of a claimed extent is a location.                            *)
LEMMA HeldSource ==
  ASSUME EngineInv, mg.pc \in HoldPcs
  PROVE  h.src[1] \in Tier /\ h.src[3] \in 1..(Slots + 1)
<1>1. handle[Worker] \in Handle
  BY WorkerMoves DEF EngineInv, WorkerOK, IInv, TypeOK
<1>2. h.src \in Loc
  BY <1>1 DEF Handle, h
<1> QED
  BY <1>2 DEF Loc

(* migrate_tier allocates its destination, or goes on to SLOW, or fails.    *)
LEMMA TierAllocKeeps ==
  ASSUME EngineInv, TierAlloc
  PROVE  EngineInv'
<1> DEFINE t == IF mg.pc = "talloc" THEN mg.to ELSE SLOW
           n == h.src[3]
<1>1. UNCHANGED <<keyVars, cl, doubled, restarts>> /\ mg.pc \in {"talloc", "talloc_slow"}
  BY DEF TierAlloc, Keep, ghostVars, boundVars
<1>2. mg.pc \in HoldPcs /\ t \in Tier /\ n \in 1..(Slots + 1) /\ mg.updates = <<>>
  BY <1>1, HeldSource DEF EngineInv, WorkerOK, HoldPcs, CopyingPcs, LatePcs, Tier
<1> HIDE DEF t, n
<1>3. ASSUME NEW p \in {"talloc_slow", "nospace"}, allocation_fails(t, n), GoWorker([pc |-> p])
      PROVE  EngineInv'
  <2>1. /\ mg'.pc = p /\ mg'.queue = mg.queue /\ mg'.keys = mg.keys /\ mg'.updates = mg.updates
        /\ DOMAIN mg' = MgFields
    BY <1>3, GoWorkerFacts DEF EngineInv, MgFields
  <2> QED
    BY <1>1, <1>2, <1>3, <2>1, WorkerAllocates
<1>4. ASSUME NEW a \in Answers(t, n), allocate(t, n, a), GoWorker([pc |-> "twrite", loc |-> a.first])
      PROVE  EngineInv'
  <2>1. /\ mg'.pc = "twrite" /\ mg'.loc = a.first /\ mg'.queue = mg.queue /\ mg'.keys = mg.keys
        /\ mg'.updates = mg.updates /\ DOMAIN mg' = MgFields
    BY <1>4, GoWorkerFacts DEF EngineInv, MgFields
  <2> QED
    BY <1>1, <1>2, <1>4, <2>1, WorkerAllocates
<1> QED
  BY <1>3, <1>4 DEF TierAlloc, t, n

(* compact allocates its destination and reads the next id, or goes on to   *)
(* SLOW, or fails.                                                          *)
LEMMA CompactAllocKeeps ==
  ASSUME EngineInv, CompactAlloc
  PROVE  EngineInv'
<1> DEFINE t == IF mg.pc = "calloc" THEN h.src[1] ELSE SLOW
           n == h.src[3]
<1>1. /\ UNCHANGED <<keyVars, cl, doubled, restarts>> /\ mg.pc \in {"calloc", "calloc_slow"}
      /\ nextId <= MaxExtents
  BY DEF CompactAlloc, Keep, ghostVars, boundVars
<1>2. mg.pc \in HoldPcs /\ t \in Tier /\ n \in 1..(Slots + 1) /\ mg.updates = <<>>
  BY <1>1, HeldSource DEF EngineInv, WorkerOK, HoldPcs, CopyingPcs, LatePcs, Tier
<1> HIDE DEF t, n
<1>3. ASSUME NEW p \in {"calloc_slow", "nospace"}, allocation_fails(t, n), GoWorker([pc |-> p])
      PROVE  EngineInv'
  <2>1. /\ mg'.pc = p /\ mg'.queue = mg.queue /\ mg'.keys = mg.keys /\ mg'.updates = mg.updates
        /\ DOMAIN mg' = MgFields
    BY <1>3, GoWorkerFacts DEF EngineInv, MgFields
  <2> QED
    BY <1>1, <1>2, <1>3, <2>1, WorkerAllocates
<1>4. ASSUME NEW a \in Answers(t, n), allocate(t, n, a),
             GoWorker([pc |-> "cinstall", new |-> nextId, loc |-> a.first])
      PROVE  EngineInv'
  <2>1. /\ mg'.pc = "cinstall" /\ mg'.loc = a.first /\ mg'.new = nextId /\ mg'.queue = mg.queue
        /\ mg'.keys = mg.keys /\ mg'.updates = mg.updates /\ DOMAIN mg' = MgFields
    BY <1>4, GoWorkerFacts DEF EngineInv, MgFields
  <2> QED
    BY <1>1, <1>2, <1>4, <2>1, WorkerAllocates
<1> QED
  BY <1>3, <1>4 DEF CompactAlloc, t, n

(* Neither tier had the space: the claim is given up.                       *)
LEMMA NoSpaceKeeps ==
  ASSUME EngineInv, NoSpace
  PROVE  EngineInv'
<1>1. UNCHANGED <<keyVars, cl, doubled, restarts>> /\ abort_migration(Worker, {}) /\ Done
  BY DEF NoSpace, Keep, ghostVars, boundVars
<1> QED
  BY <1>1, DoneFacts, AbortKeeps

(* compact installs its destination under the id it read.                   *)
LEMMA CompactInstallKeeps ==
  ASSUME EngineInv, OneAllocation, CompactInstall
  PROVE  EngineInv'
<1> DEFINE l == mg.loc
<1>1. /\ UNCHANGED <<keyVars, cl, doubled, restarts>> /\ mg.pc = "cinstall"
      /\ GoWorker([pc |-> "ccopy"])
  BY DEF CompactInstall, Keep, ghostVars, boundVars
<1>2. l \in Loc /\ nextId <= MaxExtents /\ install_entry(nextId, l)
  BY <1>1 DEF EngineInv, WorkerOK, CarryPcs, CompactInstall
<1>3. /\ mg'.pc = "ccopy" /\ mg'.new = nextId /\ mg'.queue = mg.queue /\ mg'.keys = mg.keys
      /\ mg'.updates = mg.updates /\ DOMAIN mg' = MgFields
  BY <1>1, GoWorkerFacts DEF EngineInv, MgFields, WorkerOK
<1>4. UNCHANGED <<erased, deferred, seqno, space, leaked, handle>> /\ entries' = entries \cup {nextId}
  BY <1>2 DEF install_entry
<1>5. IInv'
  BY <1>2, InstallPreserves DEF EngineInv
<1>6. WorkerOK'
  <2>1. mg.updates = <<>>
    BY <1>1 DEF EngineInv, WorkerOK, CopyingPcs, LatePcs
  <2>2. nextId \in Eid
    BY <1>2 DEF EngineInv, IInv, TypeOK, Eid
  <2> QED
    BY <1>3, <2>1, <2>2 DEF EngineInv, WorkerOK, CopyingPcs, LatePcs, CarryPcs, HoldPcs
<1>7. entries' \cap erased' = {}
  <2>1. nextId \notin erased
    BY ExtentMapAssumption DEF EngineInv, IInv, TypeOK, IdsHandedOut, Created
  <2> QED
    BY <1>4, <2>1 DEF EngineInv
<1>8. OneOwner' /\ \A u \in Unit : InMap(u) => InMap(u)'
  <2>1. Units(l) \subseteq Unit /\ \A u \in Units(l) : Carried(u)
    BY <1>1, <1>2, LocFacts DEF Carried, CarryPcs
  <2>2. \A u \in Unit : Reserved(u)' <=> Reserved(u)
    BY <1>1 DEF Reserved
  <2>3. \A u \in Unit : ~Carried(u)'
    BY <1>3 DEF Carried, CarryPcs
  <2>4. \A u \in Units(l) \ doubled : ~Reserved(u)
    BY <2>1 DEF EngineInv, OneOwner, Sole
  <2> QED
    BY <1>1, <1>2, <2>1, <2>2, <2>3, <2>4, InstallOwners DEF EngineInv
<1>9. ReadersSafe'
  <2>1. \A u \in Unit, born \in Nat : SafeUnit(u, born) => SafeUnit(u, born)'
    BY <1>1, <1>4, <1>8 DEF SafeUnit
  <2> QED
    BY <1>1, <2>1, ReadersKept DEF EngineInv
<1>10. \A c \in Clients : cl[c].pc # "install"
  BY <1>1 DEF OneAllocation
<1>11. seqno' >= seqno
  BY <1>4 DEF EngineInv, IInv, TypeOK
<1> QED
  BY <1>1, <1>3, <1>5, <1>6, <1>7, <1>8, <1>9, <1>10, <1>11, WorkerMoved

(* abort_migration, and the destination goes to the deferred-free list.     *)
LEMMA AbortReleasesKeeps ==
  ASSUME EngineInv, mg.pc \in {"twrite", "tcommit", "tlocked"},
         abort_migration(Worker, {mg.loc}), Done,
         UNCHANGED <<keyVars, cl, doubled, restarts>>
  PROVE  EngineInv'
<1> DEFINE l == mg.loc
<1>1. l \in Loc /\ Units(l) \subseteq Unit /\ \A u \in Units(l) : Carried(u)
  BY LocFacts DEF EngineInv, WorkerOK, CarryPcs, Carried
<1>2. /\ UNCHANGED <<entries, erased, location, space, leaked, nextId, seqno>>
      /\ add_deferred_free(l)
  BY DEF abort_migration
<1>3. IInv'
  BY <1>1, WorkerMoves, AbortPreserves DEF EngineInv
<1>4. /\ mg'.pc = "next" /\ DOMAIN mg' = MgFields /\ mg'.queue \in Seq(Task)
      /\ mg'.keys \subseteq Keys /\ mg'.updates = <<>>
  BY DoneFacts DEF EngineInv, WorkerOK
<1>5. WorkerOK' /\ \A u \in Unit : ~Carried(u)'
  BY <1>4, WorkerFree
<1>6. \A u : (InMap(u)' <=> InMap(u)) /\ (Reserved(u)' <=> Reserved(u))
  BY <1>2 DEF InMap, Reserved
<1>7. OneOwner'
  <2>1. \A u \in Unit \ doubled : Sole(u)
    BY DEF EngineInv, OneOwner
  <2>2. \A u \in Units(l) \ doubled : ~InMap(u) /\ ~Reserved(u)
    BY <1>1, <2>1 DEF Sole
  <2>3. \A u \in Unit \ doubled : \A a, b \in (entries \cup erased)' :
          u \in Units(location'[a]) /\ u \in Units(location'[b]) => a = b
    BY <1>2, <2>1 DEF Sole
  <2> QED
    BY <1>1, <1>2, <1>5, <1>6, <2>2, <2>3, DeferOwners DEF EngineInv, IInv
<1>8. ReadersSafe'
  <2>1. \A u \in Unit, born \in Nat : born <= seqno /\ SafeUnit(u, born) => SafeUnit(u, born)'
    BY <1>1, <1>2, <1>6, SafeAfterDefer DEF EngineInv, IInv
  <2> QED
    BY <2>1, ReadersKept DEF EngineInv
<1>9. entries' \cap erased' = {} /\ seqno' >= seqno
  BY <1>2 DEF EngineInv, IInv, TypeOK
<1> QED
  BY <1>2, <1>3, <1>4, <1>5, <1>7, <1>8, <1>9, WorkerMoved

(* migrate_tier writes the copy to its destination.                         *)
LEMMA TierWriteKeeps ==
  ASSUME EngineInv, TierWrite
  PROVE  EngineInv'
<1>1. UNCHANGED <<keyVars, cl, doubled, restarts>> /\ mg.pc = "twrite"
  BY DEF TierWrite
<1>2. CASE abort_migration(Worker, {mg.loc}) /\ Done
  BY <1>1, <1>2, AbortReleasesKeeps
<1>3. CASE UNCHANGED extentVars /\ GoWorker([pc |-> "tcommit"])
  <2>1. /\ mg'.pc = "tcommit" /\ mg'.queue = mg.queue /\ mg'.keys = mg.keys /\ mg'.updates = mg.updates
        /\ mg'.loc = mg.loc /\ DOMAIN mg' = MgFields
    BY <1>3, GoWorkerFacts DEF EngineInv, MgFields
  <2>2. WorkerOK' /\ \A u \in Unit : Carried(u)' => Carried(u)
    BY <1>1, <2>1 DEF EngineInv, WorkerOK, Carried, CopyingPcs, LatePcs, CarryPcs, HoldPcs
  <2>3. /\ UNCHANGED <<location, deferred, space, leaked, nextId, seqno>>
        /\ entries' \cup erased' = entries \cup erased /\ entries' \cap erased' = {}
    BY <1>3 DEF extentVars, entryVars, EngineInv
  <2> QED
    BY <1>1, <1>3, <2>1, <2>2, <2>3, MapKept, WorkerKeeps DEF EngineInv
<1> QED
  BY <1>2, <1>3 DEF TierWrite

(* commit_migration finds the entry, or gives up.                           *)
LEMMA TierCommitLookupKeeps ==
  ASSUME EngineInv, TierCommitLookup
  PROVE  EngineInv'
<1>1. UNCHANGED <<keyVars, cl, doubled, restarts>> /\ mg.pc = "tcommit"
  BY DEF TierCommitLookup, Keep, ghostVars, boundVars
<1>2. CASE abort_migration(Worker, {mg.loc}) /\ Done
  BY <1>1, <1>2, AbortReleasesKeeps
<1>3. CASE UNCHANGED extentVars /\ GoWorker([pc |-> "tlocked"])
  <2>1. /\ mg'.pc = "tlocked" /\ mg'.queue = mg.queue /\ mg'.keys = mg.keys /\ mg'.updates = mg.updates
        /\ mg'.loc = mg.loc /\ DOMAIN mg' = MgFields
    BY <1>3, GoWorkerFacts DEF EngineInv, MgFields
  <2>2. WorkerOK' /\ \A u \in Unit : Carried(u)' => Carried(u)
    BY <1>1, <2>1 DEF EngineInv, WorkerOK, Carried, CopyingPcs, LatePcs, CarryPcs, HoldPcs
  <2>3. /\ UNCHANGED <<location, deferred, space, leaked, nextId, seqno>>
        /\ entries' \cup erased' = entries \cup erased /\ entries' \cap erased' = {}
    BY <1>3 DEF extentVars, entryVars, EngineInv
  <2> QED
    BY <1>1, <1>3, <2>1, <2>2, <2>3, MapKept, WorkerKeeps DEF EngineInv
<1> QED
  BY <1>2, <1>3 DEF TierCommitLookup

(* commit_migration: the destination becomes the extent's location and the  *)
(* source is deferred; if free() has deferred the source in between, it is  *)
(* now deferred twice.                                                      *)
LEMMA CommitKeeps ==
  ASSUME EngineInv, mg.pc = "tlocked", commit_migration(Worker, mg.loc), Done,
         UNCHANGED <<keyVars, cl, restarts>>,
         doubled' = IF h.eid \in entries \cup erased THEN doubled
                    ELSE doubled \cup Units(location[h.eid])
  PROVE  EngineInv'
<1> DEFINE M == entries \cup erased
           e == h.eid
           dst == mg.loc
           src == location[e]
<1>1. dst \in Loc /\ Units(dst) \subseteq Unit /\ \A u \in Units(dst) : Carried(u)
  BY LocFacts DEF EngineInv, WorkerOK, CarryPcs, Carried
<1>2. e \in Created /\ e \in Eid /\ src \in Loc /\ Units(src) \subseteq Unit
  <2>1. HandleSound(Worker)
    BY WorkerMoves DEF commit_migration, EngineInv, IInv, HandlesSound, Held
  <2> QED
    BY <2>1, CreatedInEid, LocFacts DEF HandleSound, h, EngineInv, IInv, Located
<1>3. /\ UNCHANGED <<entries, erased, space, leaked, nextId, seqno>>
      /\ add_deferred_free(src)
      /\ location' = [location EXCEPT ![e] = dst]
  BY DEF commit_migration, h
<1>4. IInv'
  BY <1>1, WorkerMoves, CommitPreserves DEF EngineInv
<1>5. /\ mg'.pc = "next" /\ DOMAIN mg' = MgFields /\ mg'.queue \in Seq(Task)
      /\ mg'.keys \subseteq Keys /\ mg'.updates = <<>>
  BY DoneFacts DEF EngineInv, WorkerOK
<1>6. WorkerOK' /\ \A u \in Unit : ~Carried(u)'
  BY <1>5, WorkerFree
<1>7. \A f \in M : location'[f] = IF f = e THEN dst ELSE location[f]
  <2>1. M \subseteq Eid
    BY DEF EngineInv, IInv, TypeOK
  <2> QED
    BY <1>3, <2>1 DEF EngineInv, IInv, TypeOK
<1>8. \A u : Reserved(u)' <=> Reserved(u)
  BY DEF Reserved
<1>9. \A u \in Unit \ doubled : Sole(u)
  BY DEF EngineInv, OneOwner
<1> HIDE DEF dst, src, e
<1>10. \A u : InMap(u) => InMap(u)' \/ u \in Units(src)
  BY <1>3, <1>7 DEF InMap, src
<1>11. doubled \subseteq doubled' /\ (e \notin M => Units(src) \subseteq doubled')
  BY DEF e, src
<1>12. OneOwner'
  <2>1. ASSUME NEW u \in Units(src) \ doubled'
        PROVE  InMap(u) /\ ~InMap(u)' /\ ~Reserved(u)
    <3>1. e \in M /\ Sole(u) /\ InMap(u)
      BY <1>2, <1>9, <1>11 DEF InMap, src
    <3>2. u \notin Units(dst) /\ ~Reserved(u)
      BY <1>1, <3>1 DEF Sole
    <3>3. \A f \in M : u \in Units(location[f]) => f = e
      BY <3>1 DEF Sole, src
    <3> QED
      BY <1>3, <1>7, <3>1, <3>2, <3>3 DEF InMap
  <2>2. ASSUME NEW u \in Unit \ (doubled' \cup Units(src))
        PROVE  /\ Reserved(u)' => Reserved(u)
               /\ InMap(u)' => InMap(u) \/ Carried(u)
               /\ InMap(u)' /\ ~InMap(u) => ~Carried(u)'
               /\ Carried(u)' => Carried(u)
               /\ \A a, b \in (entries \cup erased)' :
                    u \in Units(location'[a]) /\ u \in Units(location'[b]) => a = b
    <3>1. Sole(u)
      BY <1>9, <1>11
    <3>2. InMap(u)' => InMap(u) \/ u \in Units(dst)
      BY <1>3, <1>7 DEF InMap
    <3>3. ASSUME NEW a \in M, NEW b \in M, u \in Units(location'[a]), u \in Units(location'[b])
          PROVE  a = b
      <4>1. CASE u \in Units(dst)
        BY <1>1, <1>7, <3>1, <3>3, <4>1 DEF Sole, InMap
      <4>2. CASE u \notin Units(dst)
        BY <1>7, <3>1, <3>3, <4>2 DEF Sole
      <4> QED
        BY <4>1, <4>2
    <3> QED
      BY <1>1, <1>3, <1>6, <1>8, <3>2, <3>3
  <2> QED
    BY <1>2, <1>3, <1>6, <1>8, <1>11, <2>1, <2>2, DeferOwners DEF EngineInv, IInv
<1>13. ReadersSafe'
  <2>1. \A u \in Unit, born \in Nat : born <= seqno /\ SafeUnit(u, born) => SafeUnit(u, born)'
    BY <1>2, <1>3, <1>10, <1>11, SafeAfterDefer DEF EngineInv, IInv
  <2> QED
    BY <2>1, ReadersKept DEF EngineInv
<1>14. entries' \cap erased' = {} /\ seqno' >= seqno
  BY <1>3 DEF EngineInv, IInv, TypeOK
<1> QED
  BY <1>3, <1>4, <1>5, <1>6, <1>12, <1>13, <1>14, WorkerMoved

(* migrate_tier ends: committed, or given up as the extent has changed.     *)
LEMMA TierCommitKeeps ==
  ASSUME EngineInv, TierCommit
  PROVE  EngineInv'
<1>1. UNCHANGED <<keyVars, cl, restarts>> /\ mg.pc = "tlocked" /\ Done
  BY DEF TierCommit, boundVars
<1> QED
  BY <1>1, CommitKeeps, AbortReleasesKeeps DEF TierCommit

(* compact ends: the location of the extent it freed is deferred.           *)
LEMMA CompactDeferKeeps ==
  ASSUME EngineInv, CompactDefer
  PROVE  EngineInv'
<1>1. UNCHANGED <<keyVars, cl, doubled, restarts>> /\ mg.pc \in {"cdefer", "cdone"} /\ Done
  BY DEF CompactDefer, Keep, ghostVars, boundVars
<1>2. /\ mg'.pc = "next" /\ DOMAIN mg' = MgFields /\ mg'.queue \in Seq(Task)
      /\ mg'.keys \subseteq Keys /\ mg'.updates = <<>>
  BY <1>1, DoneFacts DEF EngineInv, WorkerOK
<1>3. WorkerOK' /\ \A u \in Unit : ~Carried(u)'
  BY <1>2, WorkerFree
<1>4. CASE UNCHANGED extentVars
  <2>1. /\ UNCHANGED <<location, deferred, space, leaked, nextId, seqno>>
        /\ entries' \cup erased' = entries \cup erased /\ entries' \cap erased' = {}
    BY <1>4 DEF extentVars, entryVars, EngineInv
  <2> QED
    BY <1>1, <1>2, <1>3, <1>4, <2>1, MapKept, WorkerKeeps DEF EngineInv
<1>5. CASE free_defer(mg.new)
  <2>1. \A u \in Unit : (Reserved(u)' => Reserved(u)) /\ (Carried(u)' => Carried(u))
    BY <1>1, <1>3 DEF Reserved
  <2>2. /\ OneOwner'
        /\ \A u \in Unit, born \in Nat : born <= seqno /\ SafeUnit(u, born) => SafeUnit(u, born)'
        /\ IInv' /\ entries' \cap erased' = {}
        /\ UNCHANGED <<nextId, seqno, handle>>
    BY <1>1, <1>5, <2>1, FreeDeferOwners
  <2>3. ReadersSafe'
    BY <1>1, <2>2, ReadersKept DEF EngineInv
  <2>4. seqno' >= seqno
    BY <2>2 DEF EngineInv, IInv, TypeOK
  <2> QED
    BY <1>1, <1>2, <1>3, <2>2, <2>3, <2>4, WorkerMoved
<1> QED
  BY <1>4, <1>5 DEF CompactDefer

(* A cycle starts with process_deferred_free: a get() that is about to read *)
(* started less than two calls ago, so what it reads has not aged.          *)
LEMMA CycleStartKeeps ==
  ASSUME EngineInv, CycleStart
  PROVE  EngineInv'
<1>1. /\ UNCHANGED <<keyVars, cl, doubled, restarts>> /\ mg.pc = "idle"
      /\ process_deferred_free /\ GraceHolds /\ GoWorker([pc |-> "plan"])
  BY DEF CycleStart, ghostVars
<1>2. /\ mg'.pc = "plan" /\ mg'.queue = mg.queue /\ mg'.keys = mg.keys /\ mg'.updates = mg.updates
      /\ DOMAIN mg' = MgFields
  BY <1>1, GoWorkerFacts DEF EngineInv, MgFields
<1>3. WorkerOK' /\ \A u \in Unit : ~Carried(u)'
  BY <1>1, <1>2, WorkerFree DEF EngineInv, WorkerOK, CopyingPcs, LatePcs
<1>4. IInv'
  BY <1>1, ReleasePreserves DEF EngineInv
<1>5. /\ UNCHANGED <<entries, erased, location, nextId, handle>> /\ seqno' = seqno + 1
      /\ deferred' = {d \in deferred : ~Aged(d)} /\ seqno \in Nat
  BY <1>1 DEF process_deferred_free, entryVars, EngineInv, IInv, TypeOK
<1>6. OneOwner'
  BY <1>1, <1>3, ReleaseOwners DEF EngineInv, Reserved
<1>7. ReadersSafe'
  <2> SUFFICES ASSUME NEW c \in Clients, cl[c].pc = "read" PROVE Safe(cl[c].loc, cl[c].born)'
    BY <1>1 DEF ReadersSafe
  <2>1. Safe(cl[c].loc, cl[c].born)
    BY DEF EngineInv, ReadersSafe
  <2>2. cl[c].born \in Nat /\ seqno - cl[c].born < 2
    <3>1. cl[c].op = "get" /\ cl[c].born \in Nat
      BY DEF EngineInv, ClientOK
    <3>2. seqno - cl[c].born < ReadGrace
      BY <1>1, <3>1 DEF GraceHolds
    <3> QED
      BY <1>5, <3>1, <3>2, BtierAssumption
  <2>3. \A d \in deferred : d[2] >= cl[c].born => d \in deferred'
    <3> SUFFICES ASSUME NEW d \in deferred, d[2] >= cl[c].born PROVE ~Aged(d)
      BY <1>5
    <3>1. d[2] \in Nat
      BY DEF EngineInv, IInv, TypeOK
    <3> QED
      BY <1>5, <2>2, <3>1 DEF Aged
  <2>4. \A u : InMap(u)' <=> InMap(u)
    BY <1>5 DEF InMap
  <2>5. \A u : SafeUnit(u, cl[c].born) => SafeUnit(u, cl[c].born)'
    BY <1>1, <2>3, <2>4 DEF SafeUnit
  <2> QED
    BY <1>1, <2>1, <2>5 DEF Safe
<1>8. entries' \cap erased' = {} /\ seqno' >= seqno
  BY <1>5 DEF EngineInv
<1> QED
  BY <1>1, <1>2, <1>3, <1>4, <1>5, <1>6, <1>7, <1>8, WorkerMoved

-----------------------------------------------------------------------------
(* A fresh engine satisfies the invariant.                                  *)
LEMMA InitEngine == Init => EngineInv
<1> SUFFICES ASSUME Init PROVE EngineInv
  OBVIOUS
<1>1. IInv /\ entries = {} /\ erased = {} /\ deferred = {} /\ nextId = 1 /\ seqno = 0
  BY InitIInv DEF Init, ExtentMapInit
<1>2. space = [u \in Unit |-> 1] /\ leaked = {}
  BY DEF Init, ExtentMapInit
<1>3. /\ cl = [c \in Clients |-> Idle] /\ mg = WorkerIdle /\ restarts = 0
  BY DEF Init
<1>4. Shape
  BY <1>3 DEF Shape, Idle, WorkerIdle, ClFields, MgFields
<1>5. MapOK
  BY DEF Init, KeyMapInit, MapOK, KeyMapInv, KeyMapTypeOK, ReverseIndexExact
<1>6. \A c \in Clients : ClientOK(c) /\ cl[c].pc = "idle"
  BY <1>1, <1>3, ExtentMapAssumption DEF ClientOK, Idle
<1>7. WorkerOK
  BY <1>3 DEF WorkerOK, WorkerIdle, CopyingPcs, LatePcs, CarryPcs, HoldPcs
<1>8. OneOwner
  BY <1>1, <1>2, <1>3, <1>6
  DEF OneOwner, Sole, InMap, Waiting, Reserved, Carried, Leaked, WorkerIdle, CarryPcs
<1>9. ReadersSafe
  BY <1>6 DEF ReadersSafe
<1> QED
  BY <1>1, <1>4, <1>5, <1>6, <1>7, <1>8, <1>9 DEF EngineInv

(* Every step of a client keeps the invariant.                              *)
LEMMA ClientStepKeeps ==
  ASSUME EngineInv, OneAllocation, NEW c \in Clients, ClientStep(c)
  PROVE  EngineInv'
  BY CkptBuildKeeps, CkptWriteKeeps, PutLookupKeeps, PutFindKeeps, PutLocateKeeps,
    PutAllocKeeps, PutInstallKeeps, PutPrelogKeeps, PutAppendKeeps, PutWriteKeeps,
    PutLogKeeps, PutApplyKeeps, DelLogKeeps, DelApplyKeeps, MarkOldDeadKeeps,
    CheckOldLiveKeeps, ClientFreeEraseKeeps, ClientFreeDeferKeeps, ReturnKeeps
  DEF ClientStep

(* Every step of the worker keeps the invariant.                            *)
LEMMA WorkerStepKeeps ==
  ASSUME EngineInv, OneAllocation, WorkerStep
  PROVE  EngineInv'
  BY CycleStartKeeps, CyclePlanKeeps, NextTaskKeeps, TierReadKeeps, TierAllocKeeps,
    NoSpaceKeeps,    TierWriteKeeps, TierCommitLookupKeeps, TierCommitKeeps, CompactKeysKeeps,
    CompactAllocKeeps, CompactInstallKeeps, CompactCopyKeeps, CompactCheckKeeps,
    CompactUpdateKeeps, CompactFreeKeeps, CompactDeferKeeps
  DEF WorkerStep

(* Nothing changes.                                                         *)
LEMMA StutterKeeps ==
  ASSUME EngineInv, UNCHANGED vars
  PROVE  EngineInv'
<1>1. /\ UNCHANGED <<extentVars, keyVars, cl, mg, doubled, restarts>>
      /\ UNCHANGED <<entries, erased, location, deferred, space, leaked, nextId, seqno, handle>>
  BY DEF vars, ghostVars, boundVars, extentVars, entryVars
<1>2. DOMAIN mg' = MgFields
  BY <1>1 DEF EngineInv, Shape
<1>3. WorkerOK'
  BY <1>1 DEF EngineInv, WorkerOK
<1>4. \A u \in Unit : Carried(u)' => Carried(u)
  BY <1>1 DEF Carried
<1>5. entries' \cap erased' = {}
  BY <1>1 DEF EngineInv
<1> QED
  BY <1>1, <1>2, <1>3, <1>4, <1>5, MapKept, WorkerKeeps DEF EngineInv

(* The invariant is inductive as long as no restart happens and no two      *)
(* threads are inside the unsynchronised next_extent_id++.                  *)
LEMMA StepEngine ==
  ASSUME EngineInv, Undisturbed, Undisturbed', [Next]_vars
  PROVE  EngineInv'
<1>1. OneAllocation /\ restarts = 0 /\ restarts' = 0
  BY DEF Undisturbed
<1>2. ~Crash /\ ~CleanRestart
  BY <1>1 DEF Crash, CleanRestart
<1>3. Writers \subseteq Clients /\ Readers \subseteq Clients
  BY DEF Clients
<1> QED
  BY <1>1, <1>2, <1>3, PutStartKeeps, DelStartKeeps, ClientStepKeeps, GetLookupKeeps,
    GetLocationKeeps, GetReadKeeps, WorkerStepKeeps, StutterKeeps
  DEF Next

-----------------------------------------------------------------------------
(* How the engine uses its maps.                                            *)

(* The client steps that call the extent map, on ids it handed out.         *)
LEMMA ClientUsesExtents ==
  ASSUME EngineInv, NEW c \in Clients, ClientStep(c)
  PROVE  [LockedBody]_extentVars
<1>1. entries \subseteq Created /\ erased \subseteq Created
  BY DEF EngineInv, IInv, IdsHandedOut
<1>2. cl[c].len \in 0..Slots
  BY DEF EngineInv, ClientOK
<1>3. CASE PutAlloc(c)
  BY <1>3, RequestFacts DEF PutAlloc, Tier, LockedBody
<1>4. CASE PutInstall(c)
  BY <1>4 DEF PutInstall, EngineInv, ClientOK, LockedBody
<1>5. CASE PutAppend(c)
  BY <1>1, <1>2, <1>5 DEF PutAppend, LockedBody
<1>6. CASE PutWrite(c) \/ PutLog(c)
  BY <1>1, <1>2, <1>6 DEF PutWrite, PutLog, Undo, LockedBody
<1>7. CASE MarkOldDead(c)
  <2>1. cl[c].old \in Placed
    BY <1>7 DEF MarkOldDead, EngineInv, ClientOK
  <2>2. cl[c].old.len \in 0..Slots
    BY <2>1 DEF Placed
  <2> QED
    BY <1>1, <1>7, <2>2 DEF MarkOldDead, LockedBody
<1>8. CASE ClientFreeErase(c) \/ ClientFreeDefer(c)
  BY <1>1, <1>8 DEF ClientFreeErase, ClientFreeDefer, free_erase, free_defer, LockedBody
<1>9. CASE \/ CkptBuild(c) \/ CkptWrite(c) \/ PutLookup(c) \/ PutFind(c) \/ PutLocate(c)
           \/ PutPrelog(c) \/ PutApply(c) \/ DelLog(c) \/ DelApply(c) \/ CheckOldLive(c)
           \/ Return(c)
  BY <1>9 DEF CkptBuild, CkptWrite, PutLookup, PutFind, PutLocate, PutPrelog, PutApply,
    DelLog, DelApply, CheckOldLive, Return
<1> QED
  BY <1>3, <1>4, <1>5, <1>6, <1>7, <1>8, <1>9 DEF ClientStep

(* The worker's calls of the extent map.                                    *)
LEMMA WorkerUsesExtents ==
  ASSUME EngineInv, WorkerStep
  PROVE  [LockedBody]_extentVars
<1> USE WorkerMoves DEF LockedBody
<1>1. entries \subseteq Created /\ erased \subseteq Created
  BY DEF EngineInv, IInv, IdsHandedOut
<1>2. mg.pc \in CarryPcs => mg.loc \in Loc
  BY DEF EngineInv, WorkerOK
<1>3. CASE CycleStart \/ CyclePlan \/ CompactKeys \/ CompactUpdate
  BY <1>3 DEF CycleStart, CyclePlan, CompactKeys, CompactUpdate
<1>4. CASE NextTask
  BY <1>1, <1>4 DEF NextTask
<1>5. CASE TierRead \/ NoSpace \/ CompactCheck
  BY <1>5 DEF TierRead, NoSpace, CompactCheck
<1>6. CASE TierWrite \/ TierCommitLookup \/ TierCommit
  BY <1>2, <1>6 DEF TierWrite, TierCommitLookup, TierCommit, CarryPcs
<1>7. CASE CompactInstall
  BY <1>2, <1>7 DEF CompactInstall, EngineInv, WorkerOK, CarryPcs
<1>8. CASE CompactCopy
  <2> DEFINE k == CHOOSE x \in mg.keys : TRUE
  <2>1. k \in Keys
    BY <1>8 DEF CompactCopy, EngineInv, WorkerOK
  <2>2. CASE abort_migration(Worker, {})
    BY <2>2
  <2>3. CASE mg.new \in entries /\ append_slot(mg.new, LookupOrZero(k).len)
    <3>1. kmap[k] = Absent \/ kmap[k] \in Placed
      BY <2>1 DEF EngineInv, MapOK
    <3> HIDE DEF k
    <3>2. LookupOrZero(k).len \in 0..Slots
      BY <3>1, ExtentMapAssumption DEF LookupOrZero, ZeroLocation, Placed
    <3> QED
      BY <1>1, <2>3, <3>2
  <2> QED
    BY <1>8, <2>2, <2>3 DEF CompactCopy
<1>9. CASE CompactFree \/ CompactDefer
  BY <1>1, <1>9 DEF CompactFree, CompactDefer, free_erase, free_defer
<1>10. CASE TierAlloc
  <2> DEFINE t == IF mg.pc = "talloc" THEN mg.to ELSE SLOW
  <2>1. t \in Tier /\ h.src[3] \in 1..(Slots + 1)
    BY <1>10, HeldSource DEF TierAlloc, EngineInv, WorkerOK, HoldPcs, Tier
  <2>2. allocation_fails(t, h.src[3]) \/ \E a \in Answers(t, h.src[3]) : allocate(t, h.src[3], a)
    BY <1>10 DEF TierAlloc
  <2> QED
    BY <2>1, <2>2
<1>11. CASE CompactAlloc
  <2> DEFINE t == IF mg.pc = "calloc" THEN h.src[1] ELSE SLOW
  <2>1. t \in Tier /\ h.src[3] \in 1..(Slots + 1)
    BY <1>11, HeldSource DEF CompactAlloc, HoldPcs, Tier
  <2>2. allocation_fails(t, h.src[3]) \/ \E a \in Answers(t, h.src[3]) : allocate(t, h.src[3], a)
    BY <1>11 DEF CompactAlloc
  <2> QED
    BY <2>1, <2>2
<1> QED
  BY <1>3, <1>4, <1>5, <1>6, <1>7, <1>8, <1>9, <1>10, <1>11 DEF WorkerStep

(* Every step of the engine is a locked body of the extent map, or leaves   *)
(* the extent map alone.                                                    *)
LEMMA StepUsesExtents ==
  ASSUME EngineInv, Undisturbed, Undisturbed', [Next]_vars
  PROVE  [LockedBody]_extentVars
<1>1. ~Crash /\ ~CleanRestart
  BY DEF Undisturbed, Crash, CleanRestart
<1>2. UNCHANGED vars => UNCHANGED extentVars
  BY DEF vars
<1>3. \A c, k, n : PutStart(c, k, n) => UNCHANGED extentVars
  BY DEF PutStart
<1>4. \A c, k : DelStart(c, k) \/ GetLookup(c, k) => UNCHANGED extentVars
  BY DEF DelStart, GetLookup
<1>5. \A c : GetLocation(c) \/ GetRead(c) => UNCHANGED extentVars
  BY DEF GetLocation, GetRead
<1> QED
  BY <1>1, <1>2, <1>3, <1>4, <1>5, ClientUsesExtents, WorkerUsesExtents DEF Next, Clients

(* Every step of the engine is a put, an erase or a batch of the key map,   *)
(* or leaves the key map alone.                                             *)
LEMMA StepUsesKeys ==
  ASSUME EngineInv, Undisturbed, Undisturbed', [Next]_vars
  PROVE  [KeyMapNext]_keyVars
<1>1. ~Crash /\ ~CleanRestart
  BY DEF Undisturbed, Crash, CleanRestart
<1>2. UNCHANGED vars => UNCHANGED keyVars
  BY DEF vars
<1>3. \A c, k, n : PutStart(c, k, n) => UNCHANGED keyVars
  BY DEF PutStart
<1>4. \A c, k : DelStart(c, k) \/ GetLookup(c, k) => UNCHANGED keyVars
  BY DEF DelStart, GetLookup
<1>5. \A c : GetLocation(c) \/ GetRead(c) => UNCHANGED keyVars
  BY DEF GetLocation, GetRead
<1>6. ASSUME NEW c \in Clients, ClientStep(c) PROVE [KeyMapNext]_keyVars
  <2>1. CASE PutApply(c)
    <3>1. cl[c].key \in Keys /\ NewLocation(c) \in KeyLocation
      BY <2>1, PlacedFacts DEF PutApply, EngineInv, ClientOK, NewLocation, Placed
    <3> QED
      BY <2>1, <3>1 DEF PutApply, KeyMapNext, Put
  <2>2. CASE DelApply(c)
    BY <2>2 DEF DelApply, EngineInv, ClientOK, KeyMapNext, Erase
  <2>3. CASE ~PutApply(c) /\ ~DelApply(c)
    BY <1>6, <2>3 DEF ClientStep, CkptBuild, CkptWrite, PutLookup, PutFind, PutLocate, PutAlloc,
      PutInstall, PutPrelog, PutAppend, PutWrite, PutLog, DelLog, MarkOldDead, CheckOldLive,
      ClientFreeErase, ClientFreeDefer, Return
  <2> QED
    BY <2>1, <2>2, <2>3
<1>7. ASSUME WorkerStep PROVE [KeyMapNext]_keyVars
  <2>1. CASE CompactUpdate
    <3>1. mg.pc = "cupdate" /\ BatchUpdate(mg.updates, mg.new)
      BY <2>1 DEF CompactUpdate
    <3> QED
      BY <3>1, UpdatesTyped DEF KeyMapNext, Batch
  <2>2. CASE ~CompactUpdate
    BY <1>7, <2>2 DEF WorkerStep, CycleStart, CyclePlan, NextTask, TierRead, TierAlloc, NoSpace,
      TierWrite, TierCommitLookup, TierCommit, CompactKeys, CompactAlloc, CompactInstall, CompactCopy,
      CompactCheck, CompactFree, CompactDefer
  <2> QED
    BY <2>1, <2>2
<1> QED
  BY <1>1, <1>2, <1>3, <1>4, <1>5, <1>6, <1>7 DEF Next, Clients

-----------------------------------------------------------------------------
(* Theorems.                                                                *)

(* As long as btier.cc has not restarted and no two threads overlap in      *)
(* next_extent_id++, the engine's invariant holds.                          *)
THEOREM EngineInvariance == Spec /\ []Undisturbed => []EngineInv
<1>1. Spec => Init /\ [][Next]_vars
  BY DEF Spec
<1>2. EngineInv /\ Undisturbed /\ Undisturbed' /\ [Next]_vars => EngineInv'
  BY StepEngine
<1> QED
  BY <1>1, <1>2, InitEngine, PTL

(* allocate_extent, allocate_raw, commit_migration, abort_migration, free   *)
(* and process_deferred_free pass every unit of the devices from one owner  *)
(* to the next, whatever the allocator answers: never two extents, never an *)
(* extent and the allocator, the list or a call in progress, and what an    *)
(* allocation lost never comes back; but for units that were deferred twice. *)
THEOREM LocationsHaveOneOwner == Spec /\ []Undisturbed => []OneOwner
<1>1. EngineInv => OneOwner
  BY DEF EngineInv
<1> QED
  BY <1>1, EngineInvariance, PTL

(* A get() that lasts less than two cycles never reads a unit that the      *)
(* allocator may hand out again (btier.md 4.5), for any number of readers,  *)
(* writers and cycles, but for units that were deferred twice.              *)
THEOREM ReadersProtected == Spec /\ []Undisturbed => []DeferredFreeProtectsReaders
<1>1. EngineInv => DeferredFreeProtectsReaders
  <2> SUFFICES ASSUME EngineInv, NEW c \in Readers, cl[c].pc = "read",
                      NEW u \in Units(cl[c].loc), u \notin doubled
               PROVE  space[u] = 0
    BY DEF DeferredFreeProtectsReaders
  <2>1. Safe(cl[c].loc, cl[c].born)
    BY DEF EngineInv, ReadersSafe, Clients
  <2>2. u \in Unit /\ SafeUnit(u, cl[c].born)
    BY <2>1, LocFacts DEF Safe
  <2>3. Sole(u) /\ (InMap(u) \/ Waiting(u))
    BY <2>2 DEF SafeUnit, Waiting, EngineInv, OneOwner
  <2> QED
    BY <2>3 DEF Sole
<1> QED
  BY <1>1, EngineInvariance, PTL

(* put, del and the migration engine use ExtentMap as its own specification *)
(* allows: they call its methods on ids it handed out, on locations of the  *)
(* devices and within the slots of an extent.                               *)
THEOREM EngineUsesExtentMap ==
  Spec /\ []Undisturbed => ExtentMapInit /\ [][LockedBody]_extentVars
<1>1. Init => ExtentMapInit
  BY DEF Init
<1>2. EngineInv /\ Undisturbed /\ Undisturbed' /\ [Next]_vars => [LockedBody]_extentVars
  BY StepUsesExtents
<1>3. Spec => Init /\ [][Next]_vars
  BY DEF Spec
<1> QED
  BY <1>1, <1>2, <1>3, EngineInvariance, PTL

(* put, del and compact use KeyMap as its own specification allows.         *)
THEOREM EngineRefinesKeyMap == Spec /\ []Undisturbed => KeyMapSpec
<1>1. Init => KeyMapInit
  BY DEF Init
<1>2. EngineInv /\ Undisturbed /\ Undisturbed' /\ [Next]_vars => [KeyMapNext]_keyVars
  BY StepUsesKeys
<1>3. Spec => Init /\ [][Next]_vars
  BY DEF Spec
<1> QED
  BY <1>1, <1>2, <1>3, EngineInvariance, PTL DEF KeyMapSpec

(* So the migration worker's claims are a lock in the whole engine ...      *)
THEOREM EngineClaims == Spec /\ []Undisturbed => []ClaimExclusive
<1>1. EngineInv => ClaimExclusive
  BY DEF EngineInv, IInv, ClaimsDistinct, HandlesSound, HandleSound, MigratingIsHeld, Held,
    ClaimExclusive
<1> QED
  BY <1>1, EngineInvariance, PTL

(* ... a put or del that touches a claimed extent is seen by the generation *)
(* check ...                                                                *)
THEOREM EngineGenerations == Spec /\ []Undisturbed => []GenerationProtocol
<1>1. EngineInv => GenerationProtocol
  BY DEF EngineInv, IInv, HandlesSound, HandleSound, Held, GenUnchanged, GenerationProtocol
<1> QED
  BY <1>1, EngineInvariance, PTL

(* ... an extent moves only when such a check passed ...                    *)
THEOREM EngineMovesByCommit == Spec /\ []Undisturbed => MovesOnlyByCommit
<1>1. EngineInv /\ Undisturbed /\ Undisturbed' /\ [Next]_vars => [MovesByCommit]_extentVars
  BY StepUsesExtents, BodyMovesByCommit DEF EngineInv
<1>2. Spec => Init /\ [][Next]_vars
  BY DEF Spec
<1> QED
  BY <1>1, <1>2, EngineInvariance, PTL DEF MovesOnlyByCommit, MovesByCommit

(* ... and compact() finds the live keys of an extent in the reverse index. *)
THEOREM EngineReverseIndex == Spec /\ []Undisturbed => []ReverseIndexExact
  BY EngineRefinesKeyMap, ReverseIndexAlwaysExact, PTL
=============================================================================
