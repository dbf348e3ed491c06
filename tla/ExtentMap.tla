------------------------------ MODULE ExtentMap ------------------------------
(***************************************************************************)
(* btier/extent_map.cc: extent id -> (location, metrics, used, live), the  *)
(* two per-tier allocators behind it, the free-space lists, the migration  *)
(* handle protocol and the deferred-free list.                             *)
(*                                                                         *)
(* Every method copies the shared_ptr of an entry out of the map, releases *)
(* map_lock_ and only then takes the entry's struct_lock, so its locked    *)
(* body may run on an entry that free() has erased in between.  The        *)
(* operators below are those locked bodies; they act on the entry object   *)
(* (the functions location, state, gen, used, live) and do not look at     *)
(* `entries', the set of ids that are still in the map.                    *)
(*                                                                         *)
(* Sizes are counted in blocks, the unit of the allocators and, here, of a *)
(* value.  A disk location is a run of units of one device: the header of  *)
(* the extent, then its slots.  The locations differ in length, with the   *)
(* size of the request and with what the allocator had left.  The contents *)
(* of a header are left out: only recovery reads them, to drop an extent   *)
(* whose header is torn, and no step tears one.                            *)
(* Of the packed metrics word only state and generation are kept; the      *)
(* access counters feed the scores, which Btier chooses freely.            *)
(***************************************************************************)
EXTENDS Integers, FiniteSets

CONSTANTS
  FastUnits,   (* the blocks of the FAST device after the journal             *)
  SlowUnits,   (* the blocks of the SLOW device                               *)
  Slots,       (* most slots an extent is ever asked to have                  *)
  Word,        (* number of values of the 32-bit byte counters                *)
  MaxExtents,  (* bound on the extent ids handed out                          *)
  MaxCycles,   (* bound on the calls of process_deferred_free                 *)
  MaxGen,      (* generation at which appends and dead slots stop; it has 2^32 *)
  MaxDeferred, (* bound on the size of deferred_free_                         *)
  Movers,      (* threads that run migrations: the worker, compact_extent()   *)
  FAST, SLOW, ACTIVE, MIGRATING, None

ASSUME ExtentMapAssumption ==
  /\ FastUnits \subseteq Nat /\ IsFiniteSet(FastUnits)
  /\ SlowUnits \subseteq Nat /\ IsFiniteSet(SlowUnits)
  /\ Slots \in Nat \ {0}
  /\ Word \in Nat /\ Word > Slots
  /\ MaxExtents \in Nat \ {0}
  /\ MaxCycles \in Nat
  /\ MaxGen \in Nat
  /\ MaxDeferred \in Nat
  /\ FAST # SLOW
  /\ ACTIVE # MIGRATING

VARIABLES
  entries,    (* ids in entries_                                            *)
  location,   (* id -> <<tier, offset, length>>, None before it is handed out *)
  state,      (* id -> ACTIVE or MIGRATING                                  *)
  gen,        (* id -> generation of the metrics word                       *)
  used, live, (* id -> used_bytes, live_bytes                               *)
  nextId,     (* next_extent_id                                             *)
  freeLists,  (* free_lists_: set of <<tier, free slots, id>>               *)
  erased,     (* ids erased by free() whose location is not yet deferred    *)
  deferred,   (* deferred_free_: set of <<location, seqno, copy>>; nothing  *)
              (* reads its order, `copy' tells equal elements apart         *)
  seqno,      (* seqno_                                                     *)
  space,      (* the two allocators: how often each unit is free; one that  *)
              (* is released twice can be handed out twice                  *)
  leaked,     (* history: units the allocator has given and nobody was told *)
  handle      (* mover -> MigrationHandle (with the extent's used and live  *)
              (* at begin_migration as history), or None                    *)

entryVars == <<location, state, gen, used, live>>
extentVars == <<entries, entryVars, nextId, freeLists, erased, deferred,
                seqno, space, leaked, handle>>

Eid == 1..MaxExtents
Tier == {FAST, SLOW}

Unit == ({FAST} \X FastUnits) \cup ({SLOW} \X SlowUnits)
Units(l) == {<<l[1], u>> : u \in l[2]..(l[2] + l[3] - 1)}
Loc == {l \in Tier \X (FastUnits \cup SlowUnits) \X (1..(Slots + 1)) : Units(l) \subseteq Unit}
Capacity(l) == l[3] - 1
SlotUnits(l, off, n) == {<<l[1], l[2] + 1 + s>> : s \in off..(off + n - 1)}

Handle == [eid : Eid, gen : Nat, src : Loc, used : 0..Slots, live : 0..Slots]

ASSUME NoneAssumption == None \notin Handle

TypeOK ==
  /\ entries \subseteq Eid
  /\ location \in [Eid -> Loc \cup {None}]
  /\ state \in [Eid -> {ACTIVE, MIGRATING}]
  /\ gen \in [Eid -> Nat]
  /\ used \in [Eid -> 0..Slots]
  /\ live \in [Eid -> 0..Slots]
  /\ nextId \in 1..(MaxExtents + 1)
  /\ freeLists \subseteq (Tier \X Nat \X Eid)
  /\ erased \subseteq Eid
  /\ deferred \subseteq (Loc \X Nat \X Nat) /\ IsFiniteSet(deferred)
  /\ seqno \in Nat
  /\ space \in [Unit -> Nat]
  /\ leaked \subseteq Unit
  /\ handle \in [Movers -> Handle \cup {None}]

(* init_free_space() on a new ExtentMap.                                    *)
ExtentMapInit ==
  /\ entries = {}
  /\ location = [e \in Eid |-> None]
  /\ state = [e \in Eid |-> ACTIVE]
  /\ gen = [e \in Eid |-> 0]
  /\ used = [e \in Eid |-> 0]
  /\ live = [e \in Eid |-> 0]
  /\ nextId = 1
  /\ freeLists = {}
  /\ erased = {}
  /\ deferred = {}
  /\ seqno = 0
  /\ space = [u \in Unit |-> 1]
  /\ leaked = {}
  /\ handle = [m \in Movers |-> None]

-----------------------------------------------------------------------------
(* Queries.                                                                 *)

(* capacity - used_bytes, both uint32_t: an extent that was moved to a      *)
(* shorter location can have used more than it now has.                     *)
free_bytes_of(e) ==
  LET room == Capacity(location[e]) - used[e]
  IN IF room < 0 THEN room + Word ELSE room

(* The smallest free-list entry of the tier that is large enough and whose  *)
(* extent is still mapped and ACTIVE.  The list is only a hint: it is       *)
(* ordered by the free bytes it recorded, not by those of the extent.       *)
Candidates(t, n) ==
  {f \in freeLists : f[1] = t /\ f[2] >= n /\ f[3] \in entries /\ state[f[3]] = ACTIVE}

find_extent_with_space(t, n) ==
  IF Candidates(t, n) = {} THEN None
  ELSE (CHOOSE f \in Candidates(t, n) :
          \A g \in Candidates(t, n) : f[2] < g[2] \/ (f[2] = g[2] /\ f[3] <= g[3]))[3]

-----------------------------------------------------------------------------
(* The allocators (AvlAllocator::_allocate).                                *)

Free(t) == {u \in Unit : u[1] = t /\ space[u] > 0}

(* The segments of the allocator's trees: the longest runs of free units.   *)
Segments(t) ==
  LET F == Free(t) IN
  {g \in {t} \X {u[2] : u \in F} \X (1..Cardinality(F)) :
     /\ Units(g) \subseteq F
     /\ <<t, g[2] - 1>> \notin F
     /\ <<t, g[2] + g[3]>> \notin F}

(* The size tree read from its end: longest first, then by offset.          *)
Before(g, x) == g[3] > x[3] \/ (g[3] = x[3] /\ g[2] < x[2])
UpTo(t, g) == {x \in Segments(t) : x = g \/ Before(x, g)}
Whole(S) == UNION {Units(x) : x \in S}

(* A segment that holds all n units gives its head, whichever segment the   *)
(* cursor or the best fit picks.                                            *)
OneExtent(t, n) ==
  {[first |-> <<t, g[2], n>>, taken |-> Units(<<t, g[2], n>>)] :
     g \in {x \in Segments(t) : x[3] >= n}}

(* With none, the longest segments are taken whole, until what is left of   *)
(* the request, m units, fits in one: q = <<the first segment taken, the    *)
(* last one taken whole, the one whose head completes the request, m>>.     *)
ManyExtents(t, n) ==
  LET S == Segments(t) IN
  {[first |-> q[1], taken |-> Whole(UpTo(t, q[2])) \cup Units(<<t, q[3][2], q[4]>>)] :
     q \in {x \in {g \in S : g[3] < n} \X S \X S \X (1..n) :
             /\ UpTo(t, x[1]) = {x[1]}
             /\ x[3] \notin UpTo(t, x[2])
             /\ x[3][3] >= x[4]
             /\ Cardinality(Whole(UpTo(t, x[2]))) + x[4] = n}}

Answers(t, n) == OneExtent(t, n) \cup ManyExtents(t, n)

-----------------------------------------------------------------------------
(* Locked bodies.  e's struct_lock is held; the free lists are updated      *)
(* right after it is released.                                              *)

update_free_list(e, old, new) ==
  freeLists' = (freeLists \ {<<location[e][1], old, e>>}) \cup {<<location[e][1], new, e>>}

add_deferred_free(l) ==
  LET copies == {d \in deferred : d[1] = l /\ d[2] = seqno}
  IN deferred' = deferred \cup {<<l, seqno, Cardinality(copies)>>}

CanAppend(e, n) == state[e] = ACTIVE /\ used[e] + n <= Capacity(location[e])

append_slot(e, n) ==
  /\ CanAppend(e, n)
  /\ used' = [used EXCEPT ![e] = @ + n]
  /\ live' = [live EXCEPT ![e] = @ + n]
  /\ gen' = [gen EXCEPT ![e] = @ + 1]
  /\ update_free_list(e, free_bytes_of(e), free_bytes_of(e) - n)
  /\ UNCHANGED <<entries, location, state, nextId, erased, deferred, seqno, space, leaked, handle>>

(* Mutant: mark_dead_slot does not bump the generation.                     *)
mark_dead_slot_silent(e, n) ==
  /\ live' = [live EXCEPT ![e] = IF @ >= n THEN @ - n ELSE 0]
  /\ update_free_list(e, free_bytes_of(e), free_bytes_of(e))
  /\ UNCHANGED <<entries, location, state, gen, used, nextId, erased, deferred, seqno, space, leaked, handle>>

mark_dead_slot(e, n) ==
  /\ live' = [live EXCEPT ![e] = IF @ >= n THEN @ - n ELSE 0]
  /\ gen' = [gen EXCEPT ![e] = @ + 1]
  /\ update_free_list(e, free_bytes_of(e), free_bytes_of(e))
  /\ UNCHANGED <<entries, location, state, used, nextId, erased, deferred, seqno, space, leaked, handle>>

(* The allocator's part of allocate_extent and allocate_raw, for one tier.  *)
(* The location is the first extent of the answer; the others leak.         *)
allocate(t, n, a) ==
  /\ a \in Answers(t, n)
  /\ space' = [u \in Unit |-> IF u \in a.taken THEN space[u] - 1 ELSE space[u]]
  /\ leaked' = leaked \cup (a.taken \ Units(a.first))
  /\ UNCHANGED <<entries, entryVars, nextId, freeLists, erased, deferred, seqno, handle>>

(* With less than n units left the allocator gives all of them; the caller  *)
(* goes to SLOW, or fails, without a release.                               *)
allocation_fails(t, n) ==
  /\ Cardinality(Free(t)) < n
  /\ space' = [u \in Unit |-> IF u \in Free(t) THEN space[u] - 1 ELSE space[u]]
  /\ leaked' = leaked \cup Free(t)
  /\ UNCHANGED <<entries, entryVars, nextId, freeLists, erased, deferred, seqno, handle>>

(* allocate_extent: a fresh ACTIVE entry for id e at loc, generation 0.     *)
install_entry(e, loc) ==
  /\ entries' = entries \cup {e}
  /\ location' = [location EXCEPT ![e] = loc]
  /\ state' = [state EXCEPT ![e] = ACTIVE]
  /\ gen' = [gen EXCEPT ![e] = 0]
  /\ used' = [used EXCEPT ![e] = 0]
  /\ live' = [live EXCEPT ![e] = 0]
  /\ nextId' = e + 1
  /\ freeLists' = freeLists \cup {<<loc[1], Capacity(loc), e>>}
  /\ UNCHANGED <<erased, deferred, seqno, space, leaked, handle>>

(* Mutant: begin_migration does not test for ACTIVE.                        *)
begin_migration_unguarded(m, e) ==
  /\ handle[m] = None
  /\ handle' = [handle EXCEPT ![m] =
       [eid |-> e, gen |-> gen[e], src |-> location[e], used |-> used[e], live |-> live[e]]]
  /\ state' = [state EXCEPT ![e] = MIGRATING]
  /\ UNCHANGED <<entries, location, gen, used, live, nextId, freeLists, erased,
                 deferred, seqno, space, leaked>>

begin_migration(m, e) ==
  /\ handle[m] = None
  /\ state[e] = ACTIVE
  /\ handle' = [handle EXCEPT ![m] =
       [eid |-> e, gen |-> gen[e], src |-> location[e], used |-> used[e], live |-> live[e]]]
  /\ state' = [state EXCEPT ![e] = MIGRATING]
  /\ UNCHANGED <<entries, location, gen, used, live, nextId, freeLists, erased,
                 deferred, seqno, space, leaked>>

(* Mutant: the generation is not compared.                                  *)
GenNotCompared(m) == TRUE

(* The generation check of commit_migration and of check_migration.         *)
GenUnchanged(m) == gen[handle[m].eid] = handle[m].gen

(* Success: the extent moves, the source is deferred; the free lists are    *)
(* left alone, so a tier change leaves the entry in the old tier's list.    *)
commit_migration(m, dst) ==
  LET e == handle[m].eid IN
  /\ handle[m] # None
  /\ GenUnchanged(m)
  /\ location' = [location EXCEPT ![e] = dst]
  /\ state' = [state EXCEPT ![e] = ACTIVE]
  /\ gen' = [gen EXCEPT ![e] = handle[m].gen + 1]
  /\ add_deferred_free(location[e])
  /\ handle' = [handle EXCEPT ![m] = None]
  /\ UNCHANGED <<entries, used, live, nextId, freeLists, erased, seqno, space, leaked>>

(* Mutant: abort_migration does not put the state back to ACTIVE.           *)
abort_migration_stuck(m, dsts) ==
  /\ handle[m] # None
  /\ \/ dsts = {} /\ UNCHANGED deferred
     \/ \E l \in dsts : add_deferred_free(l)
  /\ handle' = [handle EXCEPT ![m] = None]
  /\ UNCHANGED <<entries, location, state, gen, used, live, nextId, freeLists, erased, seqno, space, leaked>>

(* abort_migration (a no-op once the entry has left the map), then          *)
(* release_source for each location in dsts (at most one: the destination). *)
abort_migration(m, dsts) ==
  LET e == handle[m].eid IN
  /\ handle[m] # None
  /\ state' = IF e \in entries THEN [state EXCEPT ![e] = ACTIVE] ELSE state
  /\ \/ dsts = {} /\ UNCHANGED deferred
     \/ \E l \in dsts : add_deferred_free(l)
  /\ handle' = [handle EXCEPT ![m] = None]
  /\ UNCHANGED <<entries, location, gen, used, live, nextId, freeLists, erased, seqno, space, leaked>>

(* free: the entry leaves the map under map_lock_ ...                       *)
free_erase(e) ==
  /\ e \in entries
  /\ entries' = entries \ {e}
  /\ erased' = erased \cup {e}
  /\ UNCHANGED <<entryVars, nextId, freeLists, deferred, seqno, space, leaked, handle>>

(* Mutant: free forgets to defer the location.                              *)
free_defer_leak(e) ==
  /\ e \in erased
  /\ erased' = erased \ {e}
  /\ freeLists' = freeLists \ {<<location[e][1], free_bytes_of(e), e>>}
  /\ UNCHANGED <<entries, entryVars, nextId, deferred, seqno, space, leaked, handle>>

(* ... and its location is deferred later, under its struct_lock.           *)
free_defer(e) ==
  /\ e \in erased
  /\ erased' = erased \ {e}
  /\ freeLists' = freeLists \ {<<location[e][1], free_bytes_of(e), e>>}
  /\ add_deferred_free(location[e])
  /\ UNCHANGED <<entries, entryVars, nextId, seqno, space, leaked, handle>>

(* The end of a successful compaction: the mover frees the extent it holds  *)
(* and drops its handle; the erased entry stays MIGRATING.                  *)
free_claimed(m) ==
  LET e == handle[m].eid IN
  /\ handle[m] # None
  /\ entries' = entries \ {e}
  /\ erased' = IF e \in entries THEN erased \cup {e} ELSE erased
  /\ handle' = [handle EXCEPT ![m] = None]
  /\ UNCHANGED <<entryVars, nextId, freeLists, deferred, seqno, space, leaked>>

(* Mutant: one call ago is enough.                                          *)
AgedAfterOne(d) == seqno - d[2] >= 1

(* Release what was deferred two or more calls ago.                         *)
Aged(d) == seqno - d[2] >= 2
AgedAt(u) == {d \in deferred : u \in Units(d[1]) /\ Aged(d)}

process_deferred_free ==
  /\ seqno < MaxCycles
  /\ seqno' = seqno + 1
  /\ space' = [u \in Unit |-> space[u] + Cardinality(AgedAt(u))]
  /\ deferred' = {d \in deferred : ~Aged(d)}
  /\ UNCHANGED <<entries, entryVars, nextId, freeLists, erased, leaked, handle>>

-----------------------------------------------------------------------------
(* ExtentMap under any callers.  A method that returns early (no entry, not *)
(* ACTIVE, no room, generation changed) changes nothing.  Callers are       *)
(* assumed not to overlap in the unsynchronised `next_extent_id++'; Btier   *)
(* models what happens when they do.                                        *)

Created == 1..(nextId - 1)
Bounded == Cardinality(deferred) < MaxDeferred

AppendSlot == \E e \in Created, n \in 0..Slots : gen[e] < MaxGen /\ append_slot(e, n)
MarkDeadSlot == \E e \in Created, n \in 0..Slots : gen[e] < MaxGen /\ mark_dead_slot(e, n)
(* A call that finds nothing at all takes nothing: a stutter.               *)
AllocateSpace ==
  /\ space' # space
  /\ \E t \in Tier, n \in 1..(Slots + 1) :
       allocation_fails(t, n) \/ \E a \in Answers(t, n) : allocate(t, n, a)
InstallEntry == nextId <= MaxExtents /\ \E l \in Loc : install_entry(nextId, l)
BeginMigration == \E m \in Movers, e \in Created : begin_migration(m, e)
CommitMigration == \E m \in Movers, l \in Loc : Bounded /\ commit_migration(m, l)
AbortMigration ==
  \E m \in Movers : \/ abort_migration(m, {})
                    \/ \E l \in Loc : Bounded /\ abort_migration(m, {l})
FreeErase == \E e \in Created : free_erase(e)
FreeDefer == \E e \in Created : Bounded /\ free_defer(e)
FreeClaimed == \E m \in Movers : free_claimed(m)

ExtentMapNext ==
  \/ AppendSlot
  \/ MarkDeadSlot
  \/ AllocateSpace
  \/ InstallEntry
  \/ BeginMigration
  \/ CommitMigration
  \/ AbortMigration
  \/ FreeErase
  \/ FreeDefer
  \/ FreeClaimed
  \/ process_deferred_free

(* Box of ExtentMapNext, with the stutters told apart first: most steps of   *)
(* a caller leave the map alone, and TLC then tries no action on them.      *)
ExtentMapSpec ==
  ExtentMapInit /\ [][extentVars' # extentVars => ExtentMapNext]_extentVars

-----------------------------------------------------------------------------
(* Properties.                                                              *)

(* begin_migration and abort_migration together are a lock: no two movers   *)
(* hold the same extent, and a mapped extent is MIGRATING exactly while a   *)
(* mover holds it, so no path leaves an extent closed to appends for ever.  *)
ClaimExclusive ==
  /\ \A m1, m2 \in Movers :
       m1 # m2 /\ handle[m1] # None /\ handle[m2] # None => handle[m1].eid # handle[m2].eid
  /\ \A e \in entries :
       state[e] = MIGRATING <=> \E m \in Movers : handle[m] # None /\ handle[m].eid = e

(* The migration interrupt protocol (docs/design/btier.md 4.3): as long as  *)
(* the generation of a claimed extent equals the one the handle recorded,   *)
(* no slot was appended to it and none was marked dead since the claim.     *)
GenerationProtocol ==
  \A m \in Movers :
    handle[m] # None /\ GenUnchanged(m) =>
      /\ used[handle[m].eid] = handle[m].used
      /\ live[handle[m].eid] = handle[m].live

(* An extent that was handed out changes its location only when a mover     *)
(* that holds it commits, from the source the handle recorded, with no      *)
(* append and no dead slot since the claim, and it keeps its slots.         *)
MovesOnlyByCommit ==
  [][\A e \in Created : location'[e] # location[e] =>
       /\ \E m \in Movers :
            /\ handle[m] # None
            /\ handle[m].eid = e
            /\ handle[m].src = location[e]
            /\ handle[m].used = used[e]
            /\ handle[m].live = live[e]
       /\ used'[e] = used[e]
       /\ live'[e] = live[e]]_extentVars

=============================================================================
