-------------------------------- MODULE Btier --------------------------------
(***************************************************************************)
(* btier/btier.cc and btier/migration_engine.cc over ExtentMap and KeyMap: *)
(* client threads running put, del and get, the migration worker, crashes  *)
(* and restarts.  A step is a method call on a component (its locked body) *)
(* or one device or journal I/O; threads interleave between steps.         *)
(*                                                                         *)
(* The journal is its promise to the engine: the sequence of transactions  *)
(* committed since the checkpoint, in order (module Journal models the     *)
(* ring that implements it).  OP_MARK_DEAD records are left out: recovery  *)
(* overwrites the only field they touch.  Device contents are tagged with  *)
(* the key and value last written to a unit; the n-th call puts value n.   *)
(* Data I/O is buffered: nothing checks it against the end of a device, and *)
(* what is written past the end is dropped.                                *)
(***************************************************************************)
EXTENDS ExtentMap, KeyMap, SequencesExt

CONSTANTS
  SmallSlots,      (* slots of cfg.extent_size, the extent small values share *)
  Large,           (* slots of a large value, which has an extent of its own  *)
  Writers,         (* threads that call put and del                           *)
  Readers,         (* threads that call get                                   *)
  Worker,          (* the mover that runs the cycles                          *)
  Background,      (* TRUE: cycles overlap client calls; FALSE: they do not   *)
  MaxMigrations,   (* cfg.max_migrations_per_cycle, 0 or 1                    *)
  MaxCompactions,  (* extents compacted per cycle, 0 or 1                     *)
  JournalCap,      (* size of the journal, in transactions                    *)
  ReadGrace,       (* cycles a get may last                                   *)
  MaxOps,          (* bound on the put, del and get calls                     *)
  MaxTasks,        (* bound on the worker's tasks, over all restarts          *)
  MaxRounds,       (* bound on the worker's cycles, over all restarts         *)
  MaxRestarts,     (* bound on crashes and clean restarts                     *)
  MaxFaults,       (* bound on restarts and failed device or journal I/O      *)
  Maybe

ASSUME BtierAssumption ==
  /\ Movers = {Worker}
  /\ Extents = 1..MaxExtents
  /\ SmallSlots \in 1..Slots
  /\ Large \in 2..Slots
  /\ MaxMigrations \in {0, 1}
  /\ MaxCompactions \in {0, 1}
  /\ JournalCap \in Nat \ {0}
  /\ MaxOps \in Nat
  /\ ReadGrace \in 0..2
  /\ 0..Slots \subseteq Offsets /\ 0..Slots \subseteq Lengths

VARIABLES
  data,      (* contents of the devices: unit -> <<key, value>>              *)
  jlog,      (* committed transactions since the checkpoint                  *)
  cl,        (* client thread -> its call in progress                        *)
  mg,        (* the worker's program counter and locals                      *)
  acked,     (* history: key -> value of the last put or del that returned 0,*)
             (* None if deleted, Maybe if a crash cut its call short         *)
  sure,      (* history: keys whose acked value the engine still owes        *)
  exposed,   (* history: keys put again after a del in the same journal      *)
  drifted,   (* history: the journal does not describe the maps: an extent   *)
             (* or a key moved since the checkpoint, a failed commit left    *)
             (* its transaction, a put took the checkpoint it is not in, or  *)
             (* a migration wrote over the journal on the FAST device        *)
  forked,    (* history: a crash in such a state                             *)
  restored,  (* history: extents rebuilt by the last recovery                *)
  doubled,   (* history: units on deferred_free_ twice, by free() and by a   *)
             (* commit_migration() that found the entry just before it       *)
  ops, rounds, tasks, restarts, ioErrors   (* counters for the bounds               *)

ghostVars == <<acked, sure, exposed, drifted, forked, restored, doubled>>
boundVars == <<ops, rounds, tasks, restarts, ioErrors>>
vars == <<extentVars, keyVars, data, jlog, cl, mg, ghostVars, boundVars>>

Clients == Writers \cup Readers

Idle == [pc |-> "idle", op |-> None, key |-> None, val |-> None, len |-> 0, old |-> Absent,
         eid |-> 0, off |-> 0, loc |-> None, fresh |-> FALSE, retried |-> FALSE,
         then |-> None, ckpt |-> <<>>, born |-> 0]
WorkerIdle == [pc |-> "idle", queue |-> <<>>, to |-> None, new |-> 0, loc |-> None,
               keys |-> {}, updates |-> <<>>, copy |-> None]

NewRec(e, l) == [op |-> "NEW", eid |-> e, loc |-> l]
PutRec(k, kl) == [op |-> "PUT", key |-> k, kloc |-> kl]
DelRec(k) == [op |-> "DEL", key |-> k]

AllIdle == \A c \in Clients : cl[c].pc = "idle"
Quiescent == AllIdle /\ mg.pc = "idle"
Updated(f, r) == [x \in DOMAIN f |-> IF x \in DOMAIN r THEN r[x] ELSE f[x]]
Go(c, r) == cl' = [cl EXCEPT ![c] = Updated(@, r)]
GoWorker(r) == mg' = Updated(mg, r)

Keep == UNCHANGED <<ghostVars, boundVars>>     \* neither history nor bounds change
KeepButIo == UNCHANGED <<ghostVars, ops, rounds, tasks, restarts>>
KeepButLog == UNCHANGED <<acked, sure, exposed, forked, restored, doubled, ops, rounds, tasks, restarts>>
IoError == restarts + ioErrors < MaxFaults /\ ioErrors' = ioErrors + 1

-----------------------------------------------------------------------------
(* The journal as the engine uses it.                                       *)

Commit(txn) == jlog' = Append(jlog, txn)
(* A failed commit: the write failed, or only the flush after it; then the  *)
(* transaction is in the ring all the same.                                 *)
CommitFails(txn) ==
  \/ UNCHANGED <<jlog, drifted>>
  \/ Commit(txn) /\ drifted' = TRUE
is_near_full(l) == Len(l) * 100 >= 95 * JournalCap
needs_checkpoint(l) == Len(l) * 100 >= 80 * JournalCap

(* One EXTENT_NEW per mapped extent, followed by one KEY_PUT per key in it. *)
build_checkpoint_state ==
  FlattenSeq([i \in 1..Cardinality(entries) |->
    LET e == SetToSortSeq(entries, <)[i]
        ks == SetToSeq(keys_in_extent(e))
    IN <<NewRec(e, location[e])>> \o [j \in DOMAIN ks |-> PutRec(ks[j], kmap[ks[j]])]])

-----------------------------------------------------------------------------
(* put.                                                                     *)

Quiet == Background \/ mg.pc = "idle"

PutStart(c, k, n) ==
  /\ cl[c].pc = "idle" /\ ops < MaxOps /\ Quiet
  /\ Go(c, [op |-> "put", key |-> k, val |-> ops + 1, len |-> n, then |-> "lookup",
            pc |-> IF is_near_full(jlog) THEN "ckpt" ELSE "lookup"])
  /\ ops' = ops + 1
  /\ UNCHANGED <<extentVars, keyVars, data, jlog, mg, ghostVars, rounds, tasks, restarts, ioErrors>>

(* The snapshot is built outside the journal's lock ...                     *)
CkptBuild(c) ==
  /\ cl[c].pc = "ckpt"
  /\ Go(c, [pc |-> "ckpt_write", ckpt |-> build_checkpoint_state])
  /\ UNCHANGED <<extentVars, keyVars, data, jlog, mg>> /\ Keep

(* ... and replaces the transactions before it.                             *)
CkptWrite(c) ==
  /\ cl[c].pc = "ckpt_write"
  /\ jlog' = <<cl[c].ckpt>>
  /\ Go(c, [pc |-> cl[c].then, ckpt |-> <<>>])
  /\ exposed' = {} /\ drifted' = (cl[c].then = "apply")
  /\ UNCHANGED <<extentVars, keyVars, data, mg, acked, sure, forked, restored, doubled, boundVars>>

PutLookup(c) ==
  /\ cl[c].pc = "lookup" /\ cl[c].op = "put"
  /\ Go(c, [pc |-> IF cl[c].len = Large THEN "alloc" ELSE "find", old |-> kmap[cl[c].key]])
  /\ UNCHANGED <<extentVars, keyVars, data, jlog, mg>> /\ Keep

PutFind(c) ==
  LET e == find_extent_with_space(FAST, cl[c].len) IN
  /\ cl[c].pc = "find"
  /\ Go(c, IF e = None THEN [pc |-> "alloc"] ELSE [pc |-> "locate", eid |-> e])
  /\ UNCHANGED <<extentVars, keyVars, data, jlog, mg>> /\ Keep

(* get_location: the extent may have been freed since it was found.         *)
PutLocate(c) ==
  LET e == cl[c].eid IN
  /\ cl[c].pc = "locate"
  /\ Go(c, IF e \in entries THEN [pc |-> "append", loc |-> location[e]] ELSE [pc |-> "fail"])
  /\ UNCHANGED <<extentVars, keyVars, data, jlog, mg>> /\ Keep

(* The block of a large value is the value and a header (btier.cc:347), of  *)
(* small values cfg.extent_size (395, 429).                                 *)
RequestedUnits(c) == 1 + IF cl[c].len = Large THEN Large ELSE SmallSlots

(* Mutant: the id is taken after the increment.                             *)
PutAllocPreIncrement(c) ==
  LET t == IF cl[c].pc = "alloc" THEN FAST ELSE SLOW
      n == RequestedUnits(c)
  IN
  /\ cl[c].pc \in {"alloc", "alloc_slow"} /\ nextId <= MaxExtents
  /\ \/ /\ allocation_fails(t, n)
        /\ Go(c, [pc |-> IF t = FAST THEN "alloc_slow" ELSE "fail"])
     \/ \E a \in Answers(t, n) :
          /\ allocate(t, n, a)
          /\ Go(c, [pc |-> "install", eid |-> nextId + 1, loc |-> a.first])
  /\ UNCHANGED <<keyVars, data, jlog, mg>> /\ Keep

(* allocate_extent(FAST), which tries SLOW when FAST fails: the space, and  *)
(* the id read from next_extent_id.  The increment is stored in the next    *)
(* step: it is not synchronised.                                            *)
PutAlloc(c) ==
  LET t == IF cl[c].pc = "alloc" THEN FAST ELSE SLOW
      n == RequestedUnits(c)
  IN
  /\ cl[c].pc \in {"alloc", "alloc_slow"} /\ nextId <= MaxExtents
  /\ \/ /\ allocation_fails(t, n)
        /\ Go(c, [pc |-> IF t = FAST THEN "alloc_slow" ELSE "fail"])
     \/ \E a \in Answers(t, n) :
          /\ allocate(t, n, a)
          /\ Go(c, [pc |-> "install", eid |-> nextId, loc |-> a.first])
  /\ UNCHANGED <<keyVars, data, jlog, mg>> /\ Keep

PutInstall(c) ==
  /\ cl[c].pc = "install"
  /\ install_entry(cl[c].eid, cl[c].loc)
  /\ Go(c, [pc |-> "prelog", fresh |-> TRUE])
  /\ UNCHANGED <<keyVars, data, jlog, mg>> /\ Keep

(* The pre-transaction, or its failure: the new extent is freed.            *)
PutPrelog(c) ==
  /\ cl[c].pc = "prelog"
  /\ \/ /\ Commit(<<NewRec(cl[c].eid, cl[c].loc)>>)
        /\ Go(c, [pc |-> "append"])
        /\ UNCHANGED <<ioErrors, drifted>>
     \/ /\ IoError
        /\ Go(c, [pc |-> "free", then |-> "fail"])
        /\ CommitFails(<<NewRec(cl[c].eid, cl[c].loc)>>)
  /\ UNCHANGED <<extentVars, keyVars, data, mg>> /\ KeepButLog

(* append_slot.  On failure a fresh extent is freed; a small value is tried *)
(* once more with an extent of its own.                                     *)
PutAppend(c) ==
  LET e == cl[c].eid
      last == cl[c].retried \/ cl[c].len = Large
  IN
  /\ cl[c].pc = "append"
  /\ \/ /\ e \in entries
        /\ append_slot(e, cl[c].len)
        /\ Go(c, [pc |-> "write", off |-> used[e]])
        /\ sure' = IF e \in restored THEN sure \ keys_in_extent(e) ELSE sure
     \/ /\ ~(e \in entries /\ CanAppend(e, cl[c].len))
        /\ Go(c, [retried |-> TRUE,
                  then |-> IF last THEN "fail" ELSE "alloc",
                  pc |-> IF cl[c].fresh THEN "free" ELSE "alloc"])
        /\ UNCHANGED <<extentVars, sure>>
  /\ UNCHANGED <<keyVars, data, jlog, mg, acked, exposed, drifted, forked, restored, doubled, boundVars>>

(* Mutant: the reserved slot of a shared extent is left live.               *)
UndoKeepsSlot(c) ==
  /\ Go(c, IF cl[c].fresh THEN [pc |-> "free", eid |-> cl[c].eid, then |-> "fail"]
           ELSE [pc |-> "fail"])
  /\ UNCHANGED extentVars

(* Undo after a failed write: free a fresh extent, else kill the slot.      *)
Undo(c) ==
  \/ /\ cl[c].fresh
     /\ Go(c, [pc |-> "free", eid |-> cl[c].eid, then |-> "fail"])
     /\ UNCHANGED extentVars
  \/ /\ ~cl[c].fresh
     /\ Go(c, [pc |-> "fail"])
     /\ IF cl[c].eid \in entries THEN mark_dead_slot(cl[c].eid, cl[c].len)
        ELSE UNCHANGED extentVars

(* The value goes to the location read before append_slot.                  *)
PutWrite(c) ==
  /\ cl[c].pc = "write"
  /\ \/ /\ data' = [u \in Unit |-> IF u \in SlotUnits(cl[c].loc, cl[c].off, cl[c].len)
                                    THEN <<cl[c].key, cl[c].val>> ELSE data[u]]
        /\ Go(c, [pc |-> "log"])
        /\ UNCHANGED <<extentVars, ioErrors>>
     \/ IoError /\ Undo(c) /\ UNCHANGED data
  /\ UNCHANGED <<keyVars, jlog, mg>> /\ KeepButIo

NewLocation(c) == [eid |-> cl[c].eid, off |-> cl[c].off, len |-> cl[c].len]

(* The main transaction; a checkpoint may follow before KeyMap::put.        *)
PutLog(c) ==
  /\ cl[c].pc = "log" /\ cl[c].op = "put"
  /\ \/ /\ Commit(<<PutRec(cl[c].key, NewLocation(c))>>)
        /\ Go(c, [pc |-> IF needs_checkpoint(jlog') THEN "ckpt" ELSE "apply", then |-> "apply"])
        /\ UNCHANGED <<extentVars, ioErrors, drifted>>
     \/ IoError /\ Undo(c) /\ CommitFails(<<PutRec(cl[c].key, NewLocation(c))>>)
  /\ UNCHANGED <<keyVars, data, mg>> /\ KeepButLog

(* Mutant: KeyMap::put does not touch the reverse index.                    *)
PutApplyUnindexed(c) ==
  /\ cl[c].pc = "apply" /\ cl[c].op = "put"
  /\ kmap' = [kmap EXCEPT ![cl[c].key] = NewLocation(c)]
  /\ Go(c, [pc |-> IF cl[c].old = Absent THEN "return" ELSE "dead"])
  /\ UNCHANGED <<extentVars, reverseIndex, data, jlog, mg>> /\ Keep

PutApply(c) ==
  /\ cl[c].pc = "apply" /\ cl[c].op = "put"
  /\ KeyPut(cl[c].key, NewLocation(c))
  /\ Go(c, [pc |-> IF cl[c].old = Absent THEN "return" ELSE "dead"])
  /\ UNCHANGED <<extentVars, data, jlog, mg>> /\ Keep

-----------------------------------------------------------------------------
(* del, and the tail it shares with put.                                    *)

DelStart(c, k) ==
  /\ cl[c].pc = "idle" /\ ops < MaxOps /\ Quiet
  /\ kmap[k] # Absent
  /\ Go(c, [op |-> "del", key |-> k, old |-> kmap[k], pc |-> "log"])
  /\ ops' = ops + 1
  /\ UNCHANGED <<extentVars, keyVars, data, jlog, mg, ghostVars, rounds, tasks, restarts, ioErrors>>

DelLog(c) ==
  /\ cl[c].pc = "log" /\ cl[c].op = "del"
  /\ \/ Commit(<<DelRec(cl[c].key)>>) /\ Go(c, [pc |-> "apply"]) /\ UNCHANGED <<ioErrors, drifted>>
     \/ IoError /\ Go(c, [pc |-> "fail"]) /\ CommitFails(<<DelRec(cl[c].key)>>)
  /\ UNCHANGED <<extentVars, keyVars, data, mg>> /\ KeepButLog

DelApply(c) ==
  /\ cl[c].pc = "apply" /\ cl[c].op = "del"
  /\ KeyErase(cl[c].key)
  /\ Go(c, [pc |-> "dead"])
  /\ UNCHANGED <<extentVars, data, jlog, mg>> /\ Keep

MarkOldDead(c) ==
  LET e == cl[c].old.eid IN
  /\ cl[c].pc = "dead"
  /\ IF e \in entries THEN mark_dead_slot(e, cl[c].old.len) ELSE UNCHANGED extentVars
  /\ Go(c, [pc |-> "check"])
  /\ UNCHANGED <<keyVars, data, jlog, mg>> /\ Keep

(* get_live_bytes, then free: a check and an act with nothing between them. *)
CheckOldLive(c) ==
  LET e == cl[c].old.eid IN
  /\ cl[c].pc = "check"
  /\ Go(c, IF e \in entries /\ live[e] = 0 THEN [pc |-> "free", eid |-> e, then |-> "return"]
           ELSE [pc |-> "return"])
  /\ UNCHANGED <<extentVars, keyVars, data, jlog, mg>> /\ Keep

ClientFreeErase(c) ==
  /\ cl[c].pc = "free"
  /\ \/ free_erase(cl[c].eid) /\ Go(c, [pc |-> "defer"])
     \/ cl[c].eid \notin entries /\ Go(c, [pc |-> cl[c].then]) /\ UNCHANGED extentVars
  /\ UNCHANGED <<keyVars, data, jlog, mg>> /\ Keep

ClientFreeDefer(c) ==
  /\ cl[c].pc = "defer"
  /\ free_defer(cl[c].eid)
  /\ Go(c, [pc |-> cl[c].then, fresh |-> FALSE])
  /\ UNCHANGED <<keyVars, data, jlog, mg>> /\ Keep

(* The call returns: 0, or the error it met.                                *)
Return(c) ==
  /\ cl[c].pc \in {"return", "fail"}
  /\ LET k == cl[c].key
         deletedBefore == cl[c].op = "put" /\ DelRec(k) \in Range(FlattenSeq(jlog))
     IN IF cl[c].pc = "fail" THEN UNCHANGED <<acked, sure, exposed>>
        ELSE /\ acked' = [acked EXCEPT ![k] = IF cl[c].op = "put" THEN cl[c].val ELSE None]
             /\ sure' = sure \cup {k}
             /\ exposed' = IF deletedBefore THEN exposed \cup {k} ELSE exposed \ {k}
  /\ cl' = [cl EXCEPT ![c] = Idle]
  /\ UNCHANGED <<extentVars, keyVars, data, jlog, mg, drifted, forked, restored, doubled, boundVars>>

-----------------------------------------------------------------------------
(* get.                                                                     *)

GetLookup(c, k) ==
  /\ cl[c].pc = "idle" /\ ops < MaxOps /\ Quiet
  /\ kmap[k] # Absent
  /\ Go(c, [op |-> "get", key |-> k, old |-> kmap[k], pc |-> "getloc", born |-> seqno])
  /\ ops' = ops + 1
  /\ UNCHANGED <<extentVars, keyVars, data, jlog, mg, ghostVars, rounds, tasks, restarts, ioErrors>>

GetLocation(c) ==
  LET e == cl[c].old.eid IN
  /\ cl[c].pc = "getloc"
  /\ Go(c, IF e \in entries THEN [pc |-> "read", loc |-> location[e]] ELSE Idle)
  /\ UNCHANGED <<extentVars, keyVars, data, jlog, mg>> /\ Keep

GetRead(c) ==
  /\ cl[c].pc = "read"
  /\ Go(c, Idle)
  /\ UNCHANGED <<extentVars, keyVars, data, jlog, mg>> /\ Keep

-----------------------------------------------------------------------------
(* The worker: run_cycle_inline and process_queue.                          *)

h == handle[Worker]

(* The scores are floating point: which extents reach a threshold is free.  *)
TierTasks ==
  {[type |-> "TIER", eid |-> e, to |-> IF location[e][1] = FAST THEN SLOW ELSE FAST] : e \in entries}
(* A cycle compacts extents that are mostly dead and mostly used;           *)
(* compact_extent(id) accepts any.                                          *)
CompactTasks == {[type |-> "COMPACT", eid |-> e, to |-> None] : e \in entries}
AtMost(n, S) == {<<>>} \cup (IF n = 0 THEN {} ELSE {<<x>> : x \in S})

(* The documented grace period: a get ends before two more cycles start.    *)
GraceHolds == \A c \in Clients : cl[c].op = "get" => seqno - cl[c].born < ReadGrace

CycleStart ==
  /\ mg.pc = "idle"
  /\ Background \/ AllIdle
  /\ GraceHolds
  /\ rounds < MaxRounds /\ rounds' = rounds + 1
  /\ process_deferred_free
  /\ GoWorker([pc |-> "plan"])
  /\ UNCHANGED <<keyVars, data, jlog, cl, ghostVars, ops, tasks, restarts, ioErrors>>

CyclePlan ==
  /\ mg.pc = "plan"
  /\ \E t \in AtMost(MaxMigrations, TierTasks), x \in AtMost(MaxCompactions, CompactTasks) :
       /\ tasks + Len(t \o x) <= MaxTasks
       /\ tasks' = tasks + Len(t \o x)
       /\ GoWorker([pc |-> "next", queue |-> t \o x])
  /\ UNCHANGED <<extentVars, keyVars, data, jlog, cl, ghostVars, ops, rounds, restarts, ioErrors>>

(* Pop a task and claim its extent, or give it up.                          *)
NextTask ==
  /\ mg.pc = "next"
  /\ \/ /\ mg.queue = <<>>
        /\ mg' = WorkerIdle
        /\ UNCHANGED extentVars
     \/ /\ mg.queue # <<>>
        /\ LET t == Head(mg.queue) IN
           \/ /\ t.eid \in entries
              /\ begin_migration(Worker, t.eid)
              /\ GoWorker([pc |-> IF t.type = "TIER" THEN "tread" ELSE "ckeys",
                           to |-> t.to, queue |-> Tail(mg.queue)])
           \/ /\ ~(t.eid \in entries /\ state[t.eid] = ACTIVE)
              /\ GoWorker([queue |-> Tail(mg.queue)])
              /\ UNCHANGED extentVars
  /\ UNCHANGED <<keyVars, data, jlog, cl>> /\ Keep

Done == mg' = [WorkerIdle EXCEPT !.pc = "next", !.queue = mg.queue]

(* What a read finds there: nothing, in the journal or past the end.        *)
Contents(u) == IF u \in Unit THEN data[u] ELSE None

(* migrate_tier: read the whole source ...                                  *)
TierRead ==
  /\ mg.pc = "tread"
  /\ \/ /\ GoWorker([pc |-> "talloc",
                      copy |-> [i \in 0..(h.src[3] - 1) |-> Contents(<<h.src[1], h.src[2] + i>>)]])
        /\ UNCHANGED <<extentVars, ioErrors>>
     \/ IoError /\ abort_migration(Worker, {}) /\ Done
  /\ UNCHANGED <<keyVars, data, jlog, cl>> /\ KeepButIo

(* ... allocate_raw(to), which tries SLOW when FAST fails ...               *)
TierAlloc ==
  LET t == IF mg.pc = "talloc" THEN mg.to ELSE SLOW
      n == h.src[3]
  IN
  /\ mg.pc \in {"talloc", "talloc_slow"}
  /\ \/ /\ allocation_fails(t, n)
        /\ GoWorker([pc |-> IF t = FAST THEN "talloc_slow" ELSE "nospace"])
     \/ \E a \in Answers(t, n) : allocate(t, n, a) /\ GoWorker([pc |-> "twrite", loc |-> a.first])
  /\ UNCHANGED <<keyVars, data, jlog, cl>> /\ Keep

(* No space on either tier, for a migration or a compaction.                *)
NoSpace ==
  /\ mg.pc = "nospace"
  /\ abort_migration(Worker, {}) /\ Done
  /\ UNCHANGED <<keyVars, data, jlog, cl>> /\ Keep

KeyUnits(k) == SlotUnits(location[kmap[k].eid], kmap[k].off, kmap[k].len)
KeysOn(S) == {k \in Keys : kmap[k] # Absent /\ kmap[k].eid \in Eid /\ KeyUnits(k) \cap S # {}}
InJournal(S) == \E u \in S : u[1] = FAST /\ \A f \in FastUnits : u[2] < f

(* ... write all that was read at the offset of the location, on the device *)
(* of tier `to': past the end of a location that is shorter than the        *)
(* source, and on the wrong device after a fallback ...                     *)
TierWrite ==
  LET at == <<mg.to, mg.loc[2], h.src[3]>>
      stray == Units(at) \ Units(mg.loc)
      lost == {k \in keys_in_extent(h.eid) :
                 ~(SlotUnits(mg.loc, kmap[k].off, kmap[k].len) \subseteq Units(at) \cap Units(mg.loc))}
  IN
  /\ mg.pc = "twrite"
  /\ \/ /\ data' = [u \in Unit |-> IF u \in Units(at) THEN mg.copy[u[2] - mg.loc[2]] ELSE data[u]]
        /\ sure' = sure \ (lost \cup KeysOn(stray))
        /\ drifted' = (drifted \/ InJournal(stray))
        /\ GoWorker([pc |-> "tcommit"])
        /\ UNCHANGED <<extentVars, ioErrors>>
     \/ /\ IoError /\ abort_migration(Worker, {mg.loc}) /\ Done
        /\ UNCHANGED <<data, sure, drifted>>
  /\ UNCHANGED <<keyVars, jlog, cl, acked, exposed, forked, restored, doubled, ops, rounds, tasks, restarts>>

(* ... and commit_migration: look the entry up ...                          *)
TierCommitLookup ==
  /\ mg.pc = "tcommit"
  /\ \/ h.eid \in entries /\ GoWorker([pc |-> "tlocked"]) /\ UNCHANGED extentVars
     \/ h.eid \notin entries /\ abort_migration(Worker, {mg.loc}) /\ Done
  /\ UNCHANGED <<keyVars, data, jlog, cl>> /\ Keep

(* ... then, under its struct_lock, commit or give up.                      *)
TierCommit ==
  /\ mg.pc = "tlocked"
  /\ \/ /\ commit_migration(Worker, mg.loc) /\ drifted' = TRUE
        /\ doubled' = IF h.eid \in entries \cup erased THEN doubled
                      ELSE doubled \cup Units(location[h.eid])
     \/ /\ ~GenUnchanged(Worker) /\ abort_migration(Worker, {mg.loc})
        /\ UNCHANGED <<drifted, doubled>>
  /\ Done
  /\ UNCHANGED <<keyVars, data, jlog, cl, acked, sure, exposed, forked, restored, boundVars>>

(* compact: the keys of the extent; with none it is freed at once.          *)
CompactKeys ==
  /\ mg.pc = "ckeys"
  /\ GoWorker(IF keys_in_extent(h.eid) = {} THEN [pc |-> "cfree"]
              ELSE [pc |-> "calloc", keys |-> keys_in_extent(h.eid)])
  /\ UNCHANGED <<extentVars, keyVars, data, jlog, cl>> /\ Keep

CompactAlloc ==
  LET t == IF mg.pc = "calloc" THEN h.src[1] ELSE SLOW
      n == h.src[3]
  IN
  /\ mg.pc \in {"calloc", "calloc_slow"} /\ nextId <= MaxExtents
  /\ \/ /\ allocation_fails(t, n)
        /\ GoWorker([pc |-> IF t = FAST THEN "calloc_slow" ELSE "nospace"])
     \/ \E a \in Answers(t, n) :
          allocate(t, n, a) /\ GoWorker([pc |-> "cinstall", new |-> nextId, loc |-> a.first])
  /\ UNCHANGED <<keyVars, data, jlog, cl>> /\ Keep

CompactInstall ==
  /\ mg.pc = "cinstall"
  /\ install_entry(mg.new, mg.loc)
  /\ GoWorker([pc |-> "ccopy"])
  /\ UNCHANGED <<keyVars, data, jlog, cl>> /\ Keep

(* Copy one key: look it up again, read its slots at the source, reserve    *)
(* slots in the new extent, write them on the source's device.              *)
CompactCopy ==
  /\ mg.pc = "ccopy" /\ mg.keys # {}
  /\ LET k == CHOOSE x \in mg.keys : TRUE
         old == LookupOrZero(k)
         new == [eid |-> mg.new, off |-> used[mg.new], len |-> old.len]
         to == SlotUnits(<<h.src[1], mg.loc[2], mg.loc[3]>>, new.off, new.len)
         from(u) == <<h.src[1], h.src[2] + old.off + (u[2] - mg.loc[2] - new.off)>>
         stray == to \ Units(mg.loc)
     IN
     \/ /\ mg.new \in entries
        /\ append_slot(mg.new, old.len)
        /\ data' = [u \in Unit |-> IF u \in to THEN Contents(from(u)) ELSE data[u]]
        /\ sure' = IF stray = {} THEN sure ELSE sure \ ({k} \cup KeysOn(stray))
        /\ drifted' = (drifted \/ InJournal(stray))
        /\ GoWorker([keys |-> mg.keys \ {k},
                     updates |-> [x \in DOMAIN mg.updates \cup {k} |->
                                    IF x = k THEN new ELSE mg.updates[x]]])
        /\ UNCHANGED ioErrors
     \/ /\ \/ ~(mg.new \in entries /\ CanAppend(mg.new, old.len)) /\ UNCHANGED ioErrors
           \/ IoError
        /\ abort_migration(Worker, {})
        /\ GoWorker([pc |-> "cundo"])
        /\ UNCHANGED <<data, sure, drifted>>
  /\ UNCHANGED <<keyVars, jlog, cl, acked, exposed, forked, restored, doubled, ops, rounds, tasks, restarts>>

(* check_migration passes, or the copy is dropped.                          *)
CompactCheck ==
  /\ mg.pc = "ccopy" /\ mg.keys = {}
  /\ \/ /\ h.eid \in entries /\ GenUnchanged(Worker)
        /\ GoWorker([pc |-> "cupdate"])
        /\ UNCHANGED extentVars
     \/ /\ ~(h.eid \in entries /\ GenUnchanged(Worker))
        /\ abort_migration(Worker, {})
        /\ GoWorker([pc |-> "cundo"])
  /\ UNCHANGED <<keyVars, data, jlog, cl>> /\ Keep

CompactUpdate ==
  /\ mg.pc = "cupdate"
  /\ BatchUpdate(mg.updates, mg.new)
  /\ GoWorker([pc |-> "cfree"])
  /\ drifted' = TRUE
  /\ UNCHANGED <<extentVars, data, jlog, cl, acked, sure, exposed, forked, restored, doubled, boundVars>>

(* free of the compacted extent, or of the abandoned copy.                  *)
CompactFree ==
  /\ \/ mg.pc = "cfree" /\ free_claimed(Worker)
        /\ GoWorker([pc |-> IF h.eid \in entries THEN "cdefer" ELSE "cdone", new |-> h.eid])
     \/ mg.pc = "cundo" /\ free_erase(mg.new) /\ GoWorker([pc |-> "cdefer"])
     \/ mg.pc = "cundo" /\ mg.new \notin entries /\ GoWorker([pc |-> "cdone"]) /\ UNCHANGED extentVars
  /\ UNCHANGED <<keyVars, data, jlog, cl>> /\ Keep

CompactDefer ==
  /\ \/ mg.pc = "cdefer" /\ free_defer(mg.new)
     \/ mg.pc = "cdone" /\ UNCHANGED extentVars
  /\ Done
  /\ UNCHANGED <<keyVars, data, jlog, cl>> /\ Keep

-----------------------------------------------------------------------------
(* Restart: init() on the devices, recover_internal() on the journal.       *)

LastIndex(recs, S) ==
  LET is == {i \in DOMAIN recs : recs[i] \in S} IN IF is = {} THEN 0 ELSE Max(is)

PutsOf(recs, k) == {r \in Range(recs) : r.op = "PUT" /\ r.key = k}
DelsOf(recs, k) == {r \in Range(recs) : r.op = "DEL" /\ r.key = k}
NewsOf(recs, e) == {r \in Range(recs) : r.op = "NEW" /\ r.eid = e}

(* Mutant: recovery skips the KEY_DEL records.                              *)
RecoveredKeyNoDel(recs, k) ==
  LET p == LastIndex(recs, PutsOf(recs, k))
  IN IF p = 0 THEN Absent ELSE recs[p].kloc

(* Records are applied by kind, not in order: every EXTENT_NEW, then every  *)
(* KEY_PUT, then every KEY_DEL.                                             *)
RecoveredKey(recs, k) ==
  LET p == LastIndex(recs, PutsOf(recs, k))
  IN IF p = 0 \/ DelsOf(recs, k) # {} THEN Absent ELSE recs[p].kloc

recover_internal(recs) ==
  LET km == [k \in Keys |-> RecoveredKey(recs, k)]
      lastNew(e) == LastIndex(recs, NewsOf(recs, e))
      keysOf(e) == {k \in Keys : km[k] # Absent /\ km[k].eid = e}
      created == {e \in Eid : lastNew(e) # 0}
      kept == {e \in created : keysOf(e) # {}}
      total == [e \in Eid |-> IF e \in kept THEN MapThenSumSet(LAMBDA k : km[k].len, keysOf(e)) ELSE 0]
      where == [e \in Eid |-> IF e \in created THEN recs[lastNew(e)].loc ELSE None]
      room(e) == Capacity(where[e]) - total[e]
      hint(e) == IF room(e) < 0 THEN room(e) + Word ELSE room(e)
      hints(e) == {<<r.loc[1], Capacity(r.loc), e>> : r \in NewsOf(recs, e)}
                    \ {<<where[e][1], Capacity(where[e]), e>>}
      alone(S) == \A e, f \in S : e = f \/ Units(where[e]) \cap Units(where[f]) = {}
      covers(S, u) == \E e \in S : u \in Units(where[e])
  IN
  /\ kmap' = km
  /\ reverseIndex' = [e \in Eid |-> keysOf(e)]
  /\ entries' = kept
  /\ location' = where
  /\ state' = [e \in Eid |-> ACTIVE]
  /\ gen' = [e \in Eid |-> 0]
  /\ used' = total
  /\ live' = total
  /\ nextId' = IF created = {} THEN 1 ELSE Max(created) + 1
  /\ freeLists' = {<<where[e][1], hint(e), e>> : e \in kept} \cup UNION {hints(e) : e \in created}
  /\ \E S \in SUBSET kept :
       /\ alone(S) /\ \A e \in kept \ S : ~alone(S \cup {e})
       /\ space' = [u \in Unit |-> IF covers(S, u) THEN 0 ELSE 1]
  /\ leaked' = {}
  /\ erased' = {} /\ deferred' = {} /\ seqno' = 0
  /\ handle' = [m \in Movers |-> None]
  /\ restored' = kept

Reset == cl' = [c \in Clients |-> Idle] /\ mg' = WorkerIdle

(* The process dies (the page cache survives) and init() runs again.  With  *)
(* nothing to recover, init() writes an empty checkpoint.                   *)
Crash ==
  LET recs == FlattenSeq(jlog)
      cut == {cl[c].key : c \in {w \in Writers : cl[w].pc # "idle"}}
  IN
  /\ restarts < MaxRestarts /\ restarts + ioErrors < MaxFaults
  /\ restarts' = restarts + 1
  /\ recover_internal(recs)
  /\ jlog' = IF recs = <<>> THEN << <<>> >> ELSE jlog
  /\ Reset
  /\ acked' = [k \in Keys |-> IF k \in cut THEN Maybe ELSE acked[k]]
  /\ sure' = IF drifted THEN {} ELSE sure \ (exposed \cup cut)
  /\ forked' = (forked \/ drifted)
  /\ doubled' = {}
  /\ UNCHANGED <<data, exposed, drifted, ops, rounds, tasks, ioErrors>>

(* shutdown(): a checkpoint of the final state, then init() on it.          *)
CleanRestart ==
  /\ restarts < MaxRestarts /\ restarts + ioErrors < MaxFaults
  /\ Quiescent
  /\ restarts' = restarts + 1
  /\ jlog' = <<build_checkpoint_state>>
  /\ recover_internal(build_checkpoint_state)
  /\ Reset
  /\ exposed' = {} /\ drifted' = FALSE /\ doubled' = {}
  /\ UNCHANGED <<data, acked, sure, forked, ops, rounds, tasks, ioErrors>>

-----------------------------------------------------------------------------
Init ==
  /\ ExtentMapInit
  /\ KeyMapInit
  /\ data = [u \in Unit |-> None]
  /\ jlog = << <<>> >>
  /\ cl = [c \in Clients |-> Idle]
  /\ mg = WorkerIdle
  /\ acked = [k \in Keys |-> None]
  /\ sure = Keys
  /\ exposed = {} /\ drifted = FALSE /\ forked = FALSE /\ restored = {} /\ doubled = {}
  /\ ops = 0 /\ rounds = 0 /\ tasks = 0 /\ restarts = 0 /\ ioErrors = 0

ClientStep(c) ==
  \/ CkptBuild(c) \/ CkptWrite(c) \/ PutLookup(c) \/ PutFind(c) \/ PutLocate(c)
  \/ PutAlloc(c) \/ PutInstall(c) \/ PutPrelog(c) \/ PutAppend(c) \/ PutWrite(c)
  \/ PutLog(c) \/ PutApply(c) \/ DelLog(c) \/ DelApply(c)
  \/ MarkOldDead(c) \/ CheckOldLive(c) \/ ClientFreeErase(c) \/ ClientFreeDefer(c)
  \/ Return(c)

WorkerStep ==
  \/ CycleStart \/ CyclePlan \/ NextTask
  \/ TierRead \/ TierAlloc \/ NoSpace \/ TierWrite \/ TierCommitLookup \/ TierCommit
  \/ CompactKeys \/ CompactAlloc \/ CompactInstall \/ CompactCopy \/ CompactCheck
  \/ CompactUpdate \/ CompactFree \/ CompactDefer

Next ==
  \/ \E c \in Writers, k \in Keys, n \in {1, Large} : PutStart(c, k, n)
  \/ \E c \in Writers, k \in Keys : DelStart(c, k)
  \/ \E c \in Writers : ClientStep(c)
  \/ \E c \in Readers, k \in Keys : GetLookup(c, k)
  \/ \E c \in Readers : GetLocation(c) \/ GetRead(c)
  \/ WorkerStep
  \/ Crash
  \/ CleanRestart

Spec == Init /\ [][Next]_vars

-----------------------------------------------------------------------------
(* Properties.                                                              *)

(* A key is absent exactly if its last call deleted it, else every one of   *)
(* its slots, read as get() reads them, holds the value last put.           *)
Readable(k) ==
  LET kl == kmap[k] IN
  IF acked[k] = None THEN kl = Absent
  ELSE /\ kl # Absent
       /\ kl.eid \in entries
       /\ \A u \in KeyUnits(k) : Contents(u) = <<k, acked[k]>>

(* When no call and no cycle is in progress, get() returns for every key    *)
(* what the last successful put or del left, through migrations,            *)
(* compactions, failed calls, clean restarts and crashes.  `sure' leaves    *)
(* out the keys the code is known not to keep (see the README): after a     *)
(* crash, those whose call was cut short and those put again after a del in *)
(* the same journal, or every key if the journal had drifted; keys of a     *)
(* recovered extent that was appended to; and keys a migration puts where   *)
(* the map does not say, or writes over: it writes the source's full length *)
(* at a location that may be shorter, or on the other device.               *)
ReadsLastAck == Quiescent => \A k \in sure : Readable(k)

(* When nothing is in progress every unit belongs to exactly one of the     *)
(* allocator, a mapped extent and the deferred-free list, once, or was lost *)
(* in an allocation, and an extent with no key is not kept: nothing is      *)
(* owned twice, and no path but the allocation of less than was asked, or   *)
(* of several extents, loses space (extent_map.cc:300-310, 341-350).        *)
Owners(u) ==
  space[u] + Cardinality({e \in entries : u \in Units(location[e])})
           + Cardinality({d \in deferred : u \in Units(d[1])})
           + (IF u \in leaked THEN 1 ELSE 0)
SpaceAccounted ==
  ~forked /\ Quiescent =>
    /\ \A u \in Unit : Owners(u) = 1
    /\ \A e \in entries : keys_in_extent(e) # {}

(* live_bytes, which decides when an extent is freed, counts exactly the    *)
(* slots of the keys mapped to the extent.                                  *)
LiveBytesExact ==
  Quiescent => \A e \in entries :
    live[e] = MapThenSumSet(LAMBDA k : kmap[k].len, keys_in_extent(e))

(* The doc's grace period (btier.md 4.5): no location a get() is about to   *)
(* read has been handed back to the allocator.  The exception is a location *)
(* released twice: commit_migration() looks the entry up, free() erases it  *)
(* and defers its location, and the commit defers the same location again   *)
(* (extent_map.cc:388 takes struct_lock without a second look).             *)
DeferredFreeProtectsReaders ==
  \A c \in Readers :
    cl[c].pc = "read" => \A u \in Units(cl[c].loc) : space[u] = 0 \/ u \in doubled

(* btier.md 6.1: once put or del has returned, a crash does not undo it.    *)
DurableAck == Quiescent => \A k \in Keys : acked[k] # Maybe => Readable(k)

(* Cycles run beside client calls; when all is quiet every acknowledged     *)
(* write is readable.                                                       *)
AckedReadable == Quiescent => \A k \in Keys : Readable(k)

(* Every field of every structure stays in range: in particular a thread's  *)
(* extent id and location, whatever the length of the answer, are ones the  *)
(* allocator can hand out, and no extent uses more slots than any can have. *)
BtierTypeOK ==
  /\ TypeOK
  /\ KeyMapTypeOK
  /\ \A u \in Unit : data[u] \in (Keys \X (1..MaxOps)) \cup {None}
  /\ \A c \in Clients : cl[c].eid \in 0..MaxExtents /\ cl[c].loc \in Loc \cup {None}
  /\ mg.new \in 0..MaxExtents /\ mg.loc \in Loc \cup {None} /\ mg.keys \subseteq Keys

=============================================================================
