-------------------------------- MODULE BlueFS --------------------------------
(***************************************************************************)
(* bluestore/bluefs.cc and bluefs_types.h: a small file system whose       *)
(* metadata lives in a log of transactions that mount replays.             *)
(*                                                                         *)
(* Sizes, offsets and extents are counted in allocation units; a           *)
(* transaction fills one unit of the log.  One device; its allocator is    *)
(* the set of free blocks.  The block with index i of file ino holds       *)
(* <<ino, i>> when it was written for that file.  Process crashes lose the *)
(* memory and nothing that was written.  The log's initial extents are not *)
(* in Block; what extends it is.                                           *)
(*                                                                         *)
(* Compaction is missing because it never happens: _compact_log_async sets *)
(* log_is_compacting_ before it asks _should_compact, which then says no.  *)
(***************************************************************************)
EXTENDS Integers, Sequences, FiniteSets, SequencesExt

CONSTANTS
  Thread,           (* threads that call the file system                      *)
  Dir, Name,        (* directory and file names                               *)
  Block,            (* allocation units of the device                         *)
  MinFlush,         (* min_flush_size                                         *)
  LogInitial,       (* BLUEFS_LOG_INITIAL: transactions the first log holds   *)
  MinRunway,        (* min_log_runway                                         *)
  LogExtend,        (* max(min_log_runway, max_log_runway)                    *)
  MaxIno,           (* bound on the files created                             *)
  MaxSize,          (* bound on a file's size                                 *)
  MaxCalls,         (* bound on the calls that log an operation               *)
  MaxTxn,           (* bound on the transactions in the log                   *)
  MaxCrash,         (* bound on the crashes                                   *)
  MaxErrors         (* bound on the log writes that fail                      *)

ASSUME BlueFSAssumption ==
  /\ {MinFlush, LogInitial, MaxIno} \subseteq Nat \ {0}
  /\ {MinRunway, LogExtend, MaxSize, MaxCalls, MaxTxn, MaxCrash, MaxErrors} \subseteq Nat

VARIABLES
  up,           (* "down", "mounted"; "failed" and "aborted": mount did not succeed *)
  dirs,         (* nodes_.dir_map                                           *)
  link,         (* the file_map of every directory: an ino, or None         *)
  file,         (* the File objects                                         *)
  writer,       (* the FileWriter of each file                              *)
  inoLast,      (* ino_last_                                                *)
  log,          (* log_ and the fnode of the log file                       *)
  dirty,        (* dirty_                                                   *)
  free,         (* the allocator                                            *)
  call,         (* the call each thread is in                               *)
  data,         (* the device: what each block holds                        *)
  logged,       (* the device: the transactions in the log file             *)
  super,        (* the device: log_fnode in the superblock                  *)
  fnode,        (* history: each file's size and extents as last logged     *)
  snap,         (* history: the file system as of the last log write        *)
  base,         (* history: the same as of the last superblock write        *)
  owed,         (* history: files of base that were not given up since      *)
  lost,         (* history: files allocated less than they asked for, and  *)
                (* files given up that a crash brought back                 *)
  spoiled,      (* history: the log holds what replay cannot take           *)
  calls,
  crashes,
  errors

memVars == <<dirs, link, file, writer, inoLast>>
logVars == <<log, dirty, free>>
diskVars == <<data, logged, super>>
histVars == <<fnode, snap, base, owed, lost, spoiled>>
boundVars == <<calls, crashes, errors>>
vars == <<up, memVars, logVars, call, diskVars, histVars, boundVars>>

None == 0
LogIno == 1
Ino == 2..MaxIno
Entry == Dir \X Name

FreshFile == [known |-> FALSE, refs |-> 0, size |-> 0, ext |-> <<>>, committed |-> 0,
              dirty |-> FALSE, seq |-> 0, deleted |-> FALSE]
NoWriter == [open |-> FALSE, pos |-> 0, buf |-> 0]
Idle == [pc |-> "idle", ino |-> None, upto |-> 0, seq |-> 0, then |-> "none"]

Blocks(ino) == Range(file[ino].ext)
Linked(l) == {l[e] : e \in Entry} \ {None}

-----------------------------------------------------------------------------
(* The operations of a log transaction.  UPDATE and UPDATE_INC reset the    *)
(* delta: what was allocated when they were written counts as committed.    *)

OpDirCreate(d) == [op |-> "DIR_CREATE", dir |-> d]
OpDirRemove(d) == [op |-> "DIR_REMOVE", dir |-> d]
OpDirLink(e, ino) == [op |-> "DIR_LINK", entry |-> e, ino |-> ino]
OpDirUnlink(e) == [op |-> "DIR_UNLINK", entry |-> e]
OpFileUpdate(ino, f) == [op |-> "FILE_UPDATE", ino |-> ino, size |-> f.size, ext |-> f.ext]
OpFileRemove(ino) == [op |-> "FILE_REMOVE", ino |-> ino]

make_delta(ino, f) ==
  [op |-> "FILE_UPDATE_INC", ino |-> ino, size |-> f.size, offset |-> f.committed,
   ext |-> SubSeq(f.ext, f.committed + 1, Len(f.ext))]

(* Mutant: the size taken for what is allocated.                          *)
reset_delta_size(f) == [f EXCEPT !.committed = f.size]

reset_delta(f) == [f EXCEPT !.committed = Len(f.ext)]

-----------------------------------------------------------------------------
(* _replay.  r is what has been rebuilt so far; status is "ok" while it     *)
(* goes on, "end" at a duplicate, "failed" for -EIO, "aborted" for a failed *)
(* assertion.  The log file's own fnode starts as the superblock has it.    *)

Rebuilt(alloc) ==
  [status |-> "ok", seq |-> 0, dirs |-> {}, link |-> [e \in Entry |-> None],
   file |-> [i \in Ino |-> FreshFile], last |-> LogIno, alloc |-> alloc]

_get_file(r, ino) == [r.file[ino] EXCEPT !.known = TRUE]

AfterLast(r, ino) == IF ino > r.last THEN ino ELSE r.last

ReplayOp(r, o) ==
  IF r.status # "ok" THEN r ELSE
  CASE o.op = "DIR_CREATE" ->
         [r EXCEPT !.dirs = @ \cup {o.dir},
                   !.link = [e \in Entry |-> IF e[1] = o.dir THEN None ELSE @[e]]]
    [] o.op = "DIR_REMOVE" ->
         [r EXCEPT !.dirs = @ \ {o.dir},
                   !.link = [e \in Entry |-> IF e[1] = o.dir THEN None ELSE @[e]]]
    [] o.op = "DIR_LINK" ->
         [r EXCEPT !.file[o.ino] = [_get_file(r, o.ino) EXCEPT !.refs = @ + 1],
                   !.link[o.entry] = IF o.entry[1] \in r.dirs THEN o.ino ELSE @,
                   !.last = AfterLast(r, o.ino)]
    [] o.op = "DIR_UNLINK" ->
         LET ino == r.link[o.entry]
         IN  IF ino = None THEN r
             ELSE IF r.file[ino].refs <= 0 THEN [r EXCEPT !.status = "aborted"]
             ELSE [r EXCEPT !.file[ino].refs = @ - 1, !.link[o.entry] = None]
    [] o.op = "FILE_UPDATE" ->
         [r EXCEPT !.file[o.ino] = reset_delta([_get_file(r, o.ino) EXCEPT !.size = o.size, !.ext = o.ext]),
                   !.last = AfterLast(r, o.ino)]
    [] o.op = "FILE_UPDATE_INC" /\ o.ino = LogIno ->
         IF o.offset # r.alloc THEN [r EXCEPT !.status = "aborted"]
         ELSE [r EXCEPT !.alloc = @ + Len(o.ext)]
    [] o.op = "FILE_UPDATE_INC" /\ o.ino # LogIno ->
         IF o.offset # Len(r.file[o.ino].ext) THEN [r EXCEPT !.status = "aborted"]
         ELSE [r EXCEPT !.file[o.ino] = [_get_file(r, o.ino) EXCEPT !.size = o.size, !.ext = @ \o o.ext],
                        !.last = AfterLast(r, o.ino)]
    [] o.op = "FILE_REMOVE" ->
         IF ~r.file[o.ino].known THEN r
         ELSE IF r.file[o.ino].refs > 0 THEN [r EXCEPT !.file[o.ino].deleted = TRUE]
         ELSE [r EXCEPT !.file[o.ino] = FreshFile]

ReplayTxn(r, t) ==
  IF r.status # "ok" THEN r
  ELSE IF t.seq = r.seq THEN [r EXCEPT !.status = "end"]
  ELSE IF t.seq # r.seq + 1 THEN [r EXCEPT !.status = "failed"]
  ELSE LET s == FoldLeft(ReplayOp, r, t.ops) IN [s EXCEPT !.seq = @ + 1]

(* Files without a link are dropped at the end.                             *)
DropOrphans(r) ==
  [r EXCEPT !.file = [i \in Ino |-> IF @[i].refs <= 0 THEN FreshFile ELSE @[i]]]

_replay(txns, alloc) == DropOrphans(FoldLeft(ReplayTxn, Rebuilt(alloc), txns))


Fnode(f) == [size |-> f.size, ext |-> f.ext]

(* The file system as logged: names, and the fnode of every file with one.  *)
View(ds, l, fn) == [dirs |-> ds, link |-> l, fnode |-> [i \in Linked(l) |-> fn[i]]]

-----------------------------------------------------------------------------
(* The calls.  Each takes its locks for its whole body, except where a step *)
(* of its own says otherwise.  A file has at most one writer; umount is     *)
(* called when no other call is running and every writer is closed.         *)

Ready(t) ==
  /\ up = "mounted" /\ call[t] = Idle
  /\ \A u \in Thread : call[u].then # "umount"

Log(ops) ==
  /\ calls < MaxCalls /\ calls' = calls + 1
  /\ log' = [log EXCEPT !.t = @ \o ops]

(* _allocate: less than asked for is accepted, nothing is -ENOSPC.          *)
Allocation(n) ==
  LET most == IF n < Cardinality(free) THEN n ELSE Cardinality(free)
  IN  {s \in [1..most -> free] : IsInjective(s)}

mkdir(t, d) ==
  /\ Ready(t)
  /\ d \notin dirs
  /\ dirs' = dirs \cup {d}
  /\ Log(<<OpDirCreate(d)>>)
  /\ UNCHANGED <<up, link, file, writer, inoLast, dirty, free, call, diskVars, histVars, crashes, errors>>

rmdir(t, d) ==
  /\ Ready(t)
  /\ d \in dirs
  /\ \A n \in Name : link[<<d, n>>] = None
  /\ dirs' = dirs \ {d}
  /\ Log(<<OpDirRemove(d)>>)
  /\ UNCHANGED <<up, link, file, writer, inoLast, dirty, free, call, diskVars, histVars, crashes, errors>>

(* open_for_write logs the fnode whether or not it changes it; the writer   *)
(* starts at the end of the file, also to overwrite.                        *)
Open(ino, f) ==
  /\ file' = [file EXCEPT ![ino] = reset_delta(f)]
  /\ writer' = [writer EXCEPT ![ino] = [open |-> TRUE, pos |-> f.size, buf |-> 0]]
  /\ fnode' = [fnode EXCEPT ![ino] = Fnode(f)]

open_create(t, e) ==
  /\ Ready(t)
  /\ e[1] \in dirs /\ link[e] = None
  /\ inoLast < MaxIno
  /\ inoLast' = inoLast + 1
  /\ link' = [link EXCEPT ![e] = inoLast']
  /\ Open(inoLast', [FreshFile EXCEPT !.known = TRUE, !.refs = 1])
  /\ Log(<<OpFileUpdate(inoLast', FreshFile), OpDirLink(e, inoLast')>>)
  /\ lost' = lost \ {inoLast'}
  /\ UNCHANGED <<up, dirs, dirty, free, call, diskVars, snap, base, owed, spoiled, crashes, errors>>

open_truncate(t, e) ==
  /\ Ready(t)
  /\ link[e] # None /\ ~writer[link[e]].open
  /\ LET ino == link[e]
         f == [file[ino] EXCEPT !.size = 0, !.ext = <<>>]
     IN  /\ Open(ino, f)
         /\ Log(<<OpFileUpdate(ino, f)>>)
         /\ dirty' = [dirty EXCEPT !.pending_release = @ \cup Blocks(ino)]
         /\ lost' = lost \ {ino}
  /\ UNCHANGED <<up, dirs, link, inoLast, free, call, diskVars, snap, base, owed, spoiled, crashes, errors>>

open_overwrite(t, e) ==
  /\ Ready(t)
  /\ link[e] # None /\ ~writer[link[e]].open
  /\ Open(link[e], file[link[e]])
  /\ Log(<<OpFileUpdate(link[e], file[link[e]])>>)
  /\ UNCHANGED <<up, dirs, link, inoLast, dirty, free, call, diskVars, snap, base, owed, lost,
                 spoiled, crashes, errors>>

-----------------------------------------------------------------------------
(* Writing.  _flush_F with force, of file ino through writer w, given the   *)
(* blocks S that _allocate returned: the new file and writer, what the      *)
(* device holds then, and whether the call returns 0.                       *)

Need(ino, w) ==
  IF w.buf = 0 \/ file[ino].deleted THEN 0 ELSE w.pos + w.buf - Len(file[ino].ext)

Written(ino, f, I) ==
  [b \in Block |-> IF \E i \in I : f.ext[i] = b THEN <<ino, CHOOSE i \in I : f.ext[i] = b>>
                                                ELSE data[b]]

_flush_F(ino, w, S) ==
  LET f == file[ino]
      end == w.pos + w.buf
      grown == [f EXCEPT !.ext = @ \o S,
                         !.size = IF f.size < end THEN end ELSE @,
                         !.dirty = @ \/ S # <<>> \/ f.size < end]
      fits == {i \in (w.pos + 1)..end : i <= Len(grown.ext)}
      noSpace == Need(ino, w) > 0 /\ S = <<>>
      noExtent == fits = {}
      done == [w EXCEPT !.buf = 0]
  IN  IF w.buf = 0 \/ f.deleted
        THEN [file |-> f, writer |-> done, data |-> data, ok |-> TRUE]
      ELSE IF noSpace THEN [file |-> f, writer |-> w, data |-> data, ok |-> FALSE]
      ELSE IF noExtent THEN [file |-> grown, writer |-> w, data |-> data, ok |-> FALSE]
      ELSE [file |-> grown, writer |-> [done EXCEPT !.pos = end],
            data |-> Written(ino, grown, fits), ok |-> TRUE]

(* The effects of _flush_F on everything but the file and the writer.       *)
FlushEffects(ino, w, S, r) ==
  /\ free' = free \ Range(S)
  /\ data' = r.data
  /\ lost' = IF S # <<>> /\ Len(S) < Need(ino, w) THEN lost \cup {ino} ELSE lost

Flush(ino, w) ==
  \E S \in Allocation(Need(ino, w)) :
    LET r == _flush_F(ino, w, S)
    IN  /\ file' = [file EXCEPT ![ino] = r.file]
        /\ writer' = [writer EXCEPT ![ino] = r.writer]
        /\ FlushEffects(ino, w, S, r)

(* The caller appends one unit, at the end of the file.                     *)
append_try_flush(t, ino) ==
  /\ Ready(t)
  /\ writer[ino].open /\ writer[ino].pos = file[ino].size
  /\ writer[ino].pos + writer[ino].buf < MaxSize
  /\ LET w == [writer[ino] EXCEPT !.buf = @ + 1]
     IN  IF w.buf >= MinFlush
           THEN Flush(ino, w)
           ELSE /\ writer' = [writer EXCEPT ![ino] = w]
                /\ UNCHANGED <<file, free, data, lost>>
  /\ UNCHANGED <<up, dirs, link, inoLast, log, dirty, call, logged, super, fnode, snap, base, owed,
                 spoiled, boundVars>>

flush(t, ino) ==
  /\ Ready(t)
  /\ writer[ino].open /\ writer[ino].buf > 0
  /\ Flush(ino, writer[ino])
  /\ UNCHANGED <<up, dirs, link, inoLast, log, dirty, call, logged, super, fnode, snap, base, owed,
                 spoiled, boundVars>>

(* close_writer flushes, and keeps the writer if that fails.  It does not   *)
(* report the file as dirty.                                                *)
close_writer(t, ino) ==
  /\ Ready(t)
  /\ writer[ino].open /\ \A u \in Thread : call[u].ino # ino
  /\ \E S \in Allocation(Need(ino, writer[ino])) :
       LET r == _flush_F(ino, writer[ino], S)
       IN  /\ file' = [file EXCEPT ![ino] = r.file]
           /\ writer' = [writer EXCEPT ![ino] = IF r.ok THEN NoWriter ELSE r.writer]
           /\ FlushEffects(ino, writer[ino], S, r)
  /\ UNCHANGED <<up, dirs, link, inoLast, log, dirty, call, logged, super, fnode, snap, base, owed,
                 spoiled, boundVars>>

(* truncate flushes, then keeps the first n units and defers the release of *)
(* the others.  The writer's position stays where it was.                   *)
truncate(t, ino, n) ==
  /\ Ready(t)
  /\ writer[ino].open /\ ~file[ino].deleted
  /\ n < file[ino].size
  /\ \E S \in Allocation(Need(ino, writer[ino])) :
       LET r == _flush_F(ino, writer[ino], S)
           keep == IF n < Len(r.file.ext) THEN n ELSE Len(r.file.ext)
           f == reset_delta([r.file EXCEPT !.size = n, !.dirty = TRUE,
                                           !.ext = SubSeq(@, 1, keep)])
       IN  /\ FlushEffects(ino, writer[ino], S, r)
           /\ writer' = [writer EXCEPT ![ino] = r.writer]
           /\ IF r.ok
                THEN /\ file' = [file EXCEPT ![ino] = f]
                     /\ fnode' = [fnode EXCEPT ![ino] = Fnode(f)]
                     /\ Log(<<OpFileUpdate(ino, f)>>)
                     /\ dirty' = [dirty EXCEPT !.pending_release =
                                    @ \cup (Range(r.file.ext) \ Range(f.ext))]
                ELSE /\ file' = [file EXCEPT ![ino] = r.file]
                     /\ UNCHANGED <<log, dirty, fnode, calls>>
  /\ UNCHANGED <<up, dirs, link, inoLast, call, logged, super, snap, base, owed, spoiled, crashes, errors>>

(* One unit more than is allocated.                                         *)
preallocate(t, ino) ==
  /\ Ready(t)
  /\ writer[ino].open /\ ~file[ino].deleted
  /\ Len(file[ino].ext) < MaxSize
  /\ free # {}
  /\ \E S \in Allocation(1) :
       LET f == [file[ino] EXCEPT !.ext = @ \o S]
       IN  /\ file' = [file EXCEPT ![ino] = reset_delta(f)]
           /\ fnode' = [fnode EXCEPT ![ino] = Fnode(f)]
           /\ Log(<<make_delta(ino, f)>>)
           /\ free' = free \ Range(S)
  /\ UNCHANGED <<up, dirs, link, writer, inoLast, dirty, call, diskVars, snap, base, owed, lost,
                 spoiled, crashes, errors>>

-----------------------------------------------------------------------------
(* Names.  The last link of a file takes it out of file_map and out of the  *)
(* files that wait to be logged, and defers the release of its blocks.      *)

unlink(t, e) ==
  /\ Ready(t)
  /\ link[e] # None
  /\ LET ino == link[e]
         f == file[ino]
         last == f.refs = 1
         waiting == f.seq > dirty.seq_stable
     IN  /\ link' = [link EXCEPT ![e] = None]
         /\ file' = [file EXCEPT
              ![ino] = IF last THEN [f EXCEPT !.refs = 0, !.known = FALSE, !.deleted = TRUE,
                                              !.seq = IF waiting THEN dirty.seq_stable ELSE @]
                               ELSE [f EXCEPT !.refs = @ - 1]]
         /\ Log(<<OpDirUnlink(e)>> \o (IF last THEN <<OpFileRemove(ino)>> ELSE <<>>))
         /\ dirty' = IF last
                       THEN [dirty EXCEPT !.pending_release = @ \cup Blocks(ino),
                                          !.files = IF waiting THEN @ \ {<<f.seq, ino>>} ELSE @]
                       ELSE dirty
  /\ UNCHANGED <<up, dirs, writer, inoLast, free, call, diskVars, histVars, crashes, errors>>

(* Mutant: the old name is not taken out of the log.                      *)
rename_keeps_old(t, e, n) ==
  /\ Ready(t)
  /\ link[e] # None /\ n[1] \in dirs
  /\ link' = [[link EXCEPT ![n] = link[e]] EXCEPT ![e] = None]
  /\ Log((IF link[n] \notin {None, link[e]} THEN <<OpDirUnlink(n)>> ELSE <<>>)
           \o <<OpDirLink(n, link[e])>>)
  /\ UNCHANGED <<up, dirs, file, writer, inoLast, dirty, free, call, diskVars, histVars, crashes, errors>>

(* A file that loses its name to another keeps its reference and its blocks *)
(* until the next mount; renamed to its own name, a file loses it.          *)
rename(t, e, n) ==
  /\ Ready(t)
  /\ link[e] # None /\ n[1] \in dirs
  /\ link' = [[link EXCEPT ![n] = link[e]] EXCEPT ![e] = None]
  /\ Log((IF link[n] \notin {None, link[e]} THEN <<OpDirUnlink(n)>> ELSE <<>>)
           \o <<OpDirLink(n, link[e]), OpDirUnlink(e)>>)
  /\ UNCHANGED <<up, dirs, file, writer, inoLast, dirty, free, call, diskVars, histVars, crashes, errors>>

-----------------------------------------------------------------------------
(* fsync: the data, then the file is registered for the next transaction,   *)
(* then the log is written unless that transaction already was.             *)

At(t, pc) == call[t].pc = pc
Goto(t, pc) == call' = [call EXCEPT ![t].pc = pc]

fsync(t, ino) ==
  /\ Ready(t)
  /\ writer[ino].open
  /\ \E S \in Allocation(Need(ino, writer[ino])) :
       LET r == _flush_F(ino, writer[ino], S)
       IN  /\ file' = [file EXCEPT ![ino] = r.file]
           /\ writer' = [writer EXCEPT ![ino] = r.writer]
           /\ FlushEffects(ino, writer[ino], S, r)
           /\ call' = IF r.ok THEN [call EXCEPT ![t] = [Idle EXCEPT !.pc = "signal", !.then = "fsync",
                                                                     !.ino = ino,
                                                                     !.upto = r.file.size]]
                              ELSE call
  /\ UNCHANGED <<up, dirs, link, inoLast, log, dirty, logged, super, fnode, snap, base, owed,
                 spoiled, boundVars>>

_signal_dirty_to_log(t) ==
  /\ At(t, "signal")
  /\ LET ino == call[t].ino
         f == file[ino]
         register == f.seq <= dirty.seq_stable \/ f.seq = 0
     IN  IF f.dirty
           THEN /\ file' = [file EXCEPT ![ino].dirty = FALSE,
                                        ![ino].seq = IF register THEN log.seq_live ELSE @]
                /\ dirty' = [dirty EXCEPT !.files = IF register THEN @ \cup {<<log.seq_live, ino>>}
                                                                ELSE @]
                /\ Goto(t, "signalled")
           ELSE Goto(t, "compare") /\ UNCHANGED <<file, dirty>>
  /\ UNCHANGED <<up, dirs, link, writer, inoLast, log, free, diskVars, histVars, boundVars>>

fsync_clear_dirty(t) ==
  /\ At(t, "signalled")
  /\ file' = [file EXCEPT ![call[t].ino].dirty = FALSE]
  /\ Goto(t, "compare")
  /\ UNCHANGED <<up, dirs, link, writer, inoLast, logVars, diskVars, histVars, boundVars>>

(* Mutant: a transaction that was only begun counts as stable.            *)
fsync_compare_begun(t) ==
  /\ At(t, "compare")
  /\ call' = [call EXCEPT ![t] = IF dirty.seq_stable + 1 < file[call[t].ino].seq
                                   THEN [@ EXCEPT !.pc = "log"] ELSE Idle]
  /\ UNCHANGED <<up, memVars, logVars, diskVars, histVars, boundVars>>

fsync_compare(t) ==
  /\ At(t, "compare")
  /\ call' = [call EXCEPT ![t] = IF dirty.seq_stable < file[call[t].ino].seq
                                   THEN [@ EXCEPT !.pc = "log"] ELSE Idle]
  /\ UNCHANGED <<up, memVars, logVars, diskVars, histVars, boundVars>>

(* Mutant: the extents are released before the log is written.            *)
sync_metadata_release_first(t) ==
  /\ Ready(t)
  /\ free' = free \cup dirty.pending_release
  /\ dirty' = [dirty EXCEPT !.pending_release = {}]
  /\ call' = [call EXCEPT ![t] = [Idle EXCEPT !.pc = "log", !.then = "sync_metadata"]]
  /\ UNCHANGED <<up, memVars, log, diskVars, histVars, boundVars>>

sync_metadata(t) ==
  /\ Ready(t)
  /\ call' = [call EXCEPT ![t] = [Idle EXCEPT !.pc = "log", !.then = "sync_metadata"]]
  /\ UNCHANGED <<up, memVars, logVars, diskVars, histVars, boundVars>>

umount(t) ==
  /\ Ready(t)
  /\ \A u \in Thread : call[u] = Idle
  /\ \A i \in Ino : ~writer[i].open
  /\ call' = [call EXCEPT ![t] = [Idle EXCEPT !.pc = "log", !.then = "umount"]]
  /\ UNCHANGED <<up, memVars, logVars, diskVars, histVars, boundVars>>

-----------------------------------------------------------------------------
(* _flush_and_sync_log.  The transaction takes its number, the deltas of    *)
(* the files registered under it and the extension of the log, and is       *)
(* written, all under the log lock.                                         *)

Consumed == {i \in Ino : <<log.seq_live, i>> \in dirty.files}
Deltas ==
  LET order == SetToSortSeq(Consumed, <)
  IN  [k \in DOMAIN order |-> make_delta(order[k], file[order[k]])]
AfterConsume == [i \in Ino |-> IF i \in Consumed THEN reset_delta(file[i]) ELSE file[i]]

_maybe_extend_log == log.pos + MinRunway >= log.alloc

LogDelta(S) ==
  IF S = <<>> THEN <<>>
  ELSE <<[op |-> "FILE_UPDATE_INC", ino |-> LogIno, size |-> log.pos, offset |-> log.alloc,
          ext |-> S]>>

Extension == IF _maybe_extend_log THEN Allocation(LogExtend) ELSE {<<>>}

(* A delta of a removed file does not continue what replay then has of it.  *)
Unplayable == \E i \in Consumed : file[i].deleted /\ file[i].committed # 0

WriteTransaction(t) ==
  /\ At(t, "log") /\ log.pos < MaxTxn
  /\ _maybe_extend_log => free # {}
  /\ \E S \in Extension :
       /\ logged' = Append(SubSeq(logged, 1, log.pos),
                           [seq |-> log.seq_live, ops |-> log.t \o Deltas \o LogDelta(S)])
       /\ log' = [seq_live |-> log.seq_live + 1, t |-> <<>>, pos |-> log.pos + 1,
                  alloc |-> log.alloc + Len(S), ext |-> log.ext \cup Range(S)]
       /\ free' = free \ Range(S)
       /\ spoiled' = (spoiled \/ S # <<>> \/ Unplayable)
  /\ file' = AfterConsume
  /\ fnode' = [i \in Ino |-> IF i \in Consumed THEN Fnode(file[i]) ELSE fnode[i]]
  /\ snap' = View(dirs, link, fnode')
  /\ call' = [call EXCEPT ![t].pc = "stable", ![t].seq = log.seq_live]
  /\ UNCHANGED <<up, dirs, link, writer, inoLast, dirty, data, super, base, owed, lost, boundVars>>

(* On an error the number is used up; umount goes on regardless.            *)
SyncFails(t) ==
  /\ call' = [call EXCEPT ![t] = IF @.then = "umount" THEN [@ EXCEPT !.pc = "super"] ELSE Idle]
  /\ file' = AfterConsume
  /\ spoiled' = TRUE

(* The operations of a transaction that could not be written are gone.      *)
WriteTransactionFails(t) ==
  /\ At(t, "log") /\ errors < MaxErrors
  /\ _maybe_extend_log => free # {}
  /\ errors' = errors + 1
  /\ \E S \in Extension :
       /\ log' = [log EXCEPT !.seq_live = @ + 1, !.t = <<>>, !.alloc = @ + Len(S),
                             !.ext = @ \cup Range(S)]
       /\ free' = free \ Range(S)
  /\ SyncFails(t)
  /\ UNCHANGED <<up, dirs, link, writer, inoLast, dirty, diskVars, fnode, snap, base, owed, lost,
                 calls, crashes>>

(* No room to extend the log: the operations wait for the next transaction. *)
ExtendLogFails(t) ==
  /\ At(t, "log") /\ log.seq_live <= MaxTxn + 1
  /\ _maybe_extend_log /\ free = {}
  /\ log' = [log EXCEPT !.seq_live = @ + 1, !.t = @ \o Deltas]
  /\ SyncFails(t)
  /\ UNCHANGED <<up, dirs, link, writer, inoLast, dirty, free, diskVars, fnode, snap, base, owed,
                 lost, boundVars>>

(* Under the dirty lock, after the log lock was released.                   *)
SetStable(t) ==
  /\ At(t, "stable")
  /\ LET done == {i \in Ino : <<call[t].seq, i>> \in dirty.files}
     IN  /\ file' = [i \in Ino |-> IF i \in done THEN [file[i] EXCEPT !.seq = 0] ELSE file[i]]
         /\ dirty' = [dirty EXCEPT !.seq_stable = call[t].seq,
                                   !.files = @ \ {<<call[t].seq, i>> : i \in done}]
  /\ Goto(t, "release")
  /\ UNCHANGED <<up, dirs, link, writer, inoLast, log, free, diskVars, histVars, boundVars>>

(* Without a lock: everything that waits is released, then forgotten.       *)
ReleasePending(t) ==
  /\ At(t, "release")
  /\ free' = free \cup dirty.pending_release
  /\ Goto(t, "clear")
  /\ UNCHANGED <<up, memVars, log, dirty, diskVars, histVars, boundVars>>

ClearPending(t) ==
  /\ At(t, "clear")
  /\ dirty' = [dirty EXCEPT !.pending_release = {}]
  /\ call' = [call EXCEPT ![t] = IF @.then = "fsync" THEN Idle ELSE [@ EXCEPT !.pc = "super"]]
  /\ UNCHANGED <<up, memVars, log, free, diskVars, histVars, boundVars>>

-----------------------------------------------------------------------------
(* The superblock, mount and crashes.                                       *)

_write_super ==
  /\ super' = [size |-> log.pos, alloc |-> log.alloc, ext |-> log.ext]
  /\ base' = snap

sync_metadata_super(t) ==
  /\ At(t, "super") /\ call[t].then = "sync_metadata"
  /\ _write_super
  /\ call' = [call EXCEPT ![t] = Idle]
  /\ UNCHANGED <<up, memVars, logVars, data, logged, fnode, snap, owed, lost, spoiled, boundVars>>

EmptyLog == [seq_live |-> 1, t |-> <<>>, pos |-> 0, alloc |-> 0, ext |-> {}]

(* The memory is gone.  What of b is still as b has it is owed: files that  *)
(* exist, with the blocks they had.                                         *)
Down(b) ==
  /\ up' = "down"
  /\ dirs' = {} /\ link' = [e \in Entry |-> None] /\ inoLast' = LogIno
  /\ file' = [i \in Ino |-> FreshFile] /\ writer' = [i \in Ino |-> NoWriter]
  /\ log' = EmptyLog /\ free' = {}
  /\ call' = [t \in Thread |-> Idle]
  /\ owed' = {i \in DOMAIN b.fnode : file[i].known /\ IsPrefix(b.fnode[i].ext, file[i].ext)}

umount_super(t) ==
  /\ At(t, "super") /\ call[t].then = "umount"
  /\ _write_super
  /\ Down(snap)
  /\ dirty' = [seq_stable |-> 0, files |-> {}, pending_release |-> dirty.pending_release]
  /\ UNCHANGED <<data, logged, fnode, snap, lost, spoiled, boundVars>>

Crash ==
  /\ up = "mounted" /\ crashes < MaxCrash
  /\ crashes' = crashes + 1
  /\ Down(base)
  /\ dirty' = [seq_stable |-> 0, files |-> {}, pending_release |-> {}]
  /\ UNCHANGED <<diskVars, fnode, snap, base, lost, spoiled, calls, errors>>

(* Replay reads the log up to the size the superblock has.                  *)
mount ==
  /\ up = "down"
  /\ LET r == _replay(SubSeq(logged, 1, super.size), super.alloc)
     IN  IF r.status \in {"failed", "aborted"}
           THEN up' = r.status /\ UNCHANGED <<memVars, logVars, histVars>>
           ELSE /\ up' = "mounted"
                /\ dirs' = r.dirs /\ link' = r.link /\ file' = r.file /\ inoLast' = r.last
                /\ log' = [seq_live |-> r.seq + 1, t |-> <<>>, pos |-> r.seq,
                           alloc |-> r.alloc, ext |-> super.ext]
                /\ dirty' = [dirty EXCEPT !.seq_stable = r.seq]
                /\ free' = Block \ (super.ext \cup UNION {Range(r.file[i].ext) : i \in Ino})
                /\ fnode' = [i \in Ino |-> Fnode(r.file[i])]
                /\ snap' = View(dirs', link', fnode')
                /\ lost' = lost \cup (DOMAIN base.fnode \ owed)
                /\ UNCHANGED <<writer, base, owed, spoiled>>
  /\ UNCHANGED <<call, diskVars, boundVars>>

-----------------------------------------------------------------------------
(* mkfs has written the first transaction and the superblock.               *)
Init ==
  /\ up = "down"
  /\ dirs = {} /\ link = [e \in Entry |-> None] /\ inoLast = LogIno
  /\ file = [i \in Ino |-> FreshFile] /\ writer = [i \in Ino |-> NoWriter]
  /\ log = EmptyLog /\ free = {}
  /\ dirty = [seq_stable |-> 0, files |-> {}, pending_release |-> {}]
  /\ call = [t \in Thread |-> Idle]
  /\ data = [b \in Block |-> <<>>]
  /\ logged = <<[seq |-> 1, ops |-> <<>>]>>
  /\ super = [size |-> 1, alloc |-> LogInitial, ext |-> {}]
  /\ fnode = [i \in Ino |-> Fnode(FreshFile)]
  /\ snap = View({}, link, fnode) /\ base = snap
  /\ owed = {} /\ lost = {} /\ spoiled = FALSE
  /\ calls = 0 /\ crashes = 0 /\ errors = 0

Fsync(t) == _signal_dirty_to_log(t) \/ fsync_clear_dirty(t) \/ fsync_compare(t)

_flush_and_sync_log(t) ==
  \/ WriteTransaction(t) \/ WriteTransactionFails(t) \/ ExtendLogFails(t)
  \/ SetStable(t) \/ ReleasePending(t) \/ ClearPending(t)

Names(t) ==
  \/ \E d \in Dir : mkdir(t, d) \/ rmdir(t, d)
  \/ \E e \in Entry : open_create(t, e) \/ open_truncate(t, e) \/ open_overwrite(t, e) \/ unlink(t, e)
  \/ \E e, n \in Entry : rename(t, e, n)

Writers(t) ==
  \E i \in Ino :
    \/ append_try_flush(t, i) \/ flush(t, i) \/ fsync(t, i) \/ close_writer(t, i)
    \/ preallocate(t, i)
    \/ \E n \in 0..(MaxSize - 1) : truncate(t, i, n)

Next ==
  \/ mount \/ Crash
  \/ \E t \in Thread :
       \/ Names(t) \/ Writers(t)
       \/ Fsync(t) \/ _flush_and_sync_log(t)
       \/ sync_metadata(t) \/ sync_metadata_super(t)
       \/ umount(t) \/ umount_super(t)

Spec == Init /\ [][Next]_vars

-----------------------------------------------------------------------------
(* Every variable holds what its declaration says.                          *)
BlueFSTypeOK ==
  /\ up \in {"down", "mounted", "failed", "aborted"}
  /\ dirs \subseteq Dir
  /\ link \in [Entry -> Ino \cup {None}]
  /\ inoLast \in LogIno..MaxIno
  /\ \A i \in Ino :
       /\ file[i].refs \in 0..1 /\ Range(file[i].ext) \subseteq Block
       /\ file[i].committed \in 0..Len(file[i].ext)
       /\ writer[i].pos \in 0..MaxSize
  /\ free \cup dirty.pending_release \cup log.ext \cup super.ext \subseteq Block
  /\ log.pos \in 0..Len(logged) /\ super.size \in 1..Len(logged)

Contents(i) ==
  \A k \in 1..Len(file[i].ext) : k <= file[i].size => data[file[i].ext[k]] = <<i, k>>

(* A mount after a crash at any point brings back the names, sizes and      *)
(* extents of the last log write that the last superblock write covers, and *)
(* the data of the files that were not given up since.                      *)
Recovered ==
  [][up = "down" /\ up' # "down" /\ ~spoiled =>
       /\ up' = "mounted"
       /\ View(dirs, link, fnode)' = base
       /\ \A i \in owed \ lost : Contents(i)']_vars

WholeLog == _replay(SubSeq(logged, 1, log.pos), log.alloc)

(* fsync returns 0 only when a replay of the whole log would find the file, *)
(* under a name, with its size and blocks, and the blocks hold its data.    *)
FsyncLogged ==
  [][\A t \in Thread :
       call[t].then = "fsync" /\ call'[t] = Idle /\ up' = "mounted" /\ ~spoiled' =>
         LET i == call[t].ino
             f == WholeLog.file[i]
             n == call[t].upto
         IN  n > 0 /\ n <= file[i].size /\ i \in Linked(link) /\ i \notin lost =>
               /\ f.known /\ f.size >= n
               /\ SubSeq(f.ext, 1, n) = SubSeq(file[i].ext, 1, n)
               /\ Contents(i)]_vars

(* No block is in two files, or in a file and free, nor free while a replay *)
(* of the whole log would still give it to a file.                          *)
SpaceSafe ==
  up = "mounted" /\ ~spoiled =>
    LET used == {i \in Ino : file[i].known}
        replayed == WholeLog.file
    IN  /\ \A i \in used : IsInjective(file[i].ext)
        /\ \A i, j \in used : i # j => Blocks(i) \cap Blocks(j) = {}
        /\ \A i \in used : Blocks(i) \cap (free \cup log.ext) = {}
        /\ \A i \in Ino : Range(replayed[i].ext) \cap free = {}

(* bluefs.cc:822 asserts of every delta it replays that it begins where the *)
(* file's extents end.                                                      *)
DeltasContinue == up # "aborted"

=============================================================================
