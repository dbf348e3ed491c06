------------------------------- MODULE Journal -------------------------------
(***************************************************************************)
(* btier/journal.cc: a ring of 4 KiB blocks behind a one-block superblock, *)
(* on the FAST device.  commit_txn and checkpoint hold lock_ throughout,   *)
(* so they do not interleave with each other; their device writes and      *)
(* flushes are separate steps because a crash can fall between them.       *)
(*                                                                         *)
(* A transaction is a serial number and the blocks it takes after padding. *)
(* Its records are data; the CRC in its COMMIT record, over all of them,   *)
(* lets recover() accept it only when all its blocks are in place, which   *)
(* is how a block is modelled: part `part' of `of' of transaction `txn'.   *)
(* A block write is atomic, a longer one is not.                           *)
(***************************************************************************)
EXTENDS Integers, Sequences, FiniteSets

CONSTANTS
  N,             (* data_size, in blocks                                      *)
  TxnBlocks,     (* sizes of a committed transaction, in blocks               *)
  CkptBlocks,    (* sizes of a checkpoint                                     *)
  MaxUnchecked,  (* bound on the commits between two puts that look at no     *)
                 (* threshold: dels and pre-transactions                      *)
  MaxTxns,       (* bound on the transactions written                         *)
  MaxCrashes,    (* bound on the crashes                                      *)
  MaxIoErrors,   (* bound on the failed writes and flushes                    *)
  FlushMayFail,  (* TRUE: fdatasync of the data may be what fails             *)
  Zero           (* a block that was never written                            *)

ASSUME JournalAssumption ==
  /\ N \in Nat \ {0}
  /\ TxnBlocks \subseteq 1..N
  /\ CkptBlocks \subseteq 1..N
  /\ MaxUnchecked \in Nat /\ MaxTxns \in Nat /\ MaxCrashes \in Nat /\ MaxIoErrors \in Nat
  /\ Zero \notin [txn : Nat, ckpt : BOOLEAN, part : Nat, of : Nat]

VARIABLES
  disk,        (* block -> its durable content                              *)
  pending,     (* block -> content written since the last flush, partial    *)
  sbDisk,      (* the durable superblock                                    *)
  sbPending,   (* TRUE: superblock_ is written and not flushed              *)
  sb,          (* superblock_ in memory                                     *)
  head,        (* write_offset in memory                                    *)
  job,         (* the commit_txn or checkpoint under lock_                  *)
  due,         (* the engine owes a checkpoint                              *)
  unchecked,   (* commits since a put last looked at the thresholds         *)
  serial,      (* transactions written so far                               *)
  acked,       (* history: transactions acknowledged since the checkpoint   *)
  lag,         (* history: the last superblock write failed                 *)
  log,         (* history: what recover() would return after a crash now    *)
  crashes, ioErrors

ringVars == <<disk, pending, head>>
sbVars == <<sbDisk, sbPending, sb>>
callerVars == <<due, unchecked>>
histVars == <<serial, acked, lag>>
boundVars == <<crashes, ioErrors>>
vars == <<ringVars, sbVars, job, callerVars, histVars, boundVars, log>>

Block == 0..(N - 1)
NoJob == [pc |-> "idle", kind |-> "none", txn |-> 0, size |-> 0, start |-> 0, at |-> 0]

Written == DOMAIN pending
Nothing == [b \in {} |-> Zero]
Settle(S) == [b \in Block |-> IF b \in S THEN pending[b] ELSE disk[b]]

-----------------------------------------------------------------------------
(* recover(): the scan from the checkpoint offset to the head.  Equal       *)
(* offsets mean an empty journal.                                           *)

(* Mutant: a wrapped journal is scanned to the end of the ring only.        *)
ScanToEndOnly(d) == IF d.head >= d.ckpt THEN d.head - d.ckpt ELSE N - d.ckpt

ScanLen(d) == (d.head - d.ckpt) % N
Scanned(dsk, d) == [i \in 1..ScanLen(d) |-> dsk[(d.ckpt + i - 1) % N]]

(* The i-th scanned block begins a transaction, and all of it is scanned.   *)
WholeAt(s, i) ==
  /\ s[i] # Zero
  /\ s[i].part = 1
  /\ i + s[i].of - 1 <= Len(s)
  /\ \A j \in 1..(s[i].of - 1) : s[i + j] = [s[i] EXCEPT !.part = j + 1]
Whole(s) == {i \in DOMAIN s : WholeAt(s, i)}

(* The elements of s at the places K, in their order.                       *)
Picked(s, K) ==
  LET p[i \in 0..Len(s)] == IF i = 0 THEN <<>>
                            ELSE IF i \in K THEN Append(p[i - 1], s[i]) ELSE p[i - 1]
  IN p[Len(s)]

(* A recovered transaction is represented by its first block.               *)
recover(dsk, d) == Picked(Scanned(dsk, d), Whole(Scanned(dsk, d)))

Observe == log' = recover(disk', sbDisk')

-----------------------------------------------------------------------------
(* The thresholds, on the in-memory offsets.                                *)

get_used_bytes == (head - sb.ckpt) % N
needs_checkpoint(u) == u * 100 >= 80 * N
is_near_full(u) == u * 100 >= 95 * N

-----------------------------------------------------------------------------
(* pad_and_write: where it writes, and where the head is afterwards.        *)

WriteAt(size) == IF head + size > N THEN 0 ELSE head
(* Mutant: the head is not brought back when it reaches the end exactly.    *)
HeadAfterNoReset(size) == WriteAt(size) + size

HeadAfter(size) == (WriteAt(size) + size) % N

Piece(txn, kind, part, size) ==
  [txn |-> txn, ckpt |-> kind = "ckpt", part |-> part, of |-> size]
Pieces(txn, kind, size) ==
  [b \in WriteAt(size)..(WriteAt(size) + size - 1) |->
     Piece(txn, kind, b - WriteAt(size) + 1, size)]

Start(kind, size) ==
  /\ job.pc = "idle" /\ serial < MaxTxns
  /\ serial' = serial + 1
  /\ job' = [pc |-> "flush", kind |-> kind, txn |-> serial + 1, size |-> size,
              start |-> head, at |-> WriteAt(size)]
  /\ pending' = Pieces(serial + 1, kind, size)
  /\ head' = HeadAfter(size)
  /\ UNCHANGED <<disk, sbVars, acked, lag, boundVars, log>>

(* The engine's calls.  A put checkpoints first when the journal is nearly  *)
(* full, and after its transaction when 80 % is reached; dels and the       *)
(* pre-transactions of puts look at nothing.                                *)
CommitPut ==
  /\ ~due /\ ~is_near_full(get_used_bytes)
  /\ \E s \in TxnBlocks : Start("put", s)
  /\ unchecked' = 0
  /\ UNCHANGED due

CommitUnchecked ==
  /\ ~due /\ unchecked < MaxUnchecked
  /\ \E s \in TxnBlocks : Start("unchecked", s)
  /\ unchecked' = unchecked + 1
  /\ UNCHANGED due

Checkpoint ==
  /\ due \/ is_near_full(get_used_bytes)
  /\ \E s \in CkptBlocks : Start("ckpt", s)
  /\ due' = FALSE
  /\ UNCHANGED unchecked

(* Mutant: the checkpoint offset is the end of the checkpoint, not its start *)
FlushDataOffsetAtEnd ==
  /\ job.pc = "flush"
  /\ disk' = Settle(Written) /\ pending' = Nothing
  /\ sb' = [ckpt |-> IF job.kind = "ckpt" THEN head ELSE sb.ckpt, head |-> head]
  /\ sbPending' = TRUE
  /\ job' = [job EXCEPT !.pc = "super"]
  /\ UNCHANGED sbDisk /\ Observe
  /\ UNCHANGED <<head, callerVars, histVars, boundVars>>

(* The flush after the data; then the superblock is changed in memory and   *)
(* written.  checkpoint() took its offset before pad_and_write wrapped.     *)
FlushData ==
  /\ job.pc = "flush"
  /\ disk' = Settle(Written) /\ pending' = Nothing
  /\ sb' = [ckpt |-> IF job.kind = "ckpt" THEN job.start ELSE sb.ckpt, head |-> head]
  /\ sbPending' = TRUE
  /\ job' = [job EXCEPT !.pc = "super"]
  /\ UNCHANGED sbDisk /\ Observe
  /\ UNCHANGED <<head, callerVars, histVars, boundVars>>

(* The call returns 0, whatever became of the superblock.                   *)
Acknowledge ==
  /\ acked' = LET t == Piece(job.txn, job.kind, 1, job.size)
              IN IF t.ckpt THEN <<t>> ELSE Append(acked, t)
  /\ due' = (job.kind = "put" /\ needs_checkpoint(get_used_bytes))
  /\ job' = NoJob

FlushSuper ==
  /\ job.pc = "super"
  /\ UNCHANGED disk
  /\ sbDisk' = sb /\ sbPending' = FALSE /\ lag' = FALSE
  /\ Observe
  /\ Acknowledge
  /\ UNCHANGED <<pending, head, sb, unchecked, serial, boundVars>>

IoError == ioErrors < MaxIoErrors /\ ioErrors' = ioErrors + 1

(* A failed data write leaves the head where it wrapped to, a failed flush  *)
(* has advanced it; in both cases some of the blocks may be on disk, and the     *)
(* call returns the error.                                                  *)
DataFails ==
  /\ job.pc = "flush" /\ IoError
  /\ \E S \in SUBSET Written : disk' = Settle(S)
  /\ pending' = Nothing
  /\ head' \in {job.at} \cup (IF FlushMayFail THEN {head} ELSE {})
  /\ UNCHANGED sbDisk /\ Observe
  /\ job' = NoJob
  /\ UNCHANGED <<sbPending, sb, callerVars, histVars, crashes>>

(* write_superblock() fails and its result is ignored.                      *)
SuperFails ==
  /\ job.pc = "super" /\ IoError
  /\ UNCHANGED disk
  /\ sbDisk' \in {sbDisk, sb} /\ sbPending' = FALSE /\ lag' = TRUE
  /\ Observe
  /\ Acknowledge
  /\ UNCHANGED <<pending, head, sb, unchecked, serial, crashes>>

(* Power is lost; the Journal is constructed again, recover() runs, and if  *)
(* it returns no record init() writes an empty checkpoint; a checkpoint in  *)
(* the log may itself be empty.                                             *)
Crash ==
  /\ crashes < MaxCrashes /\ crashes' = crashes + 1
  /\ \E S \in SUBSET Written : disk' = Settle(S)
  /\ pending' = Nothing
  /\ sbDisk' \in {sbDisk, IF sbPending THEN sb ELSE sbDisk}
  /\ sb' = sbDisk' /\ head' = sbDisk'.head /\ sbPending' = FALSE
  /\ Observe
  /\ job' = NoJob
  /\ due' \in {log' = <<>>, \A i \in DOMAIN log' : log'[i].ckpt}
  /\ unchecked' = 0
  /\ acked' = IF lag THEN log' ELSE acked
  /\ lag' = FALSE
  /\ UNCHANGED <<serial, ioErrors>>

(* A new journal: read_superblock() found no magic and wrote zeros.         *)
Init ==
  /\ disk = [b \in Block |-> Zero] /\ pending = Nothing
  /\ sb = [ckpt |-> 0, head |-> 0] /\ sbDisk = sb /\ sbPending = FALSE
  /\ head = 0
  /\ job = NoJob
  /\ due = TRUE /\ unchecked = 0
  /\ serial = 0 /\ acked = <<>> /\ lag = FALSE
  /\ log = <<>>
  /\ crashes = 0 /\ ioErrors = 0

Next ==
  \/ CommitPut \/ CommitUnchecked \/ Checkpoint
  \/ FlushData \/ FlushSuper
  \/ DataFails \/ SuperFails \/ Crash

Spec == Init /\ [][Next]_vars

-----------------------------------------------------------------------------
(* Properties.                                                              *)

(* The offsets stay inside the ring, in memory and on disk, and every block *)
(* is a piece of a transaction.                                             *)
JournalTypeOK ==
  /\ \A b \in Block : disk[b] = Zero \/ disk[b].part \in 1..disk[b].of
  /\ Written \subseteq Block
  /\ head \in Block /\ sb \in [ckpt : Block, head : Block] /\ sbDisk \in [ckpt : Block, head : Block]
  /\ serial \in 0..MaxTxns /\ unchecked \in 0..MaxUnchecked

(* btier.md 6.1: a transaction whose commit returned 0 is recovered, in     *)
(* commit order, until a later checkpoint stands at the start of what is    *)
(* recovered; the exception is a superblock write whose failure             *)
(* commit_txn() and checkpoint() ignored.                                   *)
Owed(l, a) ==
  LET base == IF l # <<>> /\ l[1].ckpt THEN l[1].txn ELSE 0
  IN Picked(a, {i \in DOMAIN a : a[i].txn >= base})
Durable(l, a) ==
  Picked(l, {i \in DOMAIN l : \E k \in DOMAIN Owed(l, a) : Owed(l, a)[k] = l[i]}) = Owed(l, a)
DurableCommit == ~lag => Durable(log, acked)

(* What recover() would return is a log (module TxnLog): no step drops or   *)
(* reorders a transaction in it, or brings back an older one, around the    *)
(* ring and across crashes.                                                 *)
Log == INSTANCE TxnLog
ImplementsLog == Log!LogSpec
=============================================================================
