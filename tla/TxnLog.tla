------------------------------- MODULE TxnLog -------------------------------
(***************************************************************************)
(* What the btier journal promises the engine: a log of whole transactions *)
(* that only grows at its end, until a checkpoint replaces all of it.      *)
(* `log' is what recover() would return now.                               *)
(***************************************************************************)
EXTENDS Integers, Sequences

VARIABLE log    (* sequence of [txn : serial number, ckpt : BOOLEAN]        *)

(* A longer log with the old one as its beginning.                          *)
IsExtension(old, new) == Len(new) > Len(old) /\ SubSeq(new, 1, Len(old)) = old

(* A log that begins with a checkpoint newer than all of the old log.       *)
IsReplacement(old, new) ==
  /\ new # <<>>
  /\ new[1].ckpt
  /\ \A i \in DOMAIN old : old[i].txn < new[1].txn

InCommitOrder(l) == \A i \in 1..(Len(l) - 1) : l[i].txn < l[i + 1].txn

Extend == IsExtension(log, log') /\ InCommitOrder(log')
Replace == IsReplacement(log, log') /\ InCommitOrder(log')

LogInit == log = <<>>
LogSpec == LogInit /\ [][Extend \/ Replace]_log
=============================================================================
