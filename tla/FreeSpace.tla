----------------------------- MODULE FreeSpace -----------------------------
(***************************************************************************)
(* What an allocator of src/blk promises its clients, whatever it is built *)
(* of: every block is either free or lent, allocate() lends free blocks,   *)
(* release() and init_add_free() take lent blocks back, and a block never  *)
(* changes sides by itself.  Allocator refines this specification.         *)
(***************************************************************************)

CONSTANT Managed        \* the blocks the allocator may ever hand out

VARIABLES free,         \* blocks the allocator could lend
          lent          \* blocks somebody else owns

vars == <<free, lent>>

Init == free = {} /\ lent = Managed

\* allocate() and init_rm_free()
Lend == \E S \in SUBSET free :
          free' = free \ S /\ lent' = lent \cup S

\* release() and init_add_free()
TakeBack == \E S \in SUBSET lent :
              free' = free \cup S /\ lent' = lent \ S

\* shutdown(), and a new allocator for the next mount
Restart == free' = {} /\ lent' = Managed

Next == Lend \/ TakeBack \/ Restart

Spec == Init /\ [][Next]_vars
=============================================================================
