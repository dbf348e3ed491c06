------------------------------- MODULE KeyMap -------------------------------
(***************************************************************************)
(* btier/key_map.cc: key -> (extent, offset, length) and the reverse index *)
(* extent -> keys, both behind one shared_mutex, so each method is one     *)
(* step.  The per-key stride counters only feed the scores and are left    *)
(* out.  persist() and recover() are stubs in the code.                    *)
(***************************************************************************)
EXTENDS Integers

CONSTANTS Keys, Extents, Offsets, Lengths, Absent

ASSUME KeyMapAssumption == Absent \notin [eid : Extents, off : Offsets, len : Lengths]

VARIABLES kmap,          (* map_: key -> KeyLocation, or Absent             *)
          reverseIndex   (* reverse_index_: extent id -> set of keys        *)

keyVars == <<kmap, reverseIndex>>

KeyLocation == [eid : Extents, off : Offsets, len : Lengths]

KeyMapTypeOK ==
  /\ kmap \in [Keys -> KeyLocation \cup {Absent}]
  /\ reverseIndex \in [Extents -> SUBSET Keys]

KeyMapInit ==
  /\ kmap = [k \in Keys |-> Absent]
  /\ reverseIndex = [e \in Extents |-> {}]

keys_in_extent(e) == reverseIndex[e]

(* The default-constructed KeyLocation a failed lookup leaves in *loc.      *)
ZeroLocation == [eid |-> 0, off |-> 0, len |-> 0]
LookupOrZero(k) == IF kmap[k] = Absent THEN ZeroLocation ELSE kmap[k]

(* Mutant: a key that moves stays in the old extent's set.                  *)
UnindexNothing(ri, k, old, e) == ri

Unindex(ri, k, old, e) ==
  IF old # Absent /\ old.eid # e THEN [ri EXCEPT ![old.eid] = @ \ {k}] ELSE ri

KeyPut(k, kloc) ==
  /\ kmap' = [kmap EXCEPT ![k] = kloc]
  /\ reverseIndex' = [Unindex(reverseIndex, k, kmap[k], kloc.eid) EXCEPT ![kloc.eid] = @ \cup {k}]

KeyErase(k) ==
  /\ kmap' = [kmap EXCEPT ![k] = Absent]
  /\ reverseIndex' = IF kmap[k] = Absent THEN reverseIndex
                     ELSE [reverseIndex EXCEPT ![kmap[k].eid] = @ \ {k}]

(* batch_update: updates maps some keys to new locations, all in extent e.  *)
(* A key that has left the map since is inserted again.                     *)
BatchUpdate(updates, e) ==
  LET moved == DOMAIN updates IN
  /\ kmap' = [k \in Keys |-> IF k \in moved THEN updates[k] ELSE kmap[k]]
  /\ reverseIndex' = [x \in Extents |->
       IF x = e THEN reverseIndex[x] \cup moved
       ELSE reverseIndex[x] \ {k \in moved : kmap[k] # Absent /\ kmap[k].eid = x}]

Put == \E k \in Keys, kloc \in KeyLocation : KeyPut(k, kloc)
Erase == \E k \in Keys : KeyErase(k)
Batch ==
  \E e \in Extents, S \in SUBSET Keys :
    \E updates \in [S -> {kloc \in KeyLocation : kloc.eid = e}] : BatchUpdate(updates, e)

KeyMapNext == Put \/ Erase \/ Batch
KeyMapSpec == KeyMapInit /\ [][KeyMapNext]_keyVars

-----------------------------------------------------------------------------
(* compact() finds the live data of an extent through the reverse index:    *)
(* it lists exactly the keys whose location names the extent.               *)
ReverseIndexExact ==
  \A e \in Extents :
    reverseIndex[e] = {k \in Keys : kmap[k] # Absent /\ kmap[k].eid = e}

=============================================================================
