------------------------------ MODULE MCBuffer ------------------------------
(* Two lists over a few small raws, blocks of two cells.                    *)
EXTENDS Buffer, TLC

MCChunks == {<<2, 1>>}
Symmetry == Permutations(Raws) \cup Permutations(Lists)
\* the last call is for the properties of a step, not part of the state
Memory   == <<raws, lists, calls>>
=============================================================================
