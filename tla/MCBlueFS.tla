------------------------------- MODULE MCBlueFS -------------------------------
(* BlueFS for TLC.  Names are interchangeable, and so are blocks.  Nothing  *)
(* is claimed of a log that replay cannot take: those states are not        *)
(* followed.                                                                *)
EXTENDS BlueFS, TLC

Symmetry == Permutations(Name) \cup Permutations(Block)
Playable == ~spoiled

=============================================================================
