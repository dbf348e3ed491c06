------------------------------- MODULE MCBtier -------------------------------
(* Instances of Btier for TLC.                                              *)
EXTENDS Btier, TLC

(* Keys are interchangeable; the extents are not        *)
(* (find_extent_with_space prefers smaller ids).                            *)
Symmetry == Permutations(Keys)
=============================================================================
