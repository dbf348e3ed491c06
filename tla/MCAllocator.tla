---------------------------- MODULE MCAllocator ----------------------------
(* Five blocks in three bitmap entries of two and two regions of two entries; *)
(* the hybrid's tree has room for one segment.                              *)
EXTENDS Allocator, TLC

MCRequests == {<<1, 1, 0>>, <<3, 1, 2>>, <<2, 2, 2>>, <<5, 1, 0>>}
MCRanges   == {<<1, 5>>, <<1, 2>>, <<3, 1>>}
Symmetry   == Permutations(Threads)
=============================================================================
