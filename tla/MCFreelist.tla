----------------------------- MODULE MCFreelist -----------------------------
(* Devices of five and six blocks, two blocks to a key: the first has a     *)
(* padding bit, the second may end in missing keys.                         *)
EXTENDS Freelist

MCLonger == {<<3, 4>>}
MCExtents == {<<1, 1>>, <<1, 3>>, <<3, 2>>}
MCOther ==
  { <<SetOp(3, 1, 1), SetOp(4, 1, 1), MergeOp(4, 1, 1)>>,
    <<MergeOp(4, 2, 1), SetOp(3, 2, 1), MergeOp(3, 1, 1), RmKey(3, 1)>>,
    <<RmKeysByPrefix(3)>>,
    <<RmRangeKeys(4, 1, 2)>> }
=============================================================================
