------------------------------ MODULE MCOrderbook ------------------------------
(* Small books for TLC.  Order ids are only ever compared for equality, so    *)
(* they may be permuted.                                                      *)
EXTENDS Orderbook, TLC

CONSTANTS o1, o2, o3

ThreeOrders == {o1, o2, o3}
TwoOrders == {o1, o2}

IdSymmetry == Permutations(Ids)
===============================================================================
