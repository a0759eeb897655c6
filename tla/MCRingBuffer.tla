----------------------------- MODULE MCRingBuffer -----------------------------
(* Small rings for TLC: the consumers are model values.                      *)
EXTENDS RingBuffer

CONSTANTS l1, l2, y1, y2

TwoLossless == {l1, l2}
OneLossy == {y1}
TwoLossy == {y1, y2}
None == {}
===============================================================================
