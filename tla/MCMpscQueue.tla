----------------------------- MODULE MCMpscQueue -----------------------------
(* A small queue for TLC: three producers for two places.                    *)
EXTENDS MpscQueue

CONSTANTS p1, p2, p3

ThreeProducers == {p1, p2, p3}
===============================================================================
