------------------------- MODULE MCOrderEntryListener -------------------------
(* Three clients for TLC.                                                    *)
EXTENDS OrderEntryListener

CONSTANTS c1, c2, c3

ThreeClients == {c1, c2, c3}
===============================================================================
