--------------------------------- MODULE MCBot ---------------------------------
(* Two bots, of which one listens; the other may have the same source.  Ids wrap *)
(* beyond the bound.                                                             *)
EXTENDS Bot

CONSTANTS b1, b2

SourcesOf == [b \in Bots |-> IF b = b1 THEN {1} ELSE {1, 2}]
===============================================================================
