------------------------------- MODULE MCServer -------------------------------
(* Two shards: symbols 0 and 2 share one.  std::hash is the identity, as in  *)
(* the standard libraries the server is built with.                          *)
EXTENDS Server

CONSTANTS c1, c2, empty, quoted

TwoConnections == {c1, c2}
TwoTops == {empty, quoted}
IdentityHash == [symbol \in Symbols |-> symbol]
===============================================================================
