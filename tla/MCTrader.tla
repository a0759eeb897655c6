-------------------------------- MODULE MCTrader --------------------------------
(* Two orders, which may trade with each other; trades open, add to, reduce,     *)
(* close and reverse a position, and their datagrams come, repeat or stay away.  *)
EXTENDS Trader
================================================================================
