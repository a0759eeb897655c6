------------------------------- MODULE OrderFlow -------------------------------
(***************************************************************************)
(* What the exchange promises to whoever sends it orders and watches its   *)
(* quotes, with no threads, queues, rings or shards: orders are taken in   *)
(* one order, those of a symbol are processed in it, each once, and the    *)
(* quotes sent for a symbol follow from later and later orders.  Quotes    *)
(* may be skipped, and one may come ahead of its turn, in place of one     *)
(* that is lost: only after it may a quote step back.  An order's number   *)
(* is its place in accepted.                                               *)
(***************************************************************************)
EXTENDS Naturals, Sequences

CONSTANTS Symbols,    \* what is traded
          MaxOrders   \* bound on the orders

VARIABLES accepted,   \* the symbols of the orders taken, in order
          done,       \* per symbol, the number of the order processed last
          quoted,     \* per symbol, the number of the order behind the last quote
          inTurn      \*   and of that behind the last one that came in its turn

flowVars == <<accepted, done, quoted, inTurn>>

Init ==
  /\ accepted = <<>>
  /\ done = [symbol \in Symbols |-> 0]
  /\ quoted = [symbol \in Symbols |-> 0]
  /\ inTurn = [symbol \in Symbols |-> 0]

Accept(symbol) ==
  /\ Len(accepted) < MaxOrders
  /\ accepted' = Append(accepted, symbol)
  /\ UNCHANGED <<done, quoted, inTurn>>

\* The first order of the symbol after the one processed last.
IsNext(symbol, number) ==
  /\ accepted[number] = symbol
  /\ number > done[symbol]
  /\ \A earlier \in (done[symbol] + 1) .. (number - 1) : accepted[earlier] # symbol

Process(symbol) ==
  /\ \E number \in DOMAIN accepted :
       IsNext(symbol, number) /\ done' = [done EXCEPT ![symbol] = number]
  /\ UNCHANGED <<accepted, quoted, inTurn>>

\* In its turn or ahead of it, a quote is of an order processed since the last
\* that came in its turn.
Quote(symbol) ==
  /\ \E number \in (inTurn[symbol] + 1) .. done[symbol] :
       /\ accepted[number] = symbol
       /\ quoted' = [quoted EXCEPT ![symbol] = number]
       /\ inTurn' \in {inTurn, [inTurn EXCEPT ![symbol] = number]}
  /\ UNCHANGED <<accepted, done>>

Next == \E symbol \in Symbols : Accept(symbol) \/ Process(symbol) \/ Quote(symbol)

Spec == Init /\ [][Next]_flowVars

Processed(number) == number \in DOMAIN accepted /\ done[accepted[number]] >= number

EveryOrderProcessed ==
  \A number \in 1 .. MaxOrders : number \in DOMAIN accepted ~> Processed(number)
===============================================================================
