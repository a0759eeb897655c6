--------------------------------- MODULE Trader ---------------------------------
(***************************************************************************)
(* A program like src/Python/strategies/my_strategy.py: the main thread in *)
(* Client.run(), the thread of the MarketDataReceiver that calls the       *)
(* strategy, and any other thread of the program; one symbol.              *)
(*                                                                         *)
(* An order's id is its local id.  The exchange may fill an order from the *)
(* moment it is sent, each trade against somebody else's order or another  *)
(* of ours.  A trade's datagram is received at any time later, any number  *)
(* of times, or never; those of trades between others are left out.        *)
(***************************************************************************)
EXTENDS TradeMetrics

CONSTANTS
  Others,        \* somebody else's order
  NoOrder,
  Prices, Quantities,
  MaxOrders,     \* bound on the orders of the program
  MaxTrades,     \* bound on the trades it has part in
  MaxReceipts    \* bound on the datagrams of these that it receives

ASSUME InputsAssumption ==
  /\ Prices \subseteq Nat /\ Quantities \subseteq Nat \ {0}
  /\ MaxOrders \in Nat /\ MaxTrades \in Nat /\ MaxReceipts \in Nat
  /\ {Others, NoOrder} \cap Nat = {}

VARIABLES
  stage,          \* the main thread: down, running, stopping, done
  stopEvent,      \* the receiver's _stop_event
  receiver,       \* its thread: none, recv, trade, top, dead
  trade,          \* in on_trade(): its trade, by its number
  placing,        \* per thread, in buy() or sell(): idle, remember
  order,          \* per thread: its order
  connected,      \* Client._socket
  nextLocalId,
  orderSymbols,   \* the ids in _order_symbols
  ownIds,         \* _own_order_ids
  buys, sells,    \* the orders sent
  trades,         \* the trades so far
  fills,          \* what the strategy was told of, as in MyStrategy.fills
  handled,        \* history: per trade, how often on_trade() has had it
  unrecognised,   \* history: trades of ours for which my_fill() gave None
  outside         \* history: orders placed by a thread that is not the receiver's

clientVars == <<connected, nextLocalId, orderSymbols, ownIds, buys, sells, outside>>
fillVars == <<fills, handled, unrecognised>>
vars == <<stage, stopEvent, receiver, trade, placing, order, clientVars, trades, fillVars>>

Threads == {"receiver", "other"}

Init ==
  /\ stage = "down" /\ stopEvent = FALSE
  /\ receiver = "none" /\ trade = 0
  /\ placing = [t \in Threads |-> "idle"]
  /\ order = [t \in Threads |-> NoOrder]
  /\ connected = FALSE /\ nextLocalId = 1
  /\ orderSymbols = {} /\ ownIds = {} /\ buys = {} /\ sells = {} /\ outside = {}
  /\ trades = <<>>
  /\ fills = <<>>
  /\ handled = [n \in 1 .. MaxTrades |-> 0]
  /\ unrecognised = {}

-------------------------------------------------------------------------------
(* The main thread: connect(), and run() until its event is set.             *)

Run ==
  /\ stage = "down"
  /\ stage' = "running"
  /\ connected' = TRUE
  /\ receiver' = "recv"
  /\ UNCHANGED <<stopEvent, trade, placing, order, nextLocalId, orderSymbols, ownIds, buys, sells,
                 outside, trades, fillVars>>

\* disconnect(): MarketDataReceiver.stop() sets the flag.
Stop ==
  /\ stage = "running"
  /\ stage' = "stopping" /\ stopEvent' = TRUE
  /\ UNCHANGED <<receiver, trade, placing, order, clientVars, trades, fillVars>>

\* Its join gives up after two seconds, long enough for anything but a callback
\* that is still on; then the connection is closed, and the report printed.
Disconnect ==
  /\ stage = "stopping" /\ receiver # "recv"
  /\ stage' = "done" /\ connected' = FALSE
  /\ UNCHANGED <<stopEvent, receiver, trade, placing, order, nextLocalId, orderSymbols, ownIds,
                 buys, sells, outside, trades, fillVars>>

-------------------------------------------------------------------------------
(* buy() and sell().                                                         *)

\* The receiver's thread places orders in on_top_of_book(), another at any time.
\* Client._add() takes an id of its own, under the lock.
NewOrderId(t) ==
  /\ placing[t] = "idle"
  /\ IF t = "receiver" THEN receiver = "top" ELSE stage = "running"
  /\ nextLocalId <= MaxOrders
  /\ nextLocalId' = nextLocalId + 1
  /\ UNCHANGED <<stage, stopEvent, trade, connected, orderSymbols, ownIds, trades, fillVars>>

\* Client._send(), under the lock again; who gets which id makes no difference.
Send(t) ==
  /\ connected
  /\ NewOrderId(t)
  /\ \/ buys' = buys \cup {nextLocalId} /\ UNCHANGED sells
     \/ sells' = sells \cup {nextLocalId} /\ UNCHANGED buys
  /\ placing' = [placing EXCEPT ![t] = "remember"]
  /\ order' = [order EXCEPT ![t] = nextLocalId]
  /\ outside' = IF t = "receiver" THEN outside ELSE outside \cup {nextLocalId}
  /\ UNCHANGED receiver

\* It raises: the connection is closed, or broken.  A callback does not catch it,
\* and neither does _run(): the receiver's thread is gone.
SendRaises(t) ==
  /\ NewOrderId(t)
  /\ receiver' = IF t = "receiver" THEN "dead" ELSE receiver
  /\ UNCHANGED <<placing, order, buys, sells, outside>>

\* Client._add() remembers the order's symbol, and then Strategy.buy() or sell()
\* that it is its own: as much later, for who looks for it, as the second.
Remember(t) ==
  /\ orderSymbols' = orderSymbols \cup {order[t]}
  /\ ownIds' = ownIds \cup {order[t]}
  /\ order' = [order EXCEPT ![t] = NoOrder]
  /\ placing[t] = "remember"
  /\ placing' = [placing EXCEPT ![t] = "idle"]
  /\ UNCHANGED <<stage, stopEvent, trade, receiver, connected, nextLocalId, buys, sells, outside, trades, fillVars>>

-------------------------------------------------------------------------------
(* The exchange, and the multicast group.                                    *)

\* A fill of one or two of ours, at the price of that order, or of the bid.  What
\* nobody will ever receive is left out; during stop() that is every fill of an
\* order that is sent during stop().
Trade ==
  /\ stage = "running" /\ receiver # "dead"
  /\ Len(trades) < MaxTrades
  /\ \E bid \in buys \cup {Others}, ask \in sells \cup {Others},
        price \in Prices, quantity \in Quantities :
       /\ {bid, ask} # {Others}
       /\ trades' = Append(trades, [bid |-> bid, ask |-> ask, price |-> price,
                                    quantity |-> quantity])
  /\ UNCHANGED <<stage, stopEvent, receiver, trade, placing, order, clientVars, fillVars>>

-------------------------------------------------------------------------------
(* MarketDataReceiver._run().                                                *)

ReceiverMoves(from, to) ==
  /\ receiver = from
  /\ receiver' = to
  /\ UNCHANGED <<stage, stopEvent, placing, order, clientVars, trades>>

\* Any of the trades so far: the group neither keeps their order nor drops repeats,
\* and nothing here looks for either.
RecvTrade ==
  /\ SumFunctionOnSet(handled, DOMAIN handled) < MaxReceipts
  /\ trade' \in DOMAIN trades
  /\ ReceiverMoves("recv", "trade")
  /\ UNCHANGED fillVars

\* A top of book: on_top_of_book() may place orders before it returns; when there
\* can be none it makes no difference.
RecvTop ==
  /\ nextLocalId <= MaxOrders
  /\ ReceiverMoves("recv", "top")
  /\ UNCHANGED <<trade, fillVars>>

TopReturns ==
  /\ placing["receiver"] = "idle"
  /\ ReceiverMoves("top", IF stopEvent THEN "none" ELSE "recv")
  /\ UNCHANGED <<trade, fillVars>>

StopSeen ==
  /\ stopEvent
  /\ ReceiverMoves("recv", "none")
  /\ UNCHANGED <<trade, fillVars>>

\* Mutant of MyFill: the ask's order is not looked up.
MyFillBidOnly(t) ==
  IF t.bid \in ownIds THEN <<[side |-> "buy", price |-> t.price, quantity |-> t.quantity]>>
  ELSE <<>>

\* Strategy.my_fill(): at most one fill, the bid's if both are ours.
MyFill(t) ==
  IF t.bid \in ownIds THEN <<[side |-> "buy", price |-> t.price, quantity |-> t.quantity]>>
  ELSE IF t.ask \in ownIds THEN <<[side |-> "sell", price |-> t.price, quantity |-> t.quantity]>>
  ELSE <<>>

\* MyStrategy.on_trade()
OnTrade ==
  /\ ReceiverMoves("trade", IF stopEvent THEN "none" ELSE "recv")
  /\ fills' = fills \o MyFill(trades[trade])
  /\ handled' = [handled EXCEPT ![trade] = @ + 1]
  /\ unrecognised' = IF MyFill(trades[trade]) = <<>> THEN unrecognised \cup {trade} ELSE unrecognised
  /\ trade' = 0

-------------------------------------------------------------------------------
Placing(t) == Send(t) \/ SendRaises(t) \/ Remember(t)
Receiving == RecvTrade \/ RecvTop \/ TopReturns \/ StopSeen \/ OnTrade

Next ==
  \/ Run \/ Stop \/ Disconnect
  \/ \E t \in Threads : Placing(t)
  \/ Trade
  \/ Receiving

Spec == Init /\ [][Next]_vars

-------------------------------------------------------------------------------
(* Properties.                                                               *)

Ours(n) == [buy |-> trades[n].bid # Others, sell |-> trades[n].ask # Others]
SelfTrade(n) == Ours(n).buy /\ Ours(n).sell

Bids == {n \in DOMAIN trades : Ours(n).buy}
Amounts == [n \in DOMAIN trades |-> trades[n].quantity]

\* What the exchange has really done to the program's position.
TruePosition ==
  SumFunctionOnSet(Amounts, Bids)
    - SumFunctionOnSet(Amounts, {n \in DOMAIN trades : Ours(n).sell})

SelfTraded == SumFunctionOnSet(Amounts, {n \in DOMAIN trades : SelfTrade(n)})

\* The quantities that on_trade() has been told of, repeats and all.
Told == [n \in DOMAIN trades |-> handled[n] * trades[n].quantity]

\* strategy.py:57-61: my_fill() knows every order this strategy submitted.  A trade
\* goes unrecognised only if an order of it was placed by a thread other than the
\* receiver's.  When there is none, the fills are off by exactly the datagrams that
\* were lost or came again; and if each came once, they give the position, but for
\* what the program traded with itself, which they count as bought.
FillsGivePosition ==
  /\ \A n \in unrecognised : {trades[n].bid, trades[n].ask} \cap outside # {}
  /\ outside = {} =>
       Position(fills).quantity =
         SumFunctionOnSet(Told, Bids) - SumFunctionOnSet(Told, DOMAIN trades \ Bids)
  /\ outside = {} /\ (\A n \in DOMAIN trades : handled[n] = 1) =>
       Position(fills).quantity = TruePosition + SelfTraded

\* The performance report: what was realized is the money that changed hands and
\* the cost of what is still held, only a closing fill realizes anything, the
\* drawdown is the largest fall, and its duration no more than the longest time under
\* a peak, and none if nothing fell.
ReportBalances == stage = "done" => Balances(fills)

\* What two docstrings say of a report on the fills so far: each closing fill has a
\* realized amount, and a drawdown lasts until its peak is exceeded.  The code may
\* break both at once.
ReportAsDocumented == ClosingFillsCounted(fills) \/ DurationAsDocumented(EquityCurve(fills))
================================================================================
