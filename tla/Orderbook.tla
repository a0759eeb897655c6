------------------------------- MODULE Orderbook -------------------------------
(***************************************************************************)
(* The limit order book of one symbol (src/Orderbook/src/orderbook.cpp):   *)
(* two sorted maps of price levels, each level a FIFO list of orders, an   *)
(* index from order id to order, and a per-price summary, levelData_, that *)
(* the fill-or-kill check reads.                                           *)
(*                                                                         *)
(* One thread at a time owns a book (Shard::process holds books_mutex_),   *)
(* so calls do not interleave; the matching loop inside AddOrder is taken  *)
(* one turn at a time, and nothing else is enabled while it runs.  Prices  *)
(* are numbers (a NaN limit price is outside the model) and quantities and *)
(* counts wrap around at Wrap, as 32-bit unsigned ones do at 2^32.         *)
(***************************************************************************)
EXTENDS Integers, Sequences, SequencesExt

CONSTANTS
  Ids,          \* order ids
  Prices,       \* limit prices that callers use
  Quantities,   \* quantities that callers use
  Types,        \* the order types that callers use, a subset of OrderTypes
  Wrap,         \* modulus of Quantity arithmetic
  NoPrice,      \* constants::InvalidPrice, the price of a market order
  None          \* no order

OrderTypes == {"GoodTillCancel", "FillAndKill", "FillOrKill", "Market"}
Sides == {"Buy", "Sell"}
Opposite(side) == IF side = "Buy" THEN "Sell" ELSE "Buy"

\* The price of an order as it comes, before a market order gets one.
Prices0 == Prices \cup {NoPrice}
OrderRecord == [type : OrderTypes, id : Ids, side : Sides, price : Prices0,
                initial : Quantities, remaining : 0 .. Wrap - 1]

ASSUME PricesAssumption == Prices \subseteq Int /\ NoPrice \notin Int
ASSUME WrapAssumption == Wrap \in Nat \ {0}
\* Zero quantities are left out: no client of the engine sends one.
ASSUME QuantitiesAssumption == Quantities \subseteq 1 .. Wrap - 1
ASSUME TypesAssumption == Types \subseteq OrderTypes
ASSUME NoneAssumption == None \notin OrderRecord

VARIABLES
  book,       \* side -> price -> list of order ids: bids_ and asks_
  orders,     \* id -> order: orders_
  levelData,  \* price -> [quantity, count]: levelData_
  phase,      \* where AddOrder is: idle, scan, level, done
  trades,     \* the Trades of the call
  taker,      \* history: the order that the call put on the book, or None
  older,      \* history: <<i, j>> when i has rested on the book longer than j
  collided    \* history: whether a level of one side was closed while the
              \* other side kept orders at that very price: never, inCall (the
              \* one under way, the first time), before

state == <<book, orders, levelData>>
history == <<taker, older, collided>>
vars == <<state, phase, trades, history>>

\* The book and its indices as one value, for operations made of several calls.
State == [book |-> book, orders |-> orders, levelData |-> levelData]

Becomes(st) ==
  /\ book' = st.book
  /\ orders' = st.orders
  /\ levelData' = st.levelData

EmptyMap == <<>>   \* the function whose domain is empty
Put(f, k, v) == [x \in DOMAIN f \cup {k} |-> IF x = k THEN v ELSE f[x]]
Drop(f, k) == [x \in DOMAIN f \ {k} |-> f[x]]

\* What the history keeps of the orders that stay.
Among(ids) == older \cap (ids \X ids)

-------------------------------------------------------------------------------
(* Price levels.                                                            *)

Levels(bk, side) == DOMAIN bk[side]

\* begin()->first and rbegin()->first of bids_ and asks_.
Best(bk, side) == IF side = "Buy" THEN Max(Levels(bk, side)) ELSE Min(Levels(bk, side))
Worst(bk, side) == IF side = "Buy" THEN Min(Levels(bk, side)) ELSE Max(Levels(bk, side))

CanMatch(bk, side, price) ==
  /\ Levels(bk, Opposite(side)) # {}
  /\ IF side = "Buy" THEN price >= Best(bk, "Sell") ELSE price <= Best(bk, "Buy")

\* What the summaries say that each price holds.
Held(ld) == [p \in DOMAIN ld |-> ld[p].quantity]

\* Mutant of CanFullyFill: levels beyond the limit count too.
CanFullyFillBeyondLimit(st, side, price, quantity) ==
  LET threshold == Best(st.book, Opposite(side))
      eligible == {p \in DOMAIN st.levelData :
                     IF side = "Buy" THEN threshold <= p ELSE p <= threshold}
  IN /\ CanMatch(st.book, side, price)
     /\ quantity <= SumFunctionOnSet(Held(st.levelData), eligible)

\* The levels from the best opposite price to the limit, whichever side they
\* belong to, hold the quantity asked for.
CanFullyFill(st, side, price, quantity) ==
  LET threshold == Best(st.book, Opposite(side))
      eligible == {p \in DOMAIN st.levelData :
                     IF side = "Buy" THEN threshold <= p /\ p <= price
                                     ELSE price <= p /\ p <= threshold}
  IN /\ CanMatch(st.book, side, price)
     /\ eligible # {}
     /\ quantity <= SumFunctionOnSet(Held(st.levelData), eligible)

\* Mutant of Crossed: equal prices do not trade.
CrossedStrict(bk) ==
  /\ Levels(bk, "Buy") # {} /\ Levels(bk, "Sell") # {}
  /\ Best(bk, "Buy") > Best(bk, "Sell")

\* A fill on one side's best level is due.
Crossed(bk) ==
  /\ Levels(bk, "Buy") # {} /\ Levels(bk, "Sell") # {}
  /\ Best(bk, "Buy") >= Best(bk, "Sell")

\* UpdateLevelData(), with the signed change of the quantity and of the count.
UpdateLevelData(ld, price, dq, dc) ==
  LET old == IF price \in DOMAIN ld THEN ld[price] ELSE [quantity |-> 0, count |-> 0]
      new == [quantity |-> (old.quantity + dq) % Wrap, count |-> (old.count + dc) % Wrap]
  IN IF new.count = 0 THEN Drop(ld, price) ELSE Put(ld, price, new)

-------------------------------------------------------------------------------
(* Putting an order on the book and taking one off.                         *)

\* Mutant of WithOrder: the order is put at the front of its level.
WithOrderInFront(st, o) ==
  LET levels == st.book[o.side]
      queue == IF o.price \in DOMAIN levels THEN levels[o.price] ELSE <<>>
  IN [book |-> [st.book EXCEPT ![o.side] = Put(@, o.price, <<o.id>> \o queue)],
      orders |-> Put(st.orders, o.id, o),
      levelData |-> UpdateLevelData(st.levelData, o.price, o.initial, 1)]

\* AddOrder's insertion: the back of its level, the index, OnOrderAdded().
WithOrder(st, o) ==
  LET levels == st.book[o.side]
      queue == IF o.price \in DOMAIN levels THEN levels[o.price] ELSE <<>>
  IN [book |-> [st.book EXCEPT ![o.side] = Put(@, o.price, Append(queue, o.id))],
      orders |-> Put(st.orders, o.id, o),
      levelData |-> UpdateLevelData(st.levelData, o.price, o.initial, 1)]

\* Mutants of WithoutOrder: an emptied level stays in its map; the summary
\* loses the quantity the order came with.
WithoutOrderKeepsLevel(st, id) ==
  LET o == st.orders[id]
  IN [book |-> [st.book EXCEPT ![o.side][o.price] = RemoveFirst(@, id)],
      orders |-> Drop(st.orders, id),
      levelData |-> UpdateLevelData(st.levelData, o.price, -o.remaining, -1)]

WithoutOrderInitial(st, id) ==
  LET o == st.orders[id]
      queue == RemoveFirst(st.book[o.side][o.price], id)
  IN [book |-> [st.book EXCEPT ![o.side] =
                  IF queue = <<>> THEN Drop(@, o.price) ELSE Put(@, o.price, queue)],
      orders |-> Drop(st.orders, id),
      levelData |-> UpdateLevelData(st.levelData, o.price, -o.initial, -1)]

\* CancelOrderInternal() of an order on the book.
WithoutOrder(st, id) ==
  LET o == st.orders[id]
      queue == RemoveFirst(st.book[o.side][o.price], id)
  IN [book |-> [st.book EXCEPT ![o.side] =
                  IF queue = <<>> THEN Drop(@, o.price) ELSE Put(@, o.price, queue)],
      orders |-> Drop(st.orders, id),
      levelData |-> UpdateLevelData(st.levelData, o.price, -o.remaining, -1)]

\* Mutants of ToGoodTillCancel: the type stays; the best price is taken.
ToGoodTillCancelKeepsType(bk, o) ==
  IF o.type = "Market" /\ Levels(bk, Opposite(o.side)) # {}
  THEN [o EXCEPT !.price = Worst(bk, Opposite(o.side))] ELSE o

ToGoodTillCancelAtBest(bk, o) ==
  IF o.type = "Market" /\ Levels(bk, Opposite(o.side)) # {}
  THEN [o EXCEPT !.type = "GoodTillCancel", !.price = Best(bk, Opposite(o.side))] ELSE o

\* Market orders become limit orders at the worst price that can serve them.
ToGoodTillCancel(bk, o) ==
  IF o.type = "Market" /\ Levels(bk, Opposite(o.side)) # {}
  THEN [o EXCEPT !.type = "GoodTillCancel", !.price = Worst(bk, Opposite(o.side))]
  ELSE o

\* The early returns of AddOrder().
Refused(st, o) ==
  \/ o.id \in DOMAIN st.orders
  \/ o.type = "FillAndKill" /\ ~CanMatch(st.book, o.side, o.price)
  \/ o.type = "Market" /\ Levels(st.book, Opposite(o.side)) = {}
  \/ o.type = "FillOrKill" /\ ~CanFullyFill(st, o.side, o.price, o.initial)

\* AddOrder() on the state st: refused, or on the book with matching to come.
Add(st, o) ==
  /\ trades' = <<>>
  /\ UNCHANGED collided
  /\ IF Refused(st, o)
     THEN /\ Becomes(st)
          /\ phase' = "done"
          /\ taker' = None
          /\ older' = Among(DOMAIN st.orders)
     ELSE /\ Becomes(WithOrder(st, ToGoodTillCancel(st.book, o)))
          /\ phase' = "scan"
          /\ taker' = o
          /\ older' = Among(DOMAIN st.orders) \cup ((DOMAIN st.orders) \X {o.id})

\* The orders that callers submit.
Order(type, id, side, price, quantity) ==
  [type |-> type, id |-> id, side |-> side, initial |-> quantity, remaining |-> quantity,
   price |-> IF type = "Market" THEN NoPrice ELSE price]

AddOrder(o) ==
  /\ phase = "idle"
  /\ Add(State, o)

CancelOrder(id) ==
  /\ phase = "idle"
  /\ id \in DOMAIN orders
  /\ Becomes(WithoutOrder(State, id))
  /\ older' = Among(DOMAIN orders \ {id})
  /\ UNCHANGED <<phase, trades, taker, collided>>

\* The order is cancelled and added anew, with the type it has by now.
ModifyOrder(id, side, price, quantity) ==
  /\ phase = "idle"
  /\ id \in DOMAIN orders
  /\ Add(WithoutOrder(State, id),
         Order(orders[id].type, id, side, price, quantity))

-------------------------------------------------------------------------------
(* MatchOrders().                                                           *)

BestBid == Best(book, "Buy")
BestAsk == Best(book, "Sell")
BidQueue == book["Buy"][BestBid]
AskQueue == book["Sell"][BestAsk]

\* The head of the outer loop.
Scan ==
  /\ phase = "scan"
  /\ phase' = IF Crossed(book) THEN "level" ELSE "done"
  /\ UNCHANGED <<state, trades, history>>

\* Order::Fill().
Fill(o, quantity) ==
  IF quantity > o.remaining THEN o ELSE [o EXCEPT !.remaining = @ - quantity]

\* One turn of the inner loop: the two oldest orders of the best levels trade.
FillFront ==
  /\ phase = "level"
  /\ BidQueue # <<>> /\ AskQueue # <<>>
  /\ LET front == {Head(BidQueue), Head(AskQueue)}
         quantity == Min({orders[i].remaining : i \in front})
         bid == Fill(orders[Head(BidQueue)], quantity)
         ask == Fill(orders[Head(AskQueue)], quantity)
         filled == {o.id : o \in {x \in {bid, ask} : x.remaining = 0}}
         Rest(queue) == IF Head(queue) \in filled THEN Tail(queue) ELSE queue
         Left(o) == IF o.id \in filled THEN -1 ELSE 0
     IN /\ book' = [book EXCEPT !["Buy"][BestBid] = Rest(@), !["Sell"][BestAsk] = Rest(@)]
        /\ orders' = [i \in DOMAIN orders \ filled |->
                        IF i = bid.id THEN bid ELSE IF i = ask.id THEN ask ELSE orders[i]]
        /\ trades' = Append(trades, [bid |-> bid.id, bidPrice |-> bid.price,
                                     ask |-> ask.id, askPrice |-> ask.price,
                                     quantity |-> quantity])
        /\ levelData' = UpdateLevelData(
                          UpdateLevelData(levelData, bid.price, -quantity, Left(bid)),
                          ask.price, -quantity, Left(ask))
        /\ older' = Among(DOMAIN orders \ filled)
  /\ UNCHANGED <<phase, taker, collided>>

\* An emptied best level goes, and with it the summary of its price.
CloseSide(st, side) ==
  LET price == Best(st.book, side)
  IN IF Levels(st.book, side) # {} /\ st.book[side][price] = <<>>
     THEN [st EXCEPT !.book[side] = Drop(@, price), !.levelData = Drop(@, price)]
     ELSE st

\* Mutants of KillFront: only bids are looked at; any remainder is killed.
KillFrontOfBids(st, side) ==
  LET front == Head(st.book[side][Best(st.book, side)])
  IN IF side = "Buy" /\ Levels(st.book, side) # {} /\ st.orders[front].type = "FillAndKill"
     THEN WithoutOrder(st, front) ELSE st

KillFrontOfAnyType(st, side) ==
  IF Levels(st.book, side) # {}
  THEN WithoutOrder(st, Head(st.book[side][Best(st.book, side)])) ELSE st

\* A fill-and-kill order at the front of a side's best level is cancelled.
KillFront(st, side) ==
  LET front == Head(st.book[side][Best(st.book, side)])
  IN IF Levels(st.book, side) # {} /\ st.orders[front].type = "FillAndKill"
     THEN WithoutOrder(st, front)
     ELSE st

\* The level closed on this side has the price of a level of the other side.
Collides(side) ==
  LET price == Best(book, side)
  IN /\ book[side][price] = <<>>
     /\ price \in Levels(book, Opposite(side))
     /\ book[Opposite(side)][price] # <<>>

\* Mutant of CloseLevel: the emptied level is not erased.
CloseLevelKeepsLevel ==
  /\ phase = "level"
  /\ BidQueue = <<>> \/ AskQueue = <<>>
  /\ phase' = "scan"
  /\ UNCHANGED <<state, trades, history>>

\* What follows the inner loop: levels first, then fill-and-kill remainders.
CloseLevel ==
  /\ phase = "level"
  /\ BidQueue = <<>> \/ AskQueue = <<>>
  /\ LET closed == CloseSide(CloseSide(State, "Buy"), "Sell")
         killed == KillFront(KillFront(closed, "Buy"), "Sell")
     IN /\ Becomes(killed)
        /\ older' = Among(DOMAIN killed.orders)
  /\ collided' = IF collided = "never" /\ (\E side \in Sides : Collides(side))
                  THEN "inCall" ELSE collided
  /\ phase' = "scan"
  /\ UNCHANGED <<trades, taker>>

\* The caller has used what AddOrder() or ModifyOrder() returned.
Return ==
  /\ phase = "done"
  /\ phase' = "idle"
  /\ trades' = <<>>
  /\ taker' = None
  /\ collided' = IF collided = "inCall" THEN "before" ELSE collided
  /\ UNCHANGED <<state, older>>

Init ==
  /\ book = [side \in Sides |-> EmptyMap]
  /\ orders = EmptyMap
  /\ levelData = EmptyMap
  /\ phase = "idle"
  /\ trades = <<>>
  /\ taker = None
  /\ older = {}
  /\ collided = "never"

MatchOrders == Scan \/ FillFront \/ CloseLevel

Next ==
  \/ \E type \in Types, id \in Ids, side \in Sides, p \in Prices, q \in Quantities :
       AddOrder(Order(type, id, side, p, q))
  \/ \E id \in Ids : CancelOrder(id)
  \/ \E id \in Ids, side \in Sides, p \in Prices, q \in Quantities :
       ModifyOrder(id, side, p, q)
  \/ MatchOrders
  \/ Return

Spec == Init /\ [][Next]_vars

-------------------------------------------------------------------------------
(* Properties.                                                              *)

AtRest == phase \in {"idle", "done"}
Resting(side, p) == {i \in DOMAIN orders : orders[i].side = side /\ orders[i].price = p}
Queue(side, p) == IF p \in Levels(book, side) THEN book[side][p] ELSE <<>>
Remaining == [i \in DOMAIN orders |-> orders[i].remaining]

LevelRecord == [quantity : 0 .. Wrap - 1, count : 0 .. Wrap - 1]

\* Every variable has its type; no market order and no priceless one rests.
TypeOK ==
  /\ DOMAIN book = Sides
  /\ \A side \in Sides : Levels(book, side) \subseteq Prices
  /\ DOMAIN orders \subseteq Ids
  /\ \A i \in DOMAIN orders : orders[i] \in OrderRecord /\ orders[i].type # "Market"
  /\ DOMAIN levelData \subseteq Prices
  /\ \A p \in DOMAIN levelData : levelData[p] \in LevelRecord
  /\ phase \in {"idle", "scan", "level", "done"}
  /\ taker \in OrderRecord \cup {None}
  /\ older \subseteq (DOMAIN orders) \X (DOMAIN orders)
  /\ collided \in {"never", "inCall", "before"}

\* orders_, bids_ and asks_ agree: the iterators that CancelOrderInternal()
\* erases through are valid, and every front() is that of a non-empty list.
IndexConsistent ==
  phase # "level" =>
    \A side \in Sides :
      /\ Levels(book, side) = {orders[i].price : i \in {j \in DOMAIN orders : orders[j].side = side}}
      /\ \A p \in Levels(book, side) :
           /\ ToSet(book[side][p]) = Resting(side, p)
           /\ IsInjective(book[side][p])

\* MatchOrders(): no call leaves a bid at or above an ask.
NotCrossedAtRest ==
  AtRest => \A bid \in Levels(book, "Buy"), ask \in Levels(book, "Sell") : bid < ask

\* MatchOrders() and ModifyOrder(): what a fill-and-kill order leaves unfilled
\* never outlives the call.
FillAndKillNeverRests ==
  AtRest => \A i \in DOMAIN orders : orders[i].type # "FillAndKill"

\* AddOrder() of a market order: a remainder stays on the book (as a limit
\* order) only when the other side has been emptied.
MarketExhaustsOpposite ==
  phase = "done" /\ taker # None /\ taker.type = "Market" /\ taker.id \in DOMAIN orders =>
    Levels(book, Opposite(taker.side)) = {}

Traded(i) ==
  SumFunctionOnSet([n \in DOMAIN trades |-> trades[n].quantity],
                   {n \in DOMAIN trades : i \in {trades[n].bid, trades[n].ask}})

\* The Trades that a call returns and what it leaves on the book account for
\* the whole quantity of the order; only a fill-and-kill order loses any.
TakerAccountedFor ==
  phase = "done" /\ taker # None =>
    IF taker.id \in DOMAIN orders
    THEN Traded(taker.id) + orders[taker.id].remaining = taker.initial
    ELSE \/ Traded(taker.id) = taker.initial
         \/ taker.type = "FillAndKill" /\ Traded(taker.id) \in 1 .. taker.initial

\* MatchOrders(): every fill is between the best bid and the best ask, and at
\* each of the two prices with the order that has waited longest -- also after
\* cancellations, and with a modified order at the back.
Ahead(i, j) ==
  /\ orders[i].side = orders[j].side
  /\ \/ orders[i].price = orders[j].price /\ <<i, j>> \in older
     \/ orders[i].side = "Buy" /\ orders[i].price > orders[j].price
     \/ orders[i].side = "Sell" /\ orders[i].price < orders[j].price
PriceTimePriority ==
  [][Len(trades') > Len(trades) =>
       \A i \in DOMAIN orders : ~Ahead(i, Last(trades').bid) /\ ~Ahead(i, Last(trades').ask)]_vars

\* levelData_ says of every price what the lists hold there, as long as no
\* level was closed while the other side kept orders at its price.
LevelDataExactUntilCollision ==
  AtRest /\ collided = "never" =>
    /\ DOMAIN levelData = Levels(book, "Buy") \cup Levels(book, "Sell")
    /\ \A p \in DOMAIN levelData :
         LET here == Resting("Buy", p) \cup Resting("Sell", p)
         IN levelData[p] = [quantity |-> SumFunctionOnSet(Remaining, here) % Wrap,
                            count |-> Cardinality(here)]

\* CanFullyFill(): a fill-or-kill order that is accepted is filled completely
\* within its call, if there was no such closing in the calls before.
FillOrKillFillsUntilCollision ==
  phase = "done" /\ taker # None /\ taker.type = "FillOrKill" /\ collided # "before" =>
    Traded(taker.id) = taker.initial

\* The matching loop ends: each of its turns uses up quantity or levels, of
\* which there is an end, and a turn is due until nothing crosses.
Work == SumFunctionOnSet(Remaining, DOMAIN orders)
          + Cardinality(Levels(book, "Buy")) + Cardinality(Levels(book, "Sell"))
MatchingProgresses == [][phase = "level" => Work' < Work]_vars

\* What test_adding.cpp:25 says of a fill-or-kill order that cannot be filled:
\* "ThenNoTradesNoOrdersOnBook".
FillOrKillNeverRests ==
  phase = "done" => \A i \in DOMAIN orders : orders[i].type # "FillOrKill"
===============================================================================
