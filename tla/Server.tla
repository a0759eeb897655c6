-------------------------------- MODULE Server --------------------------------
(***************************************************************************)
(* Server::Server with all it owns: connection threads push orders into    *)
(* inbound_queue_, the pump stamps and routes them, each shard's worker    *)
(* runs its books and pushes quotes and trades into two rings, and two     *)
(* reader threads send what they find there.  One thread, the owner, calls *)
(* start() and stop().                                                     *)
(*                                                                         *)
(* The parts keep what their own modules show: MpscQueue is a bounded      *)
(* queue that refuses once closed, a ring is BroadcastLog with one member, *)
(* the listener is quiet when its stop() returns.  What the book does with *)
(* an order is any new top of book and up to one trade.  An order's number *)
(* is its ingress_sequence plus one.                                       *)
(***************************************************************************)
EXTENDS Naturals, Sequences, FiniteSets, FiniteSetsExt

CONSTANTS
  Symbols,          \* SymbolIds
  Hash,             \* std::hash<SymbolId>
  ShardCount,
  Connections,      \* connection threads of the listener
  Tops,             \* tops of book, and among them the
  EmptyTop,         \*   one of an empty book
  NoTop, TornTop,   \* nothing published; a half-overwritten update
  NoSymbol,
  QueueCapacity, InboundCapacity, OutboundCapacity,
  MaxOrders,        \* bound on the orders received
  MaxStarts         \* bound on the calls of start()

ASSUME SymbolsAssumption == Symbols \subseteq Nat /\ NoSymbol \notin Symbols
ASSUME ShardsAssumption == ShardCount \in Nat \ {0} /\ Hash \in [Symbols -> Nat]
ASSUME ConnectionsAssumption == IsFiniteSet(Connections)
ASSUME TopsAssumption == EmptyTop \in Tops /\ {NoTop, TornTop} \cap Tops = {}
ASSUME BoundsAssumption ==
  /\ QueueCapacity \in Nat \ {0} /\ InboundCapacity \in Nat \ {0}
  /\ OutboundCapacity \in Nat \ {0} /\ MaxOrders \in Nat /\ MaxStarts \in Nat

Shards == 0 .. (ShardCount - 1)
Feeds == {"top", "trade"}
ThreadStates == {"none", "loop", "stopping", "draining"}

VARIABLES
  owner,       \* the owner: stopped, running, or the stage it is stopping
  starts,      \* history: calls of start()
  listening,   \* the listener's threads exist
  holding,     \* per connection: the order its thread is handing over
  queue,       \* inbound_queue_
  closed,      \*   and its closed_
  pump,        \* the pump's thread: none, pop, submit, done
  message,     \* run()'s local: the order it has popped
  stamped,     \* next_sequence_: the orders stamped so far
  inbound,     \* per shard: what its worker has not read
  worker,      \* per shard: its thread, draining once the owner does its work
  publishing,  \* per shard: what process() has still to push
  last,        \* last_top_[symbol]
  ring,        \* per feed and shard: what the feed's reader has not read
  reader,      \* per feed: Subscriber's and TradeStreamReader's thread
  accepted,    \* history: the symbols pushed into inbound_queue_
  refused,     \* history: orders received and turned away
  done,        \* history: per symbol, the number of the order processed last
  quote,       \* history: per symbol, the last update sent
  inTurn,      \* history: per symbol, the number of the last one sent in its turn
  missed       \* history: symbols whose newest lost update nothing has replaced

engineVars == <<stamped, inbound, worker, publishing, last, done>>
feedVars == <<ring, reader, quote, inTurn, missed>>
entryVars == <<listening, holding, queue, closed, accepted, refused>>
vars == <<owner, starts, entryVars, pump, message, engineVars, feedVars>>

\* A default TopOfBookUpdate is an empty top of symbol 0.
DefaultTop(symbol) == IF symbol = 0 THEN EmptyTop ELSE NoTop
Unquoted(symbol) == [top |-> DefaultTop(symbol), number |-> 0]

Init ==
  /\ owner = "stopped" /\ starts = 0
  /\ listening = FALSE /\ holding = [c \in Connections |-> NoSymbol]
  /\ queue = <<>> /\ closed = FALSE
  /\ pump = "none" /\ message = NoSymbol
  /\ stamped = 0
  /\ inbound = [s \in Shards |-> <<>>]
  /\ worker = [s \in Shards |-> "none"]
  /\ publishing = [s \in Shards |-> <<>>]
  /\ last = [symbol \in Symbols |-> DefaultTop(symbol)]
  /\ ring = [f \in Feeds |-> [s \in Shards |-> <<>>]]
  /\ reader = [f \in Feeds |-> "none"]
  /\ accepted = <<>> /\ refused = 0
  /\ done = [symbol \in Symbols |-> 0]
  /\ quote = [symbol \in Symbols |-> Unquoted(symbol)]
  /\ inTurn = [symbol \in Symbols |-> 0]
  /\ missed = {}

-------------------------------------------------------------------------------
(* start() and stop().                                                       *)

\* Mutants of After: the shards stop before the pump; the pump before the
\* listener; the broadcaster before the shards.
AfterShardsFirst(stage) ==
  CASE stage = "stop" -> "listener" [] stage = "listener" -> "shards"
    [] stage = "shards" -> "pump" [] stage = "pump" -> "feeds"
    [] stage = "feeds" -> "stopped"

AfterPumpFirst(stage) ==
  CASE stage = "stop" -> "pump" [] stage = "pump" -> "listener"
    [] stage = "listener" -> "shards" [] stage = "shards" -> "feeds"
    [] stage = "feeds" -> "stopped"

AfterFeedsFirst(stage) ==
  CASE stage = "stop" -> "listener" [] stage = "listener" -> "pump"
    [] stage = "pump" -> "feeds" [] stage = "feeds" -> "shards"
    [] stage = "shards" -> "stopped"

\* The order in which stop() goes through its stages.
After(stage) ==
  CASE stage = "stop" -> "listener" [] stage = "listener" -> "pump"
    [] stage = "pump" -> "shards" [] stage = "shards" -> "feeds"
    [] stage = "feeds" -> "stopped"

\* Everything is started, and then the listener; if its port is taken the rest
\* is stopped again.
Start ==
  /\ owner = "stopped" /\ starts < MaxStarts
  /\ starts' = starts + 1
  /\ worker' = [s \in Shards |-> "loop"]
  /\ reader' = [f \in Feeds |-> "loop"]
  /\ pump' = "pop"
  /\ \/ listening' = TRUE /\ owner' = "running"
     \/ listening' = FALSE /\ owner' = "pump"
  /\ UNCHANGED <<holding, queue, closed, accepted, refused, message, stamped, inbound,
                 publishing, last, done, ring, quote, inTurn, missed>>

Stop ==
  /\ owner = "running"
  /\ owner' = After("stop")
  /\ UNCHANGED <<starts, entryVars, pump, message, engineVars, feedVars>>

\* listener_.stop(): every connection's thread has finished its order.
StopListener ==
  /\ owner = "listener"
  /\ \A c \in Connections : holding[c] = NoSymbol
  /\ listening' = FALSE
  /\ owner' = After("listener")
  /\ UNCHANGED <<starts, holding, queue, closed, accepted, refused, pump, message,
                 engineVars, feedVars>>

\* IngressPump::stop(): close(), then join().
CloseQueue ==
  /\ owner = "pump" /\ ~closed
  /\ closed' = TRUE
  /\ UNCHANGED <<owner, starts, listening, holding, queue, accepted, refused, pump, message,
                 engineVars, feedVars>>

JoinPump ==
  /\ owner = "pump" /\ closed /\ pump = "done"
  /\ pump' = "none"
  /\ owner' = After("pump")
  /\ UNCHANGED <<starts, entryVars, message, engineVars, feedVars>>

\* Simulation::stop(): Shard::stop() for one shard after the other.
WorkerStep(s, from, to) ==
  /\ owner = "shards"
  /\ worker[s] = from /\ \A before \in 0 .. (s - 1) : worker[before] = "none"
  /\ worker' = [worker EXCEPT ![s] = to]
  /\ owner' = IF to = "none" /\ s = ShardCount - 1 THEN After("shards") ELSE owner
  /\ UNCHANGED <<starts, entryVars, pump, message, stamped, inbound, publishing, last, done,
                 feedVars>>

StopWorker(s) == WorkerStep(s, "loop", "stopping")
\* The worker has returned from process(); the owner goes on in its place.
JoinWorker(s) == publishing[s] = <<>> /\ WorkerStep(s, "stopping", "draining")
\* Mutant of Drained: the owner does not look at what is left in the inbound ring.
DrainedUnread(s) == publishing[s] = <<>> /\ WorkerStep(s, "draining", "none")

Drained(s) == publishing[s] = <<>> /\ inbound[s] = <<>> /\ WorkerStep(s, "draining", "none")

\* MarketDataBroadcaster::stop(): the subscriber, then the trade reader.
ReaderStep(f, from, to) ==
  /\ owner = "feeds"
  /\ reader[f] = from /\ (f = "trade" => reader["top"] = "none")
  /\ reader' = [reader EXCEPT ![f] = to]
  /\ owner' = IF to = "none" /\ f = "trade" THEN After("feeds") ELSE owner
  /\ UNCHANGED <<starts, entryVars, pump, message, engineVars, ring, quote, inTurn,
                 missed>>

RingsEmpty(f) == \A s \in Shards : ring[f][s] = <<>>

StopSubscriber ==
  \/ ReaderStep("top", "loop", "stopping")
  \/ ReaderStep("top", "stopping", "draining")
  \/ RingsEmpty("top") /\ ReaderStep("top", "draining", "none")

StopTradeReader ==
  \/ ReaderStep("trade", "loop", "stopping")
  \/ ReaderStep("trade", "stopping", "draining")
  \/ RingsEmpty("trade") /\ ReaderStep("trade", "draining", "none")

-------------------------------------------------------------------------------
(* The connections' threads and the pump.                                    *)

Received == Len(accepted) + refused + Cardinality({c \in Connections : holding[c] # NoSymbol})

Receive(c) ==
  /\ listening /\ holding[c] = NoSymbol /\ Received < MaxOrders
  /\ \E symbol \in Symbols : holding' = [holding EXCEPT ![c] = symbol]
  /\ UNCHANGED <<owner, starts, listening, queue, closed, accepted, refused, pump, message,
                 engineVars, feedVars>>

\* The listener's handler: push() waits for room, and its result is ignored.
Push(c) ==
  /\ holding[c] # NoSymbol
  /\ holding' = [holding EXCEPT ![c] = NoSymbol]
  /\ \/ /\ ~closed /\ Len(queue) < QueueCapacity
        /\ queue' = Append(queue, holding[c])
        /\ accepted' = Append(accepted, holding[c])
        /\ UNCHANGED refused
     \/ /\ closed
        /\ refused' = refused + 1
        /\ UNCHANGED <<queue, accepted>>
  /\ UNCHANGED <<owner, starts, listening, closed, pump, message, engineVars, feedVars>>

Pop ==
  /\ pump = "pop"
  /\ \/ /\ queue # <<>>
        /\ message' = Head(queue) /\ queue' = Tail(queue)
        /\ pump' = "submit"
     \/ /\ queue = <<>> /\ closed
        /\ pump' = "done"
        /\ UNCHANGED <<message, queue>>
  /\ UNCHANGED <<owner, starts, listening, holding, closed, accepted, refused, engineVars,
                 feedVars>>

\* Mutant of ShardFor: orders are spread over the shards by number.
ShardForNumber(symbol) == stamped % ShardCount

ShardFor(symbol) == Hash[symbol] % ShardCount

\* Mutant of Room: push_blocking() does not wait.
RoomUnchecked(s) == TRUE

Room(s) == Len(inbound[s]) < InboundCapacity

\* Simulation::submit(): Ingress::receive() stamps, Router::route() enqueues.
Submit ==
  /\ pump = "submit" /\ Room(ShardFor(message))
  /\ stamped' = stamped + 1
  /\ inbound' = [inbound EXCEPT ![ShardFor(message)] =
                   Append(@, [symbol |-> message, number |-> stamped + 1])]
  /\ pump' = "pop" /\ message' = NoSymbol
  /\ UNCHANGED <<owner, starts, entryVars, worker, publishing, last, done, feedVars>>

-------------------------------------------------------------------------------
(* A shard's worker, or the owner that drains after it.                      *)

Update(feed, order, top) ==
  [feed |-> feed, symbol |-> order.symbol, number |-> order.number, top |-> top]

\* A trade takes from the best level of the other side, and so moves the top.
Tradeable(symbol) == last[symbol] \notin {NoTop, EmptyTop}

\* process(): the trades it has to push, and the top of book if it has changed.
Process(s) ==
  /\ worker[s] \in {"loop", "draining"}
  /\ publishing[s] = <<>> /\ inbound[s] # <<>>
  /\ LET order == Head(inbound[s]) IN
     \E top \in Tops, trades \in {<<>>, <<Update("trade", order, NoTop)>>} :
       /\ trades # <<>> => Tradeable(order.symbol) /\ top # last[order.symbol]
       /\ last' = [last EXCEPT ![order.symbol] = top]
       /\ publishing' = [publishing EXCEPT ![s] =
            trades \o IF top # last[order.symbol] THEN <<Update("top", order, top)>> ELSE <<>>]
       /\ done' = [done EXCEPT ![order.symbol] = order.number]
  /\ inbound' = [inbound EXCEPT ![s] = Tail(@)]
  /\ UNCHANGED <<owner, starts, entryVars, pump, message, stamped, worker, feedVars>>

\* push_overwrite(): the newest OutboundCapacity updates are kept.
Publish(s) ==
  /\ publishing[s] # <<>>
  /\ LET update == Head(publishing[s])
         unread == ring[update.feed][s]
         full == Len(unread) = OutboundCapacity IN
     /\ ring' = [ring EXCEPT ![update.feed][s] =
                   Append(IF full THEN Tail(unread) ELSE unread, update)]
     /\ missed' = IF full /\ update.feed = "top" THEN missed \cup {Head(unread).symbol}
                                                 ELSE missed
  /\ publishing' = [publishing EXCEPT ![s] = Tail(@)]
  /\ UNCHANGED <<owner, starts, entryVars, pump, message, stamped, inbound, worker, last, done,
                 reader, quote, inTurn>>

-------------------------------------------------------------------------------
(* A feed's reader.  Both poll their shards' rings over and over.            *)

Polls(f, s) == reader[f] # "none" /\ ring[f][s] # <<>>

Polled(f, s) ==
  /\ ring' = [ring EXCEPT ![f][s] = Tail(@)]
  /\ UNCHANGED <<owner, starts, entryVars, pump, message, engineVars, reader>>

\* What is being pushed over the update that is read (BroadcastLog.Readable).
Overwriting(f, s) ==
  /\ Len(ring[f][s]) = OutboundCapacity
  /\ publishing[s] # <<>> /\ Head(publishing[s]).feed = f

\* Subscriber::poll_all_sources_once(), and udp_.send_top_of_book().  The update
\* may come out as the one that overwrites it, which then comes again in its turn,
\* or half of each.
SendTopOfBook(s) ==
  /\ Polls("top", s) /\ Polled("top", s)
  /\ LET update == Head(ring["top"][s])
         sent == [top |-> update.top, number |-> update.number]
     IN \/ /\ quote' = [quote EXCEPT ![update.symbol] = sent]
           /\ inTurn' = [inTurn EXCEPT ![update.symbol] = update.number]
           /\ missed' = missed \ {update.symbol}
        \/ /\ Overwriting("top", s)
           /\ LET over == Head(publishing[s]) IN
              quote' = [quote EXCEPT ![over.symbol] = [top |-> over.top, number |-> over.number]]
           /\ missed' = missed \cup {update.symbol}
           /\ UNCHANGED inTurn
        \/ /\ Overwriting("top", s)
           /\ \E symbol \in {update.symbol, Head(publishing[s]).symbol} :
                quote' = [quote EXCEPT ![symbol].top = TornTop]
           /\ missed' = missed \cup {update.symbol}
           /\ UNCHANGED inTurn

\* TradeStreamReader::poll_all_sources_once(), and udp_.send_trade().
SendTrade(s) ==
  /\ Polls("trade", s) /\ Polled("trade", s)
  /\ UNCHANGED <<quote, inTurn, missed>>

\* The update is found overwritten: Dropped, and nothing is sent.
LoseUpdate(f, s) ==
  /\ Polls(f, s) /\ Overwriting(f, s) /\ Polled(f, s)
  /\ missed' = IF f = "top" THEN missed \cup {Head(ring[f][s]).symbol} ELSE missed
  /\ UNCHANGED <<quote, inTurn>>

-------------------------------------------------------------------------------
StoppingShard(s) == StopWorker(s) \/ JoinWorker(s) \/ Drained(s)
Stopping ==
  \/ StopListener \/ CloseQueue \/ JoinPump
  \/ \E s \in Shards : StoppingShard(s)
  \/ StopSubscriber \/ StopTradeReader
Work(s) == Process(s) \/ Publish(s)
Poll(f, s) == (f = "top" /\ SendTopOfBook(s)) \/ (f = "trade" /\ SendTrade(s)) \/ LoseUpdate(f, s)

Next ==
  \/ Start \/ Stop \/ Stopping
  \/ \E c \in Connections : Receive(c) \/ Push(c)
  \/ Pop \/ Submit
  \/ \E s \in Shards : Work(s) \/ \E f \in Feeds : Poll(f, s)

Spec == Init /\ [][Next]_vars

\* Every thread the server has started is scheduled, and so is the owner once it
\* is in stop().  Nobody has to connect, to send, or to start or stop it.
FairSpec ==
  /\ Spec
  /\ WF_vars(Stopping)
  /\ \A c \in Connections : WF_vars(Push(c))
  /\ WF_vars(Pop \/ Submit)
  /\ \A s \in Shards : WF_vars(Work(s))
  /\ \A f \in Feeds : WF_vars(\E s \in Shards : Poll(f, s))

-------------------------------------------------------------------------------
(* Properties.                                                               *)

UpdateType == [feed : Feeds, symbol : Symbols, number : 1 .. MaxOrders, top : Tops \cup {NoTop}]
OrderType == [symbol : Symbols, number : 1 .. MaxOrders]

\* Every variable has its type; queue and rings stay within their capacity.
TypeOK ==
  /\ owner \in {"stopped", "running", "listener", "pump", "shards", "feeds"}
  /\ starts \in 0 .. MaxStarts
  /\ listening \in BOOLEAN /\ closed \in BOOLEAN
  /\ holding \in [Connections -> Symbols \cup {NoSymbol}]
  /\ queue \in Seq(Symbols) /\ Len(queue) <= QueueCapacity
  /\ pump \in {"none", "pop", "submit", "done"} /\ message \in Symbols \cup {NoSymbol}
  /\ stamped \in 0 .. MaxOrders
  /\ inbound \in [Shards -> Seq(OrderType)]
  /\ \A s \in Shards : Len(inbound[s]) <= InboundCapacity
  /\ worker \in [Shards -> ThreadStates] /\ reader \in [Feeds -> ThreadStates]
  /\ publishing \in [Shards -> Seq(UpdateType)]
  /\ last \in [Symbols -> Tops \cup {NoTop}]
  /\ ring \in [Feeds -> [Shards -> Seq(UpdateType)]]
  /\ \A f \in Feeds, s \in Shards : Len(ring[f][s]) <= OutboundCapacity
  /\ accepted \in Seq(Symbols) /\ refused \in 0 .. MaxOrders
  /\ done \in [Symbols -> 0 .. MaxOrders] /\ inTurn \in [Symbols -> 0 .. MaxOrders]
  /\ quote \in [Symbols -> [top : Tops \cup {NoTop, TornTop}, number : 0 .. MaxOrders]]
  /\ missed \subseteq Symbols

\* server.cpp:44-47: when stop() returns, every order that a connection handed
\* over has been through its book.  The one way to lose an order is that queue_
\* stays closed: a server started again refuses all it receives, and says nothing.
LastOf(symbol) == Max({0} \cup {n \in DOMAIN accepted : accepted[n] = symbol})
ShutdownLosesNothing ==
  /\ owner = "stopped" => \A symbol \in Symbols : done[symbol] = LastOf(symbol)
  /\ refused > 0 => starts > 1

\* server.cpp:46-47: when stop() returns, the last quote sent for a symbol is the
\* top of its book, unless the reader was lapped on that symbol's last update,
\* and no trade is left in a ring.
QuotesAfterStop ==
  owner = "stopped" =>
    /\ \A symbol \in Symbols \ missed : quote[symbol].top = last[symbol]
    /\ RingsEmpty("trade")

\* The server is the exchange of OrderFlow, torn quotes left out: whatever the
\* threads do, orders of a symbol are processed in the order they were accepted,
\* none is passed over, and quotes are of later and later orders, but for one that
\* a lapped read takes ahead of its turn.
Exchange == INSTANCE OrderFlow WITH
  quoted <- [symbol \in Symbols |-> quote[symbol].number]
ExchangeSpec == Exchange!Spec

\* And nobody's order waits for ever, a stop() in between or not.
EveryOrderProcessed == Exchange!EveryOrderProcessed

\* stop(), and a start() that fails, return, whatever is still in the queues.
StopEnds == owner \notin {"stopped", "running"} ~> owner = "stopped"
===============================================================================
