# OsborneX: verification project

TLA+ models of OsborneX (a sharded limit-order-book exchange in C++20, with
Python clients), checked with TLC on small instances and, where a theorem says
so, proved with TLAPS for every value of the constants. Paths are relative to
the repository.

## 1. The system

```
 TCP clients (Bot, Python client)
   | frames
   v
 Net::OrderEntryListener --push--> Queue::MpscQueue --pop--> Server::IngressPump
   one thread per connection          mutex, 2 condvars           |
                                                                  v
                     Simulation::submit -> Ingress::receive (stamps) -> Router
                                                                  |
                                            push_blocking (lossless ring per shard)
                                                                  v
                         Shard worker: Orderbook per symbol, under books_mutex_
                              |  push_overwrite              |  push_overwrite
                              v  (top-of-book ring, lossy)   v  (trade ring, lossy)
                        PubSub::Subscriber           Server::TradeStreamReader
                              \                             /
                               MarketDataBroadcaster -> UDP multicast -> Tui, Python, Bot
```

| Part | State it keeps | Operations | Who calls it |
|---|---|---|---|
| `Queue::RingBuffer` | slots with a sequence word each, producer sequence, cursors, dropped counts | `add_consumer`, `push_blocking`, `push_overwrite`, `try_read` | router → shard (lossless), shard → subscribers and trade readers (lossy) |
| `Queue::MpscQueue` | deque, closed flag, mutex, two condition variables | `push`, `pop_blocking`, `close` | connection threads, the ingress pump, `Server::stop` |
| `Orderbook` | bids, asks (price → FIFO list), id index, per-price summary `levelData_` | `AddOrder`, `CancelOrder`, `ModifyOrder` (and `MatchOrders` inside) | the shard's worker, under `books_mutex_` |
| `Net::OrderEntryListener` | running flag, vector of connections and their threads | `start`, `stop`, accept loop, connection loop | `Server` |
| `Shard`, `Router` | books, last published top of book per symbol, one inbound and two outbound rings | `enqueue`, `start`, `stop`, `drain`, `process` | `Ingress`, `Simulation` |
| `Ingress`, `Simulation` | next sequence; running flag, shards | `receive`; `start`, `stop`, `submit` | the pump, `Server` |
| `PubSub`, `TradeStreamReader`, `MarketDataBroadcaster` | cursors, running flag, event list | `start`, `stop`, `poll_all_sources_once` | `Server` |
| `Server` | running flag, all of the above | `start` with rollback, `stop` in stages | `server_main` |
| `Net::MarketDataPublisherUdp`, `MarketDataListener` | a socket; running flag and thread | `send_top_of_book`, `send_trade`; `start`, `stop`, `run` | the broadcaster; `Bot`, `Tui` |
| `Net::OrderEntryClient`, `Bot` | a socket; strategy thread, next order id, last quote per symbol | `connect`, `send`, `disconnect`; `start`, `stop` | `bot_main` |
| Python client | socket, receiver thread, ids and symbols of its own orders, fills | `run`, `buy`, `sell`, `cancel`, `my_fill`, `disconnect` | user programs |
| `Tui`, Python orchestration | latest quote per symbol and a trade tape; child processes | draw; start and stop processes | users |
| `TradeMetrics` | none (pure functions of a list of fills) | position, profit, equity, drawdown | users |

What is hard in it, and so what the properties are about:

* **Interleaving without locks.** The ring's producer and its consumers share
  slots; a lossy consumer can be overtaken at any of the steps of `try_read`.
* **Wake-ups.** `MpscQueue` notifies outside its mutex, one thread at a time,
  and many producers share one condition variable.
* **Life of threads.** Connections are reaped, joined and handed over between
  the accept thread and the thread in `stop()`.
* **Redundant state.** The order book keeps the same fact four times (two maps,
  the index, `levelData_`); matching changes all four.
* **Shutdown.** Each stage must stop after the stages that feed it.
* **Lossy delivery.** Rings overwrite, and datagrams get lost, repeated and reordered.
* **Partial failure and restarts.** A send may fail within a frame on a
  connection that is used again; a bot may die between the last byte of an order
  and the return of `send()`, and come back, or have a twin, with the same ids; the
  server may stop, or fail to start, and be started again.
* **Callbacks.** Fills arrive on another thread than some of the orders they
  are about are sent from.

`PROJECT.json` lists every hazard found at its line, with the properties that
cover it or the reason why none does yet.

## 2. Modules

| Module | Models | Extends / uses |
|---|---|---|
| `BroadcastLog` | what a ring promises: one log, a cursor per member, bounded lead over lossless members, counted losses | – |
| `RingBuffer` | `ring_buffer.hpp`, one step per access to shared memory; refines `BroadcastLog` | `INSTANCE BroadcastLog` |
| `RingBufferProofs` | its theorems | `RingBuffer`, TLAPS |
| `MpscQueue` | `mpsc_queue.hpp` with its producers, its consumer (the pump's loop) and its closer | – |
| `MpscQueueProofs` | its theorems | `MpscQueue`, FiniteSetTheorems, TLAPS |
| `Orderbook` | `orderbook.cpp`, `order.hpp` | – |
| `OrderbookProofs` | its theorems | `Orderbook`, `Sums`, FiniteSetTheorems, SequenceTheorems, TLAPS |
| `Sums` | nothing: lemmas on the sum, the greatest and the least member of a finite set, for the proofs | Functions, FiniteSetsExt, FiniteSetTheorems, TLAPS |
| `OrderEntryListener` | `order_entry_listener.cpp` | – |
| `OrderEntryListenerProofs` | its theorems | `OrderEntryListener`, TLAPS |
| `OrderFlow` | what the exchange promises: orders taken in one order, per symbol processed in it, each once and in the end, quotes that never go back | – |
| `Server` | `server.cpp` with all it owns: connections, queue, pump, ingress, router, shards, rings, their readers; refines `OrderFlow` | `INSTANCE OrderFlow` |
| `ServerProofs` | its theorems | `Server`, FiniteSetTheorems, SequenceTheorems, TLAPS |
| `MarketFeed` | the listener of `market_data_multicast.cpp` in each process that has one | – |
| `Bot` | processes of `bot_main.cpp` with `random_strategy.cpp` and `order_entry_client.cpp`, and the server's end of their connections | `MarketFeed` |
| `BotProofs` | its theorems, and those of `MarketFeed` | `Bot`, TLAPS |
| `TradeMetrics` | the pure functions of `trademetrics`, and what they are checked against | – |
| `Trader` | `client.py`, `strategy.py` and the sample strategy, and their report | `TradeMetrics` |
| `TraderProofs` | its theorems, and those of `TradeMetrics` | `Trader`, `Sums`, SequenceTheorems |
| `MC*` | the small instances of the module of that name | |

Every module holds, next to the definition it alters, the *mutants* that show a
property to be about the code: a mutant is the definition with a plausible bug,
and the property it is paired with fails on it.

### RingBuffer
`nextToClaim`, `producerSequence`, `slotSeq`, `slotValue`, `position`,
`dropped` are the members of the class; `ppc`/`passed` and `rpc`/`want`/`out`
are where a thread is inside `push_*` and `try_read` and their locals. Items
are numbered, item *s* goes to sequence *s*. The assignment of a value is two
steps, with `Torn` between them, because nothing makes it atomic: this is the
data race of `slot.value`, given the outcomes it can have. `claim_blocking` is a
loop over the lossless cursors, one load per step. `Gated` chooses the producer
call. Memory is sequentially consistent.

### MpscQueue
A critical section is one step. Being notified only moves a thread back to the
mutex (`lock`), where it looks at its predicate again; a condition variable may
also wake anyone for nothing (`SpuriousWakeup`, never relied on: it has no
fairness). `close()` may come at any time; the history `early` remembers whether
it kept to its comment ("every producer thread has stopped pushing"), and
`NothingLost` is claimed of the runs where it did.

### Orderbook
`book`, `orders` and `levelData` are the maps; levels and orders are values, so
"iterator" is "member of". A call runs to its end without interference, but the
matching loop is taken turn by turn (`Scan`, `FillFront`, `CloseLevel`), and the
properties about calls speak of `phase = "done"`, when it returns. Arithmetic
on quantities and counts is modulo `Wrap`, because `levelData_` really
underflows. The histories `taker`, `older` and `collided` are never read by
the actions: the order that a call brought, which of two resting orders came
before the other, and whether a level was closed while the other side rested at
its price.

### OrderEntryListener
One program counter per client's connection thread, one for the accept thread,
one for the owner in `start`/`stop`. `connections` is the vector, in order,
because reaping depends on it: `PushConnection` reaps and pushes, and
`ReapTerminates` is the reaping that ends in `std::terminate`. Once that has been
called (`terminated`) nothing moves.

### Server, over OrderFlow
Composes what the other modules show of the parts, each by its promise and not
by its code: `MpscQueue` is a bounded queue that refuses once closed, a ring is
`BroadcastLog` with one member (a lossless one for a shard's inbound ring, a
lossy one for each outbound ring), the listener is quiet once its `stop()` has
returned. `owner` is the thread in `start()`/`stop()`, at one stage after the
other; `After` is their order. `worker` and `reader` are the threads of shards
and readers; `draining` is the same work done by the owner after its join. An
order is its symbol, and its number is its `ingress_sequence` plus one. The book
is any new top of book and at most one trade per order, a trade only where there
is something to trade with. `publishing` holds what `process()` has still to
push, so that a reader may come in between, and `Overwriting` is the moment at
which a lossy read may tear (`ring_torn`). The quotes of `OrderFlow` are the
numbers of the orders behind what is sent; torn quotes keep the old number, that
is, they are outside its promise. A read that is lapped between its look at the
sequence and its copy may also return a whole update, the one that took the
slot: a quote ahead of its turn, after which the updates between are still read.
The history `inTurn` is the number of the last quote that came in its turn;
`OrderFlow` bounds a quote from below by it, and not by the quote before.
`ExchangeSpec` is the safety part of the refinement, `EveryOrderProcessed` its
liveness.

### MarketFeed and Bot
A process's listener is a flag, a thread and a socket; a datagram may come at any
time, or never, and what it says is left out. `Bots` is a set of processes that
live side by side or one after the other; one that is started again is another
member with the same `source`. `Sources` says what `argv[6]`, or its default 1, may
be for each, so that two bots may share a source as they do when the README's command
is run twice. `Bot` has `main()` (`stage`), the strategy's thread (`strategy`), and
per bot the TCP stream `wire`, a sequence of bytes, each the *n*-th of the frame of
an order. `SendBytes` puts one byte there (`::send` may take any number), and
that `send()` returns true, or false, is a step of its own, so that the server may
take an order, and the process die, between the last byte and the return. `SendFails`
may come after any byte; the strategy does not look at the result and sends the next
order behind it. The server's thread counts bytes: a header is right if the next
`HeaderSize` bytes are those of one header, wherever the rest comes from; `Whole` is
a frame of one order, and any other payload behind a right header is taken for an
order that nobody sent (`garbage`), after which the connection lives on until a wrong
header ends it. What an order that is garbage does to the book is any one change of
it. The bytes of a payload are assumed never to spell a header. `ReadFrame` hands the
order to the book at once: the way between them is `Server`'s.

### Trader over TradeMetrics
Two threads place orders, the receiver's (in its callbacks) and another; taking
an id and sending are one step, because nobody can tell who got which. The
exchange may fill an order as soon as it is sent, before the client remembers it.
`RecvTrade` receives *any* of the trades so far, in any order and any number of
times; `handled` counts per trade.
`TradeMetrics` computes with exact fractions, one symbol, the number of a fill as
its time; the functions that replay the fills are folds over them, one step of the
loop in the code being the operator that is folded. What they are checked against
is written from their docstrings, where code and docstring differ too.

## 3. Runs

| Run | Question | Bounds |
|---|---|---|
| `ring_gated` | two lossless readers and a lossy one: does the gate protect what is unread, does each read get the next item, is everything received though the lossy one may stop | 2 slots, 4 items |
| `ring_overwrite` | what does the overwriting producer do to two lossy readers; does the ring implement its log; does a polling reader reach `Empty` | 2 slots, 4 items |
| `ring_torn` (violated) | does a lossy `Ok` deliver the item it asked for | 2 slots, 4 items |
| `mpsc` | no lost wake-up, nothing lost under the closing rule, every call returns | 3 producers, 2 places, 2 pushes each: more producers than places |
| `book_matching` | do the maps agree, is the book uncrossed, is no quantity lost, is priority kept, does the loop end, is `levelData_` exact | 3 orders of all four types, 2 prices, quantities 1–3, with cancels and modifies |
| `book_fok_rests` (violated) | see findings | 3 orders |
| `listener_threads` | is any thread forgotten, joined twice, or alive after `stop`; does `stop` end with silent clients | 3 clients, 1 frame each, 2 starts |
| `listener_reap` (violated) | is reaping harmless | 3 clients |
| `server` | does the exchange keep `OrderFlow`'s promise through starts and stops; is anything lost by `stop()`; which quotes are; does `stop()` return | 2 connections, 2 shards, 3 symbols (two of one shard), 3 orders, 2 starts; one place in the queue and in each inbound ring, two in each outbound ring |
| `bot` | what becomes of each order when sends fail and processes die; what a torn stream does to the orders behind; which ids collide; are sockets closed too early; does `main()` return | 2 bots, of which the second may have the first's source, 2 orders in all, 2 attempts to connect, headers of 2 bytes and payloads of 1, 3 bytes in the buffers, the server goes down once |
| `trader` | do the fills give the position; does the report add up | 2 orders, 2 trades, 4 datagrams, 2 prices, quantities 1 and 2 |
| `trader_report` (violated) | is the report what its docstrings say | the same with 3 trades, 3 datagrams |

Why the bounds are enough to be interesting: a ring is stressed by laps, not by
size, and two laps over two slots meet each overlap of a read with a write of
the same and of the next lap, with the gate closing in between; a wake-up is
lost only if two producers and a free slot are in play; a level is FIFO or not
with two resting orders and a third that meets them, and two prices give a
best, a worse and a collision of the two sides; the reaping defect needs three
connections. `Wrap = 16` exceeds every sum of quantities that can rest, so a
wrap-around in the model is one in the code. Identifiers of orders are only
compared for equality, so they may be permuted (`SYMMETRY`, in the book's runs
only, none of which checks liveness).

In the server the queue and the inbound rings have one place, so that each is full
as soon as it holds something and every wait occurs; three orders are one more
than a shard's ring and queue hold together. The outbound rings have two places:
with one, nothing is left unread behind a slot that a lapped read has copied, so
that no quote can step back after one that came ahead of its turn. (An attempt at
the proof of the refinement showed that case, which the instance with one place
does not have.) Two symbols that share a shard
let one lap the other, and symbol 0 is there because a default top of book is
one of symbol 0. Two bots, alive together or in turn, meet each other's ids; two
orders give a frame another behind it to run into, which a buffer of one frame holds
cut, and only then can the two be read as one. The smallest frame that can be cut
within its header, before its payload and not at all has three bytes. Two trades
open, and add to, reduce, close or reverse a position, and trade two orders with each
other; four datagrams repeat each of them, or one three times. In `trader_report` the
third trade is the fall after the peak was equalled.

The further bounds are `MaxOrders` and `MaxStarts` of the server; `MaxMade`,
`MaxServerStops` and `Buffer` of the bots, with the code's numbers made small:
`MaxAttempts` (20), `HeaderSize` (8), `PayloadSize` (37), and `IdModulus` (2^48), which
is beyond `MaxMade`: that the counter itself comes round is out of reach, of the
model as of a bot; and `MaxOrders`, `MaxTrades` and `MaxReceipts` of the trader.
Deadlock checking is off in these runs too: the programs end.

The bounds of the others are `MaxSeq` (items), `MaxCalls` (pushes of a producer), `MaxFrames`
and `MaxStarts` (frames of a client, starts of the listener), and the finite
sets of orders, prices and quantities. Deadlock checking is off for rings, queue
and listener: they stop when the bound on items, pushes or starts is used up
and everyone is done. The order book is checked for deadlock.

**Fairness.** `FairSpec` of the ring: the producer, and the polling loops of
lossless consumers (`Shard::run`), are threads that run; nothing is assumed of
the threads behind lossy cursors, which is the point of `EveryItemReceived`.
`FairReadersSpec` adds them for draining (`Subscriber::stop` polls until
nothing is left). `MpscQueue`: a thread inside a call is scheduled and gets the
mutex in the end; nobody has to call anything, and no spurious wake-up is
assumed. `OrderEntryListener`: its own threads run and the handler returns;
clients may stay silent for ever. `Server`: every thread that was started is
scheduled, and the owner once it is in `stop()`; nobody has to connect, to send,
to start or to stop. That includes the outbound readers, whose `drain` runs on
the owner's thread; rings are lossy on that side, so no shard waits for them.
`Bot`: of what goes on by itself behind Enter for a bot (its joins, a `::send()` that
has room, the loop that sees its flag down, the server's thread on its connection)
some step is taken, which is less than that each thread is scheduled; and the feed's
thread is. That no datagram comes is never excluded, nor that the strategy's last
`send()` fails or that the server is down. `Trader` makes no claim of liveness. The
order book has no fairness: that its loop
ends is the action property `MatchingProgresses`, a measure that every turn
lowers.

### Findings
* `ring_torn`: the two checks of `slot.seq` in `try_read` do not frame the
  producer's assignment of `slot.value`, which happens before the slot's
  sequence changes. A lossy reader can return `Ok` with a half-written item, or
  with the item of the next lap. `BroadcastLog` states the exact extent: only
  an item exactly `Capacity` behind the newest can be affected.
* `book_fok_rests`: `MatchOrders` erases `levelData_` of a price at which the
  other side still rests. The next update starts from zero and wraps around;
  fill-or-kill then trusts a ghost level. `book_matching` shows that this is the
  only way: without such a collision the summary is exact.
* `listener_reap`: `std::remove_if` over connections whose threads are joinable
  ends in `std::terminate` when a finished one precedes a running one.
* `trader_report`: `realized_pnls_from_fills` leaves out, together with the fills that
  only open, those that close at their cost, where `trades.py:1-2` and
  `position.py:90-91` have one amount per closing fill; so `total_trades` counts too
  few and `win_rate` divides by too few. And `max_drawdown_duration` starts anew at a peak
  that is equalled, where its docstring says "before that peak is exceeded". The run
  finds three fills that break both sentences at once; `FillsBalance` proves that
  the amounts left out are zero, and the duration never too long.

Not listed as a finding, for want of a sentence in the repository that says
otherwise, but visible in `TakerAccountedFor`: a fill-and-kill order is
cancelled after the first price level it matches, with quantity left although
the next level crosses too.

More observations of this kind, without a run of their own:

* A `Server` that was stopped, or whose `start()` failed, refuses every order
  after the next `start()`: the queue stays closed, and the listener's handler
  ignores the result of `push()`. `ShutdownLosesNothing` states the extent.
* `order_entry_client.hpp:31-32` calls a connection dead whose `send()` has failed.
  `is_connected()` stays true, the strategy sends on it, and `send()` may return true
  again. Dead it is all the same: behind one frame that was cut the server takes no
  order any more, at most one that nobody sent (`DeadOnceTorn`). A second cut can
  bring the stream back into step. The bot never connects again.
* Between the last byte and the return of `send()` the server may have taken the
  order: one whose bot is killed there is in the book, and was never reported sent.
* `README.md:136-137` runs the bot twice, and both have source 1: their orders have the
  same ids, and the book ignores the later of two while the earlier rests.
  `random_strategy.cpp:67-72` leaves it to the caller to give each bot its own source.
  `OrderFate` shows that only bots of one source, or garbage, collide.
* The bot (`random_strategy.cpp:17`) and the Tui keep the last quote received, and not the
  newest: after two datagrams that changed places the older one, until the next comes.
* A fill is appended as often as its datagram comes: neither `client.py:95-123` nor
  `my_strategy.py:45-62` looks for repeats. `FillsGivePosition` has the position right
  if each datagram comes exactly once.
* A callback that raises ends the Python receiver's thread in silence.
* `my_fill()` gives one fill for a trade of the strategy with itself, the bid's.
* `returns_from_equity_curve` skips steps from zero equity only, where its
  docstring says "zero or negative".

## 4. Proofs

**RingBuffer** (`RingBufferProofs`), for every capacity, every set of consumers,
any number of items and both producer calls: `TypeOK`, `LosslessNeverStale` (the
assertion in `report_stale_slot`; no run lists it), `LosslessBacklogIntact`, `LosslessInOrder`, `Accounting`, and that the ring
implements `BroadcastLog`. From: the capacity is a positive number, a consumer
has one policy, an overwritten ring has no lossless consumer, and `Torn` and
`NoItem` are no items. `Accounting` and the rest are not inductive: whether a
lossless consumer's backlog survives depends on what the gate looked at a while
ago. `IInv` adds `Window` (how far the producer is ahead of each lossless cursor
it has already passed in its loop, and while it writes), `Intact` (every
sequence less than a capacity old, and not being overwritten, has its slot), and
`Copied`. Arithmetic on slots is in two lemmas: sequences less than a capacity
apart never share a slot, sequences a capacity apart always do. The refinement
needs, beyond that, what a *lossy* read can come by: a slot never shows a
sequence that has left the window (`Forgotten`), and a read whose second check
holds was overtaken by at most the write in progress (`Overtaken`). A read takes
effect in the log when it chooses its target, hence `LogCursor`.

**MpscQueue** (`MpscQueueProofs`), for every finite set of producers, every
capacity and a `close()` at any time: `TypeOK`, `NoWakeUpLost`, `InOrder` (each
producer's values are popped in the order of its pushes; no run lists it),
`DrainedWhenDone` and `NothingLost`. The three parts of `NoWakeUpLost` (no free
slot, no item, no sleeping producer forgotten) are inductive together with the
types; the counting of producers on their way uses the library's facts on
cardinality. For the contents, `Pending` says that the queue holds of each
producer exactly the values accepted and not yet popped, and `Ascending` in
which order; that the popped value is the next one follows without any
induction over the sequence.

**Orderbook** (`OrderbookProofs`), for any ids, prices, quantities and modulus:
`TypeOK`, `IndexConsistent`, `NotCrossedAtRest`, `FillAndKillNeverRests`,
`MarketExhaustsOpposite`, and the action property `PriceTimePriority`. From:
prices are integers, quantities are at least 1 and below the modulus (no client
sends zero; see the hazards). None of these is inductive, because a call passes
through states that break them: crossed, with an empty level, with a
fill-and-kill order in the index. `IInv` says which of those there can be when:

* `Sound` and `Aging` hold at every step: of each side the levels are finitely
  many (so a best one exists whatever the set of prices), a queue is exactly the
  orders that the index has at its side and price, in the order they arrived, and
  `older` is antisymmetric on them, which makes a queue free of repetitions;
* `Emptied`: an empty level is the best of its side, within `level` only;
* `Crossing`: apart between calls, crossed while a level is matched;
* `Kills`: between calls there is no fill-and-kill order; within one, such an
  order is alone at the best price of its side. That is why the one look at the
  front of each side, after a level is closed, finds every such order;
* `Marketable`: a market order that is in the book has a limit that reaches every
  level of the other side, so that an uncrossed book leaves none.

The changes that a call makes are operators from a state of the maps to another,
in the model and in the proof: each has a lemma that says it keeps the book
`Sound` and what else it leaves (`Inserted`, `Removed`, `Closed`), and the steps of
the specification compose these. `older` is a set of pairs, and no sequence of
ids, so that arrivals can be reasoned about without positions.

**Quantities in the order book** (`OrderbookProofs`, on `Sums`), from the same
assumptions: `TakerAccountedFor`, `LevelDataExactUntilCollision`,
`FillOrKillFillsUntilCollision`, and the action property `MatchingProgresses`.
They are about sums: over the trades of a call, over the orders at a price, over
the levels within a limit. What a sum is has to be proved without induction, so
`Sums` argues by the smallest finite set that would be an exception. It shows that
the fold of the community modules does not depend on the order in which it takes
the elements, and then what one element more or less does to a sum, that
sums over disjoint sets add up, that a smaller summand makes a smaller sum, and
that the orders can be summed price by price (`SumByKey`).

* `QInv` strengthens `TakerAccountedFor`: what the order of the call has traded and
  what is left of it are what it came with (`Accounted`), but for a fill-and-kill
  order, which has traded by the time it may be cancelled (`Matched`: a level
  empties only in a fill, and a fill has the order of the call in it, because by
  `Settled` the orders that rested before do not cross).
* `FInv` strengthens the two properties of `levelData_`. `Exactly` says that it
  holds, of each price, the count of the orders there and the sum of what is left
  of them modulo the width of a quantity. `Supplied` says that a fill-or-kill order
  on the book faces orders within its limit that hold as much as is left of it:
  `CanFullyFill()` has found a remainder of that sum, which is no more than the sum,
  and each fill takes the same from both. So the loop cannot end on it.
* `MatchingProgresses` needs no more than `QInv`: a fill takes from two orders or
  removes them, and any other turn removes a level or an order.

The two theorems about `levelData_` have a premise, `[]FewRest`: at no time do as
many orders rest as the 32-bit `count_` of a level can count. Otherwise it could
come to zero at a price where orders are left, and `UpdateLevelData` would drop the
summary. Nothing in the code forbids it (2^32 orders would take hundreds of
gigabytes), so it is a premise about the states of a run, and `Ids` is unlimited.
Sums of quantities may wrap around, in the theorems as in the code.

**OrderEntryListener** (`OrderEntryListenerProofs`), for any clients, frames and
starts: `TypeOK`, `ThreadsOwned`, `QuietWhenStopped`. `ThreadsOwned` depends on
where the owner and the accept thread can be together: `Stages` has that nothing
is pushed onto `connections_` while `stop()` joins the vector it has taken, and
`Held` that a connection accepted and without a thread is the accept thread's.

**Bot and MarketFeed** (`BotProofs`), for any number of bots, orders and listeners,
headers, payloads and buffers of any size, and any choice of sources: `TypeOK`,
`OrderFate`, `DeadOnceTorn`, `SocketsOutliveThreads`. From: a header and a payload have
at least a byte, the buffer holds a frame, and the modulus of ids exceeds the orders
made. `IInv` is about one bot at a time, and each step moves one bot's stream:

* `Stages` and `Numbers`: where `main()` and the strategy's thread can be together, and
  that an id is used up even when its send fails;
* `Shape` and `Frames`, of any stream, torn or not: each byte says where its frame
  starts, the bytes of one order agree on it and orders follow one another, and a
  frame without an end is torn, or being sent, or its process died over it;
* as long as the server has taken no garbage, `InPlace`: behind the start of each frame
  there is all of it that was written, so what begins with a whole header is whole, or
  torn; `LastWritten` and `TornOnWire` keep that up as bytes come and go;
* with the first garbage, which therefore began with a torn frame (`Behind`), the
  server has eaten a part of the next frame. `Dead`: what it looks at next is never the
  start of a frame, unless a second frame was cut. A right header would have to be
  one, so it takes no order any more (`NoneAfterOneTorn`), but finds a wrong header
  and closes, or waits for bytes.

`OrderFate` is then read off: a frame that was reported sent and not taken is whole on
the wire unless its connection went or there is a torn one before it. The feed's part
is proved by itself (`FeedInv`).

**Server over OrderFlow** (`ServerProofs`), for any shards, symbols, hash,
connections, capacities and starts: `TypeOK`, `ShutdownLosesNothing`,
`QuotesAfterStop`, and the refinement, `Spec => ExchangeSpec`. Two halves:

* control: where the owner is in `start()` and `stop()` decides which threads run
  and what they leave behind (`Stages`, `Threads`);
* data: an order is followed from `accepted` through the queue, the pump's hands
  and its shard's ring to its book (`Waiting`, `Routed`, `Complete`), and a top of
  book from the shard through the ring to the quote (`Numbered`, `Newest`: the
  newest top of a symbol is the one still to push, or else the last in the ring,
  or else the quote, or was missed).

That no order is lost by `stop()` is `Complete` with nothing left in the rings.
Each step of the server maps to one of `OrderFlow` or to a stutter: a push that
the queue accepts to `Accept`, a shard's order to `Process` (`Routed` and
`Complete` make it the next of its symbol), a quote that is sent to `Quote` (by
`Numbered`). A torn quote keeps the number of the one before, and maps to a
stutter.

**Trader** (`TraderProofs`), for any prices, quantities, orders and trades:
`FillsGivePosition`. From: quantities are at least 1, and no order is called
`Others` or `NoOrder`. `IInv` adds `Known` (an order that was sent is remembered, or
the thread that sent it is about to; the receiver's own thread is then in
`on_top_of_book()`, so no trade is handled meanwhile), and `Counted`: the quantity of
`Position(fills)` is what the trades bought less what they sold, each as often as it
was handled, where a trade of the program with itself is bought. With every trade
handled once the multiples fall away, and that is the position. `Position` folds over
the list of fills, one after the other. That one fill more is one `Apply` more (`PositionAppended`) is
shown without induction: two functions that satisfy the fold's equation agree, and
there is one, because a smallest set of indices that is an exception cannot be.

**TradeMetrics** (`TraderProofs`, on `Sums`): `FillsBalance`, that the library's
report of *any* list of fills, of whatever length, balances, from nothing but that
prices are whole numbers and quantities are at least 1; and from it
`ReportBalances`, because `IInv` has that `fills` is such a list. No theorem about
threads is needed beyond that: the run of the model looks at lists of four fills,
the theorem at all of them. It has four parts, each an invariant of one pass over
the list:

* `PositionsBalance`: after each fill, what was realized is the money received less
  the money spent, plus the average cost times what is held (`BalancedAt`), and
  what is held is what was bought less what was sold. The step has a case for each
  branch of `apply()`, with the reversal, the exact close and the reduction apart.
  Fractions are compared by cross-multiplying, which leaves identities of
  polynomials in whole numbers (`AddsUp`, `ReducesTo`) for the SMT solver. An
  average is divided by the quantity held, and the proof needs that it is not zero
  then: the fill adds to a position of its own side.
* `TradesAddUp`: the sum of the gains and that of the losses, one pass each, come
  to the same as the profit booked, and the list of profits is no longer than the set
  of closing fills, because only a fill against the position books any (`BookedIs`).
* `DeepestFound`: the pass of `max_drawdown` holds the highest point so far, and its
  deepest fall is a fall from one point to a later, and none is deeper.
* `LongestFound`: the pass of `max_drawdown_duration` holds the last of the highest
  points, and the length of *some* stretch under a peak, so that it is never longer than
  the longest; it is zero only as long as the curve has not fallen. (That it is the
  longest is not true of the code: see `trader_report`.)

The last two are lemmas about any list of fractions, and so about any equity curve.
Facts about folds are stated once for all six of the library's folds (`Folded`,
`FoldAlong`), of a record that says which, because a theorem cannot take an
operator as its parameter. Where a loop invariant would be proved by induction,
`Along` says that the set of places where it holds has no first gap.

**Left to TLC**, and why: liveness under fairness (`EveryItemReceived`,
`EveryReaderDrains`, `PushReturns`, `ConsumerStops`, `EveryOrderProcessed`,
`StopEnds`, `BotStops`), because `ENABLED` is out of the prover's reach. Every invariant and
every action property of the passing runs is a theorem.

## 5. Not modelled, and the plan

Every part of the exchange's path from order to quote, and its clients, has a
module. What is left to add is in the **Python client**: `cancel`, connecting, a
second subscription; and in the **bot**: the prices of its orders.

Left out, and why:

* Wire formats (field-by-field copies) and socket calls; what their failures
  mean is in `Bot` and `OrderEntryListener`.
* What a quote says to the bot and to the `Tui`: each keeps the last one received,
  under a mutex, and nothing but the price of a random order and what is drawn depends
  on it. The trade tape of the `Tui` is a bounded list, the rest drawing.
* Python orchestration: it waits by the wall clock for processes of the
  operating system and keeps no state beyond them.
* The floating-point statistics of `TradeMetrics` (returns, volatility, Sharpe
  and Sortino ratios), and rounding: exact fractions stand for floats.
* Joining the book with the server: `Orderbook` shows what one call does, and
  `Server` takes any outcome of it.
* NaN limit prices and zero quantities in the book, wrap-around of 48-bit ids
  and 64-bit sequences, the debug-only assertions on thread ids, build files.
