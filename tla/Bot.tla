---------------------------------- MODULE Bot ----------------------------------
(***************************************************************************)
(* Processes of osbornex_bot against a server, and all of them may die:    *)
(* main() with its retry, the RandomStrategy thread that sends through     *)
(* OrderEntryClient, the TCP stream, the server's connection thread that   *)
(* takes it apart, and the ids that the book holds.  The thread that       *)
(* listens to the market is MarketFeed's.                                  *)
(*                                                                         *)
(* Bots run side by side or one after the other: a bot that is started     *)
(* again is another one with the same source.  An order is named by its    *)
(* bot and its place in it.  A stream is a sequence of bytes, each the     *)
(* n-th of an order's frame; HeaderSize and PayloadSize, which are 8 and   *)
(* 37 in the code, matter only for where a cut may fall.                   *)
(***************************************************************************)
EXTENDS MarketFeed, Naturals, Sequences

CONSTANTS
  Bots,
  Sources,         \* per bot: what argv[6], or its default, may be
  HeaderSize, PayloadSize,
  Buffer,          \* the bytes that the kernels hold between the two ends
  IdModulus,       \* 2^48: local ids are masked
  MaxAttempts,     \* main()'s max_attempts
  MaxMade,         \* bound on the orders of all bots
  MaxServerStops,  \* bound on the times the server goes down
  NoOrder

FrameSize == HeaderSize + PayloadSize
Orders == Bots \X (1 .. MaxMade)
AllSources == UNION {Sources[b] : b \in Bots}

ASSUME BotAssumption ==
  /\ HeaderSize \in Nat \ {0} /\ PayloadSize \in Nat \ {0}
  /\ Buffer \in Nat /\ Buffer >= FrameSize
  /\ MaxMade \in Nat /\ IdModulus \in Nat /\ MaxMade < IdModulus
  /\ MaxAttempts \in Nat \ {0} /\ MaxServerStops \in Nat
  /\ Views \subseteq Bots /\ NoOrder \notin Orders

VARIABLES
  stage,        \* per bot, where main() is: connect, feed, strategy, enter,
                \*   stopStrategy, stopFeed, disconnect, ended
  attempts,     \* per bot: main()'s attempts that failed, while it is in the loop
  source,       \* per bot: options_.source
  socket,       \* per bot: order_client_.socket_.valid()
  running,      \* per bot: RandomStrategy::running_
  strategy,     \* per bot: its thread: none, head, send, returned
  nextOrderId,  \* per bot: next_order_id_
  order,        \* per bot: the message in send()
  written,      \* per bot: how much of its frame ::send() has taken
  wire,         \* per bot: what is between its client and the server
  serving,      \* per bot: the server has a thread on its connection
  serverUp,
  serverStops,  \* history
  resting,      \* ids in the book
  made,         \* history: how many orders there are
  reported,     \* history: orders whose send() returned true
  torn,         \* history: orders whose send() failed within their frame
  taken,        \* history: orders the server handed on
  dropped,      \* history: those that the book ignored
  garbage,      \* history: bots of whose stream it took what is no order
  cut           \* history: bots whose connection went while it may have held more

mainVars == <<stage, attempts, source>>
strategyVars == <<strategy, nextOrderId, order, written, made>>
bookVars == <<resting, taken, dropped, garbage>>
connectionVars == <<wire, serving, cut>>
sentVars == <<reported, torn>>
vars == <<mainVars, socket, running, strategyVars, connectionVars, serverUp, serverStops,
          bookVars, sentVars, feedVars>>

IdOf(o) == <<source[o[1]], o[2] % IdModulus>>
Ids == AllSources \X (0 .. IdModulus - 1)

Init ==
  /\ FeedInit
  /\ stage = [b \in Bots |-> "connect"] /\ attempts = [b \in Bots |-> 0]
  /\ source \in [Bots -> AllSources] /\ \A b \in Bots : source[b] \in Sources[b]
  /\ socket = [b \in Bots |-> FALSE] /\ running = [b \in Bots |-> FALSE]
  /\ strategy = [b \in Bots |-> "none"]
  /\ nextOrderId = [b \in Bots |-> 1] /\ made = 0
  /\ order = [b \in Bots |-> NoOrder] /\ written = [b \in Bots |-> 0]
  /\ wire = [b \in Bots |-> <<>>] /\ serving = [b \in Bots |-> FALSE] /\ cut = {}
  /\ serverUp = TRUE /\ serverStops = 0
  /\ resting = {} /\ taken = {} /\ dropped = {} /\ garbage = {}
  /\ reported = {} /\ torn = {}

-------------------------------------------------------------------------------
(* main().                                                                   *)

GoesTo(b, to) == stage' = [stage EXCEPT ![b] = to]

\* OrderEntryClient::connect(): it may also fail while the server is up.
Connect(b) ==
  /\ stage[b] = "connect" /\ serverUp
  /\ GoesTo(b, "feed") /\ attempts' = [attempts EXCEPT ![b] = 0]
  /\ socket' = [socket EXCEPT ![b] = TRUE]
  /\ serving' = [serving EXCEPT ![b] = TRUE]
  /\ UNCHANGED <<source, running, strategyVars, wire, cut, serverUp, serverStops, bookVars,
                 sentVars, feedVars>>

\* Mutant of ConnectFails: one attempt too many.
ConnectFailsLate(b) ==
  /\ stage[b] = "connect"
  /\ IF attempts[b] = MaxAttempts
     THEN GoesTo(b, "ended") /\ attempts' = [attempts EXCEPT ![b] = 0]
     ELSE attempts' = [attempts EXCEPT ![b] = @ + 1] /\ UNCHANGED stage
  /\ UNCHANGED <<source, socket, running, strategyVars, connectionVars, serverUp, serverStops,
                 bookVars, sentVars, feedVars>>

ConnectFails(b) ==
  /\ stage[b] = "connect"
  /\ IF attempts[b] + 1 = MaxAttempts
     THEN GoesTo(b, "ended") /\ attempts' = [attempts EXCEPT ![b] = 0]
     ELSE attempts' = [attempts EXCEPT ![b] = @ + 1] /\ UNCHANGED stage
  /\ UNCHANGED <<source, socket, running, strategyVars, connectionVars, serverUp, serverStops,
                 bookVars, sentVars, feedVars>>

\* market_data.start(): if it fails the bot goes on without.
StartFeed(b) ==
  /\ stage[b] = "feed"
  /\ GoesTo(b, "strategy")
  /\ (b \in Views /\ FeedStart(b)) \/ UNCHANGED feedVars
  /\ UNCHANGED <<attempts, source, socket, running, strategyVars, connectionVars, serverUp,
                 serverStops, bookVars, sentVars>>

\* RandomStrategy::start(); then main() waits for Enter.
StartStrategy(b) ==
  /\ stage[b] = "strategy"
  /\ GoesTo(b, "enter")
  /\ running' = [running EXCEPT ![b] = TRUE]
  /\ strategy' = [strategy EXCEPT ![b] = "head"]
  /\ UNCHANGED <<attempts, source, socket, nextOrderId, order, written, made, connectionVars, serverUp,
                 serverStops, bookVars, sentVars, feedVars>>

\* RandomStrategy::stop(): the flag, and the join.
StopStrategy(b) ==
  /\ stage[b] = "enter"
  /\ GoesTo(b, "stopStrategy")
  /\ running' = [running EXCEPT ![b] = FALSE]
  /\ UNCHANGED <<attempts, source, socket, strategyVars, connectionVars, serverUp, serverStops,
                 bookVars, sentVars, feedVars>>

JoinStrategy(b) ==
  /\ stage[b] = "stopStrategy" /\ strategy[b] = "returned"
  /\ GoesTo(b, "stopFeed")
  /\ strategy' = [strategy EXCEPT ![b] = "none"]
  /\ IF b \in Views THEN FeedStop(b) ELSE UNCHANGED feedVars
  /\ UNCHANGED <<attempts, source, socket, running, nextOrderId, order, written, made, connectionVars,
                 serverUp, serverStops, bookVars, sentVars>>

JoinFeed(b) ==
  /\ stage[b] = "stopFeed"
  /\ GoesTo(b, "disconnect")
  /\ IF b \in Views THEN FeedJoined(b) ELSE UNCHANGED feedVars
  /\ UNCHANGED <<attempts, source, socket, running, strategyVars, connectionVars, serverUp,
                 serverStops, bookVars, sentVars>>

\* The process ends, and with it its sockets; what they hold is still sent.
Ends(b) ==
  /\ GoesTo(b, "ended") /\ attempts' = [attempts EXCEPT ![b] = 0]
  /\ socket' = [socket EXCEPT ![b] = FALSE]
  /\ running' = [running EXCEPT ![b] = FALSE]
  /\ strategy' = [strategy EXCEPT ![b] = "none"]
  /\ order' = [order EXCEPT ![b] = NoOrder] /\ written' = [written EXCEPT ![b] = 0]
  /\ IF b \in Views THEN FeedGone(b) ELSE UNCHANGED feedVars
  /\ UNCHANGED <<source, nextOrderId, made, connectionVars, serverUp, serverStops, bookVars,
                 sentVars>>

\* order_client.disconnect(), and main() returns.
Disconnect(b) == stage[b] = "disconnect" /\ Ends(b)

Die(b) == stage[b] # "ended" /\ Ends(b)

-------------------------------------------------------------------------------
(* The strategy's thread and OrderEntryClient::send().                       *)

\* make_random_order(): the id is used up whatever send() returns.
MakeRandomOrder(b) ==
  /\ strategy[b] = "head" /\ running[b] /\ made < MaxMade
  /\ order' = [order EXCEPT ![b] = <<b, nextOrderId[b]>>]
  /\ nextOrderId' = [nextOrderId EXCEPT ![b] = @ + 1] /\ made' = made + 1
  /\ strategy' = [strategy EXCEPT ![b] = "send"]
  /\ UNCHANGED <<mainVars, socket, running, written, connectionVars, serverUp, serverStops,
                 bookVars, sentVars, feedVars>>

StrategyReturns(b) ==
  /\ strategy[b] = "head" /\ ~running[b]
  /\ strategy' = [strategy EXCEPT ![b] = "returned"]
  /\ UNCHANGED <<mainVars, socket, running, nextOrderId, order, written, made, connectionVars, serverUp,
                 serverStops, bookVars, sentVars, feedVars>>

Byte(o, n) == [order |-> o, at |-> n]

\* ::send() in send_all(), of the header or of the payload: a byte at a time, for
\* it may take any number.  It waits while the buffers are full, and what it
\* writes when nobody is at the other end any more is gone.
SendBytes(b) ==
  /\ strategy[b] = "send" /\ socket[b] /\ written[b] < FrameSize
  /\ written' = [written EXCEPT ![b] = @ + 1]
  /\ IF serving[b]
     THEN /\ Len(wire[b]) < Buffer
          /\ wire' = [wire EXCEPT ![b] = Append(@, Byte(order[b], written'[b]))]
     ELSE UNCHANGED wire
  /\ UNCHANGED <<mainVars, socket, running, strategy, nextOrderId, order, made, serving, cut, serverUp,
                 serverStops, bookVars, sentVars, feedVars>>

SendReturns(b) ==
  /\ strategy[b] = "send"
  /\ strategy' = [strategy EXCEPT ![b] = "head"]
  /\ order' = [order EXCEPT ![b] = NoOrder] /\ written' = [written EXCEPT ![b] = 0]
  /\ UNCHANGED <<mainVars, socket, running, nextOrderId, made, connectionVars, serverUp, serverStops,
                 bookVars, feedVars>>

SendSucceeds(b) ==
  /\ written[b] = FrameSize
  /\ reported' = reported \cup {order[b]}
  /\ UNCHANGED torn
  /\ SendReturns(b)

\* Mutant of SendFails: a frame that was begun is taken for sent.
SendFailsUnseen(b) ==
  /\ written[b] < FrameSize
  /\ reported' = IF written[b] = 0 THEN reported ELSE reported \cup {order[b]}
  /\ UNCHANGED torn
  /\ SendReturns(b)

\* No connection, or ::send() fails: within the frame it leaves the stream torn.
SendFails(b) ==
  /\ written[b] < FrameSize
  /\ torn' = IF written[b] = 0 THEN torn ELSE torn \cup {order[b]}
  /\ UNCHANGED reported
  /\ SendReturns(b)

-------------------------------------------------------------------------------
(* The server: connection_loop() and the book.                               *)

\* A whole header, from its first byte.  Any other bytes show a wrong magic,
\* version, type or length.
HeaderRead(bytes) ==
  Len(bytes) >= HeaderSize /\ \A n \in 1 .. HeaderSize : bytes[n].at = n
BadHeader(bytes) == Len(bytes) >= HeaderSize /\ ~HeaderRead(bytes)

PayloadRead(bytes) == HeaderRead(bytes) /\ Len(bytes) >= FrameSize

\* The payload is that of the order whose header came.
Whole(bytes) ==
  /\ PayloadRead(bytes)
  /\ \A n \in 1 .. FrameSize : bytes[n] = Byte(bytes[1].order, n)

TakeFrame(b) ==
  /\ wire' = [wire EXCEPT ![b] = SubSeq(@, FrameSize + 1, Len(@))]
  /\ UNCHANGED <<mainVars, socket, running, strategyVars, serving, cut, serverUp, serverStops,
                 sentVars, feedVars>>

\* The handler, and the book: it ignores a new order whose id rests.
ReadFrame(b) ==
  /\ serving[b] /\ Whole(wire[b])
  /\ LET o == wire[b][1].order IN
       /\ taken' = taken \cup {o}
       /\ resting' = resting \cup {IdOf(o)}
       /\ dropped' = IF IdOf(o) \in resting THEN dropped \cup {o} ELSE dropped
  /\ UNCHANGED garbage
  /\ TakeFrame(b)

\* recv_all() counts bytes: behind a frame that was cut within its payload those
\* of the next one are taken for the rest.  It is an order that nobody sent, and
\* may be any; if its id is no bot's, that makes no difference.
ReadGarbage(b) ==
  /\ serving[b] /\ PayloadRead(wire[b]) /\ ~Whole(wire[b])
  /\ garbage' = garbage \cup {b}
  /\ resting' \in {resting} \cup {resting \cup {IdOf(o)} : o \in Orders} \cup {resting \ {id} : id \in resting}
  /\ UNCHANGED <<taken, dropped>>
  /\ TakeFrame(b)

CloseConnection(b) ==
  /\ serving[b]
  /\ serving' = [serving EXCEPT ![b] = FALSE]
  /\ wire' = [wire EXCEPT ![b] = <<>>]
  /\ UNCHANGED <<mainVars, socket, running, strategyVars, serverUp, serverStops, bookVars,
                 sentVars, feedVars>>

\* Mutant of ReadBadHeader: it looks for a header further on.
ReadBadHeaderSkips(b) ==
  /\ serving[b] /\ BadHeader(wire[b])
  /\ wire' = [wire EXCEPT ![b] = SubSeq(@, 2, Len(@))]
  /\ UNCHANGED <<mainVars, socket, running, strategyVars, serving, cut, serverUp, serverStops,
                 bookVars, sentVars, feedVars>>

ReadBadHeader(b) ==
  /\ BadHeader(wire[b])
  /\ cut' = cut \cup {b}
  /\ CloseConnection(b)

\* The client's end is closed and no frame is left.
ReadEnd(b) ==
  /\ ~socket[b] /\ ~BadHeader(wire[b]) /\ ~PayloadRead(wire[b])
  /\ UNCHANGED cut
  /\ CloseConnection(b)

\* The network gives a connection up.
ConnectionBreaks(b) ==
  /\ cut' = cut \cup {b}
  /\ CloseConnection(b)

\* Somebody else's order fills one of these.
Fill ==
  /\ \E id \in resting : resting' = resting \ {id}
  /\ UNCHANGED <<mainVars, socket, running, strategyVars, connectionVars, serverUp, serverStops,
                 taken, dropped, garbage, sentVars, feedVars>>

\* The server's process ends, and starts again with empty books.
ServerStops ==
  /\ serverUp /\ serverStops < MaxServerStops
  /\ serverUp' = FALSE /\ serverStops' = serverStops + 1
  /\ resting' = {}
  /\ cut' = cut \cup {b \in Bots : serving[b]}
  /\ serving' = [b \in Bots |-> FALSE]
  /\ wire' = [b \in Bots |-> <<>>]
  /\ UNCHANGED <<mainVars, socket, running, strategyVars, taken, dropped, garbage, sentVars,
                 feedVars>>

ServerStarts ==
  /\ ~serverUp
  /\ serverUp' = TRUE
  /\ UNCHANGED <<mainVars, socket, running, strategyVars, connectionVars, serverStops, bookVars,
                 sentVars, feedVars>>

-------------------------------------------------------------------------------
Main(b) ==
  \/ Connect(b) \/ ConnectFails(b) \/ StartFeed(b) \/ StartStrategy(b)
  \/ StopStrategy(b) \/ JoinStrategy(b) \/ JoinFeed(b) \/ Disconnect(b) \/ Die(b)
Strategy(b) ==
  \/ MakeRandomOrder(b) \/ StrategyReturns(b)
  \/ SendBytes(b) \/ SendSucceeds(b) \/ SendFails(b)
Reads(b) == ReadFrame(b) \/ ReadGarbage(b) \/ ReadBadHeader(b) \/ ReadEnd(b)

\* A step of the feed's thread alone.
Listening(A) ==
  /\ A
  /\ UNCHANGED <<mainVars, socket, running, strategyVars, connectionVars, serverUp, serverStops,
                 bookVars, sentVars>>

Next ==
  \/ \E b \in Bots : Main(b) \/ Strategy(b) \/ Reads(b) \/ ConnectionBreaks(b)
  \/ Fill \/ ServerStops \/ ServerStarts
  \/ \E v \in Views : Listening(FeedStep(v))

Spec == Init /\ [][Next]_vars

\* What goes on by itself behind Enter: main(), the strategy's thread, and the
\* server's thread on the connection.
Finishes(b) ==
  \/ JoinStrategy(b) \/ JoinFeed(b) \/ Disconnect(b)
  \/ StrategyReturns(b) \/ SendBytes(b) \/ SendSucceeds(b)
  \/ Reads(b)

\* Of these some one moves, which is less than that each is scheduled; and a wait
\* for a datagram ends after 100 ms.  No datagram has to come, no order has to be
\* made, and nobody has to start, to connect or to be up.
FairSpec ==
  /\ Spec
  /\ \A b \in Bots : WF_vars(Finishes(b))
  /\ \A v \in Views : WF_vars(Listening(FeedRuns(v)))

-------------------------------------------------------------------------------
(* Properties.                                                               *)

ByteType == [order : Orders, at : 1 .. FrameSize]

\* Every variable has its type.
TypeOK ==
  /\ FeedTypeOK
  /\ stage \in [Bots -> {"connect", "feed", "strategy", "enter", "stopStrategy",
                         "stopFeed", "disconnect", "ended"}]
  /\ attempts \in [Bots -> 0 .. (MaxAttempts - 1)] /\ source \in [Bots -> AllSources]
  /\ socket \in [Bots -> BOOLEAN] /\ running \in [Bots -> BOOLEAN]
  /\ strategy \in [Bots -> {"none", "head", "send", "returned"}]
  /\ made \in 0 .. MaxMade /\ nextOrderId \in [Bots -> 1 .. (MaxMade + 1)]
  /\ order \in [Bots -> Orders \cup {NoOrder}] /\ written \in [Bots -> 0 .. FrameSize]
  /\ wire \in [Bots -> Seq(ByteType)] /\ serving \in [Bots -> BOOLEAN] /\ cut \subseteq Bots
  /\ serverUp \in BOOLEAN /\ serverStops \in 0 .. MaxServerStops
  /\ resting \subseteq Ids
  /\ reported \subseteq Orders /\ torn \subseteq Orders
  /\ taken \subseteq Orders /\ dropped \subseteq taken /\ garbage \subseteq Bots

\* Every byte of the order's frame is on its way.
InTransit(o) ==
  \E start \in 0 .. Len(wire[o[1]]) :
    \A n \in 1 .. FrameSize :
      start + n \in DOMAIN wire[o[1]] /\ wire[o[1]][start + n] = Byte(o, n)

\* The orders of its bot before it that tore the stream.
TornBefore(o) == {n \in 1 .. (o[2] - 1) : <<o[1], n>> \in torn}

\* An order is taken before its send() has returned true only at the end: the
\* send() is about to return, or was when the process died.
TakenAreSent ==
  \A o \in taken \ reported :
    /\ o[2] = nextOrderId[o[1]] - 1
    /\ \/ order[o[1]] = o /\ written[o[1]] = FrameSize
       \/ stage[o[1]] = "ended"

\* Nothing that is no order is taken but from a stream that a send() has torn.
GarbageIsTorn == \A b \in garbage : \E n \in 1 .. MaxMade : <<b, n>> \in torn

\* A sent order is taken or on its way, unless its own connection went, or a send()
\* before it failed within the frame and the strategy went on behind it.
SentAreTaken ==
  \A o \in reported \ taken : InTransit(o) \/ o[1] \in cut \/ TornBefore(o) # {}

\* The book ignores an order only if its id has been used by another bot of the same
\* source, or by what was no order at all.
OnlyReusedIdsDropped ==
  \A o \in dropped :
    garbage # {} \/ \E other \in taken : other[1] # o[1] /\ IdOf(other) = IdOf(o)

\* What becomes of an order: which of those sent arrive, and which of those that
\* arrive the book ignores.  random_strategy.cpp:67-72 has ids never collide if each
\* bot is given a source of its own; bots that share one, at a time or one after
\* the other, hand out the same ids.
OrderFate == TakenAreSent /\ GarbageIsTorn /\ SentAreTaken /\ OnlyReusedIdsDropped

\* order_entry_client.hpp:31-32 calls a connection dead whose send() has failed; the
\* strategy goes on sending, and send() may return true.  Dead it is all the same:
\* behind one frame that was cut the server takes no order any more.  (A second
\* cut can bring the stream back into step.)
DeadOnceTorn == \A o \in taken : \A n \in TornBefore(o) : TornBefore(o) # {n}

\* No thread is left to use a socket of its process after it has been closed.
SocketsOutliveThreads ==
  /\ \A b \in Bots : strategy[b] \in {"head", "send"} => socket[b]
  /\ \A v \in Views : feed[v] \notin {"none", "returned"} => feedSocket[v]

\* After Enter main() returns: stop() joins a thread that may be waiting for
\* the server to read, and then one that waits for datagrams that never come.
BotStops == \A b \in Bots : stage[b] = "stopStrategy" ~> stage[b] = "ended"
===============================================================================
