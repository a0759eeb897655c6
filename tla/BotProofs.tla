------------------------------- MODULE BotProofs -------------------------------
(***************************************************************************)
(* Proofs about Bot and MarketFeed, for any number of bots, orders and     *)
(* listeners, and frames and buffers of any size.                          *)
(*                                                                         *)
(* What becomes of an order depends on what a stream can look like.  Every *)
(* byte says where its frame starts; the bytes of one order agree on it    *)
(* and orders follow one another (Shape), and only a frame that a send()   *)
(* has torn, or that is being sent, is not finished (Frames).  As long as  *)
(* the server has taken nothing but orders, each frame is whole from its   *)
(* start (InPlace), so what it takes for an order and is none begins with  *)
(* a torn frame.  From then on it is out of step (Dead).                   *)
(***************************************************************************)
EXTENDS Bot, Integers, TLAPS

-------------------------------------------------------------------------------
(* The invariant.                                                           *)

\* Where main() is, what it has opened, and where its strategy's thread is.
Stages(b) ==
  /\ socket[b] <=> stage[b] \notin {"connect", "ended"}
  /\ strategy[b] # "none" => stage[b] \in {"enter", "stopStrategy"}
  /\ strategy[b] # "send" => order[b] = NoOrder /\ written[b] = 0
  /\ strategy[b] = "send" => order[b] = <<b, nextOrderId[b] - 1>> /\ order[b] \in Orders
  /\ stage[b] \in {"connect", "feed", "strategy"} => nextOrderId[b] = 1
  /\ stage[b] = "connect" => ~serving[b]
  /\ socket[b] => serving[b] \/ b \in cut
  /\ ~serving[b] => wire[b] = <<>>
  /\ nextOrderId[b] <= made + 1

\* An order is made before it is anywhere, and the one being sent is nowhere yet
\* but on the wire, or taken.
Numbers(b) ==
  /\ \A o \in reported \cup torn \cup taken : o[1] = b => o[2] < nextOrderId[b]
  /\ reported \cap torn = {}
  /\ order[b] \notin reported \cup torn

Start(b, i) == i - wire[b][i].at

\* A stream carries its bot's orders, one after the other.
Shape(b) ==
  /\ \A i \in 1 .. Len(wire[b]) :
       /\ wire[b][i].order[1] = b
       /\ wire[b][i].order[2] < nextOrderId[b]
       /\ wire[b][i].order \notin taken
  /\ \A i, j \in 1 .. Len(wire[b]) :
       /\ i < j => wire[b][i].order[2] <= wire[b][j].order[2]
       /\ wire[b][i].order = wire[b][j].order => Start(b, i) = Start(b, j)

\* The order that its bot is about, or was when it died.
Open(b, o) == o = order[b] \/ (stage[b] = "ended" /\ o[2] = nextOrderId[b] - 1)

\* How far the frames go.
Frames(b) ==
  \A i \in 1 .. Len(wire[b]) :
    /\ wire[b][i].order = order[b] => Start(b, i) = Len(wire[b]) - written[b]
    /\ wire[b][i].order \notin torn /\ ~Open(b, wire[b][i].order) =>
         Start(b, i) + FrameSize <= Len(wire[b])
    /\ wire[b][i].order \in torn => wire[b][i].at < FrameSize
    /\ wire[b][i].at = FrameSize =>
         \/ wire[b][i].order \in reported
         \/ /\ wire[b][i].order[2] = nextOrderId[b] - 1
            /\ \/ order[b] = wire[b][i].order /\ written[b] = FrameSize
               \/ stage[b] = "ended"

\* Before any garbage the frames are in step.
InPlace(b) ==
  \A i \in 1 .. Len(wire[b]) :
    /\ Start(b, i) >= 0
    /\ \A k \in 1 .. FrameSize :
         Start(b, i) + k <= Len(wire[b])
         /\ (k <= wire[b][i].at \/ wire[b][i].order \notin torn) =>
              wire[b][Start(b, i) + k] = Byte(wire[b][i].order, k)

\* The last byte is the last that was written.
LastWritten(b) ==
  strategy[b] = "send" /\ serving[b] /\ order[b] \notin taken =>
    \/ written[b] = 0
    \/ wire[b] # <<>> /\ wire[b][Len(wire[b])] = Byte(order[b], written[b])

\* What a send() has torn is still on its way.
TornOnWire(b) ==
  serving[b] =>
    \A o \in torn : o[1] = b => \E i \in 1 .. Len(wire[b]) : wire[b][i].order = o

InStep(b) == b \notin garbage => InPlace(b) /\ LastWritten(b) /\ TornOnWire(b)

\* Exactly one order of the bot before number n tore its stream.
OneTornBefore(b, n) ==
  \E m \in 1 .. MaxMade :
    /\ m < n /\ <<b, m>> \in torn
    /\ \A k \in 1 .. MaxMade : k < n /\ <<b, k>> \in torn => k = m

\* Garbage begins with a torn frame, and what is behind it is of later orders.
Behind(b) ==
  b \in garbage =>
    \E m \in 1 .. MaxMade :
      /\ <<b, m>> \in torn
      /\ \A i \in 1 .. Len(wire[b]) : m < wire[b][i].order[2]

\* And behind a single torn frame no frame begins where the server looks for one.
Dead(b) ==
  b \in garbage /\ serving[b] =>
    /\ wire[b] # <<>> /\ wire[b][1].at = 1 => ~OneTornBefore(b, wire[b][1].order[2])
    /\ wire[b] = <<>> /\ strategy[b] = "send" /\ written[b] \in {0, FrameSize} =>
         ~OneTornBefore(b, nextOrderId[b] - 1)
    /\ wire[b] = <<>> /\ strategy[b] = "head" => ~OneTornBefore(b, nextOrderId[b])

\* What became of the orders of one bot.
TakenSent(b) ==
  \A o \in taken \ reported : o[1] = b =>
    /\ o[2] = nextOrderId[b] - 1
    /\ (order[b] = o /\ written[b] = FrameSize) \/ stage[b] = "ended"
SentTaken(b) ==
  \A o \in reported \ taken : o[1] = b => InTransit(o) \/ b \in cut \/ TornBefore(o) # {}
NoneAfterOneTorn(b) == \A o \in taken : o[1] = b => ~OneTornBefore(b, o[2])

\* An id in the book is that of an order taken, unless garbage put it there.
Book == \A id \in resting : garbage # {} \/ \E t \in taken : IdOf(t) = id

Stream(b) ==
  /\ Shape(b) /\ Frames(b) /\ InStep(b) /\ Behind(b) /\ Dead(b)
  /\ TakenSent(b) /\ SentTaken(b) /\ NoneAfterOneTorn(b)

\* The sockets of the feed's listener outlive its thread.
FeedSockets == \A v \in Views : feed[v] \notin {"none", "returned"} => feedSocket[v]

USE BotAssumption

LEMMA FrameSizes ==
  /\ HeaderSize \in Nat /\ FrameSize \in Nat
  /\ 1 <= HeaderSize /\ HeaderSize < FrameSize /\ FrameSize <= Buffer
BY DEF FrameSize

-------------------------------------------------------------------------------
(* The feed.                                                                *)

FeedInv == FeedTypeOK /\ FeedSockets

LEMMA FeedInitInv == FeedInit => FeedInv
BY DEF FeedInit, FeedInv, FeedTypeOK, FeedSockets

\* A listener's own steps, and what its process does to it.
LEMMA FeedStepInv ==
  ASSUME FeedInv, NEW v \in Views,
         FeedStep(v) \/ FeedStart(v) \/ FeedStop(v) \/ FeedJoined(v) \/ FeedGone(v)
  PROVE  FeedInv'
<1>. USE DEF FeedInv, FeedTypeOK, FeedSockets, FeedMoves
<1>1. CASE FeedStep(v)
  BY <1>1 DEF FeedStep, FeedRuns, FeedLoop, FeedTimeout, FeedRecv
<1>2. CASE FeedStart(v) \/ FeedStop(v)
  BY <1>2 DEF FeedStart, FeedStop
<1>3. CASE FeedJoined(v)
  BY <1>3 DEF FeedJoined
<1>4. CASE FeedGone(v)
  BY <1>4 DEF FeedGone
<1>. QED BY <1>1, <1>2, <1>3, <1>4

LEMMA FeedRest == ASSUME FeedInv, UNCHANGED feedVars PROVE FeedInv'
BY DEF FeedInv, FeedTypeOK, FeedSockets, feedVars

\* Every step of the whole is one of the feed, or leaves it alone.
LEMMA FeedInvStep == FeedInv /\ [Next]_vars => FeedInv'
<1>. SUFFICES ASSUME FeedInv, [Next]_vars PROVE FeedInv'
  OBVIOUS
<1>1. ASSUME NEW b \in Bots, Main(b) PROVE FeedInv'
  <2>1. CASE Connect(b) \/ ConnectFails(b) \/ StartStrategy(b) \/ StopStrategy(b)
    BY <2>1, FeedRest DEF Connect, ConnectFails, StartStrategy, StopStrategy
  <2>2. CASE StartFeed(b)
    BY <2>2, FeedRest, FeedStepInv DEF StartFeed
  <2>3. CASE JoinStrategy(b)
    BY <2>3, FeedRest, FeedStepInv DEF JoinStrategy
  <2>4. CASE JoinFeed(b)
    BY <2>4, FeedRest, FeedStepInv DEF JoinFeed
  <2>5. CASE Disconnect(b) \/ Die(b)
    BY <2>5, FeedRest, FeedStepInv DEF Disconnect, Die, Ends
  <2>. QED BY <1>1, <2>1, <2>2, <2>3, <2>4, <2>5 DEF Main
<1>2. ASSUME NEW b \in Bots, Strategy(b) \/ Reads(b) \/ ConnectionBreaks(b) PROVE FeedInv'
  BY <1>2, FeedRest DEF Strategy, MakeRandomOrder, StrategyReturns, SendBytes, SendSucceeds,
     SendFails, SendReturns, Reads, ReadFrame, ReadGarbage, TakeFrame, ReadBadHeader, ReadEnd,
     ConnectionBreaks, CloseConnection
<1>3. CASE Fill \/ ServerStops \/ ServerStarts \/ UNCHANGED vars
  BY <1>3, FeedRest DEF Fill, ServerStops, ServerStarts, vars
<1>4. ASSUME NEW v \in Views, Listening(FeedStep(v)) PROVE FeedInv'
  BY <1>4, FeedStepInv DEF Listening
<1>. QED BY <1>1, <1>2, <1>3, <1>4 DEF Next

-------------------------------------------------------------------------------
(* Types, and where main() and the strategy's thread are.                   *)

\* All types but those of the feed.
BotTypeOK ==
  /\ stage \in [Bots -> {"connect", "feed", "strategy", "enter", "stopStrategy",
                         "stopFeed", "disconnect", "ended"}]
  /\ attempts \in [Bots -> 0 .. (MaxAttempts - 1)] /\ source \in [Bots -> AllSources]
  /\ socket \in [Bots -> BOOLEAN] /\ running \in [Bots -> BOOLEAN]
  /\ strategy \in [Bots -> {"none", "head", "send", "returned"}]
  /\ made \in 0 .. MaxMade /\ nextOrderId \in [Bots -> 1 .. (MaxMade + 1)]
  /\ order \in [Bots -> Orders \cup {NoOrder}] /\ written \in [Bots -> 0 .. FrameSize]
  /\ wire \in [Bots -> Seq(ByteType)] /\ serving \in [Bots -> BOOLEAN] /\ cut \subseteq Bots
  /\ serverUp \in BOOLEAN /\ serverStops \in 0 .. MaxServerStops
  /\ resting \subseteq Ids
  /\ reported \subseteq Orders /\ torn \subseteq Orders
  /\ taken \subseteq Orders /\ dropped \subseteq taken /\ garbage \subseteq Bots

LEMMA TypesSplit == TypeOK <=> FeedTypeOK /\ BotTypeOK
BY DEF TypeOK, BotTypeOK

Typed == BotTypeOK /\ \A b \in Bots : Stages(b)

\* The types of the parts that a step changes are enough.
LEMMA MainTyped == ASSUME Typed, NEW b \in Bots, Main(b) PROVE Typed'
<1>. USE DEF Typed, BotTypeOK, Stages, GoesTo, mainVars, strategyVars, connectionVars, bookVars, sentVars
<1>1. CASE Connect(b)
  BY SMTT(60), <1>1 DEF Connect
<1>2. CASE ConnectFails(b)
  <2>1. CASE attempts[b] + 1 = MaxAttempts
    <3>. USE <1>2, <2>1 DEF ConnectFails
    <3>1. 0 \in 0 .. (MaxAttempts - 1)
      OBVIOUS
    <3>2. /\ attempts' = [attempts EXCEPT ![b] = 0] /\ stage' = [stage EXCEPT ![b] = "ended"]
          /\ stage[b] = "connect"
      OBVIOUS
    <3>3. attempts' \in [Bots -> 0 .. (MaxAttempts - 1)]
      BY <3>1, <3>2
    <3>4. stage' \in [Bots -> {"connect", "feed", "strategy", "enter", "stopStrategy",
                               "stopFeed", "disconnect", "ended"}]
      BY <3>2
    <3>5. BotTypeOK'
      BY ZenonT(60), <3>3, <3>4
    <3>6. \A c \in Bots : Stages(c)'
      BY SMTT(60), <3>2
    <3>. QED BY <3>5, <3>6
  <2>2. CASE attempts[b] + 1 # MaxAttempts
    <3>. USE <1>2, <2>2 DEF ConnectFails
    <3>1. attempts[b] + 1 \in 0 .. (MaxAttempts - 1)
      OBVIOUS
    <3>2. attempts' = [attempts EXCEPT ![b] = attempts[b] + 1] /\ stage' = stage
      OBVIOUS
    <3>3. attempts' \in [Bots -> 0 .. (MaxAttempts - 1)]
      BY <3>1, <3>2
    <3>4. BotTypeOK'
      BY ZenonT(60), <3>2, <3>3
    <3>5. \A c \in Bots : Stages(c)'
      BY ZenonT(60), <3>2
    <3>. QED BY <3>4, <3>5
  <2>. QED BY <2>1, <2>2
<1>3. CASE StartFeed(b)
  BY SMTT(60), <1>3 DEF StartFeed
<1>4. CASE StartStrategy(b)
  BY SMTT(60), <1>4 DEF StartStrategy
<1>5. CASE StopStrategy(b)
  BY SMTT(60), <1>5 DEF StopStrategy
<1>6. CASE JoinStrategy(b)
  BY SMTT(60), <1>6 DEF JoinStrategy
<1>7. CASE JoinFeed(b)
  BY SMTT(60), <1>7 DEF JoinFeed
<1>8. CASE Disconnect(b) \/ Die(b)
  <2>1. Ends(b) /\ stage[b] # "ended"
    BY <1>8 DEF Disconnect, Die
  <2>. USE DEF Ends
  <2>2. stage' = [stage EXCEPT ![b] = "ended"] /\ attempts' = [attempts EXCEPT ![b] = 0]
    BY <2>1
  <2>3. /\ socket' = [socket EXCEPT ![b] = FALSE] /\ running' = [running EXCEPT ![b] = FALSE]
        /\ strategy' = [strategy EXCEPT ![b] = "none"]
    BY <2>1
  <2>4. order' = [order EXCEPT ![b] = NoOrder] /\ written' = [written EXCEPT ![b] = 0]
    BY <2>1
  <2>5. 0 \in 0 .. (MaxAttempts - 1) /\ 0 \in 0 .. FrameSize
    BY FrameSizes
  <2>6. BotTypeOK'
    <3>1. stage' \in [Bots -> {"connect", "feed", "strategy", "enter", "stopStrategy",
                               "stopFeed", "disconnect", "ended"}]
      BY <2>2
    <3>2. attempts' \in [Bots -> 0 .. (MaxAttempts - 1)]
      BY <2>2, <2>5
    <3>3. /\ socket' \in [Bots -> BOOLEAN] /\ running' \in [Bots -> BOOLEAN]
          /\ strategy' \in [Bots -> {"none", "head", "send", "returned"}]
      BY <2>3
    <3>4. order' \in [Bots -> Orders \cup {NoOrder}] /\ written' \in [Bots -> 0 .. FrameSize]
      BY <2>4, <2>5
    <3>. QED BY ZenonT(60), <2>1, <3>1, <3>2, <3>3, <3>4
  <2>7. /\ UNCHANGED <<nextOrderId, made, serving, wire, cut>>
    BY <2>1
  <2>8. \A c \in Bots : Stages(c)'
    <3>1. Stages(b)'
      BY <2>1, <2>2, <2>3, <2>4, <2>7
    <3>2. \A c \in Bots : c # b => Stages(c)'
      BY SMTT(60), <2>2, <2>3, <2>4, <2>7
    <3>. QED BY <3>1, <3>2
  <2>. QED BY <2>6, <2>8
<1>. QED BY <1>1, <1>2, <1>3, <1>4, <1>5, <1>6, <1>7, <1>8 DEF Main

\* The strategy's thread.
LEMMA StrategyTyped == ASSUME Typed, NEW b \in Bots, Strategy(b) PROVE Typed'
<1>. USE DEF mainVars, strategyVars, connectionVars, bookVars, sentVars
<1>1. CASE MakeRandomOrder(b)
  <2>. USE <1>1 DEF MakeRandomOrder
  <2>1. Stages(b) /\ nextOrderId[b] \in 1 .. MaxMade
    BY DEF Typed, BotTypeOK, Stages
  <2>2. <<b, nextOrderId[b]>> \in Orders
    BY <2>1 DEF Orders
  <2>3. order' \in [Bots -> Orders \cup {NoOrder}] /\ nextOrderId' \in [Bots -> 1 .. (MaxMade + 1)]
    BY SMTT(40), <2>1, <2>2 DEF Typed, BotTypeOK
  <2>4. strategy' \in [Bots -> {"none", "head", "send", "returned"}] /\ made' \in 0 .. MaxMade
    BY SMTT(40) DEF Typed, BotTypeOK
  <2>5. BotTypeOK'
    BY ZenonT(60), <2>3, <2>4 DEF Typed, BotTypeOK
  <2>6. \A c \in Bots : Stages(c)'
    <3>1. /\ order'[b] = <<b, nextOrderId[b]>> /\ nextOrderId'[b] = nextOrderId[b] + 1
          /\ strategy'[b] = "send" /\ nextOrderId'[b] - 1 = nextOrderId[b]
      BY <2>1 DEF Typed, BotTypeOK
    <3>2. nextOrderId'[b] <= made' + 1 /\ stage[b] \notin {"connect", "feed", "strategy"}
      BY <2>1, <3>1 DEF Typed, BotTypeOK, Stages
    <3>3. Stages(b)'
      BY <2>1, <2>2, <3>1, <3>2 DEF Stages
    <3>4. ASSUME NEW c \in Bots, c # b PROVE Stages(c)'
      <4>1. /\ order'[c] = order[c] /\ nextOrderId'[c] = nextOrderId[c]
            /\ strategy'[c] = strategy[c]
        BY <3>4 DEF Typed, BotTypeOK
      <4>2. nextOrderId[c] <= made' + 1
        BY DEF Typed, BotTypeOK, Stages
      <4>. QED BY <4>1, <4>2 DEF Typed, Stages
    <3>. QED BY <3>3, <3>4
  <2>. QED BY <2>5, <2>6 DEF Typed
<1>2. CASE StrategyReturns(b)
  BY SMTT(60), <1>2 DEF StrategyReturns, Typed, BotTypeOK, Stages
<1>3. CASE SendBytes(b)
  <2>. USE <1>3 DEF SendBytes
  <2>1. order[b] \in Orders /\ written[b] + 1 \in 1 .. FrameSize
    BY FrameSizes DEF Typed, BotTypeOK, Stages
  <2>2. Byte(order[b], written[b] + 1) \in ByteType
    BY <2>1 DEF Byte, ByteType
  <2>3. Append(wire[b], Byte(order[b], written[b] + 1)) \in Seq(ByteType)
    BY <2>2 DEF Typed, BotTypeOK
  <2>4. written'[b] = written[b] + 1
    BY DEF Typed, BotTypeOK
  <2>5. wire' \in [Bots -> Seq(ByteType)]
    BY <2>3, <2>4 DEF Typed, BotTypeOK
  <2>6. written' \in [Bots -> 0 .. FrameSize]
    BY SMTT(40), <2>1 DEF Typed, BotTypeOK
  <2>7. BotTypeOK'
    BY ZenonT(60), <2>5, <2>6 DEF Typed, BotTypeOK
  <2>8. \A c \in Bots : Stages(c)'
    BY SMTT(60) DEF Typed, BotTypeOK, Stages
  <2>. QED BY <2>7, <2>8 DEF Typed
<1>4. CASE SendSucceeds(b) \/ SendFails(b)
  <2>1. SendReturns(b) /\ order[b] \in Orders
    BY <1>4 DEF SendSucceeds, SendFails, SendReturns, Typed, BotTypeOK, Stages
  <2>2. reported' \subseteq Orders /\ torn' \subseteq Orders
    BY <1>4, <2>1 DEF SendSucceeds, SendFails, Typed, BotTypeOK
  <2>. USE DEF SendReturns
  <2>3. order' \in [Bots -> Orders \cup {NoOrder}]
    BY <2>1 DEF Typed, BotTypeOK
  <2>4. written' \in [Bots -> 0 .. FrameSize]
    BY <2>1, FrameSizes DEF Typed, BotTypeOK
  <2>5. strategy' \in [Bots -> {"none", "head", "send", "returned"}]
    BY <2>1 DEF Typed, BotTypeOK
  <2>6. BotTypeOK'
    BY ZenonT(60), <2>1, <2>2, <2>3, <2>4, <2>5 DEF Typed, BotTypeOK
  <2>7. \A c \in Bots : Stages(c)'
    <3>1. Stages(b)'
      BY <2>1 DEF Typed, BotTypeOK, Stages
    <3>2. \A c \in Bots : c # b => Stages(c)'
      BY SMTT(60), <2>1 DEF Typed, BotTypeOK, Stages
    <3>. QED BY <3>1, <3>2
  <2>. QED BY <2>6, <2>7 DEF Typed
<1>. QED BY <1>1, <1>2, <1>3, <1>4 DEF Strategy

\* An order's id is one.
LEMMA IdsOfOrders == ASSUME source \in [Bots -> AllSources], NEW o \in Orders PROVE IdOf(o) \in Ids
<1>1. o[1] \in Bots /\ o[2] \in 1 .. MaxMade
  BY DEF Orders
<1>2. o[2] % IdModulus \in 0 .. (IdModulus - 1)
  BY <1>1
<1>. QED BY <1>1, <1>2 DEF IdOf, Ids

\* A frame less at the front.
LEMMA TakeFrameTyped ==
  ASSUME Typed, NEW b \in Bots, TakeFrame(b), FrameSize <= Len(wire[b])
  PROVE  wire' \in [Bots -> Seq(ByteType)]
<1>1. wire[b] \in Seq(ByteType)
  BY DEF Typed, BotTypeOK
<1>2. SubSeq(wire[b], FrameSize + 1, Len(wire[b])) \in Seq(ByteType)
  BY <1>1, FrameSizes
<1>. QED BY <1>2 DEF TakeFrame, Typed, BotTypeOK

\* The server.
LEMMA ServerTyped ==
  ASSUME Typed, NEW b \in Bots, Reads(b) \/ ConnectionBreaks(b) PROVE Typed'
<1>. USE DEF mainVars, strategyVars, connectionVars, bookVars, sentVars
<1>1. CASE ReadFrame(b) \/ ReadGarbage(b)
  <2>. USE <1>1 DEF ReadFrame, ReadGarbage
  <2>1. FrameSize <= Len(wire[b]) /\ TakeFrame(b)
    BY FrameSizes DEF Whole, PayloadRead, Typed, BotTypeOK
  <2>2. wire' \in [Bots -> Seq(ByteType)]
    BY <2>1, TakeFrameTyped
  <2>3. wire[b][1].order \in Orders
    <3>1. wire[b] \in Seq(ByteType) /\ 1 <= Len(wire[b])
      BY <2>1, FrameSizes DEF Typed, BotTypeOK
    <3>2. wire[b][1] \in ByteType
      BY <3>1
    <3>. QED BY <3>2 DEF ByteType
  <2>4. source \in [Bots -> AllSources] /\ resting \subseteq Ids
    BY DEF Typed, BotTypeOK
  <2>5. \A o \in Orders : IdOf(o) \in Ids
    BY <2>4, IdsOfOrders
  <2>6. resting' \subseteq Ids
    BY <2>3, <2>4, <2>5
  <2>7. taken' \subseteq Orders /\ dropped' \subseteq taken' /\ garbage' \subseteq Bots
    BY <2>3 DEF Typed, BotTypeOK
  <2>8. BotTypeOK'
    BY ZenonT(60), <2>1, <2>2, <2>6, <2>7 DEF TakeFrame, Typed, BotTypeOK
  <2>9. serving[b]
    OBVIOUS
  <2>10. \A c \in Bots : Stages(c)'
    BY SMTT(60), <2>1, <2>9 DEF TakeFrame, Typed, BotTypeOK, Stages
  <2>. QED BY <2>8, <2>10 DEF Typed
<1>2. CASE ReadBadHeader(b) \/ ReadEnd(b) \/ ConnectionBreaks(b)
  <2>. USE <1>2 DEF ReadBadHeader, ReadEnd, ConnectionBreaks
  <2>1. CloseConnection(b) /\ cut' \subseteq Bots /\ cut \subseteq cut'
    BY DEF Typed, BotTypeOK
  <2>2. <<>> \in Seq(ByteType)
    OBVIOUS
  <2>3. wire' \in [Bots -> Seq(ByteType)] /\ serving' \in [Bots -> BOOLEAN]
    BY <2>1, <2>2 DEF CloseConnection, Typed, BotTypeOK
  <2>4. BotTypeOK'
    BY ZenonT(60), <2>1, <2>3 DEF CloseConnection, Typed, BotTypeOK
  <2>5. b \in cut' \/ ~socket[b]
    OBVIOUS
  <2>6. \A c \in Bots : Stages(c)'
    BY SMTT(60), <2>1, <2>5 DEF CloseConnection, Typed, BotTypeOK, Stages
  <2>. QED BY <2>4, <2>6 DEF Typed
<1>. QED BY <1>1, <1>2 DEF Reads

LEMMA TypedStep == ASSUME Typed, [Next]_vars PROVE Typed'
<1>. USE DEF mainVars, strategyVars, connectionVars, bookVars, sentVars
<1>1. CASE ServerStops
  <2>. USE <1>1 DEF ServerStops
  <2>1. wire' \in [Bots -> Seq(ByteType)] /\ serving' \in [Bots -> BOOLEAN]
    OBVIOUS
  <2>2. serverStops' \in 0 .. MaxServerStops
    BY DEF Typed, BotTypeOK
  <2>5. serverUp' \in BOOLEAN /\ resting' \subseteq Ids /\ cut' \subseteq Bots
    BY DEF Typed, BotTypeOK
  <2>3. BotTypeOK'
    BY ZenonT(60), <2>1, <2>2, <2>5 DEF Typed, BotTypeOK
  <2>4. \A c \in Bots : Stages(c)'
    BY SMTT(60) DEF Typed, BotTypeOK, Stages
  <2>. QED BY <2>3, <2>4 DEF Typed
<1>2. CASE Fill
  <2>1. resting' \subseteq Ids
    BY <1>2 DEF Fill, Typed, BotTypeOK
  <2>. QED BY ZenonT(60), <1>2, <2>1 DEF Fill, Typed, BotTypeOK, Stages
<1>3. ASSUME ServerStarts \/ (\E v \in Views : Listening(FeedStep(v))) \/ UNCHANGED vars
      PROVE  Typed'
  <2>1. /\ UNCHANGED <<mainVars, socket, running, strategyVars, connectionVars, serverStops,
                       bookVars, sentVars>>
        /\ serverUp' = serverUp \/ serverUp' = TRUE
    BY <1>3 DEF ServerStarts, Listening, vars
  <2>. QED BY ZenonT(60), <2>1 DEF Typed, BotTypeOK, Stages
<1>. QED BY <1>1, <1>2, <1>3, MainTyped, StrategyTyped, ServerTyped DEF Next

-------------------------------------------------------------------------------
(* Bytes and sequences.                                                     *)

LEMMA Bytes ==
  ASSUME Typed, NEW b \in Bots
  PROVE  /\ wire[b] \in Seq(ByteType) /\ Len(wire[b]) \in Nat
         /\ \A i \in 1 .. Len(wire[b]) :
              /\ wire[b][i] \in ByteType
              /\ wire[b][i].order \in Orders /\ wire[b][i].order # NoOrder
              /\ wire[b][i].order[2] \in 1 .. MaxMade
              /\ wire[b][i].at \in 1 .. FrameSize /\ wire[b][i].at \in Nat
<1>1. wire[b] \in Seq(ByteType)
  BY DEF Typed, BotTypeOK
<1>2. ASSUME NEW i \in 1 .. Len(wire[b])
      PROVE  wire[b][i] \in ByteType
  BY <1>1
<1>3. \A y \in ByteType : y.order \in Orders /\ y.at \in 1 .. FrameSize
  BY DEF ByteType
<1>4. \A o \in Orders : o # NoOrder /\ o[2] \in 1 .. MaxMade
  BY DEF Orders
<1>. QED BY <1>1, <1>2, <1>3, <1>4, FrameSizes

LEMMA Appended ==
  ASSUME NEW S, NEW w \in Seq(S), NEW x \in S
  PROVE  /\ Append(w, x) \in Seq(S) /\ Len(Append(w, x)) = Len(w) + 1
         /\ \A i \in 1 .. Len(w) : Append(w, x)[i] = w[i]
         /\ Append(w, x)[Len(w) + 1] = x
OBVIOUS

LEMMA Remainder ==
  ASSUME NEW S, NEW w \in Seq(S), NEW n \in Nat, n <= Len(w),
         NEW v, v = SubSeq(w, n + 1, Len(w))
  PROVE  /\ v \in Seq(S) /\ Len(v) = Len(w) - n
         /\ \A i \in 1 .. Len(v) : v[i] = w[i + n] /\ i + n \in 1 .. Len(w)
<1>1. v \in Seq(S) /\ Len(v) = Len(w) - n
  OBVIOUS
<1>2. ASSUME NEW i \in 1 .. Len(v) PROVE v[i] = w[i + n] /\ i + n \in 1 .. Len(w)
  BY <1>1
<1>. QED BY <1>1, <1>2

LEMMA OneTornKept ==
  ASSUME NEW b \in Bots, \A o \in Orders : o[1] = b => (o \in torn' <=> o \in torn), NEW n
  PROVE  OneTornBefore(b, n)' <=> OneTornBefore(b, n)
<1>1. \A m \in 1 .. MaxMade : <<b, m>> \in torn' <=> <<b, m>> \in torn
  BY DEF Orders
<1>. QED BY <1>1 DEF OneTornBefore

-------------------------------------------------------------------------------
(* Steps that leave a stream alone.                                         *)

\* The histories of its orders are as they were.
SameOrders(b) ==
  \A o \in Orders : o[1] = b =>
    /\ o \in reported' <=> o \in reported
    /\ o \in torn' <=> o \in torn
    /\ o \in taken' <=> o \in taken

Kept(b) ==
  /\ stage[b] = "ended" => stage'[b] = "ended"
  /\ strategy'[b] = "send" => strategy[b] = "send"
  /\ strategy'[b] = "head" => strategy[b] = "head" \/ nextOrderId[b] = 1
  /\ nextOrderId'[b] = nextOrderId[b]
  /\ order'[b] = order[b] /\ written'[b] = written[b]
  /\ wire'[b] = wire[b] /\ serving'[b] = serving[b]
  /\ b \in garbage' <=> b \in garbage
  /\ b \in cut => b \in cut'
  /\ SameOrders(b)

LEMMA KeptStream ==
  ASSUME Typed, Typed', NEW b \in Bots, Numbers(b), Stream(b), Kept(b)
  PROVE  Stream(b)'
<1>. USE DEF Kept, SameOrders
<1>1. /\ Shape(b) /\ Frames(b) /\ InStep(b) /\ Behind(b) /\ Dead(b)
      /\ TakenSent(b) /\ SentTaken(b) /\ NoneAfterOneTorn(b)
  BY DEF Stream
<1>2. /\ reported \subseteq Orders /\ torn \subseteq Orders /\ taken \subseteq Orders
      /\ reported' \subseteq Orders /\ torn' \subseteq Orders /\ taken' \subseteq Orders
  BY DEF Typed, BotTypeOK
<1>3. \A n : OneTornBefore(b, n)' <=> OneTornBefore(b, n)
  BY OneTornKept
<1>. DEFINE starts == \A i : Start(b, i)' = Start(b, i)
<1>12. starts
  BY DEF Start
<1>. HIDE DEF starts
<1>4. Shape(b)'
  BY <1>1, Bytes DEF Shape, Start
<1>5. Frames(b)'
  <2>. SUFFICES ASSUME NEW i \in 1 .. Len(wire[b])
                PROVE  (/\ wire[b][i].order = order[b] => Start(b, i) = Len(wire[b]) - written[b]
                        /\ wire[b][i].order \notin torn /\ ~Open(b, wire[b][i].order) =>
                             Start(b, i) + FrameSize <= Len(wire[b])
                        /\ wire[b][i].order \in torn => wire[b][i].at < FrameSize
                        /\ wire[b][i].at = FrameSize =>
                             \/ wire[b][i].order \in reported
                             \/ /\ wire[b][i].order[2] = nextOrderId[b] - 1
                                /\ \/ order[b] = wire[b][i].order /\ written[b] = FrameSize
                                   \/ stage[b] = "ended")'
    BY DEF Frames
  <2>1. wire[b][i].order \in Orders /\ wire[b][i].order[1] = b
    BY <1>1, Bytes DEF Shape
  <2>2. Open(b, wire[b][i].order) => Open(b, wire[b][i].order)'
    BY DEF Open
  <2>3. Start(b, i)' = Start(b, i)
    BY <1>12 DEF starts
  <2>. QED BY <1>1, <2>1, <2>2, <2>3 DEF Frames
<1>6. InStep(b)'
  <2>1. InPlace(b) => InPlace(b)'
    <3>1. \A i \in 1 .. Len(wire[b]) :
            wire[b][i].order \notin torn' => wire[b][i].order \notin torn
      BY <1>1, Bytes DEF Shape
    <3>. QED BY <1>12, <3>1 DEF InPlace, starts
  <2>2. LastWritten(b) => LastWritten(b)'
    BY <1>2 DEF LastWritten, Typed, Stages
  <2>3. TornOnWire(b) => TornOnWire(b)'
    BY <1>2 DEF TornOnWire
  <2>. QED BY <1>1, <2>1, <2>2, <2>3 DEF InStep
<1>7. Behind(b)'
  BY <1>1 DEF Behind, Orders
<1>8. Dead(b)'
  <2>1. ~OneTornBefore(b, 1)
    <3>1. \A m \in 1 .. MaxMade : ~(m < 1)
      OBVIOUS
    <3>. QED BY <3>1 DEF OneTornBefore
  <2>. QED BY <1>1, <1>3, <2>1 DEF Dead
<1>9. TakenSent(b)'
  BY <1>1, <1>2 DEF TakenSent
<1>10. SentTaken(b)'
  <2>. SUFFICES ASSUME NEW o \in reported' \ taken', o[1] = b
                PROVE  InTransit(o)' \/ (b \in cut)' \/ (TornBefore(o) # {})'
    BY DEF SentTaken
  <2>1. o \in Orders /\ o \in reported \ taken
    BY <1>2
  <2>2. InTransit(o) => InTransit(o)'
    BY DEF InTransit
  <2>3. TornBefore(o) # {} => TornBefore(o)' # {}
    <3>1. \A n \in 1 .. (o[2] - 1) : <<b, n>> \in torn => <<b, n>> \in torn'
      BY <1>2
    <3>. QED BY <3>1 DEF TornBefore
  <2>. QED BY <1>1, <2>1, <2>2, <2>3 DEF SentTaken
<1>11. NoneAfterOneTorn(b)'
  BY <1>1, <1>2, <1>3 DEF NoneAfterOneTorn
<1>. QED BY <1>4, <1>5, <1>6, <1>7, <1>8, <1>9, <1>10, <1>11 DEF Stream

-------------------------------------------------------------------------------
(* A stream before any order, and one that is given up.                     *)

Fresh(b) ==
  /\ nextOrderId[b] = 1 /\ wire[b] = <<>> /\ strategy[b] # "send" /\ b \notin garbage
  /\ Numbers(b)

LEMMA FreshStream == Typed => \A b \in Bots : Fresh(b) => Stream(b)
<1>. SUFFICES ASSUME Typed, NEW b \in Bots, Fresh(b) PROVE Stream(b)
  OBVIOUS
<1>1. \A o \in reported \cup torn \cup taken : o[1] # b
  <2>1. \A o \in reported \cup torn \cup taken : o \in Orders
    BY DEF Typed, BotTypeOK
  <2>2. \A o \in Orders : o[2] \in 1 .. MaxMade /\ ~(o[2] < 1)
    BY DEF Orders
  <2>. QED BY <2>1, <2>2 DEF Fresh, Numbers
<1>2. Len(wire[b]) = 0
  BY DEF Fresh
<1>3. \A i \in 1 .. Len(wire[b]) : FALSE
  BY <1>2
<1>4. Shape(b) /\ Frames(b)
  BY <1>3 DEF Shape, Frames
<1>5. InStep(b)
  BY <1>1, <1>3 DEF InStep, InPlace, LastWritten, TornOnWire, Fresh
<1>6. Behind(b) /\ Dead(b)
  BY DEF Behind, Dead, Fresh
<1>7. TakenSent(b) /\ SentTaken(b) /\ NoneAfterOneTorn(b)
  BY <1>1 DEF TakenSent, SentTaken, NoneAfterOneTorn
<1>. QED BY <1>4, <1>5, <1>6, <1>7 DEF Stream

\* The connection goes, with all that is on it.
Emptied(b) ==
  /\ stage'[b] = stage[b] /\ strategy'[b] = strategy[b]
  /\ nextOrderId'[b] = nextOrderId[b]
  /\ order'[b] = order[b] /\ written'[b] = written[b]
  /\ wire'[b] = <<>> /\ ~serving'[b]
  /\ b \in garbage' <=> b \in garbage
  /\ b \in cut => b \in cut'
  /\ SameOrders(b)

LEMMA EmptiedStream ==
  ASSUME Typed, Typed', NEW b \in Bots, Stream(b), Emptied(b),
         b \in cut' \/ \A o \in reported \ taken : o[1] = b => TornBefore(o) # {}
  PROVE  Stream(b)'
<1>. USE DEF Emptied, SameOrders
<1>1. /\ Behind(b) /\ TakenSent(b) /\ SentTaken(b) /\ NoneAfterOneTorn(b)
  BY DEF Stream
<1>2. /\ reported \subseteq Orders /\ torn \subseteq Orders /\ taken \subseteq Orders
      /\ reported' \subseteq Orders /\ torn' \subseteq Orders /\ taken' \subseteq Orders
  BY DEF Typed, BotTypeOK
<1>3. \A n : OneTornBefore(b, n)' <=> OneTornBefore(b, n)
  BY OneTornKept
<1>4. Len(wire'[b]) = 0
  OBVIOUS
<1>5. \A i \in 1 .. Len(wire'[b]) : FALSE
  BY <1>4
<1>6. Shape(b)' /\ Frames(b)'
  BY <1>5 DEF Shape, Frames
<1>7. InStep(b)'
  BY <1>5 DEF InStep, InPlace, LastWritten, TornOnWire
<1>8. Behind(b)' /\ Dead(b)'
  BY <1>1, <1>5 DEF Behind, Dead, Orders
<1>9. TakenSent(b)'
  BY <1>1, <1>2 DEF TakenSent
<1>10. SentTaken(b)'
  <2>. SUFFICES ASSUME NEW o \in reported' \ taken', o[1] = b, b \notin cut'
                PROVE  (TornBefore(o) # {})'
    BY DEF SentTaken
  <2>1. o \in reported \ taken
    BY <1>2
  <2>2. TornBefore(o) # {}
    BY <2>1
  <2>3. \A n \in 1 .. (o[2] - 1) : <<b, n>> \in torn => <<b, n>> \in torn'
    BY <1>2
  <2>. QED BY <2>2, <2>3 DEF TornBefore
<1>11. NoneAfterOneTorn(b)'
  BY <1>1, <1>2, <1>3 DEF NoneAfterOneTorn
<1>. QED BY <1>6, <1>7, <1>8, <1>9, <1>10, <1>11 DEF Stream

-------------------------------------------------------------------------------
(* The strategy's thread.                                                   *)

\* The process ends: the order it was about stays open.
LEMMA EndsStream ==
  ASSUME Typed, Typed', NEW b \in Bots, Numbers(b), Stream(b), stage[b] # "ended", Ends(b)
  PROVE  Stream(b)'
<1>. USE DEF Ends, connectionVars, bookVars, sentVars
<1>1. /\ Shape(b) /\ Frames(b) /\ InStep(b) /\ Behind(b) /\ Dead(b)
      /\ TakenSent(b) /\ SentTaken(b) /\ NoneAfterOneTorn(b)
  BY DEF Stream
<1>2. /\ stage'[b] = "ended" /\ strategy'[b] = "none" /\ order'[b] = NoOrder /\ written'[b] = 0
  BY DEF GoesTo, Typed, BotTypeOK
<1>3. \A o \in Orders : Open(b, o) => Open(b, o)'
  <2>1. \A o \in Orders : o # NoOrder
    OBVIOUS
  <2>2. order[b] = NoOrder \/ order[b][2] = nextOrderId[b] - 1
    BY DEF Typed, Stages, BotTypeOK
  <2>. QED BY <1>2, <2>1, <2>2 DEF Open
<1>4. Shape(b)'
  BY <1>1 DEF Shape, Start
<1>5. Frames(b)'
  <2>. SUFFICES ASSUME NEW i \in 1 .. Len(wire[b])
                PROVE  (/\ wire[b][i].order = order[b] => Start(b, i) = Len(wire[b]) - written[b]
                        /\ wire[b][i].order \notin torn /\ ~Open(b, wire[b][i].order) =>
                             Start(b, i) + FrameSize <= Len(wire[b])
                        /\ wire[b][i].order \in torn => wire[b][i].at < FrameSize
                        /\ wire[b][i].at = FrameSize =>
                             \/ wire[b][i].order \in reported
                             \/ /\ wire[b][i].order[2] = nextOrderId[b] - 1
                                /\ \/ order[b] = wire[b][i].order /\ written[b] = FrameSize
                                   \/ stage[b] = "ended")'
    BY DEF Frames
  <2>1. wire[b][i].order \in Orders /\ wire[b][i].order # NoOrder
    BY Bytes
  <2>2. Open(b, wire[b][i].order) => Open(b, wire[b][i].order)'
    BY <1>3, <2>1
  <2>. QED BY <1>1, <1>2, <2>1, <2>2 DEF Frames, Start
<1>6. InStep(b)'
  BY <1>1, <1>2 DEF InStep, InPlace, LastWritten, TornOnWire, Start
<1>7. Behind(b)' /\ Dead(b)'
  BY <1>1, <1>2 DEF Behind, Dead, OneTornBefore
<1>8. TakenSent(b)'
  BY <1>1, <1>2 DEF TakenSent
<1>9. SentTaken(b)'
  BY <1>1, <1>2 DEF SentTaken, InTransit, TornBefore
<1>10. NoneAfterOneTorn(b)'
  BY <1>1, <1>2 DEF NoneAfterOneTorn, OneTornBefore
<1>. QED BY <1>4, <1>5, <1>6, <1>7, <1>8, <1>9, <1>10 DEF Stream

\* A new order: none of its bytes is on its way.
LEMMA MakeStream ==
  ASSUME Typed, Typed', NEW b \in Bots, Numbers(b), Stream(b), MakeRandomOrder(b)
  PROVE  Stream(b)'
<1>. USE DEF MakeRandomOrder, connectionVars, bookVars, sentVars, mainVars
<1>1. /\ Shape(b) /\ Frames(b) /\ InStep(b) /\ Behind(b) /\ Dead(b)
      /\ TakenSent(b) /\ SentTaken(b) /\ NoneAfterOneTorn(b)
  BY DEF Stream
<1>2. /\ strategy[b] = "head" /\ strategy'[b] = "send"
      /\ order[b] = NoOrder /\ order'[b] = <<b, nextOrderId[b]>>
      /\ nextOrderId'[b] = nextOrderId[b] + 1 /\ nextOrderId[b] \in Nat
      /\ written'[b] = 0 /\ written[b] = 0 /\ stage[b] # "ended"
  <2>1. Stages(b)
    BY DEF Typed
  <2>2. strategy[b] = "head" /\ order[b] = NoOrder /\ written[b] = 0 /\ stage[b] # "ended"
    BY <2>1 DEF Stages
  <2>3. strategy'[b] = "send" /\ order'[b] = <<b, nextOrderId[b]>>
    BY DEF Typed, BotTypeOK
  <2>4. nextOrderId'[b] = nextOrderId[b] + 1 /\ nextOrderId[b] \in Nat /\ written'[b] = written[b]
    BY DEF Typed, BotTypeOK
  <2>. QED BY <2>2, <2>3, <2>4
<1>3. order'[b][2] = nextOrderId[b] /\ nextOrderId'[b] - 1 = nextOrderId[b]
  BY <1>2
<1>4. ASSUME NEW i \in 1 .. Len(wire[b])
      PROVE  /\ wire[b][i].order[2] < nextOrderId[b] /\ wire[b][i].order[2] < nextOrderId'[b]
             /\ wire[b][i].order # order'[b] /\ wire[b][i].order # NoOrder
             /\ wire[b][i].order[2] # nextOrderId[b] - 1 + 1
             /\ ~Open(b, wire[b][i].order)
             /\ wire[b][i].at = FrameSize => wire[b][i].order \in reported
  <2>1. wire[b][i].order[2] \in Nat /\ wire[b][i].order[2] < nextOrderId[b]
        /\ wire[b][i].order # NoOrder
    BY <1>1, Bytes DEF Shape
  <2>. QED BY <1>1, <1>2, <1>3, <2>1 DEF Open, Frames
<1>5. Shape(b)'
  BY <1>1, <1>4 DEF Shape, Start
<1>6. Frames(b)'
  BY <1>1, <1>4 DEF Frames, Start
<1>7. InStep(b)'
  <2>1. InPlace(b) => InPlace(b)'
    BY DEF InPlace, Start
  <2>2. TornOnWire(b) => TornOnWire(b)'
    BY DEF TornOnWire
  <2>. QED BY <1>1, <1>2, <2>1, <2>2 DEF InStep, LastWritten
<1>8. Behind(b)'
  BY <1>1 DEF Behind
<1>9. Dead(b)'
  <2>1. \A n : OneTornBefore(b, n)' <=> OneTornBefore(b, n)
    BY DEF OneTornBefore
  <2>2. ~OneTornBefore(b, nextOrderId[b]) => ~OneTornBefore(b, nextOrderId[b] - 1)'
    BY <1>3, <2>1
  <2>. QED BY <1>1, <1>2, <2>1, <2>2 DEF Dead
<1>10. taken \subseteq reported \/ \A o \in taken \ reported : o[1] # b
  BY <1>1, <1>2 DEF TakenSent, Typed, BotTypeOK
<1>11. TakenSent(b)'
  BY <1>10 DEF TakenSent
<1>12. SentTaken(b)'
  BY <1>1 DEF SentTaken, InTransit, TornBefore
<1>13. NoneAfterOneTorn(b)'
  BY <1>1 DEF NoneAfterOneTorn, OneTornBefore
<1>. QED BY <1>5, <1>6, <1>7, <1>8, <1>9, <1>11, <1>12, <1>13 DEF Stream

\* The order that is being sent is not over.
LEMMA SendingFacts ==
  ASSUME Typed, NEW b \in Bots, Numbers(b), TakenSent(b), strategy[b] = "send"
  PROVE  /\ order[b] \in Orders /\ order[b][1] = b /\ order[b][2] = nextOrderId[b] - 1
         /\ nextOrderId[b] \in Nat /\ order[b][2] \in 1 .. MaxMade
         /\ order[b] \notin reported /\ order[b] \notin torn
         /\ stage[b] # "ended" /\ written[b] \in 0 .. FrameSize
         /\ written[b] # FrameSize => order[b] \notin taken
         /\ \A o \in Orders : Open(b, o) <=> o = order[b]
         /\ \A m \in 1 .. MaxMade : <<b, m>> \in torn => m < order[b][2]
<1>1. Stages(b) /\ nextOrderId[b] \in Nat
  BY DEF Typed, BotTypeOK
<1>2. /\ order[b] = <<b, nextOrderId[b] - 1>> /\ order[b] \in Orders /\ stage[b] # "ended"
  BY <1>1 DEF Stages
<1>3. order[b][1] = b /\ order[b][2] = nextOrderId[b] - 1
  BY <1>2
<1>4. order[b][2] \in 1 .. MaxMade
  BY <1>2 DEF Orders
<1>5. order[b] \notin reported /\ order[b] \notin torn
  BY DEF Numbers
<1>6. written[b] # FrameSize => order[b] \notin taken
  BY <1>2, <1>3, <1>5 DEF TakenSent
<1>7. ASSUME NEW m \in 1 .. MaxMade, <<b, m>> \in torn PROVE m < order[b][2]
  <2>1. m < nextOrderId[b]
    BY <1>7 DEF Numbers
  <2>2. m # nextOrderId[b] - 1
    BY <1>2, <1>5, <1>7
  <2>. QED BY <1>1, <1>3, <2>1, <2>2
<1>. QED BY <1>1, <1>2, <1>3, <1>4, <1>5, <1>6, <1>7 DEF Open, Typed, BotTypeOK

\* One byte more.
LEMMA WriteStream ==
  ASSUME Typed, Typed', NEW b \in Bots, Numbers(b), Stream(b), SendBytes(b), serving[b]
  PROVE  Stream(b)'
<1>0. PICK n \in Nat : n = Len(wire[b])
  BY Bytes
<1>. DEFINE x == Byte(order[b], written[b] + 1)
<1>1. /\ Shape(b) /\ Frames(b) /\ InStep(b) /\ Behind(b) /\ Dead(b)
      /\ TakenSent(b) /\ SentTaken(b) /\ NoneAfterOneTorn(b)
  BY DEF Stream
<1>2. /\ strategy[b] = "send" /\ strategy' = strategy /\ written[b] < FrameSize
      /\ UNCHANGED <<stage, nextOrderId, order, serving, cut, reported, torn, taken, garbage>>
  BY DEF SendBytes, mainVars, bookVars, sentVars
<1>3. written'[b] = written[b] + 1 /\ wire'[b] = Append(wire[b], x)
  <2>1. written'[b] = written[b] + 1
    BY DEF SendBytes, Typed, BotTypeOK
  <2>. QED BY <2>1 DEF SendBytes, Typed, BotTypeOK
<1>4. /\ order[b] \in Orders /\ order[b][1] = b /\ order[b][2] = nextOrderId[b] - 1
      /\ nextOrderId[b] \in Nat /\ order[b][2] \in 1 .. MaxMade
      /\ order[b] \notin reported /\ order[b] \notin torn
      /\ stage[b] # "ended" /\ written[b] \in Nat /\ written[b] # FrameSize
      /\ order[b] \notin taken
      /\ \A o \in Orders : Open(b, o) <=> o = order[b]
      /\ \A m \in 1 .. MaxMade : <<b, m>> \in torn => m < order[b][2]
  BY <1>1, <1>2, SendingFacts, FrameSizes
<1>5. x \in ByteType /\ x.order = order[b] /\ x.at = written[b] + 1
  BY <1>2, <1>4, FrameSizes DEF Byte, ByteType
<1>. HIDE DEF x
<1>6. /\ n \in Nat /\ Len(wire'[b]) = n + 1
      /\ \A i \in 1 .. n : wire'[b][i] = wire[b][i]
      /\ wire'[b][n + 1] = x
  BY <1>0, <1>3, <1>5, Bytes, Appended
<1>7. \A i \in 1 .. n :
        /\ wire[b][i].order \in Orders /\ wire[b][i].order[2] \in 1 .. MaxMade
        /\ wire[b][i].at \in 1 .. FrameSize /\ wire[b][i].at \in Nat
        /\ Start(b, i)' = Start(b, i) /\ Start(b, i) \in Int
  BY <1>0, <1>6, Bytes DEF Start
<1>20. n \in Nat /\ written[b] \in Nat
  BY <1>4, <1>6
<1>21. /\ n - written[b] \in Int
       /\ n - written[b] = (n + 1) - (written[b] + 1)
       /\ n - written[b] + (written[b] + 1) = n + 1
       /\ \A k \in Nat : n - written[b] + k = n + 1 => k = written[b] + 1
       /\ \A k \in Nat : n - written[b] + k <= n + 1 => k <= written[b] + 1
  <2>. SUFFICES ASSUME NEW u \in Nat, u = written[b]
                PROVE  /\ n - u \in Int
                       /\ n - u = (n + 1) - (u + 1)
                       /\ n - u + (u + 1) = n + 1
                       /\ \A k \in Nat : n - u + k = n + 1 => k = u + 1
                       /\ \A k \in Nat : n - u + k <= n + 1 => k <= u + 1
    BY <1>20
  <2>. QED OBVIOUS
<1>8. Start(b, n + 1)' = n - written[b]
  <2>1. Start(b, n + 1)' = (n + 1) - (written[b] + 1)
    BY <1>5, <1>6 DEF Start
  <2>. QED BY <1>21, <2>1
<1>9. \A i \in 1 .. (n + 1) : i \in 1 .. n \/ i = n + 1
  BY <1>6
<1>10. n = Len(wire[b])
  BY <1>0
<1>11. Shape(b)'
  <2>1. \A i \in 1 .. n : /\ wire[b][i].order[1] = b /\ wire[b][i].order[2] < nextOrderId[b]
                          /\ wire[b][i].order \notin taken
    BY <1>1, <1>10 DEF Shape
  <2>2. \A i \in 1 .. (n + 1) :
           /\ wire'[b][i].order[1] = b /\ wire'[b][i].order[2] < nextOrderId'[b]
           /\ wire'[b][i].order \notin taken'
    <3>1. order[b][2] < nextOrderId[b]
      BY <1>4
    <3>. QED BY <1>2, <1>4, <1>5, <1>6, <1>9, <2>1, <3>1
  <2>3. ASSUME NEW i \in 1 .. (n + 1), NEW j \in 1 .. (n + 1), i < j
        PROVE  wire'[b][i].order[2] <= wire'[b][j].order[2]
    <3>1. CASE j = n + 1
      <4>1. i \in 1 .. n /\ wire'[b][i] = wire[b][i] /\ wire'[b][j].order = order[b]
        BY <1>5, <1>6, <2>3, <3>1
      <4>. QED BY <1>4, <1>7, <2>1, <4>1
    <3>2. CASE j \in 1 .. n
      <4>1. i \in 1 .. n
        BY <1>6, <2>3, <3>2
      <4>. QED BY <1>1, <1>6, <1>10, <2>3, <3>2, <4>1 DEF Shape
    <3>. QED BY <1>9, <3>1, <3>2
  <2>4. ASSUME NEW i \in 1 .. (n + 1), NEW j \in 1 .. (n + 1),
               wire'[b][i].order = wire'[b][j].order
        PROVE  Start(b, i)' = Start(b, j)'
    <3>1. ASSUME NEW k \in 1 .. n, wire'[b][k].order = order[b]
          PROVE  Start(b, k)' = Start(b, n + 1)'
      BY <1>1, <1>6, <1>7, <1>8, <1>10, <3>1 DEF Frames
    <3>2. CASE i \in 1 .. n /\ j \in 1 .. n
      <4>1. wire[b][i].order = wire[b][j].order
        BY <1>6, <2>4, <3>2
      <4>2. Start(b, i) = Start(b, j)
        BY <1>1, <1>10, <3>2, <4>1 DEF Shape
      <4>. QED BY <1>7, <3>2, <4>2
    <3>3. wire'[b][n + 1].order = order[b]
      BY <1>5, <1>6
    <3>4. CASE i = n + 1 /\ j \in 1 .. n
      BY <2>4, <3>1, <3>3, <3>4
    <3>5. CASE i \in 1 .. n /\ j = n + 1
      BY <2>4, <3>1, <3>3, <3>5
    <3>. QED BY <1>9, <3>2, <3>4, <3>5
  <2>. QED BY <1>6, <2>2, <2>3, <2>4 DEF Shape
<1>12. Frames(b)'
  <2>. SUFFICES ASSUME NEW i \in 1 .. (n + 1)
                PROVE  (/\ wire[b][i].order = order[b] => Start(b, i) = Len(wire[b]) - written[b]
                        /\ wire[b][i].order \notin torn /\ ~Open(b, wire[b][i].order) =>
                             Start(b, i) + FrameSize <= Len(wire[b])
                        /\ wire[b][i].order \in torn => wire[b][i].at < FrameSize
                        /\ wire[b][i].at = FrameSize =>
                             \/ wire[b][i].order \in reported
                             \/ /\ wire[b][i].order[2] = nextOrderId[b] - 1
                                /\ \/ order[b] = wire[b][i].order /\ written[b] = FrameSize
                                   \/ stage[b] = "ended")'
    BY <1>6 DEF Frames
  <2>1. \A o \in Orders : Open(b, o)' <=> o = order[b]
    BY <1>2, <1>4 DEF Open
  <2>2. CASE i \in 1 .. n
    <3>1. /\ wire[b][i].order = order[b] => Start(b, i) = n - written[b]
          /\ wire[b][i].order \notin torn /\ ~Open(b, wire[b][i].order) =>
               Start(b, i) + FrameSize <= n
          /\ wire[b][i].order \in torn => wire[b][i].at < FrameSize
          /\ wire[b][i].at = FrameSize => wire[b][i].order \in reported
      BY <1>1, <1>4, <1>10, <2>2 DEF Frames
    <3>2. wire'[b][i] = wire[b][i] /\ Start(b, i)' = Start(b, i) /\ Start(b, i) \in Int
          /\ wire[b][i].order \in Orders
      BY <1>6, <1>7, <2>2
    <3>3. Start(b, i) + FrameSize <= n => Start(b, i) + FrameSize <= n + 1
      BY <1>6, <3>2, FrameSizes
    <3>. QED BY <1>2, <1>3, <1>4, <1>6, <1>21, <2>1, <3>1, <3>2, <3>3
  <2>3. CASE i = n + 1
    <3>1. /\ wire'[b][i].order = order[b] /\ wire'[b][i].at = written'[b]
          /\ Start(b, i)' = Len(wire'[b]) - written'[b]
      BY <1>3, <1>5, <1>6, <1>8, <1>21, <2>3
    <3>3. order'[b] = order[b] /\ order[b] \notin torn' /\ order[b][2] = nextOrderId'[b] - 1
      BY <1>2, <1>4
    <3>4. wire'[b][i].order = order'[b]
      BY <3>1, <3>3
    <3>. QED BY <3>1, <3>3, <3>4 DEF Open
  <2>. QED BY <1>9, <2>2, <2>3
<1>13. InStep(b)'
  <2>. SUFFICES ASSUME b \notin garbage
                PROVE  InPlace(b)' /\ LastWritten(b)' /\ TornOnWire(b)'
    BY <1>2 DEF InStep
  <2>1. InPlace(b) /\ LastWritten(b) /\ TornOnWire(b)
    BY <1>1 DEF InStep
  <2>2. LastWritten(b)'
    <3>1. x = Byte(order[b], written[b] + 1)
      BY DEF x
    <3>2. wire'[b] # <<>>
      BY <1>6
    <3>. QED BY <1>2, <1>3, <1>6, <3>1, <3>2 DEF LastWritten
  <2>3. TornOnWire(b)'
    BY <1>2, <1>6, <1>9, <1>10, <2>1 DEF TornOnWire
  <2>4. written[b] = 0 \/ (1 <= n /\ wire[b][n].order = order[b] /\ wire[b][n].at = written[b])
    <3>1. written[b] = 0 \/ (wire[b] # <<>> /\ wire[b][n] = Byte(order[b], written[b]))
      BY <1>2, <1>4, <1>10, <2>1 DEF LastWritten
    <3>2. wire[b] # <<>> => 1 <= n
      BY <1>10, Bytes
    <3>. QED BY <3>1, <3>2 DEF Byte
  <2>5. /\ 0 <= n - written[b]
        /\ \A k \in 1 .. written[b] : wire[b][n - written[b] + k] = Byte(order[b], k)
    <3>1. CASE written[b] = 0
      BY <1>6, <3>1
    <3>2. CASE 1 <= n /\ wire[b][n].order = order[b] /\ wire[b][n].at = written[b]
      <4>1. n \in 1 .. n /\ Start(b, n) = n - written[b]
        BY <1>6, <3>2 DEF Start
      <4>2. ASSUME NEW k \in 1 .. written[b] PROVE wire[b][n - written[b] + k] = Byte(order[b], k)
        <5>1. k \in 1 .. FrameSize /\ n - written[b] + k <= n /\ k <= wire[b][n].at
          BY <1>2, <1>4, <1>6, <3>2, FrameSizes
        <5>. QED BY <1>10, <2>1, <3>2, <4>1, <5>1 DEF InPlace
      <4>. QED BY <1>10, <2>1, <4>1, <4>2 DEF InPlace
    <3>. QED BY <2>4, <3>1, <3>2
  <2>6. ASSUME NEW i \in 1 .. (n + 1)
        PROVE  /\ Start(b, i)' >= 0
               /\ \A k \in 1 .. FrameSize :
                    Start(b, i)' + k <= n + 1
                    /\ (k <= wire'[b][i].at \/ wire'[b][i].order \notin torn) =>
                         wire'[b][Start(b, i)' + k] = Byte(wire'[b][i].order, k)
    <3>1. CASE i \in 1 .. n
      <4>1. /\ wire'[b][i] = wire[b][i] /\ Start(b, i)' = Start(b, i) /\ Start(b, i) \in Int
            /\ wire[b][i].order \in Orders /\ wire[b][i].at \in Nat
        BY <1>6, <1>7, <3>1
      <4>2. Start(b, i) >= 0
        BY <1>10, <2>1, <3>1 DEF InPlace
      <4>3. ASSUME NEW k \in 1 .. FrameSize, Start(b, i) + k <= n + 1,
                   k <= wire[b][i].at \/ wire[b][i].order \notin torn
            PROVE  wire'[b][Start(b, i) + k] = Byte(wire[b][i].order, k)
        <5>1. CASE Start(b, i) + k <= n
          <6>1. Start(b, i) + k \in 1 .. n
            BY <1>6, <4>1, <4>2, <5>1
          <6>2. wire[b][Start(b, i) + k] = Byte(wire[b][i].order, k)
            BY <1>10, <2>1, <3>1, <4>3, <5>1 DEF InPlace
          <6>. QED BY <1>6, <6>1, <6>2
        <5>2. CASE Start(b, i) + k = n + 1
          <6>1. ~(k <= wire[b][i].at)
            BY <1>6, <3>1, <4>1, <5>2 DEF Start
          <6>2. wire[b][i].order \notin torn
            BY <4>3, <6>1
          <6>3. ~(Start(b, i) + FrameSize <= n)
            BY <1>6, <4>1, <5>2, FrameSizes
          <6>4. wire[b][i].order = order[b]
            BY <1>1, <1>4, <1>10, <3>1, <4>1, <6>2, <6>3 DEF Frames
          <6>5. Start(b, i) = n - written[b]
            BY <1>1, <1>10, <3>1, <6>4 DEF Frames
          <6>6. k = written[b] + 1
            <7>1. k \in Nat /\ n - written[b] + k = n + 1
              BY <5>2, <6>5, FrameSizes
            <7>. QED BY <1>21, <7>1
          <6>. QED BY <1>6, <5>2, <6>4, <6>6 DEF x
        <5>. QED BY <1>6, <4>1, <4>3, <5>1, <5>2
      <4>. QED BY <4>1, <4>2, <4>3
    <3>2. CASE i = n + 1
      <4>1. /\ wire'[b][i].order = order[b] /\ wire'[b][i].at = written[b] + 1
            /\ Start(b, i)' = n - written[b]
        <5>1. wire'[b][i] = x
          BY <1>6, <3>2
        <5>. QED BY <1>5, <1>8, <3>2, <5>1
      <4>2. ASSUME NEW k \in 1 .. FrameSize, n - written[b] + k <= n + 1
            PROVE  wire'[b][n - written[b] + k] = Byte(order[b], k)
        <5>1. CASE k \in 1 .. written[b]
          <6>1. n - written[b] + k \in 1 .. n
            BY <1>4, <1>6, <2>5, <5>1
          <6>. QED BY <1>6, <2>5, <5>1, <6>1
        <5>2. CASE k = written[b] + 1
          <6>1. n - written[b] + k = n + 1
            BY <1>21, <5>2
          <6>. QED BY <1>6, <5>2, <6>1 DEF x
        <5>3. k \in Nat /\ 1 <= k /\ k <= written[b] + 1
          BY <1>21, <4>2, FrameSizes
        <5>. QED BY <1>20, <5>1, <5>2, <5>3
      <4>. QED BY <2>5, <4>1, <4>2
    <3>. QED BY <1>9, <3>1, <3>2
  <2>7. InPlace(b)'
    BY <1>2, <1>6, <2>6 DEF InPlace
  <2>. QED BY <2>2, <2>3, <2>7
<1>14. Behind(b)'
  <2>. SUFFICES ASSUME b \in garbage PROVE Behind(b)'
    BY <1>2 DEF Behind
  <2>1. PICK m \in 1 .. MaxMade :
          <<b, m>> \in torn /\ \A i \in 1 .. n : m < wire[b][i].order[2]
    BY <1>1, <1>10 DEF Behind
  <2>2. m < order[b][2]
    BY <1>4, <2>1
  <2>3. \A i \in 1 .. (n + 1) : m < wire'[b][i].order[2]
    BY <1>5, <1>6, <1>9, <2>1, <2>2
  <2>. QED BY <1>2, <1>6, <2>1, <2>3 DEF Behind
<1>15. \A k : OneTornBefore(b, k)' <=> OneTornBefore(b, k)
  BY <1>2 DEF OneTornBefore
<1>16. Dead(b)'
  <2>1. wire'[b] # <<>>
    BY <1>6
  <2>2. ASSUME b \in garbage, wire'[b][1].at = 1
        PROVE  ~OneTornBefore(b, wire'[b][1].order[2])
    <3>1. CASE n = 0
      <4>1. wire'[b][1] = x
        BY <1>6, <3>1
      <4>2. wire'[b][1].order[2] = nextOrderId[b] - 1 /\ written[b] = 0
        BY <1>4, <1>5, <1>20, <2>2, <4>1
      <4>3. wire[b] = <<>>
        <5>1. wire[b] \in Seq(ByteType) /\ Len(wire[b]) = 0
          BY <1>10, <3>1, Bytes
        <5>. QED BY <5>1
      <4>4. ~OneTornBefore(b, nextOrderId[b] - 1)
        BY <1>1, <1>2, <2>2, <4>2, <4>3 DEF Dead
      <4>. QED BY <4>2, <4>4
    <3>2. CASE n # 0
      <4>1. wire[b] # <<>> /\ wire'[b][1] = wire[b][1]
        BY <1>6, <1>10, <3>2
      <4>. QED BY <1>1, <1>2, <2>2, <4>1 DEF Dead
    <3>. QED BY <3>1, <3>2
  <2>3. ASSUME b \in garbage, wire'[b][1].at = 1
        PROVE  ~OneTornBefore(b, wire[b][1].order[2])'
    BY <2>2, <2>3, <1>2 DEF OneTornBefore
  <2>4. (b \in garbage)' => b \in garbage
    BY <1>2
  <2>. QED BY <2>1, <2>3, <2>4 DEF Dead
<1>17. TakenSent(b)'
  BY <1>1, <1>2, <1>4 DEF TakenSent
<1>18. SentTaken(b)'
  <2>1. ASSUME NEW o \in Orders, o[1] = b, InTransit(o) PROVE InTransit(o)'
    <3>1. PICK start \in 0 .. n :
            \A k \in 1 .. FrameSize : start + k \in 1 .. n /\ wire[b][start + k] = Byte(o, k)
      BY <1>10, <2>1, Bytes DEF InTransit
    <3>2. start \in 0 .. (n + 1)
      BY <1>6
    <3>3. \A k \in 1 .. FrameSize : start + k \in 1 .. (n + 1) /\ wire'[b][start + k] = Byte(o, k)
      BY <1>6, <3>1
    <3>4. DOMAIN wire'[b] = 1 .. (n + 1)
      BY <1>3, <1>5, <1>6, Bytes
    <3>. QED BY <1>6, <2>1, <3>2, <3>3, <3>4 DEF InTransit
  <2>2. reported \subseteq Orders
    BY DEF Typed, BotTypeOK
  <2>. QED BY <1>1, <1>2, <2>1, <2>2 DEF SentTaken, TornBefore
<1>19. NoneAfterOneTorn(b)'
  BY <1>1, <1>2, <1>15 DEF NoneAfterOneTorn
<1>. QED BY <1>11, <1>12, <1>13, <1>14, <1>16, <1>17, <1>18, <1>19 DEF Stream

\* With nobody at the other end nothing is on the wire.
LEMMA WriteNothing ==
  ASSUME Typed, Typed', NEW b \in Bots, Numbers(b), Stream(b), SendBytes(b), ~serving[b]
  PROVE  Stream(b)'
<1>1. /\ InStep(b) /\ Behind(b) /\ TakenSent(b) /\ SentTaken(b) /\ NoneAfterOneTorn(b)
  BY DEF Stream
<1>2. /\ strategy[b] = "send" /\ strategy' = strategy /\ written[b] < FrameSize
      /\ UNCHANGED <<wire, stage, nextOrderId, order, serving, cut, reported, torn, taken, garbage>>
  BY DEF SendBytes, mainVars, bookVars, sentVars
<1>3. /\ stage[b] # "ended" /\ written[b] # FrameSize
  BY <1>1, <1>2, SendingFacts, FrameSizes
<1>4. Len(wire[b]) = 0
  BY DEF Typed, Stages
<1>5. \A i \in 1 .. Len(wire'[b]) : FALSE
  BY <1>2, <1>4
<1>6. Shape(b)' /\ Frames(b)'
  BY <1>5 DEF Shape, Frames
<1>7. InStep(b)'
  BY <1>2, <1>5 DEF InStep, InPlace, LastWritten, TornOnWire
<1>8. Behind(b)' /\ Dead(b)'
  BY <1>1, <1>2 DEF Behind, Dead
<1>9. TakenSent(b)'
  BY <1>1, <1>2, <1>3 DEF TakenSent
<1>10. SentTaken(b)' /\ NoneAfterOneTorn(b)'
  BY <1>1, <1>2 DEF SentTaken, InTransit, TornBefore, NoneAfterOneTorn, OneTornBefore
<1>. QED BY <1>6, <1>7, <1>8, <1>9, <1>10 DEF Stream

\* What a return of send() does to its bot but for the history.
LEMMA Returned ==
  ASSUME Typed, NEW b \in Bots, SendReturns(b)
  PROVE  /\ strategy[b] = "send" /\ strategy'[b] = "head"
         /\ order'[b] = NoOrder /\ written'[b] = 0
         /\ UNCHANGED <<stage, nextOrderId, wire, serving, cut, taken, garbage>>
BY DEF SendReturns, mainVars, connectionVars, bookVars, Typed, BotTypeOK

\* send() has returned true: the whole frame is behind its start.
LEMMA SuccessStream ==
  ASSUME Typed, Typed', NEW b \in Bots, Numbers(b), Stream(b), SendSucceeds(b)
  PROVE  Stream(b)'
<1>0. PICK n \in Nat : n = Len(wire[b])
  BY Bytes
<1>1. /\ Shape(b) /\ Frames(b) /\ InStep(b) /\ Behind(b) /\ Dead(b)
      /\ TakenSent(b) /\ SentTaken(b) /\ NoneAfterOneTorn(b)
  BY DEF Stream
<1>2. /\ strategy[b] = "send" /\ strategy'[b] = "head"
      /\ order'[b] = NoOrder /\ written'[b] = 0 /\ written[b] = FrameSize
      /\ UNCHANGED <<stage, nextOrderId, wire, serving, cut, taken, garbage, torn>>
      /\ reported' = reported \cup {order[b]}
  BY Returned DEF SendSucceeds
<1>3. /\ order[b] \in Orders /\ order[b][1] = b /\ order[b][2] = nextOrderId[b] - 1
      /\ nextOrderId[b] \in Nat /\ order[b][2] \in 1 .. MaxMade
      /\ order[b] \notin torn /\ stage[b] # "ended"
      /\ \A o \in Orders : Open(b, o) <=> o = order[b]
      /\ \A m \in 1 .. MaxMade : <<b, m>> \in torn => m < order[b][2]
  BY <1>1, <1>2, SendingFacts
<1>4. \A i \in 1 .. n :
        /\ wire[b][i].order \in Orders /\ wire[b][i].order # NoOrder
        /\ wire[b][i].at \in 1 .. FrameSize /\ wire[b][i].at \in Nat
        /\ Start(b, i)' = Start(b, i) /\ Start(b, i) \in Int
  BY <1>0, <1>2, Bytes DEF Start
<1>5. Shape(b)'
  BY <1>0, <1>1, <1>2, <1>4 DEF Shape
<1>6. Frames(b)'
  <2>. SUFFICES ASSUME NEW i \in 1 .. n
                PROVE  (/\ wire[b][i].order = order[b] => Start(b, i) = Len(wire[b]) - written[b]
                        /\ wire[b][i].order \notin torn /\ ~Open(b, wire[b][i].order) =>
                             Start(b, i) + FrameSize <= Len(wire[b])
                        /\ wire[b][i].order \in torn => wire[b][i].at < FrameSize
                        /\ wire[b][i].at = FrameSize =>
                             \/ wire[b][i].order \in reported
                             \/ /\ wire[b][i].order[2] = nextOrderId[b] - 1
                                /\ \/ order[b] = wire[b][i].order /\ written[b] = FrameSize
                                   \/ stage[b] = "ended")'
    BY <1>0, <1>2 DEF Frames
  <2>1. wire[b][i].order \notin torn => Start(b, i) + FrameSize <= n
    <3>1. CASE wire[b][i].order = order[b]
      <4>1. Start(b, i) = n - FrameSize
        BY <1>0, <1>1, <1>2, <3>1 DEF Frames
      <4>. QED BY <4>1, FrameSizes
    <3>2. CASE wire[b][i].order # order[b]
      BY <1>0, <1>1, <1>3, <1>4, <3>2 DEF Frames
    <3>. QED BY <3>1, <3>2
  <2>2. wire[b][i].order \in torn => wire[b][i].at < FrameSize
    BY <1>0, <1>1 DEF Frames
  <2>3. wire[b][i].at = FrameSize => wire[b][i].order \in reported'
    BY <1>0, <1>1, <1>2, <1>3 DEF Frames
  <2>. QED BY <1>0, <1>2, <1>4, <2>1, <2>2, <2>3
<1>7. InStep(b)'
  <2>1. InPlace(b) => InPlace(b)'
    BY <1>0, <1>2, <1>4 DEF InPlace
  <2>2. LastWritten(b)'
    BY <1>2 DEF LastWritten
  <2>. QED BY <1>1, <1>2, <2>1, <2>2 DEF InStep, TornOnWire
<1>8. Behind(b)'
  BY <1>1, <1>2 DEF Behind
<1>9. \A k : OneTornBefore(b, k)' <=> OneTornBefore(b, k)
  BY <1>2 DEF OneTornBefore
<1>10. OneTornBefore(b, nextOrderId[b]) => OneTornBefore(b, nextOrderId[b] - 1)
  <2>. SUFFICES ASSUME NEW u \in Nat, u = nextOrderId[b], OneTornBefore(b, u)
                PROVE  OneTornBefore(b, u - 1)
    BY <1>3
  <2>1. \A m \in 1 .. MaxMade : <<b, m>> \in torn => m < u - 1
    BY <1>3
  <2>2. \A m \in 1 .. MaxMade : m < u - 1 => m < u
    OBVIOUS
  <2>. QED BY <2>1, <2>2 DEF OneTornBefore
<1>11. Dead(b)'
  <2>1. \A i \in Nat : OneTornBefore(b, i)' <=> OneTornBefore(b, i)
    BY <1>9
  <2>2. b \in garbage /\ serving[b] /\ wire[b] = <<>> => ~OneTornBefore(b, nextOrderId[b])
    BY <1>1, <1>2, <1>10 DEF Dead
  <2>. QED BY <1>1, <1>2, <1>9, <2>2 DEF Dead
<1>12. TakenSent(b)'
  BY <1>1, <1>2, <1>3 DEF TakenSent
<1>13. SentTaken(b)'
  <2>. SUFFICES ASSUME NEW o \in reported', o \notin taken, o[1] = b
                PROVE  InTransit(o) \/ b \in cut \/ TornBefore(o) # {}
    BY <1>2 DEF SentTaken, InTransit, TornBefore
  <2>1. CASE o \in reported
    BY <1>1, <2>1 DEF SentTaken
  <2>2. CASE o = order[b] /\ b \in garbage
    <3>1. PICK m \in 1 .. MaxMade : <<b, m>> \in torn
      BY <1>1, <2>2 DEF Behind
    <3>2. m \in 1 .. (o[2] - 1)
      BY <1>3, <2>2, <3>1
    <3>. QED BY <3>1, <3>2 DEF TornBefore
  <2>3. CASE o = order[b] /\ b \notin garbage /\ b \notin cut
    <3>1. serving[b]
      BY <1>2, <2>3 DEF Typed, Stages
    <3>2. wire[b] # <<>> /\ wire[b][n] = Byte(o, FrameSize)
      BY <1>0, <1>1, <1>2, <2>3, <3>1, FrameSizes DEF InStep, LastWritten
    <3>3. n \in 1 .. n /\ wire[b][n].order = o /\ wire[b][n].at = FrameSize
      BY <1>0, <3>2, Bytes DEF Byte
    <3>4. Start(b, n) = n - FrameSize /\ Start(b, n) >= 0
      BY <1>0, <1>1, <2>3, <3>3 DEF InStep, InPlace, Start
    <3>5. n - FrameSize \in 0 .. n
      BY <3>4, FrameSizes
    <3>6. ASSUME NEW k \in 1 .. FrameSize
          PROVE  n - FrameSize + k \in 1 .. n /\ wire[b][n - FrameSize + k] = Byte(o, k)
      <4>1. n - FrameSize + k \in 1 .. n
        BY <3>5, FrameSizes
      <4>2. n - FrameSize + k <= n /\ k <= wire[b][n].at
        BY <3>3, <4>1
      <4>. QED BY <1>0, <1>1, <2>3, <3>3, <3>4, <4>1, <4>2 DEF InStep, InPlace
    <3>7. DOMAIN wire[b] = 1 .. n
      BY <1>0, Bytes
    <3>. QED BY <1>0, <2>3, <3>5, <3>6, <3>7 DEF InTransit
  <2>. QED BY <1>2, <2>1, <2>2, <2>3
<1>14. NoneAfterOneTorn(b)'
  BY <1>1, <1>2, <1>9 DEF NoneAfterOneTorn
<1>. QED BY <1>5, <1>6, <1>7, <1>8, <1>11, <1>12, <1>13, <1>14 DEF Stream

\* send() has failed: a frame that was begun is torn, and its last byte is behind it.
LEMMA FailStream ==
  ASSUME Typed, Typed', NEW b \in Bots, Numbers(b), Stream(b), SendFails(b)
  PROVE  Stream(b)'
<1>0. PICK n \in Nat : n = Len(wire[b])
  BY Bytes
<1>1. /\ Shape(b) /\ Frames(b) /\ InStep(b) /\ Behind(b) /\ Dead(b)
      /\ TakenSent(b) /\ SentTaken(b) /\ NoneAfterOneTorn(b)
  BY DEF Stream
<1>2. /\ strategy[b] = "send" /\ strategy'[b] = "head"
      /\ order'[b] = NoOrder /\ written'[b] = 0 /\ written[b] < FrameSize
      /\ UNCHANGED <<stage, nextOrderId, wire, serving, cut, taken, garbage, reported>>
      /\ torn' = IF written[b] = 0 THEN torn ELSE torn \cup {order[b]}
  BY Returned DEF SendFails
<1>3. /\ order[b] \in Orders /\ order[b][1] = b /\ order[b][2] = nextOrderId[b] - 1
      /\ nextOrderId[b] \in Nat /\ order[b][2] \in 1 .. MaxMade
      /\ order[b] \notin torn /\ stage[b] # "ended"
      /\ written[b] \in Nat /\ written[b] # FrameSize /\ order[b] \notin taken
      /\ \A o \in Orders : Open(b, o) <=> o = order[b]
      /\ \A m \in 1 .. MaxMade : <<b, m>> \in torn => m < order[b][2]
  BY <1>1, <1>2, SendingFacts, FrameSizes
<1>4. \A i \in 1 .. n :
        /\ wire[b][i].order \in Orders /\ wire[b][i].order # NoOrder
        /\ wire[b][i].order[2] \in Nat /\ wire[b][i].order[2] < nextOrderId[b]
        /\ wire[b][i].at \in 1 .. FrameSize /\ wire[b][i].at \in Nat
        /\ Start(b, i)' = Start(b, i) /\ Start(b, i) \in Int /\ Start(b, i) = i - wire[b][i].at
  BY <1>0, <1>1, <1>2, Bytes DEF Start, Shape
<1>5. /\ torn \subseteq torn' /\ torn' \subseteq torn \cup {order[b]}
      /\ order[b] \in torn' <=> written[b] # 0
  BY <1>2, <1>3
<1>6. Shape(b)'
  BY <1>0, <1>1, <1>2, <1>4 DEF Shape
<1>7. Frames(b)'
  <2>. SUFFICES ASSUME NEW i \in 1 .. n
                PROVE  (/\ wire[b][i].order = order[b] => Start(b, i) = Len(wire[b]) - written[b]
                        /\ wire[b][i].order \notin torn /\ ~Open(b, wire[b][i].order) =>
                             Start(b, i) + FrameSize <= Len(wire[b])
                        /\ wire[b][i].order \in torn => wire[b][i].at < FrameSize
                        /\ wire[b][i].at = FrameSize =>
                             \/ wire[b][i].order \in reported
                             \/ /\ wire[b][i].order[2] = nextOrderId[b] - 1
                                /\ \/ order[b] = wire[b][i].order /\ written[b] = FrameSize
                                   \/ stage[b] = "ended")'
    BY <1>0, <1>2 DEF Frames
  <2>1. wire[b][i].order = order[b] =>
          /\ wire[b][i].at <= written[b]
          /\ written[b] # 0
    <3>. SUFFICES ASSUME wire[b][i].order = order[b]
                  PROVE  wire[b][i].at <= written[b] /\ written[b] # 0
      OBVIOUS
    <3>1. i - wire[b][i].at = n - written[b]
      BY <1>0, <1>1, <1>4 DEF Frames
    <3>. QED BY <1>3, <1>4, <3>1
  <2>2. wire[b][i].order \notin torn' => Start(b, i) + FrameSize <= n
    BY <1>0, <1>1, <1>3, <1>4, <1>5, <2>1 DEF Frames
  <2>3. wire[b][i].order \in torn' => wire[b][i].at < FrameSize
    <3>1. wire[b][i].order \in torn => wire[b][i].at < FrameSize
      BY <1>0, <1>1 DEF Frames
    <3>2. wire[b][i].order = order[b] => wire[b][i].at < FrameSize
      BY <1>2, <1>3, <1>4, <2>1, FrameSizes
    <3>. QED BY <1>5, <3>1, <3>2
  <2>4. wire[b][i].at = FrameSize => wire[b][i].order \in reported
    BY <1>0, <1>1, <1>3 DEF Frames
  <2>. QED BY <1>0, <1>2, <1>4, <2>2, <2>3, <2>4
<1>8. InStep(b)'
  <2>. SUFFICES ASSUME b \notin garbage
                PROVE  InPlace(b)' /\ LastWritten(b)' /\ TornOnWire(b)'
    BY <1>2 DEF InStep
  <2>1. InPlace(b) /\ LastWritten(b) /\ TornOnWire(b)
    BY <1>1 DEF InStep
  <2>2. InPlace(b)'
    BY <1>0, <1>2, <1>4, <1>5, <2>1 DEF InPlace
  <2>3. LastWritten(b)'
    BY <1>2 DEF LastWritten
  <2>4. serving[b] /\ written[b] # 0 => \E i \in 1 .. n : wire[b][i].order = order[b]
    <3>. SUFFICES ASSUME serving[b], written[b] # 0
                  PROVE  \E i \in 1 .. n : wire[b][i].order = order[b]
      OBVIOUS
    <3>1. wire[b] # <<>> /\ wire[b][n] = Byte(order[b], written[b])
      BY <1>0, <1>2, <1>3, <2>1 DEF LastWritten
    <3>2. n \in 1 .. n /\ wire[b][n].order = order[b]
      BY <1>0, <3>1, Bytes DEF Byte
    <3>. QED BY <3>2
  <2>5. TornOnWire(b)'
    BY <1>0, <1>2, <1>5, <2>1, <2>4 DEF TornOnWire
  <2>. QED BY <2>2, <2>3, <2>5
<1>9. Behind(b)'
  BY <1>1, <1>2, <1>5 DEF Behind
<1>10. ASSUME NEW k \in Nat, k < nextOrderId[b]
       PROVE  OneTornBefore(b, k)' <=> OneTornBefore(b, k)
  <2>1. \A m \in 1 .. MaxMade : m < k => (<<b, m>> \in torn' <=> <<b, m>> \in torn)
    <3>. SUFFICES ASSUME NEW m \in 1 .. MaxMade, m < k, <<b, m>> \in torn'
                  PROVE  <<b, m>> \in torn
      BY <1>5
    <3>1. m # nextOrderId[b] - 1
      BY <1>3, <1>10
    <3>. QED BY <1>3, <1>5, <3>1
  <2>. QED BY <2>1 DEF OneTornBefore
<1>11. Dead(b)'
  <2>. SUFFICES ASSUME b \in garbage, serving[b] PROVE Dead(b)'
    BY <1>2 DEF Dead
  <2>1. ASSUME wire[b] # <<>>, wire[b][1].at = 1
        PROVE  ~OneTornBefore(b, wire[b][1].order[2])'
    <3>1. 1 \in 1 .. n
      BY <1>0, <2>1, Bytes
    <3>2. PICK k \in Nat : k = wire[b][1].order[2] /\ k < nextOrderId[b]
      BY <1>4, <3>1
    <3>3. ~OneTornBefore(b, k)
      BY <1>1, <2>1, <3>2 DEF Dead
    <3>4. wire'[b][1].order[2] = k
      BY <1>2, <3>2
    <3>. QED BY <1>10, <3>2, <3>3, <3>4 DEF OneTornBefore
  <2>2. ASSUME wire[b] = <<>> PROVE ~OneTornBefore(b, nextOrderId[b])'
    <3>1. PICK k \in Nat : k = nextOrderId[b] /\ k = nextOrderId'[b]
      BY <1>2, <1>3
    <3>2. \A m \in 1 .. MaxMade : <<b, m>> \in torn => m < k - 1
      BY <1>3, <3>1
    <3>3. \A m \in 1 .. MaxMade : m < k - 1 => m < k
      OBVIOUS
    <3>4. CASE written[b] = 0
      <4>1. ~OneTornBefore(b, k - 1) /\ torn' = torn
        BY <1>1, <1>2, <2>2, <3>1, <3>4 DEF Dead
      <4>2. ~OneTornBefore(b, k)
        BY <3>2, <3>3, <4>1 DEF OneTornBefore
      <4>. QED BY <3>1, <4>1, <4>2 DEF OneTornBefore
    <3>5. CASE written[b] # 0
      <4>1. PICK m \in 1 .. MaxMade : <<b, m>> \in torn
        BY <1>1 DEF Behind
      <4>2. k - 1 \in 1 .. MaxMade /\ <<b, k - 1>> = order[b] /\ k - 1 < k
        BY <1>2, <1>3, <3>1 DEF Typed, Stages
      <4>3. /\ m < k /\ m # k - 1 /\ <<b, m>> \in torn' /\ <<b, k - 1>> \in torn'
        BY <1>5, <3>2, <3>3, <3>5, <4>1, <4>2
      <4>. QED BY <3>1, <4>2, <4>3 DEF OneTornBefore
    <3>. QED BY <3>4, <3>5
  <2>. QED BY <1>2, <2>1, <2>2 DEF Dead
<1>12. TakenSent(b)'
  BY <1>1, <1>2, <1>3 DEF TakenSent
<1>13. SentTaken(b)'
  BY <1>1, <1>2, <1>5 DEF SentTaken, InTransit, TornBefore
<1>14. NoneAfterOneTorn(b)'
  <2>1. \A o \in taken : o[1] = b => o[2] \in Nat /\ o[2] < nextOrderId[b]
    <3>1. taken \subseteq Orders
      BY DEF Typed, BotTypeOK
    <3>2. \A o \in Orders : o[2] \in Nat
      BY DEF Orders
    <3>. QED BY <3>1, <3>2 DEF Numbers
  <2>. QED BY <1>1, <1>2, <1>10, <2>1 DEF NoneAfterOneTorn
<1>. QED BY <1>6, <1>7, <1>8, <1>9, <1>11, <1>12, <1>13, <1>14 DEF Stream

-------------------------------------------------------------------------------
(* The server takes a frame.                                                *)

\* With one order torn before p, and one before q, there is one before q.
LEMMA OneTornEarlier ==
  ASSUME NEW b \in Bots, NEW p \in Nat, NEW q \in Nat, q <= p, OneTornBefore(b, p),
         NEW m \in 1 .. MaxMade, <<b, m>> \in torn, m < q
  PROVE  OneTornBefore(b, q)
<1>1. \A k \in 1 .. MaxMade : k < q => k < p
  OBVIOUS
<1>. QED BY <1>1 DEF OneTornBefore

\* What the stream was, with n bytes, and what is left of it.
LEMMA FrameTaken ==
  ASSUME Typed, Typed', NEW b \in Bots, Shape(b), Frames(b), TakeFrame(b), PayloadRead(wire[b]),
         NEW n \in Nat, n = Len(wire[b])
  PROVE  /\ n - FrameSize \in Nat /\ Len(wire'[b]) = n - FrameSize
         /\ \A i \in 1 .. (n - FrameSize) :
              /\ i + FrameSize \in 1 .. n /\ wire'[b][i] = wire[b][i + FrameSize]
              /\ Start(b, i)' = Start(b, i + FrameSize) - FrameSize
              /\ Start(b, i + FrameSize) \in Int
              /\ wire[b][i + FrameSize].order # wire[b][1].order
              /\ wire[b][1].order[2] <= wire[b][i + FrameSize].order[2]
         /\ 1 \in 1 .. n /\ FrameSize \in 1 .. n
         /\ wire[b][1].at = 1 /\ Start(b, 1) = 0
         /\ \A i \in 1 .. n : wire[b][i].order = wire[b][1].order => i = wire[b][i].at
         /\ UNCHANGED <<stage, strategy, nextOrderId, order, written, serving, cut, reported,
                        torn>>
<1>1. /\ UNCHANGED <<stage, strategy, nextOrderId, order, written, serving, cut, reported, torn>>
      /\ wire'[b] = SubSeq(wire[b], FrameSize + 1, Len(wire[b]))
  BY DEF TakeFrame, mainVars, strategyVars, sentVars, Typed, BotTypeOK
<1>2. FrameSize <= n /\ wire[b][1].at = 1
  BY FrameSizes DEF PayloadRead, HeaderRead
<1>3. 1 \in 1 .. n /\ FrameSize \in 1 .. n /\ n - FrameSize \in Nat
  BY <1>2, FrameSizes
<1>4. /\ Len(wire'[b]) = n - FrameSize
      /\ \A i \in 1 .. (n - FrameSize) :
           wire'[b][i] = wire[b][i + FrameSize] /\ i + FrameSize \in 1 .. n
  <2>1. wire[b] \in Seq(ByteType) /\ FrameSize \in Nat
    BY Bytes, FrameSizes
  <2>2. FrameSize <= Len(wire[b])
    BY <1>2
  <2>3. /\ Len(wire'[b]) = Len(wire[b]) - FrameSize
        /\ \A i \in 1 .. Len(wire'[b]) :
             wire'[b][i] = wire[b][i + FrameSize] /\ i + FrameSize \in 1 .. Len(wire[b])
    BY <1>1, <2>1, <2>2, Remainder
  <2>. QED BY <2>3
<1>5. Start(b, 1) = 0
  BY <1>2 DEF Start
<1>6. ASSUME NEW i \in 1 .. n, wire[b][i].order = wire[b][1].order PROVE i = wire[b][i].at
  <2>1. Start(b, i) = 0
    BY <1>3, <1>5, <1>6 DEF Shape
  <2>2. wire[b][i].at \in Nat
    BY Bytes
  <2>. QED BY <2>1, <2>2 DEF Start
<1>7. ASSUME NEW i \in 1 .. (n - FrameSize)
      PROVE  /\ Start(b, i)' = Start(b, i + FrameSize) - FrameSize
             /\ Start(b, i + FrameSize) \in Int
             /\ wire[b][i + FrameSize].order # wire[b][1].order
             /\ wire[b][1].order[2] <= wire[b][i + FrameSize].order[2]
  <2>1. PICK j \in 1 .. n : j = i + FrameSize
    BY <1>4
  <2>2. wire[b][j].at \in 1 .. FrameSize /\ wire'[b][i] = wire[b][j]
    BY <1>4, <2>1, Bytes
  <2>3. Start(b, i)' = i - wire[b][j].at /\ Start(b, j) = j - wire[b][j].at
    BY <2>2 DEF Start
  <2>4. i - wire[b][j].at = (j - wire[b][j].at) - FrameSize /\ j - wire[b][j].at \in Int
    BY <2>1, <2>2, FrameSizes
  <2>5. wire[b][j].order # wire[b][1].order
    BY <1>6, <2>1, <2>2, FrameSizes
  <2>6. wire[b][1].order[2] <= wire[b][j].order[2]
    <3>1. 1 < j
      BY <2>1, FrameSizes
    <3>. QED BY <1>3, <3>1 DEF Shape
  <2>. QED BY <2>1, <2>3, <2>4, <2>5, <2>6
<1>. QED BY <1>1, <1>2, <1>3, <1>4, <1>5, <1>6, <1>7

\* The order of what is left, and how far its frames go, are as they were.
LEMMA ShapeTaken ==
  ASSUME Typed, Typed', NEW b \in Bots, Shape(b), Frames(b), TakeFrame(b), PayloadRead(wire[b]),
         taken' \in {taken, taken \cup {wire[b][1].order}}
  PROVE  Shape(b)' /\ Frames(b)'
<1>0. PICK n \in Nat : n = Len(wire[b])
  BY Bytes
<1>1. /\ n - FrameSize \in Nat /\ Len(wire'[b]) = n - FrameSize
      /\ \A i \in 1 .. (n - FrameSize) :
           /\ i + FrameSize \in 1 .. n /\ wire'[b][i] = wire[b][i + FrameSize]
           /\ Start(b, i)' = Start(b, i + FrameSize) - FrameSize
           /\ Start(b, i + FrameSize) \in Int
           /\ wire[b][i + FrameSize].order # wire[b][1].order
      /\ UNCHANGED <<stage, strategy, nextOrderId, order, written, serving, cut, reported, torn>>
  BY <1>0, FrameTaken
<1>2. Shape(b)'
  <2>1. ASSUME NEW i \in 1 .. (n - FrameSize)
        PROVE  /\ wire'[b][i].order[1] = b /\ wire'[b][i].order[2] < nextOrderId'[b]
               /\ wire'[b][i].order \notin taken'
    <3>1. PICK k \in 1 .. n : k = i + FrameSize
      BY <1>1
    <3>2. /\ wire[b][k].order[1] = b /\ wire[b][k].order[2] < nextOrderId[b]
          /\ wire[b][k].order \notin taken
      BY <1>0 DEF Shape
    <3>. QED BY <1>1, <3>1, <3>2
  <2>2. ASSUME NEW i \in 1 .. (n - FrameSize), NEW j \in 1 .. (n - FrameSize)
        PROVE  /\ i < j => wire'[b][i].order[2] <= wire'[b][j].order[2]
               /\ wire'[b][i].order = wire'[b][j].order => Start(b, i)' = Start(b, j)'
    <3>1. PICK k \in 1 .. n, l \in 1 .. n : k = i + FrameSize /\ l = j + FrameSize
      BY <1>1
    <3>2. i < j => k < l
      BY <3>1, FrameSizes
    <3>3. /\ k < l => wire[b][k].order[2] <= wire[b][l].order[2]
          /\ wire[b][k].order = wire[b][l].order => Start(b, k) = Start(b, l)
      BY <1>0 DEF Shape
    <3>. QED BY <1>1, <3>1, <3>2, <3>3
  <2>. QED BY <1>1, <2>1, <2>2 DEF Shape
<1>3. Frames(b)'
  <2>. SUFFICES ASSUME NEW i \in 1 .. (n - FrameSize)
                PROVE  (/\ wire[b][i].order = order[b] => Start(b, i) = Len(wire[b]) - written[b]
                        /\ wire[b][i].order \notin torn /\ ~Open(b, wire[b][i].order) =>
                             Start(b, i) + FrameSize <= Len(wire[b])
                        /\ wire[b][i].order \in torn => wire[b][i].at < FrameSize
                        /\ wire[b][i].at = FrameSize =>
                             \/ wire[b][i].order \in reported
                             \/ /\ wire[b][i].order[2] = nextOrderId[b] - 1
                                /\ \/ order[b] = wire[b][i].order /\ written[b] = FrameSize
                                   \/ stage[b] = "ended")'
    BY <1>1 DEF Frames
  <2>1. PICK j \in 1 .. n : j = i + FrameSize
    BY <1>1
  <2>2. wire'[b][i] = wire[b][j] /\ Start(b, i)' = Start(b, j) - FrameSize /\ Start(b, j) \in Int
    BY <1>1, <2>1
  <2>3. wire[b][j].order = order[b] => Start(b, i)' = (n - FrameSize) - written[b]
    <3>. SUFFICES ASSUME wire[b][j].order = order[b] PROVE Start(b, i)' = (n - FrameSize) - written[b]
      OBVIOUS
    <3>1. Start(b, j) = n - written[b] /\ written[b] \in Nat
      BY <1>0, FrameSizes DEF Frames, Typed, BotTypeOK
    <3>. QED BY <2>2, <3>1, FrameSizes
  <2>4. Start(b, j) + FrameSize <= n => Start(b, i)' + FrameSize <= n - FrameSize
    BY <2>2, FrameSizes
  <2>5. \A o : Open(b, o)' <=> Open(b, o)
    BY <1>1 DEF Open
  <2>. QED BY <1>0, <1>1, <2>2, <2>3, <2>4, <2>5 DEF Frames
<1>. QED BY <1>2, <1>3

\* A stream that garbage was taken from stays out of step.
LEMMA DeadStays ==
  ASSUME Typed, Typed', NEW b \in Bots, Shape(b), Frames(b), Behind(b), Dead(b),
         TakeFrame(b), PayloadRead(wire[b]), b \in garbage, serving[b]
  PROVE  /\ ~OneTornBefore(b, wire[b][1].order[2])
         /\ Behind(b)' /\ Dead(b)'
<1>0. PICK n \in Nat : n = Len(wire[b])
  BY Bytes
<1>1. /\ n - FrameSize \in Nat /\ Len(wire'[b]) = n - FrameSize
      /\ \A i \in 1 .. (n - FrameSize) :
           /\ i + FrameSize \in 1 .. n /\ wire'[b][i] = wire[b][i + FrameSize]
           /\ wire[b][1].order[2] <= wire[b][i + FrameSize].order[2]
      /\ 1 \in 1 .. n /\ wire[b][1].at = 1
      /\ UNCHANGED <<stage, strategy, nextOrderId, order, written, serving, cut, reported, torn>>
  BY <1>0, FrameTaken
<1>2. wire[b] # <<>>
  BY <1>0, <1>1
<1>3. PICK q \in Nat : q = wire[b][1].order[2]
  BY <1>0, <1>1, Bytes
<1>4. ~OneTornBefore(b, q)
  BY <1>1, <1>2, <1>3 DEF Dead
<1>5. PICK m \in 1 .. MaxMade :
        <<b, m>> \in torn /\ \A i \in 1 .. n : m < wire[b][i].order[2]
  BY <1>0 DEF Behind
<1>6. ASSUME NEW p \in Nat, q <= p PROVE ~OneTornBefore(b, p)
  BY <1>1, <1>3, <1>4, <1>5, <1>6, OneTornEarlier
<1>7. Behind(b)'
  <2>1. \A i \in 1 .. (n - FrameSize) : m < wire'[b][i].order[2]
    BY <1>1, <1>5
  <2>. QED BY <1>1, <1>5, <2>1 DEF Behind
<1>8. \A k : OneTornBefore(b, k)' <=> OneTornBefore(b, k)
  BY <1>1 DEF OneTornBefore
<1>9. q < nextOrderId[b] /\ nextOrderId[b] \in Nat /\ nextOrderId[b] - 1 \in Nat
      /\ q <= nextOrderId[b] - 1 /\ q <= nextOrderId[b]
  <2>1. q < nextOrderId[b] /\ nextOrderId[b] \in Nat
    BY <1>0, <1>1, <1>3 DEF Shape, Typed, BotTypeOK
  <2>. QED BY <2>1
<1>10. Dead(b)'
  <2>1. ASSUME wire'[b] # <<>> PROVE ~OneTornBefore(b, wire[b][1].order[2])'
    <3>1. 1 \in 1 .. (n - FrameSize)
      <4>1. wire'[b] \in Seq(ByteType)
        BY DEF Typed, BotTypeOK
      <4>. QED BY <1>1, <2>1, <4>1
    <3>2. PICK p \in Nat : p = wire'[b][1].order[2] /\ q <= p
      <4>1. PICK k \in 1 .. n : k = 1 + FrameSize
        BY <1>1, <3>1
      <4>2. wire[b][k].order[2] \in Nat
        BY <1>0, Bytes
      <4>. QED BY <1>1, <1>3, <3>1, <4>1, <4>2
    <3>. QED BY <1>1, <1>6, <3>2 DEF OneTornBefore
  <2>2. ~OneTornBefore(b, nextOrderId[b] - 1)' /\ ~OneTornBefore(b, nextOrderId[b])'
    BY <1>1, <1>6, <1>9 DEF OneTornBefore
  <2>. QED BY <2>1, <2>2 DEF Dead
<1>. QED BY <1>3, <1>4, <1>7, <1>10

\* Before any garbage, a frame whose order is not torn is whole from its start.
LEMMA HeadWhole ==
  ASSUME Typed, NEW b \in Bots, InPlace(b), PayloadRead(wire[b]), wire[b][1].order \notin torn
  PROVE  Whole(wire[b])
<1>1. FrameSize <= Len(wire[b]) /\ wire[b][1].at = 1 /\ 1 \in 1 .. Len(wire[b])
  BY FrameSizes, Bytes DEF PayloadRead, HeaderRead
<1>2. Start(b, 1) = 0
  BY <1>1 DEF Start
<1>3. ASSUME NEW k \in 1 .. FrameSize PROVE wire[b][k] = Byte(wire[b][1].order, k)
  <2>1. Start(b, 1) + k = k /\ k <= Len(wire[b])
    BY <1>1, <1>2, FrameSizes, Bytes
  <2>. QED BY <1>1, <2>1 DEF InPlace
<1>. QED BY <1>3 DEF Whole

\* No order that was torn is left unseen before garbage.
LEMMA NoneTornBeforeHead ==
  ASSUME Typed, NEW b \in Bots, Shape(b), TornOnWire(b), serving[b], 1 <= Len(wire[b]),
         NEW m \in 1 .. MaxMade, <<b, m>> \in torn
  PROVE  wire[b][1].order[2] <= m
<1>1. PICK i \in 1 .. Len(wire[b]) : wire[b][i].order = <<b, m>>
  BY DEF TornOnWire
<1>2. 1 \in 1 .. Len(wire[b]) /\ (i = 1 \/ 1 < i)
  BY Bytes
<1>3. wire[b][1].order[2] <= wire[b][i].order[2]
  BY <1>2, Bytes DEF Shape
<1>. QED BY <1>1, <1>3

LEMMA TakeOrderStream ==
  ASSUME Typed, Typed', NEW b \in Bots, Numbers(b), Stream(b), ReadFrame(b)
  PROVE  Stream(b)'
<1>0. PICK n \in Nat : n = Len(wire[b])
  BY Bytes
<1>1. /\ Shape(b) /\ Frames(b) /\ InStep(b) /\ Behind(b) /\ Dead(b)
      /\ TakenSent(b) /\ SentTaken(b) /\ NoneAfterOneTorn(b)
  BY DEF Stream
<1>2. /\ serving[b] /\ Whole(wire[b]) /\ PayloadRead(wire[b]) /\ TakeFrame(b)
      /\ taken' = taken \cup {wire[b][1].order} /\ UNCHANGED garbage
  BY DEF ReadFrame, Whole
<1>3. /\ n - FrameSize \in Nat /\ Len(wire'[b]) = n - FrameSize
      /\ \A i \in 1 .. (n - FrameSize) :
           /\ i + FrameSize \in 1 .. n /\ wire'[b][i] = wire[b][i + FrameSize]
           /\ Start(b, i)' = Start(b, i + FrameSize) - FrameSize
           /\ Start(b, i + FrameSize) \in Int
           /\ wire[b][i + FrameSize].order # wire[b][1].order
      /\ 1 \in 1 .. n /\ FrameSize \in 1 .. n
      /\ wire[b][1].at = 1 /\ Start(b, 1) = 0
      /\ UNCHANGED <<stage, strategy, nextOrderId, order, written, serving, cut, reported, torn>>
  BY <1>0, <1>1, <1>2, FrameTaken
<1>4. PICK h \in Orders : h = wire[b][1].order
  BY <1>0, <1>3, Bytes
<1>5. /\ \A k \in 1 .. FrameSize :
           wire[b][k].order = h /\ wire[b][k].at = k /\ k \in 1 .. n
      /\ h[1] = b /\ h[2] \in Nat /\ h[2] < nextOrderId[b] /\ h \notin taken /\ h \notin torn
  <2>1. \A k \in 1 .. FrameSize : wire[b][k].order = h /\ wire[b][k].at = k
    <3>1. \A k \in 1 .. FrameSize : wire[b][k] = Byte(h, k)
      BY <1>2, <1>4 DEF Whole
    <3>2. \A k : Byte(h, k).order = h /\ Byte(h, k).at = k
      BY DEF Byte
    <3>. QED BY <3>1, <3>2
  <2>2. wire[b][FrameSize].order = h /\ wire[b][FrameSize].at = FrameSize
    BY <2>1, FrameSizes
  <2>3. h \notin torn
    <3>1. wire[b][FrameSize].order \in torn => wire[b][FrameSize].at < FrameSize
      BY <1>0, <1>1, <1>3 DEF Frames
    <3>. QED BY <2>2, <3>1, FrameSizes
  <2>4. h[1] = b /\ h[2] < nextOrderId[b] /\ h \notin taken
    BY <1>0, <1>1, <1>3, <1>4 DEF Shape
  <2>5. \A k \in 1 .. FrameSize : k \in 1 .. n
    BY <1>3, FrameSizes
  <2>. QED BY <2>1, <2>3, <2>4, <2>5 DEF Orders
<1>6. Shape(b)' /\ Frames(b)'
  BY <1>1, <1>2, ShapeTaken
<1>7. ASSUME b \notin garbage PROVE InPlace(b)' /\ LastWritten(b)' /\ TornOnWire(b)'
  <2>1. InPlace(b) /\ LastWritten(b) /\ TornOnWire(b)
    BY <1>1, <1>7 DEF InStep
  <2>2. ASSUME NEW i \in 1 .. (n - FrameSize)
        PROVE  /\ Start(b, i)' >= 0
               /\ \A k \in 1 .. FrameSize :
                    Start(b, i)' + k <= n - FrameSize
                    /\ (k <= wire'[b][i].at \/ wire'[b][i].order \notin torn) =>
                         wire'[b][Start(b, i)' + k] = Byte(wire'[b][i].order, k)
    <3>1. PICK j \in 1 .. n :
            /\ j = i + FrameSize /\ wire'[b][i] = wire[b][j]
            /\ Start(b, i)' = Start(b, j) - FrameSize /\ Start(b, j) \in Int
            /\ wire[b][j].order # h
      BY <1>3, <1>4
    <3>2. /\ Start(b, j) >= 0
          /\ \A k \in 1 .. FrameSize :
               Start(b, j) + k <= n /\ (k <= wire[b][j].at \/ wire[b][j].order \notin torn) =>
                 wire[b][Start(b, j) + k] = Byte(wire[b][j].order, k)
      BY <1>0, <2>1 DEF InPlace
    <3>3. wire[b][j].at \in Nat /\ 1 <= wire[b][j].at /\ Start(b, j) = j - wire[b][j].at
      BY <1>0, Bytes DEF Start
    <3>4. Start(b, j) >= FrameSize
      <4>. SUFFICES ASSUME ~(Start(b, j) >= FrameSize) PROVE FALSE
        OBVIOUS
      <4>1. /\ Start(b, j) + 1 \in 1 .. FrameSize /\ 1 \in 1 .. FrameSize
            /\ Start(b, j) + 1 <= n
        BY <1>3, <3>1, <3>2, FrameSizes
      <4>2. wire[b][Start(b, j) + 1] = Byte(wire[b][j].order, 1)
        BY <3>2, <3>3, <4>1
      <4>3. wire[b][Start(b, j) + 1].order = wire[b][j].order
        BY <4>2 DEF Byte
      <4>. QED BY <1>5, <3>1, <4>1, <4>3
    <3>5. ASSUME NEW k \in 1 .. FrameSize, Start(b, i)' + k <= n - FrameSize,
                 k <= wire'[b][i].at \/ wire'[b][i].order \notin torn
          PROVE  wire'[b][Start(b, i)' + k] = Byte(wire'[b][i].order, k)
      <4>1. PICK u \in 1 .. (n - FrameSize) : u = Start(b, i)' + k /\ u + FrameSize = Start(b, j) + k
        BY <1>3, <3>1, <3>4, <3>5, FrameSizes
      <4>2. Start(b, j) + k <= n
        BY <1>3, <4>1
      <4>3. wire[b][Start(b, j) + k] = Byte(wire[b][j].order, k)
        BY <3>1, <3>2, <3>5, <4>2
      <4>. QED BY <1>3, <3>1, <4>1, <4>3
    <3>. QED BY <3>1, <3>4, <3>5, FrameSizes
  <2>3. InPlace(b)'
    BY <1>3, <2>2 DEF InPlace
  <2>4. LastWritten(b)'
    <3>. SUFFICES ASSUME strategy[b] = "send", order[b] \notin taken', written[b] # 0
                  PROVE  wire'[b] # <<>> /\ wire'[b][n - FrameSize] = Byte(order[b], written[b])
      BY <1>3 DEF LastWritten
    <3>1. wire[b][n] = Byte(order[b], written[b])
      BY <1>0, <1>2, <2>1 DEF LastWritten
    <3>2. wire[b][n].order = order[b]
      BY <3>1 DEF Byte
    <3>3. order[b] # h
      BY <1>2, <1>4
    <3>4. n # FrameSize
      BY <1>3, <1>5, <3>2, <3>3
    <3>5. n - FrameSize \in 1 .. (n - FrameSize) /\ (n - FrameSize) + FrameSize = n
      BY <1>3, <3>4, FrameSizes
    <3>6. wire'[b] # <<>>
      BY <1>3, <3>5
    <3>. QED BY <1>3, <3>1, <3>5, <3>6
  <2>5. TornOnWire(b)'
    <3>. SUFFICES ASSUME NEW o \in torn, o[1] = b
                  PROVE  \E i \in 1 .. (n - FrameSize) : wire'[b][i].order = o
      BY <1>3 DEF TornOnWire
    <3>1. PICK j \in 1 .. n : wire[b][j].order = o
      BY <1>0, <1>2, <2>1 DEF TornOnWire
    <3>2. j \notin 1 .. FrameSize
      BY <1>5, <3>1
    <3>3. PICK i \in 1 .. (n - FrameSize) : i + FrameSize = j
      <4>1. j - FrameSize \in 1 .. (n - FrameSize) /\ (j - FrameSize) + FrameSize = j
        BY <3>2, FrameSizes
      <4>. QED BY <4>1
    <3>. QED BY <1>3, <3>1, <3>3
  <2>. QED BY <2>3, <2>4, <2>5
<1>8. InStep(b)'
  BY <1>2, <1>7 DEF InStep
<1>9. Behind(b)' /\ Dead(b)'
  <2>1. CASE b \in garbage
    BY <1>1, <1>2, <2>1, DeadStays
  <2>2. CASE b \notin garbage
    BY <1>2, <2>2 DEF Behind, Dead
  <2>. QED BY <2>1, <2>2
<1>10. TakenSent(b)'
  <2>1. FrameSize \in 1 .. FrameSize
    BY FrameSizes
  <2>2. wire[b][FrameSize].order = h /\ wire[b][FrameSize].at = FrameSize
    BY <1>5, <2>1
  <2>3. \/ h \in reported
        \/ /\ h[2] = nextOrderId[b] - 1
           /\ \/ order[b] = h /\ written[b] = FrameSize
              \/ stage[b] = "ended"
    BY <1>0, <1>1, <1>3, <2>2 DEF Frames
  <2>. QED BY <1>1, <1>2, <1>3, <1>4, <2>3 DEF TakenSent
<1>11. SentTaken(b)'
  <2>. SUFFICES ASSUME NEW o \in reported \ taken', o[1] = b
                PROVE  InTransit(o)' \/ b \in cut \/ TornBefore(o) # {}
    BY <1>3 DEF SentTaken, TornBefore
  <2>1. o \in reported \ taken /\ o # h
    BY <1>2, <1>4
  <2>2. ASSUME InTransit(o) PROVE InTransit(o)'
    <3>1. PICK start \in 0 .. n :
            \A k \in 1 .. FrameSize : start + k \in 1 .. n /\ wire[b][start + k] = Byte(o, k)
      <4>1. DOMAIN wire[b] = 1 .. n
        BY <1>0, Bytes
      <4>. QED BY <1>0, <2>2, <4>1 DEF InTransit
    <3>2. start >= FrameSize
      <4>. SUFFICES ASSUME ~(start >= FrameSize) PROVE FALSE
        OBVIOUS
      <4>1. start + 1 \in 1 .. FrameSize /\ 1 \in 1 .. FrameSize
        BY FrameSizes
      <4>2. wire[b][start + 1].order = o
        <5>1. wire[b][start + 1] = Byte(o, 1)
          BY <3>1, <4>1
        <5>. QED BY <5>1 DEF Byte
      <4>. QED BY <1>5, <2>1, <4>1, <4>2
    <3>3. PICK start2 \in 0 .. (n - FrameSize) : start2 = start - FrameSize
      BY <1>3, <3>2, FrameSizes
    <3>4. ASSUME NEW k \in 1 .. FrameSize
          PROVE  start2 + k \in 1 .. (n - FrameSize) /\ wire'[b][start2 + k] = Byte(o, k)
      <4>1. PICK u \in 1 .. (n - FrameSize) : u = start2 + k /\ u + FrameSize = start + k
        BY <1>3, <3>1, <3>3, FrameSizes
      <4>. QED BY <1>3, <3>1, <4>1
    <3>5. DOMAIN wire'[b] = 1 .. (n - FrameSize)
      <4>1. wire'[b] \in Seq(ByteType)
        BY DEF Typed, BotTypeOK
      <4>. QED BY <1>3, <4>1
    <3>. QED BY <1>3, <3>3, <3>4, <3>5 DEF InTransit
  <2>. QED BY <1>1, <2>1, <2>2 DEF SentTaken
<1>12. NoneAfterOneTorn(b)'
  <2>1. ~OneTornBefore(b, h[2])
    <3>1. CASE b \in garbage
      BY <1>1, <1>2, <1>4, <3>1, DeadStays
    <3>2. CASE b \notin garbage
      <4>1. 1 <= Len(wire[b])
        BY <1>0, <1>3
      <4>2. \A m \in 1 .. MaxMade : <<b, m>> \in torn => h[2] <= m
        BY <1>1, <1>2, <1>4, <3>2, <4>1, NoneTornBeforeHead DEF InStep
      <4>3. \A m \in 1 .. MaxMade : h[2] <= m => ~(m < h[2])
        BY <1>5
      <4>. QED BY <4>2, <4>3 DEF OneTornBefore
    <3>. QED BY <3>1, <3>2
  <2>2. \A k : OneTornBefore(b, k)' <=> OneTornBefore(b, k)
    BY <1>3 DEF OneTornBefore
  <2>. QED BY <1>1, <1>2, <1>4, <2>1, <2>2 DEF NoneAfterOneTorn
<1>. QED BY <1>6, <1>8, <1>9, <1>10, <1>11, <1>12 DEF Stream

\* The first that is taken and is no order begins with a torn frame; what fills it up
\* goes on behind it.
LEMMA GarbageBegins ==
  ASSUME Typed, NEW b \in Bots, Shape(b), Frames(b), InPlace(b),
         PayloadRead(wire[b]), ~Whole(wire[b]), NEW n \in Nat, n = Len(wire[b])
  PROVE  /\ wire[b][1].order \in torn /\ wire[b][FrameSize].order # wire[b][1].order
         /\ 1 \in 1 .. n /\ FrameSize \in 1 .. n /\ wire[b][1].at = 1
         /\ Start(b, FrameSize) \in 1 .. (FrameSize - 1)
         /\ Start(b, FrameSize) + FrameSize <= n /\ wire[b][FrameSize].order \notin torn =>
              /\ FrameSize + 1 \in 1 .. n
              /\ wire[b][FrameSize + 1].order = wire[b][FrameSize].order
<1>1. /\ 1 \in 1 .. n /\ FrameSize \in 1 .. n /\ wire[b][1].at = 1
  BY FrameSizes DEF PayloadRead, HeaderRead
<1>2. wire[b][1].order \in torn
  BY HeadWhole
<1>3. Start(b, 1) = 0 /\ Start(b, FrameSize) = FrameSize - wire[b][FrameSize].at
  BY <1>1 DEF Start
<1>4. wire[b][FrameSize].at \in 1 .. FrameSize
  BY <1>1, Bytes
<1>5. wire[b][FrameSize].order # wire[b][1].order
  <2>. SUFFICES ASSUME wire[b][FrameSize].order = wire[b][1].order PROVE FALSE
    OBVIOUS
  <2>1. Start(b, FrameSize) = 0
    BY <1>1, <1>3 DEF Shape
  <2>2. wire[b][FrameSize].at = FrameSize
    BY <1>3, <1>4, <2>1, FrameSizes
  <2>3. wire[b][FrameSize].order \in torn => wire[b][FrameSize].at < FrameSize
    BY <1>1 DEF Frames
  <2>. QED BY <1>2, <2>2, <2>3, FrameSizes
<1>6. PICK s \in 0 .. (FrameSize - 1) : s = Start(b, FrameSize)
  <2>1. Start(b, FrameSize) >= 0
    BY <1>1 DEF InPlace
  <2>. QED BY <1>3, <1>4, <2>1, FrameSizes
<1>7. ASSUME NEW k \in 1 .. FrameSize, s + k <= n,
             k <= wire[b][FrameSize].at \/ wire[b][FrameSize].order \notin torn
      PROVE  wire[b][s + k].order = wire[b][FrameSize].order
  <2>1. wire[b][s + k] = Byte(wire[b][FrameSize].order, k)
    BY <1>1, <1>6, <1>7 DEF InPlace
  <2>. QED BY <2>1 DEF Byte
<1>8. s # 0
  <2>. SUFFICES ASSUME s = 0 PROVE FALSE
    OBVIOUS
  <2>1. 1 \in 1 .. FrameSize /\ s + 1 = 1 /\ s + 1 <= n /\ 1 <= wire[b][FrameSize].at
    BY <1>1, <1>4, FrameSizes
  <2>. QED BY <1>5, <1>7, <2>1
<1>9. ASSUME s + FrameSize <= n, wire[b][FrameSize].order \notin torn
      PROVE  /\ FrameSize + 1 \in 1 .. n
             /\ wire[b][FrameSize + 1].order = wire[b][FrameSize].order
  <2>1. PICK k \in 1 .. FrameSize : s + k = FrameSize + 1
    <3>1. (FrameSize + 1) - s \in 1 .. FrameSize /\ s + ((FrameSize + 1) - s) = FrameSize + 1
      BY <1>8, FrameSizes
    <3>. QED BY <3>1
  <2>2. FrameSize + 1 \in 1 .. n
    BY <1>8, <1>9, FrameSizes
  <2>. QED BY <1>7, <1>9, <2>1, <2>2
<1>. QED BY <1>1, <1>2, <1>5, <1>6, <1>8, <1>9

LEMMA TwoTorn ==
  ASSUME NEW b \in Bots, NEW p, NEW m \in 1 .. MaxMade, NEW k \in 1 .. MaxMade,
         <<b, m>> \in torn, <<b, k>> \in torn, m < p, k < p, m # k
  PROVE  ~OneTornBefore(b, p)
BY DEF OneTornBefore

\* Behind its first garbage a stream with one torn order is out of step.
LEMMA DeadBegins ==
  ASSUME Typed, Typed', NEW b \in Bots, Numbers(b), Shape(b), Frames(b), InPlace(b), TakenSent(b),
         TakeFrame(b), PayloadRead(wire[b]), ~Whole(wire[b])
  PROVE  Behind(b)' /\ Dead(b)'
<1>0. PICK n \in Nat : n = Len(wire[b])
  BY Bytes
<1>1. /\ n - FrameSize \in Nat /\ Len(wire'[b]) = n - FrameSize
      /\ \A i \in 1 .. (n - FrameSize) :
           /\ i + FrameSize \in 1 .. n /\ wire'[b][i] = wire[b][i + FrameSize]
           /\ wire[b][i + FrameSize].order # wire[b][1].order
           /\ wire[b][1].order[2] <= wire[b][i + FrameSize].order[2]
      /\ UNCHANGED <<stage, strategy, nextOrderId, order, written, serving, cut, reported, torn>>
  BY <1>0, FrameTaken
<1>2. /\ wire[b][1].order \in torn /\ wire[b][FrameSize].order # wire[b][1].order
      /\ 1 \in 1 .. n /\ FrameSize \in 1 .. n /\ wire[b][1].at = 1
      /\ Start(b, FrameSize) \in 1 .. (FrameSize - 1)
      /\ Start(b, FrameSize) + FrameSize <= n /\ wire[b][FrameSize].order \notin torn =>
           /\ FrameSize + 1 \in 1 .. n
           /\ wire[b][FrameSize + 1].order = wire[b][FrameSize].order
  BY <1>0, GarbageBegins
<1>3. ASSUME NEW i \in 1 .. n
      PROVE  /\ wire[b][i].order \in Orders /\ wire[b][i].order[2] \in 1 .. MaxMade
             /\ wire[b][i].order = <<b, wire[b][i].order[2]>>
             /\ wire[b][i].order[2] < nextOrderId[b]
             /\ wire[b][i].at \in 1 .. FrameSize
  <2>1. wire[b][i].order \in Orders /\ wire[b][i].order[1] = b
        /\ wire[b][i].order[2] < nextOrderId[b] /\ wire[b][i].at \in 1 .. FrameSize
    BY <1>0, Bytes DEF Shape
  <2>2. \A o \in Orders : o = <<o[1], o[2]>> /\ o[2] \in 1 .. MaxMade
    BY DEF Orders
  <2>. QED BY <2>1, <2>2
<1>4. PICK m \in 1 .. MaxMade : wire[b][1].order = <<b, m>>
  BY <1>2, <1>3
<1>5. PICK q \in 1 .. MaxMade : wire[b][FrameSize].order = <<b, q>>
  BY <1>2, <1>3
<1>6. m < q /\ q < nextOrderId[b] /\ nextOrderId[b] \in Nat /\ <<b, m>> \in torn
  <2>1. m <= q
    <3>1. 1 < FrameSize
      BY FrameSizes
    <3>2. wire[b][1].order[2] <= wire[b][FrameSize].order[2]
      BY <1>0, <1>2, <3>1 DEF Shape
    <3>. QED BY <1>4, <1>5, <3>2
  <2>2. q # m
    BY <1>2, <1>4, <1>5
  <2>3. q < nextOrderId[b]
    BY <1>2, <1>3, <1>5
  <2>. QED BY <1>2, <1>4, <2>1, <2>2, <2>3 DEF Typed, BotTypeOK
<1>7. Behind(b)'
  <2>1. ASSUME NEW i \in 1 .. (n - FrameSize) PROVE m < wire'[b][i].order[2]
    <3>1. PICK j \in 1 .. n : j = i + FrameSize /\ wire'[b][i] = wire[b][j]
                              /\ wire[b][j].order # <<b, m>> /\ m <= wire[b][j].order[2]
      BY <1>1, <1>4
    <3>2. wire[b][j].order[2] # m /\ wire[b][j].order[2] \in Nat
      BY <1>3, <3>1
    <3>. QED BY <3>1, <3>2
  <2>. QED BY <1>1, <1>6, <2>1 DEF Behind
<1>8. ASSUME <<b, q>> \notin torn, ~Open(b, <<b, q>>)
      PROVE  FrameSize + 1 \in 1 .. n /\ wire[b][FrameSize + 1].order = <<b, q>>
  <2>1. Start(b, FrameSize) + FrameSize <= n
    BY <1>0, <1>2, <1>5, <1>8 DEF Frames
  <2>. QED BY <1>2, <1>5, <1>8, <2>1
<1>9. ASSUME NEW p \in Nat, q < p, OneTornBefore(b, p) PROVE <<b, q>> \notin torn
  BY <1>6, <1>9, TwoTorn
<1>10. Dead(b)'
  <2>1. ASSUME wire'[b] # <<>>, wire'[b][1].at = 1, OneTornBefore(b, wire'[b][1].order[2])
        PROVE  FALSE
    <3>1. 1 \in 1 .. (n - FrameSize)
      <4>1. wire'[b] \in Seq(ByteType)
        BY DEF Typed, BotTypeOK
      <4>. QED BY <1>1, <2>1, <4>1
    <3>2. PICK j \in 1 .. n : j = FrameSize + 1 /\ wire'[b][1] = wire[b][j]
      <4>1. 1 + FrameSize \in 1 .. n /\ wire'[b][1] = wire[b][1 + FrameSize]
        BY <1>1, <3>1
      <4>2. 1 + FrameSize = FrameSize + 1
        BY FrameSizes
      <4>. QED BY <4>1, <4>2
    <3>3. PICK p \in 1 .. MaxMade : wire[b][j].order = <<b, p>> /\ p < nextOrderId[b]
      BY <1>3
    <3>4. q <= p
      <4>1. FrameSize < j
        BY <3>2, FrameSizes
      <4>2. wire[b][FrameSize].order[2] <= wire[b][j].order[2]
        BY <1>0, <1>2, <4>1 DEF Shape
      <4>. QED BY <1>5, <3>3, <4>2
    <3>5. q # p
      <4>. SUFFICES ASSUME q = p PROVE FALSE
        OBVIOUS
      <4>1. Start(b, FrameSize) = Start(b, j)
        BY <1>0, <1>2, <1>5, <3>3 DEF Shape
      <4>2. Start(b, j) = FrameSize
        BY <2>1, <3>2, FrameSizes DEF Start
      <4>. QED BY <1>2, <4>1, <4>2, FrameSizes
    <3>6. q < p /\ OneTornBefore(b, p)
      BY <2>1, <3>2, <3>3, <3>4, <3>5
    <3>7. <<b, q>> \notin torn
      BY <1>9, <3>6
    <3>8. ~Open(b, <<b, q>>)
      <4>1. q # nextOrderId[b] - 1
        BY <1>6, <3>3, <3>6
      <4>2. order[b] # <<b, q>>
        <5>1. order[b] = <<b, nextOrderId[b] - 1>> \/ order[b] = NoOrder
          BY DEF Typed, Stages
        <5>2. <<b, q>> \in Orders
          BY DEF Orders
        <5>. QED BY <4>1, <5>1, <5>2
      <4>. QED BY <4>1, <4>2 DEF Open
    <3>. QED BY <1>8, <3>2, <3>3, <3>5, <3>7, <3>8
  <2>2. ASSUME wire'[b] = <<>>, strategy[b] = "send", written[b] \in {0, FrameSize},
               OneTornBefore(b, nextOrderId[b] - 1)
        PROVE  FALSE
    <3>1. n = FrameSize
      BY <1>1, <2>2, FrameSizes
    <3>2. /\ order[b] = <<b, nextOrderId[b] - 1>> /\ order[b][2] = nextOrderId[b] - 1
          /\ \A o \in Orders : Open(b, o) <=> o = order[b]
      <4>1. order[b] = <<b, nextOrderId[b] - 1>>
        BY <2>2 DEF Typed, Stages
      <4>. QED BY <2>2, <4>1, SendingFacts
    <3>3. <<b, q>> # order[b]
      <4>. SUFFICES ASSUME <<b, q>> = order[b] PROVE FALSE
        OBVIOUS
      <4>1. Start(b, FrameSize) = n - written[b]
        BY <1>0, <1>2, <1>5 DEF Frames
      <4>2. Start(b, FrameSize) \in {FrameSize, 0}
        BY <2>2, <3>1, <4>1, FrameSizes
      <4>. QED BY <1>2, <4>2, FrameSizes
    <3>4. q < nextOrderId[b] - 1 /\ nextOrderId[b] - 1 \in Nat
      BY <1>6, <3>2, <3>3
    <3>5. <<b, q>> \notin torn
      BY <1>9, <2>2, <3>4
    <3>6. ~Open(b, <<b, q>>)
      BY <3>2, <3>3 DEF Orders
    <3>. QED BY <1>8, <3>1, <3>5, <3>6, FrameSizes
  <2>3. ASSUME wire'[b] = <<>>, strategy[b] = "head", OneTornBefore(b, nextOrderId[b])
        PROVE  FALSE
    <3>1. n = FrameSize
      BY <1>1, <2>3, FrameSizes
    <3>2. order[b] = NoOrder /\ stage[b] # "ended"
      BY <2>3 DEF Typed, Stages
    <3>3. <<b, q>> \notin torn
      BY <1>6, <1>9, <2>3
    <3>4. <<b, q>> \in Orders /\ <<b, q>> # NoOrder
      BY DEF Orders
    <3>5. ~Open(b, <<b, q>>)
      BY <3>2, <3>4 DEF Open
    <3>. QED BY <1>8, <3>1, <3>3, <3>5, FrameSizes
  <2>4. ASSUME wire'[b] # <<>>, wire'[b][1].at = 1 PROVE ~OneTornBefore(b, wire[b][1].order[2])'
    BY <1>1, <2>1, <2>4 DEF OneTornBefore
  <2>5. ASSUME wire'[b] = <<>>, strategy[b] = "send", written[b] \in {0, FrameSize}
        PROVE  ~OneTornBefore(b, nextOrderId[b] - 1)'
    BY <1>1, <2>2, <2>5 DEF OneTornBefore
  <2>6. ASSUME wire'[b] = <<>>, strategy[b] = "head" PROVE ~OneTornBefore(b, nextOrderId[b])'
    BY <1>1, <2>3, <2>6 DEF OneTornBefore
  <2>. QED BY <1>1, <2>4, <2>5, <2>6 DEF Dead
<1>. QED BY <1>7, <1>10

LEMMA TakeGarbageStream ==
  ASSUME Typed, Typed', NEW b \in Bots, Numbers(b), Stream(b), ReadGarbage(b)
  PROVE  Stream(b)'
<1>0. PICK n \in Nat : n = Len(wire[b])
  BY Bytes
<1>1. /\ Shape(b) /\ Frames(b) /\ InStep(b) /\ Behind(b) /\ Dead(b)
      /\ TakenSent(b) /\ SentTaken(b) /\ NoneAfterOneTorn(b)
  BY DEF Stream
<1>2. /\ serving[b] /\ ~Whole(wire[b]) /\ PayloadRead(wire[b]) /\ TakeFrame(b)
      /\ taken' = taken /\ b \in garbage'
  BY DEF ReadGarbage
<1>3. /\ UNCHANGED <<stage, strategy, nextOrderId, order, written, serving, cut, reported, torn>>
      /\ 1 \in 1 .. n
  BY <1>0, <1>1, <1>2, FrameTaken
<1>4. Shape(b)' /\ Frames(b)'
  BY <1>1, <1>2, ShapeTaken
<1>5. InStep(b)'
  BY <1>2 DEF InStep
<1>6. Behind(b)' /\ Dead(b)'
  <2>1. CASE b \in garbage
    BY <1>1, <1>2, <2>1, DeadStays
  <2>2. CASE b \notin garbage
    BY <1>1, <1>2, <2>2, DeadBegins DEF InStep
  <2>. QED BY <2>1, <2>2
<1>7. TakenSent(b)'
  BY <1>1, <1>2, <1>3 DEF TakenSent
<1>8. SentTaken(b)'
  <2>. SUFFICES ASSUME NEW o \in reported \ taken, o[1] = b, InTransit(o)
                PROVE  TornBefore(o) # {}
    BY <1>1, <1>2, <1>3 DEF SentTaken, TornBefore
  <2>1. PICK i \in 1 .. n : wire[b][i].order = o
    <3>1. DOMAIN wire[b] = 1 .. n /\ 1 \in 1 .. FrameSize
      BY <1>0, Bytes, FrameSizes
    <3>2. PICK start \in 0 .. n : start + 1 \in 1 .. n /\ wire[b][start + 1] = Byte(o, 1)
      BY <1>0, <3>1 DEF InTransit
    <3>. QED BY <3>2 DEF Byte
  <2>2. o[2] \in 1 .. MaxMade
    BY <1>0, <2>1, Bytes
  <2>3. \E m \in 1 .. MaxMade : <<b, m>> \in torn /\ m < o[2]
    <3>1. CASE b \in garbage
      BY <1>0, <1>1, <2>1, <3>1 DEF Behind
    <3>2. CASE b \notin garbage
      <4>1. wire[b][1].order \in torn
        BY <1>1, <1>2, <3>2, HeadWhole DEF InStep
      <4>2. o # wire[b][1].order
        BY <4>1 DEF Numbers
      <4>3. wire[b][1].order \in Orders /\ o \in Orders /\ wire[b][1].order[1] = b
        BY <1>0, <1>1, <1>3, <2>1, Bytes DEF Shape
      <4>4. PICK m \in 1 .. MaxMade : wire[b][1].order = <<b, m>>
        BY <4>3 DEF Orders
      <4>5. m <= o[2]
        <5>1. i = 1 \/ 1 < i
          OBVIOUS
        <5>2. 1 < i => wire[b][1].order[2] <= wire[b][i].order[2]
          BY <1>0, <1>1, <1>3 DEF Shape
        <5>. QED BY <2>1, <4>2, <4>4, <5>1, <5>2
      <4>6. m # o[2]
        <5>1. o = <<b, o[2]>>
          BY <4>3 DEF Orders
        <5>. QED BY <4>2, <4>4, <5>1
      <4>. QED BY <2>2, <4>1, <4>4, <4>5, <4>6
    <3>. QED BY <3>1, <3>2
  <2>4. PICK m \in 1 .. MaxMade : <<b, m>> \in torn /\ m < o[2]
    BY <2>3
  <2>5. m \in 1 .. (o[2] - 1)
    BY <2>2, <2>4
  <2>. QED BY <2>4, <2>5 DEF TornBefore
<1>9. NoneAfterOneTorn(b)'
  BY <1>1, <1>2, <1>3 DEF NoneAfterOneTorn, OneTornBefore
<1>. QED BY <1>4, <1>5, <1>6, <1>7, <1>8, <1>9 DEF Stream

-------------------------------------------------------------------------------
(* Every step, for the bot that takes it and for the others.                *)

AllNumbers == \A b \in Bots : Numbers(b)
AllStreams == \A b \in Bots : Stream(b)

\* What a bot's order is: its own.
LEMMA OwnOrder ==
  ASSUME Typed, NEW b \in Bots, strategy[b] = "send"
  PROVE  order[b] \in Orders /\ order[b][1] = b
BY DEF Typed, Stages

LEMMA OwnHead ==
  ASSUME Typed, NEW b \in Bots, Shape(b), 1 <= Len(wire[b])
  PROVE  /\ wire[b][1].order \in Orders /\ wire[b][1].order[1] = b
         /\ wire[b][1].order[2] < nextOrderId[b] /\ wire[b][1].order \notin taken
<1>1. 1 \in 1 .. Len(wire[b])
  BY Bytes
<1>. QED BY <1>1, Bytes DEF Shape

LEMMA NumbersStep ==
  ASSUME Typed, Typed', AllNumbers, AllStreams, [Next]_vars
  PROVE  AllNumbers'
<1>. USE DEF mainVars, strategyVars, connectionVars, bookVars, sentVars
<1>0. reported \subseteq Orders /\ torn \subseteq Orders /\ taken \subseteq Orders
  BY DEF Typed, BotTypeOK
<1>1. ASSUME NEW b \in Bots, SendSucceeds(b) \/ SendFails(b) PROVE AllNumbers'
  <2>1. /\ strategy[b] = "send" /\ order' = [order EXCEPT ![b] = NoOrder]
        /\ UNCHANGED <<nextOrderId, taken>>
    BY <1>1 DEF SendSucceeds, SendFails, SendReturns
  <2>2. order[b] \in Orders /\ order[b][1] = b /\ order[b][2] < nextOrderId[b]
    BY <2>1 DEF Typed, BotTypeOK, Stages
  <2>3. \/ reported' = reported \cup {order[b]} /\ torn' = torn
        \/ reported' = reported /\ torn' \in {torn, torn \cup {order[b]}}
    BY <1>1 DEF SendSucceeds, SendFails
  <2>4. reported' \cap torn' = {}
    BY <2>3 DEF AllNumbers, Numbers
  <2>5. ASSUME NEW c \in Bots PROVE Numbers(c)'
    <3>1. \A o \in reported' \cup torn' \cup taken' : o[1] = c => o[2] < nextOrderId'[c]
      BY <2>1, <2>2, <2>3 DEF AllNumbers, Numbers
    <3>2. order'[c] \notin reported' \cup torn'
      <4>1. CASE c = b
        BY <1>0, <2>1, <2>2, <2>3, <4>1 DEF Typed, BotTypeOK
      <4>2. CASE c # b
        <5>1. order'[c] = order[c] /\ (order[c] = NoOrder \/ order[c][1] = c)
          BY <2>1, <4>2 DEF Typed, BotTypeOK, Stages
        <5>2. order[c] # order[b]
          BY <2>2, <4>2, <5>1
        <5>. QED BY <2>3, <5>1, <5>2 DEF AllNumbers, Numbers
      <4>. QED BY <4>1, <4>2
    <3>. QED BY <2>4, <3>1, <3>2 DEF Numbers
  <2>. QED BY <2>5 DEF AllNumbers
<1>2. ASSUME NEW b \in Bots, MakeRandomOrder(b) PROVE AllNumbers'
  <2>1. /\ order' = [order EXCEPT ![b] = <<b, nextOrderId[b]>>]
        /\ nextOrderId' = [nextOrderId EXCEPT ![b] = @ + 1]
        /\ UNCHANGED <<reported, torn, taken>>
    BY <1>2 DEF MakeRandomOrder
  <2>2. ASSUME NEW c \in Bots PROVE Numbers(c)'
    <3>1. nextOrderId[c] \in Nat /\ nextOrderId[c] <= nextOrderId'[c] /\ nextOrderId'[c] \in Nat
      <4>1. nextOrderId \in [Bots -> 1 .. (MaxMade + 1)]
        BY DEF Typed, BotTypeOK
      <4>2. nextOrderId[c] \in Nat
        BY <4>1
      <4>3. nextOrderId'[c] = IF c = b THEN nextOrderId[c] + 1 ELSE nextOrderId[c]
        BY <2>1, <4>1
      <4>. QED BY <4>2, <4>3
    <3>2. \A o \in reported \cup torn \cup taken :
            o[1] = c => o[2] \in Nat /\ o[2] < nextOrderId[c]
      BY <1>0 DEF AllNumbers, Numbers, Orders
    <3>3. \A o \in reported \cup torn \cup taken : o[1] = c => o[2] < nextOrderId'[c]
      BY <3>1, <3>2
    <3>4. order'[c] \notin reported \cup torn
      <4>1. CASE c = b
        <5>1. order'[c] = <<c, nextOrderId[c]>>
          BY <2>1, <4>1 DEF Typed, BotTypeOK
        <5>. QED BY <3>1, <3>2, <5>1
      <4>2. CASE c # b
        BY <2>1, <4>2 DEF AllNumbers, Numbers, Typed, BotTypeOK
      <4>. QED BY <4>1, <4>2
    <3>. QED BY <2>1, <3>3, <3>4 DEF AllNumbers, Numbers
  <2>. QED BY <2>2 DEF AllNumbers
<1>3. ASSUME NEW b \in Bots, Ends(b) PROVE AllNumbers'
  <2>1. /\ order' = [order EXCEPT ![b] = NoOrder]
        /\ UNCHANGED <<nextOrderId, reported, torn, taken>>
    BY <1>3 DEF Ends
  <2>. QED BY <1>0, <2>1 DEF AllNumbers, Numbers, Typed, BotTypeOK
<1>4. ASSUME NEW b \in Bots, ReadFrame(b) PROVE AllNumbers'
  <2>1. /\ taken' = taken \cup {wire[b][1].order}
        /\ UNCHANGED <<order, nextOrderId, reported, torn>>
    BY <1>4 DEF ReadFrame, TakeFrame
  <2>2. wire[b][1].order[1] = b /\ wire[b][1].order[2] < nextOrderId[b]
    <3>1. 1 <= Len(wire[b])
      BY <1>4, FrameSizes, Bytes DEF ReadFrame, Whole, PayloadRead
    <3>. QED BY <3>1, OwnHead DEF AllStreams, Stream
  <2>. QED BY <2>1, <2>2 DEF AllNumbers, Numbers
<1>5. ASSUME UNCHANGED <<order, nextOrderId, reported, torn, taken>> PROVE AllNumbers'
  BY <1>5 DEF AllNumbers, Numbers
<1>6. ASSUME NEW b \in Bots, Main(b) PROVE AllNumbers'
  BY <1>3, <1>5, <1>6 DEF Main, Connect, ConnectFails, StartFeed, StartStrategy, StopStrategy,
     JoinStrategy, JoinFeed, Disconnect, Die
<1>7. ASSUME NEW b \in Bots, Strategy(b) PROVE AllNumbers'
  BY <1>1, <1>2, <1>5, <1>7 DEF Strategy, StrategyReturns, SendBytes
<1>8. ASSUME NEW b \in Bots, Reads(b) \/ ConnectionBreaks(b) PROVE AllNumbers'
  BY <1>4, <1>5, <1>8 DEF Reads, ReadGarbage, TakeFrame, ReadBadHeader, ReadEnd,
     ConnectionBreaks, CloseConnection
<1>9. ASSUME \/ Fill \/ ServerStops \/ ServerStarts \/ UNCHANGED vars
             \/ \E v \in Views : Listening(FeedStep(v))
      PROVE  AllNumbers'
  BY <1>5, <1>9 DEF Fill, ServerStops, ServerStarts, Listening, vars
<1>. QED BY <1>6, <1>7, <1>8, <1>9 DEF Next

\* A step whose histories change by the orders of one bot only.
LEMMA OthersOrders ==
  ASSUME NEW b \in Bots, NEW c \in Bots, c # b, NEW o \in Orders, o[1] = b,
         \/ /\ reported' \in {reported, reported \cup {o}} /\ torn' \in {torn, torn \cup {o}}
            /\ taken' = taken
         \/ reported' = reported /\ torn' = torn /\ taken' = taken \cup {o}
  PROVE  SameOrders(c)
<1>1. \A p \in Orders : p[1] = c => p # o
  OBVIOUS
<1>. QED BY <1>1 DEF SameOrders

\* Given up for a reason: the connection went, or no frame was left on it.
LEMMA ClosedStream ==
  ASSUME Typed, Typed', NEW b \in Bots, Stream(b), ReadBadHeader(b) \/ ReadEnd(b) \/ ConnectionBreaks(b)
  PROVE  Stream(b)'
<1>1. CloseConnection(b) /\ cut \subseteq cut'
  BY DEF ReadBadHeader, ReadEnd, ConnectionBreaks
<1>2. Emptied(b)
  BY <1>1 DEF CloseConnection, Emptied, SameOrders, mainVars, strategyVars, bookVars, sentVars,
     Typed, BotTypeOK
<1>3. b \in cut' \/ \A o \in reported \ taken : o[1] = b => TornBefore(o) # {}
  <2>1. CASE ReadBadHeader(b) \/ ConnectionBreaks(b)
    BY <2>1 DEF ReadBadHeader, ConnectionBreaks
  <2>2. CASE ReadEnd(b)
    <3>1. ~BadHeader(wire[b]) /\ ~PayloadRead(wire[b])
      BY <2>2 DEF ReadEnd
    <3>2. Len(wire[b]) < FrameSize
      BY <3>1, FrameSizes, Bytes DEF BadHeader, PayloadRead
    <3>3. ASSUME NEW o \in Orders, o[1] = b PROVE ~InTransit(o)
      <4>. SUFFICES ASSUME InTransit(o) PROVE FALSE
        OBVIOUS
      <4>1. PICK start \in 0 .. Len(wire[b]) : start + FrameSize \in 1 .. Len(wire[b])
        <5>1. FrameSize \in 1 .. FrameSize /\ DOMAIN wire[b] = 1 .. Len(wire[b])
          BY FrameSizes, Bytes
        <5>. QED BY <3>3, <5>1 DEF InTransit
      <4>. QED BY <3>2, <4>1, FrameSizes, Bytes
    <3>. QED BY <1>1, <3>3 DEF Stream, SentTaken, Typed, BotTypeOK
  <2>. QED BY <2>1, <2>2
<1>. QED BY <1>2, <1>3, EmptiedStream

LEMMA FreshStreamNext == (Typed => \A b \in Bots : Fresh(b) => Stream(b))'
BY FreshStream, PTL

LEMMA MainStreams ==
  ASSUME Typed, Typed', AllNumbers, AllNumbers', AllStreams, NEW b \in Bots, Main(b)
  PROVE  AllStreams'
<1>. USE DEF mainVars, strategyVars, connectionVars, bookVars, sentVars
<1>0. ASSUME NEW c \in Bots, Kept(c) PROVE Stream(c)'
  BY <1>0, KeptStream DEF AllNumbers, AllStreams
<1>1. CASE Connect(b)
  <2>1. Fresh(b)'
    <3>1. nextOrderId[b] = 1 /\ wire[b] = <<>> /\ strategy[b] # "send"
      BY <1>1 DEF Connect, Typed, Stages
    <3>2. b \notin garbage
      <4>. SUFFICES ASSUME b \in garbage PROVE FALSE
        OBVIOUS
      <4>1. PICK m \in 1 .. MaxMade : <<b, m>> \in torn
        BY DEF AllStreams, Stream, Behind
      <4>2. m < 1
        BY <3>1, <4>1 DEF AllNumbers, Numbers
      <4>. QED BY <4>2
    <3>. QED BY <1>1, <3>1, <3>2 DEF Connect, Fresh, AllNumbers
  <2>2. Stream(b)'
    BY <2>1, FreshStreamNext
  <2>3. ASSUME NEW c \in Bots, c # b PROVE Kept(c)
    BY <1>1, <2>3 DEF Connect, GoesTo, Kept, SameOrders, Typed, BotTypeOK
  <2>. QED BY <1>0, <2>2, <2>3 DEF AllStreams
<1>2. CASE Disconnect(b) \/ Die(b)
  <2>1. Ends(b) /\ stage[b] # "ended"
    BY <1>2 DEF Disconnect, Die
  <2>2. Stream(b)'
    BY <2>1, EndsStream DEF AllNumbers, AllStreams
  <2>3. ASSUME NEW c \in Bots, c # b PROVE Kept(c)
    BY <2>1, <2>3 DEF Ends, GoesTo, Kept, SameOrders, Typed, BotTypeOK
  <2>. QED BY <1>0, <2>2, <2>3 DEF AllStreams
<1>3. CASE \/ ConnectFails(b) \/ StartFeed(b) \/ StartStrategy(b) \/ StopStrategy(b)
           \/ JoinStrategy(b) \/ JoinFeed(b)
  <2>1. /\ UNCHANGED <<nextOrderId, order, written, wire, serving, cut, reported, torn, taken, garbage>>
        /\ stage[b] # "ended"
        /\ stage' = stage \/ \E to : GoesTo(b, to)
    BY <1>3 DEF ConnectFails, StartFeed, StartStrategy, StopStrategy, JoinStrategy, JoinFeed, GoesTo
  <2>2. \/ strategy' = strategy
        \/ strategy' = [strategy EXCEPT ![b] = "none"]
        \/ strategy' = [strategy EXCEPT ![b] = "head"] /\ nextOrderId[b] = 1
    BY <1>3 DEF ConnectFails, StartFeed, StartStrategy, StopStrategy, JoinStrategy, JoinFeed,
       Typed, Stages
  <2>3. ASSUME NEW c \in Bots PROVE Kept(c)
    <3>1. stage[c] = "ended" => stage'[c] = "ended"
      BY <2>1 DEF GoesTo, Typed, BotTypeOK
    <3>2. /\ strategy'[c] = "send" => strategy[c] = "send"
          /\ strategy'[c] = "head" => strategy[c] = "head" \/ nextOrderId[c] = 1
      BY <2>2 DEF Typed, BotTypeOK
    <3>. QED BY <2>1, <3>1, <3>2 DEF Kept, SameOrders
  <2>. QED BY <1>0, <2>3 DEF AllStreams
<1>. QED BY <1>1, <1>2, <1>3 DEF Main

LEMMA StrategyStreams ==
  ASSUME Typed, Typed', AllNumbers, AllStreams, NEW b \in Bots, Strategy(b)
  PROVE  AllStreams'
<1>. USE DEF mainVars, strategyVars, connectionVars, bookVars, sentVars
<1>0. ASSUME NEW c \in Bots, Kept(c) PROVE Stream(c)'
  BY <1>0, KeptStream DEF AllNumbers, AllStreams
<1>1. CASE MakeRandomOrder(b)
  <2>1. Stream(b)'
    BY <1>1, MakeStream DEF AllNumbers, AllStreams
  <2>2. ASSUME NEW c \in Bots, c # b PROVE Kept(c)
    BY <1>1, <2>2 DEF MakeRandomOrder, Kept, SameOrders, Typed, BotTypeOK
  <2>. QED BY <1>0, <2>1, <2>2 DEF AllStreams
<1>2. CASE StrategyReturns(b)
  <2>1. ASSUME NEW c \in Bots PROVE Kept(c)
    BY <1>2 DEF StrategyReturns, Kept, SameOrders, Typed, BotTypeOK
  <2>. QED BY <1>0, <2>1 DEF AllStreams
<1>3. CASE SendBytes(b)
  <2>1. Stream(b)'
    BY <1>3, WriteStream, WriteNothing DEF AllNumbers, AllStreams
  <2>2. ASSUME NEW c \in Bots, c # b PROVE Kept(c)
    BY <1>3, <2>2 DEF SendBytes, Kept, SameOrders, Typed, BotTypeOK
  <2>. QED BY <1>0, <2>1, <2>2 DEF AllStreams
<1>4. CASE SendSucceeds(b) \/ SendFails(b)
  <2>1. Stream(b)'
    BY <1>4, SuccessStream, FailStream DEF AllNumbers, AllStreams
  <2>2. SendReturns(b) /\ order[b] \in Orders /\ order[b][1] = b
    BY <1>4, OwnOrder DEF SendSucceeds, SendFails, SendReturns
  <2>3. /\ reported' \in {reported, reported \cup {order[b]}}
        /\ torn' \in {torn, torn \cup {order[b]}} /\ taken' = taken
    BY <1>4, <2>2 DEF SendSucceeds, SendFails, SendReturns
  <2>4. ASSUME NEW c \in Bots, c # b PROVE Kept(c)
    <3>1. SameOrders(c)
      BY <2>2, <2>3, <2>4, OthersOrders
    <3>. QED BY <2>2, <2>4, <3>1 DEF SendReturns, Kept, Typed, BotTypeOK
  <2>. QED BY <1>0, <2>1, <2>4 DEF AllStreams
<1>. QED BY <1>1, <1>2, <1>3, <1>4 DEF Strategy

LEMMA ServerStreams ==
  ASSUME Typed, Typed', AllNumbers, AllStreams, NEW b \in Bots, Reads(b) \/ ConnectionBreaks(b)
  PROVE  AllStreams'
<1>. USE DEF mainVars, strategyVars, connectionVars, bookVars, sentVars
<1>0. ASSUME NEW c \in Bots, Kept(c) PROVE Stream(c)'
  BY <1>0, KeptStream DEF AllNumbers, AllStreams
<1>1. CASE ReadFrame(b)
  <2>1. Stream(b)'
    BY <1>1, TakeOrderStream DEF AllNumbers, AllStreams
  <2>2. wire[b][1].order \in Orders /\ wire[b][1].order[1] = b
    <3>1. 1 <= Len(wire[b])
      BY <1>1, FrameSizes, Bytes DEF ReadFrame, Whole, PayloadRead
    <3>. QED BY <3>1, OwnHead DEF AllStreams, Stream
  <2>3. /\ TakeFrame(b) /\ reported' = reported /\ torn' = torn
        /\ taken' = taken \cup {wire[b][1].order} /\ UNCHANGED garbage
    BY <1>1 DEF ReadFrame, TakeFrame
  <2>4. ASSUME NEW c \in Bots, c # b PROVE Kept(c)
    <3>1. SameOrders(c)
      BY <2>2, <2>3, <2>4, OthersOrders
    <3>. QED BY <2>3, <2>4, <3>1 DEF TakeFrame, Kept, Typed, BotTypeOK
  <2>. QED BY <1>0, <2>1, <2>4 DEF AllStreams
<1>2. CASE ReadGarbage(b)
  <2>1. Stream(b)'
    BY <1>2, TakeGarbageStream DEF AllNumbers, AllStreams
  <2>2. ASSUME NEW c \in Bots, c # b PROVE Kept(c)
    BY <1>2, <2>2 DEF ReadGarbage, TakeFrame, Kept, SameOrders, Typed, BotTypeOK
  <2>. QED BY <1>0, <2>1, <2>2 DEF AllStreams
<1>3. CASE ReadBadHeader(b) \/ ReadEnd(b) \/ ConnectionBreaks(b)
  <2>1. Stream(b)'
    BY <1>3, ClosedStream DEF AllStreams
  <2>2. CloseConnection(b) /\ cut \subseteq cut'
    BY <1>3 DEF ReadBadHeader, ReadEnd, ConnectionBreaks
  <2>3. ASSUME NEW c \in Bots, c # b PROVE Kept(c)
    BY <2>2, <2>3 DEF CloseConnection, Kept, SameOrders, Typed, BotTypeOK
  <2>. QED BY <1>0, <2>1, <2>3 DEF AllStreams
<1>. QED BY <1>1, <1>2, <1>3 DEF Reads

LEMMA StreamsStep ==
  ASSUME Typed, Typed', AllNumbers, AllNumbers', AllStreams, [Next]_vars
  PROVE  AllStreams'
<1>. USE DEF mainVars, strategyVars, connectionVars, bookVars, sentVars
<1>0. ASSUME NEW c \in Bots, Kept(c) PROVE Stream(c)'
  BY <1>0, KeptStream DEF AllNumbers, AllStreams
<1>1. CASE ServerStops
  <2>1. ASSUME NEW c \in Bots PROVE Stream(c)'
    <3>1. CASE serving[c]
      <4>1. Emptied(c) /\ c \in cut'
        BY <1>1, <3>1 DEF ServerStops, Emptied, SameOrders
      <4>. QED BY <4>1, EmptiedStream DEF AllStreams
    <3>2. CASE ~serving[c]
      <4>1. wire[c] = <<>>
        BY <3>2 DEF Typed, Stages
      <4>2. Kept(c)
        BY <1>1, <3>2, <4>1 DEF ServerStops, Kept, SameOrders, Typed, BotTypeOK
      <4>. QED BY <1>0, <4>2
    <3>. QED BY <3>1, <3>2
  <2>. QED BY <2>1 DEF AllStreams
<1>2. ASSUME \/ Fill \/ ServerStarts \/ UNCHANGED vars
             \/ \E v \in Views : Listening(FeedStep(v))
      PROVE  AllStreams'
  <2>1. UNCHANGED <<stage, strategy, nextOrderId, order, written, wire, serving, cut, reported, torn,
                    taken, garbage>>
    BY <1>2 DEF Fill, ServerStarts, Listening, vars
  <2>2. \A c \in Bots : Kept(c)
    BY <2>1 DEF Kept, SameOrders
  <2>. QED BY <1>0, <2>2 DEF AllStreams
<1>. QED BY <1>1, <1>2, MainStreams, StrategyStreams, ServerStreams DEF Next

-------------------------------------------------------------------------------
(* The book.                                                                *)

BookInv == Book /\ OnlyReusedIdsDropped

\* Two orders of one bot with one id are one order.
LEMMA IdsOfOneBot ==
  ASSUME NEW o \in Orders, NEW t \in Orders, o[1] = t[1], IdOf(o) = IdOf(t) PROVE o = t
<1>1. o[2] \in 0 .. (IdModulus - 1) /\ t[2] \in 0 .. (IdModulus - 1)
  BY DEF Orders
<1>2. \A n \in 0 .. (IdModulus - 1) : n % IdModulus = n
  OBVIOUS
<1>3. o[2] = t[2]
  BY <1>1, <1>2 DEF IdOf
<1>4. o = <<o[1], o[2]>> /\ t = <<t[1], t[2]>>
  BY DEF Orders
<1>. QED BY <1>3, <1>4

LEMMA BookStep ==
  ASSUME Typed, AllStreams, BookInv, [Next]_vars PROVE BookInv'
<1>. USE DEF mainVars, strategyVars, connectionVars, bookVars, sentVars
<1>0. taken \subseteq Orders /\ dropped \subseteq taken
  BY DEF Typed, BotTypeOK
<1>1. ASSUME resting' \subseteq resting, UNCHANGED <<source, taken, dropped, garbage>>
      PROVE  BookInv'
  BY <1>1 DEF BookInv, Book, OnlyReusedIdsDropped, IdOf
<1>2. ASSUME NEW b \in Bots, ReadFrame(b) PROVE BookInv'
  <2>. DEFINE h == wire[b][1].order
  <2>1. h \in Orders /\ h[1] = b /\ h \notin taken
    <3>1. 1 <= Len(wire[b])
      BY <1>2, FrameSizes, Bytes DEF ReadFrame, Whole, PayloadRead
    <3>. QED BY <3>1, OwnHead DEF AllStreams, Stream
  <2>2. /\ taken' = taken \cup {h} /\ resting' = resting \cup {IdOf(h)}
        /\ dropped' = (IF IdOf(h) \in resting THEN dropped \cup {h} ELSE dropped)
        /\ UNCHANGED <<garbage, source>>
    BY <1>2 DEF ReadFrame, TakeFrame
  <2>. HIDE DEF h
  <2>3. \A o : IdOf(o)' = IdOf(o)
    BY <2>2 DEF IdOf
  <2>4. Book'
    <3>. SUFFICES ASSUME NEW id \in resting', garbage = {}
                  PROVE  \E t \in taken' : IdOf(t) = id
      BY <2>2, <2>3 DEF Book
    <3>1. CASE id \in resting
      BY <2>2, <3>1 DEF BookInv, Book
    <3>2. CASE id = IdOf(h)
      BY <2>2, <3>2
    <3>. QED BY <2>2, <3>1, <3>2
  <2>5. OnlyReusedIdsDropped'
    <3>. SUFFICES ASSUME NEW o \in dropped', garbage = {}
                  PROVE  \E other \in taken' : other[1] # o[1] /\ IdOf(other) = IdOf(o)
      BY <2>2, <2>3 DEF OnlyReusedIdsDropped
    <3>1. CASE o \in dropped
      BY <2>2, <3>1 DEF BookInv, OnlyReusedIdsDropped
    <3>2. CASE o = h /\ IdOf(h) \in resting
      <4>1. PICK t \in taken : IdOf(t) = IdOf(h)
        BY <3>2 DEF BookInv, Book
      <4>2. t[1] # h[1]
        BY <1>0, <2>1, <4>1, IdsOfOneBot
      <4>. QED BY <2>2, <3>2, <4>1, <4>2
    <3>. QED BY <2>2, <3>1, <3>2
  <2>. QED BY <2>4, <2>5 DEF BookInv
<1>3. ASSUME NEW b \in Bots, ReadGarbage(b) PROVE BookInv'
  BY <1>3 DEF ReadGarbage, TakeFrame, BookInv, Book, OnlyReusedIdsDropped, IdOf
<1>4. ASSUME NEW b \in Bots, Main(b) PROVE BookInv'
  BY <1>1, <1>4 DEF Main, Connect, ConnectFails, StartFeed, StartStrategy, StopStrategy,
     JoinStrategy, JoinFeed, Disconnect, Die, Ends
<1>5. ASSUME NEW b \in Bots, Strategy(b) PROVE BookInv'
  BY <1>1, <1>5 DEF Strategy, MakeRandomOrder, StrategyReturns, SendBytes, SendSucceeds,
     SendFails, SendReturns
<1>6. ASSUME NEW b \in Bots, Reads(b) \/ ConnectionBreaks(b) PROVE BookInv'
  BY <1>1, <1>2, <1>3, <1>6 DEF Reads, ReadBadHeader, ReadEnd, ConnectionBreaks, CloseConnection
<1>7. ASSUME \/ Fill \/ ServerStops \/ ServerStarts \/ UNCHANGED vars
             \/ \E v \in Views : Listening(FeedStep(v))
      PROVE  BookInv'
  BY <1>1, <1>7 DEF Fill, ServerStops, ServerStarts, Listening, vars
<1>. QED BY <1>4, <1>5, <1>6, <1>7 DEF Next

-------------------------------------------------------------------------------
(* The theorems.                                                            *)

IInv == FeedInv /\ Typed /\ AllNumbers /\ AllStreams /\ BookInv

LEMMA InitInv == Init => IInv
<1>. SUFFICES ASSUME Init PROVE IInv
  OBVIOUS
<1>1. FeedInv
  BY FeedInitInv DEF Init
<1>2. Typed
  <2>1. /\ 0 \in 0 .. (MaxAttempts - 1) /\ 0 \in 0 .. FrameSize
        /\ 1 \in 1 .. (MaxMade + 1) /\ 0 \in 0 .. MaxMade /\ 0 \in 0 .. MaxServerStops
    BY FrameSizes
  <2>2. <<>> \in Seq(ByteType)
    OBVIOUS
  <2>3. BotTypeOK
    BY SMTT(60), <2>1, <2>2 DEF Init, BotTypeOK
  <2>4. \A b \in Bots : Stages(b)
    BY <2>1 DEF Init, Stages
  <2>. QED BY <2>3, <2>4 DEF Typed
<1>3. AllNumbers
  BY DEF Init, AllNumbers, Numbers
<1>4. AllStreams
  <2>1. \A b \in Bots : Fresh(b)
    BY <1>3 DEF Init, Fresh, AllNumbers
  <2>. QED BY <1>2, <2>1, FreshStream DEF AllStreams
<1>5. BookInv
  BY DEF Init, BookInv, Book, OnlyReusedIdsDropped
<1>. QED BY <1>1, <1>2, <1>3, <1>4, <1>5 DEF IInv

LEMMA InvStep == IInv /\ [Next]_vars => IInv'
<1>. SUFFICES ASSUME IInv, [Next]_vars PROVE IInv'
  OBVIOUS
<1>1. FeedInv'
  BY FeedInvStep DEF IInv
<1>2. Typed'
  BY TypedStep DEF IInv
<1>3. AllNumbers'
  BY <1>2, NumbersStep DEF IInv
<1>4. AllStreams'
  BY <1>2, <1>3, StreamsStep DEF IInv
<1>5. BookInv'
  BY BookStep DEF IInv
<1>. QED BY <1>1, <1>2, <1>3, <1>4, <1>5 DEF IInv

\* The invariant that the others follow from: in each stream the bytes of an order
\* agree on where its frame starts, orders follow one another, and only a torn frame
\* or the one being sent is not finished; frames are in step until the server takes
\* garbage, which begins with a torn one, and out of step behind that.
THEOREM Invariance == Spec => []IInv
<1>1. Init => IInv
  BY InitInv
<1>2. IInv /\ [Next]_vars => IInv'
  BY InvStep
<1>. QED BY <1>1, <1>2, PTL DEF Spec

\* Every variable of the bots, the server and the feed's listeners has its type.
THEOREM TypeCorrect == Spec => []TypeOK
<1>1. IInv => TypeOK
  BY TypesSplit DEF IInv, FeedInv, Typed
<1>. QED BY <1>1, Invariance, PTL

\* No thread is left to use a socket of its process after main() has closed it.
THEOREM SocketsOutliveThreadsHolds == Spec => []SocketsOutliveThreads
<1>1. IInv => SocketsOutliveThreads
  BY DEF IInv, FeedInv, FeedSockets, Typed, Stages, SocketsOutliveThreads
<1>. QED BY <1>1, Invariance, PTL

\* What becomes of an order: it is taken before send() has returned true only at the
\* end; what is no order is taken only from a torn stream; what was sent arrives
\* unless the connection goes or an earlier frame was torn; and the book ignores one
\* only if another bot of its source, or garbage, has used its id.
THEOREM OrderFateHolds == Spec => []OrderFate
<1>1. IInv => OrderFate
  <2>. SUFFICES ASSUME IInv PROVE OrderFate
    OBVIOUS
  <2>0. /\ taken \subseteq Orders /\ reported \subseteq Orders /\ garbage \subseteq Bots
        /\ \A o \in Orders : o[1] \in Bots
    BY DEF IInv, Typed, BotTypeOK, Orders
  <2>1. \A b \in Bots : Behind(b) /\ TakenSent(b) /\ SentTaken(b)
    BY DEF IInv, AllStreams, Stream
  <2>2. TakenAreSent
    <3>. SUFFICES ASSUME NEW o \in taken \ reported
                  PROVE  /\ o[2] = nextOrderId[o[1]] - 1
                         /\ \/ order[o[1]] = o /\ written[o[1]] = FrameSize
                            \/ stage[o[1]] = "ended"
      BY DEF TakenAreSent
    <3>1. o[1] \in Bots /\ TakenSent(o[1])
      BY <2>0, <2>1
    <3>. QED BY <3>1 DEF TakenSent
  <2>3. GarbageIsTorn
    BY <2>0, <2>1 DEF GarbageIsTorn, Behind
  <2>4. SentAreTaken
    <3>. SUFFICES ASSUME NEW o \in reported \ taken
                  PROVE  InTransit(o) \/ o[1] \in cut \/ TornBefore(o) # {}
      BY DEF SentAreTaken
    <3>1. o[1] \in Bots /\ SentTaken(o[1])
      BY <2>0, <2>1
    <3>. QED BY <3>1 DEF SentTaken
  <2>5. OnlyReusedIdsDropped
    BY DEF IInv, BookInv
  <2>. QED BY <2>2, <2>3, <2>4, <2>5 DEF OrderFate
<1>. QED BY <1>1, Invariance, PTL

\* Behind exactly one frame that was cut no order is taken: the connection is dead,
\* though the client goes on to send on it.
THEOREM DeadOnceTornHolds == Spec => []DeadOnceTorn
<1>1. IInv => DeadOnceTorn
  <2>. SUFFICES ASSUME IInv, NEW o \in taken, NEW n \in TornBefore(o), TornBefore(o) = {n}
                PROVE  FALSE
    BY DEF DeadOnceTorn
  <2>1. o \in Orders /\ o[1] \in Bots /\ o[2] \in 1 .. MaxMade
    BY DEF IInv, Typed, BotTypeOK, Orders
  <2>2. ~OneTornBefore(o[1], o[2])
    BY <2>1 DEF IInv, AllStreams, Stream, NoneAfterOneTorn
  <2>3. n \in 1 .. (o[2] - 1) /\ <<o[1], n>> \in torn
    BY DEF TornBefore
  <2>4. \A k \in 1 .. MaxMade : k < o[2] /\ <<o[1], k>> \in torn => k \in TornBefore(o)
    BY <2>1 DEF TornBefore
  <2>5. n \in 1 .. MaxMade /\ n < o[2]
    BY <2>1, <2>3
  <2>. QED BY <2>2, <2>3, <2>4, <2>5 DEF OneTornBefore
<1>. QED BY <1>1, Invariance, PTL
===============================================================================
