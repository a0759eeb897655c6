----------------------------- MODULE ServerProofs -----------------------------
(***************************************************************************)
(* Proofs about Server, for any number of shards, symbols, connections and *)
(* starts, any hash, and any capacity of the queues and rings.             *)
(*                                                                         *)
(* What stop() leaves behind follows from where the owner is and which     *)
(* threads that leaves (Stages, Threads); from following each order from   *)
(* accepted through queue, pump and shard to its book (Waiting, Routed,    *)
(* Complete); and from following each symbol's newest top of book from its *)
(* shard through the ring to the last quote (Numbered, Newest).            *)
(***************************************************************************)
EXTENDS Server, FiniteSetTheorems, SequenceTheorems, TLAPS

\* Where the owner is: the listener, the pump and the queue.
Stages ==
  /\ owner # "stopped" => starts > 0
  /\ listening <=> owner \in {"running", "listener"}
  /\ \A c \in Connections : holding[c] # NoSymbol => listening
  /\ pump = "none" <=> owner \in {"stopped", "shards", "feeds"}
  /\ pump \in {"none", "done"} => queue = <<>>
  /\ pump = "done" => closed
  /\ pump = "submit" <=> message # NoSymbol
  /\ closed => starts > 0
  /\ (closed /\ listening) \/ refused > 0 => starts > 1

\* The workers and the readers; one that has gone leaves nothing behind.
Threads ==
  /\ owner \in {"running", "listener", "pump"} => \A s \in Shards : worker[s] = "loop"
  /\ owner \in {"stopped", "feeds"} => \A s \in Shards : worker[s] = "none"
  /\ \A s \in Shards :
       /\ worker[s] # "loop" => \A before \in 0 .. (s - 1) : worker[before] = "none"
       /\ worker[s] = "none" => inbound[s] = <<>> /\ publishing[s] = <<>>
  /\ owner \notin {"stopped", "feeds"} => \A f \in Feeds : reader[f] = "loop"
  /\ owner = "stopped" => \A f \in Feeds : reader[f] = "none"
  /\ reader["trade"] # "loop" => reader["top"] = "none"
  /\ owner = "feeds" => reader["trade"] # "none"
  /\ \A f \in Feeds : reader[f] = "none" => RingsEmpty(f)

\* What is accepted and not stamped is in the pump's hands or queued behind it.
Waiting ==
  /\ Len(accepted) = stamped + Len(queue) + (IF pump = "submit" THEN 1 ELSE 0)
  /\ pump = "submit" => accepted[stamped + 1] = message
  /\ \A i \in DOMAIN queue : accepted[Len(accepted) - Len(queue) + i] = queue[i]
  /\ Received <= MaxOrders

\* What a shard has not read is for it, in order, and comes after what it has read.
Routed ==
  \A s \in Shards : \A i \in DOMAIN inbound[s] :
    LET order == inbound[s][i] IN
    /\ order.number <= stamped /\ accepted[order.number] = order.symbol
    /\ ShardFor(order.symbol) = s /\ done[order.symbol] < order.number
    /\ \A j \in DOMAIN inbound[s] : i < j => order.number < inbound[s][j].number

\* No order is lost on the way from the pump to its book.
Complete ==
  /\ \A symbol \in Symbols :
       done[symbol] > 0 => done[symbol] <= stamped /\ accepted[done[symbol]] = symbol
  /\ \A n \in 1 .. stamped :
       \/ done[accepted[n]] >= n
       \/ \E i \in DOMAIN inbound[ShardFor(accepted[n])] :
            inbound[ShardFor(accepted[n])][i].number = n

\* Updates are of orders that were processed, and each comes after those before it:
\* one to be pushed comes after those in the ring, and those after what was sent.
PushNumbered(s) ==
  \A i \in DOMAIN publishing[s] :
    LET update == publishing[s][i] IN
    /\ ShardFor(update.symbol) = s /\ update.number = done[update.symbol]
    /\ update.feed = "top" =>
         /\ inTurn[update.symbol] < update.number
         /\ \A j \in DOMAIN publishing[s] : publishing[s][j].feed = "top" => j = i
         /\ \A j \in DOMAIN ring["top"][s] :
              ring["top"][s][j].symbol = update.symbol =>
                ring["top"][s][j].number < update.number
RingNumbered(s) ==
  \A i \in DOMAIN ring["top"][s] :
    LET update == ring["top"][s][i] IN
    /\ ShardFor(update.symbol) = s
    /\ update.number <= done[update.symbol] /\ accepted[update.number] = update.symbol
    /\ inTurn[update.symbol] < update.number
    /\ \A j \in DOMAIN ring["top"][s] :
         i < j /\ ring["top"][s][j].symbol = update.symbol =>
           update.number < ring["top"][s][j].number
Numbered ==
  /\ \A symbol \in Symbols : inTurn[symbol] <= done[symbol]
  /\ \A s \in Shards : PushNumbered(s) /\ RingNumbered(s)

\* A symbol's newest top of book is the one its shard has still to push, or else the
\* last of its updates in the ring, or else the last quote, unless that was missed.
ToPush(symbol) ==
  {i \in DOMAIN publishing[ShardFor(symbol)] :
     LET update == publishing[ShardFor(symbol)][i] IN
     update.feed = "top" /\ update.symbol = symbol}
ToSend(symbol) ==
  {i \in DOMAIN ring["top"][ShardFor(symbol)] :
     ring["top"][ShardFor(symbol)][i].symbol = symbol}

NewestOf(symbol) ==
  /\ \A i \in ToPush(symbol) : publishing[ShardFor(symbol)][i].top = last[symbol]
  /\ ToPush(symbol) = {} =>
       /\ \A i \in ToSend(symbol) :
            (\A j \in ToSend(symbol) : j <= i) =>
              ring["top"][ShardFor(symbol)][i].top = last[symbol]
       /\ ToSend(symbol) = {} => symbol \in missed \/ quote[symbol].top = last[symbol]
Newest == \A symbol \in Symbols : NewestOf(symbol)

IInv ==
  /\ TypeOK /\ Stages /\ Threads
  /\ Waiting /\ Routed /\ Complete /\ Numbered /\ Newest

USE SymbolsAssumption, ShardsAssumption, TopsAssumption, BoundsAssumption, ConnectionsAssumption

-------------------------------------------------------------------------------
(* Sequences, shards and the number of orders received.                     *)

LEMMA HeadAndTail ==
  ASSUME NEW T, NEW q \in Seq(T), q # <<>>
  PROVE  /\ Len(q) \in Nat \ {0} /\ Head(q) = q[1] /\ q[1] \in T
         /\ Tail(q) \in Seq(T) /\ Len(Tail(q)) = Len(q) - 1
         /\ DOMAIN Tail(q) = 1 .. (Len(q) - 1)
         /\ \A i \in 1 .. (Len(q) - 1) : Tail(q)[i] = q[i + 1] /\ i + 1 \in DOMAIN q
OBVIOUS

LEMMA Appending ==
  ASSUME NEW T, NEW q \in Seq(T), NEW x \in T
  PROVE  /\ Append(q, x) \in Seq(T) /\ Len(Append(q, x)) = Len(q) + 1
         /\ DOMAIN Append(q, x) = 1 .. (Len(q) + 1)
         /\ \A i \in 1 .. Len(q) : Append(q, x)[i] = q[i]
         /\ Append(q, x)[Len(q) + 1] = x
OBVIOUS

LEMMA Pair ==
  ASSUME NEW T, NEW a \in T, NEW b \in T
  PROVE  LET pair == <<a>> \o <<b>> IN
         pair \in Seq(T) /\ DOMAIN pair = {1, 2} /\ pair[1] = a /\ pair[2] = b
<1>. DEFINE pair == <<a>> \o <<b>>
<1>1. /\ <<a>> \in Seq(T) /\ Len(<<a>>) = 1 /\ <<a>>[1] = a
      /\ <<b>> \in Seq(T) /\ Len(<<b>>) = 1 /\ <<b>>[1] = b
  OBVIOUS
<1>2. /\ pair \in Seq(T) /\ Len(pair) = 2
      /\ pair[1] = a /\ pair[2] = b
  BY <1>1, ConcatProperties
<1>. HIDE DEF pair
<1>3. DOMAIN pair = {1, 2}
  BY <1>2
<1>. QED BY <1>2, <1>3 DEF pair

LEMMA EveryShard == \A symbol \in Symbols : ShardFor(symbol) \in Shards
BY DEF ShardFor, Shards

Holders == {c \in Connections : holding[c] # NoSymbol}

\* Received counts what is accepted, what is refused, and what is being handed over.
LEMMA ReceivedParts ==
  ASSUME TypeOK
  PROVE  /\ Received = Len(accepted) + refused + Cardinality(Holders)
         /\ Cardinality(Holders) \in Nat /\ Received \in Nat /\ IsFiniteSet(Holders)
<1>1. IsFiniteSet(Holders)
  BY FS_Subset DEF Holders
<1>2. Cardinality(Holders) \in Nat
  BY <1>1, FS_CardinalityType
<1>3. Len(accepted) \in Nat /\ refused \in Nat
  BY DEF TypeOK
<1>. QED BY <1>1, <1>2, <1>3 DEF Received, Holders

LEMMA ReceivedByReceive ==
  ASSUME TypeOK, NEW c \in Connections, Receive(c)
  PROVE  Received' = Received + 1 /\ Received < MaxOrders
<1>1. holding[c] = NoSymbol /\ holding'[c] # NoSymbol
      /\ \A d \in Connections : d # c => holding'[d] = holding[d]
  BY DEF Receive, TypeOK
<1>2. Holders' = Holders \cup {c} /\ c \notin Holders
  BY <1>1 DEF Holders
<1>3. Cardinality(Holders') = Cardinality(Holders) + 1
  BY <1>2, ReceivedParts, FS_AddElement
<1>4. Received' = Len(accepted) + refused + Cardinality(Holders')
  BY DEF Received, Receive, Holders
<1>5. Len(accepted) \in Nat /\ refused \in Nat
  BY DEF TypeOK
<1>. QED BY <1>3, <1>4, <1>5, ReceivedParts DEF Receive

LEMMA ReceivedByPush ==
  ASSUME TypeOK, NEW c \in Connections, Push(c)
  PROVE  Received' = Received /\ Len(accepted) < Received /\ refused < Received
<1>1. holding[c] # NoSymbol /\ holding[c] \in Symbols /\ holding'[c] = NoSymbol
      /\ \A d \in Connections : d # c => holding'[d] = holding[d]
  BY DEF Push, TypeOK
<1>2. Holders' = Holders \ {c} /\ c \in Holders
  BY <1>1 DEF Holders
<1>3. Cardinality(Holders') = Cardinality(Holders) - 1
  BY <1>2, ReceivedParts, FS_RemoveElement
<1>4. Cardinality(Holders') \in Nat
  BY <1>2, ReceivedParts, FS_RemoveElement, FS_CardinalityType
<1>5. Len(accepted) \in Nat /\ refused \in Nat
  BY DEF TypeOK
<1>6. Len(accepted') + refused' = Len(accepted) + refused + 1
  <2>1. Len(Append(accepted, holding[c])) = Len(accepted) + 1
    BY <1>1, Appending DEF TypeOK
  <2>2. \/ accepted' = Append(accepted, holding[c]) /\ refused' = refused
        \/ accepted' = accepted /\ refused' = refused + 1
    BY DEF Push
  <2>. QED BY <1>5, <2>1, <2>2
<1>7. Received' = Len(accepted') + refused' + Cardinality(Holders')
  BY DEF Received, Holders
<1>8. Len(accepted') \in Nat /\ refused' \in Nat
  <2>1. accepted' \in Seq(Symbols)
    <3>1. accepted' \in {accepted, Append(accepted, holding[c])}
      BY DEF Push
    <3>2. accepted \in Seq(Symbols) /\ Append(accepted, holding[c]) \in Seq(Symbols)
      BY <1>1, Appending DEF TypeOK
    <3>. QED BY <3>1, <3>2
  <2>2. refused' \in Nat
    BY <1>5 DEF Push
  <2>. QED BY <2>1, <2>2
<1>. QED BY SMTT(40), <1>3, <1>4, <1>5, <1>6, <1>7, <1>8, ReceivedParts

-------------------------------------------------------------------------------
(* The owner.                                                               *)

dataVars == <<holding, queue, accepted, refused, message, stamped, inbound, publishing, last,
              done, ring, quote, inTurn, missed>>

LEMMA OwnerMoves ==
  ASSUME Stages, Start \/ Stop \/ Stopping
  PROVE  UNCHANGED dataVars /\ (pump' = "submit" <=> pump = "submit")
<1>. USE DEF dataVars, entryVars, engineVars, feedVars
<1>1. CASE Start
  BY <1>1 DEF Start, Stages
<1>2. CASE Stop \/ StopListener \/ CloseQueue
  BY <1>2 DEF Stop, StopListener, CloseQueue
<1>3. CASE JoinPump
  BY <1>3 DEF JoinPump
<1>4. ASSUME NEW s \in Shards, StoppingShard(s)
      PROVE  UNCHANGED dataVars /\ (pump' = "submit" <=> pump = "submit")
  BY <1>4 DEF StoppingShard, StopWorker, JoinWorker, Drained, WorkerStep
<1>5. CASE StopSubscriber \/ StopTradeReader
  BY <1>5 DEF StopSubscriber, StopTradeReader, ReaderStep
<1>. QED BY <1>1, <1>2, <1>3, <1>4, <1>5 DEF Stopping

\* Such a step leaves every order and every update where it is.
LEMMA DataKept ==
  ASSUME UNCHANGED dataVars, pump' = "submit" <=> pump = "submit"
  PROVE  /\ Waiting => Waiting'
         /\ Routed => Routed'
         /\ Complete => Complete'
         /\ Numbered => Numbered'
         /\ Newest => Newest'
<1>. USE DEF dataVars
<1>1. Waiting => Waiting'
  BY DEF Waiting, Received
<1>2. Routed => Routed'
  BY DEF Routed
<1>3. Complete => Complete'
  BY DEF Complete
<1>4. Numbered => Numbered'
  BY DEF Numbered, PushNumbered, RingNumbered
<1>5. Newest => Newest'
  BY DEF Newest, NewestOf, ToPush, ToSend
<1>. QED BY <1>1, <1>2, <1>3, <1>4, <1>5

Controlled == TypeOK /\ Stages /\ Threads

LEMMA OwnerControlled == ASSUME Controlled, Start \/ Stop \/ Stopping PROVE Controlled'
<1>. USE DEF Controlled
<1>1. UNCHANGED dataVars
  BY OwnerMoves
<1>2. CASE Start
  <2>1. (starts' \in 0 .. MaxStarts /\ starts' > 1) \/ (starts = 0 /\ starts' = 1)
    BY <1>2 DEF Start, TypeOK
  <2>2. worker' \in [Shards -> ThreadStates] /\ reader' \in [Feeds -> ThreadStates]
    BY <1>2 DEF Start, ThreadStates
  <2>3. listening' \in BOOLEAN /\ owner' \in {"running", "pump"} /\ pump' = "pop"
        /\ closed' = closed
    BY <1>2 DEF Start
  <2>4. starts' \in 0 .. MaxStarts
    BY <1>2 DEF Start, TypeOK
  <2>5. TypeOK'
    BY <1>1, <2>2, <2>3, <2>4 DEF TypeOK, dataVars
  <2>6. Stages'
    BY <1>1, <1>2, <2>1 DEF Start, Stages, dataVars
  <2>7. Threads'
    <3>1. /\ \A s \in Shards : worker'[s] = "loop"
          /\ \A f \in Feeds : reader'[f] = "loop"
      BY <1>2 DEF Start
    <3>2. reader'["trade"] = "loop"
      BY <3>1 DEF Feeds
    <3>. QED BY <2>3, <3>1, <3>2 DEF Threads
  <2>. QED BY <2>5, <2>6, <2>7
<1>3. CASE Stop \/ StopListener \/ CloseQueue
  <2>. USE <1>3 DEF Stop, StopListener, CloseQueue, After, entryVars, engineVars, feedVars
  <2>1. TypeOK'
    BY DEF TypeOK
  <2>2. Stages'
    BY DEF Stages
  <2>3. Threads'
    BY DEF Threads, RingsEmpty
  <2>. QED BY <2>1, <2>2, <2>3
<1>4. CASE JoinPump
  <2>. USE <1>4 DEF JoinPump, After, entryVars, engineVars, feedVars
  <2>1. TypeOK'
    BY DEF TypeOK
  <2>2. Stages'
    BY DEF Stages
  <2>3. Threads'
    BY DEF Threads, RingsEmpty
  <2>. QED BY <2>1, <2>2, <2>3
<1>5. ASSUME NEW s \in Shards, StoppingShard(s) PROVE Controlled'
  <2>1. PICK from \in ThreadStates, to \in ThreadStates :
          /\ WorkerStep(s, from, to)
          /\ from # "none" /\ to # "loop"
          /\ to = "none" => publishing[s] = <<>> /\ inbound[s] = <<>>
    BY <1>5 DEF StoppingShard, StopWorker, JoinWorker, Drained, ThreadStates
  <2>. USE <2>1 DEF WorkerStep, After, entryVars, feedVars
  <2>2. owner' = owner \/ (owner' = "feeds" /\ to = "none" /\ s = ShardCount - 1)
    OBVIOUS
  <2>3. worker'[s] = to /\ \A t \in Shards : t # s => worker'[t] = worker[t]
    BY DEF TypeOK
  <2>4. TypeOK'
    <3>1. worker' \in [Shards -> ThreadStates]
      BY DEF TypeOK
    <3>. QED BY <2>2, <3>1 DEF TypeOK
  <2>5. Stages'
    BY <2>2 DEF Stages
  <2>6. \A t \in Shards : t > s => worker[t] = "loop"
    BY DEF Threads, Shards
  <2>7. \A t \in Shards :
          /\ worker'[t] # "loop" => \A before \in 0 .. (t - 1) : worker'[before] = "none"
          /\ worker'[t] = "none" => inbound'[t] = <<>> /\ publishing'[t] = <<>>
    BY <2>3, <2>6 DEF Threads, Shards
  <2>8. owner' = "feeds" => \A t \in Shards : worker'[t] = "none"
    BY <2>2, <2>3 DEF Shards
  <2>9. Threads'
    <3>1. UNCHANGED <<reader, ring>> /\ owner = "shards"
      OBVIOUS
    <3>2. /\ reader'["trade"] # "loop" => reader'["top"] = "none"
          /\ \A f \in Feeds : reader'[f] = "none" => RingsEmpty(f)'
          /\ \A f \in Feeds : reader'[f] = "loop"
      BY <3>1 DEF Threads, RingsEmpty
    <3>3. reader'["trade"] = "loop"
      BY <3>2 DEF Feeds
    <3>. QED BY <2>2, <2>7, <2>8, <3>1, <3>2, <3>3 DEF Threads
  <2>. QED BY <2>4, <2>5, <2>9
<1>6. CASE StopSubscriber \/ StopTradeReader
  <2>1. PICK f \in Feeds, from \in ThreadStates, to \in ThreadStates :
          /\ ReaderStep(f, from, to)
          /\ from # "none" /\ to # "loop"
          /\ to = "none" => RingsEmpty(f)
    BY <1>6 DEF StopSubscriber, StopTradeReader, ThreadStates, Feeds
  <2>. USE <2>1 DEF ReaderStep, After, entryVars, engineVars
  <2>2. owner' = owner \/ (owner' = "stopped" /\ to = "none" /\ f = "trade")
    OBVIOUS
  <2>3. reader'[f] = to /\ \A g \in Feeds : g # f => reader'[g] = reader[g]
    BY DEF TypeOK
  <2>4. TypeOK'
    <3>1. reader' \in [Feeds -> ThreadStates]
      BY DEF TypeOK
    <3>. QED BY <2>2, <3>1 DEF TypeOK
  <2>5. Stages'
    BY <2>2 DEF Stages
  <2>6. \A g \in Feeds : reader'[g] = "none" => RingsEmpty(g)'
    BY <2>3 DEF Threads, RingsEmpty
  <2>7. reader'["trade"] # "loop" => reader'["top"] = "none"
    BY <2>3 DEF Threads, Feeds
  <2>8. owner' = "feeds" => reader'["trade"] # "none"
    BY <2>2, <2>3 DEF Threads, Feeds
  <2>9. owner' = "stopped" => \A g \in Feeds : reader'[g] = "none"
    BY <2>2, <2>3 DEF Threads, Feeds
  <2>. QED BY <2>2, <2>4, <2>5, <2>6, <2>7, <2>8, <2>9 DEF Threads
<1>. QED BY <1>2, <1>3, <1>4, <1>5, <1>6 DEF Stopping

-------------------------------------------------------------------------------
(* The connections and the pump.                                            *)

Placed == Waiting /\ Routed /\ Complete /\ Numbered /\ Newest

\* What the entries of the sequences are.
LEMMA Entries ==
  ASSUME TypeOK, NEW s \in Shards
  PROVE  /\ inbound[s] \in Seq(OrderType) /\ publishing[s] \in Seq(UpdateType)
         /\ ring["top"][s] \in Seq(UpdateType)
         /\ \A i \in DOMAIN inbound[s] :
              inbound[s][i].symbol \in Symbols /\ inbound[s][i].number \in Nat \ {0}
         /\ \A i \in DOMAIN publishing[s] :
              publishing[s][i].symbol \in Symbols /\ publishing[s][i].number \in Nat \ {0}
         /\ \A i \in DOMAIN ring["top"][s] :
              ring["top"][s][i].symbol \in Symbols /\ ring["top"][s][i].number \in Nat \ {0}
<1>1. inbound[s] \in Seq(OrderType) /\ publishing[s] \in Seq(UpdateType)
      /\ ring["top"][s] \in Seq(UpdateType)
  BY DEF TypeOK, Feeds
<1>2. /\ \A i \in DOMAIN inbound[s] : inbound[s][i] \in OrderType
      /\ \A i \in DOMAIN publishing[s] : publishing[s][i] \in UpdateType
      /\ \A i \in DOMAIN ring["top"][s] : ring["top"][s][i] \in UpdateType
  BY <1>1
<1>3. \A o \in OrderType : o.symbol \in Symbols /\ o.number \in Nat \ {0}
  BY DEF OrderType
<1>4. \A u \in UpdateType : u.symbol \in Symbols /\ u.number \in Nat \ {0}
  BY DEF UpdateType
<1>. QED BY <1>1, <1>2, <1>3, <1>4

\* Orders accepted behind the others change nothing for those before.
LEMMA AcceptedGrows ==
  ASSUME TypeOK, Waiting, Routed, Complete, Numbered,
         \A n \in DOMAIN accepted : accepted'[n] = accepted[n],
         UNCHANGED <<stamped, inbound, done, publishing, ring, inTurn>>
  PROVE  Routed' /\ Complete' /\ Numbered'
<1>1. stamped \in Nat /\ stamped <= Len(accepted) /\ Len(accepted) \in Nat
      /\ DOMAIN accepted = 1 .. Len(accepted)
  BY DEF TypeOK, Waiting
<1>2. \A n \in 1 .. stamped : accepted'[n] = accepted[n]
  BY <1>1
<1>3. \A symbol \in Symbols : done[symbol] \in Nat /\ done[symbol] <= stamped
  BY <1>1 DEF TypeOK, Complete
<1>4. Routed'
  <2>1. \A s \in Shards : \A i \in DOMAIN inbound[s] : inbound[s][i].number \in 1 .. stamped
    BY <1>1, Entries DEF Routed
  <2>. QED BY <1>2, <2>1 DEF Routed
<1>5. Complete'
  <2>1. \A symbol \in Symbols : done[symbol] > 0 => done[symbol] \in 1 .. stamped
    BY <1>3
  <2>2. \A symbol \in Symbols :
          done'[symbol] > 0 => done'[symbol] <= stamped' /\ accepted'[done'[symbol]] = symbol
    BY <1>2, <2>1 DEF Complete
  <2>3. ASSUME NEW n \in 1 .. stamped
        PROVE  \/ done[accepted'[n]] >= n
               \/ \E i \in DOMAIN inbound[ShardFor(accepted'[n])] :
                    inbound[ShardFor(accepted'[n])][i].number = n
    BY <1>2 DEF Complete
  <2>. QED BY <2>2, <2>3 DEF Complete, ShardFor
<1>6. Numbered'
  <2>1. ASSUME NEW s \in Shards, NEW i \in DOMAIN ring["top"][s]
        PROVE  ring["top"][s][i].number \in 1 .. stamped
    <3>. DEFINE update == ring["top"][s][i]
    <3>1. update.symbol \in Symbols /\ update.number \in Nat \ {0}
      BY Entries
    <3>2. update.number <= done[update.symbol]
      BY DEF Numbered, PushNumbered, RingNumbered
    <3>. HIDE DEF update
    <3>3. update.number \in 1 .. stamped
      BY <1>1, <1>3, <3>1, <3>2
    <3>. QED BY <3>3 DEF update
  <2>. QED BY <1>2, <2>1 DEF Numbered, PushNumbered, RingNumbered
<1>. QED BY <1>4, <1>5, <1>6

LEMMA ReceiveStep ==
  ASSUME Controlled, Placed, NEW c \in Connections, Receive(c)
  PROVE  Controlled' /\ Placed'
<1>. USE DEF Controlled, Placed, engineVars, feedVars
<1>1. TypeOK'
  BY ZenonT(60) DEF Receive, TypeOK
<1>2. Stages'
  BY DEF Receive, Stages, TypeOK
<1>3. Threads'
  BY DEF Receive, Threads, RingsEmpty
<1>4. Waiting'
  <2>1. Received' <= MaxOrders
    BY ReceivedByReceive, ReceivedParts
  <2>. QED BY <2>1 DEF Receive, Waiting
<1>5. Routed' /\ Complete' /\ Numbered'
  BY AcceptedGrows DEF Receive
<1>6. Newest'
  BY DEF Receive, Newest, NewestOf, ToPush, ToSend
<1>. QED BY <1>1, <1>2, <1>3, <1>4, <1>5, <1>6

LEMMA PushStep ==
  ASSUME Controlled, Placed, NEW c \in Connections, Push(c)
  PROVE  Controlled' /\ Placed'
<1>. USE DEF Controlled, Placed, engineVars, feedVars
<1>1. holding[c] \in Symbols /\ listening
  BY DEF Push, TypeOK, Stages
<1>2. /\ Append(queue, holding[c]) \in Seq(Symbols)
      /\ Len(Append(queue, holding[c])) = Len(queue) + 1
      /\ Append(accepted, holding[c]) \in Seq(Symbols)
      /\ Len(Append(accepted, holding[c])) = Len(accepted) + 1
      /\ Len(queue) \in Nat /\ Len(accepted) \in Nat /\ refused \in Nat
  BY <1>1, Appending DEF TypeOK
<1>3. Received' = Received /\ refused < Received /\ Received <= MaxOrders
  BY ReceivedByPush DEF Waiting
<1>4. TypeOK'
  <2>1. holding' \in [Connections -> Symbols \cup {NoSymbol}]
    BY DEF Push, TypeOK
  <2>2. queue' \in Seq(Symbols) /\ Len(queue') <= QueueCapacity /\ accepted' \in Seq(Symbols)
    <3>1. \/ UNCHANGED <<queue, accepted>>
          \/ /\ Len(queue) < QueueCapacity
             /\ queue' = Append(queue, holding[c]) /\ accepted' = Append(accepted, holding[c])
      BY DEF Push
    <3>2. Len(queue) < QueueCapacity => Len(queue) + 1 <= QueueCapacity
      BY <1>2
    <3>3. queue \in Seq(Symbols) /\ Len(queue) <= QueueCapacity /\ accepted \in Seq(Symbols)
      BY DEF TypeOK
    <3>. QED BY <1>2, <3>1, <3>2, <3>3
  <2>3. refused' \in 0 .. MaxOrders
    <3>1. Received \in Nat /\ MaxOrders \in Nat
      BY ReceivedParts
    <3>2. refused' \in {refused, refused + 1}
      BY DEF Push
    <3>. QED BY <1>2, <1>3, <3>1, <3>2
  <2>. QED BY <2>1, <2>2, <2>3 DEF Push, TypeOK
<1>5. Stages'
  BY <1>1 DEF Push, Stages, TypeOK
<1>6. Threads'
  BY DEF Push, Threads, RingsEmpty
<1>7. Waiting'
  <2>1. CASE UNCHANGED <<queue, accepted>>
    BY <1>3, <2>1 DEF Push, Waiting
  <2>2. CASE queue' = Append(queue, holding[c]) /\ accepted' = Append(accepted, holding[c])
    <3>1. /\ Len(accepted') = Len(accepted) + 1 /\ Len(queue') = Len(queue) + 1
          /\ DOMAIN queue = 1 .. Len(queue) /\ DOMAIN queue' = 1 .. (Len(queue) + 1)
          /\ \A i \in 1 .. Len(accepted) : accepted'[i] = accepted[i]
          /\ \A i \in 1 .. Len(queue) : queue'[i] = queue[i]
          /\ accepted'[Len(accepted) + 1] = holding[c]
          /\ queue'[Len(queue) + 1] = holding[c]
      BY <1>1, <2>2, Appending DEF TypeOK
    <3>2. UNCHANGED <<stamped, pump, message>> /\ stamped \in Nat
      BY DEF Push, TypeOK
    <3>3. pump' = "submit" => accepted'[stamped' + 1] = message'
      <4>1. pump = "submit" => stamped + 1 \in 1 .. Len(accepted)
        BY <1>2, <3>2 DEF Waiting
      <4>. QED BY <3>1, <3>2, <4>1 DEF Waiting
    <3>4. ASSUME NEW i \in DOMAIN queue'
          PROVE  accepted'[Len(accepted') - Len(queue') + i] = queue'[i]
      <4>1. Len(accepted') - Len(queue') = Len(accepted) - Len(queue)
            /\ Len(queue) <= Len(accepted)
        BY <1>2, <3>1, <3>2 DEF Waiting
      <4>2. CASE i = Len(queue) + 1
        <5>1. Len(accepted) - Len(queue) + i = Len(accepted) + 1
          BY <1>2, <4>2
        <5>. QED BY <3>1, <4>1, <4>2, <5>1
      <4>3. CASE i \in 1 .. Len(queue)
        <5>1. Len(accepted) - Len(queue) + i \in 1 .. Len(accepted)
          BY <1>2, <4>1, <4>3
        <5>. QED BY <3>1, <4>1, <4>3, <5>1 DEF Waiting
      <4>. QED BY <1>2, <3>1, <4>2, <4>3
    <3>5. Len(accepted') = stamped' + Len(queue') + (IF pump' = "submit" THEN 1 ELSE 0)
      BY <1>2, <3>1, <3>2 DEF Waiting
    <3>. QED BY <1>3, <3>3, <3>4, <3>5 DEF Waiting
  <2>. QED BY <2>1, <2>2 DEF Push
<1>8. Routed' /\ Complete' /\ Numbered'
  <2>1. \A n \in DOMAIN accepted : accepted'[n] = accepted[n]
    <3>1. accepted' \in {accepted, Append(accepted, holding[c])}
      BY DEF Push
    <3>2. accepted \in Seq(Symbols) /\ DOMAIN accepted = 1 .. Len(accepted)
      BY DEF TypeOK
    <3>. QED BY <1>1, <3>1, <3>2, Appending
  <2>. QED BY <2>1, AcceptedGrows DEF Push
<1>9. Newest'
  BY DEF Push, Newest, NewestOf, ToPush, ToSend
<1>. QED BY <1>4, <1>5, <1>6, <1>7, <1>8, <1>9

LEMMA PopStep == ASSUME Controlled, Placed, Pop PROVE Controlled' /\ Placed'
<1>. USE DEF Controlled, Placed, entryVars, engineVars, feedVars
<1>1. CASE queue = <<>> /\ closed /\ pump' = "done" /\ UNCHANGED <<message, queue>>
  <2>1. TypeOK' /\ Stages'
    BY <1>1 DEF Pop, TypeOK, Stages
  <2>2. Threads'
    BY DEF Pop, Threads, RingsEmpty
  <2>3. Waiting'
    BY <1>1 DEF Pop, Waiting, Received
  <2>4. Routed' /\ Complete' /\ Numbered'
    BY AcceptedGrows DEF Pop
  <2>5. Newest'
    BY DEF Pop, Newest, NewestOf, ToPush, ToSend
  <2>. QED BY <2>1, <2>2, <2>3, <2>4, <2>5
<1>2. CASE queue # <<>> /\ message' = Head(queue) /\ queue' = Tail(queue) /\ pump' = "submit"
  <2>1. /\ queue \in Seq(Symbols) /\ Len(queue) \in Nat \ {0} /\ message' = queue[1]
        /\ message' \in Symbols /\ queue' \in Seq(Symbols) /\ Len(queue') = Len(queue) - 1
        /\ DOMAIN queue' = 1 .. (Len(queue) - 1)
        /\ \A i \in 1 .. (Len(queue) - 1) : queue'[i] = queue[i + 1] /\ i + 1 \in DOMAIN queue
        /\ 1 \in DOMAIN queue
    BY <1>2, HeadAndTail DEF TypeOK
  <2>2. pump = "pop" /\ UNCHANGED <<accepted, stamped, holding, refused>> /\ stamped \in Nat
        /\ Len(accepted) \in Nat
    BY DEF Pop, TypeOK
  <2>3. TypeOK'
    <3>1. Len(queue') <= QueueCapacity
      BY <2>1 DEF TypeOK
    <3>. QED BY <1>2, <2>1, <3>1 DEF Pop, TypeOK
  <2>4. Stages'
    BY <1>2, <2>1 DEF Pop, Stages
  <2>5. Threads'
    BY DEF Pop, Threads, RingsEmpty
  <2>6. Waiting'
    <3>1. Len(accepted) = stamped + Len(queue)
      BY <2>1, <2>2 DEF Waiting
    <3>2. accepted[stamped + 1] = message'
      <4>1. Len(accepted) - Len(queue) + 1 = stamped + 1
        BY <2>1, <2>2, <3>1
      <4>. QED BY <2>1, <4>1 DEF Waiting
    <3>3. ASSUME NEW i \in DOMAIN queue'
          PROVE  accepted'[Len(accepted') - Len(queue') + i] = queue'[i]
      <4>1. Len(accepted') - Len(queue') + i = Len(accepted) - Len(queue) + (i + 1)
        BY <2>1, <2>2
      <4>2. queue'[i] = queue[i + 1] /\ i + 1 \in DOMAIN queue
        BY <2>1
      <4>. QED BY <2>2, <4>1, <4>2 DEF Waiting
    <3>4. Received' <= MaxOrders
      BY <2>2 DEF Waiting, Received
    <3>5. Len(accepted') = stamped' + Len(queue') + 1
      BY <2>1, <2>2, <3>1
    <3>. QED BY <1>2, <2>2, <3>2, <3>3, <3>4, <3>5 DEF Waiting
  <2>7. Routed' /\ Complete' /\ Numbered'
    BY AcceptedGrows DEF Pop
  <2>8. Newest'
    BY DEF Pop, Newest, NewestOf, ToPush, ToSend
  <2>. QED BY <2>3, <2>4, <2>5, <2>6, <2>7, <2>8
<1>. QED BY <1>1, <1>2 DEF Pop

\* Ingress::receive() and Router::route().
LEMMA SubmitStep == ASSUME Controlled, Placed, Submit PROVE Controlled' /\ Placed'
<1>. USE DEF Controlled, Placed, entryVars, feedVars
<1>. DEFINE target == ShardFor(message)
            order == [symbol |-> message, number |-> stamped + 1]
<1>1. pump = "submit" /\ message \in Symbols /\ target \in Shards
      /\ stamped \in Nat /\ stamped' = stamped + 1 /\ pump' = "pop" /\ message' = NoSymbol
  BY EveryShard DEF Submit, Stages, TypeOK
<1>2. UNCHANGED <<accepted, queue, holding, refused, done, publishing, last, ring, quote, inTurn,
                  missed, owner, worker, reader, listening, closed, starts>>
  BY DEF Submit
<1>3. Len(accepted) = stamped + Len(queue) + 1 /\ accepted[stamped + 1] = message
      /\ Len(accepted) \in Nat /\ Len(queue) \in Nat
  BY <1>1 DEF Waiting, TypeOK
<1>4. stamped + 1 \in 1 .. MaxOrders
  <2>1. Len(accepted) <= Received /\ Received <= MaxOrders
    <3>1. refused \in Nat
      BY DEF TypeOK
    <3>. QED BY <1>3, <3>1, ReceivedParts DEF Waiting
  <2>2. Received \in Nat /\ MaxOrders \in Nat
    BY ReceivedParts
  <2>. QED BY <1>1, <1>3, <2>1, <2>2
<1>5. order \in OrderType
  BY <1>1, <1>4 DEF OrderType
<1>6. /\ inbound[target] \in Seq(OrderType) /\ Len(inbound[target]) \in Nat
      /\ Len(inbound[target]) < InboundCapacity
      /\ DOMAIN inbound[target] = 1 .. Len(inbound[target])
  BY <1>1 DEF Submit, Room, TypeOK
<1>7. /\ inbound'[target] = Append(inbound[target], order)
      /\ \A s \in Shards : s # target => inbound'[s] = inbound[s]
      /\ inbound' = [inbound EXCEPT ![target] = Append(@, order)]
  BY <1>1 DEF Submit, TypeOK
<1>. HIDE DEF target, order
<1>8. /\ inbound'[target] \in Seq(OrderType) /\ Len(inbound'[target]) = Len(inbound[target]) + 1
      /\ DOMAIN inbound'[target] = 1 .. (Len(inbound[target]) + 1)
      /\ \A i \in 1 .. Len(inbound[target]) : inbound'[target][i] = inbound[target][i]
      /\ inbound'[target][Len(inbound[target]) + 1] = order
  BY <1>5, <1>6, <1>7, Appending
<1>9. order.symbol = message /\ order.number = stamped + 1 /\ ShardFor(message) = target
  BY DEF order, target
<1>10. TypeOK'
  <2>1. inbound' \in [Shards -> Seq(OrderType)]
    BY <1>7, <1>8, <1>1 DEF TypeOK
  <2>2. \A s \in Shards : Len(inbound'[s]) <= InboundCapacity
    BY <1>6, <1>7, <1>8 DEF TypeOK
  <2>3. stamped' \in 0 .. MaxOrders
    BY <1>1, <1>4
  <2>. QED BY <1>1, <1>2, <2>1, <2>2, <2>3 DEF TypeOK
<1>11. Stages'
  BY <1>1, <1>2 DEF Stages
<1>12. Threads'
  <2>1. \A s \in Shards : worker[s] = "loop"
    BY <1>1 DEF Stages, Threads, TypeOK
  <2>. QED BY <1>2, <2>1 DEF Threads, RingsEmpty
<1>13. Waiting'
  <2>1. Received' = Received
    BY <1>2 DEF Received
  <2>. QED BY <1>1, <1>2, <1>3, <2>1 DEF Waiting
<1>14. \A symbol \in Symbols : done[symbol] \in Nat /\ done[symbol] <= stamped
  <2>1. \A symbol \in Symbols : done[symbol] \in Nat
    BY DEF TypeOK
  <2>. QED BY <1>1, <2>1 DEF Complete
<1>15. Routed'
  <2>1. ASSUME NEW s \in Shards, NEW i \in DOMAIN inbound'[s], i \in DOMAIN inbound[s]
        PROVE  /\ inbound'[s][i] = inbound[s][i] /\ inbound[s][i].number <= stamped
               /\ inbound[s][i].number \in Nat
    BY <1>6, <1>7, <1>8, <1>10, <2>1, Entries DEF Routed
  <2>2. ASSUME NEW s \in Shards, NEW i \in DOMAIN inbound'[s], i \notin DOMAIN inbound[s]
        PROVE  s = target /\ i = Len(inbound[target]) + 1 /\ inbound'[s][i] = order
    BY <1>6, <1>7, <1>8, <2>2
  <2>3. ASSUME NEW s \in Shards, NEW i \in DOMAIN inbound'[s]
        PROVE  LET o == inbound'[s][i] IN
               /\ o.number <= stamped' /\ accepted'[o.number] = o.symbol
               /\ ShardFor(o.symbol) = s /\ done'[o.symbol] < o.number
    <3>1. CASE i \in DOMAIN inbound[s]
      BY <1>1, <1>2, <2>1, <3>1 DEF Routed
    <3>2. CASE i \notin DOMAIN inbound[s]
      <4>1. inbound'[s][i] = order /\ s = target
        BY <2>2, <3>2
      <4>2. done[message] < stamped + 1
        BY <1>1, <1>14
      <4>. QED BY <1>1, <1>2, <1>3, <1>9, <4>1, <4>2
    <3>. QED BY <3>1, <3>2
  <2>4. ASSUME NEW s \in Shards, NEW i \in DOMAIN inbound'[s], NEW j \in DOMAIN inbound'[s], i < j
        PROVE  inbound'[s][i].number < inbound'[s][j].number
    <3>1. CASE j \in DOMAIN inbound[s]
      <4>1. i \in DOMAIN inbound[s]
        BY <1>6, <1>7, <1>8, <2>4, <3>1
      <4>. QED BY <2>1, <2>4, <3>1, <4>1 DEF Routed
    <3>2. CASE j \notin DOMAIN inbound[s]
      <4>1. i \in DOMAIN inbound[s]
        BY <1>6, <1>7, <1>8, <2>2, <2>4, <3>2
      <4>. QED BY <1>1, <1>9, <2>1, <2>2, <3>2, <4>1
    <3>. QED BY <3>1, <3>2
  <2>. QED BY <2>3, <2>4 DEF Routed, ShardFor
<1>16. Complete'
  <2>1. ASSUME NEW n \in 1 .. stamped', ~(done[accepted[n]] >= n)
        PROVE  \E i \in DOMAIN inbound'[ShardFor(accepted[n])] :
                 inbound'[ShardFor(accepted[n])][i].number = n
    <3>1. CASE n = stamped + 1
      <4>1. Len(inbound[target]) + 1 \in DOMAIN inbound'[target]
        BY <1>6, <1>8
      <4>. QED BY <1>3, <1>8, <1>9, <3>1, <4>1
    <3>2. CASE n \in 1 .. stamped
      <4>1. PICK i \in DOMAIN inbound[ShardFor(accepted[n])] :
              inbound[ShardFor(accepted[n])][i].number = n
        BY <2>1, <3>2 DEF Complete
      <4>2. ShardFor(accepted[n]) \in Shards
        <5>1. accepted[n] \in Symbols
          BY <1>1, <1>3, <3>2 DEF TypeOK
        <5>. QED BY <5>1, EveryShard
      <4>3. i \in DOMAIN inbound'[ShardFor(accepted[n])]
            /\ inbound'[ShardFor(accepted[n])][i] = inbound[ShardFor(accepted[n])][i]
        BY <1>6, <1>7, <1>8, <4>2
      <4>. QED BY <4>1, <4>3
    <3>. QED BY <1>1, <3>1, <3>2
  <2>2. \A symbol \in Symbols :
          done'[symbol] > 0 => done'[symbol] <= stamped' /\ accepted'[done'[symbol]] = symbol
    BY <1>1, <1>2, <1>14 DEF Complete
  <2>. QED BY <1>2, <2>1, <2>2 DEF Complete, ShardFor
<1>17. Numbered' /\ Newest'
  <2>1. UNCHANGED <<accepted, done, last, publishing, ring, quote, inTurn, missed>>
    BY <1>2
  <2>2. Numbered'
    BY <2>1 DEF Numbered, PushNumbered, RingNumbered, ShardFor
  <2>3. Newest'
    BY <2>1 DEF Newest, NewestOf, ToPush, ToSend, ShardFor
  <2>. QED BY <2>2, <2>3
<1>. QED BY <1>10, <1>11, <1>12, <1>13, <1>15, <1>16, <1>17

-------------------------------------------------------------------------------
(* The shards.                                                              *)

First(s) == inbound[s][1]

\* What process() does with the first of a shard's orders.
LEMMA Processing ==
  ASSUME TypeOK, NEW s \in Shards, Process(s)
  PROVE  /\ First(s) \in OrderType /\ First(s).symbol \in Symbols
         /\ First(s).number \in Nat \ {0} /\ Head(inbound[s]) = First(s)
         /\ 1 \in DOMAIN inbound[s] /\ publishing[s] = <<>> /\ worker[s] # "none"
         /\ done' = [done EXCEPT ![First(s).symbol] = First(s).number]
         /\ inbound' = [inbound EXCEPT ![s] = Tail(@)]
         /\ inbound'[s] \in Seq(OrderType) /\ Len(inbound'[s]) = Len(inbound[s]) - 1
         /\ DOMAIN inbound'[s] = 1 .. (Len(inbound[s]) - 1) /\ Len(inbound[s]) \in Nat \ {0}
         /\ \A i \in DOMAIN inbound'[s] :
              inbound'[s][i] = inbound[s][i + 1] /\ i + 1 \in DOMAIN inbound[s]
         /\ \A t \in Shards : t # s => inbound'[t] = inbound[t]
<1>1. inbound[s] \in Seq(OrderType) /\ inbound[s] # <<>>
  BY DEF Process, TypeOK
<1>2. 1 \in DOMAIN inbound[s] /\ Head(inbound[s]) = First(s) /\ First(s) \in OrderType
      /\ Len(inbound[s]) \in Nat \ {0}
  BY <1>1, HeadAndTail DEF First
<1>3. First(s).symbol \in Symbols /\ First(s).number \in Nat \ {0}
  BY <1>2 DEF OrderType
<1>4. inbound' = [inbound EXCEPT ![s] = Tail(@)]
  BY DEF Process
<1>5. inbound'[s] = Tail(inbound[s]) /\ \A t \in Shards : t # s => inbound'[t] = inbound[t]
  BY <1>4 DEF TypeOK
<1>6. /\ inbound'[s] \in Seq(OrderType) /\ Len(inbound'[s]) = Len(inbound[s]) - 1
      /\ DOMAIN inbound'[s] = 1 .. (Len(inbound[s]) - 1)
      /\ \A i \in DOMAIN inbound'[s] :
           inbound'[s][i] = inbound[s][i + 1] /\ i + 1 \in DOMAIN inbound[s]
  BY <1>1, <1>5, HeadAndTail
<1>7. /\ publishing[s] = <<>> /\ worker[s] # "none"
      /\ done' = [done EXCEPT ![First(s).symbol] = First(s).number]
  BY <1>2 DEF Process
<1>. QED BY <1>2, <1>3, <1>4, <1>5, <1>6, <1>7

\* And what it leaves to push: updates of that order alone, one top at the most.
LEMMA ToPublish ==
  ASSUME TypeOK, NEW s \in Shards, Process(s)
  PROVE  /\ last' \in [Symbols -> Tops \cup {NoTop}]
         /\ \A symbol \in Symbols : symbol # First(s).symbol => last'[symbol] = last[symbol]
         /\ publishing' \in [Shards -> Seq(UpdateType)]
         /\ \A t \in Shards : t # s => publishing'[t] = publishing[t]
         /\ \A i \in DOMAIN publishing'[s] :
              /\ publishing'[s][i].symbol = First(s).symbol
              /\ publishing'[s][i].number = First(s).number
              /\ publishing'[s][i].feed = "top" =>
                   publishing'[s][i].top = last'[First(s).symbol]
         /\ \A i, j \in DOMAIN publishing'[s] :
              publishing'[s][i].feed = "top" /\ publishing'[s][j].feed = "top" => j = i
         /\ \/ last'[First(s).symbol] = last[First(s).symbol]
            \/ \E i \in DOMAIN publishing'[s] : publishing'[s][i].feed = "top"
<1>. DEFINE order == First(s)
            trade == Update("trade", order, NoTop)
            quoted(top) == Update("top", order, top)
<1>1. order \in OrderType /\ order.symbol \in Symbols /\ Head(inbound[s]) = order
  BY Processing
<1>2. PICK top \in Tops, trades \in {<<>>, <<trade>>} :
        /\ trades # <<>> => top # last[order.symbol]
        /\ last' = [last EXCEPT ![order.symbol] = top]
        /\ publishing' = [publishing EXCEPT ![s] =
             trades \o IF top # last[order.symbol] THEN <<quoted(top)>> ELSE <<>>]
  BY <1>1 DEF Process
<1>3. /\ last'[order.symbol] = top
      /\ \A symbol \in Symbols : symbol # order.symbol => last'[symbol] = last[symbol]
      /\ last' \in [Symbols -> Tops \cup {NoTop}]
  BY <1>1, <1>2 DEF TypeOK
<1>4. trade \in UpdateType /\ quoted(top) \in UpdateType
  BY <1>1 DEF Update, UpdateType, OrderType, Feeds
<1>5. /\ trade.feed # "top" /\ trade.symbol = order.symbol /\ trade.number = order.number
      /\ quoted(top).feed = "top" /\ quoted(top).symbol = order.symbol
      /\ quoted(top).number = order.number /\ quoted(top).top = top
  BY DEF Update
<1>. DEFINE u == quoted(top)
            new == publishing'[s]
<1>6. u \in UpdateType /\ u.feed = "top" /\ u.symbol = order.symbol
      /\ u.number = order.number /\ u.top = top
  BY <1>4, <1>5
<1>7. /\ new = trades \o IF top # last[order.symbol] THEN <<u>> ELSE <<>>
      /\ \A t \in Shards : t # s => publishing'[t] = publishing[t]
  BY <1>2 DEF TypeOK
<1>. HIDE DEF order, trade, quoted, u
<1>8. \/ new = <<>> /\ top = last[order.symbol]
      \/ new = <<u>>
      \/ new \in Seq(UpdateType) /\ DOMAIN new = {1, 2} /\ new[1] = trade /\ new[2] = u
  <2>1. CASE trades = <<>> /\ top = last[order.symbol]
    BY <1>7, <2>1
  <2>2. CASE trades = <<>> /\ top # last[order.symbol]
    BY <1>6, <1>7, <2>2
  <2>3. CASE trades = <<trade>>
    <3>1. top # last[order.symbol]
      BY <1>2, <2>3
    <3>2. new = <<trade>> \o <<u>>
      BY <1>7, <2>3, <3>1
    <3>. QED BY <1>4, <1>6, <3>2, Pair
  <2>. QED BY <1>2, <2>1, <2>2, <2>3
<1>9. /\ new \in Seq(UpdateType)
      /\ \A i \in DOMAIN new : new[i] \in {trade, u}
      /\ \A i, j \in DOMAIN new : new[i] = u /\ new[j] = u => i = j
      /\ top = last[order.symbol] \/ \E i \in DOMAIN new : new[i] = u
  <2>1. CASE new = <<>> /\ top = last[order.symbol]
    BY <2>1
  <2>2. CASE new = <<u>>
    <3>1. DOMAIN new = {1} /\ new[1] = u
      BY <2>2
    <3>. QED BY <1>6, <2>2, <3>1
  <2>3. CASE new \in Seq(UpdateType) /\ DOMAIN new = {1, 2} /\ new[1] = trade /\ new[2] = u
    <3>1. trade # u
      BY <1>5, <1>6
    <3>. QED BY <2>3, <3>1
  <2>. QED BY <1>8, <2>1, <2>2, <2>3
<1>10. publishing' \in [Shards -> Seq(UpdateType)]
  <2>1. publishing' = [publishing EXCEPT ![s] = new]
    BY <1>2, <1>7 DEF TypeOK
  <2>. QED BY <1>9, <2>1 DEF TypeOK
<1>. HIDE DEF new
<1>11. \A i \in DOMAIN new :
         /\ new[i].symbol = order.symbol /\ new[i].number = order.number
         /\ new[i].feed = "top" => new[i] = u /\ new[i].top = top
  BY <1>5, <1>6, <1>9
<1>12. \A i, j \in DOMAIN new : new[i].feed = "top" /\ new[j].feed = "top" => j = i
  BY <1>9, <1>11
<1>13. top = last[order.symbol] \/ \E i \in DOMAIN new : new[i].feed = "top"
  BY <1>6, <1>9
<1>14. \/ last'[order.symbol] = last[order.symbol]
       \/ \E i \in DOMAIN new : new[i].feed = "top"
  BY <1>3, <1>13
<1>15. \A i \in DOMAIN new :
         /\ new[i].symbol = order.symbol /\ new[i].number = order.number
         /\ new[i].feed = "top" => new[i].top = last'[order.symbol]
  BY <1>3, <1>11
<1>16. \A i \in DOMAIN publishing'[s] :
         /\ publishing'[s][i].symbol = First(s).symbol
         /\ publishing'[s][i].number = First(s).number
         /\ publishing'[s][i].feed = "top" => publishing'[s][i].top = last'[First(s).symbol]
  BY <1>15 DEF order, new
<1>17. \/ last'[First(s).symbol] = last[First(s).symbol]
       \/ \E i \in DOMAIN publishing'[s] : publishing'[s][i].feed = "top"
  BY <1>14 DEF order, new
<1>18. \A i, j \in DOMAIN publishing'[s] :
         publishing'[s][i].feed = "top" /\ publishing'[s][j].feed = "top" => j = i
  BY <1>12 DEF new
<1>19. \A symbol \in Symbols : symbol # First(s).symbol => last'[symbol] = last[symbol]
  BY <1>3 DEF order
<1>. QED BY <1>3, <1>7, <1>10, <1>16, <1>17, <1>18, <1>19

LEMMA ProcessStep ==
  ASSUME Controlled, Placed, NEW s \in Shards, Process(s)
  PROVE  Controlled' /\ Placed'
<1>. USE DEF Controlled, Placed, entryVars, feedVars
<1>. DEFINE order == First(s)
<1>1. UNCHANGED <<owner, starts, entryVars, pump, message, stamped, worker, feedVars>>
  BY DEF Process
<1>2. /\ order.symbol \in Symbols /\ order.number \in Nat \ {0} /\ 1 \in DOMAIN inbound[s]
      /\ publishing[s] = <<>> /\ worker[s] # "none"
      /\ done' = [done EXCEPT ![order.symbol] = order.number]
      /\ inbound[s][1] = order
  BY Processing DEF First
<1>3. /\ DOMAIN inbound'[s] = 1 .. (Len(inbound[s]) - 1) /\ Len(inbound[s]) \in Nat \ {0}
      /\ \A i \in DOMAIN inbound'[s] :
           inbound'[s][i] = inbound[s][i + 1] /\ i + 1 \in DOMAIN inbound[s]
      /\ \A t \in Shards : t # s => inbound'[t] = inbound[t]
      /\ DOMAIN inbound[s] = 1 .. Len(inbound[s])
  BY Processing, Entries
<1>4. /\ order.number <= stamped /\ accepted[order.number] = order.symbol
      /\ ShardFor(order.symbol) = s /\ done[order.symbol] < order.number
      /\ \A j \in DOMAIN inbound[s] : 1 < j => order.number < inbound[s][j].number
  BY <1>2 DEF Routed
<1>. HIDE DEF order
<1>5. /\ done'[order.symbol] = order.number
      /\ \A symbol \in Symbols : symbol # order.symbol => done'[symbol] = done[symbol]
      /\ \A symbol \in Symbols : done[symbol] \in Nat /\ done'[symbol] \in Nat
  BY SMTT(40), <1>2 DEF TypeOK
<1>6. /\ \A symbol \in Symbols : done[symbol] <= done'[symbol]
      /\ \A t \in Shards : t # s => t # ShardFor(order.symbol)
  BY <1>2, <1>4, <1>5
<1>7. stamped \in Nat /\ stamped <= MaxOrders /\ MaxOrders \in Nat
  BY DEF TypeOK
<1>8. TypeOK'
  <2>1. inbound' \in [Shards -> Seq(OrderType)]
    BY Processing DEF TypeOK
  <2>2. \A t \in Shards : Len(inbound'[t]) <= InboundCapacity
    <3>1. Len(inbound'[s]) <= InboundCapacity
      <4>1. Len(inbound'[s]) = Len(inbound[s]) - 1
        BY Processing
      <4>2. Len(inbound[s]) <= InboundCapacity
        BY DEF TypeOK
      <4>. QED BY <1>3, <4>1, <4>2
    <3>. QED BY <1>3, <3>1 DEF TypeOK
  <2>3. done' \in [Symbols -> 0 .. MaxOrders]
    <3>1. order.number \in 0 .. MaxOrders
      BY <1>2, <1>4, <1>7
    <3>. QED BY <1>2, <3>1 DEF TypeOK
  <2>4. last' \in [Symbols -> Tops \cup {NoTop}] /\ publishing' \in [Shards -> Seq(UpdateType)]
    BY ToPublish
  <2>. QED BY <1>1, <2>1, <2>2, <2>3, <2>4 DEF TypeOK
<1>9. Stages'
  BY <1>1 DEF Stages
<1>10. Threads'
  <2>1. \A t \in Shards : worker'[t] = "none" => inbound'[t] = <<>> /\ publishing'[t] = <<>>
    BY <1>1, <1>2, <1>3, ToPublish DEF Threads
  <2>. QED BY <1>1, <2>1 DEF Threads, RingsEmpty
<1>11. Waiting'
  BY <1>1 DEF Waiting, Received
<1>12. Routed'
  <2>1. ASSUME NEW t \in Shards, NEW i \in DOMAIN inbound'[t]
        PROVE  LET o == inbound'[t][i] IN
               /\ o.number <= stamped /\ accepted[o.number] = o.symbol
               /\ ShardFor(o.symbol) = t /\ done'[o.symbol] < o.number
               /\ \A j \in DOMAIN inbound'[t] : i < j => o.number < inbound'[t][j].number
    <3>1. CASE t # s
      <4>1. inbound'[t] = inbound[t] /\ inbound[t][i].symbol \in Symbols
        BY <1>3, <2>1, <3>1, Entries
      <4>2. inbound[t][i].symbol # order.symbol
        BY <1>6, <2>1, <3>1, <4>1 DEF Routed
      <4>3. done'[inbound[t][i].symbol] = done[inbound[t][i].symbol]
        BY <1>5, <4>1, <4>2
      <4>4. i \in DOMAIN inbound[t]
        BY <2>1, <4>1
      <4>. QED BY <4>1, <4>3, <4>4 DEF Routed
    <3>2. CASE t = s
      <4>1. inbound'[s][i] = inbound[s][i + 1] /\ i + 1 \in DOMAIN inbound[s] /\ 1 < i + 1
            /\ inbound[s][i + 1].symbol \in Symbols
        BY SMTT(40), <1>3, <2>1, <3>2, Entries
      <4>2. done'[inbound[s][i + 1].symbol] < inbound[s][i + 1].number
        <5>1. CASE inbound[s][i + 1].symbol = order.symbol
          BY <1>4, <1>5, <4>1, <5>1
        <5>2. CASE inbound[s][i + 1].symbol # order.symbol
          BY <1>5, <4>1, <5>2 DEF Routed
        <5>. QED BY <5>1, <5>2
      <4>3. ASSUME NEW j \in DOMAIN inbound'[s], i < j
            PROVE  inbound'[s][i].number < inbound'[s][j].number
        <5>1. inbound'[s][j] = inbound[s][j + 1] /\ j + 1 \in DOMAIN inbound[s] /\ i + 1 < j + 1
          BY <1>3, <2>1, <3>2, <4>3
        <5>. QED BY <4>1, <5>1 DEF Routed
      <4>. QED BY <3>2, <4>1, <4>2, <4>3 DEF Routed
    <3>. QED BY <3>1, <3>2
  <2>. QED BY <1>1, <2>1 DEF Routed, ShardFor
<1>13. Complete'
  <2>1. ASSUME NEW symbol \in Symbols, done'[symbol] > 0
        PROVE  done'[symbol] <= stamped /\ accepted[done'[symbol]] = symbol
    BY <1>4, <1>5, <2>1 DEF Complete
  <2>2. ASSUME NEW n \in 1 .. stamped, ~(done'[accepted[n]] >= n)
        PROVE  \E i \in DOMAIN inbound'[ShardFor(accepted[n])] :
                 inbound'[ShardFor(accepted[n])][i].number = n
    <3>1. accepted[n] \in Symbols /\ ShardFor(accepted[n]) \in Shards
      <4>1. n \in 1 .. Len(accepted)
        BY <1>7 DEF Waiting, TypeOK
      <4>2. accepted \in Seq(Symbols)
        BY DEF TypeOK
      <4>3. accepted[n] \in Symbols
        BY <4>1, <4>2
      <4>. QED BY <4>3, EveryShard
    <3>2. ~(done[accepted[n]] >= n)
      <4>1. done[accepted[n]] \in Nat /\ done'[accepted[n]] \in Nat
            /\ done[accepted[n]] <= done'[accepted[n]]
        BY <1>5, <1>6, <3>1
      <4>. QED BY <2>2, <4>1
    <3>3. PICK i \in DOMAIN inbound[ShardFor(accepted[n])] :
            inbound[ShardFor(accepted[n])][i].number = n
      BY <3>2 DEF Complete
    <3>4. CASE ShardFor(accepted[n]) # s
      BY <1>3, <3>1, <3>3, <3>4
    <3>5. CASE ShardFor(accepted[n]) = s
      <4>1. i # 1
        BY <1>2, <1>4, <1>5, <2>2, <3>3, <3>5
      <4>2. i - 1 \in DOMAIN inbound'[s] /\ (i - 1) + 1 = i
        BY <1>3, <3>3, <3>5, <4>1
      <4>3. inbound'[s][i - 1] = inbound[s][i]
        BY <1>3, <4>2
      <4>. QED BY <3>3, <3>5, <4>2, <4>3
    <3>. QED BY <3>4, <3>5
  <2>. QED BY <1>1, <2>1, <2>2 DEF Complete, ShardFor
<1>14. Numbered'
  <2>1. \A symbol \in Symbols : inTurn[symbol] <= done'[symbol] /\ inTurn[symbol] \in Nat
    BY SMTT(40), <1>5, <1>6 DEF Numbered, PushNumbered, RingNumbered, TypeOK
  <2>2. ASSUME NEW t \in Shards, NEW i \in DOMAIN publishing'[t]
        PROVE  LET update == publishing'[t][i] IN
               /\ ShardFor(update.symbol) = t /\ update.number = done'[update.symbol]
               /\ update.feed = "top" =>
                    /\ inTurn[update.symbol] < update.number
                    /\ \A j \in DOMAIN publishing'[t] : publishing'[t][j].feed = "top" => j = i
                    /\ \A j \in DOMAIN ring["top"][t] :
                         ring["top"][t][j].symbol = update.symbol =>
                           ring["top"][t][j].number < update.number
    <3>1. CASE t # s
      <4>1. publishing'[t] = publishing[t] /\ i \in DOMAIN publishing[t]
            /\ publishing[t][i].symbol \in Symbols
        BY <2>2, <3>1, ToPublish, Entries
      <4>2. publishing[t][i].symbol # order.symbol
        BY <1>6, <3>1, <4>1 DEF Numbered, PushNumbered, RingNumbered
      <4>3. done'[publishing[t][i].symbol] = done[publishing[t][i].symbol]
        BY <1>5, <4>1, <4>2
      <4>. QED BY <4>1, <4>3 DEF Numbered, PushNumbered, RingNumbered
    <3>2. CASE t = s
      <4>1. /\ publishing'[s][i].symbol = order.symbol /\ publishing'[s][i].number = order.number
            /\ publishing'[s][i].feed = "top" =>
                 \A j \in DOMAIN publishing'[s] : publishing'[s][j].feed = "top" => j = i
        BY <2>2, <3>2, ToPublish DEF order
      <4>2. inTurn[order.symbol] < order.number
        <5>1. inTurn[order.symbol] <= done[order.symbol] /\ done[order.symbol] < order.number
          BY <1>2, <1>4 DEF Numbered
        <5>2. inTurn[order.symbol] \in Nat /\ done[order.symbol] \in Nat /\ order.number \in Nat
          BY <1>2, <1>5, <2>1
        <5>. QED BY <5>1, <5>2
      <4>3. ASSUME NEW j \in DOMAIN ring["top"][s], ring["top"][s][j].symbol = order.symbol
            PROVE  ring["top"][s][j].number < order.number
        <5>1. ring["top"][s][j].number <= done[order.symbol] /\ ring["top"][s][j].number \in Nat
          BY <4>3, Entries DEF Numbered, PushNumbered, RingNumbered
        <5>2. done[order.symbol] \in Nat /\ order.number \in Nat
          BY <1>2, <1>5
        <5>. QED BY <1>4, <5>1, <5>2
      <4>. QED BY <1>4, <1>5, <3>2, <4>1, <4>2, <4>3
    <3>. QED BY <3>1, <3>2
  <2>3. ASSUME NEW t \in Shards, NEW i \in DOMAIN ring["top"][t]
        PROVE  ring["top"][t][i].number <= done'[ring["top"][t][i].symbol]
    <3>1. /\ ring["top"][t][i].number <= done[ring["top"][t][i].symbol]
          /\ ring["top"][t][i].number \in Nat /\ ring["top"][t][i].symbol \in Symbols
      BY Entries DEF Numbered, PushNumbered, RingNumbered
    <3>2. LET d == done[ring["top"][t][i].symbol]
              e == done'[ring["top"][t][i].symbol] IN
          d \in Nat /\ e \in Nat /\ d <= e
      BY <1>5, <1>6, <3>1
    <3>. QED BY <3>1, <3>2
  <2>4. UNCHANGED <<accepted, ring, inTurn>>
    BY <1>1
  <2>5. \A t \in Shards : PushNumbered(t)'
    BY <2>2, <2>4 DEF PushNumbered, ShardFor
  <2>6. \A t \in Shards : RingNumbered(t)'
    BY <2>3, <2>4 DEF Numbered, RingNumbered, ShardFor
  <2>. QED BY <2>1, <2>4, <2>5, <2>6 DEF Numbered
<1>15. Newest'
  <2>1. UNCHANGED <<ring, missed, quote>>
    BY <1>1
  <2>. SUFFICES ASSUME NEW symbol \in Symbols
                PROVE  /\ \A i \in ToPush(symbol)' :
                            publishing'[ShardFor(symbol)][i].top = last'[symbol]
                       /\ ToPush(symbol)' = {} =>
                            ToPush(symbol) = {} /\ last'[symbol] = last[symbol]
    BY <2>1 DEF Newest, NewestOf, ToSend, ShardFor
  <2>2. CASE symbol = order.symbol
    <3>1. \A i \in ToPush(symbol)' : publishing'[ShardFor(symbol)][i].top = last'[symbol]
      BY <1>4, <2>2, ToPublish DEF ToPush, order, ShardFor
    <3>2. ToPush(symbol) = {}
      BY <1>2, <1>4, <2>2 DEF ToPush
    <3>3. ToPush(symbol)' = {} => last'[symbol] = last[symbol]
      BY <1>4, <2>2, ToPublish DEF ToPush, order, ShardFor
    <3>. QED BY <3>1, <3>2, <3>3
  <2>3. CASE symbol # order.symbol
    <3>1. last'[symbol] = last[symbol]
      BY <2>3, ToPublish DEF order
    <3>2. (ToPush(symbol)' = {} /\ ToPush(symbol) = {}) \/
          (publishing'[ShardFor(symbol)] = publishing[ShardFor(symbol)])
      BY <1>2, <2>3, ToPublish, EveryShard DEF ToPush, order, ShardFor
    <3>3. CASE publishing'[ShardFor(symbol)] = publishing[ShardFor(symbol)]
      <4>1. ToPush(symbol)' = ToPush(symbol)
        BY <3>3 DEF ToPush, ShardFor
      <4>. QED BY <3>1, <3>3, <4>1 DEF Newest, NewestOf
    <3>. QED BY <3>1, <3>2, <3>3
  <2>. QED BY <2>2, <2>3
<1>. QED BY <1>8, <1>9, <1>10, <1>11, <1>12, <1>13, <1>14, <1>15

\* push_overwrite() of the first update to be pushed; in the ring it is last, and
\* the k oldest are gone.
LEMMA Publishing ==
  ASSUME TypeOK, NEW s \in Shards, Publish(s)
  PROVE  /\ publishing[s] # <<>> /\ 1 \in DOMAIN publishing[s]
         /\ publishing' = [publishing EXCEPT ![s] = Tail(@)]
         /\ publishing'[s] \in Seq(UpdateType)
         /\ DOMAIN publishing'[s] = 1 .. (Len(publishing[s]) - 1)
         /\ \A i \in DOMAIN publishing'[s] :
              publishing'[s][i] = publishing[s][i + 1] /\ i + 1 \in DOMAIN publishing[s]
         /\ \A t \in Shards : t # s => publishing'[t] = publishing[t]
         /\ Head(publishing[s]) = publishing[s][1] /\ publishing[s][1] \in UpdateType
<1>1. publishing[s] \in Seq(UpdateType) /\ publishing[s] # <<>>
      /\ publishing' = [publishing EXCEPT ![s] = Tail(@)]
  BY DEF Publish, TypeOK
<1>2. /\ publishing'[s] = Tail(publishing[s])
      /\ \A t \in Shards : t # s => publishing'[t] = publishing[t]
  BY <1>1 DEF TypeOK
<1>3. 1 \in DOMAIN publishing[s]
  BY <1>1, HeadAndTail
<1>4. /\ Tail(publishing[s]) \in Seq(UpdateType)
      /\ DOMAIN Tail(publishing[s]) = 1 .. (Len(publishing[s]) - 1)
      /\ \A i \in 1 .. (Len(publishing[s]) - 1) :
           Tail(publishing[s])[i] = publishing[s][i + 1] /\ i + 1 \in DOMAIN publishing[s]
      /\ Head(publishing[s]) = publishing[s][1] /\ publishing[s][1] \in UpdateType
  BY <1>1, HeadAndTail
<1>. QED BY <1>1, <1>2, <1>3, <1>4

LEMMA Pushed ==
  ASSUME TypeOK, NEW s \in Shards, Publish(s), NEW f \in Feeds, f = publishing[s][1].feed
  PROVE  /\ ring' \in [Feeds -> [Shards -> Seq(UpdateType)]]
         /\ Len(ring'[f][s]) <= OutboundCapacity
         /\ \A g \in Feeds, t \in Shards : g # f \/ t # s => ring'[g][t] = ring[g][t]
         /\ missed \subseteq missed' /\ missed' \subseteq Symbols
         /\ \E k \in {0, 1} :
              /\ Len(ring[f][s]) - k \in Nat
              /\ DOMAIN ring'[f][s] = 1 .. (Len(ring[f][s]) - k + 1)
              /\ \A i \in 1 .. (Len(ring[f][s]) - k) : ring'[f][s][i] = ring[f][s][i + k]
              /\ ring'[f][s][Len(ring[f][s]) - k + 1] = publishing[s][1]
              /\ k = 1 /\ f = "top" => ring[f][s][1].symbol \in missed'
<1>. DEFINE unread == ring[f][s]
            full == Len(unread) = OutboundCapacity
            k == IF full THEN 1 ELSE 0
            kept == IF full THEN Tail(unread) ELSE unread
            update == publishing[s][1]
<1>1. update \in UpdateType /\ Head(publishing[s]) = update
  BY Publishing
<1>2. unread \in Seq(UpdateType) /\ Len(unread) <= OutboundCapacity /\ Len(unread) \in Nat
      /\ ring[f] \in [Shards -> Seq(UpdateType)]
  BY SMTT(40) DEF TypeOK
<1>3. /\ ring' = [ring EXCEPT ![f][s] = Append(kept, update)]
      /\ missed' = IF full /\ f = "top" THEN missed \cup {Head(unread).symbol} ELSE missed
  BY <1>1 DEF Publish
<1>4. ring'[f][s] = Append(kept, update)
      /\ \A g \in Feeds, t \in Shards : g # f \/ t # s => ring'[g][t] = ring[g][t]
  BY <1>3 DEF TypeOK
<1>. HIDE DEF update
<1>5. full => unread # <<>> /\ Head(unread) = unread[1] /\ 1 \in DOMAIN unread
              /\ unread[1] \in UpdateType
  <2>1. full => unread # <<>>
    BY <1>2
  <2>. QED BY <1>2, <2>1, HeadAndTail
<1>6. /\ kept \in Seq(UpdateType) /\ Len(kept) = Len(unread) - k /\ Len(kept) \in Nat
      /\ \A i \in 1 .. (Len(unread) - k) : kept[i] = unread[i + k]
  <2>1. CASE full
    BY <1>2, <1>5, <2>1, HeadAndTail
  <2>2. CASE ~full
    BY <1>2, <2>2
  <2>. QED BY <2>1, <2>2
<1>7. Len(unread) - k + 1 <= OutboundCapacity
  BY <1>2
<1>. HIDE DEF kept
<1>8. /\ ring'[f][s] \in Seq(UpdateType) /\ Len(ring'[f][s]) = Len(kept) + 1
      /\ DOMAIN ring'[f][s] = 1 .. (Len(kept) + 1)
      /\ \A i \in 1 .. Len(kept) : ring'[f][s][i] = kept[i]
      /\ ring'[f][s][Len(kept) + 1] = update
  <2>1. kept \in Seq(UpdateType) /\ update \in UpdateType
    BY <1>1, <1>6
  <2>2. ring'[f][s] = Append(kept, update)
    BY <1>4
  <2>. QED BY <2>1, <2>2, Appending
<1>9. ring' \in [Feeds -> [Shards -> Seq(UpdateType)]]
  <2>1. Append(kept, update) \in Seq(UpdateType)
    BY <1>1, <1>6, Appending
  <2>. QED BY <1>3, <2>1 DEF TypeOK
<1>10. missed' = IF full /\ f = "top" THEN missed \cup {unread[1].symbol} ELSE missed
  BY <1>3, <1>5
<1>11. missed \subseteq missed' /\ (k = 1 /\ f = "top" => unread[1].symbol \in missed')
  <2>1. CASE full /\ f = "top"
    BY <1>10, <2>1
  <2>2. CASE full /\ f # "top"
    BY <1>10, <2>2
  <2>3. CASE ~full
    <3>1. k = 0
      BY <2>3
    <3>2. missed' = missed
      BY <1>10, <2>3
    <3>. QED BY <3>1, <3>2
  <2>. QED BY <2>1, <2>2, <2>3
<1>12. missed' \subseteq Symbols
  <2>1. full => unread[1].symbol \in Symbols
    BY <1>5 DEF UpdateType
  <2>2. missed \subseteq Symbols
    BY DEF TypeOK
  <2>. QED BY <1>10, <2>1, <2>2
<1>13. k \in {0, 1}
  OBVIOUS
<1>. HIDE DEF full, k, unread
<1>14. Len(unread) - k \in Nat /\ Len(ring'[f][s]) <= OutboundCapacity
  <2>1. Len(unread) - k \in Nat /\ Len(kept) = Len(unread) - k
    BY <1>6
  <2>2. Len(ring'[f][s]) = Len(unread) - k + 1
    BY <1>8, <2>1
  <2>. QED BY <1>7, <2>1, <2>2
<1>15. /\ DOMAIN ring'[f][s] = 1 .. (Len(unread) - k + 1)
       /\ \A i \in 1 .. (Len(unread) - k) : ring'[f][s][i] = unread[i + k]
       /\ ring'[f][s][Len(unread) - k + 1] = update
  <2>1. Len(kept) = Len(unread) - k
    BY <1>6
  <2>2. DOMAIN ring'[f][s] = 1 .. (Len(unread) - k + 1)
        /\ ring'[f][s][Len(unread) - k + 1] = update
    BY <1>8, <2>1
  <2>3. \A i \in 1 .. (Len(unread) - k) : ring'[f][s][i] = unread[i + k]
    BY <1>6, <1>8, <2>1
  <2>. QED BY <2>2, <2>3
<1>16. \E d \in {0, 1} :
         /\ Len(unread) - d \in Nat
         /\ DOMAIN ring'[f][s] = 1 .. (Len(unread) - d + 1)
         /\ \A i \in 1 .. (Len(unread) - d) : ring'[f][s][i] = unread[i + d]
         /\ ring'[f][s][Len(unread) - d + 1] = update
         /\ d = 1 /\ f = "top" => unread[1].symbol \in missed'
  BY <1>11, <1>13, <1>14, <1>15
<1>. QED BY <1>4, <1>9, <1>11, <1>12, <1>14, <1>16 DEF update, unread

\* The same for the tops of book alone; a trade leaves them where they are.
LEMMA PushedTops ==
  ASSUME TypeOK, NEW s \in Shards, Publish(s)
  PROVE  /\ \A t \in Shards : t # s => ring'["top"][t] = ring["top"][t]
         /\ publishing[s][1].feed # "top" => ring'["top"][s] = ring["top"][s]
         /\ publishing[s][1].feed = "top" =>
              \E k \in {0, 1} :
                /\ Len(ring["top"][s]) - k \in Nat
                /\ DOMAIN ring'["top"][s] = 1 .. (Len(ring["top"][s]) - k + 1)
                /\ \A i \in 1 .. (Len(ring["top"][s]) - k) :
                     ring'["top"][s][i] = ring["top"][s][i + k]
                /\ ring'["top"][s][Len(ring["top"][s]) - k + 1] = publishing[s][1]
                /\ k = 1 => ring["top"][s][1].symbol \in missed'
<1>1. PICK f \in Feeds : f = publishing[s][1].feed
  <2>1. publishing[s][1].feed \in Feeds
    BY Publishing DEF UpdateType
  <2>. QED BY <2>1
<1>2. "top" \in Feeds
  BY DEF Feeds
<1>3. \A g \in Feeds, t \in Shards : g # f \/ t # s => ring'[g][t] = ring[g][t]
  BY <1>1, Pushed
<1>4. f = "top" =>
        \E k \in {0, 1} :
          /\ Len(ring["top"][s]) - k \in Nat
          /\ DOMAIN ring'["top"][s] = 1 .. (Len(ring["top"][s]) - k + 1)
          /\ \A i \in 1 .. (Len(ring["top"][s]) - k) :
               ring'["top"][s][i] = ring["top"][s][i + k]
          /\ ring'["top"][s][Len(ring["top"][s]) - k + 1] = publishing[s][1]
          /\ k = 1 => ring["top"][s][1].symbol \in missed'
  <2>1. CASE f = "top"
    <3>1. PICK k \in {0, 1} :
            /\ Len(ring[f][s]) - k \in Nat
            /\ DOMAIN ring'[f][s] = 1 .. (Len(ring[f][s]) - k + 1)
            /\ \A i \in 1 .. (Len(ring[f][s]) - k) : ring'[f][s][i] = ring[f][s][i + k]
            /\ ring'[f][s][Len(ring[f][s]) - k + 1] = publishing[s][1]
            /\ k = 1 /\ f = "top" => ring[f][s][1].symbol \in missed'
      BY ZenonT(60), <1>1, Pushed
    <3>. QED BY <2>1, <3>1
  <2>. QED BY <2>1
<1>. QED BY <1>1, <1>2, <1>3, <1>4

\* A step that only moves updates leaves the rest alone.
LEMMA UpdatesMove ==
  ASSUME Controlled, Waiting, Routed, Complete,
         UNCHANGED <<owner, starts, entryVars, pump, message, stamped, inbound, worker, last, done,
                     reader>>
  PROVE  Stages' /\ Waiting' /\ Routed' /\ Complete'
<1>. USE DEF Controlled, entryVars
<1>1. Stages'
  BY DEF Stages
<1>2. Waiting'
  BY DEF Waiting, Received
<1>3. Routed' /\ Complete'
  BY SMTT(40) DEF Routed, Complete, ShardFor
<1>. QED BY <1>1, <1>2, <1>3

\* Where no update moves, none loses its place.
LEMMA NumberedStill ==
  ASSUME TypeOK, NEW t \in Shards, PushNumbered(t), RingNumbered(t),
         UNCHANGED <<accepted, done>>,
         publishing'[t] = publishing[t], ring'["top"][t] = ring["top"][t],
         \A symbol \in Symbols : ShardFor(symbol) = t => inTurn'[symbol] = inTurn[symbol]
  PROVE  PushNumbered(t)' /\ RingNumbered(t)'
<1>1. /\ \A i \in DOMAIN publishing[t] :
           inTurn'[publishing[t][i].symbol] = inTurn[publishing[t][i].symbol]
      /\ \A i \in DOMAIN ring["top"][t] :
           inTurn'[ring["top"][t][i].symbol] = inTurn[ring["top"][t][i].symbol]
  BY Entries DEF PushNumbered, RingNumbered
<1>2. PushNumbered(t)'
  BY <1>1 DEF PushNumbered, ShardFor
<1>3. RingNumbered(t)'
  BY <1>1 DEF RingNumbered, ShardFor
<1>. QED BY <1>2, <1>3

LEMMA NewestStill ==
  ASSUME NEW symbol \in Symbols, NewestOf(symbol), last'[symbol] = last[symbol],
         publishing'[ShardFor(symbol)] = publishing[ShardFor(symbol)],
         ring'["top"][ShardFor(symbol)] = ring["top"][ShardFor(symbol)],
         ToPush(symbol) = {} => /\ symbol \in missed => symbol \in missed'
                                /\ quote'[symbol].top = quote[symbol].top
  PROVE  NewestOf(symbol)'
<1>1. ToPush(symbol)' = ToPush(symbol)
  BY DEF ToPush, ShardFor
<1>2. ToSend(symbol)' = ToSend(symbol)
  BY DEF ToSend, ShardFor
<1>. QED BY <1>1, <1>2 DEF NewestOf, ShardFor

LEMMA PublishNumbered ==
  ASSUME TypeOK, Complete, Numbered, NEW s \in Shards, Publish(s)
  PROVE  Numbered'
<1>. DEFINE u == publishing[s][1]
            unread == ring["top"][s]
<1>1. UNCHANGED <<accepted, done, inTurn>>
  BY DEF Publish, entryVars
<1>2. /\ DOMAIN publishing'[s] = 1 .. (Len(publishing[s]) - 1) /\ 1 \in DOMAIN publishing[s]
      /\ \A i \in DOMAIN publishing'[s] :
           publishing'[s][i] = publishing[s][i + 1] /\ i + 1 \in DOMAIN publishing[s] /\ i + 1 # 1
      /\ \A t \in Shards : t # s => publishing'[t] = publishing[t]
  <2>1. publishing[s] \in Seq(UpdateType)
    BY Entries
  <2>2. DOMAIN publishing'[s] = 1 .. (Len(publishing[s]) - 1)
    BY Publishing
  <2>3. \A i \in DOMAIN publishing'[s] : i + 1 # 1
    BY <2>1, <2>2
  <2>. QED BY <2>3, Publishing
<1>3. PushNumbered(s) /\ RingNumbered(s)
  BY DEF Numbered
<1>4. ASSUME NEW t \in Shards, t # s
      PROVE  PushNumbered(t)' /\ RingNumbered(t)'
  <2>1. ring'["top"][t] = ring["top"][t] /\ publishing'[t] = publishing[t]
    BY <1>2, <1>4, PushedTops
  <2>2. PushNumbered(t) /\ RingNumbered(t)
    BY DEF Numbered
  <2>. QED BY <1>1, <2>1, <2>2, NumberedStill
<1>5. ASSUME u.feed # "top" PROVE PushNumbered(s)' /\ RingNumbered(s)'
  <2>1. ring'["top"][s] = ring["top"][s]
    BY <1>5, PushedTops
  <2>2. RingNumbered(s)'
    BY <1>1, <1>3, <2>1 DEF RingNumbered, ShardFor
  <2>3. PushNumbered(s)'
    <3>1. ASSUME NEW i \in DOMAIN publishing'[s]
          PROVE  LET update == publishing'[s][i] IN
                 /\ ShardFor(update.symbol) = s /\ update.number = done[update.symbol]
                 /\ update.feed = "top" =>
                      /\ inTurn[update.symbol] < update.number
                      /\ \A j \in DOMAIN ring["top"][s] :
                           ring["top"][s][j].symbol = update.symbol =>
                             ring["top"][s][j].number < update.number
      BY <1>2, <1>3 DEF PushNumbered
    <3>2. ASSUME NEW i \in DOMAIN publishing'[s], publishing'[s][i].feed = "top",
                 NEW j \in DOMAIN publishing'[s], publishing'[s][j].feed = "top"
          PROVE  j = i
      <4>1. j + 1 = i + 1
        BY <1>2, <1>3, <3>2 DEF PushNumbered
      <4>2. i \in Nat /\ j \in Nat
        BY <1>2
      <4>. QED BY <4>1, <4>2
    <3>. QED BY <1>1, <2>1, <3>1, <3>2 DEF PushNumbered, ShardFor
  <2>. QED BY <2>2, <2>3
<1>6. ASSUME u.feed = "top" PROVE PushNumbered(s)' /\ RingNumbered(s)'
  <2>1. PICK k \in {0, 1} :
          /\ Len(unread) - k \in Nat
          /\ DOMAIN ring'["top"][s] = 1 .. (Len(unread) - k + 1)
          /\ \A i \in 1 .. (Len(unread) - k) : ring'["top"][s][i] = unread[i + k]
          /\ ring'["top"][s][Len(unread) - k + 1] = u
    BY <1>6, PushedTops
  <2>2. DOMAIN unread = 1 .. Len(unread) /\ Len(unread) \in Nat
    BY Entries
  <2>3. /\ ShardFor(u.symbol) = s /\ u.number = done[u.symbol] /\ inTurn[u.symbol] < u.number
        /\ \A j \in DOMAIN publishing[s] : publishing[s][j].feed = "top" => j = 1
        /\ \A j \in DOMAIN unread : unread[j].symbol = u.symbol => unread[j].number < u.number
    BY <1>2, <1>3, <1>6 DEF PushNumbered
  <2>4. u.symbol \in Symbols /\ u.number \in Nat \ {0}
    BY <1>2, Entries
  <2>5. u.number <= done[u.symbol] /\ accepted[u.number] = u.symbol
    <3>1. done[u.symbol] > 0 /\ done[u.symbol] \in Nat
      BY <2>3, <2>4
    <3>2. accepted[done[u.symbol]] = u.symbol
      BY <2>4, <3>1 DEF Complete
    <3>. QED BY <2>3, <3>1, <3>2
  <2>6. \A i \in DOMAIN publishing'[s] : publishing'[s][i].feed # "top"
    BY <1>2, <2>3
  <2>7. PushNumbered(s)'
    BY <1>1, <1>2, <1>3, <2>6 DEF PushNumbered, ShardFor
  <2>. HIDE DEF u, unread
  <2>8. ASSUME NEW i \in 1 .. (Len(unread) - k)
        PROVE  i + k \in DOMAIN unread /\ ring'["top"][s][i] = unread[i + k]
    BY <2>1, <2>2
  <2>9. ASSUME NEW i \in DOMAIN ring'["top"][s]
        PROVE  i \in 1 .. (Len(unread) - k) \/ i = Len(unread) - k + 1
    BY <2>1, <2>2
  <2>10. ASSUME NEW i \in DOMAIN ring'["top"][s]
         PROVE  LET update == ring'["top"][s][i] IN
                /\ ShardFor(update.symbol) = s
                /\ update.number <= done[update.symbol]
                /\ accepted[update.number] = update.symbol
                /\ inTurn[update.symbol] < update.number
    <3>1. CASE i = Len(unread) - k + 1
      BY <2>1, <2>3, <2>5, <3>1
    <3>2. CASE i \in 1 .. (Len(unread) - k)
      BY SMTT(40), <1>3, <2>8, <3>2 DEF RingNumbered, unread
    <3>. QED BY <2>9, <3>1, <3>2
  <2>11. ASSUME NEW i \in DOMAIN ring'["top"][s], NEW j \in DOMAIN ring'["top"][s], i < j,
                ring'["top"][s][j].symbol = ring'["top"][s][i].symbol
         PROVE  ring'["top"][s][i].number < ring'["top"][s][j].number
    <3>1. i \in 1 .. (Len(unread) - k)
      BY <2>1, <2>2, <2>11
    <3>2. CASE j = Len(unread) - k + 1
      <4>1. unread[i + k].symbol = u.symbol
        BY <2>1, <2>8, <2>11, <3>1, <3>2
      <4>. QED BY <2>1, <2>3, <2>8, <3>1, <3>2, <4>1
    <3>3. CASE j \in 1 .. (Len(unread) - k)
      <4>1. i + k < j + k
        BY <2>11, <3>1, <3>3
      <4>2. /\ i + k \in DOMAIN unread /\ ring'["top"][s][i] = unread[i + k]
            /\ j + k \in DOMAIN unread /\ ring'["top"][s][j] = unread[j + k]
        BY <2>8, <3>1, <3>3
      <4>. QED BY <1>3, <2>11, <4>1, <4>2 DEF RingNumbered, unread
    <3>. QED BY <2>9, <3>2, <3>3
  <2>12. RingNumbered(s)'
    BY <1>1, <2>10, <2>11 DEF RingNumbered, ShardFor
  <2>. QED BY <2>7, <2>12
<1>7. \A symbol \in Symbols : inTurn'[symbol] <= done'[symbol]
  BY <1>1 DEF Numbered
<1>. QED BY <1>4, <1>5, <1>6, <1>7 DEF Numbered

LEMMA PublishNewest ==
  ASSUME TypeOK, Numbered, Newest, NEW s \in Shards, Publish(s)
  PROVE  Newest'
<1>. DEFINE u == publishing[s][1]
            unread == ring["top"][s]
<1>1. UNCHANGED <<last, quote>> /\ missed \subseteq missed'
  BY DEF Publish
<1>2. /\ DOMAIN publishing'[s] = 1 .. (Len(publishing[s]) - 1) /\ 1 \in DOMAIN publishing[s]
      /\ \A i \in DOMAIN publishing'[s] :
           publishing'[s][i] = publishing[s][i + 1] /\ i + 1 \in DOMAIN publishing[s] /\ i + 1 # 1
      /\ \A i \in DOMAIN publishing[s] :
           i # 1 => i - 1 \in DOMAIN publishing'[s] /\ publishing'[s][i - 1] = publishing[s][i]
      /\ \A t \in Shards : t # s => publishing'[t] = publishing[t]
  <2>1. publishing[s] \in Seq(UpdateType)
    BY Entries
  <2>2. DOMAIN publishing'[s] = 1 .. (Len(publishing[s]) - 1)
    BY Publishing
  <2>3. \A i \in DOMAIN publishing'[s] : i + 1 # 1
    BY <2>1, <2>2
  <2>4. \A i \in DOMAIN publishing[s] : i # 1 => i - 1 \in DOMAIN publishing'[s] /\ (i - 1) + 1 = i
    BY <2>1, <2>2
  <2>. QED BY <2>3, <2>4, Publishing
<1>3. PushNumbered(s)
  BY DEF Numbered
<1>. SUFFICES ASSUME NEW symbol \in Symbols PROVE NewestOf(symbol)'
  BY DEF Newest
<1>4. ShardFor(symbol) \in Shards /\ NewestOf(symbol) /\ ShardFor(symbol)' = ShardFor(symbol)
  BY EveryShard DEF Newest, ShardFor
<1>5. CASE ShardFor(symbol) # s
  <2>1. publishing'[ShardFor(symbol)] = publishing[ShardFor(symbol)]
        /\ ring'["top"][ShardFor(symbol)] = ring["top"][ShardFor(symbol)]
    BY <1>2, <1>4, <1>5, PushedTops
  <2>. QED BY <1>1, <1>4, <2>1, NewestStill
<1>6. CASE ShardFor(symbol) = s /\ u.feed # "top"
  <2>1. ring'["top"][s] = ring["top"][s]
    BY <1>6, PushedTops
  <2>2. ToSend(symbol)' = ToSend(symbol)
    BY <1>4, <1>6, <2>1 DEF ToSend
  <2>3. \A i \in ToPush(symbol)' : i + 1 \in ToPush(symbol)
    BY <1>2, <1>4, <1>6 DEF ToPush
  <2>4. \A i \in ToPush(symbol) : i - 1 \in ToPush(symbol)'
    BY <1>2, <1>4, <1>6 DEF ToPush
  <2>5. \A i \in ToPush(symbol)' : publishing'[s][i].top = last[symbol]
    <3>1. \A i \in ToPush(symbol)' : publishing'[s][i] = publishing[s][i + 1]
      BY <1>2, <1>4, <1>6 DEF ToPush
    <3>. QED BY <1>4, <1>6, <2>3, <3>1 DEF NewestOf
  <2>6. ToPush(symbol)' = {} => ToPush(symbol) = {}
    BY <2>4
  <2>. QED BY <1>1, <1>4, <1>6, <2>1, <2>2, <2>5, <2>6 DEF NewestOf
<1>7. CASE ShardFor(symbol) = s /\ u.feed = "top"
  <2>1. PICK k \in {0, 1} :
          /\ Len(unread) - k \in Nat
          /\ DOMAIN ring'["top"][s] = 1 .. (Len(unread) - k + 1)
          /\ \A i \in 1 .. (Len(unread) - k) : ring'["top"][s][i] = unread[i + k]
          /\ ring'["top"][s][Len(unread) - k + 1] = u
          /\ k = 1 => unread[1].symbol \in missed'
    BY <1>7, PushedTops
  <2>2. DOMAIN unread = 1 .. Len(unread) /\ Len(unread) \in Nat
    BY Entries
  <2>3. \A j \in DOMAIN publishing[s] : publishing[s][j].feed = "top" => j = 1
    BY <1>2, <1>3, <1>7 DEF PushNumbered
  <2>4. ToPush(symbol)' = {}
    BY <1>2, <1>4, <1>7, <2>3 DEF ToPush
  <2>5. 1 \in ToPush(symbol) => u.top = last[symbol]
    BY <1>4, <1>7 DEF NewestOf
  <2>6. /\ 1 \in ToPush(symbol) <=> u.symbol = symbol
        /\ u.symbol # symbol => ToPush(symbol) = {}
    BY <1>2, <1>7, <2>3 DEF ToPush
  <2>7. /\ \A i \in ToSend(symbol)' :
             i \in DOMAIN ring'["top"][s] /\ ring'["top"][s][i].symbol = symbol
        /\ \A i \in DOMAIN ring'["top"][s] :
             ring'["top"][s][i].symbol = symbol => i \in ToSend(symbol)'
        /\ \A i \in DOMAIN unread : unread[i].symbol = symbol <=> i \in ToSend(symbol)
        /\ \A i \in ToSend(symbol) : i \in DOMAIN unread
    BY <1>4, <1>7 DEF ToSend
  <2>. HIDE DEF u, unread
  <2>8. CASE u.symbol = symbol
    <3>1. Len(unread) - k + 1 \in ToSend(symbol)'
      BY <2>1, <2>7, <2>8
    <3>2. ASSUME NEW i \in ToSend(symbol)', \A j \in ToSend(symbol)' : j <= i
          PROVE  ring'["top"][s][i].top = last[symbol]
      <4>1. i \in 1 .. (Len(unread) - k + 1) /\ Len(unread) - k + 1 <= i
        BY <2>1, <2>7, <3>1, <3>2
      <4>2. i = Len(unread) - k + 1
        BY <2>1, <4>1
      <4>. QED BY <2>1, <2>5, <2>6, <2>8, <4>2
    <3>. QED BY <1>1, <1>4, <1>7, <2>4, <3>1, <3>2 DEF NewestOf
  <2>9. CASE u.symbol # symbol
    <3>1. ToPush(symbol) = {}
      BY <2>6, <2>9
    <3>2. ASSUME NEW i \in ToSend(symbol)'
          PROVE  i \in 1 .. (Len(unread) - k) /\ i + k \in ToSend(symbol)
                 /\ ring'["top"][s][i] = unread[i + k]
      <4>1. i \in 1 .. (Len(unread) - k + 1) /\ i # Len(unread) - k + 1
        BY <2>1, <2>7, <2>9, <3>2
      <4>2. i \in 1 .. (Len(unread) - k)
        BY <2>1, <4>1
      <4>3. i + k \in DOMAIN unread
        BY <2>1, <2>2, <4>2
      <4>4. ring'["top"][s][i] = unread[i + k]
        BY <2>1, <4>2
      <4>. QED BY <2>7, <3>2, <4>2, <4>3, <4>4
    <3>3. ASSUME NEW i \in ToSend(symbol), i > k
          PROVE  i - k \in ToSend(symbol)'
      <4>1. i \in 1 .. Len(unread) /\ unread[i].symbol = symbol
        BY <2>2, <2>7
      <4>2. i - k \in 1 .. (Len(unread) - k) /\ i - k \in 1 .. (Len(unread) - k + 1)
            /\ (i - k) + k = i
        BY <2>1, <2>2, <3>3, <4>1
      <4>3. ring'["top"][s][i - k] = unread[i]
        BY <2>1, <4>2
      <4>. QED BY <2>1, <2>7, <4>1, <4>2, <4>3
    <3>4. ASSUME NEW i \in ToSend(symbol)', \A j \in ToSend(symbol)' : j <= i
          PROVE  ring'["top"][s][i].top = last[symbol]
      <4>1. ASSUME NEW j \in ToSend(symbol) PROVE j <= i + k
        <5>1. j \in Nat /\ i \in Nat
          BY <2>2, <2>7, <3>2
        <5>2. CASE j > k
          <6>1. j - k <= i
            BY <3>3, <3>4, <5>2
          <6>. QED BY <5>1, <6>1
        <5>3. CASE ~(j > k)
          BY <5>1, <5>3
        <5>. QED BY <5>2, <5>3
      <4>2. unread[i + k].top = last[symbol]
        BY <1>4, <1>7, <3>1, <3>2, <4>1 DEF NewestOf, unread
      <4>. QED BY <3>2, <4>2
    <3>5. ASSUME ToSend(symbol)' = {}
          PROVE  symbol \in missed' \/ quote[symbol].top = last[symbol]
      <4>1. CASE ToSend(symbol) = {}
        BY <1>1, <1>4, <3>1, <4>1 DEF NewestOf
      <4>2. ASSUME NEW i \in ToSend(symbol) PROVE symbol \in missed'
        <5>1. i \in 1 .. Len(unread) /\ ~(i > k)
          BY <2>2, <2>7, <3>3, <3>5
        <5>2. i = 1 /\ k = 1
          BY <2>2, <5>1
        <5>. QED BY <2>1, <2>2, <2>7, <5>1, <5>2
      <4>. QED BY <4>1, <4>2
    <3>. QED BY <1>1, <1>4, <1>7, <2>4, <3>4, <3>5 DEF NewestOf
  <2>. QED BY <2>8, <2>9
<1>. QED BY <1>5, <1>6, <1>7

LEMMA PublishStep ==
  ASSUME Controlled, Placed, NEW s \in Shards, Publish(s)
  PROVE  Controlled' /\ Placed'
<1>. USE DEF Controlled, Placed, entryVars
<1>1. UNCHANGED <<owner, starts, entryVars, pump, message, stamped, inbound, worker, last, done,
                  reader, quote, inTurn>>
  BY DEF Publish
<1>2. Stages' /\ Waiting' /\ Routed' /\ Complete'
  BY <1>1, UpdatesMove
<1>3. /\ ring' \in [Feeds -> [Shards -> Seq(UpdateType)]] /\ missed' \subseteq Symbols
      /\ \A g \in Feeds, t \in Shards : Len(ring'[g][t]) <= OutboundCapacity
  <2>1. PICK f \in Feeds : f = publishing[s][1].feed
    <3>1. publishing[s][1].feed \in Feeds
      BY Publishing DEF UpdateType
    <3>. QED BY <3>1
  <2>2. /\ ring' \in [Feeds -> [Shards -> Seq(UpdateType)]] /\ missed' \subseteq Symbols
        /\ Len(ring'[f][s]) <= OutboundCapacity
        /\ \A g \in Feeds, t \in Shards : g # f \/ t # s => ring'[g][t] = ring[g][t]
    BY <2>1, Pushed
  <2>3. \A g \in Feeds, t \in Shards : Len(ring[g][t]) <= OutboundCapacity
    BY DEF TypeOK
  <2>. QED BY <2>2, <2>3
<1>4. publishing' \in [Shards -> Seq(UpdateType)]
      /\ \A t \in Shards : publishing[t] = <<>> => publishing'[t] = <<>>
  <2>1. publishing \in [Shards -> Seq(UpdateType)]
    BY DEF TypeOK
  <2>2. publishing' = [publishing EXCEPT ![s] = Tail(@)] /\ publishing'[s] \in Seq(UpdateType)
        /\ publishing[s] # <<>> /\ \A t \in Shards : t # s => publishing'[t] = publishing[t]
    BY Publishing
  <2>. QED BY <2>1, <2>2
<1>5. TypeOK'
  BY <1>1, <1>3, <1>4 DEF TypeOK
<1>6. Threads'
  <2>1. worker[s] # "none"
    BY Publishing DEF Threads
  <2>2. \A f \in Feeds : reader[f] # "none"
    <3>1. owner \notin {"stopped", "feeds"}
      BY <2>1 DEF Threads
    <3>. QED BY <3>1 DEF Threads
  <2>. QED BY <1>1, <1>4, <2>2 DEF Threads
<1>7. Numbered' /\ Newest'
  BY PublishNumbered, PublishNewest
<1>. QED BY <1>2, <1>5, <1>6, <1>7

-------------------------------------------------------------------------------
(* The readers.                                                             *)

Oldest(s) == ring["top"][s][1]

\* What a reader has read leaves its ring, and the rest moves up.
LEMMA Polling ==
  ASSUME TypeOK, NEW f \in Feeds, NEW s \in Shards, Polls(f, s), Polled(f, s)
  PROVE  /\ ring' \in [Feeds -> [Shards -> Seq(UpdateType)]]
         /\ \A g \in Feeds, t \in Shards : Len(ring'[g][t]) <= OutboundCapacity
         /\ \A g \in Feeds, t \in Shards : g # f \/ t # s => ring'[g][t] = ring[g][t]
         /\ 1 \in DOMAIN ring[f][s] /\ Head(ring[f][s]) = ring[f][s][1]
         /\ ring[f][s][1] \in UpdateType
         /\ DOMAIN ring'[f][s] = 1 .. (Len(ring[f][s]) - 1)
         /\ \A i \in 1 .. (Len(ring[f][s]) - 1) :
              ring'[f][s][i] = ring[f][s][i + 1] /\ i + 1 \in DOMAIN ring[f][s]
<1>1. ring[f][s] \in Seq(UpdateType) /\ ring[f][s] # <<>>
      /\ ring' = [ring EXCEPT ![f][s] = Tail(@)]
  BY DEF Polls, Polled, TypeOK
<1>2. /\ Tail(ring[f][s]) \in Seq(UpdateType) /\ Len(Tail(ring[f][s])) = Len(ring[f][s]) - 1
      /\ DOMAIN Tail(ring[f][s]) = 1 .. (Len(ring[f][s]) - 1) /\ Len(ring[f][s]) \in Nat
      /\ \A i \in 1 .. (Len(ring[f][s]) - 1) :
           Tail(ring[f][s])[i] = ring[f][s][i + 1] /\ i + 1 \in DOMAIN ring[f][s]
      /\ 1 \in DOMAIN ring[f][s] /\ Head(ring[f][s]) = ring[f][s][1]
      /\ ring[f][s][1] \in UpdateType
  BY <1>1, HeadAndTail
<1>3. /\ ring' \in [Feeds -> [Shards -> Seq(UpdateType)]]
      /\ ring'[f][s] = Tail(ring[f][s])
      /\ \A g \in Feeds, t \in Shards : g # f \/ t # s => ring'[g][t] = ring[g][t]
  BY <1>1, <1>2 DEF TypeOK
<1>4. \A g \in Feeds, t \in Shards : Len(ring'[g][t]) <= OutboundCapacity
  <2>1. \A g \in Feeds, t \in Shards : Len(ring[g][t]) <= OutboundCapacity
    BY DEF TypeOK
  <2>2. Len(ring'[f][s]) <= OutboundCapacity
    BY <1>2, <1>3, <2>1
  <2>. QED BY <1>3, <2>1, <2>2
<1>. QED BY <1>2, <1>3, <1>4

\* The number sent in turn may be that of the update that has left the ring.
LEMMA ReadNumbered ==
  ASSUME TypeOK, Numbered, NEW s \in Shards, Polls("top", s), Polled("top", s),
         \/ inTurn' = inTurn
         \/ inTurn' = [inTurn EXCEPT ![Oldest(s).symbol] = Oldest(s).number]
  PROVE  Numbered'
<1>. DEFINE u == Oldest(s)
            unread == ring["top"][s]
<1>1. UNCHANGED <<accepted, done, publishing>>
  BY DEF Polled, entryVars, engineVars
<1>2. "top" \in Feeds
  BY DEF Feeds
<1>3. /\ \A t \in Shards : t # s => ring'["top"][t] = ring["top"][t]
      /\ 1 \in DOMAIN unread /\ unread[1] = u
      /\ DOMAIN ring'["top"][s] = 1 .. (Len(unread) - 1)
      /\ \A i \in 1 .. (Len(unread) - 1) :
           ring'["top"][s][i] = unread[i + 1] /\ i + 1 \in DOMAIN unread
  BY <1>2, Polling DEF Oldest
<1>4. DOMAIN unread = 1 .. Len(unread) /\ Len(unread) \in Nat
  BY Entries
<1>5. PushNumbered(s) /\ RingNumbered(s)
  BY DEF Numbered
<1>6. ShardFor(u.symbol) = s /\ u.number <= done[u.symbol] /\ u.symbol \in Symbols
  <2>1. ShardFor(u.symbol) = s /\ u.number <= done[u.symbol]
    BY <1>3, <1>5 DEF RingNumbered
  <2>2. u.symbol \in Symbols
    BY <1>3, Entries
  <2>. QED BY <2>1, <2>2
<1>7. /\ \A symbol \in Symbols : inTurn'[symbol] = inTurn[symbol]
                                  \/ (symbol = u.symbol /\ inTurn'[symbol] = u.number)
  BY <1>6 DEF TypeOK
<1>8. \A symbol \in Symbols : inTurn'[symbol] <= done'[symbol]
  BY <1>1, <1>6, <1>7 DEF Numbered
<1>9. ASSUME NEW t \in Shards, t # s
      PROVE  PushNumbered(t)' /\ RingNumbered(t)'
  <2>1. ring'["top"][t] = ring["top"][t] /\ publishing'[t] = publishing[t]
    BY <1>1, <1>3, <1>9
  <2>2. PushNumbered(t) /\ RingNumbered(t)
    BY DEF Numbered
  <2>3. \A symbol \in Symbols : ShardFor(symbol) = t => inTurn'[symbol] = inTurn[symbol]
    BY <1>6, <1>7, <1>9
  <2>. QED BY <1>1, <2>1, <2>2, <2>3, NumberedStill
<1>. HIDE DEF u, unread
<1>10. PushNumbered(s)'
  <2>1. ASSUME NEW i \in DOMAIN publishing[s], publishing[s][i].feed = "top"
        PROVE  /\ inTurn'[publishing[s][i].symbol] < publishing[s][i].number
               /\ \A j \in DOMAIN ring'["top"][s] :
                    ring'["top"][s][j].symbol = publishing[s][i].symbol =>
                      ring'["top"][s][j].number < publishing[s][i].number
    <3>1. /\ inTurn[publishing[s][i].symbol] < publishing[s][i].number
          /\ \A j \in DOMAIN unread :
               unread[j].symbol = publishing[s][i].symbol =>
                 unread[j].number < publishing[s][i].number
      BY <1>5, <2>1 DEF PushNumbered, unread
    <3>2. publishing[s][i].symbol \in Symbols
      BY Entries
    <3>3. inTurn'[publishing[s][i].symbol] < publishing[s][i].number
      BY <1>3, <1>7, <3>1, <3>2
    <3>4. \A j \in DOMAIN ring'["top"][s] :
            ring'["top"][s][j].symbol = publishing[s][i].symbol =>
              ring'["top"][s][j].number < publishing[s][i].number
      BY SMTT(40), <1>3, <3>1
    <3>. QED BY <3>3, <3>4
  <2>. QED BY <1>1, <1>5, <2>1 DEF PushNumbered, ShardFor
<1>11. RingNumbered(s)'
  <2>1. ASSUME NEW i \in DOMAIN ring'["top"][s]
        PROVE  /\ i \in Nat /\ i + 1 \in DOMAIN unread /\ 1 < i + 1
               /\ ring'["top"][s][i] = unread[i + 1]
    BY <1>3, <1>4
  <2>2. ASSUME NEW i \in DOMAIN ring'["top"][s]
        PROVE  inTurn'[unread[i + 1].symbol] < unread[i + 1].number
    <3>1. inTurn[unread[i + 1].symbol] < unread[i + 1].number
      BY <1>5, <2>1 DEF RingNumbered, unread
    <3>2. unread[i + 1].symbol = u.symbol => u.number < unread[i + 1].number
      BY <1>3, <1>5, <2>1 DEF RingNumbered, unread
    <3>3. unread[i + 1].symbol \in Symbols
      BY <2>1, Entries DEF unread
    <3>. QED BY <1>7, <3>1, <3>2, <3>3
  <2>3. ASSUME NEW i \in DOMAIN ring'["top"][s], NEW j \in DOMAIN ring'["top"][s], i < j,
               unread[j + 1].symbol = unread[i + 1].symbol
        PROVE  unread[i + 1].number < unread[j + 1].number
    <3>1. i + 1 < j + 1
      BY <2>1, <2>3
    <3>. QED BY <1>5, <2>1, <2>3, <3>1 DEF RingNumbered, unread
  <2>4. \A i \in DOMAIN ring'["top"][s] :
          /\ ShardFor(unread[i + 1].symbol) = s
          /\ unread[i + 1].number <= done[unread[i + 1].symbol]
          /\ accepted[unread[i + 1].number] = unread[i + 1].symbol
    BY <1>5, <2>1 DEF RingNumbered, unread
  <2>. QED BY <1>1, <2>1, <2>2, <2>3, <2>4 DEF RingNumbered, ShardFor
<1>. QED BY <1>8, <1>9, <1>10, <1>11 DEF Numbered

\* The symbol of the update that has left the ring is quoted by it, or missed; a
\* quote of another symbol may change if that one has an update to be pushed.
LEMMA ReadNewest ==
  ASSUME TypeOK, Numbered, Newest, NEW s \in Shards, Polls("top", s), Polled("top", s),
         \/ Oldest(s).symbol \in missed'
         \/ quote'[Oldest(s).symbol].top = Oldest(s).top,
         \A symbol \in Symbols :
           symbol # Oldest(s).symbol /\ ToPush(symbol) = {} =>
             /\ symbol \in missed => symbol \in missed'
             /\ quote'[symbol].top = quote[symbol].top
  PROVE  Newest'
<1>. DEFINE u == Oldest(s)
            unread == ring["top"][s]
<1>1. UNCHANGED <<last, publishing>>
  BY DEF Polled, engineVars
<1>2. "top" \in Feeds
  BY DEF Feeds
<1>3. /\ \A t \in Shards : t # s => ring'["top"][t] = ring["top"][t]
      /\ 1 \in DOMAIN unread /\ unread[1] = u
      /\ DOMAIN ring'["top"][s] = 1 .. (Len(unread) - 1)
      /\ \A i \in 1 .. (Len(unread) - 1) :
           ring'["top"][s][i] = unread[i + 1] /\ i + 1 \in DOMAIN unread
  BY <1>2, Polling DEF Oldest
<1>4. DOMAIN unread = 1 .. Len(unread) /\ Len(unread) \in Nat
  BY Entries
<1>5. ShardFor(u.symbol) = s
  BY <1>3 DEF Numbered, RingNumbered
<1>. SUFFICES ASSUME NEW symbol \in Symbols PROVE NewestOf(symbol)'
  BY DEF Newest
<1>6. ShardFor(symbol) \in Shards /\ NewestOf(symbol) /\ ShardFor(symbol)' = ShardFor(symbol)
  BY EveryShard DEF Newest, ShardFor
<1>7. CASE ShardFor(symbol) # s
  <2>1. publishing'[ShardFor(symbol)] = publishing[ShardFor(symbol)]
        /\ ring'["top"][ShardFor(symbol)] = ring["top"][ShardFor(symbol)]
    BY <1>1, <1>3, <1>6, <1>7
  <2>2. symbol # u.symbol
    BY <1>5, <1>7
  <2>. QED BY <1>1, <1>6, <2>1, <2>2, NewestStill
<1>8. CASE ShardFor(symbol) = s
  <2>1. ToPush(symbol)' = ToPush(symbol)
    BY <1>1, <1>6 DEF ToPush
  <2>2. /\ \A i \in ToSend(symbol)' :
             i \in DOMAIN ring'["top"][s] /\ ring'["top"][s][i].symbol = symbol
        /\ \A i \in DOMAIN ring'["top"][s] :
             ring'["top"][s][i].symbol = symbol => i \in ToSend(symbol)'
        /\ \A i \in DOMAIN unread : unread[i].symbol = symbol <=> i \in ToSend(symbol)
        /\ \A i \in ToSend(symbol) : i \in DOMAIN unread
    BY <1>6, <1>8 DEF ToSend
  <2>. SUFFICES ASSUME ToPush(symbol) = {}
                PROVE  /\ \A i \in ToSend(symbol)' :
                            (\A j \in ToSend(symbol)' : j <= i) =>
                              ring'["top"][s][i].top = last[symbol]
                       /\ ToSend(symbol)' = {} =>
                            symbol \in missed' \/ quote'[symbol].top = last[symbol]
    BY <1>1, <1>6, <1>8, <2>1 DEF NewestOf
  <2>3. /\ \A i \in ToSend(symbol) :
             (\A j \in ToSend(symbol) : j <= i) => unread[i].top = last[symbol]
        /\ ToSend(symbol) = {} => symbol \in missed \/ quote[symbol].top = last[symbol]
    BY <1>6, <1>8 DEF NewestOf
  <2>. HIDE DEF u, unread
  <2>4. ASSUME NEW i \in ToSend(symbol)'
        PROVE  i \in Nat \ {0} /\ i + 1 \in ToSend(symbol) /\ ring'["top"][s][i] = unread[i + 1]
    <3>1. i \in 1 .. (Len(unread) - 1) /\ ring'["top"][s][i].symbol = symbol
      BY <1>3, <2>2
    <3>2. i + 1 \in DOMAIN unread /\ ring'["top"][s][i] = unread[i + 1]
      BY <1>3, <3>1
    <3>. QED BY <2>2, <3>1, <3>2
  <2>5. ASSUME NEW i \in ToSend(symbol), i # 1
        PROVE  i - 1 \in ToSend(symbol)'
    <3>1. i \in 1 .. Len(unread) /\ unread[i].symbol = symbol
      BY <1>4, <2>2
    <3>2. i - 1 \in 1 .. (Len(unread) - 1) /\ (i - 1) + 1 = i
      BY <1>4, <2>5, <3>1
    <3>. QED BY <1>3, <2>2, <3>1, <3>2
  <2>6. \A i \in ToSend(symbol) : i \in Nat \ {0}
    BY <1>4, <2>2
  <2>7. ASSUME NEW i \in ToSend(symbol)', \A j \in ToSend(symbol)' : j <= i
        PROVE  ring'["top"][s][i].top = last[symbol]
    <3>1. ASSUME NEW j \in ToSend(symbol) PROVE j <= i + 1
      <4>1. CASE j = 1
        BY <2>4, <4>1
      <4>2. CASE j # 1
        <5>1. j - 1 <= i
          BY <2>5, <2>7, <4>2
        <5>. QED BY <2>4, <2>6, <5>1
      <4>. QED BY <4>1, <4>2
    <3>. QED BY <2>3, <2>4, <3>1
  <2>8. ASSUME ToSend(symbol)' = {}
        PROVE  symbol \in missed' \/ quote'[symbol].top = last[symbol]
    <3>1. ToSend(symbol) \subseteq {1}
      BY <2>5, <2>8
    <3>2. CASE ToSend(symbol) = {}
      <4>1. u.symbol # symbol
        BY <1>3, <2>2, <3>2
      <4>. QED BY <2>3, <3>2, <4>1 DEF u
    <3>3. CASE 1 \in ToSend(symbol)
      <4>1. u.symbol = symbol
        BY <1>3, <2>2, <3>3
      <4>2. \A j \in ToSend(symbol) : j <= 1
        BY <3>1
      <4>3. u.top = last[symbol]
        BY <1>3, <2>3, <3>3, <4>2
      <4>. QED BY <4>1, <4>3 DEF u
    <3>. QED BY <3>1, <3>2, <3>3
  <2>. QED BY <2>7, <2>8
<1>. QED BY <1>7, <1>8

QuoteType == [top : Tops \cup {NoTop, TornTop}, number : 0 .. MaxOrders]

LEMMA PollControlled ==
  ASSUME Controlled, Waiting, Routed, Complete,
         NEW f \in Feeds, NEW s \in Shards, Polls(f, s), Polled(f, s),
         inTurn' \in [Symbols -> 0 .. MaxOrders], quote' \in [Symbols -> QuoteType],
         missed' \subseteq Symbols
  PROVE  Controlled' /\ Waiting' /\ Routed' /\ Complete'
<1>. USE DEF Controlled, entryVars, engineVars
<1>1. UNCHANGED <<owner, starts, entryVars, pump, message, engineVars, reader>>
  BY DEF Polled
<1>2. Stages' /\ Waiting' /\ Routed' /\ Complete'
  BY <1>1, UpdatesMove
<1>3. /\ ring' \in [Feeds -> [Shards -> Seq(UpdateType)]]
      /\ \A g \in Feeds, t \in Shards : Len(ring'[g][t]) <= OutboundCapacity
      /\ \A g \in Feeds, t \in Shards : g # f \/ t # s => ring'[g][t] = ring[g][t]
  BY Polling
<1>4. TypeOK'
  BY <1>1, <1>3 DEF TypeOK, QuoteType
<1>5. Threads'
  <2>1. \A g \in Feeds : reader[g] = "none" => RingsEmpty(g)'
    <3>1. ASSUME NEW g \in Feeds, reader[g] = "none" PROVE RingsEmpty(g)'
      <4>1. g # f /\ RingsEmpty(g)
        BY <3>1 DEF Polls, Threads
      <4>. QED BY <1>3, <4>1 DEF RingsEmpty
    <3>. QED BY <3>1
  <2>2. UNCHANGED <<owner, worker, reader, inbound, publishing>>
    BY <1>1
  <2>. QED BY <2>1, <2>2 DEF Threads
<1>. QED BY <1>2, <1>4, <1>5

\* The update that is being pushed over one that is read is its symbol's newest.
LEMMA Overwriter ==
  ASSUME TypeOK, NEW s \in Shards, Overwriting("top", s), Numbered
  PROVE  /\ Head(publishing[s]) \in UpdateType
         /\ ToPush(Head(publishing[s]).symbol) # {}
<1>1. publishing[s] \in Seq(UpdateType) /\ publishing[s] # <<>>
      /\ Head(publishing[s]).feed = "top"
  BY DEF Overwriting, TypeOK
<1>2. Head(publishing[s]) = publishing[s][1] /\ 1 \in DOMAIN publishing[s]
      /\ publishing[s][1] \in UpdateType
  BY <1>1, HeadAndTail
<1>3. ShardFor(publishing[s][1].symbol) = s
  BY <1>2 DEF Numbered, PushNumbered
<1>4. 1 \in ToPush(publishing[s][1].symbol)
  BY <1>1, <1>2, <1>3 DEF ToPush
<1>. QED BY <1>2, <1>4

LEMMA SendTopOfBookStep ==
  ASSUME Controlled, Placed, NEW s \in Shards, SendTopOfBook(s)
  PROVE  Controlled' /\ Placed'
<1>. USE DEF Controlled, Placed
<1>. DEFINE u == Oldest(s)
            over == Head(publishing[s])
<1>1. "top" \in Feeds /\ Polls("top", s) /\ Polled("top", s)
  BY DEF SendTopOfBook, Feeds
<1>2. Head(ring["top"][s]) = u /\ u \in UpdateType
  BY <1>1, Polling DEF Oldest
<1>3. /\ u.symbol \in Symbols /\ u.number \in 0 .. MaxOrders /\ u.top \in Tops \cup {NoTop}
      /\ inTurn \in [Symbols -> 0 .. MaxOrders] /\ quote \in [Symbols -> QuoteType]
      /\ missed \subseteq Symbols
  <2>1. u.symbol \in Symbols /\ u.number \in 1 .. MaxOrders /\ u.top \in Tops \cup {NoTop}
    BY <1>2 DEF UpdateType
  <2>2. /\ inTurn \in [Symbols -> 0 .. MaxOrders] /\ quote \in [Symbols -> QuoteType]
        /\ missed \subseteq Symbols
    BY DEF TypeOK, QuoteType
  <2>. QED BY <2>1, <2>2
<1>4. /\ inTurn' \in [Symbols -> 0 .. MaxOrders] /\ quote' \in [Symbols -> QuoteType]
      /\ missed' \subseteq Symbols
      /\ \/ inTurn' = inTurn
         \/ inTurn' = [inTurn EXCEPT ![u.symbol] = u.number]
      /\ \/ u.symbol \in missed'
         \/ quote'[u.symbol].top = u.top
      /\ \A symbol \in Symbols :
           symbol # u.symbol /\ ToPush(symbol) = {} =>
             /\ symbol \in missed => symbol \in missed'
             /\ quote'[symbol].top = quote[symbol].top
  <2>. DEFINE sent == [top |-> u.top, number |-> u.number]
  <2>1. \/ /\ quote' = [quote EXCEPT ![u.symbol] = sent]
           /\ inTurn' = [inTurn EXCEPT ![u.symbol] = u.number]
           /\ missed' = missed \ {u.symbol}
        \/ /\ Overwriting("top", s)
           /\ quote' = [quote EXCEPT ![over.symbol] = [top |-> over.top, number |-> over.number]]
           /\ missed' = missed \cup {u.symbol} /\ inTurn' = inTurn
        \/ /\ Overwriting("top", s)
           /\ \E symbol \in {u.symbol, over.symbol} :
                quote' = [quote EXCEPT ![symbol].top = TornTop]
           /\ missed' = missed \cup {u.symbol} /\ inTurn' = inTurn
    BY <1>2 DEF SendTopOfBook
  <2>. HIDE DEF u
  <2>2. CASE /\ quote' = [quote EXCEPT ![u.symbol] = sent]
             /\ inTurn' = [inTurn EXCEPT ![u.symbol] = u.number]
             /\ missed' = missed \ {u.symbol}
    <3>1. sent \in QuoteType /\ sent.top = u.top
      BY <1>3 DEF QuoteType
    <3>. HIDE DEF sent
    <3>2. quote' \in [Symbols -> QuoteType] /\ quote'[u.symbol] = sent
          /\ \A symbol \in Symbols : symbol # u.symbol => quote'[symbol] = quote[symbol]
      BY <1>3, <2>2, <3>1
    <3>3. inTurn' \in [Symbols -> 0 .. MaxOrders] /\ missed' \subseteq Symbols
          /\ \A symbol \in Symbols : symbol # u.symbol /\ symbol \in missed => symbol \in missed'
      BY <1>3, <2>2
    <3>4. quote'[u.symbol].top = u.top
      BY <3>1, <3>2
    <3>. QED BY <2>2, <3>2, <3>3, <3>4
  <2>3. CASE /\ Overwriting("top", s)
             /\ quote' = [quote EXCEPT ![over.symbol] = [top |-> over.top, number |-> over.number]]
             /\ missed' = missed \cup {u.symbol} /\ inTurn' = inTurn
    <3>. DEFINE ahead == [top |-> over.top, number |-> over.number]
    <3>1. over \in UpdateType /\ ToPush(over.symbol) # {}
      BY <2>3, Overwriter
    <3>. HIDE DEF over
    <3>2. over.symbol \in Symbols /\ over.number \in 1 .. MaxOrders
          /\ over.top \in Tops \cup {NoTop}
      BY <3>1 DEF UpdateType
    <3>3. ahead \in QuoteType
      BY <3>2 DEF QuoteType
    <3>4. quote' = [quote EXCEPT ![over.symbol] = ahead]
      BY <2>3
    <3>. HIDE DEF ahead
    <3>5. quote' \in [Symbols -> QuoteType]
          /\ \A symbol \in Symbols : symbol # over.symbol => quote'[symbol] = quote[symbol]
      BY <1>3, <3>3, <3>4
    <3>. QED BY <1>3, <2>3, <3>1, <3>5
  <2>4. ASSUME Overwriting("top", s), NEW symbol \in {u.symbol, over.symbol},
               quote' = [quote EXCEPT ![symbol].top = TornTop],
               missed' = missed \cup {u.symbol}, inTurn' = inTurn
        PROVE  /\ quote' \in [Symbols -> QuoteType] /\ missed' \subseteq Symbols
               /\ \A other \in Symbols :
                    other # u.symbol /\ ToPush(other) = {} => quote'[other] = quote[other]
    <3>1. over \in UpdateType /\ ToPush(over.symbol) # {}
      BY <2>4, Overwriter
    <3>. HIDE DEF over
    <3>2. symbol \in Symbols
      <4>1. over.symbol \in Symbols
        BY <3>1 DEF UpdateType
      <4>. QED BY <1>3, <2>4, <4>1
    <3>3. quote[symbol] \in QuoteType
      BY <1>3, <3>2
    <3>4. [quote[symbol] EXCEPT !.top = TornTop] \in QuoteType
      BY <3>3 DEF QuoteType
    <3>5. quote' = [quote EXCEPT ![symbol] = [quote[symbol] EXCEPT !.top = TornTop]]
      BY <2>4
    <3>6. quote' \in [Symbols -> QuoteType]
          /\ \A other \in Symbols : other # symbol => quote'[other] = quote[other]
      BY <1>3, <3>2, <3>4, <3>5
    <3>. QED BY <1>3, <2>4, <3>1, <3>6
  <2>5. CASE /\ Overwriting("top", s)
             /\ \E symbol \in {u.symbol, over.symbol} :
                  quote' = [quote EXCEPT ![symbol].top = TornTop]
             /\ missed' = missed \cup {u.symbol} /\ inTurn' = inTurn
    <3>1. /\ quote' \in [Symbols -> QuoteType] /\ missed' \subseteq Symbols
          /\ \A other \in Symbols :
               other # u.symbol /\ ToPush(other) = {} => quote'[other] = quote[other]
      BY <2>4, <2>5
    <3>. QED BY <1>3, <2>5, <3>1
  <2>. QED BY <2>1, <2>2, <2>3, <2>5
<1>5. Numbered'
  BY <1>1, <1>4, ReadNumbered
<1>6. Newest'
  BY <1>1, <1>4, ReadNewest
<1>7. Controlled' /\ Waiting' /\ Routed' /\ Complete'
  BY <1>1, <1>4, PollControlled
<1>. QED BY <1>5, <1>6, <1>7

\* An update that is lost, or a trade, quotes nothing.
LEMMA OtherPollStep ==
  ASSUME Controlled, Placed, NEW f \in Feeds, NEW s \in Shards,
         (f = "trade" /\ SendTrade(s)) \/ LoseUpdate(f, s)
  PROVE  Controlled' /\ Placed'
<1>. USE DEF Controlled, Placed
<1>1. Polls(f, s) /\ Polled(f, s) /\ UNCHANGED <<quote, inTurn>>
  BY DEF SendTrade, LoseUpdate
<1>2. Head(ring[f][s]) = ring[f][s][1] /\ ring[f][s][1].symbol \in Symbols
  <2>1. Head(ring[f][s]) = ring[f][s][1] /\ ring[f][s][1] \in UpdateType
    BY <1>1, Polling
  <2>. QED BY <2>1 DEF UpdateType
<1>3. missed' = missed \/ (f = "top" /\ missed' = missed \cup {ring[f][s][1].symbol})
  BY <1>2 DEF SendTrade, LoseUpdate
<1>4. /\ inTurn' \in [Symbols -> 0 .. MaxOrders] /\ quote' \in [Symbols -> QuoteType]
      /\ missed' \subseteq Symbols /\ missed \subseteq missed'
  BY <1>1, <1>2, <1>3 DEF TypeOK, QuoteType
<1>5. Controlled' /\ Waiting' /\ Routed' /\ Complete'
  BY <1>1, <1>4, PollControlled
<1>6. CASE f = "top"
  <2>1. Oldest(s).symbol \in missed'
    BY <1>2, <1>6 DEF LoseUpdate, Oldest
  <2>2. Numbered'
    BY <1>1, <1>6, ReadNumbered
  <2>3. Newest'
    BY <1>1, <1>4, <1>6, <2>1, ReadNewest
  <2>. QED BY <1>5, <2>2, <2>3
<1>7. CASE f # "top"
  <2>1. \A t \in Shards : ring'["top"][t] = ring["top"][t]
    BY <1>1, <1>7, Polling DEF Feeds
  <2>2. UNCHANGED <<accepted, done, publishing, last>>
    BY <1>1 DEF Polled, entryVars, engineVars
  <2>3. Numbered'
    <3>1. ASSUME NEW t \in Shards PROVE PushNumbered(t)' /\ RingNumbered(t)'
      <4>1. PushNumbered(t) /\ RingNumbered(t)
        BY DEF Numbered
      <4>. QED BY <1>1, <2>1, <2>2, <4>1, NumberedStill
    <3>. QED BY <1>1, <2>2, <3>1 DEF Numbered
  <2>4. Newest'
    <3>1. ASSUME NEW symbol \in Symbols PROVE NewestOf(symbol)'
      <4>1. NewestOf(symbol) /\ ShardFor(symbol) \in Shards
        BY EveryShard DEF Newest
      <4>. QED BY <1>1, <1>4, <2>1, <2>2, <4>1, NewestStill
    <3>. QED BY <3>1 DEF Newest
  <2>. QED BY <1>5, <2>3, <2>4
<1>. QED BY <1>6, <1>7

-------------------------------------------------------------------------------
(* The inductive invariant and what follows from it.                        *)

LEMMA InitInv == Init => IInv
<1>. SUFFICES ASSUME Init PROVE IInv
  OBVIOUS
<1>1. DefaultTop(0) \in Tops \cup {NoTop}
      /\ \A symbol \in Symbols : DefaultTop(symbol) \in Tops \cup {NoTop}
  BY DEF DefaultTop
<1>2. quote \in [Symbols -> QuoteType] /\ last \in [Symbols -> Tops \cup {NoTop}]
      /\ \A symbol \in Symbols : quote[symbol].top = last[symbol]
  <2>1. \A symbol \in Symbols : Unquoted(symbol) \in QuoteType
                                /\ Unquoted(symbol).top = DefaultTop(symbol)
    BY <1>1 DEF Unquoted, QuoteType
  <2>. QED BY <1>1, <2>1 DEF Init
<1>3. TypeOK
  <2>1. /\ worker \in [Shards -> ThreadStates] /\ reader \in [Feeds -> ThreadStates]
        /\ inbound \in [Shards -> Seq(OrderType)] /\ publishing \in [Shards -> Seq(UpdateType)]
        /\ ring \in [Feeds -> [Shards -> Seq(UpdateType)]]
    BY DEF Init, ThreadStates
  <2>2. /\ \A s \in Shards : Len(inbound[s]) <= InboundCapacity
        /\ \A f \in Feeds, s \in Shards : Len(ring[f][s]) <= OutboundCapacity
    BY DEF Init
  <2>3. /\ holding \in [Connections -> Symbols \cup {NoSymbol}]
        /\ queue \in Seq(Symbols) /\ Len(queue) <= QueueCapacity /\ accepted \in Seq(Symbols)
        /\ done \in [Symbols -> 0 .. MaxOrders] /\ inTurn \in [Symbols -> 0 .. MaxOrders]
    BY DEF Init
  <2>4. /\ starts \in 0 .. MaxStarts /\ stamped \in 0 .. MaxOrders /\ refused \in 0 .. MaxOrders
        /\ missed \subseteq Symbols /\ message \in Symbols \cup {NoSymbol}
    BY DEF Init
  <2>5. owner = "stopped" /\ listening = FALSE /\ closed = FALSE /\ pump = "none"
    BY DEF Init
  <2>. QED BY <1>2, <2>1, <2>2, <2>3, <2>4, <2>5 DEF TypeOK, QuoteType
<1>4. Stages
  BY DEF Init, Stages
<1>5. Threads
  <2>1. /\ owner = "stopped"
        /\ \A s \in Shards : worker[s] = "none" /\ inbound[s] = <<>> /\ publishing[s] = <<>>
        /\ \A f \in Feeds : reader[f] = "none" /\ RingsEmpty(f)
    BY DEF Init, RingsEmpty
  <2>2. reader["top"] = "none"
    BY <2>1 DEF Feeds
  <2>3. \A s \in Shards : 0 .. (s - 1) \subseteq Shards
    BY DEF Shards
  <2>. QED BY <2>1, <2>2, <2>3 DEF Threads
<1>6. Received = 0
  <2>1. {c \in Connections : holding[c] # NoSymbol} = {}
    BY DEF Init
  <2>2. Cardinality({c \in Connections : holding[c] # NoSymbol}) = 0
    BY <2>1, FS_EmptySet
  <2>3. Len(accepted) = 0 /\ refused = 0
    BY DEF Init
  <2>. QED BY <2>2, <2>3 DEF Received
<1>7. Waiting
  BY <1>6 DEF Init, Waiting
<1>8. Routed /\ Complete
  BY DEF Init, Routed, Complete
<1>9. "top" \in Feeds /\ \A s \in Shards : publishing[s] = <<>> /\ ring["top"][s] = <<>>
  BY DEF Init, Feeds
<1>10. Numbered
  <2>1. \A s \in Shards : PushNumbered(s) /\ RingNumbered(s)
    BY <1>9 DEF PushNumbered, RingNumbered
  <2>2. \A symbol \in Symbols : inTurn[symbol] <= done[symbol]
    BY DEF Init
  <2>. QED BY <2>1, <2>2 DEF Numbered
<1>11. Newest
  <2>1. \A symbol \in Symbols : ToPush(symbol) = {} /\ ToSend(symbol) = {}
    BY <1>9, EveryShard DEF ToPush, ToSend
  <2>. QED BY <1>2, <2>1 DEF Newest, NewestOf
<1>. QED BY <1>3, <1>4, <1>5, <1>7, <1>8, <1>10, <1>11 DEF IInv

LEMMA InvStep == IInv /\ [Next]_vars => IInv'
<1>. SUFFICES ASSUME Controlled, Placed, [Next]_vars PROVE Controlled' /\ Placed'
  BY DEF IInv, Controlled, Placed
<1>1. CASE Start \/ Stop \/ Stopping
  <2>1. Controlled'
    BY <1>1, OwnerControlled
  <2>2. Stages
    BY DEF Controlled
  <2>3. UNCHANGED dataVars /\ (pump' = "submit" <=> pump = "submit")
    BY <1>1, <2>2, OwnerMoves
  <2>4. Placed'
    <3>1. /\ Waiting => Waiting'
          /\ Routed => Routed'
          /\ Complete => Complete'
          /\ Numbered => Numbered'
          /\ Newest => Newest'
      BY <2>3, DataKept
    <3>. QED BY <3>1 DEF Placed
  <2>. QED BY <2>1, <2>4
<1>2. ASSUME NEW c \in Connections, Receive(c) \/ Push(c) PROVE Controlled' /\ Placed'
  BY <1>2, ReceiveStep, PushStep
<1>3. CASE Pop \/ Submit
  BY <1>3, PopStep, SubmitStep
<1>4. ASSUME NEW s \in Shards, Work(s) PROVE Controlled' /\ Placed'
  BY <1>4, ProcessStep, PublishStep DEF Work
<1>5. ASSUME NEW s \in Shards, NEW f \in Feeds, Poll(f, s) PROVE Controlled' /\ Placed'
  BY <1>5, SendTopOfBookStep, OtherPollStep DEF Poll
<1>6. CASE UNCHANGED vars
  <2>. USE <1>6 DEF vars, entryVars, engineVars, feedVars
  <2>1. Controlled'
    BY DEF Controlled, TypeOK, Stages, Threads, RingsEmpty
  <2>2. UNCHANGED dataVars /\ (pump' = "submit" <=> pump = "submit")
    BY DEF dataVars
  <2>3. Placed'
    <3>1. /\ Waiting => Waiting'
          /\ Routed => Routed'
          /\ Complete => Complete'
          /\ Numbered => Numbered'
          /\ Newest => Newest'
      BY <2>2, DataKept
    <3>. QED BY <3>1 DEF Placed
  <2>. QED BY <2>1, <2>3
<1>. QED BY <1>1, <1>2, <1>3, <1>4, <1>5, <1>6 DEF Next

\* The inductive invariant holds in every reachable state.
THEOREM Invariance == Spec => []IInv
BY InitInv, InvStep, PTL DEF Spec

\* Every variable keeps its type, and queue, inbound and outbound rings their capacity.
THEOREM TypeCorrect == Spec => []TypeOK
<1>1. IInv => TypeOK
  BY DEF IInv
<1>. QED BY <1>1, Invariance, PTL

\* When stop() has returned, every order handed over has been through its book, and
\* only a server that was started again has refused any.
THEOREM ShutdownLosesNothingHolds == Spec => []ShutdownLosesNothing
<1>1. ASSUME IInv PROVE ShutdownLosesNothing
  <2>. USE <1>1 DEF IInv
  <2>1. ASSUME owner = "stopped", NEW symbol \in Symbols PROVE done[symbol] = LastOf(symbol)
    <3>. DEFINE S == {0} \cup {n \in DOMAIN accepted : accepted[n] = symbol}
    <3>1. pump = "none" /\ queue = <<>>
      BY <2>1 DEF Stages
    <3>2. Len(accepted) = stamped /\ DOMAIN accepted = 1 .. stamped /\ stamped \in Nat
      BY <3>1 DEF Waiting, TypeOK
    <3>3. \A s \in Shards : inbound[s] = <<>>
      BY <2>1 DEF Threads
    <3>4. ASSUME NEW n \in 1 .. stamped, accepted[n] = symbol PROVE done[symbol] >= n
      BY <3>3, <3>4, EveryShard DEF Complete
    <3>5. done[symbol] \in S /\ done[symbol] \in Nat
      <4>1. done[symbol] \in Nat
        BY DEF TypeOK
      <4>2. done[symbol] > 0 => done[symbol] <= stamped /\ accepted[done[symbol]] = symbol
        BY DEF Complete
      <4>. QED BY <3>2, <4>1, <4>2
    <3>6. \A n \in S : n \in Nat /\ done[symbol] >= n
      BY <3>2, <3>4, <3>5
    <3>. HIDE DEF S
    <3>7. \A n \in S : (\A m \in S : n >= m) => n = done[symbol]
      BY <3>5, <3>6
    <3>8. Max(S) = done[symbol]
      BY <3>5, <3>6, <3>7 DEF Max
    <3>. QED BY <3>8 DEF LastOf, S
  <2>2. refused > 0 => starts > 1
    BY DEF Stages
  <2>. QED BY <2>1, <2>2 DEF ShutdownLosesNothing
<1>. QED BY <1>1, Invariance, PTL

\* When stop() has returned, the last quote of a symbol is the top of its book, but
\* where its last update was lost, and every trade has been sent.
THEOREM QuotesAfterStopHolds == Spec => []QuotesAfterStop
<1>1. ASSUME IInv PROVE QuotesAfterStop
  <2>. USE <1>1 DEF IInv
  <2>. SUFFICES ASSUME owner = "stopped"
                PROVE  /\ \A symbol \in Symbols \ missed : quote[symbol].top = last[symbol]
                       /\ RingsEmpty("trade")
    BY DEF QuotesAfterStop
  <2>1. RingsEmpty("top") /\ RingsEmpty("trade")
    BY DEF Threads, Feeds
  <2>2. \A s \in Shards : publishing[s] = <<>>
    BY DEF Threads
  <2>3. ASSUME NEW symbol \in Symbols PROVE ToPush(symbol) = {} /\ ToSend(symbol) = {}
    <3>1. publishing[ShardFor(symbol)] = <<>> /\ ring["top"][ShardFor(symbol)] = <<>>
      BY <2>1, <2>2, EveryShard DEF RingsEmpty
    <3>. QED BY <3>1 DEF ToPush, ToSend
  <2>. QED BY <2>1, <2>3 DEF Newest, NewestOf
<1>. QED BY <1>1, Invariance, PTL

-------------------------------------------------------------------------------
(* The server implements OrderFlow.                                         *)

LEMMA FlowInit == Init => Exchange!Init
<1>. SUFFICES ASSUME Init PROVE Exchange!Init
  OBVIOUS
<1>1. \A symbol \in Symbols : quote[symbol].number = 0
  BY DEF Init, Unquoted
<1>2. [symbol \in Symbols |-> quote[symbol].number] = [symbol \in Symbols |-> 0]
  BY <1>1
<1>. QED BY <1>2 DEF Init, Exchange!Init

QuoteNumbers == [symbol \in Symbols |-> quote[symbol].number]

\* Most steps move an order or an update and are none of OrderFlow's.
LEMMA FlowStutters ==
  ASSUME UNCHANGED <<accepted, done, quote, inTurn>>
  PROVE  UNCHANGED Exchange!flowVars
BY DEF Exchange!flowVars

\* A push is an order accepted.
LEMMA FlowAccepts ==
  ASSUME IInv, NEW c \in Connections, Push(c)
  PROVE  [Exchange!Next]_(Exchange!flowVars)
<1>. USE DEF IInv
<1>1. UNCHANGED <<done, quote, inTurn>>
  BY DEF Push, engineVars, feedVars
<1>2. CASE accepted' = accepted
  BY <1>1, <1>2, FlowStutters
<1>3. CASE accepted' # accepted
  <2>1. accepted' = Append(accepted, holding[c]) /\ holding[c] \in Symbols
    BY <1>3 DEF Push, TypeOK
  <2>2. Len(accepted) < MaxOrders
    <3>1. Len(accepted) < Received /\ Received <= MaxOrders
      BY ReceivedByPush DEF Waiting
    <3>2. Len(accepted) \in Nat /\ Received \in Nat
      BY SMTT(40), ReceivedParts DEF TypeOK
    <3>. QED BY <3>1, <3>2
  <2>3. Exchange!Accept(holding[c])
    BY <1>1, <2>1, <2>2 DEF Exchange!Accept
  <2>. QED BY <2>1, <2>3 DEF Exchange!Next
<1>. QED BY <1>2, <1>3

\* process() takes the next order of its symbol: what came before has gone through
\* the same shard, in order.
LEMMA FlowProcesses ==
  ASSUME IInv, NEW s \in Shards, Process(s)
  PROVE  Exchange!Next
<1>. USE DEF IInv
<1>. DEFINE order == First(s)
<1>1. UNCHANGED <<accepted, quote, inTurn>>
  BY DEF Process, entryVars, feedVars
<1>2. /\ order.symbol \in Symbols /\ order.number \in Nat \ {0} /\ 1 \in DOMAIN inbound[s]
      /\ done' = [done EXCEPT ![order.symbol] = order.number] /\ inbound[s][1] = order
  BY Processing DEF First
<1>3. /\ order.number <= stamped /\ accepted[order.number] = order.symbol
      /\ ShardFor(order.symbol) = s /\ done[order.symbol] < order.number
      /\ \A j \in DOMAIN inbound[s] : 1 < j => order.number < inbound[s][j].number
  BY <1>2 DEF Routed
<1>. HIDE DEF order
<1>4. stamped \in Nat /\ stamped <= Len(accepted) /\ DOMAIN accepted = 1 .. Len(accepted)
      /\ Len(accepted) \in Nat /\ done[order.symbol] \in Nat
  <2>1. stamped \in Nat /\ DOMAIN accepted = 1 .. Len(accepted) /\ Len(accepted) \in Nat
        /\ Len(queue) \in Nat /\ done[order.symbol] \in Nat
    <3>1. done[order.symbol] \in Nat /\ stamped \in Nat
      <4>1. order.symbol \in Symbols
        BY <1>2
      <4>2. \A symbol \in Symbols : done[symbol] \in Nat
        BY DEF TypeOK
      <4>3. stamped \in Nat
        BY DEF TypeOK
      <4>. QED BY <4>1, <4>2, <4>3
    <3>2. accepted \in Seq(Symbols) /\ queue \in Seq(Symbols)
      BY DEF TypeOK
    <3>. QED BY <3>1, <3>2
  <2>2. stamped <= Len(accepted)
    BY <2>1 DEF Waiting
  <2>. QED BY <2>1, <2>2
<1>5. order.number \in DOMAIN accepted
  BY <1>2, <1>3, <1>4
<1>6. ASSUME NEW earlier \in (done[order.symbol] + 1) .. (order.number - 1),
             accepted[earlier] = order.symbol
      PROVE  FALSE
  <2>1. earlier \in 1 .. stamped /\ ~(done[order.symbol] >= earlier)
        /\ earlier \in Nat /\ earlier < order.number
    BY <1>2, <1>3, <1>4, <1>6
  <2>2. PICK i \in DOMAIN inbound[s] : inbound[s][i].number = earlier
    BY <1>3, <1>6, <2>1 DEF Complete
  <2>3. i = 1 \/ 1 < i
    <3>1. inbound[s] \in Seq(OrderType)
      BY Entries
    <3>. QED BY <2>2, <3>1
  <2>4. order.number <= earlier
    BY <1>2, <1>3, <2>1, <2>2, <2>3
  <2>. QED BY <1>2, <2>1, <2>4
<1>7. Exchange!IsNext(order.symbol, order.number)
  BY <1>3, <1>6 DEF Exchange!IsNext
<1>8. Exchange!Process(order.symbol)
  BY <1>1, <1>2, <1>5, <1>7 DEF Exchange!Process
<1>. QED BY <1>2, <1>8 DEF Exchange!Next

\* An update that is sent is a quote, in its turn or as the one that overwrites it;
\* a torn one quotes no other order.
LEMMA FlowQuotes ==
  ASSUME IInv, NEW s \in Shards, SendTopOfBook(s)
  PROVE  [Exchange!Next]_(Exchange!flowVars)
<1>. USE DEF IInv
<1>. DEFINE u == Oldest(s)
            over == Head(publishing[s])
            sent == [top |-> u.top, number |-> u.number]
            ahead == [top |-> over.top, number |-> over.number]
<1>1. UNCHANGED <<accepted, done>> /\ Polls("top", s) /\ Polled("top", s) /\ "top" \in Feeds
  BY DEF SendTopOfBook, Polled, entryVars, engineVars, Feeds
<1>2. Head(ring["top"][s]) = u /\ u \in UpdateType /\ 1 \in DOMAIN ring["top"][s]
      /\ ring["top"][s][1] = u
  BY <1>1, Polling DEF Oldest
<1>3. /\ u.number <= done[u.symbol] /\ accepted[u.number] = u.symbol
      /\ inTurn[u.symbol] < u.number
  BY <1>2 DEF Numbered, RingNumbered
<1>4. \A symbol \in Symbols : inTurn[symbol] \in Nat /\ done[symbol] \in Nat
  BY DEF TypeOK
<1>5. quote \in [Symbols -> QuoteType]
  BY DEF TypeOK, QuoteType
<1>6. ASSUME NEW symbol \in Symbols, NEW number \in Nat, NEW top,
             quote' = [quote EXCEPT ![symbol] = [top |-> top, number |-> number]],
             inTurn[symbol] < number, number <= done[symbol], accepted[number] = symbol,
             inTurn' \in {inTurn, [inTurn EXCEPT ![symbol] = number]}
      PROVE  Exchange!Next
  <2>1. QuoteNumbers' = [QuoteNumbers EXCEPT ![symbol] = number]
    <3>1. \A other \in Symbols :
            quote'[other].number = IF other = symbol THEN number ELSE quote[other].number
      BY <1>5, <1>6
    <3>. QED BY <3>1 DEF QuoteNumbers
  <2>2. number \in (inTurn[symbol] + 1) .. done[symbol]
    BY <1>4, <1>6
  <2>3. Exchange!Quote(symbol)
    BY <1>1, <1>6, <2>1, <2>2 DEF Exchange!Quote, QuoteNumbers
  <2>. QED BY <2>3 DEF Exchange!Next
<1>7. u.symbol \in Symbols /\ u.number \in Nat
  BY <1>2 DEF UpdateType
<1>8. \/ /\ quote' = [quote EXCEPT ![u.symbol] = sent]
         /\ inTurn' = [inTurn EXCEPT ![u.symbol] = u.number]
      \/ /\ Overwriting("top", s) /\ inTurn' = inTurn
         /\ quote' = [quote EXCEPT ![over.symbol] = ahead]
      \/ /\ inTurn' = inTurn
         /\ \E symbol \in {u.symbol, over.symbol} :
              quote' = [quote EXCEPT ![symbol].top = TornTop]
  BY <1>2 DEF SendTopOfBook
<1>9. CASE /\ quote' = [quote EXCEPT ![u.symbol] = sent]
           /\ inTurn' = [inTurn EXCEPT ![u.symbol] = u.number]
  <2>. HIDE DEF u
  <2>1. Exchange!Next
    BY <1>3, <1>6, <1>7, <1>9
  <2>. QED BY <2>1
<1>10. CASE /\ Overwriting("top", s) /\ inTurn' = inTurn
            /\ quote' = [quote EXCEPT ![over.symbol] = ahead]
  <2>1. publishing[s] \in Seq(UpdateType) /\ publishing[s] # <<>> /\ over.feed = "top"
    BY <1>10 DEF Overwriting, TypeOK
  <2>2. over = publishing[s][1] /\ 1 \in DOMAIN publishing[s] /\ over \in UpdateType
    BY <2>1, HeadAndTail
  <2>3. over.number = done[over.symbol] /\ inTurn[over.symbol] < over.number
    BY <2>1, <2>2 DEF Numbered, PushNumbered
  <2>4. over.symbol \in Symbols /\ over.number \in Nat \ {0}
    BY <2>2 DEF UpdateType
  <2>5. accepted[over.number] = over.symbol
    <3>1. done[over.symbol] > 0
      BY <2>3, <2>4
    <3>. QED BY <2>3, <2>4, <3>1 DEF Complete
  <2>. HIDE DEF over
  <2>6. over.number \in Nat /\ over.number <= done[over.symbol]
    BY <2>3, <2>4
  <2>7. Exchange!Next
    BY <1>6, <1>10, <2>3, <2>4, <2>5, <2>6
  <2>. QED BY <2>7
<1>11. ASSUME inTurn' = inTurn, NEW symbol, quote' = [quote EXCEPT ![symbol].top = TornTop]
       PROVE  UNCHANGED Exchange!flowVars
  <2>1. \A other \in Symbols : quote'[other].number = quote[other].number
    BY <1>5, <1>11 DEF QuoteType
  <2>2. QuoteNumbers' = QuoteNumbers
    BY <2>1 DEF QuoteNumbers
  <2>. QED BY <1>1, <1>11, <2>2 DEF Exchange!flowVars, QuoteNumbers
<1>. QED BY <1>8, <1>9, <1>10, <1>11

LEMMA FlowStep == IInv /\ [Next]_vars => [Exchange!Next]_(Exchange!flowVars)
<1>. SUFFICES ASSUME IInv, [Next]_vars PROVE [Exchange!Next]_(Exchange!flowVars)
  OBVIOUS
<1>1. CASE Start \/ Stop \/ Stopping
  <2>1. UNCHANGED dataVars
    BY <1>1, OwnerMoves DEF IInv
  <2>. QED BY <2>1, FlowStutters DEF dataVars
<1>2. ASSUME NEW c \in Connections, Receive(c) \/ Push(c)
      PROVE  [Exchange!Next]_(Exchange!flowVars)
  <2>1. CASE Receive(c)
    BY <2>1, FlowStutters DEF Receive, engineVars, feedVars
  <2>. QED BY <1>2, <2>1, FlowAccepts
<1>3. CASE Pop \/ Submit \/ UNCHANGED vars
  BY <1>3, FlowStutters DEF Pop, Submit, vars, entryVars, engineVars, feedVars
<1>4. ASSUME NEW s \in Shards, Work(s) PROVE [Exchange!Next]_(Exchange!flowVars)
  <2>1. CASE Publish(s)
    BY <2>1, FlowStutters DEF Publish, entryVars
  <2>. QED BY <1>4, <2>1, FlowProcesses DEF Work
<1>5. ASSUME NEW s \in Shards, NEW f \in Feeds, Poll(f, s)
      PROVE  [Exchange!Next]_(Exchange!flowVars)
  <2>1. CASE SendTrade(s) \/ LoseUpdate(f, s)
    BY <2>1, FlowStutters DEF SendTrade, LoseUpdate, Polled, entryVars, engineVars
  <2>. QED BY <1>5, <2>1, FlowQuotes DEF Poll
<1>. QED BY <1>1, <1>2, <1>3, <1>4, <1>5 DEF Next

\* Whatever the threads, queues, shards and rings do, the server shows its users
\* nothing but OrderFlow.
THEOREM ServerImplementsOrderFlow == Spec => ExchangeSpec
BY Invariance, FlowInit, FlowStep, PTL DEF Spec, ExchangeSpec, Exchange!Spec
===============================================================================
