---------------------------- MODULE MpscQueueProofs ----------------------------
(***************************************************************************)
(* Proofs about MpscQueue, for any number of producers and any capacity,   *)
(* whether or not close() keeps to its rule.                               *)
(*                                                                         *)
(* Wake-ups: NoSlotForgotten, NoItemForgotten and NoProducerForgotten are  *)
(* inductive next to the types (WInv).  Contents: the queue holds, of each *)
(* producer, exactly the values accepted and not yet popped, ascending     *)
(* (CInv); what is popped next, and what is left at the end, follow.       *)
(***************************************************************************)
EXTENDS MpscQueue, FiniteSetTheorems, TLAPS

Values == Producers \X (1 .. MaxCalls)

\* TypeOK but for the bounds on what is refused and delivered.
Types ==
  /\ items \in Seq(Values)
  /\ Len(items) <= Capacity
  /\ closed \in BOOLEAN
  /\ ppc \in [Producers -> PushPCs]
  /\ cpc \in {"lock", "wait", "notify", "done"}
  /\ kpc \in {"open", "notifyEmpty", "notifyFull", "closed"} /\ closed = (kpc # "open")
  /\ calls \in [Producers -> 0 .. MaxCalls]
  /\ \A p \in Producers : ppc[p] \in {"lock", "wait"} => calls[p] > 0
  /\ refused \in [Producers -> Nat]
  /\ delivered \in [Producers -> Nat]
  /\ last \in {<<>>} \cup Values
  /\ early \in BOOLEAN

WInv == Types /\ NoSlotForgotten /\ NoItemForgotten /\ NoProducerForgotten

-------------------------------------------------------------------------------
USE ProducersAssumption, CapacityAssumption, CallsAssumption

\* Sets of producers are finite, so that counting them makes sense.
LEMMA SetsFinite ==
  IsFiniteSet(Running) /\ IsFiniteSet(Running') /\ Cardinality(Running) \in Nat
    /\ Cardinality(Running') \in Nat
<1>1. Running \subseteq Producers /\ Running' \subseteq Producers
  BY DEF Running
<1>2. IsFiniteSet(Running) /\ IsFiniteSet(Running')
  BY <1>1, FS_Subset
<1>. QED BY <1>2, FS_CardinalityType

\* A producer that comes to the mutex is one more on its way, one that leaves
\* it one less.
LEMMA RunningGrows ==
  ASSUME Types, NEW p \in Producers, ppc[p] # "lock",
         ppc' = [ppc EXCEPT ![p] = "lock"]
  PROVE  Cardinality(Running') = Cardinality(Running) + 1
<1>1. Running' = Running \cup {p} /\ p \notin Running
  BY DEF Running, Types
<1>. QED BY <1>1, SetsFinite, FS_AddElement

LEMMA RunningShrinks ==
  ASSUME Types, NEW p \in Producers, ppc[p] = "lock", NEW x, x # "lock",
         ppc' = [ppc EXCEPT ![p] = x]
  PROVE  Cardinality(Running') = Cardinality(Running) - 1
<1>1. Running' = Running \ {p} /\ p \in Running
  BY DEF Running, Types
<1>. QED BY <1>1, SetsFinite, FS_RemoveElement

\* At the start nothing is queued and every thread is outside.
LEMMA InitTypes == Init => Types
<1>. SUFFICES ASSUME Init PROVE Types
  OBVIOUS
<1>1. items \in Seq(Values) /\ Len(items) <= Capacity /\ last \in {<<>>} \cup Values
  BY DEF Init
<1>2. /\ ppc \in [Producers -> PushPCs]
      /\ \A p \in Producers : ppc[p] \notin {"lock", "wait"}
  BY DEF Init, PushPCs
<1>3. /\ calls \in [Producers -> 0 .. MaxCalls] /\ refused \in [Producers -> Nat]
      /\ delivered \in [Producers -> Nat]
  BY DEF Init
<1>. QED BY <1>1, <1>2, <1>3 DEF Init, Types

\* Every action keeps the types.
LEMMA TypesStep == Types /\ [Next]_vars => Types'
<1>. SUFFICES ASSUME Types, [Next]_vars PROVE Types'
  OBVIOUS
<1>. USE DEF Types, PushPCs, Values
<1>1. ASSUME NEW p \in Producers, Call(p) PROVE Types'
  BY <1>1 DEF Call
<1>2. ASSUME NEW p \in Producers, PushWait(p) PROVE Types'
  BY <1>2 DEF PushWait, history
<1>3. ASSUME NEW p \in Producers, PushRefused(p) PROVE Types'
  <2>1. refused' \in [Producers -> Nat] /\ ppc' \in [Producers -> PushPCs]
    BY <1>3 DEF PushRefused
  <2>2. \A q \in Producers : ppc'[q] \in {"lock", "wait"} => calls'[q] > 0
    BY <1>3 DEF PushRefused
  <2>. QED BY <1>3, <2>1, <2>2 DEF PushRefused
<1>4. ASSUME NEW p \in Producers, PushItem(p) PROVE Types'
  BY <1>4 DEF PushItem, history
<1>5. ASSUME NEW p \in Producers, PushNotify(p) PROVE Types'
  BY <1>5 DEF PushNotify, history
<1>6. ASSUME PopWait \/ PopNullopt PROVE Types'
  BY <1>6 DEF PopWait, PopNullopt, history
<1>7. ASSUME PopItem PROVE Types'
  BY SMTT(40), <1>7 DEF PopItem
<1>8. ASSUME PopNotify PROVE Types'
  BY <1>8 DEF PopNotify, Blocked, history
<1>9. ASSUME Close \/ Closing PROVE Types'
  BY <1>9 DEF Close, Closing, CloseNotifyEmpty, CloseNotifyFull, Blocked, history
<1>10. ASSUME SpuriousWakeup PROVE Types'
  BY <1>10 DEF SpuriousWakeup, Blocked, history
<1>11. ASSUME UNCHANGED vars PROVE Types'
  BY <1>11 DEF vars, threads, history
<1>. HIDE DEF Types
<1>. QED BY <1>1, <1>2, <1>3, <1>4, <1>5, <1>6, <1>7, <1>8, <1>9, <1>10, <1>11
         DEF Next, Push, Pop

-------------------------------------------------------------------------------
(* Wake-ups.                                                                *)

\* As long as someone sleeps in push(), whatever frees a slot sends someone to
\* take it: a pop becomes a notification, a notification a producer at the
\* mutex, and a producer at the mutex leaves it only with a slot or for sleep
\* on a full queue.
LEMMA NoSlotForgottenStep == WInv /\ [Next]_vars => NoSlotForgotten'
<1>. SUFFICES ASSUME WInv, [Next]_vars, ~closed', Blocked' # {}
              PROVE  Room' <= Cardinality(Running') + (IF cpc' = "notify" THEN 1 ELSE 0)
  BY DEF NoSlotForgotten
<1>. DEFINE Goal == Room' <= Cardinality(Running') + (IF cpc' = "notify" THEN 1 ELSE 0)
<1>0. /\ Types /\ Types'
      /\ Cardinality(Running) \in Nat /\ Cardinality(Running') \in Nat
      /\ Room \in Nat /\ Len(items) \in Nat
  <2>1. Types /\ Types'
    BY TypesStep DEF WInv
  <2>. QED BY <2>1, SetsFinite DEF Types, Room
<1>1. ASSUME NEW p \in Producers, Call(p) PROVE Goal
  <2>1. Cardinality(Running') = Cardinality(Running) + 1
    BY <1>0, <1>1, RunningGrows DEF Call
  <2>2. Room' = Room /\ cpc' = cpc /\ ~closed /\ Blocked # {}
    BY <1>0, <1>1 DEF Call, Room, Blocked, Types
  <2>. QED BY <1>0, <2>1, <2>2 DEF WInv, NoSlotForgotten
<1>2. ASSUME NEW p \in Producers, PushWait(p) PROVE Goal
  <2>1. Room' = 0
    BY <1>0, <1>2 DEF PushWait, Room, Types
  <2>. QED BY <1>0, <2>1
<1>3. ASSUME NEW p \in Producers, PushRefused(p) PROVE Goal
  BY <1>3 DEF PushRefused
<1>4. ASSUME NEW p \in Producers, PushItem(p) PROVE Goal
  <2>1. Cardinality(Running') = Cardinality(Running) - 1
    BY <1>0, <1>4, RunningShrinks DEF PushItem
  <2>2. Room' = Room - 1
    BY <1>0, <1>4 DEF PushItem, Room, Types
  <2>3. cpc' = cpc /\ ~closed /\ Blocked # {}
    BY <1>0, <1>4 DEF PushItem, Blocked, Types
  <2>. QED BY <1>0, <2>1, <2>2, <2>3 DEF WInv, NoSlotForgotten
<1>5. ASSUME NEW p \in Producers, PushNotify(p) PROVE Goal
  <2>1. Running' = Running /\ Blocked' = Blocked
    BY <1>0, <1>5 DEF PushNotify, Running, Blocked, Types
  <2>2. Room' = Room /\ ~closed /\ (cpc' = "notify" <=> cpc = "notify")
    BY <1>0, <1>5 DEF PushNotify, Room, Types
  <2>. QED BY <1>0, <2>1, <2>2 DEF WInv, NoSlotForgotten
<1>6. ASSUME PopWait \/ PopNullopt PROVE Goal
  <2>1. Running' = Running /\ Blocked' = Blocked /\ Room' = Room /\ ~closed /\ cpc = "lock"
    BY <1>6 DEF PopWait, PopNullopt, Running, Blocked, Room
  <2>. QED BY <1>0, <2>1 DEF WInv, NoSlotForgotten
<1>7. ASSUME PopItem PROVE Goal
  <2>1. Running' = Running /\ Blocked' = Blocked /\ ~closed /\ cpc = "lock" /\ cpc' = "notify"
    BY <1>7 DEF PopItem, Running, Blocked
  <2>2. Room' = Room + 1
    BY <1>0, <1>7 DEF PopItem, Room, Types
  <2>. QED BY <1>0, <2>1, <2>2 DEF WInv, NoSlotForgotten
<1>8. ASSUME PopNotify PROVE Goal
  <2>1. Room' = Room /\ ~closed /\ cpc = "notify" /\ Blocked # {}
    BY <1>0, <1>8 DEF PopNotify, Room, Blocked, Types
  <2>2. PICK p \in Blocked : ppc' = [ppc EXCEPT ![p] = "lock"]
    BY <1>8, <2>1 DEF PopNotify
  <2>3. Cardinality(Running') = Cardinality(Running) + 1
    BY <1>0, <2>2, RunningGrows DEF Blocked
  <2>. QED BY <1>0, <2>1, <2>3 DEF WInv, NoSlotForgotten
<1>9. ASSUME Close \/ Closing PROVE Goal
  BY <1>0, <1>9 DEF Close, Closing, CloseNotifyEmpty, CloseNotifyFull, Types
<1>10. ASSUME SpuriousWakeup PROVE Goal
  <2>1. Room' = Room /\ ~closed
    BY <1>10 DEF SpuriousWakeup, Room, history
  <2>2. CASE cpc = "wait" /\ cpc' = "lock" /\ UNCHANGED ppc
    BY <1>0, <2>1, <2>2 DEF WInv, NoSlotForgotten, Blocked, Running
  <2>3. CASE cpc' = cpc /\ \E p \in Blocked : ppc' = [ppc EXCEPT ![p] = "lock"]
    <3>1. PICK p \in Blocked : ppc' = [ppc EXCEPT ![p] = "lock"]
      BY <2>3
    <3>2. Cardinality(Running') = Cardinality(Running) + 1
      BY <1>0, <3>1, RunningGrows DEF Blocked
    <3>. QED BY <1>0, <2>1, <2>3, <3>2 DEF WInv, NoSlotForgotten
  <2>. QED BY <1>10, <2>2, <2>3 DEF SpuriousWakeup
<1>11. ASSUME UNCHANGED vars PROVE Goal
  BY <1>11 DEF vars, threads, WInv, NoSlotForgotten, Room, Running, Blocked
<1>. QED BY <1>1, <1>2, <1>3, <1>4, <1>5, <1>6, <1>7, <1>8, <1>9, <1>10, <1>11
         DEF Next, Push, Pop

\* The consumer sleeps only on an empty open queue; who changes that has its
\* notification still to send.
LEMMA NoItemForgottenStep == WInv /\ [Next]_vars => NoItemForgotten'
<1>. SUFFICES ASSUME WInv, [Next]_vars PROVE NoItemForgotten'
  OBVIOUS
<1>. USE DEF WInv, NoItemForgotten, Types
<1>1. ASSUME NEW p \in Producers, Call(p) \/ PushWait(p) \/ PushRefused(p)
      PROVE  NoItemForgotten'
  BY <1>1 DEF Call, PushWait, PushRefused
<1>2. ASSUME NEW p \in Producers, PushItem(p) PROVE NoItemForgotten'
  BY <1>2 DEF PushItem
<1>3. ASSUME NEW p \in Producers, PushNotify(p) PROVE NoItemForgotten'
  BY <1>3 DEF PushNotify
<1>4. ASSUME Pop PROVE NoItemForgotten'
  BY <1>4 DEF Pop, PopWait, PopNullopt, PopItem, PopNotify
<1>5. ASSUME Close \/ CloseNotifyEmpty PROVE NoItemForgotten'
  BY <1>5 DEF Close, CloseNotifyEmpty
<1>6. ASSUME CloseNotifyFull PROVE NoItemForgotten'
  BY <1>6 DEF CloseNotifyFull, Blocked
<1>7. ASSUME SpuriousWakeup PROVE NoItemForgotten'
  BY <1>7 DEF SpuriousWakeup, Blocked
<1>8. ASSUME UNCHANGED vars PROVE NoItemForgotten'
  BY <1>8 DEF vars, threads
<1>. HIDE DEF WInv, NoItemForgotten, Types
<1>. QED BY <1>1, <1>2, <1>3, <1>4, <1>5, <1>6, <1>7, <1>8 DEF Next, Push, Closing

\* Nobody goes to sleep in push() on a closed queue.
LEMMA NoProducerForgottenStep == WInv /\ [Next]_vars => NoProducerForgotten'
<1>. SUFFICES ASSUME WInv, [Next]_vars PROVE NoProducerForgotten'
  OBVIOUS
<1>. USE DEF WInv, NoProducerForgotten, Types, Blocked
<1>1. ASSUME NEW p \in Producers, Call(p) \/ Push(p) PROVE NoProducerForgotten'
  BY <1>1 DEF Call, Push, PushWait, PushRefused, PushItem, PushNotify
<1>2. ASSUME Pop PROVE NoProducerForgotten'
  BY <1>2 DEF Pop, PopWait, PopNullopt, PopItem, PopNotify
<1>3. ASSUME Close \/ Closing PROVE NoProducerForgotten'
  BY <1>3 DEF Close, Closing, CloseNotifyEmpty, CloseNotifyFull
<1>4. ASSUME SpuriousWakeup PROVE NoProducerForgotten'
  BY <1>4 DEF SpuriousWakeup
<1>5. ASSUME UNCHANGED vars PROVE NoProducerForgotten'
  BY <1>5 DEF vars, threads
<1>. HIDE DEF WInv, NoProducerForgotten, Types, Blocked
<1>. QED BY <1>1, <1>2, <1>3, <1>4, <1>5 DEF Next

\* The wake-up invariants hold together in every reachable state.
THEOREM WakeUps == Spec => []WInv
<1>1. Init => WInv
  <2>. SUFFICES ASSUME Init PROVE WInv
    OBVIOUS
  <2>1. Types
    BY InitTypes
  <2>2. Blocked = {} /\ cpc = "lock"
    BY DEF Init, Blocked
  <2>. QED BY <2>1, <2>2 DEF WInv, NoSlotForgotten, NoItemForgotten, NoProducerForgotten
<1>2. WInv /\ [Next]_vars => WInv'
  BY TypesStep, NoSlotForgottenStep, NoItemForgottenStep, NoProducerForgottenStep DEF WInv
<1>. QED BY <1>1, <1>2, PTL DEF Spec

\* No free slot, no item and no sleeping producer goes unnoticed: the wake-ups
\* that push(), pop_blocking() and close() send are enough.
THEOREM NoWakeUpLostHolds == Spec => []NoWakeUpLost
<1>1. WInv => NoWakeUpLost
  BY DEF WInv, NoWakeUpLost
<1>. QED BY WakeUps, <1>1, PTL

-------------------------------------------------------------------------------
(* Contents.                                                                *)

\* The values of p that are past its critical section and were not refused.
Accepted(p) == calls[p] - refused[p] - Pushing(p)

Queued(p, n) == \E i \in 1 .. Len(items) : items[i] = <<p, n>>

\* The values of one producer stand in the queue in the order of its pushes.
Ascending ==
  \A i, j \in 1 .. Len(items) :
    i < j /\ items[i][1] = items[j][1] => items[i][2] < items[j][2]

\* What is queued is what was accepted and not popped.
Pending ==
  \A p \in Producers :
    /\ delivered[p] <= Accepted(p)
    /\ \A n \in Nat : Queued(p, n) <=> delivered[p] < n /\ n <= Accepted(p)

\* Nothing is accepted after the first refusal, and nothing once the consumer
\* has left.
Closed ==
  /\ \A p \in Producers : refused[p] > 0 => closed
  /\ cpc = "done" => closed /\ items = <<>>

CInv == Types /\ Ascending /\ Pending /\ Closed

\* What push() appends.
LEMMA Appended ==
  ASSUME Types, NEW p \in Producers, PushItem(p)
  PROVE  /\ Len(items') = Len(items) + 1
         /\ \A i \in 1 .. Len(items) : items'[i] = items[i]
         /\ items'[Len(items) + 1] = <<p, calls[p]>>
BY DEF PushItem, Types

\* What pop_blocking() leaves.
LEMMA Popped ==
  ASSUME Types, PopItem
  PROVE  /\ Len(items) \in Nat \ {0}
         /\ Len(items') = Len(items) - 1
         /\ \A i \in 1 .. Len(items') : items'[i] = items[i + 1]
         /\ last' = items[1]
         /\ delivered' = [delivered EXCEPT ![items[1][1]] = @ + 1]
<1>1. items \in Seq(Values) /\ items # <<>> /\ items' = Tail(items)
  BY DEF PopItem, Types
<1>2. Head(items) = items[1]
  BY <1>1
<1>3. last' = items[1] /\ delivered' = [delivered EXCEPT ![items[1][1]] = @ + 1]
  BY <1>2 DEF PopItem
<1>. QED BY <1>1, <1>3

\* Every queued value is a pair of a producer and the number of a push.
LEMMA ItemTypes ==
  ASSUME Types, NEW i \in 1 .. Len(items)
  PROVE  /\ items[i] = <<items[i][1], items[i][2]>>
         /\ items[i][1] \in Producers /\ items[i][2] \in 1 .. MaxCalls
<1>1. items[i] \in Values
  BY DEF Types
<1>. QED BY <1>1 DEF Values

\* pop_blocking() takes the oldest value that its producer has in the queue.
LEMMA HeadIsNext ==
  ASSUME CInv, PopItem
  PROVE  /\ items[1][1] \in Producers
         /\ items[1] = <<items[1][1], delivered[items[1][1]] + 1>>
<1>. DEFINE p == items[1][1]
            n == items[1][2]
<1>0. Types /\ 1 \in 1 .. Len(items)
  BY Popped DEF CInv
<1>1. items[1] = <<p, n>> /\ p \in Producers /\ n \in 1 .. MaxCalls
  BY <1>0, ItemTypes
<1>2. delivered[p] \in Nat /\ Accepted(p) \in Int
  BY <1>1, <1>0 DEF Accepted, Pushing, Types
<1>3. delivered[p] < n /\ n <= Accepted(p)
  BY <1>0, <1>1 DEF CInv, Pending, Queued
<1>4. SUFFICES ASSUME delivered[p] + 1 < n PROVE FALSE
  BY <1>1, <1>2, <1>3
<1>5. Queued(p, delivered[p] + 1)
  BY <1>1, <1>2, <1>3, <1>4 DEF CInv, Pending
<1>6. PICK i \in 1 .. Len(items) : items[i] = <<p, delivered[p] + 1>>
  BY <1>5 DEF Queued
<1>7. items[i][1] = p /\ items[i][2] = delivered[p] + 1
  BY <1>6
<1>8. i # 1 /\ 1 < i
  BY <1>0, <1>1, <1>4, <1>6, <1>7, Popped DEF Types
<1>. QED BY <1>0, <1>1, <1>2, <1>4, <1>7, <1>8 DEF CInv, Ascending

\* Values are appended in the order of their pushes.
LEMMA AscendingStep == CInv /\ [Next]_vars => Ascending'
<1>. SUFFICES ASSUME CInv, [Next]_vars PROVE Ascending'
  OBVIOUS
<1>0. Types
  BY DEF CInv
<1>1. ASSUME UNCHANGED items PROVE Ascending'
  BY <1>1 DEF CInv, Ascending
<1>2. ASSUME NEW p \in Producers, PushItem(p) PROVE Ascending'
  <2>. SUFFICES ASSUME NEW i \in 1 .. Len(items'), NEW j \in 1 .. Len(items'),
                       i < j, items'[i][1] = items'[j][1]
                PROVE  items'[i][2] < items'[j][2]
    BY DEF Ascending
  <2>0. Len(items) \in Nat
    BY <1>0 DEF Types
  <2>1. i \in 1 .. Len(items) /\ items'[i] = items[i]
    BY <1>0, <1>2, <2>0, Appended
  <2>2. CASE j \in 1 .. Len(items)
    BY <1>0, <1>2, <2>1, <2>2, Appended DEF CInv, Ascending
  <2>3. CASE j = Len(items) + 1
    <3>1. items'[j] = <<p, calls[p]>>
      BY <1>0, <1>2, <2>3, Appended
    <3>2. items[i] = <<p, items[i][2]>> /\ items[i][2] \in 1 .. MaxCalls
      BY <1>0, <2>1, <3>1, ItemTypes
    <3>3. items[i][2] <= Accepted(p)
      BY <2>1, <3>2 DEF CInv, Pending, Queued
    <3>4. Accepted(p) < calls[p]
      BY <1>0, <1>2 DEF CInv, Closed, Accepted, Pushing, PushItem, Types
    <3>5. Accepted(p) \in Int /\ calls[p] \in Int
      BY <1>0 DEF Accepted, Pushing, Types
    <3>. QED BY <2>1, <3>1, <3>2, <3>3, <3>4, <3>5
  <2>. QED BY <1>0, <1>2, <2>0, <2>2, <2>3, Appended
<1>3. ASSUME PopItem PROVE Ascending'
  <2>1. /\ Len(items) \in Nat /\ Len(items') = Len(items) - 1
        /\ \A i \in 1 .. Len(items') : i + 1 \in 1 .. Len(items) /\ items'[i] = items[i + 1]
    BY <1>0, <1>3, Popped
  <2>. SUFFICES ASSUME NEW i \in 1 .. Len(items'), NEW j \in 1 .. Len(items'),
                       i < j, items'[i][1] = items'[j][1]
                PROVE  items'[i][2] < items'[j][2]
    BY DEF Ascending
  <2>2. i + 1 < j + 1 /\ items[i + 1][1] = items[j + 1][1]
    BY <2>1
  <2>. QED BY <2>1, <2>2 DEF CInv, Ascending
<1>4. ASSUME ~PopItem, \A p \in Producers : ~PushItem(p) PROVE UNCHANGED items
  <2>1. ASSUME NEW p \in Producers, Call(p) \/ Push(p) PROVE UNCHANGED items
    BY <1>4, <2>1 DEF Call, Push, PushWait, PushRefused, PushNotify
  <2>2. ASSUME Pop PROVE UNCHANGED items
    BY <1>4, <2>2 DEF Pop, PopWait, PopNullopt, PopNotify
  <2>3. ASSUME Close \/ Closing \/ SpuriousWakeup PROVE UNCHANGED items
    BY <2>3 DEF Close, Closing, CloseNotifyEmpty, CloseNotifyFull, SpuriousWakeup
  <2>. QED BY <2>1, <2>2, <2>3 DEF Next, vars
<1>. QED BY <1>1, <1>2, <1>3, <1>4

\* A refusal comes after the closing, and so does the consumer's leaving.
LEMMA ClosedStep == CInv /\ [Next]_vars => Closed'
<1>. SUFFICES ASSUME CInv, [Next]_vars PROVE Closed'
  OBVIOUS
<1>. USE DEF CInv, Closed, Types
<1>1. ASSUME NEW p \in Producers, Call(p) \/ PushWait(p) \/ PushItem(p) \/ PushNotify(p)
      PROVE  Closed'
  BY <1>1 DEF Call, PushWait, PushItem, PushNotify, history
<1>2. ASSUME NEW p \in Producers, PushRefused(p) PROVE Closed'
  BY <1>2 DEF PushRefused
<1>3. ASSUME Pop PROVE Closed'
  BY <1>3 DEF Pop, PopWait, PopNullopt, PopItem, PopNotify, history
<1>4. ASSUME Close \/ Closing \/ SpuriousWakeup PROVE Closed'
  BY <1>4 DEF Close, Closing, CloseNotifyEmpty, CloseNotifyFull, SpuriousWakeup, history
<1>5. ASSUME UNCHANGED vars PROVE Closed'
  BY <1>5 DEF vars, threads, history
<1>. HIDE DEF CInv, Closed, Types
<1>. QED BY <1>1, <1>2, <1>3, <1>4, <1>5 DEF Next, Push

\* A step that keeps the queue, what was popped of it and what was accepted.
LEMMA PendingFrame ==
  ASSUME CInv, UNCHANGED <<items, delivered>>,
         \A p \in Producers : Accepted(p)' = Accepted(p)
  PROVE  Pending'
BY DEF CInv, Pending, Queued

\* push() adds the one value that it makes accepted, pop_blocking() takes the
\* one that it makes delivered.
LEMMA PendingStep == CInv /\ [Next]_vars => Pending'
<1>. SUFFICES ASSUME CInv, [Next]_vars PROVE Pending'
  OBVIOUS
<1>0. Types /\ \A p \in Producers : Accepted(p) \in Int
  BY DEF CInv, Types, Accepted, Pushing
<1>1. ASSUME NEW p \in Producers, Call(p) \/ PushWait(p) \/ PushRefused(p) \/ PushNotify(p)
      PROVE  Pending'
  <2>1. UNCHANGED <<items, delivered>>
    BY <1>1 DEF Call, PushWait, PushRefused, PushNotify, history
  <2>2. ASSUME NEW q \in Producers PROVE Accepted(q)' = Accepted(q)
    <3>. USE <1>0 DEF Types, Accepted, Pushing
    <3>1. CASE q # p
      BY <1>1, <3>1 DEF Call, PushWait, PushRefused, PushNotify, history
    <3>2. CASE q = p /\ Call(p)
      BY <3>2 DEF Call
    <3>3. CASE q = p /\ PushRefused(p)
      BY <3>3 DEF PushRefused
    <3>4. CASE q = p /\ (PushWait(p) \/ PushNotify(p))
      BY <3>4 DEF PushWait, PushNotify, history
    <3>. QED BY <1>1, <3>1, <3>2, <3>3, <3>4
  <2>. QED BY <2>1, <2>2, PendingFrame
<1>2. ASSUME NEW p \in Producers, PushItem(p) PROVE Pending'
  <2>1. /\ Accepted(p)' = Accepted(p) + 1 /\ Accepted(p)' = calls[p]
        /\ delivered' = delivered
    BY <1>0, <1>2 DEF CInv, Closed, PushItem, Types, Accepted, Pushing, history
  <2>2. ASSUME NEW q \in Producers, q # p PROVE Accepted(q)' = Accepted(q)
    BY <1>0, <1>2, <2>2 DEF PushItem, Types, Accepted, Pushing, history
  <2>3. ASSUME NEW q \in Producers, NEW n \in Nat
        PROVE  Queued(q, n)' <=> Queued(q, n) \/ <<q, n>> = <<p, calls[p]>>
    <3>0. Len(items) \in Nat
      BY <1>0 DEF Types
    <3>1. ASSUME Queued(q, n)' PROVE Queued(q, n) \/ <<q, n>> = <<p, calls[p]>>
      BY SMTT(40), <1>0, <1>2, <3>0, <3>1, Appended DEF Queued
    <3>2. ASSUME Queued(q, n) PROVE Queued(q, n)'
      BY <1>0, <1>2, <3>0, <3>2, Appended DEF Queued
    <3>3. ASSUME <<q, n>> = <<p, calls[p]>> PROVE Queued(q, n)'
      <4>1. Len(items) + 1 \in 1 .. Len(items')
        BY <1>0, <1>2, <3>0, Appended
      <4>. QED BY <1>0, <1>2, <3>3, <4>1, Appended DEF Queued
    <3>. QED BY <3>1, <3>2, <3>3
  <2>4. ASSUME NEW q \in Producers
        PROVE  /\ delivered'[q] <= Accepted(q)'
               /\ \A n \in Nat : Queued(q, n)' <=> delivered'[q] < n /\ n <= Accepted(q)'
    <3>1. /\ delivered[q] <= Accepted(q) /\ delivered[q] \in Nat /\ Accepted(q) \in Int
          /\ \A n \in Nat : Queued(q, n) <=> delivered[q] < n /\ n <= Accepted(q)
      BY <1>0 DEF CInv, Pending, Types
    <3>2. CASE q # p
      BY <2>1, <2>2, <2>3, <3>1, <3>2
    <3>3. CASE q = p
      <4>1. delivered'[q] <= Accepted(q)'
        BY <2>1, <3>1, <3>3
      <4>2. ASSUME NEW n \in Nat
            PROVE  Queued(q, n)' <=> delivered'[q] < n /\ n <= Accepted(q)'
        <5>1. Queued(q, n)' <=> Queued(q, n) \/ n = Accepted(q) + 1
          BY <2>1, <2>3, <3>3
        <5>. QED BY <5>1, <2>1, <3>1, <3>3
      <4>. QED BY <4>1, <4>2
    <3>. QED BY <3>2, <3>3
  <2>. QED BY <2>4 DEF Pending
<1>3. ASSUME PopItem PROVE Pending'
  <2>. DEFINE p == items[1][1]
              m == delivered[p] + 1
  <2>0. /\ p \in Producers /\ items[1] = <<p, m>> /\ Len(items) \in Nat \ {0}
        /\ Len(items') = Len(items) - 1
        /\ \A i \in 1 .. Len(items') : items'[i] = items[i + 1]
    BY <1>0, <1>3, HeadIsNext, Popped
  <2>1. \A q \in Producers : Accepted(q)' = Accepted(q)
    BY <1>3 DEF PopItem, Accepted, Pushing
  <2>2. delivered' = [delivered EXCEPT ![p] = m]
    BY <1>0, <1>3, Popped
  <2>3. ASSUME NEW q \in Producers, NEW n \in Nat
        PROVE  Queued(q, n)' <=> Queued(q, n) /\ <<q, n>> # <<p, m>>
    <3>1. ASSUME Queued(q, n)' PROVE Queued(q, n) /\ <<q, n>> # <<p, m>>
      <4>1. PICK i \in 1 .. Len(items') : items'[i] = <<q, n>>
        BY <3>1 DEF Queued
      <4>2. i + 1 \in 1 .. Len(items) /\ items[i + 1] = <<q, n>> /\ 1 < i + 1
        BY <2>0, <4>1
      <4>3. <<q, n>> # <<p, m>>
        <5>. SUFFICES ASSUME <<q, n>> = <<p, m>> PROVE FALSE
          OBVIOUS
        <5>1. items[1] = items[i + 1] /\ 1 \in 1 .. Len(items)
          BY <2>0, <4>2
        <5>2. items[1][2] < items[i + 1][2]
          BY <4>2, <5>1 DEF CInv, Ascending
        <5>. QED BY <1>0, <5>1, <5>2, ItemTypes
      <4>. QED BY <4>2, <4>3 DEF Queued
    <3>2. ASSUME Queued(q, n), <<q, n>> # <<p, m>> PROVE Queued(q, n)'
      <4>1. PICK i \in 1 .. Len(items) : items[i] = <<q, n>>
        BY <3>2 DEF Queued
      <4>2. i # 1
        BY <2>0, <3>2, <4>1
      <4>3. i - 1 \in 1 .. Len(items') /\ (i - 1) + 1 = i
        BY <2>0, <4>1, <4>2
      <4>. QED BY <2>0, <4>1, <4>3 DEF Queued
    <3>. QED BY <3>1, <3>2
  <2>4. ASSUME NEW q \in Producers
        PROVE  /\ delivered'[q] <= Accepted(q)'
               /\ \A n \in Nat : Queued(q, n)' <=> delivered'[q] < n /\ n <= Accepted(q)'
    <3>1. /\ delivered[q] <= Accepted(q) /\ delivered[q] \in Nat /\ Accepted(q) \in Int
          /\ \A n \in Nat : Queued(q, n) <=> delivered[q] < n /\ n <= Accepted(q)
      BY <1>0 DEF CInv, Pending, Types
    <3>2. CASE q # p
      <4>1. delivered'[q] = delivered[q]
        BY <1>0, <2>2, <3>2 DEF Types
      <4>. QED BY <2>1, <2>3, <3>1, <3>2, <4>1
    <3>3. CASE q = p
      <4>1. delivered'[q] = m /\ m = delivered[q] + 1
        BY <1>0, <2>0, <2>2, <3>3 DEF Types
      <4>2. m <= Accepted(q)
        <5>1. Queued(q, m)
          BY <2>0, <3>3 DEF Queued
        <5>. QED BY <3>1, <4>1, <5>1
      <4>3. ASSUME NEW n \in Nat
            PROVE  Queued(q, n)' <=> delivered'[q] < n /\ n <= Accepted(q)'
        <5>1. Queued(q, n)' <=> Queued(q, n) /\ n # m
          BY <2>3, <3>3
        <5>. QED BY <2>1, <3>1, <4>1, <5>1
      <4>. QED BY <2>1, <4>1, <4>2, <4>3
    <3>. QED BY <3>2, <3>3
  <2>. QED BY <2>4 DEF Pending
<1>4. ASSUME PopWait \/ PopNullopt \/ PopNotify \/ Close \/ Closing \/ SpuriousWakeup
      PROVE  Pending'
  <2>1. UNCHANGED <<items, delivered>>
    BY <1>4 DEF PopWait, PopNullopt, PopNotify, Close, Closing, CloseNotifyEmpty,
                CloseNotifyFull, SpuriousWakeup, history
  <2>2. UNCHANGED <<calls, refused>>
    BY <1>4 DEF PopWait, PopNullopt, PopNotify, Close, Closing, CloseNotifyEmpty,
                CloseNotifyFull, SpuriousWakeup, history
  <2>3. ASSUME NEW q \in Producers PROVE Pushing(q)' = Pushing(q)
    BY <1>0, <1>4 DEF PopWait, PopNullopt, PopNotify, Close, Closing, CloseNotifyEmpty,
                CloseNotifyFull, SpuriousWakeup, Blocked, Pushing, Types
  <2>. QED BY <2>1, <2>2, <2>3, PendingFrame DEF Accepted
<1>5. ASSUME UNCHANGED vars PROVE Pending'
  BY <1>5, PendingFrame DEF vars, threads, history, Accepted, Pushing
<1>. QED BY <1>1, <1>2, <1>3, <1>4, <1>5 DEF Next, Push, Pop

\* The queue's contents are as CInv says in every reachable state.
THEOREM Contents == Spec => []CInv
<1>1. Init => CInv
  <2>. SUFFICES ASSUME Init PROVE CInv
    OBVIOUS
  <2>1. Types
    BY InitTypes
  <2>2. Ascending /\ Closed
    BY DEF Init, Ascending, Closed
  <2>3. \A p \in Producers : Accepted(p) = 0 /\ delivered[p] = 0
    BY DEF Init, Accepted, Pushing
  <2>4. Pending
    BY <2>3 DEF Pending, Queued, Init
  <2>. QED BY <2>1, <2>2, <2>4 DEF CInv
<1>2. CInv /\ [Next]_vars => CInv'
  BY TypesStep, AscendingStep, PendingStep, ClosedStep DEF CInv
<1>. QED BY <1>1, <1>2, PTL DEF Spec

\* Every variable keeps its type; the queue is never longer than its capacity.
THEOREM TypeCorrect == Spec => []TypeOK
<1>1. CInv => TypeOK
  <2>. SUFFICES ASSUME CInv PROVE TypeOK
    OBVIOUS
  <2>1. ASSUME NEW p \in Producers
        PROVE  refused[p] \in 0 .. MaxCalls /\ delivered[p] \in 0 .. MaxCalls
    <3>1. /\ calls[p] \in 0 .. MaxCalls /\ refused[p] \in Nat /\ delivered[p] \in Nat
          /\ delivered[p] <= Accepted(p)
      BY DEF CInv, Types, Pending
    <3>. QED BY <3>1 DEF Accepted, Pushing
  <2>2. refused \in Counter /\ delivered \in Counter
    BY <2>1 DEF CInv, Types, Counter
  <2>3. items \in Seq(Producers \X (1 .. MaxCalls)) /\ calls \in Counter
    BY DEF CInv, Types, Values, Counter
  <2>. QED BY <2>2, <2>3 DEF CInv, Types, TypeOK, Values
<1>. QED BY Contents, <1>1, PTL

\* Values of one producer are popped in the order of its pushes, each once.
THEOREM InOrderHolds == Spec => InOrder
<1>1. CInv /\ [Next]_vars =>
        [\A p \in Producers : delivered'[p] # delivered[p] => last' = <<p, delivered'[p]>>]_vars
  <2>. SUFFICES ASSUME CInv, [Next]_vars, NEW p \in Producers, delivered'[p] # delivered[p]
                PROVE  last' = <<p, delivered'[p]>>
    OBVIOUS
  <2>1. PopItem
    BY DEF Next, Call, Push, PushWait, PushItem, PushRefused, PushNotify, Pop, PopWait,
           PopNullopt, PopNotify, Close, Closing, CloseNotifyEmpty, CloseNotifyFull,
           SpuriousWakeup, vars, history
  <2>2. Types
    BY DEF CInv
  <2>3. delivered' = [delivered EXCEPT ![items[1][1]] = @ + 1] /\ last' = items[1]
    BY <2>1, <2>2, Popped
  <2>4. items[1][1] = p
    BY <2>2, <2>3 DEF Types
  <2>5. delivered'[p] = delivered[p] + 1
    BY <2>2, <2>3, <2>4 DEF Types
  <2>. QED BY <2>1, <2>3, <2>4, <2>5, HeadIsNext
<1>. QED BY Contents, <1>1, PTL DEF Spec, InOrder

\* nullopt means drained: every push was popped or refused, or is about to be.
THEOREM DrainedWhenDoneHolds == Spec => []DrainedWhenDone
<1>1. CInv => DrainedWhenDone
  <2>. SUFFICES ASSUME CInv, cpc = "done"
                PROVE  items = <<>> /\ \A p \in Producers :
                         calls[p] = delivered[p] + refused[p] + Pushing(p)
    BY DEF DrainedWhenDone
  <2>1. items = <<>>
    BY DEF CInv, Closed
  <2>2. ASSUME NEW p \in Producers PROVE calls[p] = delivered[p] + refused[p] + Pushing(p)
    <3>1. \A n \in Nat : ~Queued(p, n)
      BY <2>1 DEF Queued
    <3>2. delivered[p] + 1 \in Nat /\ Accepted(p) \in Int
      BY DEF CInv, Types, Accepted, Pushing
    <3>3. delivered[p] = Accepted(p)
      <4>1. /\ delivered[p] <= Accepted(p) /\ delivered[p] \in Nat
            /\ ~(delivered[p] < delivered[p] + 1 /\ delivered[p] + 1 <= Accepted(p))
        BY <3>1, <3>2 DEF CInv, Pending, Types
      <4>. QED BY <3>2, <4>1
    <3>. QED BY <3>3 DEF Accepted, CInv, Types, Pushing
  <2>. QED BY <2>1, <2>2
<1>. QED BY Contents, <1>1, PTL

\* As long as the rule is kept, no push is refused, and once closed none runs.
Settled ==
  ~early => /\ \A p \in Producers : refused[p] = 0
            /\ closed => \A p \in Producers : ppc[p] = "idle"

\* Closed by the rule, the queue refuses nothing and delivers everything.
THEOREM NothingLostHolds == Spec => []NothingLost
<1>1. Init => Settled
  BY DEF Init, Settled
<1>2. CInv /\ Settled /\ [Next]_vars => Settled'
  <2>. SUFFICES ASSUME CInv, Settled, [Next]_vars PROVE Settled'
    OBVIOUS
  <2>. USE DEF CInv, Types, Settled
  <2>1. ASSUME NEW p \in Producers, Call(p) PROVE Settled'
    BY <2>1 DEF Call
  <2>2. ASSUME NEW p \in Producers, Push(p) PROVE Settled'
    BY <2>2 DEF Push, PushWait, PushItem, PushRefused, PushNotify, history
  <2>3. ASSUME Pop PROVE Settled'
    <3>1. ASSUME PopWait \/ PopNullopt \/ PopItem PROVE Settled'
      BY <3>1 DEF PopWait, PopNullopt, PopItem, history
    <3>2. ASSUME PopNotify PROVE Settled'
      <4>1. UNCHANGED <<early, refused, closed>>
        BY <3>2 DEF PopNotify, history
      <4>2. ASSUME ~early, closed PROVE UNCHANGED ppc
        BY <3>2, <4>2 DEF PopNotify, Blocked
      <4>. QED BY <4>1, <4>2
    <3>. QED BY <2>3, <3>1, <3>2 DEF Pop
  <2>4. ASSUME Close PROVE Settled'
    <3>1. refused' = refused /\ ppc' = ppc
      BY <2>4 DEF Close
    <3>2. \A p \in Producers : refused[p] = 0
      <4>1. ~closed
        BY <2>4 DEF Close
      <4>2. \A p \in Producers : refused[p] \in Nat /\ ~(refused[p] > 0)
        BY <4>1 DEF Closed
      <4>. QED BY <4>2
    <3>3. ~early' => \A p \in Producers : ppc[p] = "idle"
      BY <2>4 DEF Close
    <3>. QED BY <3>1, <3>2, <3>3
  <2>5. ASSUME Closing \/ SpuriousWakeup PROVE Settled'
    BY <2>5 DEF Closing, CloseNotifyEmpty, CloseNotifyFull, SpuriousWakeup, Blocked, history
  <2>6. ASSUME UNCHANGED vars PROVE Settled'
    BY <2>6 DEF vars, threads, history
  <2>. HIDE DEF CInv, Types, Settled
  <2>. QED BY <2>1, <2>2, <2>3, <2>4, <2>5, <2>6 DEF Next
<1>3. CInv /\ DrainedWhenDone /\ Settled => NothingLost
  <2>. SUFFICES ASSUME CInv, DrainedWhenDone, Settled, ~early, cpc = "done",
                       NEW p \in Producers
                PROVE  delivered[p] = calls[p]
    BY DEF NothingLost, Settled
  <2>1. Pushing(p) = 0 /\ refused[p] = 0
    BY DEF CInv, Closed, Pushing, Settled
  <2>. QED BY <2>1 DEF CInv, Types, DrainedWhenDone
<1>. QED BY Contents, DrainedWhenDoneHolds, <1>1, <1>2, <1>3, PTL DEF Spec
===============================================================================
