------------------------------- MODULE MpscQueue -------------------------------
(***************************************************************************)
(* Queue::MpscQueue<T> (src/Queue/inc/Queue/mpsc_queue.hpp): a bounded     *)
(* queue behind a mutex and two condition variables, between the           *)
(* connection threads of the order-entry listener (producers) and the      *)
(* ingress pump (the one consumer), closed by a third kind of thread.      *)
(*                                                                         *)
(* A critical section is one step: nobody sees inside it.  What lies       *)
(* outside the mutex is a step of its own: each notify call, and the       *)
(* wake-up between being notified (or waking for no reason) and holding    *)
(* the mutex again.  The n-th value that p pushes is <<p, n>>.             *)
(***************************************************************************)
EXTENDS Naturals, Sequences, FiniteSets

CONSTANTS
  Producers,    \* threads that push
  Capacity,     \* capacity_; the constructor turns 0 into 1
  MaxCalls      \* bound on the pushes of a producer

ASSUME ProducersAssumption == IsFiniteSet(Producers)
ASSUME CapacityAssumption == Capacity \in Nat \ {0}
ASSUME CallsAssumption == MaxCalls \in Nat

VARIABLES
  items,       \* items_
  closed,      \* closed_
  ppc,         \* per producer: idle, lock (wants the mutex), wait, notify
  cpc,         \* the consumer: lock, wait, notify, done (it got nullopt)
  kpc,         \* the closer: open, notifyEmpty, notifyFull, closed
  calls,       \* history: per producer, pushes begun
  refused,     \* history: per producer, pushes that returned without queueing
  delivered,   \* history: per producer, values popped
  last,        \* history: the value popped last
  early        \* history: close() came before "every producer thread has
               \* stopped pushing", against the rule of its comment

threads == <<ppc, cpc, kpc>>
history == <<calls, refused, delivered, last, early>>
vars == <<items, closed, threads, history>>

\* The waiting sets of not_full_ and not_empty_ are the threads at "wait".
Blocked == {p \in Producers : ppc[p] = "wait"}
Running == {p \in Producers : ppc[p] = "lock"}
Room == Capacity - Len(items)

Init ==
  /\ items = <<>>
  /\ closed = FALSE
  /\ ppc = [p \in Producers |-> "idle"]
  /\ cpc = "lock"
  /\ kpc = "open"
  /\ calls = [p \in Producers |-> 0]
  /\ refused = [p \in Producers |-> 0]
  /\ delivered = [p \in Producers |-> 0]
  /\ last = <<>>
  /\ early = FALSE

-------------------------------------------------------------------------------
(* push(), one producer.                                                    *)

Call(p) ==
  /\ ppc[p] = "idle" /\ calls[p] < MaxCalls
  /\ ppc' = [ppc EXCEPT ![p] = "lock"]
  /\ calls' = [calls EXCEPT ![p] = @ + 1]
  /\ early' = (early \/ closed)
  /\ UNCHANGED <<items, closed, cpc, kpc, refused, delivered, last>>

\* not_full_.wait() with nothing to go on: the mutex is released.
PushWait(p) ==
  /\ ppc[p] = "lock" /\ Len(items) >= Capacity /\ ~closed
  /\ ppc' = [ppc EXCEPT ![p] = "wait"]
  /\ UNCHANGED <<items, closed, cpc, kpc, history>>

\* Mutant of PushRefused: a full queue turns its producer away instead of
\* letting it wait.
PushRefusedWhenFull(p) ==
  /\ ppc[p] = "lock" /\ (closed \/ Len(items) >= Capacity)
  /\ ppc' = [ppc EXCEPT ![p] = "idle"]
  /\ refused' = [refused EXCEPT ![p] = @ + 1]
  /\ UNCHANGED <<items, closed, cpc, kpc, calls, delivered, last, early>>

PushRefused(p) ==
  /\ ppc[p] = "lock" /\ closed
  /\ ppc' = [ppc EXCEPT ![p] = "idle"]
  /\ refused' = [refused EXCEPT ![p] = @ + 1]
  /\ UNCHANGED <<items, closed, cpc, kpc, calls, delivered, last, early>>

\* Mutants of PushItem: the predicate is not looked at again after waking up;
\* the value goes to the wrong end.
PushItemUnchecked(p) ==
  /\ ppc[p] = "lock" /\ ~closed
  /\ items' = Append(items, <<p, calls[p]>>)
  /\ ppc' = [ppc EXCEPT ![p] = "notify"]
  /\ UNCHANGED <<closed, cpc, kpc, history>>

PushItem(p) ==
  /\ ppc[p] = "lock" /\ Len(items) < Capacity /\ ~closed
  /\ items' = Append(items, <<p, calls[p]>>)
  /\ ppc' = [ppc EXCEPT ![p] = "notify"]
  /\ UNCHANGED <<closed, cpc, kpc, history>>

\* not_empty_.notify_one(), after the unlock.
PushNotify(p) ==
  /\ ppc[p] = "notify"
  /\ ppc' = [ppc EXCEPT ![p] = "idle"]
  /\ cpc' = IF cpc = "wait" THEN "lock" ELSE cpc
  /\ UNCHANGED <<items, closed, kpc, history>>

-------------------------------------------------------------------------------
(* pop_blocking(), the consumer in IngressPump::run's loop.                 *)

PopWait ==
  /\ cpc = "lock" /\ items = <<>> /\ ~closed
  /\ cpc' = "wait"
  /\ UNCHANGED <<items, closed, ppc, kpc, history>>

\* Mutant of PopNullopt: a closed queue is taken for a drained one.
PopNulloptUndrained ==
  /\ cpc = "lock" /\ closed
  /\ cpc' = "done"
  /\ UNCHANGED <<items, closed, ppc, kpc, history>>

PopNullopt ==
  /\ cpc = "lock" /\ items = <<>> /\ closed
  /\ cpc' = "done"
  /\ UNCHANGED <<items, closed, ppc, kpc, history>>

\* Mutant of PopItem: producers are told only when the queue was full.
PopItemTellsIfFull ==
  /\ cpc = "lock" /\ items # <<>>
  /\ items' = Tail(items)
  /\ last' = Head(items)
  /\ delivered' = [delivered EXCEPT ![Head(items)[1]] = @ + 1]
  /\ cpc' = IF Len(items) = Capacity THEN "notify" ELSE "lock"
  /\ UNCHANGED <<closed, ppc, kpc, calls, refused, early>>

PopItem ==
  /\ cpc = "lock" /\ items # <<>>
  /\ items' = Tail(items)
  /\ last' = Head(items)
  /\ delivered' = [delivered EXCEPT ![Head(items)[1]] = @ + 1]
  /\ cpc' = "notify"
  /\ UNCHANGED <<closed, ppc, kpc, calls, refused, early>>

\* not_full_.notify_one(): any one of the blocked producers, or nobody.
PopNotify ==
  /\ cpc = "notify"
  /\ cpc' = "lock"
  /\ \/ Blocked = {} /\ UNCHANGED ppc
     \/ \E p \in Blocked : ppc' = [ppc EXCEPT ![p] = "lock"]
  /\ UNCHANGED <<items, closed, kpc, history>>

-------------------------------------------------------------------------------
(* close(), and wake-ups that nobody asked for.                             *)

Close ==
  /\ kpc = "open"
  /\ closed' = TRUE
  /\ kpc' = "notifyEmpty"
  /\ early' = (\E p \in Producers : ppc[p] # "idle")
  /\ UNCHANGED <<items, ppc, cpc, calls, refused, delivered, last>>

\* Mutant of CloseNotifyEmpty: notify_all is left out.
CloseNotifyEmptySkipped ==
  /\ kpc = "notifyEmpty"
  /\ kpc' = "notifyFull"
  /\ UNCHANGED <<items, closed, ppc, cpc, history>>

CloseNotifyEmpty ==
  /\ kpc = "notifyEmpty"
  /\ kpc' = "notifyFull"
  /\ cpc' = IF cpc = "wait" THEN "lock" ELSE cpc
  /\ UNCHANGED <<items, closed, ppc, history>>

\* Mutant of CloseNotifyFull: notify_one instead of notify_all.
CloseNotifyFullOne ==
  /\ kpc = "notifyFull"
  /\ kpc' = "closed"
  /\ \/ Blocked = {} /\ UNCHANGED ppc
     \/ \E p \in Blocked : ppc' = [ppc EXCEPT ![p] = "lock"]
  /\ UNCHANGED <<items, closed, cpc, history>>

CloseNotifyFull ==
  /\ kpc = "notifyFull"
  /\ kpc' = "closed"
  /\ ppc' = [p \in Producers |-> IF p \in Blocked THEN "lock" ELSE ppc[p]]
  /\ UNCHANGED <<items, closed, cpc, history>>

\* A condition variable may wake a thread for no reason.
SpuriousWakeup ==
  \/ /\ cpc = "wait"
     /\ cpc' = "lock"
     /\ UNCHANGED <<items, closed, ppc, kpc, history>>
  \/ \E p \in Blocked :
       /\ ppc' = [ppc EXCEPT ![p] = "lock"]
       /\ UNCHANGED <<items, closed, cpc, kpc, history>>

-------------------------------------------------------------------------------
Push(p) == PushWait(p) \/ PushRefused(p) \/ PushItem(p) \/ PushNotify(p)
Pop == PopWait \/ PopNullopt \/ PopItem \/ PopNotify
Closing == CloseNotifyEmpty \/ CloseNotifyFull

Next ==
  \/ \E p \in Producers : Call(p) \/ Push(p)
  \/ Pop
  \/ Close \/ Closing
  \/ SpuriousWakeup

Spec == Init /\ [][Next]_vars

\* Threads inside a call are scheduled and get the mutex in the end; nobody
\* has to call push() or close(), and no wake-up comes by itself.
FairSpec ==
  Spec /\ (\A p \in Producers : WF_vars(Push(p))) /\ WF_vars(Pop) /\ WF_vars(Closing)

-------------------------------------------------------------------------------
(* Properties.                                                              *)

PushPCs == {"idle", "lock", "wait", "notify"}
Counter == [Producers -> 0 .. MaxCalls]

\* Every variable has its type, and the queue keeps to its capacity although
\* producers decide to push, sleep, and push later.
TypeOK ==
  /\ items \in Seq(Producers \X (1 .. MaxCalls)) /\ Len(items) <= Capacity
  /\ closed \in BOOLEAN
  /\ ppc \in [Producers -> PushPCs]
  /\ cpc \in {"lock", "wait", "notify", "done"}
  /\ kpc \in {"open", "notifyEmpty", "notifyFull", "closed"} /\ closed = (kpc # "open")
  /\ calls \in Counter /\ refused \in Counter /\ delivered \in Counter
  /\ last \in {<<>>} \cup Producers \X (1 .. MaxCalls)
  /\ early \in BOOLEAN

\* notify_one() of pop_blocking(): while the queue is open and producers sleep
\* in push(), every free slot is matched by a producer on its way to it or by
\* a notification on its way to a sleeper.
NoSlotForgotten ==
  ~closed /\ Blocked # {} =>
    Room <= Cardinality(Running) + (IF cpc = "notify" THEN 1 ELSE 0)

\* notify_one() of push(), notify_all() of close(): the consumer sleeps on a
\* non-empty or closed queue only while a notification is on its way.
NoItemForgotten ==
  cpc = "wait" =>
    /\ items # <<>> => \E p \in Producers : ppc[p] = "notify"
    /\ closed => kpc = "notifyEmpty"

\* notify_all() of close(): producers asleep on a closed queue are about to be
\* woken.
NoProducerForgotten == closed /\ Blocked # {} => kpc \in {"notifyEmpty", "notifyFull"}

\* The three together: no wake-up of push(), pop_blocking() or close() is lost.
NoWakeUpLost == NoSlotForgotten /\ NoItemForgotten /\ NoProducerForgotten

\* Each producer's values come out in the order it pushed them, each once.
InOrder ==
  [][\A p \in Producers :
       delivered'[p] # delivered[p] => last' = <<p, delivered'[p]>>]_vars

\* When pop_blocking() says that the queue is closed and drained, every push
\* was either popped or refused, and there is nothing to come.
Pushing(p) == IF ppc[p] \in {"lock", "wait"} THEN 1 ELSE 0
DrainedWhenDone ==
  cpc = "done" =>
    /\ items = <<>>
    /\ \A p \in Producers : calls[p] = delivered[p] + refused[p] + Pushing(p)

\* Closed by the rule of its comment, the queue loses nothing: no push is
\* turned away, and all have been popped when the consumer gets nullopt.
NothingLost ==
  ~early =>
    /\ \A p \in Producers : refused[p] = 0
    /\ cpc = "done" => \A p \in Producers : delivered[p] = calls[p]

\* Every push() returns: popping frees a slot for every producer that sleeps,
\* and close() releases those that nothing is popped for.
PushReturns == \A p \in Producers : ppc[p] = "lock" ~> ppc[p] = "idle"

\* A closed queue is drained and its consumer released.
ConsumerStops == closed ~> cpc = "done"
===============================================================================
