------------------------------ MODULE RingBuffer ------------------------------
(***************************************************************************)
(* Queue::RingBuffer<T> (src/Queue/inc/Queue/ring_buffer.hpp): one         *)
(* producer thread, any number of consumer threads, one shared array of    *)
(* slots.  Every access to shared memory is a step of its own, so the      *)
(* threads interleave between any two of them.                             *)
(*                                                                         *)
(* Item number s is identified with its sequence s.  Assigning a slot's    *)
(* value is not atomic: between BeginWrite and EndWrite the slot holds     *)
(* Torn, which is what a reader that copies it meanwhile gets.  Memory is  *)
(* sequentially consistent; sequences are taken as unbounded (the counter  *)
(* is 64 bits wide), and a run stops at MaxSeq pushes.                     *)
(***************************************************************************)
EXTENDS Integers

CONSTANTS
  Lossless, Lossy,  \* consumer cursors by ConsumerPolicy
  Capacity,         \* capacity(), a power of two, so that "& mask_" is "% Capacity"
  Gated,            \* TRUE: the producer calls push_blocking; FALSE: push_overwrite
  MaxSeq,           \* bound on the number of pushes
  Torn, NoItem      \* a half-assigned value; a default-constructed one

ASSUME CapacityAssumption == Capacity \in Nat \ {0}
ASSUME BoundAssumption == MaxSeq \in Nat
ASSUME PolicyAssumption == Lossless \cap Lossy = {}
\* Every ring that the code writes with push_overwrite has only lossy readers.
ASSUME GatingAssumption == Gated \in BOOLEAN /\ (~Gated => Lossless = {})
ASSUME ItemAssumption == Torn \notin Int /\ NoItem \notin Int /\ Torn # NoItem

VARIABLES
  nextToClaim,       \* next_to_claim_
  producerSequence,  \* producer_sequence_
  slotSeq,           \* slots_[i].seq
  slotValue,         \* slots_[i].value
  ppc,               \* where the producer is inside push_*()
  passed,            \* lossless consumers claim_blocking() is done waiting for
  consumers,         \* consumers_: the cursors registered so far
  position,          \* Consumer::sequence_
  dropped,           \* Consumer::dropped_
  rpc,               \* where each consumer is inside try_read()
  want,              \* try_read()'s local
  out,               \* the caller's buffer
  result,            \* what the last finished try_read() returned
  received,          \* history: try_read() calls that returned Ok
  lastItem           \* history: the item the last such call delivered

producerVars == <<nextToClaim, producerSequence, slotSeq, slotValue, ppc, passed>>
readerVars == <<position, dropped, rpc, want, out, result, received, lastItem>>
vars == <<producerVars, consumers, readerVars>>

Consumers == Lossless \cup Lossy
Slots == 0 .. Capacity - 1
SlotOf(seq) == seq % Capacity
Items == 0 .. MaxSeq - 1

Init ==
  /\ nextToClaim = 0
  /\ producerSequence = 0
  /\ slotSeq = [i \in Slots |-> 0]
  /\ slotValue = [i \in Slots |-> NoItem]
  /\ ppc = "idle"
  /\ passed = {}
  /\ consumers = {}
  /\ position = [c \in Consumers |-> 0]
  /\ dropped = [c \in Consumers |-> 0]
  /\ rpc = [c \in Consumers |-> "idle"]
  /\ want = [c \in Consumers |-> 0]
  /\ out = [c \in Consumers |-> NoItem]
  /\ result = [c \in Consumers |-> "Empty"]
  /\ received = [c \in Consumers |-> 0]
  /\ lastItem = [c \in Consumers |-> NoItem]

\* add_consumer(): "Call before the producer starts" -- every caller does.
AddConsumer(c) ==
  /\ ppc = "idle" /\ nextToClaim = 0
  /\ c \in Consumers \ consumers
  /\ consumers' = consumers \cup {c}
  /\ UNCHANGED <<producerVars, readerVars>>

-------------------------------------------------------------------------------
(* The producer: claim, assign the value, publish.                          *)

\* Mutant of ClaimBlocking: the loop remembers the consumers of the last push.
ClaimBlockingForgetsReset ==
  /\ Gated
  /\ ppc = "idle" /\ nextToClaim < MaxSeq
  /\ ppc' = "gate"
  /\ UNCHANGED <<nextToClaim, producerSequence, slotSeq, slotValue, passed, consumers, readerVars>>

\* claim_blocking() starts its loop over lossless_consumers_.
ClaimBlocking ==
  /\ Gated
  /\ ppc = "idle" /\ nextToClaim < MaxSeq
  /\ ppc' = "gate"
  /\ passed' = {}
  /\ UNCHANGED <<nextToClaim, producerSequence, slotSeq, slotValue, consumers, readerVars>>

\* One turn of the loop: the producer moves on from a consumer once that
\* consumer's cursor, as loaded now, leaves a slot free.
GatePass(c) ==
  /\ ppc = "gate"
  /\ c \in (consumers \cap Lossless) \ passed
  /\ nextToClaim - position[c] < Capacity
  /\ passed' = passed \cup {c}
  /\ UNCHANGED <<nextToClaim, producerSequence, slotSeq, slotValue, ppc, consumers, readerVars>>

\* Mutants of BeginWrite: one free consumer is enough; lossy ones count too.
BeginWriteFirstReader ==
  /\ ppc = "gate" /\ (consumers \cap Lossless # {} => passed # {})
  /\ ppc' = "writing"
  /\ slotValue' = [slotValue EXCEPT ![SlotOf(nextToClaim)] = Torn]
  /\ UNCHANGED <<nextToClaim, producerSequence, slotSeq, passed, consumers, readerVars>>

BeginWriteWaitsForAll ==
  /\ ppc = "gate" /\ consumers \cap Lossless \subseteq passed
  /\ \A c \in consumers : nextToClaim - position[c] < Capacity
  /\ ppc' = "writing"
  /\ slotValue' = [slotValue EXCEPT ![SlotOf(nextToClaim)] = Torn]
  /\ UNCHANGED <<nextToClaim, producerSequence, slotSeq, passed, consumers, readerVars>>

\* "slot(seq) = std::move(value)" begins: after the gate, or at once.
BeginWrite ==
  /\ \/ ppc = "gate" /\ consumers \cap Lossless \subseteq passed
     \/ ~Gated /\ ppc = "idle" /\ nextToClaim < MaxSeq
  /\ ppc' = "writing"
  /\ slotValue' = [slotValue EXCEPT ![SlotOf(nextToClaim)] = Torn]
  /\ UNCHANGED <<nextToClaim, producerSequence, slotSeq, passed, consumers, readerVars>>

EndWrite ==
  /\ ppc = "writing"
  /\ ppc' = "written"
  /\ slotValue' = [slotValue EXCEPT ![SlotOf(nextToClaim)] = nextToClaim]
  /\ UNCHANGED <<nextToClaim, producerSequence, slotSeq, passed, consumers, readerVars>>

\* publish(): the slot's sequence word first ...
StoreSlotSeq ==
  /\ ppc = "written"
  /\ ppc' = "stamped"
  /\ slotSeq' = [slotSeq EXCEPT ![SlotOf(nextToClaim)] = nextToClaim]
  /\ UNCHANGED <<nextToClaim, producerSequence, slotValue, passed, consumers, readerVars>>

\* Mutant of PublishSequence: next_to_claim_ is not advanced.
PublishSequenceKeepsClaim ==
  /\ ppc = "stamped"
  /\ ppc' = "idle"
  /\ producerSequence' = nextToClaim + 1
  /\ UNCHANGED <<nextToClaim, slotSeq, slotValue, passed, consumers, readerVars>>

\* ... then the producer's private counter and the public one.
PublishSequence ==
  /\ ppc = "stamped"
  /\ ppc' = "idle"
  /\ nextToClaim' = nextToClaim + 1
  /\ producerSequence' = nextToClaim + 1
  /\ UNCHANGED <<slotSeq, slotValue, passed, consumers, readerVars>>

-------------------------------------------------------------------------------
(* A consumer: one try_read().                                              *)

ReadEmpty(c) ==
  /\ rpc[c] = "idle"
  /\ position[c] >= producerSequence
  /\ result' = [result EXCEPT ![c] = "Empty"]
  /\ UNCHANGED <<producerVars, consumers, position, dropped, rpc, want, out, received, lastItem>>

\* Where a read starts: a lossy consumer more than a lap behind jumps ahead.
Target(c) ==
  IF c \in Lossy /\ producerSequence - position[c] > Capacity
  THEN producerSequence - Capacity
  ELSE position[c]

\* Both cursors are loaded and the items jumped over are counted.
ReadBegin(c) ==
  /\ rpc[c] = "idle"
  /\ position[c] < producerSequence
  /\ want' = [want EXCEPT ![c] = Target(c)]
  /\ dropped' = [dropped EXCEPT ![c] = @ + (Target(c) - position[c])]
  /\ rpc' = [rpc EXCEPT ![c] = "check"]
  /\ UNCHANGED <<producerVars, consumers, position, out, result, received, lastItem>>

ReadCheck(c) ==
  /\ rpc[c] = "check"
  /\ slotSeq[SlotOf(want[c])] = want[c]
  /\ rpc' = [rpc EXCEPT ![c] = "copy"]
  /\ UNCHANGED <<producerVars, consumers, position, dropped, want, out, result, received, lastItem>>

\* "out = slot.value"
ReadCopy(c) ==
  /\ rpc[c] = "copy"
  /\ out' = [out EXCEPT ![c] = slotValue[SlotOf(want[c])]]
  /\ rpc' = [rpc EXCEPT ![c] = "recheck"]
  /\ UNCHANGED <<producerVars, consumers, position, dropped, want, result, received, lastItem>>

\* Mutant of ReadDeliver: the second check is left out.
ReadDeliverUnchecked(c) ==
  /\ rpc[c] = "recheck"
  /\ position' = [position EXCEPT ![c] = want[c] + 1]
  /\ result' = [result EXCEPT ![c] = "Ok"]
  /\ received' = [received EXCEPT ![c] = @ + 1]
  /\ lastItem' = [lastItem EXCEPT ![c] = out[c]]
  /\ rpc' = [rpc EXCEPT ![c] = "idle"]
  /\ UNCHANGED <<producerVars, consumers, dropped, want, out>>

\* The second check holds: the cursor moves and the read returns Ok.
ReadDeliver(c) ==
  /\ rpc[c] = "recheck"
  /\ slotSeq[SlotOf(want[c])] = want[c]
  /\ position' = [position EXCEPT ![c] = want[c] + 1]
  /\ result' = [result EXCEPT ![c] = "Ok"]
  /\ received' = [received EXCEPT ![c] = @ + 1]
  /\ lastItem' = [lastItem EXCEPT ![c] = out[c]]
  /\ rpc' = [rpc EXCEPT ![c] = "idle"]
  /\ UNCHANGED <<producerVars, consumers, dropped, want, out>>

\* Mutants of ReportStaleSlot: the loss is not counted; only the second check
\* reports it.
ReportStaleSlotUncounted(c) ==
  /\ rpc[c] \in {"check", "recheck"}
  /\ slotSeq[SlotOf(want[c])] # want[c]
  /\ position' = [position EXCEPT ![c] = want[c] + 1]
  /\ result' = [result EXCEPT ![c] = "Dropped"]
  /\ rpc' = [rpc EXCEPT ![c] = "idle"]
  /\ UNCHANGED <<producerVars, consumers, dropped, want, out, received, lastItem>>

ReportStaleSlotLate(c) ==
  /\ rpc[c] = "recheck"
  /\ slotSeq[SlotOf(want[c])] # want[c]
  /\ dropped' = [dropped EXCEPT ![c] = @ + 1]
  /\ position' = [position EXCEPT ![c] = want[c] + 1]
  /\ result' = [result EXCEPT ![c] = "Dropped"]
  /\ rpc' = [rpc EXCEPT ![c] = "idle"]
  /\ UNCHANGED <<producerVars, consumers, want, out, received, lastItem>>

\* Either check fails: report_stale_slot().
ReportStaleSlot(c) ==
  /\ rpc[c] \in {"check", "recheck"}
  /\ slotSeq[SlotOf(want[c])] # want[c]
  /\ dropped' = [dropped EXCEPT ![c] = @ + 1]
  /\ position' = [position EXCEPT ![c] = want[c] + 1]
  /\ result' = [result EXCEPT ![c] = "Dropped"]
  /\ rpc' = [rpc EXCEPT ![c] = "idle"]
  /\ UNCHANGED <<producerVars, consumers, want, out, received, lastItem>>

-------------------------------------------------------------------------------
Produce ==
  \/ ClaimBlocking
  \/ \E c \in Lossless : GatePass(c)
  \/ BeginWrite
  \/ EndWrite
  \/ StoreSlotSeq
  \/ PublishSequence

Read(c) ==
  /\ c \in consumers
  /\ \/ ReadEmpty(c)
     \/ ReadBegin(c)
     \/ ReadCheck(c)
     \/ ReadCopy(c)
     \/ ReadDeliver(c)
     \/ ReportStaleSlot(c)

Next ==
  \/ Produce
  \/ \E c \in Consumers : AddConsumer(c) \/ Read(c)

Spec == Init /\ [][Next]_vars

\* The producer runs whenever it can and so does every lossless consumer's
\* polling loop (Shard::run, Subscriber::run); nothing is assumed of the
\* threads behind lossy cursors.
FairSpec == Spec /\ WF_vars(Produce) /\ \A c \in Lossless : WF_vars(Read(c))

\* As FairSpec, where the lossy consumers' threads keep polling too.
FairReadersSpec == FairSpec /\ \A c \in Lossy : WF_vars(Read(c))

-------------------------------------------------------------------------------
(* Properties.                                                              *)

ProducerPCs == {"idle", "gate", "writing", "written", "stamped"}
ReaderPCs == {"idle", "check", "copy", "recheck"}
Values == Items \cup {Torn, NoItem}

\* Every variable has its type: the cursors of try_read() and publish() stay
\* within the sequences ever published.
TypeOK ==
  /\ nextToClaim \in 0 .. MaxSeq /\ producerSequence = nextToClaim
  /\ slotSeq \in [Slots -> 0 .. MaxSeq] /\ slotValue \in [Slots -> Values]
  /\ ppc \in ProducerPCs /\ passed \subseteq Lossless
  /\ consumers \subseteq Consumers
  /\ position \in [Consumers -> 0 .. MaxSeq] /\ dropped \in [Consumers -> 0 .. MaxSeq]
  /\ rpc \in [Consumers -> ReaderPCs] /\ want \in [Consumers -> 0 .. MaxSeq]
  /\ out \in [Consumers -> Values] /\ lastItem \in [Consumers -> Values]
  /\ result \in [Consumers -> {"Empty", "Ok", "Dropped"}]
  /\ received \in [Consumers -> 0 .. MaxSeq]

\* report_stale_slot()'s assert: a lossless consumer never finds a slot of
\* another lap at either of its two checks.
LosslessNeverStale ==
  \A c \in Lossless :
    rpc[c] \in {"check", "recheck"} => slotSeq[SlotOf(want[c])] = want[c]

\* claim_blocking(): the producer never touches a slot whose item some
\* lossless consumer has not freed, so its whole backlog stays readable.
LosslessBacklogIntact ==
  \A c \in consumers \cap Lossless : \A s \in Items :
    position[c] <= s /\ s < producerSequence =>
      slotSeq[SlotOf(s)] = s /\ slotValue[SlotOf(s)] = s

\* The n-th Ok of a lossless consumer's try_read() delivers item n: nothing
\* lost, repeated, reordered or half-written.
LosslessInOrder ==
  [][\A c \in Lossless :
       received'[c] # received[c] => lastItem'[c] = received[c]]_vars

\* try_read(): between two calls, what a consumer was handed and what it was
\* told it missed add up to its position.
Accounting ==
  \A c \in Consumers : rpc[c] = "idle" => received[c] + dropped[c] = position[c]

\* push_blocking() and try_read(): every registered lossless consumer is handed
\* every item in the end, though lossy consumers may stop for ever anywhere
\* inside try_read().
EveryItemReceived ==
  \A c \in Lossless : c \in consumers ~> received[c] = MaxSeq

\* A consumer that keeps calling try_read() on a ring whose producer has
\* finished drains it: no slot can keep it from reaching Empty.
Drained(c) == producerSequence = MaxSeq /\ position[c] = MaxSeq /\ result[c] = "Empty"
EveryReaderDrains ==
  \A c \in Consumers : c \in consumers ~> Drained(c)

\* What the second check of try_read() is for (test_ring_buffer.cpp:167): a
\* lossy read that returns Ok delivers the item it asked for.
LossyDeliversIntact ==
  \A c \in Lossy :
    rpc[c] = "idle" /\ result[c] = "Ok" => lastItem[c] = position[c] - 1

\* RingBuffer implements BroadcastLog.  A read has taken its place in the log
\* from the moment it has chosen its target.
LogCursor == [c \in Consumers |-> IF rpc[c] = "idle" THEN position[c] ELSE want[c]]

Log == INSTANCE BroadcastLog WITH
  published <- producerSequence,
  members <- consumers,
  cursor <- LogCursor,
  taken <- received,
  lost <- dropped,
  item <- lastItem

\* try_read() and push_*() together keep the promise of BroadcastLog.
LogSpec == Log!Spec
===============================================================================
