--------------------------- MODULE RingBufferProofs ---------------------------
(***************************************************************************)
(* What holds of RingBuffer for every set of consumers and every capacity. *)
(*                                                                         *)
(* The argument is the one behind claim_blocking().  A lossless cursor     *)
(* only grows, so a consumer that the gate has passed stays passed; the    *)
(* slot about to be written belongs to an item that is a full capacity     *)
(* older, and by then every lossless cursor is beyond it (Window).  So     *)
(* each slot of the last Capacity items, but for the one being rewritten,  *)
(* holds its item (Intact), and a lossless read finds it (Copied).         *)
(***************************************************************************)
EXTENDS RingBuffer, TLAPS

Busy == ppc \in {"writing", "written", "stamped"}

\* Types wide enough to be inductive: the bounds TypeOK puts on the counters
\* follow from Cursors and Counts.
Types ==
  /\ nextToClaim \in Nat /\ producerSequence \in Nat
  /\ slotSeq \in [Slots -> 0 .. MaxSeq] /\ slotValue \in [Slots -> Values]
  /\ ppc \in ProducerPCs /\ passed \subseteq Lossless
  /\ consumers \subseteq Consumers
  /\ position \in [Consumers -> Nat] /\ dropped \in [Consumers -> Nat]
  /\ rpc \in [Consumers -> ReaderPCs] /\ want \in [Consumers -> Nat]
  /\ out \in [Consumers -> Values] /\ lastItem \in [Consumers -> Values]
  /\ result \in [Consumers -> {"Empty", "Ok", "Dropped"}]
  /\ received \in [Consumers -> Nat]

\* Where the cursors of the producer and of the consumers can be.
Cursors ==
  /\ producerSequence = nextToClaim
  /\ nextToClaim <= MaxSeq
  /\ ppc # "idle" => nextToClaim < MaxSeq
  /\ \A c \in Consumers :
       /\ position[c] <= producerSequence
       /\ want[c] <= producerSequence
       /\ rpc[c] # "idle" => position[c] <= want[c] /\ want[c] < producerSequence
       /\ c \in Lossless /\ rpc[c] # "idle" => want[c] = position[c]

\* What was received and what was counted as dropped, also inside a read.
Counts ==
  \A c \in Consumers :
    received[c] + dropped[c] = IF rpc[c] = "idle" THEN position[c] ELSE want[c]

\* How far the producer can be ahead of a lossless cursor.
Window ==
  \A c \in consumers \cap Lossless :
    /\ producerSequence - position[c] <= Capacity
    /\ ppc = "gate" /\ c \in passed => producerSequence - position[c] < Capacity
    /\ Busy => producerSequence - position[c] < Capacity

\* A cursor that is not registered reads nothing.
Strangers ==
  \A c \in Consumers \ consumers : rpc[c] = "idle" /\ position[c] = 0

\* The items that the producer is not overwriting.
Kept(s) ==
  /\ s < producerSequence
  /\ producerSequence - s <= Capacity
  /\ Busy => producerSequence - s < Capacity

Intact ==
  /\ \A s \in Nat : Kept(s) => slotSeq[SlotOf(s)] = s /\ slotValue[SlotOf(s)] = s
  /\ ppc \in {"written", "stamped"} => slotValue[SlotOf(nextToClaim)] = nextToClaim
  /\ ppc = "stamped" => slotSeq[SlotOf(nextToClaim)] = nextToClaim

\* A lossless consumer holds the item it went for, and has missed none.
Copied ==
  \A c \in Lossless :
    /\ dropped[c] = 0
    /\ rpc[c] = "recheck" => out[c] = want[c]

IInv == Types /\ Cursors /\ Counts /\ Window /\ Strangers /\ Intact /\ Copied
-------------------------------------------------------------------------------
USE CapacityAssumption, BoundAssumption, PolicyAssumption, GatingAssumption, ItemAssumption

\* Two sequences less than a capacity apart never share a slot ("& mask_").
LEMMA SlotsApart ==
  ASSUME NEW a \in Nat, NEW b \in Nat, a < b, b - a < Capacity
  PROVE  SlotOf(a) # SlotOf(b)
<1>. DEFINE q == a \div Capacity
            r == b \div Capacity
<1>1. a = Capacity * q + (a % Capacity) /\ b = Capacity * r + (b % Capacity)
  BY SMT
<1>2. q \in Int /\ r \in Int
  BY SMT
<1>. SUFFICES ASSUME a % Capacity = b % Capacity PROVE FALSE
  BY DEF SlotOf
<1>3. b - a = Capacity * (r - q) /\ r - q \in Int
  BY <1>1, <1>2, SMT
<1>. HIDE DEF q, r
<1>4. CASE r - q <= 0
  <2>1. Capacity * (r - q) <= 0
    BY <1>4, <1>3, SMT
  <2>. QED BY <2>1, <1>3, SMT
<1>5. CASE r - q >= 1
  <2>1. Capacity * (r - q) >= Capacity
    BY <1>5, <1>3, SMT
  <2>. QED BY <2>1, <1>3, SMT
<1>. QED BY <1>3, <1>4, <1>5, SMT

\* Every sequence has a slot.
LEMMA SlotInRange == ASSUME NEW s \in Nat PROVE SlotOf(s) \in Slots
BY SMT DEF SlotOf, Slots

\* Before any consumer is registered every part of the invariant holds.
LEMMA InitIInv == Init => IInv
<1>. SUFFICES ASSUME Init PROVE IInv
  OBVIOUS
<1>1. Types
  BY DEF Init, Types, ProducerPCs, ReaderPCs, Values, Slots
<1>2. Cursors /\ Counts /\ Window /\ Strangers /\ Copied
  BY DEF Init, Cursors, Counts, Window, Strangers, Copied, Busy, Consumers
<1>3. Intact
  BY DEF Init, Intact, Kept
<1>. QED BY <1>1, <1>2, <1>3 DEF IInv

\* Every action keeps the types; the gate bounds what the producer claims.
LEMMA TypesStep == IInv /\ [Next]_vars => Types'
<1>. SUFFICES ASSUME IInv, [Next]_vars PROVE Types'
  OBVIOUS
<1>. USE DEF IInv, Types, ProducerPCs, ReaderPCs, Values
<1>1. ASSUME NEW c \in Consumers, AddConsumer(c) PROVE Types'
  BY <1>1 DEF AddConsumer, producerVars, readerVars
<1>2. CASE ClaimBlocking
  BY <1>2 DEF ClaimBlocking, readerVars
<1>3. ASSUME NEW c \in Lossless, GatePass(c) PROVE Types'
  BY <1>3 DEF GatePass, readerVars
<1>4. CASE BeginWrite
  BY <1>4, SlotInRange DEF BeginWrite, readerVars
<1>5. CASE EndWrite
  BY <1>5, SlotInRange DEF EndWrite, readerVars, Cursors, Items
<1>6. CASE StoreSlotSeq
  BY <1>6, SlotInRange DEF StoreSlotSeq, readerVars, Cursors
<1>7. CASE PublishSequence
  BY <1>7 DEF PublishSequence, readerVars
<1>8. ASSUME NEW c \in Consumers, ReadEmpty(c) PROVE Types'
  BY <1>8 DEF ReadEmpty, producerVars
<1>9. ASSUME NEW c \in Consumers, ReadBegin(c) PROVE Types'
  <2>1. Target(c) \in Nat /\ Target(c) - position[c] \in Nat
    BY <1>9 DEF ReadBegin, Target
  <2>. QED BY <2>1, <1>9 DEF ReadBegin, producerVars
<1>10. ASSUME NEW c \in Consumers, ReadCheck(c) PROVE Types'
  BY <1>10 DEF ReadCheck, producerVars
<1>11. ASSUME NEW c \in Consumers, ReadCopy(c) PROVE Types'
  <2>1. slotValue[SlotOf(want[c])] \in Values
    BY SlotInRange
  <2>. QED BY <2>1, <1>11 DEF ReadCopy, producerVars
<1>12. ASSUME NEW c \in Consumers, ReadDeliver(c) PROVE Types'
  BY <1>12 DEF ReadDeliver, producerVars
<1>13. ASSUME NEW c \in Consumers, ReportStaleSlot(c) PROVE Types'
  BY <1>13 DEF ReportStaleSlot, producerVars
<1>14. CASE UNCHANGED vars
  BY <1>14 DEF vars, producerVars, readerVars
<1>. QED BY <1>1, <1>2, <1>3, <1>4, <1>5, <1>6, <1>7, <1>8, <1>9, <1>10, <1>11,
            <1>12, <1>13, <1>14 DEF Next, Produce, Read

\* The item of every backlog that a lossless consumer has not read yet is in
\* its slot: it is younger than a capacity, and not being overwritten.
LEMMA LosslessFresh ==
  ASSUME IInv, NEW c \in consumers \cap Lossless, NEW s \in Nat,
         position[c] <= s, s < producerSequence
  PROVE  slotSeq[SlotOf(s)] = s /\ slotValue[SlotOf(s)] = s
<1>1. /\ producerSequence - position[c] <= Capacity
      /\ Busy => producerSequence - position[c] < Capacity
  BY DEF IInv, Window
<1>2. Kept(s)
  BY <1>1 DEF IInv, Types, Kept, Consumers
<1>. QED BY <1>2 DEF IInv, Intact

\* No action moves a cursor past what was published.
LEMMA CursorsStep == IInv /\ [Next]_vars => Cursors'
<1>. SUFFICES ASSUME IInv, [Next]_vars PROVE Cursors'
  OBVIOUS
<1>. USE DEF IInv, Types, Cursors
<1>1. ASSUME NEW c \in Consumers, AddConsumer(c) PROVE Cursors'
  BY <1>1 DEF AddConsumer, producerVars, readerVars
<1>2. CASE ClaimBlocking
  BY <1>2 DEF ClaimBlocking, readerVars
<1>3. ASSUME NEW c \in Lossless, GatePass(c) PROVE Cursors'
  BY <1>3 DEF GatePass, readerVars
<1>4. CASE BeginWrite
  BY <1>4 DEF BeginWrite, readerVars
<1>5. CASE EndWrite
  BY <1>5 DEF EndWrite, readerVars
<1>6. CASE StoreSlotSeq
  BY <1>6 DEF StoreSlotSeq, readerVars
<1>7. CASE PublishSequence
  BY <1>7 DEF PublishSequence, readerVars
<1>8. ASSUME NEW c \in consumers, ReadEmpty(c) PROVE Cursors'
  BY <1>8 DEF ReadEmpty, producerVars
<1>9. ASSUME NEW c \in consumers, ReadBegin(c) PROVE Cursors'
  <2>1. /\ Target(c) \in Nat /\ position[c] <= Target(c) /\ Target(c) < producerSequence
        /\ c \in Lossless => Target(c) = position[c]
    BY <1>9 DEF ReadBegin, Target
  <2>. QED BY <2>1, <1>9 DEF ReadBegin, producerVars
<1>10. ASSUME NEW c \in consumers, ReadCheck(c) PROVE Cursors'
  BY <1>10 DEF ReadCheck, producerVars
<1>11. ASSUME NEW c \in consumers, ReadCopy(c) PROVE Cursors'
  BY <1>11 DEF ReadCopy, producerVars
<1>12. ASSUME NEW c \in consumers, ReadDeliver(c) PROVE Cursors'
  BY <1>12 DEF ReadDeliver, producerVars
<1>13. ASSUME NEW c \in consumers, ReportStaleSlot(c) PROVE Cursors'
  BY <1>13 DEF ReportStaleSlot, producerVars
<1>14. CASE UNCHANGED vars
  BY <1>14 DEF vars, producerVars, readerVars
<1>. QED BY <1>1, <1>2, <1>3, <1>4, <1>5, <1>6, <1>7, <1>8, <1>9, <1>10, <1>11, <1>12, <1>13, <1>14
         DEF Next, Produce, Read

\* Every consumer's two counters keep up with its cursor.
LEMMA CountsStep == IInv /\ [Next]_vars => Counts'
<1>. SUFFICES ASSUME IInv, [Next]_vars PROVE Counts'
  OBVIOUS
<1>. USE DEF IInv, Types, Cursors, Counts
<1>1. ASSUME NEW c \in Consumers, AddConsumer(c) PROVE Counts'
  BY <1>1 DEF AddConsumer, producerVars, readerVars
<1>2. CASE ClaimBlocking
  BY <1>2 DEF ClaimBlocking, readerVars
<1>3. ASSUME NEW c \in Lossless, GatePass(c) PROVE Counts'
  BY <1>3 DEF GatePass, readerVars
<1>4. CASE BeginWrite
  BY <1>4 DEF BeginWrite, readerVars
<1>5. CASE EndWrite
  BY <1>5 DEF EndWrite, readerVars
<1>6. CASE StoreSlotSeq
  BY <1>6 DEF StoreSlotSeq, readerVars
<1>7. CASE PublishSequence
  BY <1>7 DEF PublishSequence, readerVars
<1>8. ASSUME NEW c \in consumers, ReadEmpty(c) PROVE Counts'
  BY <1>8 DEF ReadEmpty, producerVars
<1>9. ASSUME NEW c \in consumers, ReadBegin(c) PROVE Counts'
  <2>1. Target(c) \in Nat /\ position[c] <= Target(c)
    BY <1>9 DEF ReadBegin, Target
  <2>. QED BY <2>1, <1>9 DEF ReadBegin, producerVars
<1>10. ASSUME NEW c \in consumers, ReadCheck(c) PROVE Counts'
  BY <1>10 DEF ReadCheck, producerVars
<1>11. ASSUME NEW c \in consumers, ReadCopy(c) PROVE Counts'
  BY <1>11 DEF ReadCopy, producerVars
<1>12. ASSUME NEW c \in consumers, ReadDeliver(c) PROVE Counts'
  BY <1>12 DEF ReadDeliver, producerVars
<1>13. ASSUME NEW c \in consumers, ReportStaleSlot(c) PROVE Counts'
  BY <1>13 DEF ReportStaleSlot, producerVars
<1>14. CASE UNCHANGED vars
  BY <1>14 DEF vars, producerVars, readerVars
<1>. QED BY <1>1, <1>2, <1>3, <1>4, <1>5, <1>6, <1>7, <1>8, <1>9, <1>10, <1>11, <1>12, <1>13, <1>14
         DEF Next, Produce, Read

\* The gate keeps the producer less than a capacity ahead of lossless cursors.
LEMMA WindowStep == IInv /\ [Next]_vars => Window'
<1>. SUFFICES ASSUME IInv, [Next]_vars PROVE Window'
  OBVIOUS
<1>. USE DEF IInv, Types, Cursors, Window, Strangers, Busy
<1>1. ASSUME NEW c \in Consumers, AddConsumer(c) PROVE Window'
  BY <1>1 DEF AddConsumer, producerVars, readerVars
<1>2. CASE ClaimBlocking
  BY <1>2 DEF ClaimBlocking, readerVars
<1>3. ASSUME NEW c \in Lossless, GatePass(c) PROVE Window'
  BY <1>3 DEF GatePass, readerVars
<1>4. CASE BeginWrite
  BY <1>4 DEF BeginWrite, readerVars
<1>5. CASE EndWrite
  BY <1>5 DEF EndWrite, readerVars
<1>6. CASE StoreSlotSeq
  BY <1>6 DEF StoreSlotSeq, readerVars
<1>7. CASE PublishSequence
  BY <1>7 DEF PublishSequence, readerVars
<1>8. ASSUME NEW c \in consumers, ReadEmpty(c) PROVE Window'
  BY <1>8 DEF ReadEmpty, producerVars
<1>9. ASSUME NEW c \in consumers, ReadBegin(c) PROVE Window'
  BY <1>9 DEF ReadBegin, producerVars
<1>10. ASSUME NEW c \in consumers, ReadCheck(c) PROVE Window'
  BY <1>10 DEF ReadCheck, producerVars
<1>11. ASSUME NEW c \in consumers, ReadCopy(c) PROVE Window'
  BY <1>11 DEF ReadCopy, producerVars
<1>12. ASSUME NEW c \in consumers, ReadDeliver(c) PROVE Window'
  BY <1>12 DEF ReadDeliver, producerVars
<1>13. ASSUME NEW c \in consumers, ReportStaleSlot(c) PROVE Window'
  BY <1>13 DEF ReportStaleSlot, producerVars
<1>14. CASE UNCHANGED vars
  BY <1>14 DEF vars, producerVars, readerVars
<1>. QED BY <1>1, <1>2, <1>3, <1>4, <1>5, <1>6, <1>7, <1>8, <1>9, <1>10, <1>11, <1>12, <1>13, <1>14
         DEF Next, Produce, Read

\* Only a registered cursor reads.
LEMMA StrangersStep == IInv /\ [Next]_vars => Strangers'
<1>. SUFFICES ASSUME IInv, [Next]_vars PROVE Strangers'
  OBVIOUS
<1>. USE DEF IInv, Types, Cursors, Strangers
<1>1. ASSUME NEW c \in Consumers, AddConsumer(c) PROVE Strangers'
  BY <1>1 DEF AddConsumer, producerVars, readerVars
<1>2. CASE ClaimBlocking
  BY <1>2 DEF ClaimBlocking, readerVars
<1>3. ASSUME NEW c \in Lossless, GatePass(c) PROVE Strangers'
  BY <1>3 DEF GatePass, readerVars
<1>4. CASE BeginWrite
  BY <1>4 DEF BeginWrite, readerVars
<1>5. CASE EndWrite
  BY <1>5 DEF EndWrite, readerVars
<1>6. CASE StoreSlotSeq
  BY <1>6 DEF StoreSlotSeq, readerVars
<1>7. CASE PublishSequence
  BY <1>7 DEF PublishSequence, readerVars
<1>8. ASSUME NEW c \in consumers, ReadEmpty(c) PROVE Strangers'
  BY <1>8 DEF ReadEmpty, producerVars
<1>9. ASSUME NEW c \in consumers, ReadBegin(c) PROVE Strangers'
  BY <1>9 DEF ReadBegin, producerVars
<1>10. ASSUME NEW c \in consumers, ReadCheck(c) PROVE Strangers'
  BY <1>10 DEF ReadCheck, producerVars
<1>11. ASSUME NEW c \in consumers, ReadCopy(c) PROVE Strangers'
  BY <1>11 DEF ReadCopy, producerVars
<1>12. ASSUME NEW c \in consumers, ReadDeliver(c) PROVE Strangers'
  BY <1>12 DEF ReadDeliver, producerVars
<1>13. ASSUME NEW c \in consumers, ReportStaleSlot(c) PROVE Strangers'
  BY <1>13 DEF ReportStaleSlot, producerVars
<1>14. CASE UNCHANGED vars
  BY <1>14 DEF vars, producerVars, readerVars
<1>. QED BY <1>1, <1>2, <1>3, <1>4, <1>5, <1>6, <1>7, <1>8, <1>9, <1>10, <1>11, <1>12, <1>13, <1>14
         DEF Next, Produce, Read

\* A lossless read finds what it asked for.
LEMMA CopiedStep == IInv /\ [Next]_vars => Copied'
<1>. SUFFICES ASSUME IInv, [Next]_vars PROVE Copied'
  OBVIOUS
<1>. USE DEF IInv, Types, Cursors, Copied
<1>1. ASSUME NEW c \in Consumers, AddConsumer(c) PROVE Copied'
  BY <1>1 DEF AddConsumer, producerVars, readerVars
<1>2. CASE ClaimBlocking
  BY <1>2 DEF ClaimBlocking, readerVars
<1>3. ASSUME NEW c \in Lossless, GatePass(c) PROVE Copied'
  BY <1>3 DEF GatePass, readerVars
<1>4. CASE BeginWrite
  BY <1>4 DEF BeginWrite, readerVars
<1>5. CASE EndWrite
  BY <1>5 DEF EndWrite, readerVars
<1>6. CASE StoreSlotSeq
  BY <1>6 DEF StoreSlotSeq, readerVars
<1>7. CASE PublishSequence
  BY <1>7 DEF PublishSequence, readerVars
<1>8. ASSUME NEW c \in consumers, ReadEmpty(c) PROVE Copied'
  BY <1>8 DEF ReadEmpty, producerVars
<1>9. ASSUME NEW c \in consumers, ReadBegin(c) PROVE Copied'
  BY <1>9 DEF ReadBegin, producerVars, Target
<1>10. ASSUME NEW c \in consumers, ReadCheck(c) PROVE Copied'
  BY <1>10 DEF ReadCheck, producerVars
<1>11. ASSUME NEW c \in consumers, ReadCopy(c) PROVE Copied'
  BY <1>11, LosslessFresh DEF ReadCopy, producerVars
<1>12. ASSUME NEW c \in consumers, ReadDeliver(c) PROVE Copied'
  BY <1>12 DEF ReadDeliver, producerVars
<1>13. ASSUME NEW c \in consumers, ReportStaleSlot(c) PROVE Copied'
  BY <1>13, LosslessFresh DEF ReportStaleSlot, producerVars
<1>14. CASE UNCHANGED vars
  BY <1>14 DEF vars, producerVars, readerVars
<1>. QED BY <1>1, <1>2, <1>3, <1>4, <1>5, <1>6, <1>7, <1>8, <1>9, <1>10, <1>11, <1>12, <1>13, <1>14
         DEF Next, Produce, Read

\* No action but the producer's writes disturbs a slot.
LEMMA IntactFrame ==
  ASSUME IInv, UNCHANGED <<nextToClaim, producerSequence, slotSeq, slotValue>>,
         ppc' = ppc \/ (~Busy /\ ~Busy')
  PROVE  Intact'
BY DEF IInv, Intact, Kept, Busy

\* The producer overwrites the one slot that no kept item uses.
LEMMA IntactStep == IInv /\ [Next]_vars => Intact'
<1>. SUFFICES ASSUME IInv, [Next]_vars PROVE Intact'
  OBVIOUS
<1>. USE DEF IInv
<1>. DEFINE n == nextToClaim
<1>0. n \in Nat /\ SlotOf(n) \in Slots /\ producerSequence = n
  BY SlotInRange DEF Types, Cursors
<1>1. ASSUME NEW s \in Nat, s < n, n - s < Capacity
      PROVE  SlotOf(s) # SlotOf(n)
  BY <1>0, <1>1, SlotsApart
<1>2. CASE ClaimBlocking
  BY <1>2, IntactFrame DEF ClaimBlocking, Busy
<1>3. ASSUME NEW c \in Lossless, GatePass(c) PROVE Intact'
  BY <1>3, IntactFrame DEF GatePass
<1>4. CASE BeginWrite
  <2>1. ~Busy /\ Busy'
    BY <1>4 DEF BeginWrite, Busy
  <2>2. ASSUME NEW s \in Nat, Kept(s)'
        PROVE  Kept(s) /\ SlotOf(s) # SlotOf(n)
    BY <2>1, <2>2, <1>0, <1>1, <1>4 DEF Kept, BeginWrite
  <2>3. ASSUME NEW s \in Nat, Kept(s)'
        PROVE  slotSeq'[SlotOf(s)] = s /\ slotValue'[SlotOf(s)] = s
    BY <2>2, <2>3, <1>4, SlotInRange DEF BeginWrite, Intact, Types
  <2>. QED BY <2>3, <1>4 DEF BeginWrite, Intact
<1>5. CASE EndWrite
  <2>1. Busy /\ Busy'
    BY <1>5 DEF EndWrite, Busy
  <2>2. ASSUME NEW s \in Nat, Kept(s)'
        PROVE  Kept(s) /\ SlotOf(s) # SlotOf(n)
    BY <2>1, <2>2, <1>0, <1>1, <1>5 DEF Kept, EndWrite
  <2>3. ASSUME NEW s \in Nat, Kept(s)'
        PROVE  slotSeq'[SlotOf(s)] = s /\ slotValue'[SlotOf(s)] = s
    BY <2>2, <2>3, <1>5, SlotInRange DEF EndWrite, Intact, Types
  <2>4. slotValue'[SlotOf(n)] = n
    BY <1>0, <1>5 DEF EndWrite, Types
  <2>. QED BY <2>3, <2>4, <1>5 DEF EndWrite, Intact
<1>6. CASE StoreSlotSeq
  <2>1. Busy /\ Busy'
    BY <1>6 DEF StoreSlotSeq, Busy
  <2>2. ASSUME NEW s \in Nat, Kept(s)'
        PROVE  Kept(s) /\ SlotOf(s) # SlotOf(n)
    BY <2>1, <2>2, <1>0, <1>1, <1>6 DEF Kept, StoreSlotSeq
  <2>3. ASSUME NEW s \in Nat, Kept(s)'
        PROVE  slotSeq'[SlotOf(s)] = s /\ slotValue'[SlotOf(s)] = s
    BY <2>2, <2>3, <1>6, SlotInRange DEF StoreSlotSeq, Intact, Types
  <2>4. slotSeq'[SlotOf(n)] = n /\ slotValue'[SlotOf(n)] = n
    BY <1>0, <1>6 DEF StoreSlotSeq, Intact, Types
  <2>. QED BY <2>3, <2>4, <1>6 DEF StoreSlotSeq, Intact
<1>7. CASE PublishSequence
  <2>1. Busy /\ ~Busy' /\ producerSequence' = n + 1
    BY <1>7 DEF PublishSequence, Busy
  <2>2. ASSUME NEW s \in Nat, Kept(s)'
        PROVE  Kept(s) \/ s = n
    BY <2>1, <2>2, <1>0 DEF Kept
  <2>3. slotSeq[SlotOf(n)] = n /\ slotValue[SlotOf(n)] = n
    BY <1>7 DEF PublishSequence, Intact
  <2>4. ASSUME NEW s \in Nat, Kept(s)'
        PROVE  slotSeq'[SlotOf(s)] = s /\ slotValue'[SlotOf(s)] = s
    BY <2>2, <2>3, <2>4, <1>7 DEF PublishSequence, Intact
  <2>. QED BY <2>4, <1>7 DEF PublishSequence, Intact
<1>8. ASSUME NEW c \in Consumers, AddConsumer(c) \/ Read(c) PROVE Intact'
  BY <1>8, IntactFrame DEF AddConsumer, Read, ReadEmpty, ReadBegin, ReadCheck, ReadCopy,
     ReadDeliver, ReportStaleSlot, producerVars
<1>9. CASE UNCHANGED vars
  BY <1>9, IntactFrame DEF vars, producerVars
<1>. QED BY <1>2, <1>3, <1>4, <1>5, <1>6, <1>7, <1>8, <1>9 DEF Next, Produce

-------------------------------------------------------------------------------
\* The inductive invariant holds in every reachable state.
THEOREM Invariance == Spec => []IInv
<1>1. IInv /\ [Next]_vars => IInv'
  BY TypesStep, CursorsStep, CountsStep, WindowStep, StrangersStep, IntactStep, CopiedStep
  DEF IInv
<1>. QED BY InitIInv, <1>1, PTL DEF Spec

\* Every variable keeps its type, and every counter stays within what was
\* published, for any capacity and any set of consumers.
THEOREM TypeCorrect == Spec => []TypeOK
<1>1. IInv => TypeOK
  BY DEF IInv, Types, Cursors, Counts, TypeOK
<1>. QED BY Invariance, <1>1, PTL

\* report_stale_slot()'s assert never fires: a lossless consumer never finds
\* its slot overwritten.
THEOREM LosslessNeverStaleHolds == Spec => []LosslessNeverStale
<1>1. IInv => LosslessNeverStale
  <2>. SUFFICES ASSUME IInv, NEW c \in Lossless, rpc[c] \in {"check", "recheck"}
                PROVE  slotSeq[SlotOf(want[c])] = want[c]
    BY DEF LosslessNeverStale
  <2>1. c \in consumers /\ want[c] \in Nat /\ position[c] <= want[c] /\ want[c] < producerSequence
    BY DEF IInv, Strangers, Cursors, Types, Consumers
  <2>. QED BY <2>1, LosslessFresh
<1>. QED BY Invariance, <1>1, PTL

\* The producer never writes a slot that a lossless consumer still has to read.
THEOREM LosslessBacklogIntactHolds == Spec => []LosslessBacklogIntact
<1>1. IInv => LosslessBacklogIntact
  BY LosslessFresh DEF LosslessBacklogIntact, Items
<1>. QED BY Invariance, <1>1, PTL

\* Received and dropped items add up to a consumer's position between reads.
THEOREM AccountingHolds == Spec => []Accounting
<1>1. IInv => Accounting
  BY DEF IInv, Counts, Accounting
<1>. QED BY Invariance, <1>1, PTL

\* Lossless delivery is exactly once and in order: the n-th Ok carries item n.
THEOREM LosslessInOrderHolds == Spec => LosslessInOrder
<1>. DEFINE A == \A c \in Lossless : received'[c] # received[c] => lastItem'[c] = received[c]
<1>1. IInv /\ [Next]_vars => [A]_vars
  <2>. SUFFICES ASSUME IInv, Next, NEW c \in Lossless, received'[c] # received[c]
                PROVE  lastItem'[c] = received[c]
    OBVIOUS
  <2>1. PICK d \in consumers : ReadDeliver(d)
    BY DEF Next, Produce, Read, AddConsumer, ClaimBlocking, GatePass, BeginWrite, EndWrite,
       StoreSlotSeq, PublishSequence, ReadEmpty, ReadBegin, ReadCheck, ReadCopy,
       ReportStaleSlot, readerVars
  <2>2. d = c
    BY <2>1 DEF ReadDeliver, IInv, Types
  <2>3. lastItem'[c] = want[c] /\ rpc[c] = "recheck"
    BY <2>1, <2>2 DEF ReadDeliver, IInv, Types, Copied, Consumers
  <2>4. received[c] = want[c]
    BY <2>3 DEF IInv, Types, Counts, Copied, Consumers
  <2>. QED BY <2>3, <2>4
<1>. QED BY Invariance, <1>1, PTL DEF Spec, LosslessInOrder

-------------------------------------------------------------------------------
(***************************************************************************)
(* RingBuffer implements BroadcastLog.  Over IInv this needs to know what a *)
(* lossy consumer can come by: a slot never shows an item that has left the *)
(* window (Forgotten), so a read whose second check holds was overtaken, if *)
(* at all, by the one write in progress (Overtaken).                        *)
(***************************************************************************)

Forgotten ==
  \A s \in Nat :
    \/ producerSequence - s > Capacity
    \/ producerSequence - s = Capacity /\ ppc = "stamped"
    => slotSeq[SlotOf(s)] # s

HalfWritten == ppc = "writing" => slotValue[SlotOf(nextToClaim)] = Torn

Overtaken ==
  \A c \in consumers :
    rpc[c] = "recheck" /\ slotSeq[SlotOf(want[c])] = want[c] /\ out[c] # want[c] =>
      /\ ppc \in {"writing", "written"}
      /\ producerSequence - want[c] = Capacity
      /\ out[c] \in {Torn, want[c] + Capacity}

LInv == IInv /\ Forgotten /\ HalfWritten /\ Overtaken

\* One lap later, the same slot.
LEMMA NextLap == ASSUME NEW s \in Nat PROVE SlotOf(s + Capacity) = SlotOf(s)
<1>. DEFINE t == s + Capacity
            q == s \div Capacity
            r == t \div Capacity
            d == r - q - 1
<1>1. /\ s = Capacity * q + (s % Capacity) /\ t = Capacity * r + (t % Capacity)
      /\ s % Capacity \in 0 .. Capacity - 1 /\ t % Capacity \in 0 .. Capacity - 1
  BY SMT
<1>2. q \in Int /\ r \in Int /\ d \in Int
  BY SMT
<1>3. Capacity * d = (s % Capacity) - (t % Capacity)
  BY <1>1, <1>2, SMT
<1>. HIDE DEF t, q, r, d
<1>4. Capacity * d < Capacity /\ Capacity * d > -Capacity
  BY <1>1, <1>3, SMT
<1>5. CASE d >= 1
  <2>1. Capacity * d >= Capacity
    BY <1>2, <1>5, SMT
  <2>. QED BY <2>1, <1>2, <1>4, SMT
<1>6. CASE d <= -1
  <2>1. Capacity * d <= -Capacity
    BY <1>2, <1>6, SMT
  <2>. QED BY <2>1, <1>2, <1>4, SMT
<1>7. CASE d = 0
  <2>1. s % Capacity = t % Capacity
    BY <1>1, <1>3, <1>7, SMT
  <2>. QED BY <2>1 DEF SlotOf, t
<1>. QED BY <1>2, <1>5, <1>6, <1>7, SMT

\* A slot's sequence word, once it has moved a lap on, does not come back.
LEMMA ForgottenStep == LInv /\ [Next]_vars => Forgotten'
<1>. SUFFICES ASSUME LInv, [Next]_vars PROVE Forgotten'
  OBVIOUS
<1>. USE DEF LInv, IInv, Types, Cursors
<1>1. CASE StoreSlotSeq
  <2>. DEFINE n == nextToClaim
  <2>1. SlotOf(n) \in Slots /\ slotSeq'[SlotOf(n)] = n
    BY <1>1, SlotInRange DEF StoreSlotSeq
  <2>2. ASSUME NEW s \in Nat, n - s = Capacity PROVE slotSeq'[SlotOf(s)] # s
    <3>1. n = s + Capacity
      BY <2>2
    <3>2. SlotOf(s) = SlotOf(n)
      BY <3>1, NextLap
    <3>. QED BY <2>1, <2>2, <3>2
  <2>3. ASSUME NEW s \in Nat, n - s > Capacity PROVE slotSeq'[SlotOf(s)] # s
    BY <2>1, <2>3, <1>1, SlotInRange DEF StoreSlotSeq, Forgotten
  <2>. QED BY <2>2, <2>3, <1>1 DEF StoreSlotSeq, Forgotten
<1>2. CASE PublishSequence
  BY <1>2 DEF PublishSequence, Forgotten
<1>3. CASE Next /\ ~StoreSlotSeq /\ ~PublishSequence
  <2>1. /\ UNCHANGED <<producerSequence, slotSeq>>
        /\ ppc' = "stamped" => ppc = "stamped"
    BY <1>3 DEF Next, Produce, Read, AddConsumer, ClaimBlocking, GatePass, BeginWrite, EndWrite,
       ReadEmpty, ReadBegin, ReadCheck, ReadCopy, ReadDeliver, ReportStaleSlot, producerVars
  <2>. QED BY <2>1 DEF Forgotten
<1>4. CASE UNCHANGED vars
  BY <1>4 DEF vars, producerVars, Forgotten
<1>. QED BY <1>1, <1>2, <1>3, <1>4

\* Only the producer's own slot can be half-assigned.
LEMMA HalfWrittenStep == LInv /\ [Next]_vars => HalfWritten'
<1>. SUFFICES ASSUME LInv, [Next]_vars, ppc' = "writing"
              PROVE  slotValue'[SlotOf(nextToClaim')] = Torn
  BY DEF HalfWritten
<1>. USE DEF LInv, IInv, Types, Cursors
<1>1. CASE BeginWrite
  BY <1>1, SlotInRange DEF BeginWrite
<1>2. CASE Next /\ ~BeginWrite
  <2>1. ppc = "writing" /\ UNCHANGED <<nextToClaim, slotValue>>
    BY <1>2 DEF Next, Produce, Read, AddConsumer, ClaimBlocking, GatePass, EndWrite,
       StoreSlotSeq, PublishSequence, ReadEmpty, ReadBegin, ReadCheck, ReadCopy, ReadDeliver,
       ReportStaleSlot, producerVars
  <2>. QED BY <2>1 DEF HalfWritten
<1>3. CASE UNCHANGED vars
  BY <1>3 DEF vars, producerVars, HalfWritten
<1>. QED BY <1>1, <1>2, <1>3

\* A read that is overtaken within its window is seen as Readable or as lost.
LEMMA OvertakenStep == LInv /\ [Next]_vars => Overtaken'
<1>. SUFFICES ASSUME LInv, [Next]_vars, NEW c \in consumers', rpc'[c] = "recheck",
                     slotSeq'[SlotOf(want'[c])] = want'[c], out'[c] # want'[c]
              PROVE  /\ ppc' \in {"writing", "written"}
                     /\ producerSequence' - want'[c] = Capacity
                     /\ out'[c] \in {Torn, want'[c] + Capacity}
  BY DEF Overtaken
<1>. USE DEF LInv, IInv, Types, Cursors
<1>1. CASE \E d \in consumers : ReadCopy(d)
  <2>1. PICK d \in consumers : ReadCopy(d)
    BY <1>1
  <2>2. CASE d # c
    BY <2>1, <2>2 DEF ReadCopy, producerVars, Overtaken
  <2>3. CASE d = c
    <3>1. /\ c \in consumers /\ want'[c] = want[c] /\ want[c] \in Nat
          /\ out'[c] = slotValue[SlotOf(want[c])] /\ slotSeq[SlotOf(want[c])] = want[c]
          /\ want[c] < producerSequence
      BY <2>1, <2>3 DEF ReadCopy, producerVars
    <3>2. ~Kept(want[c])
      BY <3>1 DEF Intact
    <3>3. Busy /\ producerSequence - want[c] = Capacity /\ ppc # "stamped"
      BY <3>1, <3>2 DEF Kept, Forgotten
    <3>4. nextToClaim = want[c] + Capacity /\ SlotOf(nextToClaim) = SlotOf(want[c])
      BY <3>1, <3>3, NextLap
    <3>. QED BY <2>1, <3>1, <3>3, <3>4 DEF Busy, Intact, HalfWritten, ReadCopy, producerVars
  <2>. QED BY <2>2, <2>3
<1>2. CASE StoreSlotSeq
  <2>1. /\ SlotOf(nextToClaim) \in Slots /\ c \in consumers /\ rpc[c] = "recheck"
        /\ want'[c] = want[c] /\ want[c] \in Nat /\ want[c] < nextToClaim /\ out'[c] = out[c]
    BY <1>2, SlotInRange DEF StoreSlotSeq, readerVars
  <2>2. slotSeq'[SlotOf(want[c])] = slotSeq[SlotOf(want[c])] /\ SlotOf(want[c]) # SlotOf(nextToClaim)
    BY <2>1, <1>2, SlotInRange DEF StoreSlotSeq
  <2>3. nextToClaim # want[c] + Capacity
    BY <2>1, <2>2, NextLap
  <2>. QED BY <2>1, <2>2, <2>3, <1>2 DEF StoreSlotSeq, Overtaken
<1>3. CASE Produce /\ ~StoreSlotSeq
  <2>1. /\ UNCHANGED <<slotSeq, consumers, rpc, want, out>>
        /\ ppc \in {"writing", "written"} =>
             ppc' \in {"writing", "written"} /\ producerSequence' = producerSequence
    BY <1>3 DEF Produce, ClaimBlocking, GatePass, BeginWrite, EndWrite, PublishSequence, readerVars
  <2>. QED BY <2>1 DEF Overtaken
<1>4. CASE \E d \in Consumers : AddConsumer(d)
  BY <1>4 DEF AddConsumer, producerVars, readerVars, Strangers, Overtaken
<1>5. CASE \E d \in consumers : Read(d) /\ ~ReadCopy(d)
  <2>1. /\ c \in consumers /\ rpc[c] = "recheck" /\ want'[c] = want[c] /\ out'[c] = out[c]
        /\ UNCHANGED producerVars
    BY <1>5 DEF Read, ReadEmpty, ReadBegin, ReadCheck, ReadDeliver, ReportStaleSlot
  <2>. QED BY <2>1 DEF producerVars, Overtaken
<1>6. CASE UNCHANGED vars
  BY <1>6 DEF vars, producerVars, readerVars, Overtaken
<1>. QED BY <1>1, <1>2, <1>3, <1>4, <1>5, <1>6 DEF Next, Read

\* The parts added for the refinement are invariant as well.
LEMMA LInvInvariant == Spec => []LInv
<1>1. Init => LInv
  BY InitIInv DEF LInv, Init, Forgotten, HalfWritten, Overtaken
<1>2. IInv /\ [Next]_vars => IInv'
  BY TypesStep, CursorsStep, CountsStep, WindowStep, StrangersStep, IntactStep, CopiedStep
  DEF IInv
<1>3. LInv /\ [Next]_vars => LInv'
  BY <1>2, ForgottenStep, HalfWrittenStep, OvertakenStep DEF LInv
<1>. QED BY <1>1, <1>3, PTL DEF Spec

\* A step that keeps the log's counters changes nothing that the log shows.
LEMMA LogStutter ==
  ASSUME LogCursor' = LogCursor,
         UNCHANGED <<producerSequence, consumers, received, dropped, lastItem>>
  PROVE  UNCHANGED Log!logVars
BY DEF Log!logVars

\* Every step of the ring is one of the log's, or none.
LEMMA LogStep == LInv /\ [Next]_vars => [Log!Next]_Log!logVars
<1>. SUFFICES ASSUME LInv, [Next]_vars PROVE [Log!Next]_Log!logVars
  OBVIOUS
<1>. USE DEF LInv, IInv, Types, Cursors
<1>0. Log!Members = Consumers
  BY DEF Log!Members, Consumers
<1>1. ASSUME NEW c \in Consumers, AddConsumer(c) PROVE Log!Join(c)
  <2>1. LogCursor' = LogCursor
    BY <1>1 DEF AddConsumer, readerVars, LogCursor
  <2>. QED BY <2>1, <1>1 DEF AddConsumer, producerVars, readerVars, Log!Join
<1>2. CASE PublishSequence
  <2>1. LogCursor' = LogCursor
    BY <1>2 DEF PublishSequence, readerVars, LogCursor
  <2>2. ASSUME NEW c \in consumers \cap Lossless PROVE producerSequence - LogCursor[c] < Capacity
    BY <1>2, <2>2 DEF PublishSequence, Window, Busy, LogCursor, Consumers
  <2>. QED BY <2>1, <2>2, <1>2 DEF PublishSequence, readerVars, Log!Append, Log!Next
<1>3. CASE Produce /\ ~PublishSequence
  <2>1. UNCHANGED <<producerSequence, consumers, readerVars>>
    BY <1>3 DEF Produce, ClaimBlocking, GatePass, BeginWrite, EndWrite, StoreSlotSeq
  <2>2. LogCursor' = LogCursor
    BY <2>1 DEF readerVars, LogCursor
  <2>. QED BY <2>1, <2>2, LogStutter DEF readerVars
<1>4. ASSUME NEW c \in consumers, ReadEmpty(c) \/ ReadCheck(c) \/ ReadCopy(c)
      PROVE  UNCHANGED Log!logVars
  <2>1. LogCursor' = LogCursor
    BY <1>4 DEF ReadEmpty, ReadCheck, ReadCopy, LogCursor
  <2>. QED BY <2>1, <1>4, LogStutter DEF ReadEmpty, ReadCheck, ReadCopy, producerVars
<1>5. ASSUME NEW c \in consumers, ReadBegin(c)
      PROVE  UNCHANGED Log!logVars \/ Log!Skip(c)
  <2>1. LogCursor' = [LogCursor EXCEPT ![c] = Target(c)] /\ LogCursor[c] = position[c]
    BY <1>5 DEF ReadBegin, LogCursor
  <2>2. CASE c \in Lossy /\ producerSequence - position[c] > Capacity
    BY <2>1, <2>2, <1>5 DEF ReadBegin, Target, producerVars, Log!Skip
  <2>3. CASE ~(c \in Lossy /\ producerSequence - position[c] > Capacity)
    <3>1. LogCursor' = LogCursor /\ dropped' = dropped
      BY <2>1, <2>3, <1>5 DEF ReadBegin, Target, LogCursor
    <3>. QED BY <3>1, <1>5, LogStutter DEF ReadBegin, producerVars
  <2>. QED BY <2>2, <2>3
<1>6. ASSUME NEW c \in consumers, ReadDeliver(c) PROVE Log!Take(c)
  <2>1. LogCursor' = [LogCursor EXCEPT ![c] = @ + 1] /\ LogCursor[c] = want[c]
    BY <1>6 DEF ReadDeliver, LogCursor
  <2>2. out[c] \in Log!Readable(c)
    BY <2>1, <1>6 DEF ReadDeliver, Overtaken, Copied, Consumers, Log!Readable
  <2>. QED BY <2>1, <2>2, <1>6 DEF ReadDeliver, producerVars, Log!Take
<1>7. ASSUME NEW c \in consumers, ReportStaleSlot(c) PROVE Log!Lose(c)
  <2>1. LogCursor' = [LogCursor EXCEPT ![c] = @ + 1] /\ LogCursor[c] = want[c]
    BY <1>7 DEF ReportStaleSlot, LogCursor
  <2>2. c \in Lossy
    <3>1. /\ c \in Consumers /\ want[c] \in Nat /\ want[c] < producerSequence
          /\ position[c] <= want[c] /\ slotSeq[SlotOf(want[c])] # want[c]
      BY <1>7 DEF ReportStaleSlot
    <3>. QED BY <3>1, LosslessFresh DEF Consumers
  <2>3. ~Kept(want[c])
    BY <1>7 DEF ReportStaleSlot, Intact
  <2>4. producerSequence - want[c] >= Capacity
    BY <2>3, <1>7 DEF Kept, ReportStaleSlot
  <2>. QED BY <2>1, <2>2, <2>4, <1>7 DEF ReportStaleSlot, producerVars, Log!Lose
<1>8. CASE UNCHANGED vars
  <2>1. LogCursor' = LogCursor
    BY <1>8 DEF vars, readerVars, LogCursor
  <2>. QED BY <2>1, <1>8, LogStutter DEF vars, producerVars, readerVars
<1>9. CASE \E c \in Consumers : AddConsumer(c)
  <2>1. PICK c \in Consumers \ consumers : AddConsumer(c)
    BY <1>9 DEF AddConsumer
  <2>. QED BY <2>1, <1>1, <1>0 DEF Log!Next
<1>10. CASE \E c \in consumers : Read(c)
  BY <1>10, <1>4, <1>5, <1>6, <1>7 DEF Read, Log!Next
<1>. QED BY <1>2, <1>3, <1>8, <1>9, <1>10 DEF Next, Read, Log!Next

\* RingBuffer implements BroadcastLog, for every set of lossless and lossy
\* consumers: all that the ring's users may rely on is said there.
THEOREM RingImplementsLog == Spec => LogSpec
<1>1. Init => Log!Init
  <2>1. Init => LogCursor = [c \in Log!Members |-> 0]
    BY DEF Init, LogCursor, Log!Members, Consumers
  <2>. QED BY <2>1 DEF Init, Log!Init, Log!Members, Consumers
<1>. QED BY <1>1, LInvInvariant, LogStep, PTL DEF Spec, LogSpec, Log!Spec
===============================================================================
