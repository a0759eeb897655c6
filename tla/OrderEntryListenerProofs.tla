----------------------- MODULE OrderEntryListenerProofs -----------------------
(***************************************************************************)
(* Proofs about OrderEntryListener, for any clients, frames and starts.    *)
(*                                                                         *)
(* ThreadsOwned is kept by every step only because of where the owner and  *)
(* the accept thread can be at the same time: while stop() holds its       *)
(* vector the accept thread is gone, so nothing is added to connections_   *)
(* behind its back (Stages), and a connection that is accepted and has no  *)
(* thread yet is the one the accept thread holds (Held).                   *)
(***************************************************************************)
EXTENDS OrderEntryListener, TLAPS

\* Which of the owner, the accept thread, connections_ and the vector taken by
\* stop() there can be together.
Stages ==
  /\ running <=> owner = "listening"
  /\ accepting = "none" <=> owner \in {"stopped", "joinConnections"}
  /\ accepting = "none" => connections = <<>>
  /\ owner # "joinConnections" => joining = {}

\* A connection that is accepted and not pushed is the accept thread's.
Held ==
  /\ accepting = "push" <=> client # NoClient
  /\ \A c \in Clients : conn[c] = "accepted" <=> client = c

\* A frame whose payload is awaited is one within the bound.
Counted == \A c \in Clients : conn[c] = "payload" => handled[c] < MaxFrames

IInv == TypeOK /\ Stages /\ Held /\ Counted /\ ThreadsOwned

USE ClientsAssumption, FramesAssumption, StartsAssumption

-------------------------------------------------------------------------------
(* What PushConnection does to connections_.                                *)

\* A prefix of a sequence without repetitions, and one more at its end.
LEMMA PrefixAndOne ==
  ASSUME NEW seq \in Seq(Clients), IsInjective(seq), NEW n \in 0 .. Len(seq),
         NEW c \in Clients, c \notin ToSet(seq)
  PROVE  LET new == Append(SubSeq(seq, 1, n), c)
         IN /\ new \in Seq(Clients) /\ IsInjective(new)
            /\ ToSet(new) = {seq[i] : i \in 1 .. n} \cup {c}
<1>. DEFINE new == Append(SubSeq(seq, 1, n), c)
<1>1. /\ new \in Seq(Clients) /\ Len(new) = n + 1 /\ new[n + 1] = c
      /\ \A i \in 1 .. n : new[i] = seq[i]
  OBVIOUS
<1>2. DOMAIN new = 1 .. n + 1 /\ DOMAIN seq = 1 .. Len(seq)
  BY <1>1
<1>. HIDE DEF new
<1>3. IsInjective(new)
  BY <1>1, <1>2 DEF IsInjective, ToSet
<1>4. ToSet(new) = {seq[i] : i \in 1 .. n} \cup {c}
  BY <1>1, <1>2 DEF ToSet
<1>. QED BY <1>1, <1>3, <1>4 DEF new

\* Reaping keeps the unfinished connections, and the new one is the last.
LEMMA Pushed ==
  ASSUME IInv, PushConnection
  PROVE  /\ client \in Clients /\ conn[client] = "accepted"
         /\ connections' \in Seq(Clients) /\ IsInjective(connections')
         /\ ToSet(connections') = {c \in ToSet(connections) : ~Finished(c)} \cup {client}
<1>. USE DEF IInv
<1>1. client \in Clients /\ conn[client] = "accepted"
  BY DEF PushConnection, TypeOK, Held
<1>2. client \notin ToSet(connections)
  BY <1>1 DEF ThreadsOwned, Started, InLoop
<1>3. PICK n \in 0 .. Len(connections) :
        Kept(n) /\ connections' = Append(SubSeq(connections, 1, n), client)
  BY DEF PushConnection
<1>4. connections \in Seq(Clients) /\ IsInjective(connections)
  BY DEF TypeOK
<1>5. {connections[i] : i \in 1 .. n} = {c \in ToSet(connections) : ~Finished(c)}
  BY <1>3, <1>4 DEF Kept, ToSet
<1>. QED BY <1>1, <1>2, <1>3, <1>4, <1>5, PrefixAndOne

-------------------------------------------------------------------------------
(* Every step keeps IInv.                                                   *)

LEMMA InitInv == Init => IInv
<1>. SUFFICES ASSUME Init PROVE IInv
  OBVIOUS
<1>1. TypeOK
  <2>1. <<>> \in Seq(Clients) /\ IsInjective(<<>>)
    BY DEF IsInjective
  <2>2. conn \in [Clients -> ConnStates] /\ handled \in [Clients -> 0 .. MaxFrames]
    BY DEF Init, ConnStates
  <2>3. running \in BOOLEAN /\ terminated \in BOOLEAN
    BY DEF Init
  <2>4. client \in Clients \cup {NoClient} /\ starts \in 0 .. MaxStarts /\ joining \subseteq Clients
    BY DEF Init
  <2>. QED BY <2>1, <2>2, <2>3, <2>4 DEF Init, TypeOK
<1>2. Stages /\ Held /\ Counted
  BY DEF Init, Stages, Held, Counted
<1>3. ThreadsOwned
  BY DEF Init, ThreadsOwned, Started, InLoop, ToSet
<1>. QED BY <1>1, <1>2, <1>3 DEF IInv

\* The owner.
LEMMA OwnerStep == IInv /\ (Start \/ Stop \/ Stopping) => IInv'
<1>. SUFFICES ASSUME IInv, Start \/ Stop \/ Stopping PROVE IInv'
  OBVIOUS
<1>. USE DEF IInv
<1>1. CASE Start \/ Stop
  <2>1. Held' /\ Counted'
    BY <1>1 DEF Start, Stop, TypeOK, Stages, Held, Counted
  <2>2. starts' \in 0 .. MaxStarts
    BY <1>1 DEF Start, Stop, TypeOK
  <2>3. running' \in BOOLEAN
    BY <1>1 DEF Start, Stop
  <2>4. TypeOK'
    BY <1>1, <2>2, <2>3 DEF Start, Stop, TypeOK
  <2>5. Stages'
    BY <1>1 DEF Start, Stop, Stages, TypeOK
  <2>6. ThreadsOwned'
    BY <1>1 DEF Start, Stop, ThreadsOwned, Started
  <2>. QED BY <2>1, <2>6, <2>5, <2>4
<1>2. CASE JoinAccept
  <2>1. ToSet(connections) \subseteq Clients /\ ToSet(<<>>) = {} /\ IsInjective(<<>>)
    BY DEF TypeOK, ToSet, IsInjective
  <2>2. TypeOK' /\ Stages' /\ Held' /\ Counted'
    BY <1>2, <2>1 DEF JoinAccept, TypeOK, Stages, Held, Counted
  <2>3. ThreadsOwned'
    BY <1>2, <2>1 DEF JoinAccept, ThreadsOwned, Started, Stages
  <2>. QED BY <2>2, <2>3
<1>3. ASSUME NEW c \in Clients, JoinConnection(c) PROVE IInv'
  <2>1. TypeOK' /\ Stages' /\ Held' /\ Counted'
    BY <1>3 DEF JoinConnection, TypeOK, Stages, Held, Counted, ConnStates
  <2>2. \A d \in Clients : Started(d)' <=> Started(d) /\ d # c
    BY <1>3 DEF JoinConnection, Started, InLoop, TypeOK
  <2>3. ThreadsOwned'
    BY <1>3, <2>2 DEF JoinConnection, ThreadsOwned
  <2>. QED BY <2>1, <2>3
<1>4. CASE StopReturns
  <2>1. TypeOK' /\ Stages' /\ Held' /\ Counted'
    BY <1>4 DEF StopReturns, TypeOK, Stages, Held, Counted, ConnStates
  <2>2. \A d \in Clients : Started(d)' <=> Started(d)
    BY <1>4 DEF StopReturns, Started, InLoop, TypeOK
  <2>3. ThreadsOwned'
    BY <1>4, <2>2 DEF StopReturns, ThreadsOwned
  <2>. QED BY <2>1, <2>3
<1>. QED BY <1>1, <1>2, <1>3, <1>4 DEF Stopping

\* The accept thread.
LEMMA AcceptingStep == IInv /\ Accepting => IInv'
<1>. SUFFICES ASSUME IInv, Accepting PROVE IInv'
  OBVIOUS
<1>. USE DEF IInv
<1>1. CASE AcceptLoop \/ AcceptTimeout \/ ReapTerminates
  <2>1. TypeOK' /\ Held' /\ Counted'
    BY <1>1 DEF AcceptLoop, AcceptTimeout, ReapTerminates, TypeOK, Held, Counted
  <2>2. Stages'
    BY <1>1 DEF AcceptLoop, AcceptTimeout, ReapTerminates, TypeOK, Stages
  <2>3. ThreadsOwned'
    BY <1>1 DEF AcceptLoop, AcceptTimeout, ReapTerminates, ThreadsOwned, Started
  <2>. QED BY <2>1, <2>3, <2>2
<1>2. ASSUME NEW c \in Clients, Accept(c) PROVE IInv'
  <2>1. TypeOK' /\ Stages' /\ Held' /\ Counted'
    BY <1>2 DEF Accept, TypeOK, Stages, Held, Counted, ConnStates
  <2>2. \A d \in Clients : Started(d)' <=> Started(d)
    BY <1>2 DEF Accept, Started, InLoop, TypeOK
  <2>3. ThreadsOwned'
    BY <1>2, <2>2 DEF Accept, ThreadsOwned
  <2>. QED BY <2>1, <2>3
<1>3. CASE PushConnection
  <2>1. /\ client \in Clients /\ conn[client] = "accepted"
        /\ connections' \in Seq(Clients) /\ IsInjective(connections')
        /\ ToSet(connections') = {c \in ToSet(connections) : ~Finished(c)} \cup {client}
    BY <1>3, Pushed
  <2>2. TypeOK' /\ Stages' /\ Held' /\ Counted'
    BY <1>3, <2>1 DEF PushConnection, TypeOK, Stages, Held, Counted, ConnStates, InLoop
  <2>3. \A d \in Clients : Started(d)' <=>
          d = client \/ (Started(d) /\ ~(d \in ToSet(connections) /\ Finished(d)))
    BY <1>3, <2>1 DEF PushConnection, Started, InLoop, TypeOK
  <2>4. joining = {} /\ joining' = {}
    BY <1>3 DEF PushConnection, Stages
  <2>5. ThreadsOwned'
    BY <2>1, <2>3, <2>4 DEF ThreadsOwned
  <2>. QED BY <2>2, <2>5
<1>. QED BY <1>1, <1>2, <1>3 DEF Accepting

\* The connections' threads and their clients: a thread ends, and is still owned.
LEMMA ConnectionStep ==
  ASSUME IInv, NEW c \in Clients, Connection(c) \/ Peer(c)
  PROVE  IInv'
<1>. USE DEF IInv
<1>1. CASE Connect(c)
  <2>1. TypeOK' /\ Stages' /\ Held' /\ Counted'
    BY <1>1 DEF Connect, TypeOK, Stages, Held, Counted, ConnStates
  <2>2. \A d \in Clients : Started(d)' <=> Started(d)
    BY <1>1 DEF Connect, Started, InLoop, TypeOK
  <2>3. ThreadsOwned'
    BY <1>1, <2>2 DEF Connect, ThreadsOwned
  <2>. QED BY <2>1, <2>3
<1>2. CASE ConnectionLoop(c) \/ RecvStopped(c) \/ HandlerReturns(c) \/ RecvHeader(c)
             \/ RecvPayload(c) \/ RecvFails(c)
  <2>. USE DEF ConnectionLoop, RecvStopped, HandlerReturns, RecvHeader, RecvPayload, RecvFails,
               MoveConnection
  <2>1. PICK to \in InLoop \cup {"finished"} :
          conn[c] \in InLoop /\ conn' = [conn EXCEPT ![c] = to]
    BY <1>2 DEF InLoop
  <2>2. TypeOK'
    BY SMTT(40), <1>2 DEF TypeOK, Counted, ConnStates, InLoop
  <2>3. Stages' /\ Held' /\ Counted'
    BY <1>2 DEF TypeOK, Stages, Held, Counted
  <2>4. \A d \in Clients : Started(d)' <=> Started(d)
    BY <2>1 DEF Started, TypeOK
  <2>5. ThreadsOwned'
    BY <1>2, <2>4 DEF ThreadsOwned
  <2>. QED BY <2>2, <2>3, <2>5
<1>. QED BY <1>1, <1>2 DEF Connection, Peer

LEMMA InvStep == IInv /\ [Next]_vars => IInv'
<1>. SUFFICES ASSUME IInv, [Next]_vars PROVE IInv'
  OBVIOUS
<1>1. CASE UNCHANGED vars
  BY <1>1 DEF vars, IInv, TypeOK, Stages, Held, Counted, ThreadsOwned, Started
<1>. QED BY <1>1, OwnerStep, AcceptingStep, ConnectionStep DEF Next

-------------------------------------------------------------------------------
(* The theorems.                                                            *)

THEOREM Invariance == Spec => []IInv
BY InitInv, InvStep, PTL DEF Spec

\* Every variable of the listener keeps its type.
THEOREM TypeCorrect == Spec => []TypeOK
<1>1. IInv => TypeOK
  BY DEF IInv
<1>. QED BY Invariance, <1>1, PTL

\* No thread is forgotten, and none is joined twice: each that was started and not
\* joined is in connections_ or in the vector of stop(), and never in both.
THEOREM ThreadsOwnedHolds == Spec => []ThreadsOwned
<1>1. IInv => ThreadsOwned
  BY DEF IInv
<1>. QED BY Invariance, <1>1, PTL

\* When stop() has returned the listener has no thread left, and no connection
\* that was accepted and never got one.
THEOREM QuietWhenStoppedHolds == Spec => []QuietWhenStopped
<1>1. IInv => QuietWhenStopped
  <2>. SUFFICES ASSUME IInv, owner = "stopped"
                PROVE  /\ accepting = "none" /\ connections = <<>>
                       /\ \A c \in Clients : ~Started(c) /\ conn[c] # "accepted"
    BY DEF QuietWhenStopped
  <2>1. accepting = "none" /\ connections = <<>> /\ joining = {}
    BY DEF IInv, Stages
  <2>2. ToSet(connections) = {}
    BY <2>1 DEF ToSet
  <2>. QED BY <2>1, <2>2 DEF IInv, ThreadsOwned, Held
<1>. QED BY Invariance, <1>1, PTL
===============================================================================
