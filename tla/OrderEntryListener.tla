-------------------------- MODULE OrderEntryListener --------------------------
(***************************************************************************)
(* Net::OrderEntryListener (src/Net/src/order_entry_listener.cpp): an      *)
(* accept thread, one thread per accepted connection, and the thread that  *)
(* owns the listener and calls start() and stop().                         *)
(*                                                                         *)
(* A connection is named by its client and is made once.  Bytes are left   *)
(* out: a client may send a whole frame, go away, or send something that   *)
(* is not one of ours, at any time it is listened to.  handler_ is the     *)
(* server's push into its inbound queue: a call that ends.                 *)
(***************************************************************************)
EXTENDS Naturals, Sequences, SequencesExt

CONSTANTS
  Clients,     \* clients that connect
  NoClient,    \* no client
  MaxFrames,   \* bound on the frames of a connection
  MaxStarts    \* bound on the calls of start()

ASSUME ClientsAssumption == NoClient \notin Clients
ASSUME FramesAssumption == MaxFrames \in Nat
ASSUME StartsAssumption == MaxStarts \in Nat

VARIABLES
  running,       \* running_
  owner,         \* the owner: stopped, listening, joinAccept, joinConnections
  accepting,     \* accept_thread_: none, head, wait, push, returned
  client,        \* accept_loop()'s local: the client it accepted
  connections,   \* connections_, a sequence of clients
  joining,       \* stop()'s local vector: the connections still to be joined
  conn,          \* per client: where its connection and its thread are
  handled,       \* history: per client, calls of handler_
  starts,        \* history: calls of start()
  terminated     \* std::terminate() has been called

vars == <<running, owner, accepting, client, connections, joining, conn, handled,
          starts, terminated>>

\* Where a connection's thread can be while it runs connection_loop().
InLoop == {"head", "header", "payload", "handler"}
\* finished: the flag is set and the loop left; joined: the thread object is
\* gone, or never was.  backlog: connected, and not accepted yet.
ConnStates == {"new", "backlog", "accepted", "finished", "joined"} \cup InLoop

Init ==
  /\ running = FALSE
  /\ owner = "stopped"
  /\ accepting = "none"
  /\ client = NoClient
  /\ connections = <<>>
  /\ joining = {}
  /\ conn = [c \in Clients |-> "new"]
  /\ handled = [c \in Clients |-> 0]
  /\ starts = 0
  /\ terminated = FALSE

-------------------------------------------------------------------------------
(* The owner's start() and stop().                                          *)

\* A start() that finds its port taken puts everything back and is no step.
Start ==
  /\ owner = "stopped" /\ starts < MaxStarts
  /\ running' = TRUE
  /\ owner' = "listening"
  /\ accepting' = "head"
  /\ starts' = starts + 1
  /\ UNCHANGED <<client, connections, joining, conn, handled, terminated>>

Stop ==
  /\ owner = "listening"
  /\ running' = FALSE
  /\ owner' = "joinAccept"
  /\ UNCHANGED <<accepting, client, connections, joining, conn, handled, starts, terminated>>

\* Mutants of JoinAccept: the vector is taken before the accept thread is
\* joined; it is copied.
JoinAcceptLate ==
  /\ owner = "joinAccept"
  /\ joining' = ToSet(connections)
  /\ connections' = <<>>
  /\ owner' = "joinConnections"
  /\ UNCHANGED <<running, accepting, client, conn, handled, starts, terminated>>

JoinAcceptCopies ==
  /\ owner = "joinAccept" /\ accepting = "returned"
  /\ accepting' = "none"
  /\ joining' = ToSet(connections)
  /\ owner' = "joinConnections"
  /\ UNCHANGED <<running, client, connections, conn, handled, starts, terminated>>

\* accept_thread_.join(), then the connections are taken under the mutex.
JoinAccept ==
  /\ owner = "joinAccept" /\ accepting = "returned"
  /\ accepting' = "none"
  /\ joining' = ToSet(connections)
  /\ connections' = <<>>
  /\ owner' = "joinConnections"
  /\ UNCHANGED <<running, client, conn, handled, starts, terminated>>

JoinConnection(c) ==
  /\ owner = "joinConnections"
  /\ c \in joining /\ conn[c] = "finished"
  /\ joining' = joining \ {c}
  /\ conn' = [conn EXCEPT ![c] = "joined"]
  /\ UNCHANGED <<running, owner, accepting, client, connections, handled, starts, terminated>>

\* The listening socket goes, and with it whoever was never accepted.
StopReturns ==
  /\ owner = "joinConnections" /\ joining = {}
  /\ owner' = "stopped"
  /\ conn' = [c \in Clients |-> IF conn[c] = "backlog" THEN "joined" ELSE conn[c]]
  /\ UNCHANGED <<running, accepting, client, connections, joining, handled, starts, terminated>>

-------------------------------------------------------------------------------
(* The accept thread.                                                       *)

Connect(c) ==
  /\ owner # "stopped" /\ conn[c] = "new"
  /\ conn' = [conn EXCEPT ![c] = "backlog"]
  /\ UNCHANGED <<running, owner, accepting, client, connections, joining, handled, starts,
                 terminated>>

AcceptLoop ==
  /\ accepting = "head"
  /\ accepting' = IF running THEN "wait" ELSE "returned"
  /\ UNCHANGED <<running, owner, client, connections, joining, conn, handled, starts, terminated>>

\* 100 ms without a client.
AcceptTimeout ==
  /\ accepting = "wait"
  /\ \A c \in Clients : conn[c] # "backlog"
  /\ accepting' = "head"
  /\ UNCHANGED <<running, owner, client, connections, joining, conn, handled, starts, terminated>>

Accept(c) ==
  /\ accepting = "wait"
  /\ conn[c] = "backlog"
  /\ conn' = [conn EXCEPT ![c] = "accepted"]
  /\ client' = c
  /\ accepting' = "push"
  /\ UNCHANGED <<running, owner, connections, joining, handled, starts, terminated>>

Finished(c) == conn[c] = "finished"

\* std::remove_if moves every later unfinished connection over the first
\* finished ones, and assigning to a std::thread that is still joinable calls
\* std::terminate().  With none to move, the finished ones are joined.
ReapMoves ==
  \E i, j \in DOMAIN connections :
    i < j /\ Finished(connections[i]) /\ ~Finished(connections[j])

ReapTerminates ==
  /\ accepting = "push" /\ ReapMoves
  /\ terminated' = TRUE
  /\ UNCHANGED <<running, owner, accepting, client, connections, joining, conn, handled, starts>>

\* The finished connections are the last ones, and only the first are kept.
Kept(n) == \A i \in DOMAIN connections : Finished(connections[i]) <=> i > n

\* Mutant of PushConnection: the socket is used after it was handed over.
PushConnectionMovedFrom ==
  /\ accepting = "push"
  /\ \E n \in 0 .. Len(connections) :
       Kept(n) /\ connections' = Append(SubSeq(connections, 1, n), NoClient)
  /\ conn' = [c \in Clients |->
                IF c \in ToSet(connections) /\ Finished(c) THEN "joined" ELSE conn[c]]
  /\ client' = NoClient
  /\ accepting' = "head"
  /\ UNCHANGED <<running, owner, joining, handled, starts, terminated>>

\* Under the mutex: reap_finished_connections(), then the new thread.
PushConnection ==
  /\ accepting = "push"
  /\ \E n \in 0 .. Len(connections) :
       Kept(n) /\ connections' = Append(SubSeq(connections, 1, n), client)
  /\ conn' = [c \in Clients |->
                IF c = client THEN "head"
                ELSE IF c \in ToSet(connections) /\ Finished(c) THEN "joined"
                ELSE conn[c]]
  /\ client' = NoClient
  /\ accepting' = "head"
  /\ UNCHANGED <<running, owner, joining, handled, starts, terminated>>

-------------------------------------------------------------------------------
(* A connection's thread.                                                   *)

MoveConnection(c, from, to) ==
  /\ conn[c] \in from
  /\ conn' = [conn EXCEPT ![c] = to]
  /\ UNCHANGED <<running, owner, accepting, client, connections, joining, starts, terminated>>

\* The head of the loop.
ConnectionLoop(c) ==
  /\ MoveConnection(c, {"head"}, IF running THEN "header" ELSE "finished")
  /\ UNCHANGED handled

\* recv_all() of the frame header, and of the payload that it announces, which
\* looks at running_ before it waits.
RecvHeader(c) ==
  /\ handled[c] < MaxFrames
  /\ MoveConnection(c, {"header"}, IF running THEN "payload" ELSE "finished")
  /\ UNCHANGED handled

RecvPayload(c) ==
  /\ MoveConnection(c, {"payload"}, "handler")
  /\ handled' = [handled EXCEPT ![c] = @ + 1]

\* The client has gone, or has sent something else.
RecvFails(c) ==
  /\ MoveConnection(c, {"header", "payload"}, "finished")
  /\ UNCHANGED handled

\* Mutant of RecvStopped: only a thread between two frames looks at running_.
RecvStoppedAtHeader(c) ==
  /\ ~running
  /\ MoveConnection(c, {"header"}, "finished")
  /\ UNCHANGED handled

\* recv_all() notices stop() between two waits.
RecvStopped(c) ==
  /\ ~running
  /\ MoveConnection(c, {"header", "payload"}, "finished")
  /\ UNCHANGED handled

HandlerReturns(c) ==
  /\ MoveConnection(c, {"handler"}, "head")
  /\ UNCHANGED handled

-------------------------------------------------------------------------------
Stopping == JoinAccept \/ (\E c \in Clients : JoinConnection(c)) \/ StopReturns
Accepting == AcceptLoop \/ AcceptTimeout \/ (\E c \in Clients : Accept(c)) \/ ReapTerminates
             \/ PushConnection
Connection(c) == ConnectionLoop(c) \/ RecvStopped(c) \/ HandlerReturns(c)
Peer(c) == Connect(c) \/ RecvHeader(c) \/ RecvPayload(c) \/ RecvFails(c)

Next ==
  /\ ~terminated
  /\ \/ Start \/ Stop \/ Stopping
     \/ Accepting
     \/ \E c \in Clients : Connection(c) \/ Peer(c)

Spec == Init /\ [][Next]_vars

\* The listener's own threads are scheduled and handler_ returns.  Nothing is
\* assumed of the clients: they may stay silent for ever.
FairSpec ==
  /\ Spec
  /\ WF_vars(~terminated /\ Stopping)
  /\ WF_vars(~terminated /\ Accepting)
  /\ \A c \in Clients : WF_vars(~terminated /\ Connection(c))

-------------------------------------------------------------------------------
(* Properties.                                                              *)

\* Every variable has its type.
TypeOK ==
  /\ running \in BOOLEAN
  /\ owner \in {"stopped", "listening", "joinAccept", "joinConnections"}
  /\ accepting \in {"none", "head", "wait", "push", "returned"}
  /\ client \in Clients \cup {NoClient}
  /\ connections \in Seq(Clients) /\ IsInjective(connections)
  /\ joining \subseteq Clients
  /\ conn \in [Clients -> ConnStates]
  /\ handled \in [Clients -> 0 .. MaxFrames]
  /\ starts \in 0 .. MaxStarts
  /\ terminated \in BOOLEAN

\* Every thread that was started and not joined is in connections_ or in the
\* vector that stop() took: none is forgotten, and none joined twice.
Started(c) == conn[c] \in InLoop \cup {"finished"}
ThreadsOwned ==
  /\ {c \in Clients : Started(c)} = ToSet(connections) \cup joining
  /\ ToSet(connections) \cap joining = {}

\* server.cpp:44, "listener (no new inbound orders)": when stop() has returned
\* no thread of the listener is left, so handler_ is not called again.
QuietWhenStopped ==
  owner = "stopped" =>
    /\ accepting = "none" /\ connections = <<>>
    /\ \A c \in Clients : ~Started(c) /\ conn[c] # "accepted"

\* stop() returns although clients stay connected and silent, in the middle of
\* a frame too.
StopEnds == owner = "joinAccept" ~> owner = "stopped" \/ terminated

\* order_entry_listener.cpp:131-133: reaping "just reclaims the thread object".
ReapOnlyReclaims == ~terminated
===============================================================================
