------------------------------ MODULE MarketFeed ------------------------------
(***************************************************************************)
(* MarketDataListener in each process that listens: the flag, the thread   *)
(* that waits for datagrams, and the socket it waits on.  A datagram may   *)
(* come at any time or never.  What one says is left out: a bot takes the  *)
(* price of an order from it, and nothing else depends on it here.         *)
(***************************************************************************)
CONSTANT Views   \* the processes that listen

VARIABLES
  feedRunning,  \* per view: running_
  feed,         \* per view: run()'s thread: none, head, wait, returned
  feedSocket    \* per view: socket_.valid()

feedVars == <<feedRunning, feed, feedSocket>>

FeedInit ==
  /\ feedRunning = [v \in Views |-> FALSE]
  /\ feed = [v \in Views |-> "none"]
  /\ feedSocket = [v \in Views |-> FALSE]

\* start(): a socket, and then the thread that reads it.
FeedStart(v) ==
  /\ feedRunning' = [feedRunning EXCEPT ![v] = TRUE]
  /\ feedSocket' = [feedSocket EXCEPT ![v] = TRUE]
  /\ feed' = [feed EXCEPT ![v] = "head"]

\* stop(): the flag; join(), and only then the socket.
FeedStop(v) ==
  /\ feedRunning' = [feedRunning EXCEPT ![v] = FALSE]
  /\ UNCHANGED <<feed, feedSocket>>

\* Mutant of FeedJoined: the socket goes while the thread may wait for it.
FeedJoinedNot(v) ==
  /\ feed[v] # "none"
  /\ feedSocket' = [feedSocket EXCEPT ![v] = FALSE]
  /\ UNCHANGED <<feedRunning, feed>>

FeedJoined(v) ==
  /\ feed[v] \in {"none", "returned"}
  /\ feedSocket' = [feedSocket EXCEPT ![v] = FALSE]
  /\ feed' = [feed EXCEPT ![v] = "none"]
  /\ UNCHANGED feedRunning

FeedMoves(v, from, to) ==
  /\ feed[v] = from
  /\ feed' = [feed EXCEPT ![v] = to]
  /\ UNCHANGED <<feedRunning, feedSocket>>

FeedLoop(v) == FeedMoves(v, "head", IF feedRunning[v] THEN "wait" ELSE "returned")

\* Mutant of FeedTimeout: it waits again without a look at the flag.
FeedTimeoutWaits(v) == FeedMoves(v, "wait", "wait")

\* 100 ms without a datagram, or one that is not ours.
FeedTimeout(v) == FeedMoves(v, "wait", "head")

\* A datagram, which it handles before it looks at the flag again.
FeedRecv(v) == FeedMoves(v, "wait", "head")

\* The process is gone.
FeedGone(v) ==
  /\ feedRunning' = [feedRunning EXCEPT ![v] = FALSE]
  /\ feed' = [feed EXCEPT ![v] = "none"]
  /\ feedSocket' = [feedSocket EXCEPT ![v] = FALSE]

\* What the thread does whether or not a datagram comes.
FeedRuns(v) == FeedLoop(v) \/ FeedTimeout(v)

FeedStep(v) == FeedRuns(v) \/ FeedRecv(v)

FeedTypeOK ==
  /\ feedRunning \in [Views -> BOOLEAN] /\ feedSocket \in [Views -> BOOLEAN]
  /\ feed \in [Views -> {"none", "head", "wait", "returned"}]
===============================================================================
