----------------------------- MODULE BroadcastLog -----------------------------
(***************************************************************************)
(* What Queue::RingBuffer promises to the code around it, with no slots,   *)
(* no sequence words and no half-finished copies: one writer appends to a  *)
(* log, every member reads it through a cursor of its own.  Item number n  *)
(* of the log is identified with n.                                        *)
(*                                                                         *)
(*   - a lossless member receives every item once, in order, and the log   *)
(*     never runs more than Capacity items ahead of it;                    *)
(*   - a lossy member may miss an item, but only one that has been         *)
(*     followed by Capacity newer ones, and every miss is counted;         *)
(*   - an item that a lossy member reads at the very moment it falls out   *)
(*     of the window may reach it overwritten: the log promises no more.   *)
(***************************************************************************)
EXTENDS Integers

CONSTANTS Lossless, Lossy,   \* the two kinds of member (ConsumerPolicy)
          Capacity,          \* the length of the window
          Torn, NoItem       \* a half-overwritten item; no item yet

VARIABLES published,   \* how many items the writer has appended
          members,     \* the cursors registered so far
          cursor,      \* per member, the next item to take or lose
          taken,       \* per member, how many items it received
          lost,        \* per member, how many items it was told it missed
          item         \* per member, the item received last

logVars == <<published, members, cursor, taken, lost, item>>

Members == Lossless \cup Lossy

Init ==
  /\ published = 0
  /\ members = {}
  /\ cursor = [c \in Members |-> 0]
  /\ taken = [c \in Members |-> 0]
  /\ lost = [c \in Members |-> 0]
  /\ item = [c \in Members |-> NoItem]

Join(c) ==
  /\ published = 0
  /\ members' = members \cup {c}
  /\ UNCHANGED <<published, cursor, taken, lost, item>>

Append ==
  /\ \A c \in members \cap Lossless : published - cursor[c] < Capacity
  /\ published' = published + 1
  /\ UNCHANGED <<members, cursor, taken, lost, item>>

\* What a member may be handed for the item at its cursor.
Readable(c) ==
  {cursor[c]} \cup
    IF c \in Lossy /\ published - cursor[c] = Capacity
    THEN {Torn, cursor[c] + Capacity} ELSE {}

Take(c) ==
  /\ cursor[c] < published
  /\ \E x \in Readable(c) : item' = [item EXCEPT ![c] = x]
  /\ cursor' = [cursor EXCEPT ![c] = @ + 1]
  /\ taken' = [taken EXCEPT ![c] = @ + 1]
  /\ UNCHANGED <<published, members, lost>>

\* A member more than a window behind jumps to the oldest item kept.
Skip(c) ==
  /\ c \in Lossy
  /\ published - cursor[c] > Capacity
  /\ cursor' = [cursor EXCEPT ![c] = published - Capacity]
  /\ lost' = [lost EXCEPT ![c] = @ + (published - Capacity - cursor[c])]
  /\ UNCHANGED <<published, members, taken, item>>

\* The item at the cursor was overwritten before it could be copied.
Lose(c) ==
  /\ c \in Lossy
  /\ published - cursor[c] >= Capacity
  /\ cursor' = [cursor EXCEPT ![c] = @ + 1]
  /\ lost' = [lost EXCEPT ![c] = @ + 1]
  /\ UNCHANGED <<published, members, taken, item>>

Next ==
  \/ Append
  \/ \E c \in Members \ members : Join(c)
  \/ \E c \in members : Take(c) \/ Skip(c) \/ Lose(c)

Spec == Init /\ [][Next]_logVars
===============================================================================
