---------------------------- MODULE OrderbookProofs ----------------------------
(***************************************************************************)
(* Proofs about Orderbook, for any order ids, prices, quantities and any   *)
(* modulus.                                                                *)
(*                                                                         *)
(* The book is sound in every state: its levels are finitely many, each    *)
(* queue holds the index's orders of its side and price in the order they  *)
(* arrived, and what the index holds is an order of its id (Sound, Aging). *)
(* Where the engine is in a call says how far that state may stray from    *)
(* the one it rests in: which levels are empty, whether the sides cross,   *)
(* which fill-and-kill orders there are and what a market order has still  *)
(* to meet (Control, Emptied, Crossing, Kills, Marketable).  The changes a *)
(* call makes are functions from a state to a state, and a lemma for each  *)
(* says that it keeps the book sound and what else it leaves behind.       *)
(*                                                                         *)
(* The second half is about the quantities: what a call trades and leaves  *)
(* of its order, what levelData_ says of each price, what a fill-or-kill   *)
(* order may count on, and that the matching loop ends.                    *)
(***************************************************************************)
EXTENDS Orderbook, Sums, FiniteSetTheorems, SequenceTheorems, TLAPS

\* What the index holds of an order: a limit order with something left to fill.
Entry == [type : OrderTypes \ {"Market"}, id : Ids, side : Sides, price : Prices,
          initial : Quantities, remaining : 1 .. Wrap - 1]

Trade == [bid : Ids, bidPrice : Prices, ask : Ids, askPrice : Prices, quantity : Nat]

\* The orders of one price and side, in the index of a state.
At(st, side, p) ==
  {i \in DOMAIN st.orders : st.orders[i].side = side /\ st.orders[i].price = p}

\* The parts that every operation keeps, of any state.
Shaped(st) ==
  /\ st = [book |-> st.book, orders |-> st.orders, levelData |-> st.levelData]
  /\ DOMAIN st.book = Sides

FiniteLevels(st) ==
  \A side \in Sides :
    IsFiniteSet(Levels(st.book, side)) /\ Levels(st.book, side) \subseteq Prices

Entries(st) ==
  /\ DOMAIN st.orders \subseteq Ids
  /\ \A i \in DOMAIN st.orders :
       /\ st.orders[i] \in Entry
       /\ st.orders[i].id = i
       /\ st.orders[i].price \in Levels(st.book, st.orders[i].side)

\* A queue is in the order of arrival.
InOrder(q, old) == \A m, n \in 1 .. Len(q) : m < n => <<q[m], q[n]>> \in old

Queued(st, old) ==
  \A side \in Sides : \A p \in Levels(st.book, side) :
    /\ st.book[side][p] \in Seq(Ids)
    /\ ToSet(st.book[side][p]) = At(st, side, p)
    /\ InOrder(st.book[side][p], old)

Summaries(st) ==
  /\ DOMAIN st.levelData \subseteq Prices
  /\ \A p \in DOMAIN st.levelData : st.levelData[p] \in LevelRecord

NoneEmpty(st) ==
  \A side \in Sides : \A p \in Levels(st.book, side) : st.book[side][p] # <<>>

Sound(st, old) ==
  Shaped(st) /\ FiniteLevels(st) /\ Entries(st) /\ Queued(st, old) /\ Summaries(st)

Apart(bk) == \A bid \in Levels(bk, "Buy"), ask \in Levels(bk, "Sell") : bid < ask

\* Fill-and-kill orders rest only as the one order of their side's best level.
KillsInFront(st) ==
  \A i \in DOMAIN st.orders : st.orders[i].type = "FillAndKill" =>
    /\ st.orders[i].price = Best(st.book, st.orders[i].side)
    /\ At(st, st.orders[i].side, st.orders[i].price) = {i}

NoKills(st) == \A i \in DOMAIN st.orders : st.orders[i].type # "FillAndKill"

\* Every level of the other side is within the price p.
Reaches(bk, side, p) ==
  \A q \in Levels(bk, Opposite(side)) : IF side = "Buy" THEN q <= p ELSE p <= q

-------------------------------------------------------------------------------
(* The invariant.                                                           *)

Aging ==
  /\ older \subseteq (DOMAIN orders) \X (DOMAIN orders)
  /\ \A i, j \in DOMAIN orders : <<i, j>> \in older => <<j, i>> \notin older

Control ==
  /\ phase \in {"idle", "scan", "level", "done"}
  /\ trades \in Seq(Trade)
  /\ taker \in OrderRecord \cup {None}
  /\ collided \in {"never", "inCall", "before"}

\* Only the level being matched may be empty.
Emptied ==
  \A side \in Sides : \A p \in Levels(book, side) :
    book[side][p] = <<>> => phase = "level" /\ p = Best(book, side)

Crossing ==
  /\ phase \in {"idle", "done"} => Apart(book)
  /\ phase = "level" => Crossed(book)

Kills ==
  /\ phase \in {"idle", "done"} => NoKills(State)
  /\ phase \in {"scan", "level"} => KillsInFront(State)
  /\ phase = "scan" /\ ~Crossed(book) => NoKills(State)

\* A market order stays on its side, at a price that the other side is within.
Marketable ==
  taker # None /\ taker.type = "Market" /\ taker.id \in DOMAIN orders =>
    /\ orders[taker.id].side = taker.side
    /\ Reaches(book, taker.side, orders[taker.id].price)

IInv ==
  /\ Sound(State, older)
  /\ Aging /\ Control /\ Emptied /\ Crossing /\ Kills /\ Marketable

USE PricesAssumption, WrapAssumption, QuantitiesAssumption, TypesAssumption, NoneAssumption

-------------------------------------------------------------------------------
(* Best and worst prices.                                                   *)

LEMMA Extremes ==
  ASSUME NEW bk, NEW side \in Sides, Levels(bk, side) \subseteq Prices,
         IsFiniteSet(Levels(bk, side)), Levels(bk, side) # {}
  PROVE  /\ Best(bk, side) \in Levels(bk, side)
         /\ Worst(bk, side) \in Levels(bk, side)
         /\ side = "Buy" => \A p \in Levels(bk, side) : Worst(bk, side) <= p /\ p <= Best(bk, side)
         /\ side = "Sell" => \A p \in Levels(bk, side) : Best(bk, side) <= p /\ p <= Worst(bk, side)
<1>1. Levels(bk, side) \subseteq Int
  OBVIOUS
<1>. QED BY <1>1, MaxExists, MinExists DEF Best, Worst, Sides

LEMMA CrossedOrApart ==
  ASSUME NEW st, FiniteLevels(st)
  PROVE  Crossed(st.book) <=> ~Apart(st.book)
<1>1. /\ "Buy" \in Sides /\ "Sell" \in Sides
      /\ \A side \in Sides : IsFiniteSet(Levels(st.book, side)) /\ Levels(st.book, side) \subseteq Prices
  BY DEF FiniteLevels, Sides
<1>2. ASSUME Levels(st.book, "Buy") # {}
      PROVE  /\ Best(st.book, "Buy") \in Levels(st.book, "Buy")
             /\ \A p \in Levels(st.book, "Buy") : p <= Best(st.book, "Buy")
  BY <1>1, <1>2, Extremes
<1>3. ASSUME Levels(st.book, "Sell") # {}
      PROVE  /\ Best(st.book, "Sell") \in Levels(st.book, "Sell")
             /\ \A p \in Levels(st.book, "Sell") : Best(st.book, "Sell") <= p
  BY <1>1, <1>3, Extremes
<1>4. Levels(st.book, "Buy") \subseteq Int /\ Levels(st.book, "Sell") \subseteq Int
  BY <1>1
<1>5. CASE Levels(st.book, "Buy") = {} \/ Levels(st.book, "Sell") = {}
  BY <1>5 DEF Crossed, Apart
<1>6. CASE Levels(st.book, "Buy") # {} /\ Levels(st.book, "Sell") # {}
  <2>. DEFINE b == Best(st.book, "Buy")
              a == Best(st.book, "Sell")
              B == Levels(st.book, "Buy")
              A == Levels(st.book, "Sell")
  <2>1. /\ b \in B /\ a \in A /\ b \in Int /\ a \in Int /\ A \subseteq Int /\ B \subseteq Int
        /\ (\A p \in B : p <= b)
        /\ (\A p \in A : a <= p)
    BY <1>2, <1>3, <1>4, <1>6
  <2>2. Crossed(st.book) <=> b >= a
    BY <1>6 DEF Crossed
  <2>3. Apart(st.book) <=> \A x \in B, y \in A : x < y
    BY DEF Apart
  <2>. HIDE DEF a, b, A, B
  <2>4. (\A x \in B, y \in A : x < y) <=> b < a
    BY <2>1
  <2>. QED BY <2>1, <2>2, <2>3, <2>4
<1>. QED BY <1>5, <1>6

-------------------------------------------------------------------------------
(* The helpers of one operation.                                            *)

\* OnOrderAdded(), OnOrderCancelled() and OnOrderMatched() keep the summary's
\* fields inside their width.
LEMMA LevelDataUpdated ==
  ASSUME NEW ld, NEW p \in Prices, NEW dq \in Int, NEW dc \in Int,
         DOMAIN ld \subseteq Prices, \A q \in DOMAIN ld : ld[q] \in LevelRecord
  PROVE  /\ DOMAIN UpdateLevelData(ld, p, dq, dc) \subseteq Prices
         /\ \A q \in DOMAIN UpdateLevelData(ld, p, dq, dc) :
              UpdateLevelData(ld, p, dq, dc)[q] \in LevelRecord
<1>. DEFINE old == IF p \in DOMAIN ld THEN ld[p] ELSE [quantity |-> 0, count |-> 0]
            new == [quantity |-> (old.quantity + dq) % Wrap, count |-> (old.count + dc) % Wrap]
<1>1. old.quantity \in Int /\ old.count \in Int
  BY DEF LevelRecord
<1>2. new \in LevelRecord
  <2>. HIDE DEF old
  <2>1. \A x \in Int : x % Wrap \in 0 .. Wrap - 1
    OBVIOUS
  <2>2. old.quantity + dq \in Int /\ old.count + dc \in Int
    BY <1>1
  <2>. QED BY <2>1, <2>2 DEF LevelRecord
<1>3. UpdateLevelData(ld, p, dq, dc) = IF new.count = 0 THEN Drop(ld, p) ELSE Put(ld, p, new)
  BY DEF UpdateLevelData
<1>. HIDE DEF new, old
<1>. QED BY <1>2, <1>3 DEF Drop, Put

\* Taking an id out of a queue that holds it once closes the gap it leaves.
LEMMA RemovedFromQueue ==
  ASSUME NEW S, NEW s \in Seq(S), NEW k \in 1 .. Len(s),
         \A m \in 1 .. Len(s) : s[m] = s[k] => m = k
  PROVE  /\ RemoveFirst(s, s[k]) \in Seq(S)
         /\ Len(RemoveFirst(s, s[k])) = Len(s) - 1
         /\ \A n \in 1 .. Len(s) - 1 : RemoveFirst(s, s[k])[n] = IF n < k THEN s[n] ELSE s[n + 1]
<1>. DEFINE left == SubSeq(s, 1, k - 1)
            right == SubSeq(s, k + 1, Len(s))
<1>1. SelectInSeq(s, LAMBDA v : v = s[k]) = k
  <2>1. {m \in 1 .. Len(s) : s[m] = s[k]} = {k}
    OBVIOUS
  <2>2. Min({k}) = k
    BY DEF Min
  <2>. QED BY <2>1, <2>2 DEF SelectInSeq
<1>2. RemoveFirst(s, s[k]) = left \o right
  BY <1>1 DEF RemoveFirst, RemoveAt
<1>3. /\ left \in Seq(S) /\ Len(left) = k - 1
      /\ \A n \in 1 .. k - 1 : left[n] = s[n]
  <2>1. \A i \in 1 .. k - 1 : s[i] \in S
    BY ElementOfSeq
  <2>. QED BY <2>1, SubSeqProperties
<1>4. /\ right \in Seq(S) /\ Len(right) = Len(s) - k
      /\ \A n \in 1 .. Len(s) - k : right[n] = s[n + k]
  <2>1. \A i \in k + 1 .. Len(s) : s[i] \in S
    BY ElementOfSeq
  <2>2. k + 1 \in Int /\ Len(s) \in Int
    OBVIOUS
  <2>3. /\ right \in Seq(S)
        /\ Len(right) = IF k + 1 <= Len(s) THEN Len(s) - (k + 1) + 1 ELSE 0
        /\ \A n \in 1 .. Len(s) - (k + 1) + 1 : right[n] = s[k + 1 + n - 1]
    BY <2>1, <2>2, SubSeqProperties
  <2>. HIDE DEF right
  <2>4. \A n \in 1 .. Len(s) - k : right[n] = s[n + k]
    BY <2>3
  <2>. QED BY <2>3, <2>4
<1>. HIDE DEF left, right
<1>5. /\ left \o right \in Seq(S)
      /\ Len(left \o right) = Len(left) + Len(right)
      /\ \A i \in 1 .. Len(left) + Len(right) : (left \o right)[i] =
                     IF i <= Len(left) THEN left[i] ELSE right[i - Len(left)]
  <2>1. left \in Seq(S) /\ right \in Seq(S)
    BY <1>3, <1>4
  <2>. QED BY <2>1, ConcatProperties
<1>6. ASSUME NEW n \in 1 .. Len(s) - 1
      PROVE  /\ n < k => (left \o right)[n] = s[n]
             /\ ~(n < k) => (left \o right)[n] = s[n + 1]
  <2>. n \in Int /\ k \in Int /\ Len(s) \in Nat
    OBVIOUS
  <2>1. CASE n < k
    BY <2>1, <1>3, <1>4, <1>5
  <2>2. CASE ~(n < k)
    <3>1. n - (k - 1) \in 1 .. Len(s) - k
      BY <2>2
    <3>2. (left \o right)[n] = right[n - (k - 1)]
      BY <2>2, <1>3, <1>4, <1>5
    <3>3. right[n - (k - 1)] = s[n - (k - 1) + k]
      BY <3>1, <1>4
    <3>. QED BY <2>2, <3>2, <3>3
  <2>. QED BY <2>1, <2>2
<1>7. Len(left) + Len(right) = Len(s) - 1
  BY <1>3, <1>4
<1>. HIDE DEF left, right
<1>. QED BY <1>2, <1>5, <1>6, <1>7

\* Nothing is queued before itself.
Irreflexive(old) == \A x : <<x, x>> \notin old

LEMMA AppendedToQueue ==
  ASSUME NEW S, NEW q \in Seq(S), NEW e \in S, NEW old, InOrder(q, old),
         \A x \in ToSet(q) : <<x, e>> \in old
  PROVE  /\ Append(q, e) \in Seq(S) /\ Append(q, e) # <<>>
         /\ ToSet(Append(q, e)) = ToSet(q) \cup {e}
         /\ InOrder(Append(q, e), old)
<1>1. /\ Append(q, e) \in Seq(S) /\ Append(q, e) # <<>>
      /\ Len(Append(q, e)) = Len(q) + 1
      /\ \A i \in 1 .. Len(q) : Append(q, e)[i] = q[i]
      /\ Append(q, e)[Len(q) + 1] = e
  BY AppendProperties
<1>2. \A r \in Seq(S) : DOMAIN r = 1 .. Len(r) /\ Len(r) \in Nat
  OBVIOUS
<1>. DEFINE a == Append(q, e)
<1>. HIDE DEF a
<1>3. /\ DOMAIN a = 1 .. Len(q) + 1 /\ DOMAIN q = 1 .. Len(q) /\ Len(q) \in Nat
      /\ \A i \in 1 .. Len(q) : a[i] = q[i]
      /\ a[Len(q) + 1] = e
      /\ Len(a) = Len(q) + 1
  BY <1>1, <1>2 DEF a
<1>4. ToSet(a) = ToSet(q) \cup {e}
  <2>1. ASSUME NEW x \in ToSet(a) PROVE x \in ToSet(q) \cup {e}
    BY <1>3, <2>1 DEF ToSet
  <2>2. e \in ToSet(a)
    BY <1>3 DEF ToSet
  <2>3. ASSUME NEW x \in ToSet(q) PROVE x \in ToSet(a)
    BY <1>3, <2>3 DEF ToSet
  <2>. QED BY <2>1, <2>2, <2>3
<1>5. InOrder(a, old)
  <2>1. ASSUME NEW m \in 1 .. Len(q) + 1, NEW n \in 1 .. Len(q) + 1, m < n
        PROVE  <<a[m], a[n]>> \in old
    <3>1. m \in 1 .. Len(q) /\ a[m] = q[m] /\ q[m] \in ToSet(q)
      BY <1>3, <2>1 DEF ToSet
    <3>2. n \in 1 .. Len(q) \/ n = Len(q) + 1
      BY <1>3
    <3>3. ASSUME n \in 1 .. Len(q) PROVE <<a[m], a[n]>> \in old
      BY <1>3, <2>1, <3>1, <3>3 DEF InOrder
    <3>4. ASSUME n = Len(q) + 1 PROVE <<a[m], a[n]>> \in old
      BY <1>3, <3>1, <3>4
    <3>. QED BY <3>2, <3>3, <3>4
  <2>. QED BY <1>3, <2>1 DEF InOrder
<1>. QED BY <1>1, <1>4, <1>5 DEF a

\* CancelOrderInternal()'s erase.
LEMMA RemovedInOrder ==
  ASSUME NEW S, NEW q \in Seq(S), NEW old, InOrder(q, old), Irreflexive(old), NEW e \in ToSet(q)
  PROVE  /\ RemoveFirst(q, e) \in Seq(S)
         /\ ToSet(RemoveFirst(q, e)) = ToSet(q) \ {e}
         /\ InOrder(RemoveFirst(q, e), old)
<1>1. PICK k \in 1 .. Len(q) : e = q[k]
  BY DEF ToSet
<1>2. \A r \in Seq(S) : DOMAIN r = 1 .. Len(r) /\ Len(r) \in Nat
  OBVIOUS
<1>3. ASSUME NEW m \in 1 .. Len(q), NEW n \in 1 .. Len(q), q[m] = q[n] PROVE m = n
  <2>1. m < n \/ n < m \/ m = n
    OBVIOUS
  <2>. QED BY <1>3, <2>1 DEF InOrder, Irreflexive
<1>. DEFINE r == RemoveFirst(q, q[k])
<1>4. /\ r \in Seq(S)
      /\ Len(r) = Len(q) - 1
      /\ \A n \in 1 .. Len(q) - 1 : r[n] = IF n < k THEN q[n] ELSE q[n + 1]
  BY <1>3, RemovedFromQueue
<1>. HIDE DEF r
<1>5. DOMAIN r = 1 .. Len(q) - 1 /\ DOMAIN q = 1 .. Len(q) /\ Len(q) \in Nat /\ k \in Int
  BY <1>2, <1>4
<1>. DEFINE from(n) == IF n < k THEN n ELSE n + 1
<1>6. ASSUME NEW n \in 1 .. Len(q) - 1 PROVE from(n) \in 1 .. Len(q) /\ from(n) # k /\ r[n] = q[from(n)]
  <2>1. from(n) \in 1 .. Len(q) /\ from(n) # k
    BY <1>5
  <2>. QED BY <2>1, <1>4
<1>7. ASSUME NEW m \in 1 .. Len(q), m # k PROVE \E n \in 1 .. Len(q) - 1 : from(n) = m
  <2>1. CASE m < k
    BY <1>5, <2>1
  <2>2. CASE m > k
    <3>1. m - 1 \in 1 .. Len(q) - 1 /\ from(m - 1) = m
      BY <1>5, <2>2
    <3>. QED BY <3>1
  <2>. QED BY <1>5, <1>7, <2>1, <2>2
<1>8. ASSUME NEW m \in 1 .. Len(q) - 1, NEW n \in 1 .. Len(q) - 1, m < n PROVE from(m) < from(n)
  BY <1>5, <1>8
<1>. HIDE DEF from
<1>9. ToSet(r) = ToSet(q) \ {q[k]}
  <2>1. ASSUME NEW x \in ToSet(r) PROVE x \in ToSet(q) /\ x # q[k]
    <3>1. PICK n \in 1 .. Len(q) - 1 : x = r[n]
      BY <1>5 DEF ToSet
    <3>. QED BY <3>1, <1>3, <1>5, <1>6 DEF ToSet
  <2>2. ASSUME NEW x \in ToSet(q), x # q[k] PROVE x \in ToSet(r)
    <3>1. PICK m \in 1 .. Len(q) : x = q[m]
      BY <1>5 DEF ToSet
    <3>2. PICK n \in 1 .. Len(q) - 1 : from(n) = m
      BY <2>2, <3>1, <1>7
    <3>. QED BY <3>1, <3>2, <1>5, <1>6 DEF ToSet
  <2>. QED BY <2>1, <2>2
<1>10. InOrder(r, old)
  <2>1. ASSUME NEW m \in 1 .. Len(q) - 1, NEW n \in 1 .. Len(q) - 1, m < n
        PROVE  <<r[m], r[n]>> \in old
    <3>1. from(m) < from(n)
      BY <1>8, <2>1
    <3>. QED BY <3>1, <1>6 DEF InOrder
  <2>. QED BY <2>1, <1>4 DEF InOrder
<1>. QED BY <1>1, <1>4, <1>9, <1>10 DEF r

\* pop_front().
LEMMA PoppedInOrder ==
  ASSUME NEW S, NEW q \in Seq(S), NEW old, InOrder(q, old), Irreflexive(old), q # <<>>
  PROVE  /\ Head(q) \in ToSet(q)
         /\ \A x \in ToSet(q) : x = Head(q) \/ <<Head(q), x>> \in old
         /\ Tail(q) \in Seq(S)
         /\ ToSet(Tail(q)) = ToSet(q) \ {Head(q)}
         /\ InOrder(Tail(q), old)
<1>1. /\ Tail(q) \in Seq(S)
      /\ Len(Tail(q)) = Len(q) - 1
      /\ \A i \in 1 .. Len(Tail(q)) : Tail(q)[i] = q[i + 1]
  BY HeadTailProperties
<1>2. \A r \in Seq(S) : DOMAIN r = 1 .. Len(r) /\ Len(r) \in Nat
  OBVIOUS
<1>3. Head(q) = q[1] /\ 1 \in 1 .. Len(q) /\ Len(q) \in Nat /\ DOMAIN q = 1 .. Len(q)
  BY <1>2
<1>. DEFINE t == Tail(q)
            h == Head(q)
<1>. HIDE DEF t, h
<1>4. /\ DOMAIN t = 1 .. Len(q) - 1 /\ Len(t) = Len(q) - 1
      /\ \A i \in 1 .. Len(q) - 1 : t[i] = q[i + 1]
      /\ h = q[1]
  BY <1>1, <1>2, <1>3 DEF t, h
<1>5. \A m \in 1 .. Len(q) : m = 1 \/ <<q[1], q[m]>> \in old
  BY <1>3 DEF InOrder
<1>6. ToSet(t) = ToSet(q) \ {h}
  <2>1. ASSUME NEW x \in ToSet(t) PROVE x \in ToSet(q) /\ x # h
    <3>1. PICK n \in 1 .. Len(q) - 1 : x = t[n]
      BY <1>4 DEF ToSet
    <3>2. n + 1 \in 1 .. Len(q) /\ x = q[n + 1] /\ n + 1 # 1
      BY <1>3, <1>4, <3>1
    <3>. QED BY <3>2, <1>3, <1>4, <1>5 DEF ToSet, Irreflexive
  <2>2. ASSUME NEW x \in ToSet(q), x # h PROVE x \in ToSet(t)
    <3>1. PICK m \in 1 .. Len(q) : x = q[m]
      BY <1>3 DEF ToSet
    <3>2. m - 1 \in 1 .. Len(q) - 1 /\ t[m - 1] = q[m - 1 + 1] /\ m - 1 + 1 = m
      BY <1>3, <1>4, <3>1, <2>2
    <3>. QED BY <3>1, <3>2, <1>4 DEF ToSet
  <2>. QED BY <2>1, <2>2
<1>7. InOrder(t, old)
  <2>1. ASSUME NEW m \in 1 .. Len(q) - 1, NEW n \in 1 .. Len(q) - 1, m < n
        PROVE  <<t[m], t[n]>> \in old
    <3>1. m + 1 \in 1 .. Len(q) /\ n + 1 \in 1 .. Len(q) /\ m + 1 < n + 1
      BY <1>3, <2>1
    <3>. QED BY <3>1, <1>4 DEF InOrder
  <2>. QED BY <2>1, <1>4 DEF InOrder
<1>8. h \in ToSet(q) /\ \A x \in ToSet(q) : x = h \/ <<h, x>> \in old
  BY <1>3, <1>4, <1>5 DEF ToSet
<1>. QED BY <1>1, <1>6, <1>7, <1>8 DEF t, h

-------------------------------------------------------------------------------
(* The operations of one state.                                             *)

LEMMA TwoSides ==
  \A side \in Sides :
    /\ Opposite(side) \in Sides /\ Opposite(side) # side /\ Opposite(Opposite(side)) = side
    /\ \A other \in Sides : other = side \/ other = Opposite(side)
BY DEF Sides, Opposite

\* Forgetting orders that no longer rest leaves the queues in their order.
LEMMA SoundAmong ==
  ASSUME NEW st, NEW old, Sound(st, old)
  PROVE  Sound(st, old \cap ((DOMAIN st.orders) \X (DOMAIN st.orders)))
<1>. DEFINE D == DOMAIN st.orders
            new == old \cap (D \X D)
<1>1. ASSUME NEW side \in Sides, NEW p \in Levels(st.book, side),
             NEW m \in 1 .. Len(st.book[side][p]), NEW n \in 1 .. Len(st.book[side][p]), m < n
      PROVE  <<st.book[side][p][m], st.book[side][p][n]>> \in new
  <2>. DEFINE q == st.book[side][p]
  <2>1. q \in Seq(Ids) /\ ToSet(q) = At(st, side, p) /\ InOrder(q, old)
    BY DEF Sound, Queued
  <2>2. q[m] \in ToSet(q) /\ q[n] \in ToSet(q)
    BY <2>1 DEF ToSet
  <2>3. q[m] \in D /\ q[n] \in D
    BY <2>1, <2>2 DEF At
  <2>4. <<q[m], q[n]>> \in old
    BY <1>1, <2>1 DEF InOrder
  <2>. QED BY <2>3, <2>4
<1>2. Queued(st, new)
  BY <1>1 DEF Sound, Queued, InOrder
<1>. QED BY <1>2 DEF Sound

\* w is st with the order o, which was not there.
Inserted(st, w, o) ==
  /\ DOMAIN w.orders = DOMAIN st.orders \cup {o.id}
  /\ w.orders[o.id] = o
  /\ \A i \in DOMAIN st.orders : w.orders[i] = st.orders[i]
  /\ Levels(w.book, o.side) = Levels(st.book, o.side) \cup {o.price}
  /\ Levels(w.book, Opposite(o.side)) = Levels(st.book, Opposite(o.side))
  /\ \A side \in Sides : \A p \in Levels(w.book, side) :
       w.book[side][p] = <<>> => p \in Levels(st.book, side) /\ st.book[side][p] = <<>>

\* w is st without the order id, and without the level that this emptied.
Removed(st, w, id) ==
  /\ DOMAIN w.orders = DOMAIN st.orders \ {id}
  /\ \A i \in DOMAIN w.orders : w.orders[i] = st.orders[i]
  /\ \A side \in Sides :
       /\ Levels(w.book, side) \subseteq Levels(st.book, side)
       /\ \A p \in Levels(st.book, side) :
            p \notin Levels(w.book, side) => At(st, side, p) = {id}
  /\ \A side \in Sides : \A p \in Levels(w.book, side) :
       w.book[side][p] = <<>> => st.book[side][p] = <<>>

\* AddOrder()'s insertion.
LEMMA WithOrderSound ==
  ASSUME NEW st, NEW old, Sound(st, old),
         NEW o \in Entry, o.id \notin DOMAIN st.orders
  PROVE  /\ Sound(WithOrder(st, o), old \cup ((DOMAIN st.orders) \X {o.id}))
         /\ Inserted(st, WithOrder(st, o), o)
<1>. DEFINE w == WithOrder(st, o)
            side0 == o.side
            p0 == o.price
            q == IF p0 \in DOMAIN st.book[side0] THEN st.book[side0][p0] ELSE <<>>
            D == DOMAIN st.orders
            new == old \cup (D \X {o.id})
<1>1. /\ o.id \in Ids /\ side0 \in Sides /\ p0 \in Prices /\ o.initial \in Int
  <2>1. o.id \in Ids /\ o.side \in Sides /\ o.price \in Prices /\ o.initial \in Quantities
    BY DEF Entry
  <2>2. \A quantity \in Quantities : quantity \in Int
    OBVIOUS
  <2>. QED BY <2>1, <2>2
<1>2. w = [book |-> [st.book EXCEPT ![side0] = Put(st.book[side0], p0, Append(q, o.id))],
           orders |-> Put(st.orders, o.id, o),
           levelData |-> UpdateLevelData(st.levelData, p0, o.initial, 1)]
  BY DEF WithOrder
<1>3. /\ w.book = [st.book EXCEPT ![side0] = Put(st.book[side0], p0, Append(q, o.id))]
      /\ w.orders = Put(st.orders, o.id, o)
      /\ w.levelData = UpdateLevelData(st.levelData, p0, o.initial, 1)
      /\ Shaped(w)
  <2>1. DOMAIN st.book = Sides
    BY DEF Sound, Shaped
  <2>. QED BY <1>1, <1>2, <2>1 DEF Shaped
<1>. HIDE DEF w
<1>4. /\ DOMAIN w.orders = D \cup {o.id}
      /\ w.orders[o.id] = o
      /\ \A i \in D : w.orders[i] = st.orders[i]
  BY <1>3 DEF Put
<1>5. /\ w.book[side0] = Put(st.book[side0], p0, Append(q, o.id))
      /\ \A side \in Sides : side # side0 => w.book[side] = st.book[side]
  <2>1. DOMAIN st.book = Sides
    BY DEF Sound, Shaped
  <2>. QED BY <1>1, <1>3, <2>1
<1>6. /\ Levels(w.book, side0) = Levels(st.book, side0) \cup {p0}
      /\ w.book[side0][p0] = Append(q, o.id)
      /\ \A p \in Levels(st.book, side0) : p # p0 => w.book[side0][p] = st.book[side0][p]
      /\ \A side \in Sides : side # side0 => Levels(w.book, side) = Levels(st.book, side)
  BY <1>5 DEF Put, Levels
<1>7. FiniteLevels(w)
  <2>1. ASSUME NEW side \in Sides
        PROVE  IsFiniteSet(Levels(w.book, side)) /\ Levels(w.book, side) \subseteq Prices
    <3>1. IsFiniteSet(Levels(st.book, side)) /\ Levels(st.book, side) \subseteq Prices
      BY DEF Sound, FiniteLevels
    <3>2. IsFiniteSet(Levels(st.book, side) \cup {p0})
      BY <3>1, FS_AddElement
    <3>. QED BY <1>1, <1>6, <3>1, <3>2
  <2>. QED BY <2>1 DEF FiniteLevels
<1>8. Entries(w)
  <2>1. D \subseteq Ids
    BY DEF Sound, Entries
  <2>2. ASSUME NEW i \in D
        PROVE  /\ w.orders[i] \in Entry /\ w.orders[i].id = i
               /\ w.orders[i].price \in Levels(w.book, w.orders[i].side)
    <3>1. /\ st.orders[i] \in Entry /\ st.orders[i].id = i
          /\ st.orders[i].price \in Levels(st.book, st.orders[i].side)
      BY DEF Sound, Entries
    <3>2. st.orders[i].side \in Sides
      BY <3>1 DEF Entry
    <3>. QED BY <1>4, <1>6, <3>1, <3>2
  <2>3. o.price \in Levels(w.book, o.side)
    BY <1>6
  <2>. QED BY <1>1, <1>4, <2>1, <2>2, <2>3 DEF Entries
<1>9. /\ q \in Seq(Ids)
      /\ ToSet(q) = At(st, side0, p0)
      /\ InOrder(q, old)
  <2>1. CASE p0 \in Levels(st.book, side0)
    BY <1>1, <2>1 DEF Sound, Queued, Levels
  <2>2. CASE p0 \notin Levels(st.book, side0)
    <3>1. q = <<>>
      BY <2>2 DEF Levels
    <3>2. ToSet(<<>>) = {} /\ InOrder(<<>>, old) /\ <<>> \in Seq(Ids)
      BY DEF ToSet, InOrder
    <3>3. At(st, side0, p0) = {}
      BY <2>2 DEF Sound, Entries, At
    <3>. QED BY <3>1, <3>2, <3>3
  <2>. QED BY <2>1, <2>2
<1>. HIDE DEF q
<1>10. /\ At(w, side0, p0) = At(st, side0, p0) \cup {o.id}
       /\ \A side, p : side # side0 \/ p # p0 => At(w, side, p) = At(st, side, p)
  BY <1>4 DEF At
<1>11. /\ Append(q, o.id) \in Seq(Ids) /\ Append(q, o.id) # <<>>
       /\ ToSet(Append(q, o.id)) = ToSet(q) \cup {o.id}
       /\ InOrder(Append(q, o.id), new)
  <2>1. InOrder(q, new)
    BY <1>9 DEF InOrder
  <2>2. \A x \in ToSet(q) : <<x, o.id>> \in new
    BY <1>9 DEF At
  <2>. HIDE DEF new
  <2>. QED BY <1>1, <1>9, <2>1, <2>2, AppendedToQueue
<1>12. ASSUME NEW side \in Sides, NEW p \in Levels(w.book, side)
       PROVE  /\ w.book[side][p] \in Seq(Ids)
              /\ ToSet(w.book[side][p]) = At(w, side, p)
              /\ InOrder(w.book[side][p], new)
  <2>1. CASE side = side0 /\ p = p0
    BY <1>6, <1>9, <1>10, <1>11, <2>1
  <2>2. CASE ~(side = side0 /\ p = p0)
    <3>1. p \in Levels(st.book, side) /\ w.book[side][p] = st.book[side][p]
      BY <1>5, <1>6, <1>12, <2>2
    <3>2. /\ st.book[side][p] \in Seq(Ids)
          /\ ToSet(st.book[side][p]) = At(st, side, p)
          /\ InOrder(st.book[side][p], old)
      BY <3>1 DEF Sound, Queued
    <3>3. At(w, side, p) = At(st, side, p)
      BY <1>10, <2>2
    <3>4. InOrder(st.book[side][p], new)
      BY <3>2 DEF InOrder
    <3>. QED BY <3>1, <3>2, <3>3, <3>4
  <2>. QED BY <2>1, <2>2
<1>13. Queued(w, new)
  BY <1>12 DEF Queued
<1>14. Summaries(w)
  <2>1. DOMAIN st.levelData \subseteq Prices /\ \A p \in DOMAIN st.levelData : st.levelData[p] \in LevelRecord
    BY DEF Sound, Summaries
  <2>. DEFINE ld == st.levelData
              change == o.initial
  <2>2. change \in Int /\ 1 \in Int
    BY <1>1
  <2>3. w.levelData = UpdateLevelData(ld, p0, change, 1)
    BY <1>3
  <2>. HIDE DEF ld, change
  <2>4. /\ DOMAIN UpdateLevelData(ld, p0, change, 1) \subseteq Prices
        /\ \A p \in DOMAIN UpdateLevelData(ld, p0, change, 1) :
             UpdateLevelData(ld, p0, change, 1)[p] \in LevelRecord
    BY <1>1, <2>1, <2>2, LevelDataUpdated DEF ld
  <2>. QED BY <2>3, <2>4 DEF Summaries
<1>15. ASSUME NEW side \in Sides, NEW p \in Levels(w.book, side), w.book[side][p] = <<>>
       PROVE  p \in Levels(st.book, side) /\ st.book[side][p] = <<>>
  BY <1>5, <1>6, <1>11, <1>15
<1>16. Levels(w.book, Opposite(o.side)) = Levels(st.book, Opposite(o.side))
  BY <1>1, <1>6, TwoSides
<1>17. Sound(w, new)
  BY <1>3, <1>7, <1>8, <1>13, <1>14 DEF Sound
<1>18. Inserted(st, w, o)
  BY <1>4, <1>6, <1>15, <1>16 DEF Inserted
<1>. QED BY <1>17, <1>18 DEF w

\* CancelOrderInternal().
LEMMA WithoutOrderSound ==
  ASSUME NEW st, NEW old, Sound(st, old), Irreflexive(old), NEW id \in DOMAIN st.orders
  PROVE  Sound(WithoutOrder(st, id), old) /\ Removed(st, WithoutOrder(st, id), id)
<1>. DEFINE w == WithoutOrder(st, id)
            o == st.orders[id]
            side0 == o.side
            p0 == o.price
            q == RemoveFirst(st.book[side0][p0], id)
            D == DOMAIN st.orders
<1>1. /\ o \in Entry /\ o.id = id /\ p0 \in Levels(st.book, side0)
      /\ id \in Ids /\ side0 \in Sides /\ p0 \in Prices /\ o.remaining \in Int
  <2>1. o \in Entry /\ o.id = id /\ p0 \in Levels(st.book, side0) /\ id \in Ids
    BY DEF Sound, Entries
  <2>2. side0 \in Sides /\ p0 \in Prices /\ o.remaining \in 1 .. Wrap - 1
    BY <2>1 DEF Entry
  <2>. QED BY <2>1, <2>2
<1>2. w = [book |-> [st.book EXCEPT ![side0] =
                       IF q = <<>> THEN Drop(st.book[side0], p0) ELSE Put(st.book[side0], p0, q)],
           orders |-> Drop(st.orders, id),
           levelData |-> UpdateLevelData(st.levelData, p0, -o.remaining, -1)]
  BY DEF WithoutOrder
<1>3. /\ w.book = [st.book EXCEPT ![side0] =
                     IF q = <<>> THEN Drop(st.book[side0], p0) ELSE Put(st.book[side0], p0, q)]
      /\ w.orders = Drop(st.orders, id)
      /\ w.levelData = UpdateLevelData(st.levelData, p0, -o.remaining, -1)
      /\ Shaped(w)
  <2>1. DOMAIN st.book = Sides
    BY DEF Sound, Shaped
  <2>. QED BY <1>1, <1>2, <2>1 DEF Shaped
<1>. HIDE DEF w, o
<1>4. /\ DOMAIN w.orders = D \ {id}
      /\ \A i \in DOMAIN w.orders : w.orders[i] = st.orders[i]
  BY <1>3 DEF Drop
<1>5. /\ w.book[side0] = IF q = <<>> THEN Drop(st.book[side0], p0) ELSE Put(st.book[side0], p0, q)
      /\ \A side \in Sides : side # side0 => w.book[side] = st.book[side]
  <2>1. DOMAIN st.book = Sides
    BY DEF Sound, Shaped
  <2>. QED BY <1>1, <1>3, <2>1
<1>6. /\ q \in Seq(Ids)
      /\ ToSet(q) = At(st, side0, p0) \ {id}
      /\ InOrder(q, old)
  <2>1. /\ st.book[side0][p0] \in Seq(Ids)
        /\ ToSet(st.book[side0][p0]) = At(st, side0, p0)
        /\ InOrder(st.book[side0][p0], old)
    BY <1>1 DEF Sound, Queued
  <2>2. id \in At(st, side0, p0)
    BY DEF At, o
  <2>. QED BY <2>1, <2>2, RemovedInOrder
<1>. HIDE DEF q
<1>7. ToSet(<<>>) = {} /\ \A r \in Seq(Ids) : ToSet(r) = {} => r = <<>>
  <2>1. ToSet(<<>>) = {}
    BY DEF ToSet
  <2>2. ASSUME NEW r \in Seq(Ids), r # <<>> PROVE ToSet(r) # {}
    <3>1. 1 \in DOMAIN r
      BY <2>2
    <3>. QED BY <3>1 DEF ToSet
  <2>. QED BY <2>1, <2>2
<1>8. /\ Levels(w.book, side0) = IF q = <<>> THEN Levels(st.book, side0) \ {p0} ELSE Levels(st.book, side0)
      /\ q # <<>> => w.book[side0][p0] = q
      /\ \A p \in Levels(st.book, side0) : p # p0 => w.book[side0][p] = st.book[side0][p]
      /\ \A side \in Sides : side # side0 => Levels(w.book, side) = Levels(st.book, side)
  <2>1. CASE q = <<>>
    BY <1>5, <2>1 DEF Drop, Levels
  <2>2. CASE q # <<>>
    <3>1. w.book[side0] = Put(st.book[side0], p0, q)
      BY <1>5, <2>2
    <3>. QED BY <1>1, <1>5, <2>2, <3>1 DEF Put, Levels
  <2>. QED BY <2>1, <2>2
<1>9. FiniteLevels(w)
  <2>1. ASSUME NEW side \in Sides
        PROVE  IsFiniteSet(Levels(w.book, side)) /\ Levels(w.book, side) \subseteq Prices
    <3>1. IsFiniteSet(Levels(st.book, side)) /\ Levels(st.book, side) \subseteq Prices
      BY DEF Sound, FiniteLevels
    <3>2. Levels(w.book, side) \in SUBSET Levels(st.book, side)
      BY <1>8
    <3>. QED BY <3>1, <3>2, FS_Subset
  <2>. QED BY <2>1 DEF FiniteLevels
<1>10. /\ At(w, side0, p0) = At(st, side0, p0) \ {id}
       /\ \A side, p : side # side0 \/ p # p0 => At(w, side, p) = At(st, side, p)
  BY <1>4 DEF At, o
<1>11. Entries(w)
  <2>1. D \subseteq Ids
    BY DEF Sound, Entries
  <2>2. ASSUME NEW i \in DOMAIN w.orders
        PROVE  /\ w.orders[i] \in Entry /\ w.orders[i].id = i
               /\ w.orders[i].price \in Levels(w.book, w.orders[i].side)
    <3>1. /\ st.orders[i] \in Entry /\ st.orders[i].id = i
          /\ st.orders[i].price \in Levels(st.book, st.orders[i].side)
      BY <1>4 DEF Sound, Entries
    <3>2. st.orders[i].side \in Sides /\ i \in D \ {id}
      BY <1>4, <3>1 DEF Entry
    <3>3. ASSUME st.orders[i].side = side0, st.orders[i].price = p0 PROVE q # <<>>
      <4>1. i \in At(st, side0, p0) \ {id}
        BY <3>2, <3>3 DEF At
      <4>. QED BY <4>1, <1>6, <1>7
    <3>4. st.orders[i].price \in Levels(w.book, st.orders[i].side)
      BY <1>8, <3>1, <3>2, <3>3
    <3>. QED BY <1>4, <3>1, <3>4
  <2>. QED BY <1>4, <2>1, <2>2 DEF Entries
<1>12. ASSUME NEW side \in Sides, NEW p \in Levels(w.book, side)
       PROVE  /\ w.book[side][p] \in Seq(Ids)
              /\ ToSet(w.book[side][p]) = At(w, side, p)
              /\ InOrder(w.book[side][p], old)
              /\ w.book[side][p] = <<>> => st.book[side][p] = <<>>
  <2>1. CASE side = side0 /\ p = p0
    BY <1>6, <1>8, <1>10, <1>12, <2>1
  <2>2. CASE ~(side = side0 /\ p = p0)
    <3>1. p \in Levels(st.book, side) /\ w.book[side][p] = st.book[side][p]
      BY <1>5, <1>8, <1>12, <2>2
    <3>2. /\ st.book[side][p] \in Seq(Ids)
          /\ ToSet(st.book[side][p]) = At(st, side, p)
          /\ InOrder(st.book[side][p], old)
      BY <3>1 DEF Sound, Queued
    <3>. QED BY <1>10, <2>2, <3>1, <3>2
  <2>. QED BY <2>1, <2>2
<1>13. Queued(w, old)
  BY <1>12 DEF Queued
<1>14. Summaries(w)
  <2>1. DOMAIN st.levelData \subseteq Prices /\ \A p \in DOMAIN st.levelData : st.levelData[p] \in LevelRecord
    BY DEF Sound, Summaries
  <2>. DEFINE ld == st.levelData
              change == -o.remaining
  <2>2. change \in Int /\ -1 \in Int
    BY <1>1
  <2>3. w.levelData = UpdateLevelData(ld, p0, change, -1)
    BY <1>3
  <2>. HIDE DEF ld, change
  <2>4. /\ DOMAIN UpdateLevelData(ld, p0, change, -1) \subseteq Prices
        /\ \A p \in DOMAIN UpdateLevelData(ld, p0, change, -1) :
             UpdateLevelData(ld, p0, change, -1)[p] \in LevelRecord
    BY <1>1, <2>1, <2>2, LevelDataUpdated DEF ld
  <2>. QED BY <2>3, <2>4 DEF Summaries
<1>15. ASSUME NEW side \in Sides
       PROVE  /\ Levels(w.book, side) \subseteq Levels(st.book, side)
              /\ \A p \in Levels(st.book, side) : p \notin Levels(w.book, side) => At(st, side, p) = {id}
  <2>1. Levels(w.book, side) \subseteq Levels(st.book, side)
    BY <1>8
  <2>2. ASSUME NEW p \in Levels(st.book, side), p \notin Levels(w.book, side)
        PROVE  At(st, side, p) = {id}
    <3>1. side = side0 /\ p = p0 /\ q = <<>>
      BY <1>8, <2>2
    <3>2. id \in At(st, side0, p0)
      BY DEF At, o
    <3>. QED BY <1>6, <1>7, <3>1, <3>2
  <2>. QED BY <2>1, <2>2
<1>16. Sound(w, old)
  BY <1>3, <1>9, <1>11, <1>13, <1>14 DEF Sound
<1>17. Removed(st, w, id)
  BY <1>4, <1>12, <1>15 DEF Removed
<1>. QED BY <1>16, <1>17 DEF w

\* The best price stays the best as long as its level does.
LEMMA BestKept ==
  ASSUME NEW st, NEW w, FiniteLevels(st), FiniteLevels(w), NEW side \in Sides,
         Levels(w.book, side) \subseteq Levels(st.book, side),
         Best(st.book, side) \in Levels(w.book, side)
  PROVE  Best(w.book, side) = Best(st.book, side)
<1>. DEFINE a == Best(st.book, side)
            b == Best(w.book, side)
            A == Levels(st.book, side)
            B == Levels(w.book, side)
<1>1. /\ A \subseteq Prices /\ B \subseteq Prices /\ IsFiniteSet(A) /\ IsFiniteSet(B)
      /\ A # {} /\ B # {}
  BY DEF FiniteLevels
<1>2. /\ a \in A
      /\ side = "Buy" => \A p \in A : p <= a
      /\ side = "Sell" => \A p \in A : a <= p
  BY <1>1, Extremes
<1>3. /\ b \in B
      /\ side = "Buy" => \A p \in B : p <= b
      /\ side = "Sell" => \A p \in B : b <= p
  BY <1>1, Extremes
<1>4. a \in B /\ B \subseteq A
  OBVIOUS
<1>. HIDE DEF a, b, A, B
<1>5. a \in Int /\ b \in Int /\ b \in A
  BY <1>1, <1>2, <1>3, <1>4
<1>6. ASSUME side = "Buy" PROVE a = b
  <2>1. b <= a /\ a <= b
    BY <1>2, <1>3, <1>4, <1>5, <1>6
  <2>. QED BY <1>5, <2>1
<1>7. ASSUME side = "Sell" PROVE a = b
  <2>1. b <= a /\ a <= b
    BY <1>2, <1>3, <1>4, <1>5, <1>7
  <2>. QED BY <1>5, <2>1
<1>. QED BY <1>6, <1>7 DEF Sides, a, b

\* w is st without the best level of a side if that was empty.
Closed(st, w, side) ==
  /\ w.orders = st.orders
  /\ \A other \in Sides : other # side => w.book[other] = st.book[other]
  /\ Levels(w.book, side) \subseteq Levels(st.book, side)
  /\ \A p \in Levels(w.book, side) : w.book[side][p] = st.book[side][p]
  /\ \A p \in Levels(st.book, side) : st.book[side][p] # <<>> => p \in Levels(w.book, side)
  /\ Best(st.book, side) \in Levels(w.book, side) => st.book[side][Best(st.book, side)] # <<>>

\* What MatchOrders() erases with an emptied best level.
LEMMA CloseSideSound ==
  ASSUME NEW st, NEW old, Sound(st, old), NEW side \in Sides
  PROVE  Sound(CloseSide(st, side), old) /\ Closed(st, CloseSide(st, side), side)
<1>. DEFINE w == CloseSide(st, side)
            best == Best(st.book, side)
<1>1. CASE ~(Levels(st.book, side) # {} /\ st.book[side][best] = <<>>)
  <2>1. w = st
    BY <1>1 DEF CloseSide
  <2>2. best \in Levels(st.book, side) => st.book[side][best] # <<>>
    BY <1>1
  <2>. QED BY <2>1, <2>2 DEF Closed
<1>2. CASE Levels(st.book, side) # {} /\ st.book[side][best] = <<>>
  <2>1. w = [st EXCEPT !.book[side] = Drop(@, best), !.levelData = Drop(@, best)]
    BY <1>2 DEF CloseSide
  <2>2. /\ st = [book |-> st.book, orders |-> st.orders, levelData |-> st.levelData]
        /\ DOMAIN st.book = Sides
    BY DEF Sound, Shaped
  <2>3. /\ w.book = [st.book EXCEPT ![side] = Drop(st.book[side], best)]
        /\ w.orders = st.orders
        /\ w.levelData = Drop(st.levelData, best)
        /\ w = [book |-> w.book, orders |-> w.orders, levelData |-> w.levelData]
    BY <2>1, <2>2
  <2>. HIDE DEF w
  <2>4. /\ w.book[side] = Drop(st.book[side], best)
        /\ \A other \in Sides : other # side => w.book[other] = st.book[other]
        /\ Shaped(w)
    BY <2>2, <2>3 DEF Shaped
  <2>5. /\ Levels(w.book, side) = Levels(st.book, side) \ {best}
        /\ \A p \in Levels(w.book, side) : w.book[side][p] = st.book[side][p]
        /\ \A other \in Sides : other # side => Levels(w.book, other) = Levels(st.book, other)
    BY <2>4 DEF Levels, Drop
  <2>6. \A p : \A s \in Sides : At(w, s, p) = At(st, s, p)
    BY <2>3 DEF At
  <2>7. FiniteLevels(w)
    <3>1. ASSUME NEW s \in Sides
          PROVE  IsFiniteSet(Levels(w.book, s)) /\ Levels(w.book, s) \subseteq Prices
      <4>1. IsFiniteSet(Levels(st.book, s)) /\ Levels(st.book, s) \subseteq Prices
        BY DEF Sound, FiniteLevels
      <4>2. Levels(w.book, s) \in SUBSET Levels(st.book, s)
        BY <2>5
      <4>. QED BY <4>1, <4>2, FS_Subset
    <3>. QED BY <3>1 DEF FiniteLevels
  <2>8. At(st, side, best) = {}
    <3>1. best \in Levels(st.book, side)
      BY <1>2, Extremes DEF Sound, FiniteLevels
    <3>2. ToSet(st.book[side][best]) = At(st, side, best)
      BY <3>1 DEF Sound, Queued
    <3>. QED BY <1>2, <3>2 DEF ToSet
  <2>9. Entries(w)
    <3>1. Entries(st)
      BY DEF Sound
    <3>2. ASSUME NEW i \in DOMAIN st.orders
          PROVE  st.orders[i].price \in Levels(w.book, st.orders[i].side)
      <4>1. st.orders[i].price \in Levels(st.book, st.orders[i].side) /\ st.orders[i].side \in Sides
        BY <3>1 DEF Entries, Entry
      <4>2. ~(st.orders[i].side = side /\ st.orders[i].price = best)
        BY <2>8 DEF At
      <4>. QED BY <2>5, <4>1, <4>2
    <3>. QED BY <2>3, <3>1, <3>2 DEF Entries
  <2>10. Queued(w, old)
    <3>1. ASSUME NEW s \in Sides, NEW p \in Levels(w.book, s)
          PROVE  /\ w.book[s][p] \in Seq(Ids)
                 /\ ToSet(w.book[s][p]) = At(w, s, p)
                 /\ InOrder(w.book[s][p], old)
      <4>1. p \in Levels(st.book, s) /\ w.book[s][p] = st.book[s][p]
        BY <2>4, <2>5, <3>1
      <4>2. /\ st.book[s][p] \in Seq(Ids)
            /\ ToSet(st.book[s][p]) = At(st, s, p)
            /\ InOrder(st.book[s][p], old)
        BY <4>1 DEF Sound, Queued
      <4>. QED BY <2>6, <4>1, <4>2
    <3>. QED BY <3>1 DEF Queued
  <2>11. Summaries(w)
    BY <2>3 DEF Sound, Summaries, Drop
  <2>12. Sound(w, old)
    BY <2>4, <2>7, <2>9, <2>10, <2>11 DEF Sound
  <2>13. \A p \in Levels(st.book, side) : st.book[side][p] # <<>> => p \in Levels(w.book, side)
    BY <1>2, <2>5
  <2>14. Best(st.book, side) \notin Levels(w.book, side)
    BY <2>5
  <2>15. Closed(st, w, side)
    BY <2>3, <2>4, <2>5, <2>13, <2>14 DEF Closed
  <2>. QED BY <2>12, <2>15 DEF w
<1>. QED BY <1>1, <1>2

\* What MatchOrders() does to the remainder of a fill-and-kill order.
LEMMA KillFrontSound ==
  ASSUME NEW st, NEW old, Sound(st, old), Irreflexive(old), NoneEmpty(st), KillsInFront(st),
         NEW side \in Sides
  PROVE  LET w == KillFront(st, side)
         IN /\ Sound(w, old) /\ NoneEmpty(w) /\ KillsInFront(w)
            /\ DOMAIN w.orders \subseteq DOMAIN st.orders
            /\ \A i \in DOMAIN w.orders :
                 /\ w.orders[i] = st.orders[i]
                 /\ w.orders[i].type = "FillAndKill" => w.orders[i].side # side
            /\ \A i \in DOMAIN st.orders \ DOMAIN w.orders : st.orders[i].type = "FillAndKill"
            /\ \A s \in Sides : Levels(w.book, s) \subseteq Levels(st.book, s)
<1>. DEFINE w == KillFront(st, side)
            best == Best(st.book, side)
            front == Head(st.book[side][best])
<1>1. ASSUME Levels(st.book, side) # {}
      PROVE  /\ best \in Levels(st.book, side)
             /\ front \in At(st, side, best)
  <2>1. best \in Levels(st.book, side)
    BY <1>1, Extremes DEF Sound, FiniteLevels
  <2>2. /\ st.book[side][best] \in Seq(Ids) /\ st.book[side][best] # <<>>
        /\ ToSet(st.book[side][best]) = At(st, side, best)
        /\ InOrder(st.book[side][best], old)
    BY <2>1 DEF Sound, Queued, NoneEmpty
  <2>3. front \in ToSet(st.book[side][best])
    BY <2>2, PoppedInOrder
  <2>. QED BY <2>1, <2>2, <2>3
<1>. HIDE DEF front, best
<1>2. CASE ~(Levels(st.book, side) # {} /\ st.orders[front].type = "FillAndKill")
  <2>1. w = st
    BY <1>2 DEF KillFront, front, best
  <2>2. ASSUME NEW i \in DOMAIN st.orders, st.orders[i].type = "FillAndKill", st.orders[i].side = side
        PROVE  FALSE
    <3>1. st.orders[i].price \in Levels(st.book, side)
      BY <2>2 DEF Sound, Entries
    <3>2. At(st, side, best) = {i}
      BY <2>2 DEF KillsInFront, best
    <3>. QED BY <1>1, <1>2, <2>2, <3>1, <3>2
  <2>. QED BY <2>1, <2>2
<1>3. CASE Levels(st.book, side) # {} /\ st.orders[front].type = "FillAndKill"
  <2>1. w = WithoutOrder(st, front)
    BY <1>3 DEF KillFront, front, best
  <2>2. front \in DOMAIN st.orders /\ st.orders[front].side = side
    BY <1>1, <1>3 DEF At
  <2>3. /\ Sound(w, old)
        /\ DOMAIN w.orders = DOMAIN st.orders \ {front}
        /\ \A i \in DOMAIN w.orders : w.orders[i] = st.orders[i]
        /\ \A s \in Sides :
             /\ Levels(w.book, s) \subseteq Levels(st.book, s)
             /\ \A p \in Levels(st.book, s) : p \notin Levels(w.book, s) => At(st, s, p) = {front}
        /\ \A s \in Sides : \A p \in Levels(w.book, s) :
             w.book[s][p] = <<>> => st.book[s][p] = <<>>
    BY <2>1, <2>2, WithoutOrderSound DEF Removed
  <2>. HIDE DEF w
  <2>4. NoneEmpty(w)
    BY <2>3 DEF NoneEmpty
  <2>5. ASSUME NEW i \in DOMAIN w.orders, w.orders[i].type = "FillAndKill"
        PROVE  w.orders[i].side # side
    <3>1. ASSUME w.orders[i].side = side PROVE FALSE
      <4>1. i \in DOMAIN st.orders /\ i # front /\ st.orders[i] = w.orders[i]
        BY <2>3
      <4>2. At(st, side, best) = {i}
        BY <2>5, <3>1, <4>1 DEF KillsInFront, best
      <4>. QED BY <1>1, <1>3, <4>1, <4>2
    <3>. QED BY <3>1
  <2>6. ASSUME NEW i \in DOMAIN w.orders, w.orders[i].type = "FillAndKill"
        PROVE  /\ w.orders[i].price = Best(w.book, w.orders[i].side)
               /\ At(w, w.orders[i].side, w.orders[i].price) = {i}
    <3>. DEFINE s == w.orders[i].side
                p == w.orders[i].price
    <3>1. /\ i \in DOMAIN st.orders /\ st.orders[i] = w.orders[i]
          /\ w.orders[i] \in Entry /\ p \in Levels(w.book, s)
      BY <2>3 DEF Sound, Entries
    <3>2. p = Best(st.book, s) /\ At(st, s, p) = {i} /\ s \in Sides
      BY <2>6, <3>1 DEF KillsInFront, Entry
    <3>3. FiniteLevels(st) /\ FiniteLevels(w) /\ Levels(w.book, s) \subseteq Levels(st.book, s)
      BY <2>3, <3>2 DEF Sound
    <3>4. Best(w.book, s) = Best(st.book, s)
      BY <3>1, <3>2, <3>3, BestKept
    <3>5. At(w, s, p) = {i}
      <4>1. At(w, s, p) \subseteq At(st, s, p)
        BY <2>3 DEF At
      <4>2. i \in At(w, s, p)
        BY DEF At
      <4>. QED BY <3>2, <4>1, <4>2
    <3>. QED BY <3>2, <3>4, <3>5
  <2>7. KillsInFront(w)
    BY <2>6 DEF KillsInFront
  <2>8. \A i \in DOMAIN st.orders \ DOMAIN w.orders : st.orders[i].type = "FillAndKill"
    BY <1>3, <2>3
  <2>. QED BY <2>3, <2>4, <2>5, <2>7, <2>8 DEF w
<1>. QED BY <1>2, <1>3

\* ToGoodTillCancel(): what AddOrder() accepts can rest.
LEMMA GoodTillCancelEntry ==
  ASSUME NEW st, NEW old, Sound(st, old), NEW o \in OrderRecord, o.remaining = o.initial,
         o.type # "Market" => o.price \in Prices, ~Refused(st, o)
  PROVE  LET g == ToGoodTillCancel(st.book, o)
         IN /\ g \in Entry /\ g.id = o.id /\ g.side = o.side
            /\ o.type = "Market" => Reaches(st.book, o.side, g.price)
            /\ g.type = "FillAndKill" => CanMatch(st.book, g.side, g.price)
<1>. DEFINE g == ToGoodTillCancel(st.book, o)
            opp == Opposite(o.side)
<1>1. /\ o.type \in OrderTypes /\ o.id \in Ids /\ o.side \in Sides /\ opp \in Sides
      /\ o.initial \in Quantities /\ o.remaining \in 1 .. Wrap - 1
  <2>1. o.type \in OrderTypes /\ o.id \in Ids /\ o.side \in Sides /\ o.initial \in Quantities
    BY DEF OrderRecord
  <2>. QED BY <2>1, TwoSides
<1>2. CASE o.type = "Market"
  <2>1. Levels(st.book, opp) # {}
    BY <1>2 DEF Refused
  <2>2. g = [o EXCEPT !.type = "GoodTillCancel", !.price = Worst(st.book, opp)]
    BY <1>2, <2>1 DEF ToGoodTillCancel
  <2>3. IsFiniteSet(Levels(st.book, opp)) /\ Levels(st.book, opp) \subseteq Prices
    BY <1>1 DEF Sound, FiniteLevels
  <2>4. /\ Worst(st.book, opp) \in Levels(st.book, opp)
        /\ opp = "Buy" => \A p \in Levels(st.book, opp) : Worst(st.book, opp) <= p
        /\ opp = "Sell" => \A p \in Levels(st.book, opp) : p <= Worst(st.book, opp)
    BY <1>1, <2>1, <2>3, Extremes
  <2>5. /\ g.type = "GoodTillCancel" /\ g.price = Worst(st.book, opp) /\ g.id = o.id
        /\ g.side = o.side /\ g \in Entry
    <3>1. Worst(st.book, opp) \in Prices /\ "GoodTillCancel" \in OrderTypes \ {"Market"}
      BY <2>3, <2>4 DEF OrderTypes
    <3>2. g = [type |-> "GoodTillCancel", id |-> o.id, side |-> o.side,
               price |-> Worst(st.book, opp), initial |-> o.initial, remaining |-> o.remaining]
      BY <2>2 DEF OrderRecord
    <3>. QED BY <1>1, <3>1, <3>2 DEF Entry
  <2>6. Reaches(st.book, o.side, g.price)
    <3>1. o.side = "Buy" => opp = "Sell"
      BY DEF Opposite
    <3>2. o.side = "Sell" => opp = "Buy"
      BY DEF Opposite
    <3>. QED BY <1>1, <2>4, <2>5, <3>1, <3>2 DEF Reaches, Sides
  <2>. QED BY <1>2, <2>5, <2>6
<1>3. CASE o.type # "Market"
  <2>1. g = o
    BY <1>3 DEF ToGoodTillCancel
  <2>2. o = [type |-> o.type, id |-> o.id, side |-> o.side, price |-> o.price,
             initial |-> o.initial, remaining |-> o.remaining]
    BY DEF OrderRecord
  <2>3. o \in Entry
    BY <1>1, <1>3, <2>2 DEF Entry
  <2>4. o.type = "FillAndKill" => CanMatch(st.book, o.side, o.price)
    BY DEF Refused
  <2>. QED BY <1>3, <2>1, <2>3, <2>4
<1>. QED BY <1>2, <1>3

-------------------------------------------------------------------------------
(* AddOrder(), CancelOrder() and ModifyOrder().                              *)

LEMMA InitIInv == Init => IInv
<1>. SUFFICES ASSUME Init PROVE IInv
  OBVIOUS
<1>1. /\ \A side \in Sides : Levels(book, side) = {}
      /\ DOMAIN orders = {} /\ DOMAIN levelData = {}
  BY DEF Init, EmptyMap, Levels
<1>2. State = [book |-> book, orders |-> orders, levelData |-> levelData]
  BY DEF State
<1>3. Shaped(State) /\ FiniteLevels(State)
  <2>1. IsFiniteSet({})
    BY FS_EmptySet
  <2>. QED BY <1>1, <2>1 DEF State, Shaped, FiniteLevels, Init
<1>4. Entries(State) /\ Queued(State, older) /\ Summaries(State)
  BY <1>1 DEF State, Entries, Queued, Summaries
<1>5. Aging /\ Control
  BY DEF Aging, Control, Init
<1>6. Emptied
  BY <1>1 DEF Emptied
<1>7. Crossing
  BY <1>1 DEF Crossing, Apart, Init, Sides
<1>8. Kills
  BY <1>1 DEF Kills, NoKills, State, Init
<1>9. Marketable
  BY DEF Marketable, Init
<1>. QED BY <1>3, <1>4, <1>5, <1>6, <1>7, <1>8, <1>9 DEF IInv, Sound

\* A state that Becomes() takes on.
LEMMA StateBecomes ==
  ASSUME NEW st, Shaped(st), Becomes(st)
  PROVE  /\ State' = st
         /\ book' = st.book /\ orders' = st.orders /\ levelData' = st.levelData
BY DEF Shaped, Becomes, State

\* The queue order of what is left, and that it is an order.
LEMMA AgingAmong ==
  ASSUME Aging, NEW D, D \subseteq DOMAIN orders, NEW id, id \notin D
  PROVE  /\ Irreflexive(older)
         /\ Among(D) \subseteq D \X D
         /\ \A i, j \in D : <<i, j>> \in Among(D) => <<j, i>> \notin Among(D)
         /\ Among(D) \cup (D \X {id}) \subseteq (D \cup {id}) \X (D \cup {id})
         /\ \A i, j \in D \cup {id} :
              <<i, j>> \in Among(D) \cup (D \X {id}) => <<j, i>> \notin Among(D) \cup (D \X {id})
<1>1. Irreflexive(older)
  BY DEF Aging, Irreflexive
<1>2. \A i, j : <<i, j>> \in Among(D) <=> i \in D /\ j \in D /\ <<i, j>> \in older
  BY DEF Among
<1>3. \A i, j : <<i, j>> \in D \X {id} <=> i \in D /\ j = id
  OBVIOUS
<1>4. \A i, j \in D : <<i, j>> \in older => <<j, i>> \notin older
  BY DEF Aging
<1>5. Among(D) \subseteq D \X D
  BY DEF Among
<1>. QED BY <1>1, <1>2, <1>3, <1>4, <1>5

LEMMA AddStep ==
  ASSUME IInv, NEW st, Sound(st, older), NoneEmpty(st), Apart(st.book), NoKills(st),
         DOMAIN st.orders \subseteq DOMAIN orders,
         NEW o \in OrderRecord, o.remaining = o.initial, o.type # "Market" => o.price \in Prices,
         Add(st, o)
  PROVE  IInv'
<1>. DEFINE D == DOMAIN st.orders
<1>1. Shaped(st) /\ FiniteLevels(st) /\ Entries(st)
  BY DEF Sound
<1>2. trades' = <<>> /\ collided' = collided /\ collided \in {"never", "inCall", "before"}
  BY DEF Add, IInv, Control
<1>3. CASE Refused(st, o)
  <2>1. Becomes(st) /\ phase' = "done" /\ taker' = None /\ older' = Among(D)
    BY <1>3 DEF Add
  <2>2. /\ State' = st
        /\ book' = st.book /\ orders' = st.orders /\ levelData' = st.levelData
    BY <1>1, <2>1, StateBecomes
  <2>3. Sound(State', older')
    <3>1. Among(D) = older \cap (D \X D)
      BY DEF Among
    <3>. QED BY <2>1, <2>2, <3>1, SoundAmong
  <2>4. Aging'
    <3>1. Aging /\ \E id : id \notin D
      BY NoSetContainsEverything DEF IInv
    <3>. QED BY <2>1, <2>2, <3>1, AgingAmong DEF Aging
  <2>5. Control'
    BY <1>2, <2>1 DEF Control
  <2>6. Emptied'
    BY <2>2 DEF Emptied, NoneEmpty
  <2>7. Crossing'
    BY <2>1, <2>2 DEF Crossing
  <2>8. Kills'
    BY <2>1, <2>2 DEF Kills
  <2>9. Marketable'
    BY <2>1 DEF Marketable
  <2>. QED BY <2>3, <2>4, <2>5, <2>6, <2>7, <2>8, <2>9 DEF IInv
<1>4. CASE ~Refused(st, o)
  <2>. DEFINE g == ToGoodTillCancel(st.book, o)
              w == WithOrder(st, g)
              opp == Opposite(g.side)
  <2>1. Becomes(w) /\ phase' = "scan" /\ taker' = o /\ older' = Among(D) \cup (D \X {o.id})
    BY <1>4 DEF Add
  <2>2. /\ g \in Entry /\ g.id = o.id /\ g.side = o.side
        /\ o.type = "Market" => Reaches(st.book, o.side, g.price)
        /\ g.type = "FillAndKill" => CanMatch(st.book, g.side, g.price)
    BY <1>4, GoodTillCancelEntry
  <2>3. o.id \notin D
    BY <1>4 DEF Refused
  <2>. HIDE DEF g
  <2>4. Sound(st, Among(D))
    <3>1. Among(D) = older \cap (D \X D)
      BY DEF Among
    <3>. QED BY <3>1, SoundAmong
  <2>5. /\ Sound(w, Among(D) \cup (D \X {g.id}))
        /\ DOMAIN w.orders = D \cup {g.id}
        /\ w.orders[g.id] = g
        /\ \A i \in D : w.orders[i] = st.orders[i]
        /\ Levels(w.book, g.side) = Levels(st.book, g.side) \cup {g.price}
        /\ Levels(w.book, opp) = Levels(st.book, opp)
        /\ \A side \in Sides : \A p \in Levels(w.book, side) :
             w.book[side][p] = <<>> => p \in Levels(st.book, side) /\ st.book[side][p] = <<>>
    <3>1. g \in Entry /\ g.id \notin DOMAIN st.orders
      BY <2>2, <2>3
    <3>2. Sound(w, Among(D) \cup (D \X {g.id})) /\ Inserted(st, w, g)
      BY <2>4, <3>1, WithOrderSound
    <3>. QED BY <3>2 DEF Inserted
  <2>. HIDE DEF w
  <2>6. /\ State' = w
        /\ book' = w.book /\ orders' = w.orders /\ levelData' = w.levelData
    BY <2>1, <2>5, StateBecomes DEF Sound
  <2>7. Sound(State', older')
    BY <2>1, <2>2, <2>5, <2>6
  <2>8. Aging'
    <3>1. Aging
      BY DEF IInv
    <3>2. DOMAIN orders' = D \cup {o.id}
      BY <2>2, <2>5, <2>6
    <3>. QED BY <2>1, <2>3, <3>1, <3>2, AgingAmong DEF Aging
  <2>9. Control'
    BY <1>2, <2>1 DEF Control
  <2>10. Emptied'
    BY <2>5, <2>6 DEF Emptied, NoneEmpty
  <2>11. Crossing'
    BY <2>1 DEF Crossing
  <2>12. Marketable'
    <3>1. ASSUME o.type = "Market"
          PROVE  orders'[o.id].side = o.side /\ Reaches(book', o.side, orders'[o.id].price)
      BY <2>2, <2>5, <2>6, <3>1 DEF Reaches
    <3>. QED BY <2>1, <3>1 DEF Marketable
  <2>13. ASSUME g.type = "FillAndKill"
         PROVE  /\ g.price = Best(w.book, g.side)
                /\ At(w, g.side, g.price) = {g.id}
                /\ Crossed(w.book)
    <3>1. /\ g.side \in Sides /\ opp \in Sides /\ g.price \in Int /\ g.side # opp
          /\ (g.side = "Buy" /\ opp = "Sell") \/ (g.side = "Sell" /\ opp = "Buy")
      <4>1. g.side \in Sides /\ g.price \in Prices
        BY <2>2 DEF Entry
      <4>. QED BY <4>1 DEF Sides, Opposite
    <3>2. /\ Levels(st.book, opp) \subseteq Int /\ Levels(st.book, g.side) \subseteq Int
          /\ IsFiniteSet(Levels(st.book, opp)) /\ Levels(st.book, opp) \subseteq Prices
      BY <1>1, <3>1 DEF FiniteLevels
    <3>. DEFINE a == Best(st.book, opp)
    <3>3. /\ Levels(st.book, opp) # {}
          /\ g.side = "Buy" => g.price >= a
          /\ g.side = "Sell" => g.price <= a
      BY <2>2, <2>13, <3>1 DEF CanMatch
    <3>4. a \in Levels(st.book, opp) /\ a \in Int
      BY <3>1, <3>2, <3>3, Extremes
    <3>. HIDE DEF a
    <3>5. \A p \in Levels(st.book, g.side) :
            (g.side = "Buy" => p < a) /\ (g.side = "Sell" => a < p)
      BY <3>1, <3>4 DEF Apart
    <3>6. \A p \in Levels(st.book, g.side) :
            (g.side = "Buy" => p < g.price) /\ (g.side = "Sell" => g.price < p)
      <4>. TAKE p \in Levels(st.book, g.side)
      <4>1. p \in Int
        BY <3>2
      <4>2. ASSUME g.side = "Buy" PROVE p < g.price
        BY <3>1, <3>3, <3>4, <3>5, <4>1, <4>2
      <4>3. ASSUME g.side = "Sell" PROVE g.price < p
        BY <3>1, <3>3, <3>4, <3>5, <4>1, <4>3
      <4>. QED BY <4>2, <4>3
    <3>7. g.price \notin Levels(st.book, g.side)
      BY <3>1, <3>6
    <3>8. g.price = Best(w.book, g.side)
      <4>1. /\ IsFiniteSet(Levels(w.book, g.side)) /\ Levels(w.book, g.side) \subseteq Prices
            /\ Levels(w.book, g.side) # {}
        BY <2>5, <3>1 DEF Sound, FiniteLevels
      <4>2. /\ Best(w.book, g.side) \in Levels(w.book, g.side)
            /\ g.side = "Buy" => \A p \in Levels(w.book, g.side) : p <= Best(w.book, g.side)
            /\ g.side = "Sell" => \A p \in Levels(w.book, g.side) : Best(w.book, g.side) <= p
        BY <3>1, <4>1, Extremes
      <4>. DEFINE b == Best(w.book, g.side)
      <4>. HIDE DEF b
      <4>3. b = g.price \/ b \in Levels(st.book, g.side)
        BY <2>5, <4>2 DEF b
      <4>4. ASSUME b \in Levels(st.book, g.side) PROVE FALSE
        <5>1. g.price \in Levels(w.book, g.side) /\ b \in Int
          BY <2>5, <3>2, <4>4
        <5>2. (g.side = "Buy" => g.price <= b) /\ (g.side = "Sell" => b <= g.price)
          BY <4>2, <5>1 DEF b
        <5>3. (g.side = "Buy" => b < g.price) /\ (g.side = "Sell" => g.price < b)
          BY <3>6, <4>4
        <5>. QED BY <3>1, <5>1, <5>2, <5>3
      <4>. QED BY <4>3, <4>4 DEF b
    <3>9. At(w, g.side, g.price) = {g.id}
      <4>1. ASSUME NEW i \in D, st.orders[i].side = g.side, st.orders[i].price = g.price PROVE FALSE
        BY <1>1, <3>7, <4>1 DEF Entries
      <4>. QED BY <2>5, <4>1 DEF At
    <3>10. ~Apart(w.book)
      <4>1. g.price \in Levels(w.book, g.side) /\ a \in Levels(w.book, opp)
        BY <2>5, <3>4
      <4>2. CASE g.side = "Buy"
        <5>1. ~(g.price < a)
          BY <3>1, <3>3, <3>4, <4>2
        <5>. QED BY <3>1, <4>1, <4>2, <5>1 DEF Apart
      <4>3. CASE g.side = "Sell"
        <5>1. ~(a < g.price)
          BY <3>1, <3>3, <3>4, <4>3
        <5>. QED BY <3>1, <4>1, <4>3, <5>1 DEF Apart
      <4>. QED BY <3>1, <4>2, <4>3
    <3>. QED BY <2>5, <3>8, <3>9, <3>10, CrossedOrApart DEF Sound
  <2>14. Kills'
    <3>1. ASSUME NEW i \in DOMAIN w.orders, w.orders[i].type = "FillAndKill"
          PROVE  i = g.id /\ w.orders[i] = g
      BY <2>5, <3>1 DEF NoKills
    <3>2. KillsInFront(w)
      BY <2>13, <3>1 DEF KillsInFront
    <3>3. ~Crossed(w.book) => NoKills(w)
      BY <2>13, <3>1 DEF NoKills
    <3>. QED BY <2>1, <2>6, <3>2, <3>3 DEF Kills
  <2>. QED BY <2>7, <2>8, <2>9, <2>10, <2>11, <2>12, <2>14 DEF IInv
<1>. QED BY <1>3, <1>4

\* What callers submit.
LEMMA OrdersTyped ==
  ASSUME NEW type \in OrderTypes, NEW id \in Ids, NEW side \in Sides, NEW p \in Prices,
         NEW q \in Quantities
  PROVE  /\ Order(type, id, side, p, q) \in OrderRecord
         /\ Order(type, id, side, p, q).remaining = Order(type, id, side, p, q).initial
         /\ Order(type, id, side, p, q).type # "Market" => Order(type, id, side, p, q).price \in Prices
<1>1. q \in 0 .. Wrap - 1
  OBVIOUS
<1>. QED BY <1>1 DEF Order, OrderRecord, Prices0

\* Between calls the whole book is as AddOrder() needs it.
LEMMA IdleState ==
  ASSUME IInv, phase = "idle"
  PROVE  /\ Sound(State, older) /\ NoneEmpty(State) /\ Apart(State.book) /\ NoKills(State)
         /\ State.orders = orders
<1>1. State.book = book /\ State.orders = orders
  BY DEF State
<1>2. NoneEmpty(State)
  BY <1>1 DEF IInv, Emptied, NoneEmpty
<1>3. Apart(State.book) /\ NoKills(State)
  BY <1>1 DEF IInv, Crossing, Kills
<1>. QED BY <1>1, <1>2, <1>3 DEF IInv

\* And so is what CancelOrderInternal() leaves of it.
LEMMA CancelledState ==
  ASSUME IInv, phase = "idle", NEW id \in DOMAIN orders
  PROVE  LET st == WithoutOrder(State, id)
         IN /\ Sound(st, older) /\ NoneEmpty(st) /\ Apart(st.book) /\ NoKills(st)
            /\ DOMAIN st.orders = DOMAIN orders \ {id}
            /\ \A i \in DOMAIN st.orders : st.orders[i] = orders[i]
            /\ \A side \in Sides : Levels(st.book, side) \subseteq Levels(book, side)
<1>. DEFINE st == WithoutOrder(State, id)
<1>1. /\ Sound(State, older) /\ NoneEmpty(State) /\ Apart(State.book) /\ NoKills(State)
      /\ State.orders = orders /\ State.book = book
  BY IdleState DEF State
<1>2. Irreflexive(older)
  BY DEF IInv, Aging, Irreflexive
<1>3. /\ Sound(st, older)
      /\ DOMAIN st.orders = DOMAIN orders \ {id}
      /\ \A i \in DOMAIN st.orders : st.orders[i] = orders[i]
      /\ \A side \in Sides : Levels(st.book, side) \subseteq Levels(book, side)
      /\ \A side \in Sides : \A p \in Levels(st.book, side) :
           st.book[side][p] = <<>> => book[side][p] = <<>>
  <2>1. Sound(st, older) /\ Removed(State, st, id)
    BY <1>1, <1>2, WithoutOrderSound
  <2>. HIDE DEF st
  <2>. QED BY <1>1, <2>1 DEF Removed
<1>. HIDE DEF st
<1>4. NoneEmpty(st)
  BY <1>1, <1>3 DEF NoneEmpty
<1>5. Apart(st.book)
  BY <1>1, <1>3 DEF Apart, Sides
<1>6. NoKills(st)
  BY <1>1, <1>3 DEF NoKills
<1>. QED BY <1>3, <1>4, <1>5, <1>6 DEF st

LEMMA CancelStep ==
  ASSUME IInv, NEW id \in Ids, CancelOrder(id)
  PROVE  IInv'
<1>. DEFINE st == WithoutOrder(State, id)
            D == DOMAIN st.orders
<1>1. /\ phase = "idle" /\ phase' = "idle" /\ trades' = trades /\ taker' = taker
      /\ collided' = collided /\ id \in DOMAIN orders /\ Becomes(st)
      /\ older' = Among(DOMAIN orders \ {id})
  BY DEF CancelOrder
<1>2. /\ Sound(st, older) /\ NoneEmpty(st) /\ Apart(st.book) /\ NoKills(st)
      /\ DOMAIN st.orders = DOMAIN orders \ {id}
      /\ \A i \in DOMAIN st.orders : st.orders[i] = orders[i]
      /\ \A side \in Sides : Levels(st.book, side) \subseteq Levels(book, side)
  BY <1>1, CancelledState
<1>. HIDE DEF st
<1>3. /\ State' = st
      /\ book' = st.book /\ orders' = st.orders /\ levelData' = st.levelData
  BY <1>1, <1>2, StateBecomes DEF Sound
<1>4. Sound(State', older')
  <2>1. older' = older \cap (D \X D)
    BY <1>1, <1>2 DEF Among
  <2>. QED BY <1>2, <1>3, <2>1, SoundAmong
<1>5. Aging'
  <2>1. Aging /\ D \subseteq DOMAIN orders /\ id \notin D
    BY <1>2 DEF IInv
  <2>. QED BY <1>1, <1>2, <1>3, <2>1, AgingAmong DEF Aging
<1>6. Control'
  BY <1>1 DEF IInv, Control
<1>7. Emptied'
  BY <1>2, <1>3 DEF Emptied, NoneEmpty
<1>8. Crossing'
  BY <1>1, <1>2, <1>3 DEF Crossing
<1>9. Kills'
  BY <1>1, <1>2, <1>3 DEF Kills
<1>10. Marketable'
  <2>1. ASSUME taker # None, taker.type = "Market", taker.id \in DOMAIN orders'
        PROVE  /\ orders'[taker.id].side = taker.side
               /\ Reaches(book', taker.side, orders'[taker.id].price)
    <3>1. /\ orders[taker.id].side = taker.side /\ orders'[taker.id] = orders[taker.id]
          /\ Reaches(book, taker.side, orders[taker.id].price)
      BY <1>2, <1>3, <2>1 DEF IInv, Marketable
    <3>2. Opposite(taker.side) \in Sides
      BY DEF Opposite, Sides
    <3>. QED BY <1>2, <1>3, <3>1, <3>2 DEF Reaches
  <2>. QED BY <1>1, <2>1 DEF Marketable
<1>. QED BY <1>4, <1>5, <1>6, <1>7, <1>8, <1>9, <1>10 DEF IInv

LEMMA ModifyStep ==
  ASSUME IInv, NEW id \in Ids, NEW side \in Sides, NEW p \in Prices, NEW q \in Quantities,
         ModifyOrder(id, side, p, q)
  PROVE  IInv'
<1>. DEFINE st == WithoutOrder(State, id)
            o == Order(orders[id].type, id, side, p, q)
<1>1. phase = "idle" /\ id \in DOMAIN orders /\ Add(st, o)
  BY DEF ModifyOrder
<1>2. /\ Sound(st, older) /\ NoneEmpty(st) /\ Apart(st.book) /\ NoKills(st)
      /\ DOMAIN st.orders \subseteq DOMAIN orders
  BY <1>1, CancelledState
<1>3. orders[id].type \in OrderTypes
  BY <1>1 DEF IInv, Sound, Entries, Entry, State
<1>4. o \in OrderRecord /\ o.remaining = o.initial /\ (o.type # "Market" => o.price \in Prices)
  BY <1>3, OrdersTyped
<1>. HIDE DEF st, o
<1>. QED BY <1>1, <1>2, <1>4, AddStep

LEMMA AddOrderStep ==
  ASSUME IInv, NEW type \in Types, NEW id \in Ids, NEW side \in Sides, NEW p \in Prices,
         NEW q \in Quantities, AddOrder(Order(type, id, side, p, q))
  PROVE  IInv'
<1>. DEFINE o == Order(type, id, side, p, q)
<1>1. phase = "idle" /\ Add(State, o)
  BY DEF AddOrder
<1>2. /\ Sound(State, older) /\ NoneEmpty(State) /\ Apart(State.book) /\ NoKills(State)
      /\ DOMAIN State.orders \subseteq DOMAIN orders
  BY <1>1, IdleState
<1>3. o \in OrderRecord /\ o.remaining = o.initial /\ (o.type # "Market" => o.price \in Prices)
  BY OrdersTyped
<1>. HIDE DEF o
<1>. QED BY <1>1, <1>2, <1>3, AddStep

-------------------------------------------------------------------------------
(* MatchOrders().                                                           *)

\* The parts of the state as the lemmas about states name them.
LEMMA StateParts ==
  /\ State.book = book /\ State.orders = orders /\ State.levelData = levelData
  /\ State'.book = book' /\ State'.orders = orders' /\ State'.levelData = levelData'
BY DEF State

LEMMA ScanStep ==
  ASSUME IInv, Scan
  PROVE  IInv'
<1>1. /\ phase = "scan" /\ phase' = IF Crossed(book) THEN "level" ELSE "done"
      /\ book' = book /\ orders' = orders /\ levelData' = levelData
      /\ trades' = trades /\ taker' = taker /\ older' = older /\ collided' = collided
  BY DEF Scan, state, history
<1>2. State' = State
  BY <1>1 DEF State
<1>3. Sound(State', older') /\ Aging' /\ Control'
  <2>1. Sound(State', older')
    BY <1>1, <1>2 DEF IInv
  <2>2. Aging'
    BY <1>1 DEF IInv, Aging
  <2>3. Control'
    BY <1>1 DEF IInv, Control
  <2>. QED BY <2>1, <2>2, <2>3
<1>4. Emptied'
  BY <1>1 DEF IInv, Emptied
<1>5. Crossing'
  <2>1. Crossed(book) \/ Apart(book)
    BY StateParts, CrossedOrApart DEF IInv, Sound
  <2>. QED BY <1>1, <2>1 DEF Crossing
<1>6. Kills'
  <2>1. KillsInFront(State) /\ (~Crossed(book) => NoKills(State))
    BY <1>1 DEF IInv, Kills
  <2>. QED BY <1>1, <1>2, <2>1 DEF Kills
<1>7. Marketable'
  BY <1>1 DEF IInv, Marketable
<1>. QED BY <1>3, <1>4, <1>5, <1>6, <1>7 DEF IInv

LEMMA ReturnStep ==
  ASSUME IInv, Return
  PROVE  IInv'
<1>1. /\ phase = "done" /\ phase' = "idle" /\ trades' = <<>> /\ taker' = None
      /\ collided' = (IF collided = "inCall" THEN "before" ELSE collided)
      /\ book' = book /\ orders' = orders /\ levelData' = levelData /\ older' = older
  BY DEF Return, state
<1>2. State' = State
  BY <1>1 DEF State
<1>3. Sound(State', older')
  BY <1>1, <1>2 DEF IInv
<1>4. Aging'
  BY <1>1 DEF IInv, Aging
<1>5. Control'
  BY <1>1 DEF IInv, Control
<1>6. Emptied'
  BY <1>1 DEF IInv, Emptied
<1>7. Crossing'
  BY <1>1 DEF IInv, Crossing
<1>8. Kills'
  <2>1. NoKills(State)
    BY <1>1 DEF IInv, Kills
  <2>. QED BY <1>1, <1>2, <2>1 DEF Kills
<1>9. Marketable'
  BY <1>1 DEF Marketable
<1>. QED BY <1>3, <1>4, <1>5, <1>6, <1>7, <1>8, <1>9 DEF IInv

\* Inside the inner loop both sides have levels, and each best level's queue
\* holds the orders of that side and price.
LEMMA BestQueues ==
  ASSUME IInv, phase = "level", NEW side \in Sides
  PROVE  /\ Best(book, side) \in Levels(book, side)
         /\ side = "Buy" => \A p \in Levels(book, side) : p <= Best(book, side)
         /\ side = "Sell" => \A p \in Levels(book, side) : Best(book, side) <= p
         /\ Levels(book, side) \subseteq Prices
         /\ book[side][Best(book, side)] \in Seq(Ids)
         /\ ToSet(book[side][Best(book, side)]) = At(State, side, Best(book, side))
         /\ InOrder(book[side][Best(book, side)], older)
<1>1. Levels(book, side) # {}
  BY DEF IInv, Crossing, Crossed, Sides
<1>2. IsFiniteSet(Levels(book, side)) /\ Levels(book, side) \subseteq Prices
  BY StateParts DEF IInv, Sound, FiniteLevels
<1>3. /\ Best(book, side) \in Levels(book, side)
      /\ side = "Buy" => \A p \in Levels(book, side) : p <= Best(book, side)
      /\ side = "Sell" => \A p \in Levels(book, side) : Best(book, side) <= p
  BY <1>1, <1>2, Extremes
<1>. DEFINE best == Best(book, side)
<1>. HIDE DEF best
<1>4. \A p \in Levels(book, side) :
        /\ book[side][p] \in Seq(Ids)
        /\ ToSet(book[side][p]) = At(State, side, p)
        /\ InOrder(book[side][p], older)
  BY StateParts DEF IInv, Sound, Queued
<1>. QED BY <1>2, <1>3, <1>4 DEF best

\* What is left of the book when the emptied best levels are gone.
ClosedBook == CloseSide(CloseSide(State, "Buy"), "Sell")

LEMMA LevelsClosed ==
  ASSUME IInv, phase = "level"
  PROVE  /\ Sound(ClosedBook, older) /\ NoneEmpty(ClosedBook) /\ KillsInFront(ClosedBook)
         /\ ClosedBook.orders = orders
         /\ \A side \in Sides :
              /\ Levels(ClosedBook.book, side) \subseteq Levels(book, side)
              /\ book[side][Best(book, side)] = <<>> =>
                   Best(book, side) \notin Levels(ClosedBook.book, side)
<1>. DEFINE one == CloseSide(State, "Buy")
            two == CloseSide(one, "Sell")
<1>1. "Buy" \in Sides /\ "Sell" \in Sides /\ "Buy" # "Sell" /\ \A side \in Sides : side = "Buy" \/ side = "Sell"
  BY DEF Sides
<1>2. Sound(State, older) /\ Irreflexive(older)
  BY DEF IInv, Aging, Irreflexive
<1>3. /\ Sound(one, older)
      /\ one.orders = State.orders
      /\ one.book["Sell"] = State.book["Sell"]
      /\ Levels(one.book, "Buy") \subseteq Levels(State.book, "Buy")
      /\ \A p \in Levels(one.book, "Buy") : one.book["Buy"][p] = State.book["Buy"][p]
      /\ \A p \in Levels(State.book, "Buy") : State.book["Buy"][p] # <<>> => p \in Levels(one.book, "Buy")
      /\ Best(State.book, "Buy") \in Levels(one.book, "Buy") => State.book["Buy"][Best(State.book, "Buy")] # <<>>
  <2>1. Sound(one, older) /\ Closed(State, one, "Buy")
    BY <1>1, <1>2, CloseSideSound
  <2>. HIDE DEF one
  <2>. QED BY <1>1, <2>1 DEF Closed
<1>. HIDE DEF one
<1>4. /\ Sound(two, older)
      /\ two.orders = one.orders
      /\ two.book["Buy"] = one.book["Buy"]
      /\ Levels(two.book, "Sell") \subseteq Levels(one.book, "Sell")
      /\ \A p \in Levels(two.book, "Sell") : two.book["Sell"][p] = one.book["Sell"][p]
      /\ \A p \in Levels(one.book, "Sell") : one.book["Sell"][p] # <<>> => p \in Levels(two.book, "Sell")
      /\ Best(one.book, "Sell") \in Levels(two.book, "Sell") => one.book["Sell"][Best(one.book, "Sell")] # <<>>
  <2>1. Sound(two, older) /\ Closed(one, two, "Sell")
    BY <1>1, <1>3, CloseSideSound
  <2>. HIDE DEF two
  <2>. QED BY <1>1, <2>1 DEF Closed
<1>. HIDE DEF two
<1>5. /\ two.orders = orders
      /\ \A side \in Sides :
           /\ Levels(two.book, side) \subseteq Levels(book, side)
           /\ \A p \in Levels(two.book, side) : two.book[side][p] = book[side][p]
           /\ \A p \in Levels(book, side) : book[side][p] # <<>> => p \in Levels(two.book, side)
           /\ Best(book, side) \in Levels(two.book, side) => book[side][Best(book, side)] # <<>>
  <2>1. Best(one.book, "Sell") = Best(book, "Sell") /\ Levels(one.book, "Sell") = Levels(book, "Sell")
    BY <1>3, StateParts DEF Best, Levels
  <2>2. Levels(two.book, "Buy") = Levels(one.book, "Buy")
    BY <1>4 DEF Levels
  <2>. QED BY <1>1, <1>3, <1>4, <2>1, <2>2, StateParts
<1>6. NoneEmpty(two)
  <2>1. ASSUME NEW side \in Sides, NEW p \in Levels(two.book, side), two.book[side][p] = <<>>
        PROVE  FALSE
    <3>1. p \in Levels(book, side) /\ book[side][p] = <<>>
      BY <1>5, <2>1
    <3>2. p = Best(book, side)
      BY <3>1 DEF IInv, Emptied
    <3>. QED BY <1>5, <2>1, <3>1, <3>2
  <2>. QED BY <2>1 DEF NoneEmpty
<1>7. KillsInFront(two)
  <2>1. ASSUME NEW i \in DOMAIN two.orders, two.orders[i].type = "FillAndKill"
        PROVE  /\ two.orders[i].price = Best(two.book, two.orders[i].side)
               /\ At(two, two.orders[i].side, two.orders[i].price) = {i}
    <3>. DEFINE side == two.orders[i].side
                p == two.orders[i].price
    <3>1. /\ orders[i] = two.orders[i] /\ side \in Sides /\ p \in Levels(two.book, side)
      BY <1>4, <1>5 DEF Sound, Entries, Entry
    <3>2. p = Best(State.book, side) /\ At(State, side, p) = {i}
      BY <1>5, <2>1, <3>1, StateParts DEF IInv, Kills, KillsInFront
    <3>3. FiniteLevels(State) /\ FiniteLevels(two) /\ Levels(two.book, side) \subseteq Levels(State.book, side)
      BY <1>2, <1>4, <1>5, <3>1, StateParts DEF Sound
    <3>4. Best(two.book, side) = Best(State.book, side)
      BY <3>1, <3>2, <3>3, BestKept
    <3>5. At(two, side, p) = At(State, side, p)
      BY <1>5, StateParts DEF At
    <3>. QED BY <3>2, <3>4, <3>5
  <2>. QED BY <2>1 DEF KillsInFront
<1>. QED BY <1>4, <1>5, <1>6, <1>7 DEF ClosedBook, one, two

\* And when the fill-and-kill orders at the front are gone too.
KilledBook == KillFront(KillFront(ClosedBook, "Buy"), "Sell")

LEMMA FrontKilled ==
  ASSUME IInv, phase = "level"
  PROVE  /\ Sound(KilledBook, older) /\ NoneEmpty(KilledBook) /\ NoKills(KilledBook)
         /\ DOMAIN KilledBook.orders \subseteq DOMAIN orders
         /\ \A i \in DOMAIN KilledBook.orders : KilledBook.orders[i] = orders[i]
         /\ \A i \in DOMAIN orders \ DOMAIN KilledBook.orders : orders[i].type = "FillAndKill"
         /\ \A s \in Sides : Levels(KilledBook.book, s) \subseteq Levels(ClosedBook.book, s)
<1>. DEFINE three == KillFront(ClosedBook, "Buy")
            four == KillFront(three, "Sell")
<1>1. "Buy" \in Sides /\ "Sell" \in Sides /\ \A side \in Sides : side = "Buy" \/ side = "Sell"
  BY DEF Sides
<1>2. /\ Sound(ClosedBook, older) /\ NoneEmpty(ClosedBook) /\ KillsInFront(ClosedBook)
      /\ ClosedBook.orders = orders /\ Irreflexive(older)
  BY LevelsClosed DEF IInv, Aging, Irreflexive
<1>3. /\ Sound(three, older) /\ NoneEmpty(three) /\ KillsInFront(three)
      /\ DOMAIN three.orders \subseteq DOMAIN ClosedBook.orders
      /\ \A i \in DOMAIN three.orders :
           /\ three.orders[i] = ClosedBook.orders[i]
           /\ three.orders[i].type = "FillAndKill" => three.orders[i].side # "Buy"
      /\ \A i \in DOMAIN ClosedBook.orders \ DOMAIN three.orders :
           ClosedBook.orders[i].type = "FillAndKill"
      /\ \A s \in Sides : Levels(three.book, s) \subseteq Levels(ClosedBook.book, s)
  BY <1>1, <1>2, KillFrontSound
<1>. HIDE DEF three
<1>4. /\ Sound(four, older) /\ NoneEmpty(four) /\ KillsInFront(four)
      /\ DOMAIN four.orders \subseteq DOMAIN three.orders
      /\ \A i \in DOMAIN four.orders :
           /\ four.orders[i] = three.orders[i]
           /\ four.orders[i].type = "FillAndKill" => four.orders[i].side # "Sell"
      /\ \A i \in DOMAIN three.orders \ DOMAIN four.orders : three.orders[i].type = "FillAndKill"
      /\ \A s \in Sides : Levels(four.book, s) \subseteq Levels(three.book, s)
  BY <1>1, <1>2, <1>3, KillFrontSound
<1>. HIDE DEF four
<1>5. NoKills(four)
  <2>1. \A i \in DOMAIN four.orders : four.orders[i].side \in Sides
    BY <1>4 DEF Sound, Entries, Entry
  <2>. QED BY <1>1, <1>3, <1>4, <2>1 DEF NoKills
<1>. QED BY <1>2, <1>3, <1>4, <1>5 DEF KilledBook, three, four

LEMMA CloseLevelStep ==
  ASSUME IInv, CloseLevel
  PROVE  IInv'
<1>. DEFINE D == DOMAIN KilledBook.orders
<1>1. /\ phase = "level" /\ phase' = "scan" /\ Becomes(KilledBook) /\ older' = Among(D)
      /\ trades' = trades /\ taker' = taker
      /\ collided' \in {collided, "inCall"}
  BY DEF CloseLevel, KilledBook, ClosedBook
<1>2. /\ Sound(KilledBook, older) /\ NoneEmpty(KilledBook) /\ NoKills(KilledBook)
      /\ D \subseteq DOMAIN orders
      /\ \A i \in D : KilledBook.orders[i] = orders[i]
      /\ \A s \in Sides : Levels(KilledBook.book, s) \subseteq Levels(book, s)
  BY <1>1, LevelsClosed, FrontKilled
<1>3. /\ State' = KilledBook
      /\ book' = KilledBook.book /\ orders' = KilledBook.orders /\ levelData' = KilledBook.levelData
  BY <1>1, <1>2, StateBecomes DEF Sound
<1>4. /\ D \subseteq DOMAIN orders
      /\ \A i \in D : orders'[i] = orders[i]
      /\ \A s \in Sides : Levels(book', s) \subseteq Levels(book, s)
  BY <1>2, <1>3
<1>5. Sound(State', older')
  <2>1. older' = older \cap (D \X D)
    BY <1>1 DEF Among
  <2>. QED BY <1>2, <1>3, <2>1, SoundAmong
<1>6. Aging'
  <2>1. Aging /\ \E id : id \notin D
    BY NoSetContainsEverything DEF IInv
  <2>. QED BY <1>1, <1>3, <1>4, <2>1, AgingAmong DEF Aging
<1>7. Control'
  BY <1>1 DEF IInv, Control
<1>8. Emptied'
  BY <1>1, <1>2, <1>3 DEF Emptied, NoneEmpty
<1>9. Crossing'
  BY <1>1 DEF Crossing
<1>10. Kills'
  <2>1. KillsInFront(KilledBook)
    BY <1>2 DEF NoKills, KillsInFront
  <2>. QED BY <1>1, <1>2, <1>3, <2>1 DEF Kills
<1>11. Marketable'
  <2>1. ASSUME taker # None, taker.type = "Market", taker.id \in DOMAIN orders'
        PROVE  /\ orders'[taker.id].side = taker.side
               /\ Reaches(book', taker.side, orders'[taker.id].price)
    <3>1. /\ orders[taker.id].side = taker.side /\ orders'[taker.id] = orders[taker.id]
          /\ Reaches(book, taker.side, orders[taker.id].price)
      BY <1>3, <1>4, <2>1 DEF IInv, Marketable
    <3>2. Levels(book', Opposite(taker.side)) \subseteq Levels(book, Opposite(taker.side))
      <4>1. Opposite(taker.side) \in Sides
        BY DEF Opposite, Sides
      <4>. QED BY <1>4, <4>1
    <3>3. Reaches(book', taker.side, orders[taker.id].price)
      BY <3>1, <3>2 DEF Reaches
    <3>. QED BY <3>1, <3>3
  <2>. QED BY <1>1, <2>1 DEF Marketable
<1>. QED BY <1>5, <1>6, <1>7, <1>8, <1>9, <1>10, <1>11 DEF IInv

\* What a filled order takes from its level's count.
Gone(i, filled) == IF i \in filled THEN -1 ELSE 0

\* A turn of the inner loop takes the same quantity, more than zero, from the
\* front orders of the two best levels, of which those that are filled go.
Filling(filled, quantity) ==
  LET bid == Head(BidQueue)
      ask == Head(AskQueue)
      Rest(queue) == IF Head(queue) \in filled THEN Tail(queue) ELSE queue
  IN /\ filled \subseteq {bid, ask}
     /\ bid \in DOMAIN orders /\ ask \in DOMAIN orders
     /\ \A i \in {bid, ask} : quantity <= orders[i].remaining
     /\ \A i \in {bid, ask} \ filled : quantity < orders[i].remaining
     /\ \A i \in filled : quantity = orders[i].remaining
     /\ book' = [book EXCEPT !["Buy"][BestBid] = Rest(@), !["Sell"][BestAsk] = Rest(@)]
     /\ DOMAIN orders' = DOMAIN orders \ filled
     /\ \A i \in DOMAIN orders' :
          orders'[i] = IF i \in {bid, ask} THEN [orders[i] EXCEPT !.remaining = @ - quantity]
                                           ELSE orders[i]
     /\ trades' = Append(trades, [bid |-> bid, bidPrice |-> orders[bid].price,
                                  ask |-> ask, askPrice |-> orders[ask].price,
                                  quantity |-> quantity])
     /\ levelData' = UpdateLevelData(
                       UpdateLevelData(levelData, orders[bid].price, -quantity, Gone(bid, filled)),
                       orders[ask].price, -quantity, Gone(ask, filled))
     /\ older' = Among(DOMAIN orders \ filled)

LEMMA MinOfTwo ==
  ASSUME NEW x \in Int, NEW y \in Int
  PROVE  Min({x, y}) = IF x <= y THEN x ELSE y
<1>1. CASE x <= y
  BY <1>1 DEF Min
<1>2. CASE ~(x <= y)
  BY <1>2 DEF Min
<1>. QED BY <1>1, <1>2

\* The two front orders.
LEMMA FrontOrders ==
  ASSUME IInv, FillFront
  PROVE  /\ Head(BidQueue) \in At(State, "Buy", BestBid)
         /\ Head(AskQueue) \in At(State, "Sell", BestAsk)
         /\ \A i \in {Head(BidQueue), Head(AskQueue)} :
              /\ i \in DOMAIN orders /\ orders[i] \in Entry /\ orders[i].id = i
              /\ orders[i].remaining \in 1 .. Wrap - 1
         /\ Head(BidQueue) # Head(AskQueue)
<1>1. /\ "Buy" \in Sides /\ "Sell" \in Sides /\ phase = "level" /\ Irreflexive(older)
      /\ BidQueue # <<>> /\ AskQueue # <<>>
  BY DEF Sides, FillFront, IInv, Aging, Irreflexive
<1>2. /\ BidQueue \in Seq(Ids)
      /\ ToSet(BidQueue) = At(State, "Buy", BestBid)
      /\ InOrder(BidQueue, older)
  BY <1>1, BestQueues DEF BidQueue, BestBid
<1>3. /\ AskQueue \in Seq(Ids)
      /\ ToSet(AskQueue) = At(State, "Sell", BestAsk)
      /\ InOrder(AskQueue, older)
  BY <1>1, BestQueues DEF AskQueue, BestAsk
<1>4. Head(BidQueue) \in At(State, "Buy", BestBid)
  BY <1>1, <1>2, PoppedInOrder
<1>5. Head(AskQueue) \in At(State, "Sell", BestAsk)
  BY <1>1, <1>3, PoppedInOrder
<1>6. \A i \in DOMAIN orders :
        /\ orders[i] \in Entry /\ orders[i].id = i /\ orders[i].remaining \in 1 .. Wrap - 1
  BY StateParts DEF IInv, Sound, Entries, Entry
<1>7. Head(BidQueue) # Head(AskQueue)
  BY <1>4, <1>5 DEF At
<1>. QED BY <1>4, <1>5, <1>6, <1>7, StateParts DEF At

LEMMA FillParts ==
  ASSUME IInv, FillFront
  PROVE  /\ \E filled, quantity : quantity \in 1 .. Wrap - 1 /\ Filling(filled, quantity)
         /\ Summaries(State')
         /\ phase = "level" /\ phase' = phase /\ taker' = taker /\ collided' = collided
<1>. DEFINE hb == Head(BidQueue)
            ha == Head(AskQueue)
            front == {hb, ha}
            quantity == Min({orders[i].remaining : i \in front})
            bid == Fill(orders[hb], quantity)
            ask == Fill(orders[ha], quantity)
            filled == {o.id : o \in {x \in {bid, ask} : x.remaining = 0}}
            Rest(queue) == IF Head(queue) \in filled THEN Tail(queue) ELSE queue
            Left(o) == IF o.id \in filled THEN -1 ELSE 0
<1>1. /\ book' = [book EXCEPT !["Buy"][BestBid] = Rest(@), !["Sell"][BestAsk] = Rest(@)]
      /\ orders' = [i \in DOMAIN orders \ filled |->
                      IF i = bid.id THEN bid ELSE IF i = ask.id THEN ask ELSE orders[i]]
      /\ trades' = Append(trades, [bid |-> bid.id, bidPrice |-> bid.price,
                                   ask |-> ask.id, askPrice |-> ask.price,
                                   quantity |-> quantity])
      /\ levelData' = UpdateLevelData(
                        UpdateLevelData(levelData, bid.price, -quantity, Left(bid)),
                        ask.price, -quantity, Left(ask))
      /\ older' = Among(DOMAIN orders \ filled)
      /\ phase = "level" /\ phase' = phase /\ taker' = taker /\ collided' = collided
  BY DEF FillFront
<1>2. /\ \A i \in front :
           /\ i \in DOMAIN orders /\ orders[i] \in Entry /\ orders[i].id = i
           /\ orders[i].remaining \in 1 .. Wrap - 1
      /\ hb # ha
  BY FrontOrders
<1>3. /\ quantity \in 1 .. Wrap - 1
      /\ \A i \in front : quantity <= orders[i].remaining
  <2>1. {orders[i].remaining : i \in front} = {orders[hb].remaining, orders[ha].remaining}
    OBVIOUS
  <2>2. orders[hb].remaining \in 1 .. Wrap - 1 /\ orders[ha].remaining \in 1 .. Wrap - 1
    BY <1>2
  <2>3. orders[hb].remaining \in Int /\ orders[ha].remaining \in Int
    BY <2>2
  <2>4. quantity = IF orders[hb].remaining <= orders[ha].remaining
                   THEN orders[hb].remaining ELSE orders[ha].remaining
    BY <2>1, <2>3, MinOfTwo
  <2>. HIDE DEF quantity
  <2>5. quantity \in 1 .. Wrap - 1
    BY <2>2, <2>4
  <2>6. quantity <= orders[hb].remaining /\ quantity <= orders[ha].remaining
    BY <2>3, <2>4
  <2>. QED BY <2>5, <2>6
<1>. HIDE DEF quantity
<1>4. \A i \in front : ~(quantity > orders[i].remaining)
  <2>1. \A i \in front : orders[i].remaining \in Int
    BY <1>2
  <2>2. quantity \in Int
    BY <1>3
  <2>. QED BY <1>3, <2>1, <2>2
<1>5. /\ bid = [orders[hb] EXCEPT !.remaining = @ - quantity]
      /\ ask = [orders[ha] EXCEPT !.remaining = @ - quantity]
  BY <1>4 DEF Fill
<1>6. /\ bid.id = hb /\ bid.price = orders[hb].price /\ bid.remaining = orders[hb].remaining - quantity
      /\ ask.id = ha /\ ask.price = orders[ha].price /\ ask.remaining = orders[ha].remaining - quantity
  <2>1. \A i \in front :
          LET o == [orders[i] EXCEPT !.remaining = @ - quantity]
          IN o.id = i /\ o.price = orders[i].price /\ o.remaining = orders[i].remaining - quantity
    BY <1>2 DEF Entry
  <2>. QED BY <1>5, <2>1
<1>. HIDE DEF bid, ask
<1>7. /\ filled \subseteq front
      /\ \A i \in front \ filled : quantity < orders[i].remaining
      /\ \A i \in filled : quantity = orders[i].remaining
  <2>1. filled \subseteq front
    BY <1>6
  <2>2. /\ hb \notin filled => bid.remaining # 0
        /\ ha \notin filled => ask.remaining # 0
        /\ hb \in filled => bid.remaining = 0
        /\ ha \in filled => ask.remaining = 0
    BY <1>2, <1>6
  <2>3. \A i \in front : orders[i].remaining \in Int /\ quantity <= orders[i].remaining
    BY <1>2, <1>3
  <2>4. quantity \in Int
    BY <1>3
  <2>. HIDE DEF filled
  <2>. QED BY <1>6, <2>1, <2>2, <2>3, <2>4
<1>8. Summaries(State')
  <2>1. bid.price \in Prices /\ ask.price \in Prices
    BY <1>2, <1>6 DEF Entry
  <2>2. -quantity \in Int /\ Left(bid) \in Int /\ Left(ask) \in Int
    BY <1>3
  <2>3. DOMAIN levelData \subseteq Prices /\ \A p \in DOMAIN levelData : levelData[p] \in LevelRecord
    BY StateParts DEF IInv, Sound, Summaries
  <2>. DEFINE dq == -quantity
              db == Left(bid)
              da == Left(ask)
              once == UpdateLevelData(levelData, bid.price, dq, db)
              twice == UpdateLevelData(once, ask.price, dq, da)
  <2>. HIDE DEF dq, db, da
  <2>4. DOMAIN once \subseteq Prices /\ \A p \in DOMAIN once : once[p] \in LevelRecord
    BY <2>1, <2>2, <2>3, LevelDataUpdated DEF dq, db
  <2>. HIDE DEF once
  <2>5. DOMAIN twice \subseteq Prices /\ \A p \in DOMAIN twice : twice[p] \in LevelRecord
    BY <2>1, <2>2, <2>4, LevelDataUpdated DEF dq, da
  <2>6. levelData' = twice
    BY <1>1 DEF dq, db, da, once
  <2>. HIDE DEF twice
  <2>. QED BY <2>5, <2>6, StateParts DEF Summaries
<1>9. DOMAIN orders' = DOMAIN orders \ filled
  BY <1>1
<1>10. ASSUME NEW i \in DOMAIN orders'
       PROVE  orders'[i] = IF i \in {hb, ha} THEN [orders[i] EXCEPT !.remaining = @ - quantity]
                                             ELSE orders[i]
  <2>1. orders'[i] = IF i = hb THEN bid ELSE IF i = ha THEN ask ELSE orders[i]
    BY <1>1, <1>6
  <2>. QED BY <1>5, <2>1
<1>11. trades' = Append(trades, [bid |-> hb, bidPrice |-> orders[hb].price,
                                 ask |-> ha, askPrice |-> orders[ha].price,
                                 quantity |-> quantity])
  BY <1>1, <1>6
<1>12. book' = [book EXCEPT !["Buy"][BestBid] = Rest(@), !["Sell"][BestAsk] = Rest(@)]
  BY <1>1
<1>13. older' = Among(DOMAIN orders \ filled)
  BY <1>1
<1>14. hb \in DOMAIN orders /\ ha \in DOMAIN orders
  BY <1>2
<1>15. levelData' = UpdateLevelData(
                      UpdateLevelData(levelData, orders[hb].price, -quantity, Gone(hb, filled)),
                      orders[ha].price, -quantity, Gone(ha, filled))
  <2>1. Left(bid) = Gone(hb, filled) /\ Left(ask) = Gone(ha, filled)
    <3>. HIDE DEF filled
    <3>. QED BY <1>6 DEF Gone
  <2>. HIDE DEF Left
  <2>. QED BY <1>1, <1>6, <2>1
<1>. HIDE DEF filled
<1>16. Filling(filled, quantity)
  BY <1>3, <1>7, <1>9, <1>10, <1>11, <1>12, <1>13, <1>14, <1>15 DEF Filling
<1>. HIDE DEF front, hb, ha
<1>. QED BY <1>1, <1>3, <1>8, <1>16

\* The two queues lose the fronts that were filled, the book nothing else.
LEMMA FilledQueues ==
  ASSUME IInv, FillFront, NEW filled, NEW quantity, Filling(filled, quantity)
  PROVE  /\ DOMAIN book' = DOMAIN book
         /\ \A side \in Sides : Levels(book', side) = Levels(book, side)
         /\ \A side \in Sides : \A p \in Levels(book, side) :
              /\ p # Best(book, side) => book'[side][p] = book[side][p]
              /\ p = Best(book, side) =>
                   book'[side][p] = IF Head(book[side][p]) \in filled THEN Tail(book[side][p])
                                                                    ELSE book[side][p]
<1>. DEFINE Rest(queue) == IF Head(queue) \in filled THEN Tail(queue) ELSE queue
<1>1. book' = [book EXCEPT !["Buy"][BestBid] = Rest(@), !["Sell"][BestAsk] = Rest(@)]
  BY DEF Filling
<1>2. DOMAIN book = Sides
  BY StateParts DEF IInv, Sound, Shaped
<1>. HIDE DEF Rest
<1>3. /\ DOMAIN book' = DOMAIN book
      /\ book'["Buy"] = [book["Buy"] EXCEPT ![BestBid] = Rest(@)]
      /\ book'["Sell"] = [book["Sell"] EXCEPT ![BestAsk] = Rest(@)]
  BY <1>1, <1>2 DEF Sides
<1>4. /\ DOMAIN book'["Buy"] = DOMAIN book["Buy"]
      /\ \A p \in DOMAIN book["Buy"] :
           book'["Buy"][p] = IF p = BestBid THEN Rest(book["Buy"][p]) ELSE book["Buy"][p]
      /\ DOMAIN book'["Sell"] = DOMAIN book["Sell"]
      /\ \A p \in DOMAIN book["Sell"] :
           book'["Sell"][p] = IF p = BestAsk THEN Rest(book["Sell"][p]) ELSE book["Sell"][p]
  BY <1>3
<1>. QED BY <1>3, <1>4 DEF Rest, Sides, Levels, BestBid, BestAsk

LEMMA FillStep ==
  ASSUME IInv, FillFront
  PROVE  IInv'
<1>1. PICK filled, quantity : quantity \in 1 .. Wrap - 1 /\ Filling(filled, quantity)
  BY FillParts
<1>2. /\ Summaries(State')
      /\ phase = "level" /\ phase' = phase /\ taker' = taker /\ collided' = collided
  BY FillParts
<1>. DEFINE hb == Head(BidQueue)
            ha == Head(AskQueue)
            D == DOMAIN orders \ filled
<1>3. /\ filled \subseteq {hb, ha}
      /\ DOMAIN orders' = D
      /\ older' = Among(D)
      /\ \A i \in {hb, ha} : quantity <= orders[i].remaining
      /\ \A i \in {hb, ha} \ filled : quantity < orders[i].remaining
      /\ \A i \in D :
           orders'[i] = IF i \in {hb, ha} THEN [orders[i] EXCEPT !.remaining = @ - quantity]
                                          ELSE orders[i]
  BY <1>1 DEF Filling
<1>4. /\ hb \in At(State, "Buy", BestBid)
      /\ ha \in At(State, "Sell", BestAsk)
  BY FrontOrders
<1>5. /\ DOMAIN book' = DOMAIN book
      /\ \A side \in Sides : Levels(book', side) = Levels(book, side)
      /\ \A side \in Sides : \A p \in Levels(book, side) :
           /\ p # Best(book, side) => book'[side][p] = book[side][p]
           /\ p = Best(book, side) =>
                book'[side][p] = IF Head(book[side][p]) \in filled THEN Tail(book[side][p])
                                                                 ELSE book[side][p]
  BY <1>1, FilledQueues
<1>. HIDE DEF hb, ha
<1>6. ASSUME NEW i \in D
      PROVE  /\ orders'[i] \in Entry /\ orders'[i].id = i
             /\ orders'[i].type = orders[i].type /\ orders'[i].side = orders[i].side
             /\ orders'[i].price = orders[i].price
             /\ i \in DOMAIN orders /\ orders[i].side \in Sides
             /\ orders[i].price \in Levels(book, orders[i].side)
  <2>1. /\ orders[i] \in Entry /\ orders[i].id = i
        /\ orders[i].price \in Levels(book, orders[i].side)
    BY StateParts DEF IInv, Sound, Entries
  <2>2. CASE i \notin {hb, ha}
    <3>1. orders'[i] = orders[i]
      BY <1>3, <2>2
    <3>. QED BY <2>1, <3>1 DEF Entry
  <2>3. CASE i \in {hb, ha}
    <3>1. orders'[i] = [orders[i] EXCEPT !.remaining = @ - quantity]
      BY <1>3, <2>3
    <3>2. quantity < orders[i].remaining /\ quantity \in 1 .. Wrap - 1
      BY <1>1, <1>3, <2>3
    <3>3. orders[i].remaining \in 1 .. Wrap - 1
      BY <2>1 DEF Entry
    <3>4. orders[i].remaining - quantity \in 1 .. Wrap - 1
      BY <3>2, <3>3
    <3>. QED BY <2>1, <3>1, <3>4 DEF Entry
  <2>. QED BY <2>2, <2>3
<1>7. ASSUME NEW side \in Sides, NEW p PROVE At(State', side, p) = At(State, side, p) \ filled
  BY <1>3, <1>6, StateParts DEF At
<1>8. ASSUME NEW side \in Sides, NEW p \in Levels(book, side)
      PROVE  /\ book'[side][p] \in Seq(Ids)
             /\ ToSet(book'[side][p]) = At(State', side, p)
             /\ InOrder(book'[side][p], older)
             /\ book'[side][p] = <<>> => p = Best(book, side)
  <2>1. /\ book[side][p] \in Seq(Ids)
        /\ ToSet(book[side][p]) = At(State, side, p)
        /\ InOrder(book[side][p], older)
        /\ book[side][p] = <<>> => p = Best(book, side)
    BY StateParts DEF IInv, Sound, Queued, Emptied
  <2>. DEFINE h == Head(book[side][Best(book, side)])
  <2>2. h \in {hb, ha} /\ h \in At(State, side, Best(book, side))
    BY <1>4 DEF BidQueue, AskQueue, BestBid, BestAsk, Sides, hb, ha
  <2>3. ASSUME NEW i \in filled, i \in At(State, side, p) PROVE i = h /\ p = Best(book, side)
    <3>1. i \in {hb, ha}
      BY <1>3
    <3>2. CASE side = "Buy"
      <4>1. h = hb /\ ha \notin At(State, side, p)
        BY <1>4, <3>2 DEF At, BidQueue, BestBid, hb
      <4>. QED BY <2>2, <2>3, <3>1, <4>1 DEF At
    <3>3. CASE side = "Sell"
      <4>1. h = ha /\ hb \notin At(State, side, p)
        BY <1>4, <3>3 DEF At, AskQueue, BestAsk, ha
      <4>. QED BY <2>2, <2>3, <3>1, <4>1 DEF At
    <3>. QED BY <3>2, <3>3 DEF Sides
  <2>4. CASE p # Best(book, side) \/ h \notin filled
    <3>1. book'[side][p] = book[side][p]
      BY <1>5, <2>4
    <3>2. At(State', side, p) = At(State, side, p)
      <4>1. At(State', side, p) = At(State, side, p) \ filled
        BY <1>7
      <4>2. \A i \in filled : i \notin At(State, side, p)
        BY <2>3, <2>4
      <4>. QED BY <4>1, <4>2
    <3>. QED BY <2>1, <3>1, <3>2
  <2>5. CASE p = Best(book, side) /\ h \in filled
    <3>1. book'[side][p] = Tail(book[side][p]) /\ h = Head(book[side][p])
      BY <1>5, <2>5
    <3>2. book[side][p] # <<>>
      BY <2>1, <2>2, <2>5 DEF ToSet
    <3>3. Irreflexive(older)
      BY DEF IInv, Aging, Irreflexive
    <3>4. /\ Tail(book[side][p]) \in Seq(Ids)
          /\ ToSet(Tail(book[side][p])) = ToSet(book[side][p]) \ {Head(book[side][p])}
          /\ InOrder(Tail(book[side][p]), older)
      BY <2>1, <3>2, <3>3, PoppedInOrder
    <3>5. At(State', side, p) = At(State, side, p) \ {h}
      <4>1. At(State', side, p) = At(State, side, p) \ filled
        BY <1>7
      <4>2. \A i \in filled : i \in At(State, side, p) => i = h
        BY <2>3
      <4>. QED BY <2>5, <4>1, <4>2
    <3>. QED BY <2>1, <2>5, <3>1, <3>4, <3>5
  <2>. QED BY <2>4, <2>5
<1>9. Sound(State', older)
  <2>1. Shaped(State')
    BY <1>5, StateParts DEF State, Shaped, IInv, Sound
  <2>2. FiniteLevels(State')
    BY <1>5, StateParts DEF FiniteLevels, IInv, Sound
  <2>3. Entries(State')
    <3>1. D \subseteq Ids
      BY StateParts DEF IInv, Sound, Entries
    <3>. QED BY <1>3, <1>5, <1>6, <3>1, StateParts DEF Entries
  <2>4. Queued(State', older)
    BY <1>5, <1>8, StateParts DEF Queued
  <2>. QED BY <1>2, <2>1, <2>2, <2>3, <2>4 DEF Sound
<1>10. Sound(State', older')
  <2>1. older' = older \cap (D \X D)
    BY <1>3 DEF Among
  <2>. DEFINE s == State'
  <2>2. Sound(s, older) /\ DOMAIN s.orders = D
    BY <1>3, <1>9, StateParts
  <2>. HIDE DEF s
  <2>3. Sound(s, older \cap ((DOMAIN s.orders) \X (DOMAIN s.orders)))
    BY <2>2, SoundAmong
  <2>. QED BY <2>1, <2>2, <2>3 DEF s
<1>11. Aging'
  <2>1. Aging /\ D \subseteq DOMAIN orders /\ \E id : id \notin D
    BY NoSetContainsEverything DEF IInv
  <2>. QED BY <1>3, <2>1, AgingAmong DEF Aging
<1>12. Control'
  <2>1. trades' \in Seq(Trade)
    <3>. DEFINE t == [bid |-> hb, bidPrice |-> orders[hb].price,
                      ask |-> ha, askPrice |-> orders[ha].price, quantity |-> quantity]
    <3>1. trades' = Append(trades, t)
      BY <1>1 DEF Filling, hb, ha
    <3>2. t \in Trade
      <4>1. /\ hb \in Ids /\ ha \in Ids /\ orders[hb].price \in Prices /\ orders[ha].price \in Prices
        BY FrontOrders DEF Entry, hb, ha
      <4>2. quantity \in Nat
        BY <1>1
      <4>. QED BY <4>1, <4>2 DEF Trade
    <3>3. trades \in Seq(Trade)
      BY DEF IInv, Control
    <3>. HIDE DEF t
    <3>. QED BY <3>1, <3>2, <3>3, AppendProperties
  <2>. QED BY <1>2, <2>1 DEF IInv, Control
<1>13. \A side \in Sides : Best(book', side) = Best(book, side)
  BY <1>5 DEF Best, Sides
<1>14. Emptied'
  BY <1>2, <1>5, <1>8, <1>13 DEF Emptied
<1>15. Crossing'
  <2>1. Crossed(book)
    BY <1>2 DEF IInv, Crossing
  <2>2. Crossed(book')
    BY <1>5, <1>13, <2>1 DEF Crossed, Sides
  <2>. QED BY <1>2, <2>2 DEF Crossing
<1>16. Kills'
  <2>1. ASSUME NEW i \in D, orders'[i].type = "FillAndKill"
        PROVE  /\ orders'[i].price = Best(book', orders'[i].side)
               /\ At(State', orders'[i].side, orders'[i].price) = {i}
    <3>1. orders[i].price = Best(book, orders[i].side) /\ At(State, orders[i].side, orders[i].price) = {i}
      BY <1>2, <1>6, <2>1, StateParts DEF IInv, Kills, KillsInFront
    <3>. QED BY <1>6, <1>7, <1>13, <3>1
  <2>2. KillsInFront(State')
    BY <1>3, <2>1, StateParts DEF KillsInFront
  <2>. QED BY <1>2, <2>2 DEF Kills
<1>17. Marketable'
  <2>1. ASSUME taker # None, taker.type = "Market", taker.id \in D
        PROVE  /\ orders'[taker.id].side = taker.side
               /\ Reaches(book', taker.side, orders'[taker.id].price)
    <3>1. /\ orders[taker.id].side = taker.side
          /\ Reaches(book, taker.side, orders[taker.id].price)
      BY <2>1 DEF IInv, Marketable
    <3>2. Opposite(taker.side) \in Sides
      BY DEF Opposite, Sides
    <3>. QED BY <1>5, <1>6, <2>1, <3>1, <3>2 DEF Reaches
  <2>. QED BY <1>2, <1>3, <2>1 DEF Marketable
<1>. QED BY <1>10, <1>11, <1>12, <1>14, <1>15, <1>16, <1>17 DEF IInv

-------------------------------------------------------------------------------
(* The theorems.                                                            *)

LEMMA StutterStep ==
  ASSUME IInv, UNCHANGED vars
  PROVE  IInv'
<1>1. /\ book' = book /\ orders' = orders /\ levelData' = levelData
      /\ phase' = phase /\ trades' = trades /\ taker' = taker /\ older' = older
      /\ collided' = collided
  BY DEF vars, state, history
<1>2. State' = State
  BY <1>1 DEF State
<1>. QED BY <1>1, <1>2 DEF IInv, Aging, Control, Emptied, Crossing, Kills, Marketable

LEMMA IInvKept ==
  ASSUME IInv, [Next]_vars
  PROVE  IInv'
<1>1. ASSUME NEW type \in Types, NEW id \in Ids, NEW side \in Sides, NEW p \in Prices,
             NEW q \in Quantities, AddOrder(Order(type, id, side, p, q))
      PROVE  IInv'
  BY <1>1, AddOrderStep
<1>2. ASSUME NEW id \in Ids, CancelOrder(id) PROVE IInv'
  BY <1>2, CancelStep
<1>3. ASSUME NEW id \in Ids, NEW side \in Sides, NEW p \in Prices, NEW q \in Quantities,
             ModifyOrder(id, side, p, q)
      PROVE  IInv'
  BY <1>3, ModifyStep
<1>4. CASE MatchOrders
  BY <1>4, ScanStep, FillStep, CloseLevelStep DEF MatchOrders
<1>5. CASE Return
  BY <1>5, ReturnStep
<1>6. CASE UNCHANGED vars
  BY <1>6, StutterStep
<1>. QED BY <1>1, <1>2, <1>3, <1>4, <1>5, <1>6 DEF Next

\* The inductive invariant: the two sorted maps and the index agree, every queue
\* is in the order of arrival, and each phase of AddOrder() leaves the book as
\* crossed, and with the fill-and-kill orders, that the next one expects.
THEOREM Invariance == Spec => []IInv
<1>1. IInv /\ [Next]_vars => IInv'
  BY IInvKept
<1>. QED BY InitIInv, <1>1, PTL DEF Spec

\* Every variable keeps its type, whatever the callers' ids, prices and quantities.
THEOREM TypeCorrect == Spec => []TypeOK
<1>1. IInv => TypeOK
  <2>. SUFFICES ASSUME IInv PROVE TypeOK
    OBVIOUS
  <2>1. DOMAIN book = Sides /\ \A side \in Sides : Levels(book, side) \subseteq Prices
    BY StateParts DEF IInv, Sound, Shaped, FiniteLevels
  <2>2. DOMAIN orders \subseteq Ids
    BY StateParts DEF IInv, Sound, Entries
  <2>3. \A i \in DOMAIN orders : orders[i] \in OrderRecord /\ orders[i].type # "Market"
    <3>1. \A o \in Entry : o \in OrderRecord /\ o.type # "Market"
      BY DEF Entry, OrderRecord, Prices0
    <3>. QED BY <3>1, StateParts DEF IInv, Sound, Entries
  <2>4. DOMAIN levelData \subseteq Prices /\ \A p \in DOMAIN levelData : levelData[p] \in LevelRecord
    BY StateParts DEF IInv, Sound, Summaries
  <2>5. older \subseteq (DOMAIN orders) \X (DOMAIN orders)
    BY DEF IInv, Aging
  <2>. QED BY <2>1, <2>2, <2>3, <2>4, <2>5 DEF TypeOK, IInv, Control
<1>. QED BY Invariance, <1>1, PTL

\* The iterators that CancelOrderInternal() erases through stay valid: the maps
\* and the index hold the same orders, each once, and no level outside the
\* matching loop is empty.
THEOREM IndexConsistentHolds == Spec => []IndexConsistent
<1>1. IInv => IndexConsistent
  <2>. SUFFICES ASSUME IInv, phase # "level", NEW side \in Sides
                PROVE  /\ Levels(book, side) = {orders[i].price : i \in {j \in DOMAIN orders : orders[j].side = side}}
                       /\ \A p \in Levels(book, side) :
                            /\ ToSet(book[side][p]) = Resting(side, p)
                            /\ IsInjective(book[side][p])
    BY DEF IndexConsistent
  <2>1. ASSUME NEW p \in Levels(book, side)
        PROVE  /\ book[side][p] \in Seq(Ids) /\ book[side][p] # <<>>
               /\ ToSet(book[side][p]) = Resting(side, p)
               /\ InOrder(book[side][p], older)
    BY StateParts DEF IInv, Sound, Queued, Emptied, At, Resting
  <2>2. ASSUME NEW p \in Levels(book, side) PROVE IsInjective(book[side][p])
    <3>. DEFINE q == book[side][p]
    <3>1. DOMAIN q = 1 .. Len(q) /\ Len(q) \in Nat
      BY <2>1
    <3>2. InOrder(q, older) /\ Irreflexive(older)
      BY <2>1 DEF IInv, Aging, Irreflexive
    <3>. HIDE DEF q
    <3>3. ASSUME NEW m \in 1 .. Len(q), NEW n \in 1 .. Len(q), q[m] = q[n] PROVE m = n
      <4>1. m < n \/ n < m \/ m = n
        BY <3>1
      <4>. QED BY <3>2, <3>3, <4>1 DEF InOrder, Irreflexive
    <3>. QED BY <3>1, <3>3 DEF IsInjective, q
  <2>3. ASSUME NEW p \in Levels(book, side)
        PROVE  \E i \in DOMAIN orders : orders[i].side = side /\ orders[i].price = p
    <3>1. 1 \in DOMAIN book[side][p]
      BY <2>1
    <3>2. book[side][p][1] \in Resting(side, p)
      BY <2>1, <3>1 DEF ToSet
    <3>. QED BY <3>2 DEF Resting
  <2>4. \A i \in DOMAIN orders : orders[i].side = side => orders[i].price \in Levels(book, side)
    BY StateParts DEF IInv, Sound, Entries
  <2>. QED BY <2>1, <2>2, <2>3, <2>4
<1>. QED BY Invariance, <1>1, PTL

\* MatchOrders() leaves no bid at or above an ask, at any depth of the book.
THEOREM NotCrossedAtRestHolds == Spec => []NotCrossedAtRest
<1>1. IInv => NotCrossedAtRest
  BY DEF IInv, Crossing, Apart, NotCrossedAtRest, AtRest
<1>. QED BY Invariance, <1>1, PTL

\* No fill-and-kill order outlives the call that brought it, or modified it.
THEOREM FillAndKillNeverRestsHolds == Spec => []FillAndKillNeverRests
<1>1. IInv => FillAndKillNeverRests
  BY StateParts DEF IInv, Kills, NoKills, FillAndKillNeverRests, AtRest
<1>. QED BY Invariance, <1>1, PTL

\* A market order rests only on a book whose other side it has emptied.
THEOREM MarketExhaustsOppositeHolds == Spec => []MarketExhaustsOpposite
<1>1. IInv => MarketExhaustsOpposite
  <2>. SUFFICES ASSUME IInv, phase = "done", taker # None, taker.type = "Market",
                       taker.id \in DOMAIN orders, NEW q \in Levels(book, Opposite(taker.side))
                PROVE  FALSE
    BY DEF MarketExhaustsOpposite
  <2>. DEFINE o == orders[taker.id]
  <2>1. o.side = taker.side /\ Reaches(book, taker.side, o.price)
    BY DEF IInv, Marketable
  <2>2. o.side \in Sides /\ o.price \in Levels(book, o.side) /\ o.price \in Prices
    BY StateParts DEF IInv, Sound, Entries, Entry
  <2>3. Apart(book)
    BY DEF IInv, Crossing
  <2>4. Levels(book, Opposite(taker.side)) \subseteq Prices
    BY <2>1, <2>2, TwoSides, StateParts DEF IInv, Sound, FiniteLevels
  <2>5. o.price \in Int /\ q \in Int
    BY <2>2, <2>4
  <2>6. CASE taker.side = "Buy"
    <3>1. o.price < q
      BY <2>1, <2>2, <2>3, <2>6 DEF Apart, Opposite
    <3>2. q <= o.price
      BY <2>1, <2>6 DEF Reaches
    <3>. HIDE DEF o
    <3>. QED BY <2>5, <3>1, <3>2
  <2>7. CASE taker.side = "Sell"
    <3>1. q < o.price
      BY <2>1, <2>2, <2>3, <2>7 DEF Apart, Opposite
    <3>2. o.price <= q
      BY <2>1, <2>7 DEF Reaches
    <3>. HIDE DEF o
    <3>. QED BY <2>5, <3>1, <3>2
  <2>. QED BY <2>1, <2>2, <2>6, <2>7 DEF Sides
<1>. QED BY Invariance, <1>1, PTL

\* Every fill is with the orders that price and then arrival put first, after
\* any history of cancellations and modifications.
THEOREM PriceTimePriorityHolds == Spec => PriceTimePriority
<1>. DEFINE A == Len(trades') > Len(trades) =>
                   \A i \in DOMAIN orders : ~Ahead(i, Last(trades').bid) /\ ~Ahead(i, Last(trades').ask)
<1>1. IInv /\ [Next]_vars => [A]_vars
  <2>. SUFFICES ASSUME IInv, Next, Len(trades') > Len(trades), NEW i \in DOMAIN orders
                PROVE  ~Ahead(i, Last(trades').bid) /\ ~Ahead(i, Last(trades').ask)
    OBVIOUS
  <2>1. Len(trades) \in Nat
    BY DEF IInv, Control
  <2>2. FillFront
    <3>1. \A st, o : Add(st, o) => trades' = <<>>
      BY DEF Add
    <3>2. FillFront \/ trades' = <<>> \/ trades' = trades
      BY <3>1 DEF Next, AddOrder, CancelOrder, ModifyOrder, MatchOrders, Scan, CloseLevel, Return
    <3>. QED BY <2>1, <3>2
  <2>. DEFINE hb == Head(BidQueue)
              ha == Head(AskQueue)
  <2>3. Last(trades').bid = hb /\ Last(trades').ask = ha
    <3>1. PICK filled, quantity : quantity \in 1 .. Wrap - 1 /\ Filling(filled, quantity)
      BY <2>2, FillParts
    <3>. DEFINE t == [bid |-> hb, bidPrice |-> orders[hb].price,
                      ask |-> ha, askPrice |-> orders[ha].price, quantity |-> quantity]
    <3>2. trades' = Append(trades, t)
      BY <3>1 DEF Filling
    <3>3. t.bid = hb /\ t.ask = ha
      OBVIOUS
    <3>. HIDE DEF t
    <3>4. trades \in Seq(Trade \cup {t}) /\ t \in Trade \cup {t}
      BY DEF IInv, Control
    <3>5. Last(trades') = t
      BY <3>2, <3>4, AppendProperties DEF Last
    <3>. QED BY <3>3, <3>5
  <2>4. phase = "level" /\ BidQueue # <<>> /\ AskQueue # <<>>
    BY <2>2 DEF FillFront
  <2>5. /\ orders[i].side \in Sides
        /\ i \in At(State, orders[i].side, orders[i].price)
        /\ orders[i].price \in Levels(book, orders[i].side)
    BY StateParts DEF IInv, Sound, Entries, Entry, At
  <2>6. Irreflexive(older) /\ \A j, k \in DOMAIN orders : <<j, k>> \in older => <<k, j>> \notin older
    BY DEF IInv, Aging, Irreflexive
  <2>7. ASSUME NEW side \in Sides, NEW h, h = Head(book[side][Best(book, side)]),
               book[side][Best(book, side)] # <<>>
        PROVE  ~Ahead(i, h)
    <3>. DEFINE best == Best(book, side)
                q == book[side][best]
    <3>1. /\ side = "Buy" => \A p \in Levels(book, side) : p <= best
          /\ side = "Sell" => \A p \in Levels(book, side) : best <= p
          /\ Levels(book, side) \subseteq Prices /\ best \in Levels(book, side)
          /\ q \in Seq(Ids) /\ ToSet(q) = At(State, side, best) /\ InOrder(q, older)
      BY <2>4, BestQueues
    <3>2. h \in ToSet(q) /\ \A x \in ToSet(q) : x = h \/ <<h, x>> \in older
      BY <2>6, <2>7, <3>1, PoppedInOrder
    <3>3. h \in DOMAIN orders /\ orders[h].side = side /\ orders[h].price = best
      BY <3>1, <3>2, StateParts DEF At
    <3>. HIDE DEF best, q
    <3>4. ASSUME orders[i].side = side PROVE ~Ahead(i, h)
      <4>1. orders[i].price \in Levels(book, side) /\ orders[i].price \in Int /\ best \in Int
        BY <2>5, <3>1, <3>4
      <4>2. ~(orders[i].side = "Buy" /\ orders[i].price > best)
        BY <3>1, <3>4, <4>1
      <4>3. ~(orders[i].side = "Sell" /\ orders[i].price < best)
        BY <3>1, <3>4, <4>1
      <4>4. ASSUME orders[i].price = best, <<i, h>> \in older PROVE FALSE
        <5>1. i \in ToSet(q)
          BY <2>5, <3>1, <3>4, <4>4
        <5>. QED BY <2>6, <3>2, <3>3, <4>4, <5>1 DEF Irreflexive
      <4>. QED BY <3>3, <4>2, <4>3, <4>4 DEF Ahead
    <3>5. ASSUME orders[i].side # side PROVE ~Ahead(i, h)
      BY <3>3, <3>5 DEF Ahead
    <3>. QED BY <3>4, <3>5
  <2>8. ~Ahead(i, hb) /\ ~Ahead(i, ha)
    BY <2>4, <2>7 DEF BidQueue, AskQueue, BestBid, BestAsk, Sides
  <2>. QED BY <2>3, <2>8
<1>. QED BY Invariance, <1>1, PTL DEF PriceTimePriority, Spec

-------------------------------------------------------------------------------
(* Remainders.                                                              *)

LEMMA Division ==
  ASSUME NEW a \in Int
  PROVE  a \div Wrap \in Int /\ a % Wrap \in 0 .. Wrap - 1 /\ a = Wrap * (a \div Wrap) + (a % Wrap)
BY SMT

LEMMA SameRemainder ==
  ASSUME NEW a \in Int, NEW b \in Int, NEW k \in Int, a - b = Wrap * k
  PROVE  a % Wrap = b % Wrap
<1>. DEFINE q == a \div Wrap
            r == b \div Wrap
            d == k - q + r
<1>1. /\ a = Wrap * q + (a % Wrap) /\ b = Wrap * r + (b % Wrap)
      /\ a % Wrap \in 0 .. Wrap - 1 /\ b % Wrap \in 0 .. Wrap - 1
      /\ q \in Int /\ r \in Int
  BY Division
<1>. HIDE DEF q, r
<1>2. d \in Int
  BY <1>1
<1>3. Wrap * d = (a % Wrap) - (b % Wrap)
  <2>1. Wrap * d = Wrap * k - Wrap * q + Wrap * r
    BY <1>1, SMT
  <2>. QED BY <1>1, <2>1
<1>. HIDE DEF d
<1>4. Wrap * d < Wrap /\ Wrap * d > -Wrap
  BY <1>1, <1>3
<1>5. CASE d >= 1
  <2>1. Wrap * d >= Wrap
    BY <1>2, <1>5, SMT
  <2>. QED BY <2>1, <1>2, <1>4
<1>6. CASE d <= -1
  <2>1. Wrap * d <= -Wrap
    BY <1>2, <1>6, SMT
  <2>. QED BY <2>1, <1>2, <1>4
<1>7. CASE d = 0
  <2>1. Wrap * d = 0
    BY <1>7, SMT
  <2>. QED BY <1>1, <1>3, <2>1
<1>. QED BY <1>2, <1>5, <1>6, <1>7

\* Adding to a remainder is adding to the number.
LEMMA RemainderPlus ==
  ASSUME NEW a \in Int, NEW d \in Int
  PROVE  ((a % Wrap) + d) % Wrap = (a + d) % Wrap
<1>. DEFINE q == a \div Wrap
            r == a % Wrap
<1>1. q \in Int /\ r \in Int /\ a = Wrap * q + r
  BY Division
<1>. HIDE DEF q, r
<1>. DEFINE x == a + d
            y == r + d
<1>2. x \in Int /\ y \in Int /\ x - y = Wrap * q
  BY <1>1
<1>. HIDE DEF x, y
<1>3. x % Wrap = y % Wrap
  BY <1>1, <1>2, SameRemainder
<1>. QED BY <1>3 DEF r, x, y

LEMMA SmallRemainder ==
  ASSUME NEW a \in 0 .. Wrap - 1
  PROVE  a % Wrap = a
<1>. DEFINE q == a \div Wrap
            r == a % Wrap
<1>1. q \in Int /\ r \in 0 .. Wrap - 1 /\ a = Wrap * q + r
  BY Division
<1>. HIDE DEF q, r
<1>2. CASE q >= 1
  <2>1. Wrap * q >= Wrap
    BY <1>1, <1>2, SMT
  <2>. QED BY <1>1, <2>1
<1>3. CASE q <= -1
  <2>1. Wrap * q <= -Wrap
    BY <1>1, <1>3, SMT
  <2>. QED BY <1>1, <2>1
<1>4. CASE q = 0
  BY <1>1, <1>4 DEF r
<1>. QED BY <1>1, <1>2, <1>3, <1>4

\* A remainder is no more than the number.
LEMMA RemainderAtMost ==
  ASSUME NEW a \in Nat
  PROVE  a % Wrap \in Nat /\ a % Wrap <= a
<1>. DEFINE q == a \div Wrap
            r == a % Wrap
<1>1. q \in Int /\ r \in 0 .. Wrap - 1 /\ a = Wrap * q + r
  BY Division
<1>. HIDE DEF q, r
<1>2. CASE q <= -1
  <2>1. Wrap * q <= -Wrap
    BY <1>1, <1>2, SMT
  <2>. QED BY <1>1, <2>1
<1>3. CASE q >= 0
  <2>1. Wrap * q >= 0
    BY <1>1, <1>3, SMT
  <2>. QED BY <1>1, <2>1 DEF r
<1>. QED BY <1>1, <1>2, <1>3

-------------------------------------------------------------------------------
(* The summaries.                                                           *)

\* The summary of the price p is that of count orders with the quantity total.
Summed(ld, p, total, count) ==
  IF count = 0 THEN p \notin DOMAIN ld
  ELSE p \in DOMAIN ld /\ ld[p] = [quantity |-> total % Wrap, count |-> count]

LEMMA SummaryUpdated ==
  ASSUME NEW ld, NEW p, NEW total \in Nat, NEW count \in 0 .. Wrap - 1,
         Summed(ld, p, total, count), count = 0 => total = 0,
         NEW dq \in Int, NEW dc \in Int, count + dc \in 0 .. Wrap - 1
  PROVE  /\ Summed(UpdateLevelData(ld, p, dq, dc), p, total + dq, count + dc)
         /\ \A r, t, c : r # p => (Summed(UpdateLevelData(ld, p, dq, dc), r, t, c) <=> Summed(ld, r, t, c))
<1>. DEFINE old == IF p \in DOMAIN ld THEN ld[p] ELSE [quantity |-> 0, count |-> 0]
            new == [quantity |-> (old.quantity + dq) % Wrap, count |-> (old.count + dc) % Wrap]
            up == UpdateLevelData(ld, p, dq, dc)
<1>1. up = IF new.count = 0 THEN Drop(ld, p) ELSE Put(ld, p, new)
  BY DEF UpdateLevelData
<1>2. old.count = count /\ old.quantity = total % Wrap
  <2>1. CASE count = 0
    <3>1. 0 % Wrap = 0
      BY SmallRemainder
    <3>. QED BY <2>1, <3>1 DEF Summed
  <2>2. CASE count # 0
    BY <2>2 DEF Summed
  <2>. QED BY <2>1, <2>2
<1>. HIDE DEF old
<1>3. new.count = count + dc /\ new.quantity = (total + dq) % Wrap
  <2>1. new.count = (count + dc) % Wrap /\ new.quantity = ((total % Wrap) + dq) % Wrap
    BY <1>2
  <2>. HIDE DEF new
  <2>2. (count + dc) % Wrap = count + dc
    BY SmallRemainder
  <2>3. ((total % Wrap) + dq) % Wrap = (total + dq) % Wrap
    <3>1. total \in Int
      OBVIOUS
    <3>. QED BY <3>1, RemainderPlus
  <2>. QED BY <2>1, <2>2, <2>3
<1>4. new = [quantity |-> (total + dq) % Wrap, count |-> count + dc]
  BY <1>3
<1>. HIDE DEF new, up
<1>5. CASE count + dc = 0
  <2>1. up = Drop(ld, p)
    BY <1>1, <1>3, <1>5
  <2>2. DOMAIN up = DOMAIN ld \ {p} /\ \A r \in DOMAIN up : up[r] = ld[r]
    BY <2>1 DEF Drop
  <2>3. Summed(up, p, total + dq, count + dc)
    BY <1>5, <2>2 DEF Summed
  <2>4. \A r, t, c : r # p => (Summed(up, r, t, c) <=> Summed(ld, r, t, c))
    BY <2>2 DEF Summed
  <2>. QED BY <2>3, <2>4 DEF up
<1>6. CASE count + dc # 0
  <2>1. up = Put(ld, p, new)
    BY <1>1, <1>3, <1>6
  <2>2. DOMAIN up = DOMAIN ld \cup {p} /\ \A r \in DOMAIN up : up[r] = IF r = p THEN new ELSE ld[r]
    BY <2>1 DEF Put
  <2>3. Summed(up, p, total + dq, count + dc)
    BY <1>4, <1>6, <2>2 DEF Summed
  <2>4. \A r, t, c : r # p => (Summed(up, r, t, c) <=> Summed(ld, r, t, c))
    BY <2>2 DEF Summed
  <2>. QED BY <2>3, <2>4 DEF up
<1>. QED BY <1>5, <1>6

\* What is left to fill of each order, and the orders of one price.
Left(st) == [i \in DOMAIN st.orders |-> st.orders[i].remaining]
Priced(st, p) == {i \in DOMAIN st.orders : st.orders[i].price = p}
Total(st, p) == SumFunctionOnSet(Left(st), Priced(st, p))

\* levelData_ is exact.
Exact(st) == \A p \in Prices : Summed(st.levelData, p, Total(st, p), Cardinality(Priced(st, p)))

\* The orders of the index are fewer than a count can count.
Few(st) == IsFiniteSet(DOMAIN st.orders) /\ Cardinality(DOMAIN st.orders) < Wrap
FewRest == Cardinality(DOMAIN orders) < Wrap

\* All that is needed of an index to sum over it.
Countable(st) == Few(st) /\ \A i \in DOMAIN st.orders : st.orders[i].remaining \in Nat

LEMMA SoundCountable == ASSUME NEW st, NEW old, Sound(st, old), Few(st) PROVE Countable(st)
<1>1. \A i \in DOMAIN st.orders : st.orders[i] \in Entry
  BY DEF Sound, Entries
<1>. QED BY <1>1 DEF Entry, Countable

LEMMA FewerStill ==
  ASSUME NEW st, NEW w, Few(st), DOMAIN w.orders \subseteq DOMAIN st.orders
  PROVE  Few(w)
<1>1. /\ IsFiniteSet(DOMAIN w.orders)
      /\ Cardinality(DOMAIN w.orders) <= Cardinality(DOMAIN st.orders)
      /\ Cardinality(DOMAIN w.orders) \in Nat /\ Cardinality(DOMAIN st.orders) \in Nat
  BY FS_Subset, FS_CardinalityType DEF Few
<1>. QED BY <1>1 DEF Few

LEMMA PricedParts ==
  ASSUME NEW st, Countable(st), NEW p
  PROVE  /\ IsFiniteSet(Priced(st, p)) /\ Cardinality(Priced(st, p)) \in 0 .. Wrap - 1
         /\ Cardinality(Priced(st, p)) = 0 <=> Priced(st, p) = {}
         /\ \A i \in Priced(st, p) : Left(st)[i] \in Nat
         /\ Total(st, p) \in Nat
         /\ Cardinality(Priced(st, p)) = 0 => Total(st, p) = 0
<1>. DEFINE S == Priced(st, p)
            D == DOMAIN st.orders
<1>1. S \subseteq D /\ (\A i \in S : Left(st)[i] \in Nat) /\ IsFiniteSet(D) /\ Cardinality(D) < Wrap
  BY DEF Priced, Left, Countable, Few
<1>. HIDE DEF S, D
<1>2. IsFiniteSet(S) /\ Cardinality(S) <= Cardinality(D) /\ Cardinality(S) \in Nat
      /\ Cardinality(D) \in Nat
  BY <1>1, FS_Subset, FS_CardinalityType
<1>3. Cardinality(S) \in 0 .. Wrap - 1
  BY <1>1, <1>2
<1>4. Cardinality(S) = 0 <=> S = {}
  BY <1>2, FS_EmptySet
<1>5. Total(st, p) \in Nat
  BY <1>1, <1>2, SumNat DEF Total, S
<1>6. S = {} => Total(st, p) = 0
  BY SumEmpty DEF Total, S
<1>. QED BY <1>1, <1>2, <1>3, <1>4, <1>5, <1>6 DEF S

\* An update of levelData_ that follows the index at one price.
LEMMA ExactMoved ==
  ASSUME NEW st, Countable(st), Exact(st), NEW w, Countable(w),
         NEW p \in Prices, NEW dq \in Int, NEW dc \in Int,
         w.levelData = UpdateLevelData(st.levelData, p, dq, dc),
         Total(w, p) = Total(st, p) + dq,
         Cardinality(Priced(w, p)) = Cardinality(Priced(st, p)) + dc,
         \A r : r # p => Priced(w, r) = Priced(st, r),
         \A i \in DOMAIN w.orders : w.orders[i].price # p => w.orders[i] = st.orders[i]
  PROVE  Exact(w)
<1>1. ASSUME NEW r \in Prices, r # p
      PROVE  Total(w, r) = Total(st, r)
  <2>. DEFINE S == Priced(st, r)
              f == Left(st)
              g == Left(w)
  <2>1. S = Priced(w, r)
    BY <1>1
  <2>2. IsFiniteSet(S) /\ \A i \in S : f[i] \in Nat
    BY PricedParts
  <2>3. \A i \in S : g[i] = f[i]
    <3>. SUFFICES ASSUME NEW i \in S PROVE g[i] = f[i]
      OBVIOUS
    <3>1. i \in DOMAIN st.orders /\ i \in DOMAIN w.orders /\ w.orders[i].price = r
      BY <2>1 DEF Priced
    <3>2. w.orders[i] = st.orders[i]
      BY <1>1, <3>1
    <3>. QED BY <3>1, <3>2 DEF Left
  <2>. HIDE DEF f, g, S
  <2>4. SumFunctionOnSet(g, S) = SumFunctionOnSet(f, S)
    BY <2>2, <2>3, SumSame
  <2>. QED BY <2>1, <2>4 DEF f, g, S, Total
<1>. DEFINE ld == st.levelData
            up == UpdateLevelData(ld, p, dq, dc)
            total == Total(st, p)
            count == Cardinality(Priced(st, p))
<1>2. total \in Nat /\ count \in 0 .. Wrap - 1 /\ (count = 0 => total = 0)
  BY PricedParts
<1>3. count + dc \in 0 .. Wrap - 1
  <2>1. Cardinality(Priced(w, p)) \in 0 .. Wrap - 1
    BY PricedParts
  <2>. QED BY <2>1
<1>4. Summed(ld, p, total, count)
  BY DEF Exact
<1>5. /\ Summed(up, p, total + dq, count + dc)
      /\ \A r, t, c : r # p => (Summed(up, r, t, c) <=> Summed(ld, r, t, c))
  <2>. HIDE DEF ld, total, count
  <2>. QED BY <1>2, <1>3, <1>4, SummaryUpdated
<1>6. w.levelData = up
  OBVIOUS
<1>. HIDE DEF up
<1>7. ASSUME NEW r \in Prices
      PROVE  Summed(up, r, Total(w, r), Cardinality(Priced(w, r)))
  <2>1. CASE r = p
    BY <1>5, <2>1
  <2>2. CASE r # p
    <3>1. Summed(ld, r, Total(st, r), Cardinality(Priced(st, r)))
      BY DEF Exact
    <3>2. Total(w, r) = Total(st, r) /\ Priced(w, r) = Priced(st, r)
      BY <1>1, <2>2
    <3>. HIDE DEF ld
    <3>. QED BY <1>5, <2>2, <3>1, <3>2
  <2>. QED BY <2>1, <2>2
<1>. QED BY <1>6, <1>7 DEF Exact

\* OnOrderAdded().
LEMMA ExactWithOrder ==
  ASSUME NEW st, NEW old, Sound(st, old), Exact(st),
         NEW o \in Entry, o.id \notin DOMAIN st.orders, o.remaining = o.initial,
         Few(WithOrder(st, o))
  PROVE  Exact(WithOrder(st, o))
<1>. DEFINE w == WithOrder(st, o)
            p == o.price
            S == Priced(st, p)
<1>0. Few(w)
  OBVIOUS
<1>1. /\ DOMAIN w.orders = DOMAIN st.orders \cup {o.id}
      /\ w.orders[o.id] = o
      /\ \A i \in DOMAIN st.orders : w.orders[i] = st.orders[i]
  <2>1. Inserted(st, w, o)
    BY WithOrderSound
  <2>. HIDE DEF w
  <2>. QED BY <2>1 DEF Inserted
<1>2. w.levelData = UpdateLevelData(st.levelData, p, o.initial, 1)
  BY DEF WithOrder
<1>3. o.id \in Ids /\ p \in Prices /\ o.remaining \in Nat /\ o.initial \in Nat
  BY DEF Entry
<1>. HIDE DEF w
<1>4. Countable(st) /\ Countable(w)
  <2>1. Countable(st)
    BY <1>0, <1>1, FewerStill, SoundCountable
  <2>. QED BY <1>0, <1>1, <1>3, <2>1 DEF Countable
<1>5. /\ Priced(w, p) = S \cup {o.id} /\ o.id \notin S
      /\ \A r : r # p => Priced(w, r) = Priced(st, r)
  BY <1>1 DEF Priced
<1>6. /\ IsFiniteSet(S) /\ Cardinality(S) \in Nat
      /\ \A i \in S : Left(st)[i] \in Nat
  BY <1>4, PricedParts
<1>7. Cardinality(Priced(w, p)) = Cardinality(S) + 1
  <2>. HIDE DEF S
  <2>. QED BY <1>5, <1>6, FS_AddElement
<1>8. Total(w, p) = Total(st, p) + o.initial
  <2>. DEFINE f == Left(st)
              g == Left(w)
              id == o.id
  <2>1. g[id] = o.initial
    BY <1>1 DEF Left
  <2>2. \A i \in S : g[i] = f[i] /\ f[i] \in Nat
    BY <1>1, <1>6 DEF Left, Priced
  <2>. HIDE DEF f, g, S, id
  <2>3. SumFunctionOnSet(g, S) = SumFunctionOnSet(f, S)
    BY <1>6, <2>2, SumSame
  <2>4. SumFunctionOnSet(g, S \cup {id}) = SumFunctionOnSet(g, S) + g[id]
    <3>1. \A i \in S \cup {id} : g[i] \in Nat
      BY <1>3, <2>1, <2>2
    <3>2. id \notin S
      BY <1>5 DEF id
    <3>. QED BY <1>6, <3>1, <3>2, SumOneMore
  <2>. QED BY <1>5, <2>1, <2>3, <2>4 DEF f, g, S, id, Total
<1>9. \A i \in DOMAIN w.orders : w.orders[i].price # p => w.orders[i] = st.orders[i]
  BY <1>1
<1>. DEFINE dq == o.initial
            dc == 1
<1>10. /\ p \in Prices /\ dq \in Int /\ dc \in Int
       /\ w.levelData = UpdateLevelData(st.levelData, p, dq, dc)
       /\ Total(w, p) = Total(st, p) + dq
       /\ Cardinality(Priced(w, p)) = Cardinality(Priced(st, p)) + dc
       /\ \A r : r # p => Priced(w, r) = Priced(st, r)
  BY <1>2, <1>3, <1>5, <1>7, <1>8
<1>. HIDE DEF p, dq, dc
<1>11. Exact(w)
  BY <1>4, <1>9, <1>10, ExactMoved
<1>. QED BY <1>11 DEF w

\* w is st with d taken from what is left of the order id, which goes if that is
\* all, and with the summary of its price told so.
Less(st, w, id, d) ==
  /\ DOMAIN w.orders \subseteq DOMAIN st.orders /\ DOMAIN st.orders \ {id} \subseteq DOMAIN w.orders
  /\ \A i \in DOMAIN w.orders \ {id} : w.orders[i] = st.orders[i]
  /\ id \in DOMAIN w.orders =>
       w.orders[id].price = st.orders[id].price /\ w.orders[id].remaining = st.orders[id].remaining - d
  /\ id \notin DOMAIN w.orders => d = st.orders[id].remaining
  /\ w.levelData = UpdateLevelData(st.levelData, st.orders[id].price, -d,
                                   IF id \in DOMAIN w.orders THEN 0 ELSE -1)

\* OnOrderCancelled(), and each of the two calls of OnOrderMatched().
LEMMA ExactLess ==
  ASSUME NEW st, Countable(st), Exact(st), NEW w, Countable(w),
         NEW id \in DOMAIN st.orders, st.orders[id].price \in Prices,
         NEW d \in Int, Less(st, w, id, d)
  PROVE  Exact(w)
<1>. DEFINE p == st.orders[id].price
            S == Priced(st, p)
            T == Priced(w, p)
            dc == IF id \in DOMAIN w.orders THEN 0 ELSE -1
            dq == -d
<1>1. /\ id \in S /\ T = IF id \in DOMAIN w.orders THEN S ELSE S \ {id}
      /\ \A r : r # p => Priced(w, r) = Priced(st, r)
  BY DEF Priced, Less
<1>2. /\ IsFiniteSet(S) /\ Cardinality(S) \in Nat
      /\ \A i \in S : Left(st)[i] \in Nat
  BY PricedParts
<1>3. Cardinality(T) = Cardinality(S) + dc
  <2>. HIDE DEF S, T
  <2>1. CASE id \in DOMAIN w.orders
    BY <1>1, <1>2, <2>1
  <2>2. CASE id \notin DOMAIN w.orders
    BY <1>1, <1>2, <2>2, FS_RemoveElement
  <2>. QED BY <2>1, <2>2
<1>4. Total(w, p) = Total(st, p) - d
  <2>. DEFINE f == Left(st)
              g == Left(w)
  <2>1. \A i \in S \ {id} : g[i] = f[i]
    BY DEF Less, Left, Priced
  <2>2. /\ id \in T => g[id] \in Nat /\ g[id] = f[id] - d
        /\ id \notin T => d = f[id]
    BY <1>1 DEF Less, Left, Priced, Countable
  <2>3. T = S \/ T = S \ {id}
    BY <1>1
  <2>. HIDE DEF f, g, S, T
  <2>4. \A i \in S : f[i] \in Nat
    BY <1>2 DEF f
  <2>5. SumFunctionOnSet(g, T) = SumFunctionOnSet(f, S) - d
    BY <1>1, <1>2, <2>1, <2>2, <2>3, <2>4, SumTaken
  <2>. QED BY <2>5 DEF f, g, S, T, Total
<1>5. /\ w.levelData = UpdateLevelData(st.levelData, p, dq, dc)
      /\ \A i \in DOMAIN w.orders : w.orders[i].price # p => w.orders[i] = st.orders[i]
  BY DEF Less
<1>6. Total(w, p) = Total(st, p) + dq
  <2>1. Total(st, p) \in Nat
    BY PricedParts
  <2>. HIDE DEF p
  <2>. QED BY <1>4, <2>1
<1>7. dq \in Int /\ dc \in Int /\ p \in Prices
  OBVIOUS
<1>8. /\ Cardinality(Priced(w, p)) = Cardinality(Priced(st, p)) + dc
      /\ \A r : r # p => Priced(w, r) = Priced(st, r)
  BY <1>1, <1>3
<1>. HIDE DEF p, dq, dc, S, T
<1>. QED BY <1>5, <1>6, <1>7, <1>8, ExactMoved

LEMMA ExactWithoutOrder ==
  ASSUME NEW st, NEW old, Sound(st, old), Irreflexive(old), Exact(st), Few(st),
         NEW id \in DOMAIN st.orders
  PROVE  Exact(WithoutOrder(st, id))
<1>. DEFINE w == WithoutOrder(st, id)
            d == st.orders[id].remaining
<1>1. /\ Sound(w, old)
      /\ DOMAIN w.orders = DOMAIN st.orders \ {id}
      /\ \A i \in DOMAIN w.orders : w.orders[i] = st.orders[i]
  <2>1. Sound(w, old) /\ Removed(st, w, id)
    BY WithoutOrderSound
  <2>. HIDE DEF w
  <2>. QED BY <2>1 DEF Removed
<1>2. w.levelData = UpdateLevelData(st.levelData, st.orders[id].price, -d, -1)
  BY DEF WithoutOrder
<1>. HIDE DEF w
<1>3. st.orders[id].price \in Prices /\ d \in Int
  <2>1. st.orders[id] \in Entry
    BY DEF Sound, Entries
  <2>. QED BY <2>1 DEF Entry
<1>4. Countable(st) /\ Countable(w)
  <2>1. Few(w)
    BY <1>1, FewerStill
  <2>. QED BY <1>1, <2>1, SoundCountable
<1>5. Less(st, w, id, d)
  BY <1>1, <1>2 DEF Less
<1>. HIDE DEF d
<1>6. Exact(w)
  BY <1>3, <1>4, <1>5, ExactLess
<1>. QED BY <1>6 DEF w

\* An empty level has no summary to lose, if no order of the other side is there.
LEMMA ExactCloseSide ==
  ASSUME NEW st, NEW old, Sound(st, old), Exact(st), NEW side \in Sides,
         LET best == Best(st.book, side)
         IN Levels(st.book, side) # {} /\ st.book[side][best] = <<>> => Priced(st, best) = {}
  PROVE  Exact(CloseSide(st, side))
<1>. DEFINE w == CloseSide(st, side)
            best == Best(st.book, side)
<1>1. CASE ~(Levels(st.book, side) # {} /\ st.book[side][best] = <<>>)
  BY <1>1 DEF CloseSide
<1>2. CASE Levels(st.book, side) # {} /\ st.book[side][best] = <<>>
  <2>1. w = [st EXCEPT !.book[side] = Drop(@, best), !.levelData = Drop(@, best)]
    BY <1>2 DEF CloseSide
  <2>2. st = [book |-> st.book, orders |-> st.orders, levelData |-> st.levelData]
    BY DEF Sound, Shaped
  <2>3. w.orders = st.orders /\ w.levelData = Drop(st.levelData, best)
    BY <2>1, <2>2
  <2>4. \A p : /\ Total(w, p) = Total(st, p) /\ Priced(w, p) = Priced(st, p)
    BY <2>3 DEF Total, Left, Priced
  <2>5. Cardinality(Priced(st, best)) = 0
    BY <1>2, FS_EmptySet
  <2>. HIDE DEF best, w
  <2>6. /\ DOMAIN w.levelData = DOMAIN st.levelData \ {best}
        /\ \A p \in DOMAIN w.levelData : w.levelData[p] = st.levelData[p]
    BY <2>3 DEF Drop
  <2>7. ASSUME NEW p \in Prices
        PROVE  Summed(w.levelData, p, Total(w, p), Cardinality(Priced(w, p)))
    <3>1. Summed(st.levelData, p, Total(st, p), Cardinality(Priced(st, p)))
      BY DEF Exact
    <3>2. CASE p = best
      BY <2>4, <2>5, <2>6, <3>2 DEF Summed
    <3>3. CASE p # best
      BY <2>4, <2>6, <3>1, <3>3 DEF Summed
    <3>. QED BY <3>2, <3>3
  <2>8. Exact(w)
    BY <2>7 DEF Exact
  <2>. QED BY <2>8 DEF w
<1>. QED BY <1>1, <1>2

\* A turn of the inner loop.
LEMMA FillExact ==
  ASSUME Few(State), IInv, FillFront, Exact(State)
  PROVE  Exact(State')
<1>. DEFINE hb == Head(BidQueue)
            ha == Head(AskQueue)
<1>1. PICK filled, quantity : quantity \in 1 .. Wrap - 1 /\ Filling(filled, quantity)
  BY FillParts
<1>2. /\ filled \subseteq {hb, ha} /\ hb # ha
      /\ \A i \in {hb, ha} : /\ i \in DOMAIN orders /\ orders[i].price \in Prices
                             /\ orders[i] \in Entry /\ orders[i].remaining \in 1 .. Wrap - 1
                             /\ quantity <= orders[i].remaining
      /\ \A i \in filled : quantity = orders[i].remaining
      /\ DOMAIN orders' = DOMAIN orders \ filled
      /\ \A i \in DOMAIN orders' :
           orders'[i] = IF i \in {hb, ha} THEN [orders[i] EXCEPT !.remaining = @ - quantity]
                                          ELSE orders[i]
      /\ levelData' = UpdateLevelData(
                        UpdateLevelData(levelData, orders[hb].price, -quantity, Gone(hb, filled)),
                        orders[ha].price, -quantity, Gone(ha, filled))
  BY <1>1, FrontOrders DEF Filling, Entry
<1>. DEFINE bid == [orders[hb] EXCEPT !.remaining = @ - quantity]
            mid == [book |-> book,
                    orders |-> [i \in DOMAIN orders \ (filled \cap {hb}) |->
                                  IF i = hb THEN bid ELSE orders[i]],
                    levelData |-> UpdateLevelData(levelData, orders[hb].price, -quantity,
                                                  Gone(hb, filled))]
<1>. HIDE DEF hb, ha
<1>3. /\ bid.price = orders[hb].price /\ bid.remaining = orders[hb].remaining - quantity
      /\ bid.remaining \in Nat
  <2>1. bid.price = orders[hb].price /\ bid.remaining = orders[hb].remaining - quantity
    BY <1>2 DEF Entry
  <2>2. orders[hb].remaining \in Nat /\ quantity \in Nat /\ quantity <= orders[hb].remaining
    BY <1>1, <1>2
  <2>. HIDE DEF bid
  <2>. QED BY <2>1, <2>2
<1>. HIDE DEF bid
<1>4. /\ DOMAIN mid.orders = DOMAIN orders \ (filled \cap {hb})
      /\ \A i \in DOMAIN mid.orders : mid.orders[i] = IF i = hb THEN bid ELSE orders[i]
      /\ mid.levelData = UpdateLevelData(levelData, orders[hb].price, -quantity, Gone(hb, filled))
  OBVIOUS
<1>. HIDE DEF mid
<1>5. Countable(State) /\ Countable(State')
  <2>1. Sound(State, older)
    BY DEF IInv
  <2>2. Sound(State', older')
    BY FillStep DEF IInv
  <2>. DEFINE w == State'
  <2>3. DOMAIN w.orders \subseteq DOMAIN State.orders
    BY <1>2, StateParts
  <2>. HIDE DEF w
  <2>4. Few(w)
    BY <2>3, FewerStill
  <2>. QED BY <2>1, <2>2, <2>4, SoundCountable DEF w
<1>6. Countable(mid)
  <2>1. Few(mid)
    BY <1>4, StateParts, FewerStill
  <2>. QED BY <1>3, <1>4, <1>5, <2>1, StateParts DEF Countable
<1>7. Less(State, mid, hb, quantity)
  <2>1. Gone(hb, filled) = IF hb \in DOMAIN mid.orders THEN 0 ELSE -1
    BY <1>2, <1>4 DEF Gone
  <2>. QED BY <1>2, <1>3, <1>4, <2>1, StateParts DEF Less
<1>8. Less(mid, State', ha, quantity)
  <2>1. /\ mid.orders[ha] = orders[ha] /\ ha \in DOMAIN mid.orders
    BY <1>2, <1>4
  <2>2. ha \in DOMAIN orders' =>
          orders'[ha].price = orders[ha].price /\ orders'[ha].remaining = orders[ha].remaining - quantity
    BY <1>2 DEF Entry
  <2>3. Gone(ha, filled) = IF ha \in DOMAIN orders' THEN 0 ELSE -1
    BY <1>2 DEF Gone
  <2>4. /\ DOMAIN orders' \subseteq DOMAIN mid.orders /\ DOMAIN mid.orders \ {ha} \subseteq DOMAIN orders'
        /\ ha \notin DOMAIN orders' => quantity = orders[ha].remaining
    BY <1>2, <1>4
  <2>5. \A i \in DOMAIN orders' \ {ha} : orders'[i] = mid.orders[i]
    BY <1>2, <1>4, <2>4 DEF bid
  <2>6. levelData' = UpdateLevelData(mid.levelData, orders[ha].price, -quantity,
                                     IF ha \in DOMAIN orders' THEN 0 ELSE -1)
    BY <1>2, <1>4, <2>3
  <2>. QED BY <2>1, <2>2, <2>4, <2>5, <2>6, StateParts DEF Less
<1>9. quantity \in Int
  BY <1>1
<1>10. Exact(mid)
  BY <1>2, <1>5, <1>6, <1>7, <1>9, StateParts, ExactLess
<1>11. ha \in DOMAIN mid.orders /\ mid.orders[ha].price \in Prices
  BY <1>2, <1>4
<1>. DEFINE w == State'
<1>12. Countable(w) /\ Less(mid, w, ha, quantity)
  BY <1>5, <1>8
<1>. HIDE DEF w
<1>13. Exact(w)
  BY <1>6, <1>9, <1>10, <1>11, <1>12, ExactLess
<1>. QED BY <1>13 DEF w

\* A fill-and-kill order that is cancelled.
LEMMA KillExact ==
  ASSUME NEW st, NEW old, Sound(st, old), Irreflexive(old), NoneEmpty(st), Exact(st), Few(st),
         NEW side \in Sides
  PROVE  Exact(KillFront(st, side))
<1>. DEFINE best == Best(st.book, side)
            front == Head(st.book[side][best])
<1>1. CASE Levels(st.book, side) # {}
  <2>1. best \in Levels(st.book, side)
    BY <1>1, Extremes DEF Sound, FiniteLevels
  <2>2. /\ st.book[side][best] \in Seq(Ids) /\ st.book[side][best] # <<>>
        /\ ToSet(st.book[side][best]) = At(st, side, best)
        /\ InOrder(st.book[side][best], old)
    BY <2>1 DEF Sound, Queued, NoneEmpty
  <2>3. front \in ToSet(st.book[side][best])
    BY <2>2, PoppedInOrder
  <2>4. front \in DOMAIN st.orders
    BY <2>2, <2>3 DEF At
  <2>. HIDE DEF front, best
  <2>5. Exact(WithoutOrder(st, front))
    BY <2>4, ExactWithoutOrder
  <2>. QED BY <2>5 DEF KillFront, front, best
<1>2. CASE Levels(st.book, side) = {}
  BY <1>2 DEF KillFront
<1>. QED BY <1>1, <1>2

\* What follows the inner loop, if no level is closed at a price of the other side.
LEMMA CloseExact ==
  ASSUME Few(State), IInv, CloseLevel, Exact(State), \A side \in Sides : ~Collides(side)
  PROVE  Exact(State')
<1>1. phase = "level" /\ Becomes(KilledBook) /\ "Buy" \in Sides /\ "Sell" \in Sides
  BY DEF CloseLevel, KilledBook, ClosedBook, Sides
<1>2. ASSUME NEW side \in Sides, book[side][Best(book, side)] = <<>>
      PROVE  Priced(State, Best(book, side)) = {}
  <2>. DEFINE p == Best(book, side)
              other == Opposite(side)
  <2>1. SUFFICES ASSUME NEW i \in Priced(State, p) PROVE FALSE
    OBVIOUS
  <2>2. /\ i \in DOMAIN orders /\ orders[i].price = p
        /\ orders[i].side \in Sides /\ p \in Levels(book, orders[i].side)
    BY StateParts DEF Priced, IInv, Sound, Entries, Entry
  <2>3. book[orders[i].side][p] # <<>>
    <3>1. ToSet(book[orders[i].side][p]) = At(State, orders[i].side, p)
      BY <2>2, StateParts DEF IInv, Sound, Queued
    <3>2. i \in At(State, orders[i].side, p)
      BY <2>2, StateParts DEF At
    <3>. QED BY <3>1, <3>2 DEF ToSet
  <2>4. orders[i].side = side \/ orders[i].side = other
    BY <2>2, TwoSides
  <2>. QED BY <1>2, <2>2, <2>3, <2>4 DEF Collides
<1>. DEFINE one == CloseSide(State, "Buy")
<1>3. Sound(State, older) /\ Irreflexive(older)
  BY DEF IInv, Aging, Irreflexive
<1>4. Exact(one)
  <2>1. Levels(State.book, "Buy") # {} /\ State.book["Buy"][Best(State.book, "Buy")] = <<>>
          => Priced(State, Best(State.book, "Buy")) = {}
    BY <1>1, <1>2, StateParts
  <2>. QED BY <1>1, <1>3, <2>1, ExactCloseSide
<1>5. Sound(one, older) /\ one.orders = orders /\ one.book["Sell"] = book["Sell"]
  <2>1. Sound(one, older) /\ Closed(State, one, "Buy")
    BY <1>1, <1>3, CloseSideSound
  <2>. HIDE DEF one
  <2>. QED BY <1>1, <2>1, StateParts DEF Closed
<1>. HIDE DEF one
<1>6. Exact(ClosedBook)
  <2>1. Best(one.book, "Sell") = Best(book, "Sell")
    BY <1>5 DEF Best, Levels
  <2>2. one.book["Sell"][Best(one.book, "Sell")] = <<>> => Priced(one, Best(one.book, "Sell")) = {}
    <3>1. \A p : Priced(one, p) = Priced(State, p)
      BY <1>5, StateParts DEF Priced
    <3>. QED BY <1>1, <1>2, <1>5, <2>1, <3>1
  <2>3. Exact(CloseSide(one, "Sell"))
    BY <1>1, <1>4, <1>5, <2>2, ExactCloseSide
  <2>. QED BY <2>3 DEF ClosedBook, one
<1>. DEFINE three == KillFront(ClosedBook, "Buy")
<1>7. Sound(ClosedBook, older) /\ NoneEmpty(ClosedBook) /\ KillsInFront(ClosedBook)
      /\ Few(ClosedBook)
  <2>1. ClosedBook.orders = orders
    BY <1>1, LevelsClosed
  <2>. QED BY <1>1, <2>1, LevelsClosed, StateParts, FewerStill
<1>8. Sound(three, older) /\ NoneEmpty(three) /\ Few(three)
  <2>1. Sound(three, older) /\ NoneEmpty(three) /\ DOMAIN three.orders \subseteq DOMAIN ClosedBook.orders
    BY <1>1, <1>3, <1>7, KillFrontSound
  <2>. HIDE DEF three
  <2>. QED BY <1>7, <2>1, FewerStill
<1>9. Exact(three)
  BY <1>1, <1>3, <1>6, <1>7, KillExact
<1>. HIDE DEF three
<1>10. Exact(KillFront(three, "Sell"))
  BY <1>1, <1>3, <1>8, <1>9, KillExact
<1>11. Sound(KilledBook, older)
  BY <1>1, FrontKilled
<1>12. State' = KilledBook
  BY <1>1, <1>11, StateBecomes DEF Sound
<1>. QED BY <1>10, <1>12 DEF KilledBook, three

\* AddOrder() on a sound and exact book.
LEMMA AddExact ==
  ASSUME NEW st, NEW old, Sound(st, old), Exact(st), Few(State'),
         NEW o \in OrderRecord, o.remaining = o.initial, o.type # "Market" => o.price \in Prices,
         Add(st, o)
  PROVE  Exact(State')
<1>1. CASE Refused(st, o)
  <2>1. Becomes(st) /\ Shaped(st)
    BY <1>1 DEF Add, Sound
  <2>2. State' = st
    BY <2>1, StateBecomes
  <2>. QED BY <2>2
<1>2. CASE ~Refused(st, o)
  <2>. DEFINE g == ToGoodTillCancel(st.book, o)
  <2>1. g \in Entry /\ g.id = o.id
    BY <1>2, GoodTillCancelEntry
  <2>2. g.remaining = g.initial
    BY DEF ToGoodTillCancel, OrderRecord
  <2>3. g.id \notin DOMAIN st.orders /\ Becomes(WithOrder(st, g))
    BY <1>2, <2>1 DEF Refused, Add
  <2>. HIDE DEF g
  <2>. DEFINE w == WithOrder(st, g)
  <2>4. Shaped(w) /\ Becomes(w)
    <3>1. Sound(w, old \cup ((DOMAIN st.orders) \X {g.id}))
      BY <2>1, <2>3, WithOrderSound
    <3>. QED BY <2>3, <3>1 DEF Sound
  <2>. HIDE DEF w
  <2>5. State' = w
    BY <2>4, StateBecomes
  <2>6. Exact(w)
    <3>1. Few(w)
      BY <2>5
    <3>. QED BY <2>1, <2>2, <2>3, <3>1, ExactWithOrder DEF w
  <2>. QED BY <2>5, <2>6
<1>. QED BY <1>1, <1>2

-------------------------------------------------------------------------------
(* What a call trades.                                                      *)

Amounts(tr) == [n \in DOMAIN tr |-> tr[n].quantity]
With(tr, i) == {n \in DOMAIN tr : i \in {tr[n].bid, tr[n].ask}}
TradedIn(tr, i) == SumFunctionOnSet(Amounts(tr), With(tr, i))

LEMMA TradedParts ==
  /\ \A i : Traded(i) = TradedIn(trades, i)
  /\ \A i : TradedIn(<<>>, i) = 0
<1>1. \A i : Traded(i) = TradedIn(trades, i)
  BY DEF Traded, TradedIn, Amounts, With
<1>2. \A i : With(<<>>, i) = {}
  BY DEF With
<1>. QED BY <1>1, <1>2, SumEmpty DEF TradedIn

LEMMA TradedNat ==
  ASSUME NEW tr \in Seq(Trade), NEW i
  PROVE  IsFiniteSet(With(tr, i)) /\ TradedIn(tr, i) \in Nat
<1>. DEFINE S == With(tr, i)
            f == Amounts(tr)
<1>1. DOMAIN tr = 1 .. Len(tr) /\ Len(tr) \in Nat
  OBVIOUS
<1>2. IsFiniteSet(S)
  <2>1. IsFiniteSet(1 .. Len(tr))
    BY <1>1, FS_Interval
  <2>2. S \subseteq 1 .. Len(tr)
    BY <1>1 DEF With
  <2>. QED BY <2>1, <2>2, FS_Subset
<1>3. \A n \in S : f[n] \in Nat
  <2>1. \A n \in DOMAIN tr : tr[n] \in Trade
    OBVIOUS
  <2>. QED BY <2>1 DEF With, Amounts, Trade
<1>. HIDE DEF S, f
<1>4. SumFunctionOnSet(f, S) \in Nat
  BY <1>2, <1>3, SumNat
<1>. QED BY <1>2, <1>4 DEF S, f, TradedIn

LEMMA TradedMore ==
  ASSUME NEW tr \in Seq(Trade), NEW t \in Trade, NEW i
  PROVE  TradedIn(Append(tr, t), i) = TradedIn(tr, i) + (IF i \in {t.bid, t.ask} THEN t.quantity ELSE 0)
<1>. DEFINE a == Append(tr, t)
            m == Len(tr) + 1
            S == With(tr, i)
            T == With(a, i)
            f == Amounts(tr)
            g == Amounts(a)
<1>1. /\ DOMAIN tr = 1 .. Len(tr) /\ Len(tr) \in Nat
      /\ DOMAIN a = 1 .. m /\ a[m] = t
      /\ \A n \in 1 .. Len(tr) : a[n] = tr[n]
  BY AppendProperties
<1>2. m \notin DOMAIN tr /\ DOMAIN a = DOMAIN tr \cup {m} /\ m \in DOMAIN a
  BY <1>1
<1>3. \A n \in DOMAIN tr : a[n] = tr[n]
  BY <1>1
<1>4. \A n \in DOMAIN tr : tr[n].quantity \in Nat
  <2>1. \A n \in DOMAIN tr : tr[n] \in Trade
    OBVIOUS
  <2>. QED BY <2>1 DEF Trade
<1>5. t.quantity \in Nat /\ a[m] = t
  BY <1>1 DEF Trade
<1>. HIDE DEF a, m
<1>6. /\ T = IF i \in {t.bid, t.ask} THEN S \cup {m} ELSE S
      /\ m \notin S
  BY <1>2, <1>3, <1>5 DEF With
<1>7. /\ \A n \in S : f[n] \in Nat /\ g[n] = f[n]
      /\ g[m] = t.quantity
  BY <1>2, <1>3, <1>4, <1>5 DEF With, Amounts
<1>8. IsFiniteSet(S) /\ SumFunctionOnSet(f, S) \in Nat
  BY TradedNat DEF TradedIn
<1>. HIDE DEF S, T, f, g
<1>9. SumFunctionOnSet(g, S) = SumFunctionOnSet(f, S)
  BY <1>7, <1>8, SumSame
<1>10. SumFunctionOnSet(g, S \cup {m}) = SumFunctionOnSet(g, S) + g[m]
  <2>1. \A n \in S \cup {m} : g[n] \in Nat
    BY <1>5, <1>7
  <2>. QED BY <1>6, <1>8, <2>1, SumOneMore
<1>11. SumFunctionOnSet(g, T) = SumFunctionOnSet(f, S) + (IF i \in {t.bid, t.ask} THEN t.quantity ELSE 0)
  BY <1>6, <1>7, <1>8, <1>9, <1>10
<1>. QED BY <1>11 DEF S, T, f, g, a, TradedIn

\* A turn of the inner loop adds to what its two orders have traded.
LEMMA FillTrades ==
  ASSUME IInv, FillFront, NEW filled, NEW quantity \in 1 .. Wrap - 1, Filling(filled, quantity), NEW i
  PROVE  /\ TradedIn(trades, i) \in Nat
         /\ TradedIn(trades', i) = TradedIn(trades, i)
                                    + (IF i \in {Head(BidQueue), Head(AskQueue)} THEN quantity ELSE 0)
<1>. DEFINE hb == Head(BidQueue)
            ha == Head(AskQueue)
            t == [bid |-> hb, bidPrice |-> orders[hb].price,
                  ask |-> ha, askPrice |-> orders[ha].price, quantity |-> quantity]
<1>1. trades' = Append(trades, t)
  BY DEF Filling
<1>2. t \in Trade
  <2>1. hb \in Ids /\ ha \in Ids /\ orders[hb].price \in Prices /\ orders[ha].price \in Prices
    BY FrontOrders DEF Entry
  <2>. QED BY <2>1 DEF Trade
<1>3. trades \in Seq(Trade)
  BY DEF IInv, Control
<1>4. t.bid = hb /\ t.ask = ha /\ t.quantity = quantity
  OBVIOUS
<1>. HIDE DEF t, hb, ha
<1>5. TradedIn(trades, i) \in Nat
  BY <1>3, TradedNat
<1>6. TradedIn(trades', i) = TradedIn(trades, i) + (IF i \in {hb, ha} THEN quantity ELSE 0)
  BY <1>1, <1>2, <1>3, <1>4, TradedMore
<1>. QED BY <1>5, <1>6 DEF hb, ha

-------------------------------------------------------------------------------
(* What a call leaves of its order.                                         *)

\* The order of the call is known while it matches, and only it may be
\* fill-and-kill; on the book it has the side it came with.
Called ==
  /\ phase \in {"scan", "level"} => taker # None
  /\ phase = "idle" => taker = None /\ collided # "inCall"
  /\ \A i \in DOMAIN orders : orders[i].type = "FillAndKill" => taker # None /\ i = taker.id
  /\ taker # None /\ taker.id \in DOMAIN orders =>
       /\ orders[taker.id].side = taker.side
       /\ orders[taker.id].type = IF taker.type = "Market" THEN "GoodTillCancel" ELSE taker.type

\* What it has traded and what is left of it are what it came with.
Accounted ==
  taker # None =>
    IF taker.id \in DOMAIN orders
    THEN TradedIn(trades, taker.id) + orders[taker.id].remaining = taker.initial
    ELSE \/ TradedIn(trades, taker.id) = taker.initial
         \/ taker.type = "FillAndKill" /\ TradedIn(trades, taker.id) \in 1 .. taker.initial

\* It has traded before the first level is closed, if it may be cancelled then.
Matched ==
  phase = "level" /\ (BidQueue = <<>> \/ AskQueue = <<>>)
      /\ taker.id \in DOMAIN orders /\ taker.type = "FillAndKill" =>
    TradedIn(trades, taker.id) >= 1

\* The orders that rested before it do not trade among themselves.
Settled ==
  phase \in {"scan", "level"} =>
    \A i, j \in DOMAIN orders \ {taker.id} :
      orders[i].side = "Buy" /\ orders[j].side = "Sell" => orders[i].price < orders[j].price

QInv == IsFiniteSet(DOMAIN orders) /\ Called /\ Accounted /\ Matched /\ Settled

LEMMA InitQInv == Init => QInv
<1>. SUFFICES ASSUME Init PROVE QInv
  OBVIOUS
<1>1. DOMAIN orders = {}
  BY DEF Init, EmptyMap
<1>2. IsFiniteSet(DOMAIN orders)
  BY <1>1, FS_EmptySet
<1>. QED BY <1>1, <1>2 DEF QInv, Init, Called, Accounted, Matched, Settled

LEMMA AddQInv ==
  ASSUME IInv, phase = "idle", QInv,
         NEW st, Sound(st, older), Apart(st.book), NoKills(st), IsFiniteSet(DOMAIN st.orders),
         NEW o \in OrderRecord, o.remaining = o.initial, o.type # "Market" => o.price \in Prices,
         Add(st, o)
  PROVE  QInv'
<1>1. trades' = <<>> /\ collided' = collided /\ collided # "inCall"
  BY DEF Add, QInv, Called
<1>2. CASE Refused(st, o)
  <2>1. Becomes(st) /\ phase' = "done" /\ taker' = None /\ Shaped(st)
    BY <1>2 DEF Add, Sound
  <2>2. orders' = st.orders
    BY <2>1, StateBecomes
  <2>3. Called'
    BY <2>1, <2>2 DEF Called, NoKills
  <2>4. Accounted' /\ Matched' /\ Settled'
    BY <2>1 DEF Accounted, Matched, Settled
  <2>. QED BY <2>2, <2>3, <2>4 DEF QInv
<1>3. CASE ~Refused(st, o)
  <2>. DEFINE g == ToGoodTillCancel(st.book, o)
              w == WithOrder(st, g)
  <2>1. Becomes(w) /\ phase' = "scan" /\ taker' = o
    BY <1>3 DEF Add
  <2>2. /\ g \in Entry /\ g.id = o.id /\ g.side = o.side /\ g.remaining = o.initial
        /\ g.type = IF o.type = "Market" THEN "GoodTillCancel" ELSE o.type
    <3>1. g \in Entry /\ g.id = o.id /\ g.side = o.side
      BY <1>3, GoodTillCancelEntry
    <3>2. g.remaining = o.initial
      BY DEF ToGoodTillCancel, OrderRecord
    <3>3. g.type = IF o.type = "Market" THEN "GoodTillCancel" ELSE o.type
      <4>1. g.type # "Market"
        BY <3>1 DEF Entry
      <4>2. g.type = "GoodTillCancel" \/ g = o
        BY DEF ToGoodTillCancel, OrderRecord
      <4>3. o.type # "Market" => g = o
        BY DEF ToGoodTillCancel
      <4>. QED BY <4>1, <4>2, <4>3
    <3>. QED BY <3>1, <3>2, <3>3
  <2>3. o.id \notin DOMAIN st.orders
    BY <1>3 DEF Refused
  <2>. HIDE DEF g
  <2>4. /\ Shaped(w)
        /\ DOMAIN w.orders = DOMAIN st.orders \cup {o.id}
        /\ w.orders[o.id] = g
        /\ \A i \in DOMAIN st.orders : w.orders[i] = st.orders[i]
    <3>1. Sound(w, older \cup ((DOMAIN st.orders) \X {g.id})) /\ Inserted(st, w, g)
      BY <2>2, <2>3, WithOrderSound
    <3>. HIDE DEF w
    <3>. QED BY <2>2, <3>1 DEF Sound, Inserted
  <2>. HIDE DEF w
  <2>5. orders' = w.orders
    BY <2>1, <2>4, StateBecomes
  <2>6. IsFiniteSet(DOMAIN orders')
    BY <2>4, <2>5, FS_AddElement
  <2>7. o # None
    OBVIOUS
  <2>8. Called'
    <3>1. \A i \in DOMAIN st.orders : st.orders[i].type # "FillAndKill"
      BY DEF NoKills
    <3>. QED BY <2>1, <2>2, <2>4, <2>5, <2>7, <3>1 DEF Called
  <2>9. Accounted'
    <3>1. TradedIn(trades', o.id) = 0
      BY <1>1, TradedParts
    <3>2. o.initial \in Nat
      BY DEF OrderRecord
    <3>3. TradedIn(trades', o.id) + g.remaining = o.initial
      BY <2>2, <3>1, <3>2
    <3>. QED BY <2>1, <2>4, <2>5, <3>3 DEF Accounted
  <2>10. Matched'
    BY <2>1 DEF Matched
  <2>11. Settled'
    <3>1. ASSUME NEW i \in DOMAIN st.orders, NEW j \in DOMAIN st.orders,
                 st.orders[i].side = "Buy", st.orders[j].side = "Sell"
          PROVE  st.orders[i].price < st.orders[j].price
      BY <3>1 DEF Sound, Entries, Apart
    <3>. QED BY <2>1, <2>3, <2>4, <2>5, <3>1 DEF Settled
  <2>. QED BY <2>6, <2>8, <2>9, <2>10, <2>11 DEF QInv
<1>. QED BY <1>2, <1>3

\* What a turn of the inner loop does to the orders.
LEMMA FilledOrders ==
  ASSUME IInv, FillFront, NEW filled, NEW quantity \in 1 .. Wrap - 1, Filling(filled, quantity)
  PROVE  LET front == {Head(BidQueue), Head(AskQueue)}
         IN /\ DOMAIN orders' \subseteq DOMAIN orders /\ front \subseteq DOMAIN orders
            /\ \A i \in DOMAIN orders : orders[i].remaining \in 1 .. Wrap - 1
            /\ \A i \in DOMAIN orders' :
                 /\ orders'[i].side = orders[i].side /\ orders'[i].price = orders[i].price
                 /\ orders'[i].type = orders[i].type
                 /\ orders'[i].remaining = orders[i].remaining - (IF i \in front THEN quantity ELSE 0)
                 /\ orders'[i].remaining \in 1 .. Wrap - 1
            /\ \A i \in DOMAIN orders \ DOMAIN orders' :
                 i \in front /\ orders[i].remaining = quantity
<1>. DEFINE front == {Head(BidQueue), Head(AskQueue)}
<1>1. /\ filled \subseteq front /\ front \subseteq DOMAIN orders
      /\ DOMAIN orders' = DOMAIN orders \ filled
      /\ \A i \in filled : quantity = orders[i].remaining
      /\ \A i \in DOMAIN orders' :
           orders'[i] = IF i \in front THEN [orders[i] EXCEPT !.remaining = @ - quantity] ELSE orders[i]
  BY DEF Filling
<1>2. \A i \in DOMAIN orders : orders[i] \in Entry
  BY StateParts DEF IInv, Sound, Entries
<1>3. \A i \in DOMAIN orders' : orders'[i] \in Entry
  <2>1. Sound(State', older')
    BY FillStep DEF IInv
  <2>. QED BY <2>1, StateParts DEF Sound, Entries
<1>. HIDE DEF front
<1>4. ASSUME NEW i \in DOMAIN orders'
      PROVE  /\ orders'[i].side = orders[i].side /\ orders'[i].price = orders[i].price
             /\ orders'[i].type = orders[i].type
             /\ orders'[i].remaining = orders[i].remaining - (IF i \in front THEN quantity ELSE 0)
  <2>1. orders[i] \in Entry /\ i \in DOMAIN orders
    BY <1>1, <1>2
  <2>2. CASE i \in front
    BY <1>1, <2>1, <2>2 DEF Entry
  <2>3. CASE i \notin front
    <3>1. orders'[i] = orders[i] /\ orders[i].remaining \in Int
      BY <1>1, <2>1, <2>3 DEF Entry
    <3>. QED BY <2>3, <3>1
  <2>. QED BY <2>2, <2>3
<1>5. /\ \A i \in DOMAIN orders : orders[i].remaining \in 1 .. Wrap - 1
      /\ \A i \in DOMAIN orders' : orders'[i].remaining \in 1 .. Wrap - 1
  BY <1>2, <1>3 DEF Entry
<1>6. \A i \in DOMAIN orders \ DOMAIN orders' : i \in front /\ orders[i].remaining = quantity
  BY <1>1
<1>. QED BY <1>1, <1>4, <1>5, <1>6 DEF front

\* A fill-and-kill order that is on the book is at the front.
LEMMA KillTrades ==
  ASSUME IInv, Called, FillFront, taker.id \in DOMAIN orders, orders[taker.id].type = "FillAndKill"
  PROVE  taker.id \in {Head(BidQueue), Head(AskQueue)}
<1>. DEFINE i == taker.id
            side == orders[i].side
            p == orders[i].price
<1>1. phase = "level" /\ BidQueue # <<>> /\ AskQueue # <<>>
  BY DEF FillFront
<1>2. side \in Sides /\ p = Best(book, side) /\ At(State, side, p) = {i}
  BY <1>1, StateParts DEF IInv, Sound, Entries, Entry, Kills, KillsInFront
<1>3. /\ Head(BidQueue) \in At(State, "Buy", BestBid)
      /\ Head(AskQueue) \in At(State, "Sell", BestAsk)
  BY FrontOrders
<1>4. CASE side = "Buy"
  BY <1>2, <1>3, <1>4 DEF BestBid
<1>5. CASE side = "Sell"
  BY <1>2, <1>3, <1>5 DEF BestAsk
<1>. QED BY <1>2, <1>4, <1>5 DEF Sides

LEMMA FillQInv ==
  ASSUME IInv, QInv, FillFront
  PROVE  QInv'
<1>. DEFINE i == taker.id
            front == {Head(BidQueue), Head(AskQueue)}
<1>1. PICK filled, quantity : quantity \in 1 .. Wrap - 1 /\ Filling(filled, quantity)
  BY FillParts
<1>2. phase = "level" /\ phase' = phase /\ taker' = taker /\ collided' = collided
  BY FillParts
<1>3. /\ DOMAIN orders' \subseteq DOMAIN orders /\ front \subseteq DOMAIN orders
      /\ \A k \in DOMAIN orders : orders[k].remaining \in 1 .. Wrap - 1
      /\ \A k \in DOMAIN orders' :
           /\ orders'[k].side = orders[k].side /\ orders'[k].price = orders[k].price
           /\ orders'[k].type = orders[k].type
           /\ orders'[k].remaining = orders[k].remaining - (IF k \in front THEN quantity ELSE 0)
      /\ \A k \in DOMAIN orders \ DOMAIN orders' : k \in front /\ orders[k].remaining = quantity
  BY <1>1, FilledOrders
<1>4. taker # None /\ taker \in OrderRecord
  BY <1>2 DEF QInv, Called, IInv, Control
<1>. DEFINE now == TradedIn(trades, i)
            then == TradedIn(trades', i)
<1>5. now \in Nat /\ then = now + (IF i \in front THEN quantity ELSE 0)
  BY <1>1, FillTrades
<1>6. TradedIn(trades', taker'.id) = then
  BY <1>2
<1>. HIDE DEF front, now, then
<1>7. IsFiniteSet(DOMAIN orders')
  BY <1>3, FS_Subset DEF QInv
<1>8. Called'
  BY <1>2, <1>3 DEF QInv, Called
<1>9. Accounted'
  <2>1. IF i \in DOMAIN orders THEN now + orders[i].remaining = taker.initial
        ELSE now = taker.initial \/ (taker.type = "FillAndKill" /\ now \in 1 .. taker.initial)
    BY <1>4 DEF QInv, Accounted, now
  <2>2. IF i \in DOMAIN orders' THEN then + orders'[i].remaining = taker.initial
        ELSE then = taker.initial \/ (taker.type = "FillAndKill" /\ then \in 1 .. taker.initial)
    <3>1. quantity \in Int /\ \A k \in DOMAIN orders : orders[k].remaining \in Int
      BY <1>1, <1>3
    <3>2. CASE i \in DOMAIN orders'
      BY <1>3, <1>5, <2>1, <3>1, <3>2
    <3>3. CASE i \in DOMAIN orders /\ i \notin DOMAIN orders'
      BY <1>3, <1>5, <2>1, <3>1, <3>3
    <3>4. CASE i \notin DOMAIN orders
      <4>1. then = now /\ i \notin DOMAIN orders'
        BY <1>3, <1>5, <3>4
      <4>. QED BY <2>1, <3>4, <4>1
    <3>. QED BY <3>2, <3>3, <3>4
  <2>. QED BY <1>2, <1>6, <2>2 DEF Accounted
<1>10. Matched'
  <2>1. ASSUME i \in DOMAIN orders', taker.type = "FillAndKill"
        PROVE  then >= 1
    <3>1. i \in DOMAIN orders /\ orders[i].type = "FillAndKill"
      BY <1>3, <1>4, <2>1 DEF QInv, Called
    <3>2. i \in front
      BY <3>1, KillTrades DEF QInv, front
    <3>. QED BY <1>1, <1>5, <3>2
  <2>. QED BY <1>2, <1>6, <2>1 DEF Matched
<1>11. Settled'
  BY <1>2, <1>3 DEF QInv, Settled
<1>. QED BY <1>7, <1>8, <1>9, <1>10, <1>11 DEF QInv

LEMMA CloseQInv ==
  ASSUME IInv, QInv, CloseLevel
  PROVE  QInv'
<1>. DEFINE i == taker.id
            now == TradedIn(trades, i)
<1>1. /\ phase = "level" /\ phase' = "scan" /\ Becomes(KilledBook)
      /\ trades' = trades /\ taker' = taker /\ collided' \in {collided, "inCall"}
      /\ BidQueue = <<>> \/ AskQueue = <<>>
  BY DEF CloseLevel, KilledBook, ClosedBook
<1>2. /\ NoKills(KilledBook)
      /\ DOMAIN KilledBook.orders \subseteq DOMAIN orders
      /\ \A k \in DOMAIN KilledBook.orders : KilledBook.orders[k] = orders[k]
      /\ \A k \in DOMAIN orders \ DOMAIN KilledBook.orders : orders[k].type = "FillAndKill"
      /\ Shaped(KilledBook)
  BY <1>1, FrontKilled DEF Sound
<1>3. orders' = KilledBook.orders
  BY <1>1, <1>2, StateBecomes
<1>4. /\ DOMAIN orders' \subseteq DOMAIN orders
      /\ \A k \in DOMAIN orders' : orders'[k] = orders[k] /\ orders'[k].type # "FillAndKill"
      /\ \A k \in DOMAIN orders \ DOMAIN orders' : orders[k].type = "FillAndKill"
  BY <1>2, <1>3 DEF NoKills
<1>5. taker # None /\ taker \in OrderRecord
  BY <1>1 DEF QInv, Called, IInv, Control
<1>6. IsFiniteSet(DOMAIN orders')
  BY <1>4, FS_Subset DEF QInv
<1>7. Called'
  BY <1>1, <1>4, <1>5 DEF QInv, Called
<1>8. Accounted'
  <2>1. IF i \in DOMAIN orders THEN now + orders[i].remaining = taker.initial
        ELSE now = taker.initial \/ (taker.type = "FillAndKill" /\ now \in 1 .. taker.initial)
    BY <1>5 DEF QInv, Accounted
  <2>2. TradedIn(trades', taker'.id) = now
    BY <1>1
  <2>3. now \in Nat
    BY TradedNat DEF IInv, Control
  <2>4. ASSUME i \in DOMAIN orders, i \notin DOMAIN orders'
        PROVE  taker.type = "FillAndKill" /\ now \in 1 .. taker.initial
    <3>1. orders[i].type = "FillAndKill" /\ taker.type = "FillAndKill"
      BY <1>4, <1>5, <2>4 DEF QInv, Called
    <3>2. now >= 1
      BY <1>1, <2>4, <3>1 DEF QInv, Matched
    <3>3. orders[i].remaining \in Nat
      BY <2>4, StateParts DEF IInv, Sound, Entries, Entry
    <3>. HIDE DEF now
    <3>4. taker.initial \in Int
      <4>1. taker.initial \in Quantities
        BY <1>5 DEF OrderRecord
      <4>2. \A q \in Quantities : q \in Int
        OBVIOUS
      <4>. QED BY <4>1, <4>2
    <3>5. now + orders[i].remaining = taker.initial
      BY <2>1, <2>4
    <3>. QED BY <2>3, <3>1, <3>2, <3>3, <3>4, <3>5
  <2>. HIDE DEF now
  <2>5. IF i \in DOMAIN orders' THEN now + orders'[i].remaining = taker.initial
        ELSE now = taker.initial \/ (taker.type = "FillAndKill" /\ now \in 1 .. taker.initial)
    BY <1>4, <2>1, <2>4
  <2>. QED BY <1>1, <2>2, <2>5 DEF Accounted
<1>9. Matched' /\ Settled'
  BY <1>1, <1>4 DEF QInv, Matched, Settled
<1>. QED BY <1>6, <1>7, <1>8, <1>9 DEF QInv

LEMMA ScanQInv ==
  ASSUME IInv, QInv, Scan
  PROVE  QInv'
<1>1. /\ phase = "scan" /\ phase' = IF Crossed(book) THEN "level" ELSE "done"
      /\ book' = book /\ orders' = orders /\ trades' = trades /\ taker' = taker
      /\ collided' = collided
  BY DEF Scan, state, history
<1>2. Called'
  BY <1>1 DEF QInv, Called
<1>3. Accounted'
  BY <1>1 DEF QInv, Accounted
<1>4. Settled'
  BY <1>1 DEF QInv, Settled
<1>5. Matched'
  <2>1. ASSUME Crossed(book) PROVE BidQueue # <<>> /\ AskQueue # <<>>
    <3>1. \A side \in Sides : \A p \in Levels(book, side) : book[side][p] # <<>>
      BY <1>1 DEF IInv, Emptied
    <3>2. Levels(book, "Buy") # {} /\ Levels(book, "Sell") # {}
      BY <2>1 DEF Crossed
    <3>3. BestBid \in Levels(book, "Buy") /\ BestAsk \in Levels(book, "Sell")
      BY <3>2, Extremes, StateParts DEF BestBid, BestAsk, Sides, IInv, Sound, FiniteLevels
    <3>. QED BY <3>1, <3>3 DEF BidQueue, AskQueue, Sides
  <2>2. BidQueue' = BidQueue /\ AskQueue' = AskQueue
    BY <1>1 DEF BidQueue, AskQueue, BestBid, BestAsk
  <2>. QED BY <1>1, <2>1, <2>2 DEF Matched
<1>. QED BY <1>1, <1>2, <1>3, <1>4, <1>5 DEF QInv

LEMMA ReturnQInv ==
  ASSUME IInv, QInv, Return
  PROVE  QInv'
<1>1. /\ phase = "done" /\ phase' = "idle" /\ taker' = None /\ orders' = orders
      /\ collided' = IF collided = "inCall" THEN "before" ELSE collided
  BY DEF Return, state
<1>2. NoKills(State)
  BY <1>1 DEF IInv, Kills
<1>3. Called'
  BY <1>1, <1>2, StateParts DEF Called, NoKills
<1>4. Accounted' /\ Matched' /\ Settled'
  BY <1>1 DEF Accounted, Matched, Settled
<1>. QED BY <1>1, <1>3, <1>4 DEF QInv

LEMMA CancelQInv ==
  ASSUME IInv, QInv, NEW id \in Ids, CancelOrder(id)
  PROVE  QInv'
<1>1. /\ phase = "idle" /\ phase' = "idle" /\ trades' = trades /\ taker' = taker
      /\ collided' = collided /\ id \in DOMAIN orders /\ Becomes(WithoutOrder(State, id))
  BY DEF CancelOrder
<1>2. /\ Sound(WithoutOrder(State, id), older) /\ NoKills(WithoutOrder(State, id))
      /\ DOMAIN WithoutOrder(State, id).orders = DOMAIN orders \ {id}
  BY <1>1, CancelledState
<1>3. orders' = WithoutOrder(State, id).orders
  BY <1>1, <1>2, StateBecomes DEF Sound
<1>4. IsFiniteSet(DOMAIN orders')
  BY <1>2, <1>3, FS_Subset DEF QInv
<1>5. Called'
  BY <1>1, <1>2, <1>3 DEF QInv, Called, NoKills
<1>6. Accounted' /\ Matched' /\ Settled'
  BY <1>1 DEF QInv, Called, Accounted, Matched, Settled
<1>. QED BY <1>4, <1>5, <1>6 DEF QInv

LEMMA StutterQInv ==
  ASSUME QInv, UNCHANGED vars
  PROVE  QInv'
<1>1. /\ book' = book /\ orders' = orders /\ phase' = phase /\ trades' = trades
      /\ taker' = taker /\ collided' = collided
  BY DEF vars, state, history
<1>2. BidQueue' = BidQueue /\ AskQueue' = AskQueue
  BY <1>1 DEF BidQueue, AskQueue, BestBid, BestAsk
<1>. QED BY <1>1, <1>2 DEF QInv, Called, Accounted, Matched, Settled

\* Every step keeps it.
LEMMA QInvKept ==
  ASSUME IInv, QInv, [Next]_vars
  PROVE  QInv'
<1>1. ASSUME NEW type \in Types, NEW id \in Ids, NEW side \in Sides, NEW p \in Prices,
             NEW q \in Quantities, AddOrder(Order(type, id, side, p, q))
      PROVE  QInv'
  <2>. DEFINE o == Order(type, id, side, p, q)
  <2>1. phase = "idle" /\ Add(State, o)
    BY <1>1 DEF AddOrder
  <2>2. Sound(State, older) /\ Apart(State.book) /\ NoKills(State) /\ State.orders = orders
    BY <2>1, IdleState
  <2>3. o \in OrderRecord /\ o.remaining = o.initial /\ (o.type # "Market" => o.price \in Prices)
    BY OrdersTyped
  <2>4. IsFiniteSet(DOMAIN State.orders)
    BY <2>2 DEF QInv
  <2>. HIDE DEF o
  <2>. QED BY <2>1, <2>2, <2>3, <2>4, AddQInv
<1>2. ASSUME NEW id \in Ids, NEW side \in Sides, NEW p \in Prices, NEW q \in Quantities,
             ModifyOrder(id, side, p, q)
      PROVE  QInv'
  <2>. DEFINE st == WithoutOrder(State, id)
              o == Order(orders[id].type, id, side, p, q)
  <2>1. phase = "idle" /\ id \in DOMAIN orders /\ Add(st, o)
    BY <1>2 DEF ModifyOrder
  <2>2. /\ Sound(st, older) /\ Apart(st.book) /\ NoKills(st)
        /\ DOMAIN st.orders = DOMAIN orders \ {id}
    BY <2>1, CancelledState
  <2>3. orders[id].type \in OrderTypes
    BY <2>1 DEF IInv, Sound, Entries, Entry, State
  <2>4. o \in OrderRecord /\ o.remaining = o.initial /\ (o.type # "Market" => o.price \in Prices)
    BY <2>3, OrdersTyped
  <2>5. IsFiniteSet(DOMAIN st.orders)
    BY <2>2, FS_Subset DEF QInv
  <2>. HIDE DEF st, o
  <2>. QED BY <2>1, <2>2, <2>4, <2>5, AddQInv
<1>3. ASSUME NEW id \in Ids, CancelOrder(id) PROVE QInv'
  BY <1>3, CancelQInv
<1>4. CASE MatchOrders
  BY <1>4, ScanQInv, FillQInv, CloseQInv DEF MatchOrders
<1>5. CASE Return
  BY <1>5, ReturnQInv
<1>6. CASE UNCHANGED vars
  BY <1>6, StutterQInv
<1>. QED BY <1>1, <1>2, <1>3, <1>4, <1>5, <1>6 DEF Next

LEMMA QInvariance == Spec => [](IInv /\ QInv)
<1>1. Init => IInv /\ QInv
  BY InitIInv, InitQInv
<1>2. IInv /\ QInv /\ [Next]_vars => (IInv /\ QInv)'
  BY IInvKept, QInvKept
<1>. QED BY <1>1, <1>2, PTL DEF Spec

\* The Trades of a call and what it leaves on the book account for the whole
\* quantity of its order; only a fill-and-kill order loses any, and never all.
THEOREM TakerAccountedForHolds == Spec => []TakerAccountedFor
<1>1. IInv /\ QInv => TakerAccountedFor
  BY TradedParts DEF QInv, Accounted, TakerAccountedFor
<1>. QED BY QInvariance, <1>1, PTL

-------------------------------------------------------------------------------
(* The matching loop ends.                                                  *)

LEMMA WorkParts ==
  ASSUME IInv, QInv
  PROVE  /\ IsFiniteSet(DOMAIN orders)
         /\ \A i \in DOMAIN orders : Remaining[i] \in Nat /\ Remaining[i] > 0
         /\ \A side \in Sides : IsFiniteSet(Levels(book, side))
<1>1. \A i \in DOMAIN orders : orders[i] \in Entry
  BY StateParts DEF IInv, Sound, Entries
<1>2. \A i \in DOMAIN orders : Remaining[i] \in Nat /\ Remaining[i] > 0
  BY <1>1 DEF Remaining, Entry
<1>. QED BY <1>2, StateParts DEF QInv, IInv, Sound, FiniteLevels

LEMMA FillProgresses ==
  ASSUME IInv, QInv, FillFront
  PROVE  Work' < Work
<1>. DEFINE f == Remaining
            g == Remaining'
            S == DOMAIN orders
            T == DOMAIN orders'
            hb == Head(BidQueue)
            b == Cardinality(Levels(book, "Buy"))
            a == Cardinality(Levels(book, "Sell"))
<1>1. PICK filled, quantity : quantity \in 1 .. Wrap - 1 /\ Filling(filled, quantity)
  BY FillParts
<1>2. /\ T \subseteq S /\ hb \in S
      /\ \A i \in T : orders'[i].remaining \in 1 .. Wrap - 1
      /\ \A i \in T : orders'[i].remaining
                        = orders[i].remaining - (IF i \in {hb, Head(AskQueue)} THEN quantity ELSE 0)
  BY <1>1, FilledOrders
<1>3. /\ IsFiniteSet(S)
      /\ \A i \in S : f[i] \in Nat /\ f[i] > 0
      /\ IsFiniteSet(Levels(book, "Buy")) /\ IsFiniteSet(Levels(book, "Sell"))
  BY WorkParts DEF Sides
<1>4. Levels(book', "Buy") = Levels(book, "Buy") /\ Levels(book', "Sell") = Levels(book, "Sell")
  BY <1>1, FilledQueues DEF Sides
<1>5. a \in Nat /\ b \in Nat
  BY <1>3, FS_CardinalityType
<1>6. \A i \in T : g[i] \in Nat /\ g[i] <= f[i] /\ (i = hb => g[i] < f[i])
  <2>. SUFFICES ASSUME NEW i \in T PROVE g[i] \in Nat /\ g[i] <= f[i] /\ (i = hb => g[i] < f[i])
    OBVIOUS
  <2>1. f[i] = orders[i].remaining /\ g[i] = orders'[i].remaining /\ f[i] \in Nat
    BY <1>2, <1>3 DEF Remaining
  <2>. HIDE DEF f, g, hb
  <2>2. g[i] \in 1 .. Wrap - 1 /\ g[i] = f[i] - (IF i \in {hb, Head(AskQueue)} THEN quantity ELSE 0)
    BY <1>2, <2>1
  <2>3. quantity \in Nat /\ quantity > 0
    BY <1>1
  <2>. QED BY <2>1, <2>2, <2>3
<1>7. Work' = SumFunctionOnSet(g, T) + b + a /\ Work = SumFunctionOnSet(f, S) + b + a
  BY <1>4 DEF Work
<1>. HIDE DEF f, g, S, T, hb, a, b
<1>8. SumFunctionOnSet(g, T) < SumFunctionOnSet(f, S)
  BY <1>2, <1>3, <1>6, SumLower
<1>9. SumFunctionOnSet(f, S) \in Nat
  BY <1>3, SumNat
<1>10. SumFunctionOnSet(g, T) \in Nat
  <2>1. IsFiniteSet(T)
    BY <1>2, <1>3, FS_Subset
  <2>. QED BY <1>6, <2>1, SumNat
<1>. QED BY <1>5, <1>7, <1>8, <1>9, <1>10

LEMMA CloseProgresses ==
  ASSUME IInv, QInv, CloseLevel
  PROVE  Work' < Work
<1>. DEFINE f == Remaining
            g == Remaining'
            S == DOMAIN orders
            T == DOMAIN orders'
            B == Levels(book, "Buy")
            A == Levels(book, "Sell")
            C == Levels(book', "Buy")
            D == Levels(book', "Sell")
<1>1. phase = "level" /\ Becomes(KilledBook) /\ (BidQueue = <<>> \/ AskQueue = <<>>)
  BY DEF CloseLevel, KilledBook, ClosedBook
<1>2. /\ Shaped(KilledBook)
      /\ DOMAIN KilledBook.orders \subseteq DOMAIN orders
      /\ \A i \in DOMAIN KilledBook.orders : KilledBook.orders[i] = orders[i]
      /\ \A s \in Sides : Levels(KilledBook.book, s) \subseteq Levels(ClosedBook.book, s)
      /\ \A s \in Sides :
           /\ Levels(ClosedBook.book, s) \subseteq Levels(book, s)
           /\ book[s][Best(book, s)] = <<>> => Best(book, s) \notin Levels(ClosedBook.book, s)
      /\ \A s \in Sides : Best(book, s) \in Levels(book, s)
  <2>1. phase = "level"
    BY DEF CloseLevel
  <2>. QED BY <2>1, LevelsClosed, FrontKilled, BestQueues DEF Sound
<1>3. orders' = KilledBook.orders /\ book' = KilledBook.book
  <2>1. Becomes(KilledBook)
    BY DEF CloseLevel, KilledBook, ClosedBook
  <2>. QED BY <1>2, <2>1, StateBecomes
<1>4. /\ IsFiniteSet(S)
      /\ \A i \in S : f[i] \in Nat
      /\ IsFiniteSet(B) /\ IsFiniteSet(A)
  BY WorkParts DEF Sides
<1>5. /\ T \in SUBSET S
      /\ \A i \in T : g[i] \in Nat /\ g[i] <= f[i]
  <2>1. T \in SUBSET S /\ \A i \in T : orders'[i] = orders[i]
    BY <1>2, <1>3
  <2>2. \A i \in T : g[i] = f[i]
    BY <2>1 DEF Remaining
  <2>. HIDE DEF f, g
  <2>. QED BY <1>4, <2>1, <2>2
<1>6. C \subseteq B /\ D \subseteq A /\ (C # B \/ D # A)
  <2>1. BidQueue = <<>> \/ AskQueue = <<>>
    BY DEF CloseLevel
  <2>2. CASE BidQueue = <<>>
    BY <1>2, <1>3, <2>2 DEF BidQueue, BestBid, Sides
  <2>3. CASE AskQueue = <<>>
    BY <1>2, <1>3, <2>3 DEF AskQueue, BestAsk, Sides
  <2>4. C \subseteq B /\ D \subseteq A
    BY <1>2, <1>3 DEF Sides
  <2>. QED BY <2>1, <2>2, <2>3, <2>4
<1>. DEFINE sf == SumFunctionOnSet(f, S)
            sg == SumFunctionOnSet(g, T)
            nb == Cardinality(B)
            na == Cardinality(A)
            nc == Cardinality(C)
            nd == Cardinality(D)
<1>7. Work' = sg + nc + nd /\ Work = sf + nb + na
  BY DEF Work
<1>. HIDE DEF f, g, S, T, A, B, C, D
<1>8. sf \in Nat /\ sg \in Nat /\ sg <= sf
  <2>1. IsFiniteSet(T)
    BY <1>4, <1>5, FS_Subset
  <2>. QED BY <1>4, <1>5, <2>1, SumNat, SumAtMost
<1>9. /\ nb \in Nat /\ na \in Nat /\ nc \in Nat /\ nd \in Nat
      /\ nc <= nb /\ nd <= na /\ (C # B => nc < nb) /\ (D # A => nd < na)
  <2>1. IsFiniteSet(C) /\ IsFiniteSet(D)
    BY <1>4, <1>6, FS_Subset
  <2>. QED BY <1>4, <1>6, <2>1, FS_Subset, FS_CardinalityType
<1>. HIDE DEF sf, sg, na, nb, nc, nd
<1>. QED BY <1>6, <1>7, <1>8, <1>9

\* The matching loop ends: each of its turns uses up quantity or levels.
THEOREM MatchingProgressesHolds == Spec => MatchingProgresses
<1>1. IInv /\ QInv /\ [Next]_vars => [phase = "level" => Work' < Work]_vars
  <2>. SUFFICES ASSUME IInv, QInv, Next, phase = "level" PROVE Work' < Work
    OBVIOUS
  <2>1. FillFront \/ CloseLevel
    BY DEF Next, AddOrder, CancelOrder, ModifyOrder, MatchOrders, Scan, Return
  <2>. QED BY <2>1, FillProgresses, CloseProgresses
<1>. QED BY QInvariance, <1>1, PTL DEF MatchingProgresses, Spec

-------------------------------------------------------------------------------
(* What a fill-or-kill order may count on.                                  *)

\* The orders that an order of that side and price may trade with.
Facing(st, side, price) ==
  {i \in DOMAIN st.orders :
     /\ st.orders[i].side = Opposite(side)
     /\ IF side = "Buy" THEN st.orders[i].price <= price ELSE price <= st.orders[i].price}

Supply(st, side, price) == SumFunctionOnSet(Left(st), Facing(st, side, price))

\* The book says no more of a price than what it holds there.
LEMMA HeldAtMost ==
  ASSUME NEW st, NEW old, Sound(st, old), Exact(st), Few(st)
  PROVE  /\ IsFiniteSet(DOMAIN st.levelData) /\ DOMAIN st.levelData \subseteq Prices
         /\ \A p \in DOMAIN st.levelData :
              /\ Total(st, p) \in Nat
              /\ Held(st.levelData)[p] \in Nat /\ Held(st.levelData)[p] <= Total(st, p)
<1>1. DOMAIN st.levelData \subseteq Prices
  BY DEF Sound, Summaries
<1>2. Countable(st)
  BY SoundCountable
<1>3. ASSUME NEW p \in DOMAIN st.levelData
      PROVE  /\ p \in Levels(st.book, "Buy") \cup Levels(st.book, "Sell")
             /\ Total(st, p) \in Nat
             /\ Held(st.levelData)[p] \in Nat /\ Held(st.levelData)[p] <= Total(st, p)
  <2>1. Summed(st.levelData, p, Total(st, p), Cardinality(Priced(st, p)))
    BY <1>1 DEF Exact
  <2>2. /\ Cardinality(Priced(st, p)) # 0
        /\ st.levelData[p] = [quantity |-> Total(st, p) % Wrap, count |-> Cardinality(Priced(st, p))]
    BY <2>1 DEF Summed
  <2>3. Priced(st, p) # {} /\ Total(st, p) \in Nat
    BY <1>2, <2>2, PricedParts
  <2>4. PICK i \in DOMAIN st.orders : st.orders[i].price = p
    BY <2>3 DEF Priced
  <2>5. st.orders[i] \in Entry /\ st.orders[i].price \in Levels(st.book, st.orders[i].side)
    BY DEF Sound, Entries
  <2>6. p \in Levels(st.book, "Buy") \cup Levels(st.book, "Sell")
    BY <2>4, <2>5 DEF Entry, Sides
  <2>. DEFINE total == Total(st, p)
  <2>7. Held(st.levelData)[p] = total % Wrap
    BY <2>2 DEF Held
  <2>. HIDE DEF total
  <2>8. total % Wrap \in Nat /\ total % Wrap <= total
    BY <2>3, RemainderAtMost DEF total
  <2>. QED BY <2>3, <2>6, <2>7, <2>8 DEF total
<1>4. IsFiniteSet(DOMAIN st.levelData)
  <2>. DEFINE L == Levels(st.book, "Buy") \cup Levels(st.book, "Sell")
  <2>1. IsFiniteSet(Levels(st.book, "Buy")) /\ IsFiniteSet(Levels(st.book, "Sell"))
    BY DEF Sound, FiniteLevels, Sides
  <2>2. IsFiniteSet(L)
    BY <2>1, FS_Union
  <2>3. DOMAIN st.levelData \subseteq L
    BY <1>3
  <2>. HIDE DEF L
  <2>. QED BY <2>2, <2>3, FS_Subset
<1>. QED BY <1>1, <1>3, <1>4

\* CanFullyFill() of an exact book: the orders within the limit hold that much.
LEMMA CanFullyFillSupplied ==
  ASSUME NEW st, NEW old, Sound(st, old), Exact(st), Apart(st.book), Few(st),
         NEW side \in Sides, NEW price \in Prices, NEW quantity \in Nat,
         CanFullyFill(st, side, price, quantity)
  PROVE  quantity <= Supply(st, side, price)
<1>. DEFINE threshold == Best(st.book, Opposite(side))
            K == {p \in DOMAIN st.levelData :
                    IF side = "Buy" THEN threshold <= p /\ p <= price
                                    ELSE price <= p /\ p <= threshold}
            S == DOMAIN st.orders
            f == Left(st)
            F == Facing(st, side, price)
            h == Held(st.levelData)
            key == [i \in S |-> st.orders[i].price]
            G == [p \in K |-> Total(st, p)]
            T == KeyedIn(S, key, K)
<1>1. quantity <= SumFunctionOnSet(h, K) /\ CanMatch(st.book, side, price)
  BY DEF CanFullyFill
<1>2. /\ IsFiniteSet(DOMAIN st.levelData) /\ DOMAIN st.levelData \subseteq Prices
      /\ \A p \in DOMAIN st.levelData :
           Total(st, p) \in Nat /\ h[p] \in Nat /\ h[p] <= Total(st, p)
  BY HeldAtMost
<1>3. /\ \A i \in S : st.orders[i] \in Entry /\ st.orders[i].price \in Levels(st.book, st.orders[i].side)
      /\ IsFiniteSet(S) /\ \A i \in S : f[i] \in Nat
  BY DEF Sound, Entries, Entry, Left, Few
<1>4. K \subseteq DOMAIN st.levelData
  OBVIOUS
<1>5. IsFiniteSet(K)
  BY <1>2, <1>4, FS_Subset
<1>6. \A p \in K : h[p] \in Nat /\ G[p] \in Nat /\ h[p] <= G[p]
  BY <1>2, <1>4
<1>7. T \subseteq F
  <2>. SUFFICES ASSUME NEW i \in S, st.orders[i].price \in K PROVE i \in F
    BY DEF KeyedIn
  <2>. DEFINE p == st.orders[i].price
              opp == Opposite(side)
  <2>1. st.orders[i].side \in Sides /\ p \in Levels(st.book, st.orders[i].side) /\ p \in Prices
    BY <1>3 DEF Entry
  <2>2. opp \in Sides /\ threshold \in Levels(st.book, opp) /\ Levels(st.book, opp) \subseteq Prices
    <3>1. opp \in Sides /\ Levels(st.book, opp) # {}
      BY <1>1, TwoSides DEF CanMatch
    <3>2. IsFiniteSet(Levels(st.book, opp)) /\ Levels(st.book, opp) \subseteq Prices
      BY <3>1 DEF Sound, FiniteLevels
    <3>. QED BY <3>1, <3>2, Extremes
  <2>3. IF side = "Buy" THEN threshold <= p /\ p <= price ELSE price <= p /\ p <= threshold
    OBVIOUS
  <2>4. threshold \in Int /\ p \in Int
    BY <2>1, <2>2
  <2>5. st.orders[i].side = opp
    <3>1. ASSUME st.orders[i].side = side PROVE FALSE
      <4>1. CASE side = "Buy"
        <5>1. p < threshold
          BY <2>1, <2>2, <3>1, <4>1 DEF Apart, Opposite
        <5>. HIDE DEF p, threshold
        <5>. QED BY <2>3, <2>4, <4>1, <5>1
      <4>2. CASE side = "Sell"
        <5>1. threshold < p
          BY <2>1, <2>2, <3>1, <4>2 DEF Apart, Opposite
        <5>. HIDE DEF p, threshold
        <5>. QED BY <2>3, <2>4, <4>2, <5>1
      <4>. QED BY <4>1, <4>2 DEF Sides
    <3>. QED BY <2>1, <3>1, TwoSides
  <2>. QED BY <2>3, <2>5 DEF Facing
<1>8. F \subseteq S /\ T \subseteq S
  BY DEF Facing, KeyedIn
<1>9. \A p \in K : G[p] = SumFunctionOnSet(f, Keyed(S, key, p))
  <2>. SUFFICES ASSUME NEW p \in K PROVE G[p] = SumFunctionOnSet(f, Keyed(S, key, p))
    OBVIOUS
  <2>1. Keyed(S, key, p) = Priced(st, p)
    BY DEF Priced, Keyed
  <2>. QED BY <2>1 DEF Total
<1>. HIDE DEF S, K, f, F, h, key, G
<1>10. SumFunctionOnSet(G, K) = SumFunctionOnSet(f, T)
  BY <1>3, <1>5, <1>9, SumByKey
<1>11. SumFunctionOnSet(h, K) <= SumFunctionOnSet(G, K)
  <2>1. K \in SUBSET K
    OBVIOUS
  <2>. QED BY <1>5, <1>6, <2>1, SumAtMost
<1>12. SumFunctionOnSet(h, K) \in Nat /\ SumFunctionOnSet(G, K) \in Nat
  BY <1>5, <1>6, SumNat
<1>. HIDE DEF T
<1>13. SumFunctionOnSet(f, T) <= SumFunctionOnSet(f, F) /\ SumFunctionOnSet(f, F) \in Nat
  <2>1. IsFiniteSet(F) /\ (\A i \in F : f[i] \in Nat) /\ T \in SUBSET F
    BY <1>3, <1>7, <1>8, FS_Subset
  <2>2. \A i \in T : f[i] \in Nat /\ f[i] <= f[i]
    BY <1>3, <1>7, <1>8
  <2>. QED BY <2>1, <2>2, SumAtMost, SumNat
<1>14. quantity <= SumFunctionOnSet(f, F)
  BY <1>1, <1>10, <1>11, <1>12, <1>13
<1>. QED BY <1>14 DEF f, F, Supply

\* levelData_ is exact until a level is closed at a price of the other side.
Exactly == collided = "never" => Exact(State)

\* A fill-or-kill order that is still on the book has enough to trade with.
Supplied ==
  taker # None /\ taker.type = "FillOrKill" /\ collided # "before" /\ taker.id \in DOMAIN orders =>
    /\ phase # "done"
    /\ orders[taker.id].remaining
         <= Supply(State, orders[taker.id].side, orders[taker.id].price)

FInv == Exactly /\ Supplied

LEMMA InitFInv == Init => FInv
<1>. SUFFICES ASSUME Init PROVE FInv
  OBVIOUS
<1>1. DOMAIN orders = {} /\ DOMAIN levelData = {} /\ taker = None
  BY DEF Init, EmptyMap
<1>2. \A p : Priced(State, p) = {}
  BY <1>1, StateParts DEF Priced
<1>3. Exact(State)
  BY <1>1, <1>2, StateParts, FS_EmptySet DEF Exact, Summed
<1>. QED BY <1>1, <1>3 DEF FInv, Exactly, Supplied

LEMMA AddFInv ==
  ASSUME IInv, phase = "idle", QInv,
         NEW st, Sound(st, older), Apart(st.book), Few(st), Few(State'),
         collided = "never" => Exact(st),
         NEW o \in OrderRecord, o.remaining = o.initial, o.type # "Market" => o.price \in Prices,
         Add(st, o)
  PROVE  FInv'
<1>1. collided' = collided /\ collided \in {"never", "before"}
  BY DEF Add, QInv, Called, IInv, Control
<1>2. Exactly'
  <2>1. ASSUME collided = "never" PROVE Exact(State')
    BY <2>1, AddExact
  <2>. QED BY <1>1, <2>1 DEF Exactly
<1>3. CASE Refused(st, o)
  <2>1. taker' = None
    BY <1>3 DEF Add
  <2>. QED BY <1>2, <2>1 DEF FInv, Supplied
<1>4. CASE ~Refused(st, o)
  <2>. DEFINE g == ToGoodTillCancel(st.book, o)
              w == WithOrder(st, g)
  <2>1. Becomes(w) /\ phase' = "scan" /\ taker' = o
    BY <1>4 DEF Add
  <2>2. SUFFICES ASSUME o.type = "FillOrKill", collided # "before"
                 PROVE  orders'[o.id].remaining
                          <= Supply(State', orders'[o.id].side, orders'[o.id].price)
    BY <1>1, <1>2, <2>1 DEF FInv, Supplied
  <2>3. g \in Entry
    BY <1>4, GoodTillCancelEntry
  <2>4. g = o /\ Exact(st) /\ CanFullyFill(st, o.side, o.price, o.initial)
    BY <1>1, <1>4, <2>2 DEF ToGoodTillCancel, Refused
  <2>5. /\ o.side \in Sides /\ o.price \in Prices /\ o.initial \in Nat /\ o.id \notin DOMAIN st.orders
    BY <1>4, <2>2 DEF OrderRecord, Refused
  <2>6. o.initial <= Supply(st, o.side, o.price)
    BY <2>4, <2>5, CanFullyFillSupplied
  <2>. HIDE DEF g
  <2>7. /\ Sound(w, older \cup ((DOMAIN st.orders) \X {o.id}))
        /\ DOMAIN w.orders = DOMAIN st.orders \cup {o.id}
        /\ w.orders[o.id] = o
        /\ \A i \in DOMAIN st.orders : w.orders[i] = st.orders[i]
    <3>1. Sound(w, older \cup ((DOMAIN st.orders) \X {o.id})) /\ Inserted(st, w, o)
      BY <2>3, <2>4, <2>5, WithOrderSound
    <3>. HIDE DEF w
    <3>. QED BY <3>1 DEF Inserted
  <2>. HIDE DEF w
  <2>8. State' = w /\ orders' = w.orders
    BY <2>1, <2>7, StateBecomes DEF Sound
  <2>9. Supply(st, o.side, o.price) <= Supply(w, o.side, o.price)
        /\ Supply(st, o.side, o.price) \in Nat /\ Supply(w, o.side, o.price) \in Nat
    <3>. DEFINE f == Left(st)
                g1 == Left(w)
                F == Facing(st, o.side, o.price)
                F1 == Facing(w, o.side, o.price)
    <3>1. F \subseteq DOMAIN st.orders /\ F1 \subseteq DOMAIN w.orders /\ F \subseteq F1
      BY <2>7 DEF Facing
    <3>2. /\ \A i \in DOMAIN w.orders : g1[i] \in Nat
          /\ \A i \in DOMAIN st.orders : f[i] = g1[i]
      <4>1. Countable(w)
        BY <2>7, <2>8, SoundCountable
      <4>. QED BY <2>7, <4>1 DEF Left, Countable
    <3>3. IsFiniteSet(F1) /\ IsFiniteSet(F)
      <4>1. IsFiniteSet(DOMAIN w.orders)
        BY <2>7, FS_AddElement DEF Few
      <4>. HIDE DEF F, F1
      <4>. QED BY <3>1, <4>1, FS_Subset
    <3>. HIDE DEF f, g1, F, F1
    <3>4. \A i \in F1 : g1[i] \in Nat
      BY <3>1, <3>2
    <3>5. \A i \in F : f[i] \in Nat /\ f[i] <= g1[i]
      BY <2>7, <3>1, <3>2
    <3>6. SumFunctionOnSet(f, F) <= SumFunctionOnSet(g1, F1)
      BY <3>1, <3>3, <3>4, <3>5, SumAtMost
    <3>7. SumFunctionOnSet(f, F) \in Nat /\ SumFunctionOnSet(g1, F1) \in Nat
      BY <3>3, <3>4, <3>5, SumNat
    <3>. QED BY <3>6, <3>7 DEF f, g1, F, F1, Supply
  <2>10. o.remaining <= Supply(w, o.side, o.price)
    <3>. DEFINE x == Supply(st, o.side, o.price)
                y == Supply(w, o.side, o.price)
    <3>. HIDE DEF x, y
    <3>. QED BY <2>5, <2>6, <2>9 DEF x, y
  <2>. QED BY <2>7, <2>8, <2>10
<1>. QED BY <1>3, <1>4

\* Of the two orders that trade, one is that of the call.
LEMMA TakerTrades ==
  ASSUME IInv, QInv, FillFront
  PROVE  taker.id \in {Head(BidQueue), Head(AskQueue)}
<1>. DEFINE hb == Head(BidQueue)
            ha == Head(AskQueue)
<1>1. phase = "level" /\ Crossed(book)
  BY DEF FillFront, IInv, Crossing
<1>2. /\ hb \in DOMAIN orders /\ orders[hb].side = "Buy" /\ orders[hb].price = BestBid
      /\ ha \in DOMAIN orders /\ orders[ha].side = "Sell" /\ orders[ha].price = BestAsk
      /\ orders[hb] \in Entry /\ orders[ha] \in Entry
  BY FrontOrders, StateParts DEF At
<1>3. BestBid >= BestAsk
  BY <1>1 DEF Crossed, BestBid, BestAsk
<1>4. ASSUME hb # taker.id, ha # taker.id PROVE FALSE
  <2>1. orders[hb].price < orders[ha].price
    BY <1>1, <1>2, <1>4 DEF QInv, Settled
  <2>2. BestBid \in Int /\ BestAsk \in Int
    BY <1>2 DEF Entry
  <2>. QED BY <1>2, <1>3, <2>1, <2>2
<1>. QED BY <1>4

LEMMA FillFInv ==
  ASSUME Few(State), IInv, QInv, FInv, FillFront
  PROVE  FInv'
<1>. DEFINE i == taker.id
            front == {Head(BidQueue), Head(AskQueue)}
<1>1. phase = "level" /\ phase' = phase /\ taker' = taker /\ collided' = collided
  BY FillParts
<1>2. Exactly'
  BY <1>1, FillExact DEF FInv, Exactly
<1>3. SUFFICES ASSUME taker # None, taker.type = "FillOrKill", collided # "before", i \in DOMAIN orders'
               PROVE  orders'[i].remaining <= Supply(State', orders'[i].side, orders'[i].price)
  BY <1>1, <1>2 DEF FInv, Supplied
<1>4. PICK filled, quantity : quantity \in 1 .. Wrap - 1 /\ Filling(filled, quantity)
  BY FillParts
<1>5. /\ DOMAIN orders' \subseteq DOMAIN orders /\ front \subseteq DOMAIN orders
      /\ \A k \in DOMAIN orders : orders[k].remaining \in 1 .. Wrap - 1
      /\ \A k \in DOMAIN orders' :
           /\ orders'[k].side = orders[k].side /\ orders'[k].price = orders[k].price
           /\ orders'[k].remaining = orders[k].remaining - (IF k \in front THEN quantity ELSE 0)
           /\ orders'[k].remaining \in 1 .. Wrap - 1
      /\ \A k \in DOMAIN orders \ DOMAIN orders' : k \in front /\ orders[k].remaining = quantity
  BY <1>4, FilledOrders
<1>. DEFINE side == orders[i].side
            price == orders[i].price
            F == Facing(State, side, price)
            E == Facing(State', side, price)
            f == Left(State)
            g == Left(State')
<1>6. i \in DOMAIN orders /\ orders[i].remaining <= Supply(State, side, price)
  BY <1>3, <1>5 DEF FInv, Supplied
<1>7. PICK x \in F : front = {i, x} /\ x # i
  <2>. DEFINE hb == Head(BidQueue)
              ha == Head(AskQueue)
  <2>1. /\ hb \in DOMAIN orders /\ orders[hb].side = "Buy" /\ orders[hb].price = BestBid
        /\ ha \in DOMAIN orders /\ orders[ha].side = "Sell" /\ orders[ha].price = BestAsk
    BY FrontOrders, StateParts DEF At
  <2>2. BestAsk <= BestBid
    <3>1. BestBid >= BestAsk
      BY <1>1 DEF IInv, Crossing, Crossed, BestBid, BestAsk
    <3>2. orders[hb] \in Entry /\ orders[ha] \in Entry
      BY FrontOrders
    <3>3. BestBid \in Int /\ BestAsk \in Int
      BY <2>1, <3>2 DEF Entry
    <3>. QED BY <3>1, <3>3
  <2>3. i = hb \/ i = ha
    BY TakerTrades
  <2>. HIDE DEF hb, ha
  <2>4. CASE i = hb
    <3>1. ha \in F /\ ha # i
      BY <2>1, <2>2, <2>4, StateParts DEF Facing, Opposite
    <3>2. front = {i, ha}
      BY <2>4 DEF hb, ha
    <3>. QED BY <3>1, <3>2
  <2>5. CASE i = ha
    <3>1. hb \in F /\ hb # i
      BY <2>1, <2>2, <2>5, StateParts DEF Facing, Opposite
    <3>2. front = {i, hb}
      BY <2>5 DEF hb, ha
    <3>. QED BY <3>1, <3>2
  <2>. QED BY <2>3, <2>4, <2>5
<1>. HIDE DEF front
<1>8. i \notin F
  <2>1. side \in Sides
    BY <1>6, StateParts DEF IInv, Sound, Entries, Entry
  <2>. QED BY <2>1, TwoSides, StateParts DEF Facing
<1>9. E = F \/ E = F \ {x}
  <2>1. ASSUME NEW k \in F, k # x PROVE k \in E
    <3>1. k \in DOMAIN orders'
      BY <1>5, <1>7, <1>8, <2>1, StateParts DEF Facing
    <3>. QED BY <1>5, <2>1, <3>1, StateParts DEF Facing
  <2>2. E \subseteq F
    BY <1>5, StateParts DEF Facing
  <2>. HIDE DEF E, F
  <2>. QED BY <2>1, <2>2
<1>10. \A k \in F \ {x} : g[k] = f[k]
  <2>. SUFFICES ASSUME NEW k \in F, k # x PROVE g[k] = f[k]
    OBVIOUS
  <2>1. k \in DOMAIN orders /\ k \notin front /\ k \in DOMAIN orders'
    BY <1>5, <1>7, <1>8, StateParts DEF Facing
  <2>2. orders'[k].remaining = orders[k].remaining - 0 /\ orders[k].remaining \in Int
    BY <1>5, <2>1
  <2>3. orders'[k].remaining = orders[k].remaining
    BY <2>2
  <2>. QED BY <2>1, <2>3, StateParts DEF Left
<1>11. /\ x \in E => g[x] \in Nat /\ g[x] = f[x] - quantity
       /\ x \notin E => quantity = f[x]
  <2>1. x \in DOMAIN orders /\ x \in front
    BY <1>7, StateParts DEF Facing
  <2>2. ASSUME x \in E PROVE g[x] \in Nat /\ g[x] = f[x] - quantity
    <3>1. x \in DOMAIN orders'
      BY <2>2, StateParts DEF Facing
    <3>2. orders'[x].remaining = orders[x].remaining - quantity /\ orders'[x].remaining \in Nat
      BY <1>5, <2>1, <3>1
    <3>. QED BY <2>1, <3>1, <3>2, StateParts DEF Left
  <2>3. ASSUME x \notin E PROVE quantity = f[x]
    <3>1. x \notin DOMAIN orders'
      BY <1>5, <1>7, <2>3, StateParts DEF Facing
    <3>2. orders[x].remaining = quantity
      BY <1>5, <2>1, <3>1
    <3>. QED BY <2>1, <3>2, StateParts DEF Left
  <2>. QED BY <2>2, <2>3
<1>12. IsFiniteSet(F) /\ \A k \in F : f[k] \in Nat
  <2>1. F \subseteq DOMAIN orders
    BY StateParts DEF Facing
  <2>2. \A k \in DOMAIN orders : f[k] \in Nat
    BY <1>5, StateParts DEF Left
  <2>. HIDE DEF F, f
  <2>. QED BY <2>1, <2>2, FS_Subset DEF QInv
<1>13. /\ orders'[i].side = side /\ orders'[i].price = price
       /\ orders'[i].remaining = orders[i].remaining - quantity
       /\ orders[i].remaining \in Int /\ quantity \in Int
  BY <1>3, <1>4, <1>5, <1>6, <1>7
<1>. DEFINE left == orders[i].remaining
<1>. HIDE DEF E, F, f, g
<1>14. SumFunctionOnSet(g, E) = SumFunctionOnSet(f, F) - quantity
  BY <1>9, <1>10, <1>11, <1>12, <1>13, SumTaken
<1>15. SumFunctionOnSet(f, F) \in Nat
  BY <1>12, SumNat
<1>16. left <= SumFunctionOnSet(f, F)
  BY <1>6 DEF Supply, F, f
<1>17. left - quantity <= SumFunctionOnSet(g, E)
  <2>1. left \in Int /\ quantity \in Int
    BY <1>13
  <2>. HIDE DEF left
  <2>. QED BY <1>14, <1>15, <1>16, <2>1
<1>. QED BY <1>13, <1>17 DEF Supply, E, g

LEMMA CloseFInv ==
  ASSUME Few(State), IInv, QInv, FInv, CloseLevel
  PROVE  FInv'
<1>. DEFINE i == taker.id
<1>1. /\ phase = "level" /\ phase' = "scan" /\ Becomes(KilledBook) /\ taker' = taker
      /\ collided' = IF collided = "never" /\ (\E side \in Sides : Collides(side))
                     THEN "inCall" ELSE collided
  BY DEF CloseLevel, KilledBook, ClosedBook
<1>2. Exactly'
  <2>1. ASSUME collided' = "never" PROVE Exact(State')
    <3>1. collided = "never" /\ \A side \in Sides : ~Collides(side)
      BY <1>1, <2>1
    <3>. QED BY <3>1, CloseExact DEF FInv, Exactly
  <2>. QED BY <2>1 DEF Exactly
<1>3. /\ DOMAIN KilledBook.orders \subseteq DOMAIN orders
      /\ \A k \in DOMAIN KilledBook.orders : KilledBook.orders[k] = orders[k]
      /\ \A k \in DOMAIN orders \ DOMAIN KilledBook.orders : orders[k].type = "FillAndKill"
      /\ Shaped(KilledBook)
  BY <1>1, FrontKilled DEF Sound
<1>4. orders' = KilledBook.orders
  BY <1>1, <1>3, StateBecomes
<1>5. SUFFICES ASSUME taker # None, taker.type = "FillOrKill", collided' # "before", i \in DOMAIN orders'
               PROVE  orders'[i].remaining <= Supply(State', orders'[i].side, orders'[i].price)
  BY <1>1, <1>2 DEF FInv, Supplied
<1>6. collided # "before" /\ i \in DOMAIN orders
  BY <1>1, <1>3, <1>4, <1>5
<1>7. \A k \in DOMAIN orders : orders[k].type # "FillAndKill"
  BY <1>5, <1>6 DEF QInv, Called
<1>8. DOMAIN orders' = DOMAIN orders /\ \A k \in DOMAIN orders : orders'[k] = orders[k]
  BY <1>3, <1>4, <1>7
<1>9. Left(State') = Left(State) /\ \A side, price : Facing(State', side, price) = Facing(State, side, price)
  BY <1>8, StateParts DEF Left, Facing
<1>10. orders[i].remaining <= Supply(State, orders[i].side, orders[i].price)
  BY <1>5, <1>6 DEF FInv, Supplied
<1>. QED BY <1>6, <1>8, <1>9, <1>10 DEF Supply

\* The loop does not end on a fill-or-kill order that has something to trade with.
LEMMA ScanFInv ==
  ASSUME IInv, QInv, FInv, Scan
  PROVE  FInv'
<1>. DEFINE i == taker.id
<1>1. /\ phase = "scan" /\ phase' = IF Crossed(book) THEN "level" ELSE "done"
      /\ book' = book /\ orders' = orders /\ levelData' = levelData
      /\ taker' = taker /\ collided' = collided
  BY DEF Scan, state, history
<1>2. State' = State
  BY <1>1 DEF State
<1>3. Exactly'
  BY <1>1, <1>2 DEF FInv, Exactly
<1>4. ASSUME taker # None, taker.type = "FillOrKill", collided # "before", i \in DOMAIN orders,
             ~Crossed(book)
      PROVE  FALSE
  <2>. DEFINE side == orders[i].side
              price == orders[i].price
              F == Facing(State, side, price)
  <2>1. orders[i].remaining <= Supply(State, side, price)
    BY <1>4 DEF FInv, Supplied
  <2>2. orders[i] \in Entry /\ price \in Levels(book, side)
    BY <1>4, StateParts DEF IInv, Sound, Entries
  <2>3. F # {}
    <3>1. orders[i].remaining \in 1 .. Wrap - 1
      BY <2>2 DEF Entry
    <3>2. F = {} => Supply(State, side, price) = 0
      BY SumEmpty DEF Supply
    <3>. DEFINE left == orders[i].remaining
    <3>. HIDE DEF left, F
    <3>. QED BY <2>1, <3>1, <3>2 DEF left
  <2>4. PICK j \in DOMAIN orders : /\ orders[j].side = Opposite(side)
                                   /\ IF side = "Buy" THEN orders[j].price <= price ELSE price <= orders[j].price
    BY <2>3, StateParts DEF Facing
  <2>5. orders[j] \in Entry /\ orders[j].price \in Levels(book, Opposite(side))
    BY <2>4, StateParts DEF IInv, Sound, Entries
  <2>6. Apart(book)
    BY <1>4, CrossedOrApart, StateParts DEF IInv, Sound
  <2>7. side \in Sides /\ price \in Int /\ orders[j].price \in Int
    BY <2>2, <2>5 DEF Entry
  <2>. DEFINE other == orders[j].price
  <2>8. CASE side = "Buy"
    <3>1. price < other
      BY <2>2, <2>5, <2>6, <2>8 DEF Apart, Opposite
    <3>. HIDE DEF price, side
    <3>. QED BY <2>4, <2>7, <2>8, <3>1
  <2>9. CASE side = "Sell"
    <3>1. other < price
      BY <2>2, <2>5, <2>6, <2>9 DEF Apart, Opposite
    <3>. HIDE DEF price, side
    <3>. QED BY <2>4, <2>7, <2>9, <3>1
  <2>. QED BY <2>7, <2>8, <2>9 DEF Sides
<1>5. Supplied'
  BY <1>1, <1>2, <1>4 DEF FInv, Supplied
<1>. QED BY <1>3, <1>5 DEF FInv

\* Every step keeps it.
LEMMA FInvKept ==
  ASSUME IInv, QInv, FInv, FewRest, FewRest', [Next]_vars
  PROVE  FInv'
<1>0. Few(State) /\ Few(State')
  <2>1. QInv'
    BY QInvKept
  <2>. QED BY <2>1, StateParts DEF QInv, Few, FewRest
<1>1. ASSUME NEW type \in Types, NEW id \in Ids, NEW side \in Sides, NEW p \in Prices,
             NEW q \in Quantities, AddOrder(Order(type, id, side, p, q))
      PROVE  FInv'
  <2>. DEFINE o == Order(type, id, side, p, q)
  <2>1. phase = "idle" /\ Add(State, o)
    BY <1>1 DEF AddOrder
  <2>2. Sound(State, older) /\ Apart(State.book) /\ State.orders = orders
    BY <2>1, IdleState
  <2>3. o \in OrderRecord /\ o.remaining = o.initial /\ (o.type # "Market" => o.price \in Prices)
    BY OrdersTyped
  <2>4. collided = "never" => Exact(State)
    BY DEF FInv, Exactly
  <2>. HIDE DEF o
  <2>. QED BY <1>0, <2>1, <2>2, <2>3, <2>4, AddFInv
<1>2. ASSUME phase = "idle", NEW id \in DOMAIN orders, collided = "never"
      PROVE  Exact(WithoutOrder(State, id))
  <2>1. Irreflexive(older) /\ Exact(State) /\ Sound(State, older) /\ id \in DOMAIN State.orders
    BY <1>2, StateParts DEF IInv, Aging, Irreflexive, FInv, Exactly
  <2>. QED BY <1>0, <2>1, ExactWithoutOrder
<1>3. ASSUME NEW id \in Ids, NEW side \in Sides, NEW p \in Prices, NEW q \in Quantities,
             ModifyOrder(id, side, p, q)
      PROVE  FInv'
  <2>. DEFINE st == WithoutOrder(State, id)
              o == Order(orders[id].type, id, side, p, q)
  <2>1. phase = "idle" /\ id \in DOMAIN orders /\ Add(st, o)
    BY <1>3 DEF ModifyOrder
  <2>2. Sound(st, older) /\ Apart(st.book) /\ DOMAIN st.orders = DOMAIN orders \ {id}
    BY <2>1, CancelledState
  <2>3. orders[id].type \in OrderTypes
    BY <2>1 DEF IInv, Sound, Entries, Entry, State
  <2>4. o \in OrderRecord /\ o.remaining = o.initial /\ (o.type # "Market" => o.price \in Prices)
    BY <2>3, OrdersTyped
  <2>5. collided = "never" => Exact(st)
    BY <1>2, <2>1
  <2>. HIDE DEF st, o
  <2>6. Few(st)
    BY <1>0, <2>2, StateParts, FewerStill
  <2>. QED BY <1>0, <2>1, <2>2, <2>4, <2>5, <2>6, AddFInv
<1>4. ASSUME NEW id \in Ids, CancelOrder(id) PROVE FInv'
  <2>1. /\ phase = "idle" /\ taker' = taker /\ collided' = collided /\ id \in DOMAIN orders
        /\ Becomes(WithoutOrder(State, id))
    BY <1>4 DEF CancelOrder
  <2>2. State' = WithoutOrder(State, id)
    <3>1. Shaped(WithoutOrder(State, id))
      BY <2>1, CancelledState DEF Sound
    <3>. QED BY <2>1, <3>1, StateBecomes
  <2>3. Exactly'
    BY <1>2, <2>1, <2>2 DEF Exactly
  <2>4. taker' = None
    BY <2>1 DEF QInv, Called
  <2>. QED BY <2>3, <2>4 DEF FInv, Supplied
<1>5. CASE MatchOrders
  BY <1>0, <1>5, ScanFInv, FillFInv, CloseFInv DEF MatchOrders
<1>6. CASE Return
  <2>1. State' = State /\ taker' = None /\ (collided' = "never" => collided = "never")
    BY <1>6 DEF Return, state, State
  <2>. QED BY <2>1 DEF FInv, Exactly, Supplied
<1>7. CASE UNCHANGED vars
  <2>1. /\ State' = State /\ orders' = orders /\ phase' = phase /\ taker' = taker /\ collided' = collided
    BY <1>7 DEF vars, state, history, State
  <2>. QED BY <2>1 DEF FInv, Exactly, Supplied
<1>. QED BY <1>1, <1>3, <1>4, <1>5, <1>6, <1>7 DEF Next

LEMMA FInvariance == Spec /\ []FewRest => [](IInv /\ QInv /\ FInv)
<1>1. Init => IInv /\ QInv /\ FInv
  BY InitIInv, InitQInv, InitFInv
<1>2. IInv /\ QInv /\ FInv /\ FewRest /\ FewRest' /\ [Next]_vars => (IInv /\ QInv /\ FInv)'
  BY IInvKept, QInvKept, FInvKept
<1>. QED BY <1>1, <1>2, PTL DEF Spec

\* levelData_ says of each price what the lists hold there, modulo the width of a
\* quantity, if never more orders rest than a count can count and no level was
\* closed while the other side kept orders at its price.
THEOREM LevelDataExactHolds == Spec /\ []FewRest => []LevelDataExactUntilCollision
<1>1. IInv /\ QInv /\ FInv /\ FewRest => LevelDataExactUntilCollision
  <2>. SUFFICES ASSUME IInv, QInv, FInv, FewRest, AtRest, collided = "never"
                PROVE  /\ DOMAIN levelData = Levels(book, "Buy") \cup Levels(book, "Sell")
                       /\ \A p \in DOMAIN levelData :
                            LET here == Resting("Buy", p) \cup Resting("Sell", p)
                            IN levelData[p] = [quantity |-> SumFunctionOnSet(Remaining, here) % Wrap,
                                               count |-> Cardinality(here)]
    BY DEF LevelDataExactUntilCollision
  <2>1. Exact(State) /\ Countable(State) /\ DOMAIN levelData \subseteq Prices
    <3>1. Few(State)
      BY StateParts DEF Few, FewRest, QInv
    <3>. QED BY <3>1, SoundCountable, StateParts DEF FInv, Exactly, IInv, Sound, Summaries
  <2>2. \A i \in DOMAIN orders : orders[i].side \in Sides /\ orders[i].price \in Levels(book, orders[i].side)
    BY StateParts DEF IInv, Sound, Entries, Entry
  <2>3. ASSUME NEW p
        PROVE  Priced(State, p) = Resting("Buy", p) \cup Resting("Sell", p)
    BY <2>2, StateParts DEF Priced, Resting, Sides
  <2>4. ASSUME NEW p \in Prices
        PROVE  /\ p \in DOMAIN levelData <=> Priced(State, p) # {}
               /\ p \in DOMAIN levelData =>
                    levelData[p] = [quantity |-> Total(State, p) % Wrap,
                                    count |-> Cardinality(Priced(State, p))]
    <3>1. Summed(levelData, p, Total(State, p), Cardinality(Priced(State, p)))
      BY <2>1, StateParts DEF Exact
    <3>2. Cardinality(Priced(State, p)) = 0 <=> Priced(State, p) = {}
      BY <2>1, PricedParts
    <3>. QED BY <3>1, <3>2 DEF Summed
  <2>5. ASSUME NEW side \in Sides, NEW p \in Levels(book, side)
        PROVE  p \in Prices /\ Priced(State, p) # {}
    <3>1. p \in Prices
      BY StateParts DEF IInv, Sound, FiniteLevels
    <3>2. book[side][p] \in Seq(Ids) /\ book[side][p] # <<>> /\ ToSet(book[side][p]) = At(State, side, p)
      BY StateParts DEF IInv, Sound, Queued, Emptied, AtRest
    <3>3. book[side][p][1] \in ToSet(book[side][p])
      BY <3>2 DEF ToSet
    <3>. QED BY <3>1, <3>2, <3>3 DEF At, Priced
  <2>6. DOMAIN levelData = Levels(book, "Buy") \cup Levels(book, "Sell")
    <3>1. ASSUME NEW p \in DOMAIN levelData PROVE p \in Levels(book, "Buy") \cup Levels(book, "Sell")
      <4>1. PICK i \in DOMAIN orders : orders[i].price = p
        BY <2>1, <2>4, StateParts DEF Priced
      <4>. QED BY <2>2, <4>1 DEF Sides
    <3>2. ASSUME NEW p \in Levels(book, "Buy") \cup Levels(book, "Sell") PROVE p \in DOMAIN levelData
      BY <2>4, <2>5 DEF Sides
    <3>. QED BY <3>1, <3>2
  <2>7. \A p : Total(State, p) = SumFunctionOnSet(Remaining, Priced(State, p))
    BY StateParts DEF Total, Left, Remaining
  <2>. QED BY <2>1, <2>3, <2>4, <2>6, <2>7
<1>. QED BY FInvariance, <1>1, PTL

\* CanFullyFill(): a fill-or-kill order that is accepted is filled completely
\* within its call, under the same conditions on the calls before.
THEOREM FillOrKillFillsHolds == Spec /\ []FewRest => []FillOrKillFillsUntilCollision
<1>1. QInv /\ FInv => FillOrKillFillsUntilCollision
  <2>. SUFFICES ASSUME QInv, FInv, phase = "done", taker # None, taker.type = "FillOrKill",
                       collided # "before"
                PROVE  Traded(taker.id) = taker.initial
    BY DEF FillOrKillFillsUntilCollision
  <2>1. taker.id \notin DOMAIN orders
    BY DEF FInv, Supplied
  <2>. QED BY <2>1, TradedParts DEF QInv, Accounted
<1>. QED BY FInvariance, <1>1, PTL
===============================================================================
