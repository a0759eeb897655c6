------------------------------ MODULE TraderProofs ------------------------------
(***************************************************************************)
(* Proofs about Trader and its library TradeMetrics: that what the library *)
(* says of a list of fills is right, that the client recognises the trades *)
(* of its orders, and that its fills give its position.                    *)
(*                                                                         *)
(* The library folds over lists.  There is no induction over data here: a  *)
(* fold is known item by item because two functions of the same equations  *)
(* have no smallest difference, and what holds along a list has no first   *)
(* exception.                                                              *)
(***************************************************************************)
EXTENDS Trader, Sums, SequenceTheorems

-------------------------------------------------------------------------------
(* The folds of the library take a list item by item.  Facts about any fold *)
(* are stated of a record that says which: its start, its step and, for     *)
(* some, what else the step looks at.                                       *)

PositionFold == [name |-> "position", start |-> PositionState]
KeepFold == [name |-> "keep", start |-> <<>>]
GainFold == [name |-> "gain", start |-> Whole(0)]
LossFold == [name |-> "loss", start |-> Whole(0)]
DrawdownFold == [name |-> "drawdown", start |-> NoDrawdown]
DurationFold(curve) == [name |-> "duration", start |-> [peak |-> 1, longest |-> 0], curve |-> curve]

Step(k, state, x) ==
  CASE k.name = "position" -> Apply(state, x)
    [] k.name = "keep" -> Keep(state, x)
    [] k.name = "gain" -> AddGain(state, x)
    [] k.name = "loss" -> AddLoss(state, x)
    [] k.name = "drawdown" -> Drawdown(state, x)
    [] k.name = "duration" -> Duration(k.curve, state, x)

\* The function inside a fold, over the subsets of S.
Pass(k, g, fl, s) == IF s = {} THEN k.start ELSE Step(k, g[s \ {Max(s)}], fl[Max(s)])
Passes(k, g, fl, S) == g = [s \in SUBSET S |-> Pass(k, g, fl, s)]

\* What it comes to over S.
Passed(k, fl, S) == (CHOOSE g : Passes(k, g, fl, S))[S]

Folded(k, fl) == Passed(k, fl, DOMAIN fl)

LEMMA PassesApplied ==
  ASSUME NEW k, NEW fl, NEW S, NEW g, Passes(k, g, fl, S), NEW s \in SUBSET S
  PROVE  g[s] = Pass(k, g, fl, s)
BY DEF Passes

Numbers(S) == S \subseteq Int /\ IsFiniteSet(S)

LEMMA NumbersWithin == ASSUME NEW S, Numbers(S), NEW s \in SUBSET S PROVE Numbers(s)
BY FS_Subset DEF Numbers

LEMMA LastOf ==
  ASSUME NEW S, Numbers(S), NEW s \in SUBSET S, s # {}
  PROVE  Max(s) \in s
BY NumbersWithin, MaxExists DEF Numbers

\* Two such functions agree where both are defined and the fills are the same.
LEMMA PassesAgree ==
  ASSUME NEW k, NEW S, Numbers(S), NEW T \in SUBSET S,
         NEW fl, NEW gl, \A n \in T : gl[n] = fl[n],
         NEW g, Passes(k, g, fl, S), NEW h, Passes(k, h, gl, T)
  PROVE  \A s \in SUBSET T : g[s] = h[s]
<1>. DEFINE Bad == {s \in SUBSET T : g[s] # h[s]}
<1>. SUFFICES ASSUME Bad # {} PROVE FALSE
  OBVIOUS
<1>1. PICK s \in Bad : \A t \in Bad : t \subseteq s => t = s
  <2>1. Bad \subseteq SUBSET S
    OBVIOUS
  <2>. HIDE DEF Bad
  <2>2. IsFiniteSet(S)
    BY DEF Numbers
  <2>. QED BY <2>1, <2>2, Smallest
<1>2. s \in SUBSET S /\ s \in SUBSET T /\ g[s] # h[s]
  OBVIOUS
<1>3. g[s] = Pass(k, g, fl, s) /\ h[s] = Pass(k, h, gl, s)
  BY <1>2, PassesApplied
<1>4. s # {} /\ Max(s) \in s
  <2>1. s # {}
    BY <1>2, <1>3 DEF Pass
  <2>. QED BY <1>2, <2>1, LastOf
<1>. DEFINE m == Max(s)
<1>. HIDE DEF m
<1>5. s \ {m} \in SUBSET T /\ s \ {m} # s /\ gl[m] = fl[m]
  BY <1>2, <1>4 DEF m
<1>6. g[s \ {m}] = h[s \ {m}]
  <2>1. s \ {m} \notin Bad
    BY <1>1, <1>5
  <2>. QED BY <1>5, <2>1
<1>. QED BY <1>2, <1>3, <1>4, <1>5, <1>6 DEF m, Pass

LEMMA PassesExist ==
  ASSUME NEW k, NEW fl, NEW S, Numbers(S)
  PROVE  \E g : Passes(k, g, fl, S)
<1>. DEFINE Bad == {s \in SUBSET S : ~ \E g : Passes(k, g, fl, s)}
<1>. SUFFICES ASSUME Bad # {} PROVE FALSE
  <2>1. S \in SUBSET S
    OBVIOUS
  <2>. QED BY <2>1
<1>1. PICK s \in Bad : \A t \in Bad : t \subseteq s => t = s
  <2>1. Bad \subseteq SUBSET S
    OBVIOUS
  <2>. HIDE DEF Bad
  <2>2. IsFiniteSet(S)
    BY DEF Numbers
  <2>. QED BY <2>1, <2>2, Smallest
<1>2. s \in SUBSET S /\ Numbers(s)
  <2>1. s \in SUBSET S
    OBVIOUS
  <2>. HIDE DEF Bad
  <2>. QED BY <2>1, NumbersWithin
<1>. DEFINE P(t) == Passed(k, fl, t)
            G == [t \in SUBSET s |-> IF t = {} THEN k.start ELSE Step(k, P(t \ {Max(t)}), fl[Max(t)])]
<1>3. ASSUME NEW t \in SUBSET s, t # s
      PROVE  \E g : Passes(k, g, fl, t) /\ P(t) = g[t]
  <2>1. t \notin Bad /\ t \in SUBSET S
    BY <1>1, <1>2, <1>3
  <2>2. \E g : Passes(k, g, fl, t)
    BY <2>1
  <2>3. Passes(k, CHOOSE g : Passes(k, g, fl, t), fl, t)
    BY <2>2
  <2>. QED BY <2>3 DEF Passed
<1>. HIDE DEF P, Bad
<1>4. ASSUME NEW t \in SUBSET s, t # s
      PROVE  P(t) = IF t = {} THEN k.start ELSE Step(k, P(t \ {Max(t)}), fl[Max(t)])
  <2>1. PICK g : Passes(k, g, fl, t) /\ P(t) = g[t]
    BY <1>3, <1>4
  <2>2. g[t] = IF t = {} THEN k.start ELSE Step(k, g[t \ {Max(t)}], fl[Max(t)])
    BY <2>1, PassesApplied DEF Pass
  <2>3. CASE t = {}
    BY <2>1, <2>2, <2>3
  <2>4. CASE t # {}
    <3>. DEFINE u == t \ {Max(t)}
    <3>1. Max(t) \in t
      BY <1>2, <2>4, LastOf
    <3>2. u \in SUBSET s /\ u # s /\ u \in SUBSET t /\ u \in SUBSET u
      BY <1>4, <3>1
    <3>. HIDE DEF u
    <3>3. PICK h : Passes(k, h, fl, u) /\ P(u) = h[u]
      BY <1>3, <3>2
    <3>4. Numbers(t)
      BY <1>2, NumbersWithin
    <3>5. \A n \in u : fl[n] = fl[n]
      OBVIOUS
    <3>6. \A v \in SUBSET u : g[v] = h[v]
      BY <2>1, <3>2, <3>3, <3>4, <3>5, PassesAgree
    <3>7. g[u] = h[u]
      BY <3>2, <3>6
    <3>. QED BY <2>1, <2>2, <2>4, <3>3, <3>7 DEF u
  <2>. QED BY <2>3, <2>4
<1>5. ASSUME NEW t \in SUBSET s, t # {}
      PROVE  G[t \ {Max(t)}] = P(t \ {Max(t)})
  <2>. DEFINE u == t \ {Max(t)}
  <2>1. Max(t) \in t
    BY <1>2, <1>5, LastOf
  <2>2. u \in SUBSET s /\ u # s
    BY <1>5, <2>1
  <2>. HIDE DEF u
  <2>3. P(u) = IF u = {} THEN k.start ELSE Step(k, P(u \ {Max(u)}), fl[Max(u)])
    BY <1>4, <2>2
  <2>4. G[u] = P(u)
    BY <2>2, <2>3
  <2>. QED BY <2>4 DEF u
<1>6. Passes(k, G, fl, s)
  <2>1. \A t \in SUBSET s :
          G[t] = IF t = {} THEN k.start ELSE Step(k, G[t \ {Max(t)}], fl[Max(t)])
    <3>. SUFFICES ASSUME NEW t \in SUBSET s
                  PROVE  G[t] = IF t = {} THEN k.start ELSE Step(k, G[t \ {Max(t)}], fl[Max(t)])
      OBVIOUS
    <3>1. G[t] = IF t = {} THEN k.start ELSE Step(k, P(t \ {Max(t)}), fl[Max(t)])
      OBVIOUS
    <3>. HIDE DEF G
    <3>. QED BY <3>1, <1>5
  <2>2. G = [t \in SUBSET s |-> G[t]]
    OBVIOUS
  <2>. HIDE DEF G
  <2>. QED BY <2>1, <2>2 DEF Passes, Pass
<1>. HIDE DEF G
<1>. QED BY <1>1, <1>6 DEF Bad

\* One item more is one step more.
LEMMA FoldAppended ==
  ASSUME NEW k, NEW R, NEW fl \in Seq(R), NEW x \in R
  PROVE  Folded(k, Append(fl, x)) = Step(k, Folded(k, fl), x)
<1>. DEFINE gl == Append(fl, x)
            m == Len(fl) + 1
            S == DOMAIN gl
            T == DOMAIN fl
<1>1. /\ Len(fl) \in Nat /\ T = 1 .. Len(fl) /\ S = 1 .. m
      /\ gl[m] = x /\ \A n \in 1 .. Len(fl) : gl[n] = fl[n]
  BY AppendProperties
<1>2. Numbers(S) /\ Numbers(T)
  <2>1. S \subseteq Int /\ T \subseteq Int
    BY <1>1
  <2>2. IsFiniteSet(1 .. Len(fl)) /\ IsFiniteSet(1 .. m)
    BY <1>1, FS_Interval
  <2>. QED BY <1>1, <2>1, <2>2 DEF Numbers
<1>3. S # {} /\ Max(S) = m
  <2>1. m \in S /\ \A n \in S : n <= m
    BY <1>1
  <2>. HIDE DEF S
  <2>2. Max(S) \in S /\ \A n \in S : n <= Max(S)
    BY <1>2, <2>1, MaxExists DEF Numbers
  <2>3. m <= Max(S) /\ Max(S) <= m /\ m \in Int /\ Max(S) \in Int
    BY <1>1, <1>2, <2>1, <2>2 DEF Numbers
  <2>. QED BY <2>1, <2>3
<1>4. S \ {m} = T /\ T \in SUBSET S /\ \A n \in T : fl[n] = gl[n]
  BY <1>1
<1>5. Folded(k, gl) = Passed(k, gl, S) /\ Folded(k, fl) = Passed(k, fl, T)
  BY DEF Folded
<1>. HIDE DEF gl, m, S, T
<1>6. PICK g : Passes(k, g, gl, S) /\ Folded(k, gl) = g[S]
  <2>1. \E g : Passes(k, g, gl, S)
    BY <1>2, PassesExist
  <2>2. Passes(k, CHOOSE g : Passes(k, g, gl, S), gl, S)
    BY <2>1
  <2>. QED BY <1>5, <2>2 DEF Passed
<1>7. PICK h : Passes(k, h, fl, T) /\ Folded(k, fl) = h[T]
  <2>1. \E h : Passes(k, h, fl, T)
    BY <1>2, PassesExist
  <2>2. Passes(k, CHOOSE h : Passes(k, h, fl, T), fl, T)
    BY <2>1
  <2>. QED BY <1>5, <2>2 DEF Passed
<1>8. g[S] = Step(k, g[T], x)
  <2>1. S \in SUBSET S
    OBVIOUS
  <2>2. g[S] = Pass(k, g, gl, S)
    BY <1>6, <2>1, PassesApplied
  <2>3. g[S] = Step(k, g[S \ {m}], gl[m])
    BY <1>3, <2>2 DEF Pass
  <2>. QED BY <1>1, <1>4, <2>3
<1>9. g[T] = h[T]
  <2>1. T \in SUBSET T
    OBVIOUS
  <2>. QED BY <1>2, <1>4, <1>6, <1>7, <2>1, PassesAgree
<1>. QED BY <1>6, <1>7, <1>8, <1>9 DEF gl

LEMMA FoldEmpty == \A k : Folded(k, <<>>) = k.start
<1>. SUFFICES ASSUME NEW k PROVE Folded(k, <<>>) = k.start
  OBVIOUS
<1>1. DOMAIN <<>> = {}
  OBVIOUS
<1>2. Passes(k, CHOOSE g : Passes(k, g, <<>>, {}), <<>>, {})
  <2>1. \E g : Passes(k, g, <<>>, {})
    BY FS_EmptySet, PassesExist DEF Numbers
  <2>. QED BY <2>1
<1>. DEFINE g == CHOOSE g : Passes(k, g, <<>>, {})
<1>3. g[{}] = k.start
  <2>. HIDE DEF g
  <2>1. {} \in SUBSET {}
    OBVIOUS
  <2>. QED BY <1>2, <2>1, PassesApplied DEF g, Pass
<1>. QED BY <1>1, <1>3 DEF Folded, Passed

LEMMA ListIndices ==
  ASSUME NEW R, NEW fl \in Seq(R)
  PROVE  Numbers(DOMAIN fl) /\ DOMAIN fl = 1 .. Len(fl) /\ Len(fl) \in Nat
<1>1. DOMAIN fl = 1 .. Len(fl) /\ Len(fl) \in Nat
  OBVIOUS
<1>2. IsFiniteSet(1 .. Len(fl)) /\ 1 .. Len(fl) \subseteq Int
  BY <1>1, FS_Interval
<1>. QED BY <1>1, <1>2 DEF Numbers

\* Whatever function satisfies a fold's equation gives its value.
LEMMA FoldedBy ==
  ASSUME NEW k, NEW fl, Numbers(DOMAIN fl), NEW g, Passes(k, g, fl, DOMAIN fl)
  PROVE  g[DOMAIN fl] = Folded(k, fl)
<1>. DEFINE D == DOMAIN fl
            h == CHOOSE h : Passes(k, h, fl, D)
<1>1. Passes(k, h, fl, D) /\ Passes(k, g, fl, D) /\ Numbers(D)
  BY DEF h
<1>2. Folded(k, fl) = h[D]
  BY DEF Folded, Passed
<1>. HIDE DEF D, h
<1>3. PICK T \in SUBSET D : T = D
  OBVIOUS
<1>4. \A s \in SUBSET T : h[s] = g[s]
  <2>1. Passes(k, g, fl, T) /\ \A n \in T : fl[n] = fl[n]
    BY <1>1, <1>3
  <2>. QED BY <1>1, <2>1, PassesAgree
<1>5. D \in SUBSET T
  BY <1>3
<1>. QED BY <1>2, <1>4, <1>5 DEF D

LEMMA PositionIsFold ==
  ASSUME NEW fl, Numbers(DOMAIN fl)
  PROVE  Position(fl) = Folded(PositionFold, fl)
<1>. DEFINE D == DOMAIN fl
            Own(g) == g = [s \in SUBSET D |->
                             IF s = {} THEN PositionState ELSE Apply(g[s \ {Max(s)}], fl[Max(s)])]
            h == CHOOSE g : Own(g)
<1>1. Position(fl) = h[D]
  BY DEF Position, FoldLeft, MapThenFoldSet
<1>2. \A g : Own(g) <=> Passes(PositionFold, g, fl, D)
  BY DEF Passes, Pass, Step, PositionFold
<1>3. \E g : Passes(PositionFold, g, fl, D)
  BY PassesExist
<1>4. Own(h)
  BY <1>2, <1>3
<1>. HIDE DEF h, Own, D
<1>. QED BY <1>1, <1>2, <1>4, FoldedBy DEF D

LEMMA KeptIsFold ==
  ASSUME NEW fl, Numbers(DOMAIN fl)
  PROVE  FoldLeft(Keep, <<>>, fl) = Folded(KeepFold, fl)
<1>. DEFINE D == DOMAIN fl
            Own(g) == g = [s \in SUBSET D |->
                             IF s = {} THEN <<>> ELSE Keep(g[s \ {Max(s)}], fl[Max(s)])]
            h == CHOOSE g : Own(g)
<1>1. FoldLeft(Keep, <<>>, fl) = h[D]
  BY DEF KeepFold, FoldLeft, MapThenFoldSet
<1>2. \A g : Own(g) <=> Passes(KeepFold, g, fl, D)
  BY DEF Passes, Pass, Step, KeepFold
<1>3. \E g : Passes(KeepFold, g, fl, D)
  BY PassesExist
<1>4. Own(h)
  BY <1>2, <1>3
<1>. HIDE DEF h, Own, D
<1>. QED BY <1>1, <1>2, <1>4, FoldedBy DEF D

LEMMA GainsIsFold ==
  ASSUME NEW fl, Numbers(DOMAIN fl)
  PROVE  Gains(fl) = Folded(GainFold, fl)
<1>. DEFINE D == DOMAIN fl
            Own(g) == g = [s \in SUBSET D |->
                             IF s = {} THEN Whole(0) ELSE AddGain(g[s \ {Max(s)}], fl[Max(s)])]
            h == CHOOSE g : Own(g)
<1>1. Gains(fl) = h[D]
  BY DEF Gains, FoldLeft, MapThenFoldSet
<1>2. \A g : Own(g) <=> Passes(GainFold, g, fl, D)
  BY DEF Passes, Pass, Step, GainFold
<1>3. \E g : Passes(GainFold, g, fl, D)
  BY PassesExist
<1>4. Own(h)
  BY <1>2, <1>3
<1>. HIDE DEF h, Own, D
<1>. QED BY <1>1, <1>2, <1>4, FoldedBy DEF D

LEMMA LossesIsFold ==
  ASSUME NEW fl, Numbers(DOMAIN fl)
  PROVE  FoldLeft(AddLoss, Whole(0), fl) = Folded(LossFold, fl)
<1>. DEFINE D == DOMAIN fl
            Own(g) == g = [s \in SUBSET D |->
                             IF s = {} THEN Whole(0) ELSE AddLoss(g[s \ {Max(s)}], fl[Max(s)])]
            h == CHOOSE g : Own(g)
<1>1. FoldLeft(AddLoss, Whole(0), fl) = h[D]
  BY DEF LossFold, FoldLeft, MapThenFoldSet
<1>2. \A g : Own(g) <=> Passes(LossFold, g, fl, D)
  BY DEF Passes, Pass, Step, LossFold
<1>3. \E g : Passes(LossFold, g, fl, D)
  BY PassesExist
<1>4. Own(h)
  BY <1>2, <1>3
<1>. HIDE DEF h, Own, D
<1>. QED BY <1>1, <1>2, <1>4, FoldedBy DEF D

LEMMA DrawdownIsFold ==
  ASSUME NEW fl, Numbers(DOMAIN fl)
  PROVE  FoldLeft(Drawdown, NoDrawdown, fl) = Folded(DrawdownFold, fl)
<1>. DEFINE D == DOMAIN fl
            Own(g) == g = [s \in SUBSET D |->
                             IF s = {} THEN NoDrawdown ELSE Drawdown(g[s \ {Max(s)}], fl[Max(s)])]
            h == CHOOSE g : Own(g)
<1>1. FoldLeft(Drawdown, NoDrawdown, fl) = h[D]
  BY DEF DrawdownFold, FoldLeft, MapThenFoldSet
<1>2. \A g : Own(g) <=> Passes(DrawdownFold, g, fl, D)
  BY DEF Passes, Pass, Step, DrawdownFold
<1>3. \E g : Passes(DrawdownFold, g, fl, D)
  BY PassesExist
<1>4. Own(h)
  BY <1>2, <1>3
<1>. HIDE DEF h, Own, D
<1>. QED BY <1>1, <1>2, <1>4, FoldedBy DEF D

LEMMA DurationIsFold ==
  ASSUME NEW curve, NEW fl, Numbers(DOMAIN fl)
  PROVE  FoldLeft(LAMBDA pass, i : Duration(curve, pass, i), [peak |-> 1, longest |-> 0], fl) = Folded(DurationFold(curve), fl)
<1>. DEFINE D == DOMAIN fl
            Own(g) == g = [s \in SUBSET D |->
                             IF s = {} THEN [peak |-> 1, longest |-> 0] ELSE Duration(curve, g[s \ {Max(s)}], fl[Max(s)])]
            h == CHOOSE g : Own(g)
<1>1. FoldLeft(LAMBDA pass, i : Duration(curve, pass, i), [peak |-> 1, longest |-> 0], fl) = h[D]
  BY DEF DurationFold, FoldLeft, MapThenFoldSet
<1>2. \A g : Own(g) <=> Passes(DurationFold(curve), g, fl, D)
  BY DEF Passes, Pass, Step, DurationFold
<1>3. \E g : Passes(DurationFold(curve), g, fl, D)
  BY PassesExist
<1>4. Own(h)
  BY <1>2, <1>3
<1>. HIDE DEF h, Own, D
<1>. QED BY <1>1, <1>2, <1>4, FoldedBy DEF D

-------------------------------------------------------------------------------
(* Along a list.                                                             *)

\* What the fold has come to after i items.
Upto(k, fl, i) == Folded(k, SubSeq(fl, 1, i))

\* Induction along a list, with a set for the indices where something holds.
LEMMA Along ==
  ASSUME NEW n \in Nat, NEW Good, 0 \in Good, \A i \in 1 .. n : i - 1 \in Good => i \in Good
  PROVE  \A i \in 0 .. n : i \in Good
<1>. DEFINE Bad == (0 .. n) \ Good
<1>. SUFFICES ASSUME Bad # {} PROVE FALSE
  OBVIOUS
<1>1. Bad \subseteq Int /\ IsFiniteSet(Bad)
  <2>1. Bad \subseteq Int /\ Bad \in SUBSET (0 .. n)
    OBVIOUS
  <2>2. IsFiniteSet(0 .. n)
    BY FS_Interval
  <2>. HIDE DEF Bad
  <2>3. IsFiniteSet(Bad)
    BY <2>1, <2>2, FS_Subset
  <2>. QED BY <2>1, <2>3
<1>2. PICK m \in Bad : \A i \in Bad : m <= i
  <2>. HIDE DEF Bad
  <2>. QED BY <1>1, MinExists
<1>3. m # 0 /\ m \in 1 .. n
  OBVIOUS
<1>4. m - 1 \notin Bad /\ m - 1 \in 0 .. n
  <2>1. m - 1 \in 0 .. n /\ ~(m <= m - 1)
    BY <1>3
  <2>. QED BY <1>2, <2>1
<1>. QED BY <1>3, <1>4

LEMMA Prefix ==
  ASSUME NEW R, NEW fl \in Seq(R), NEW i \in 1 .. Len(fl)
  PROVE  /\ SubSeq(fl, 1, i - 1) \in Seq(R) /\ fl[i] \in R
         /\ SubSeq(fl, 1, i) = Append(SubSeq(fl, 1, i - 1), fl[i])
<1>. DEFINE s == SubSeq(fl, 1, i - 1)
            t == SubSeq(fl, 1, i)
<1>1. fl[i] \in R /\ i \in Nat /\ i - 1 \in Nat /\ Len(fl) \in Nat
  OBVIOUS
<1>2. s \in Seq(R) /\ Len(s) = i - 1 /\ \A n \in 1 .. i - 1 : s[n] = fl[n]
  OBVIOUS
<1>3. t \in Seq(R) /\ Len(t) = i /\ \A n \in 1 .. i : t[n] = fl[n]
  OBVIOUS
<1>. HIDE DEF s, t
<1>4. /\ Append(s, fl[i]) \in Seq(R) /\ Len(Append(s, fl[i])) = i
      /\ \A n \in 1 .. i : Append(s, fl[i])[n] = fl[n]
  <2>1. /\ Append(s, fl[i]) \in Seq(R) /\ Len(Append(s, fl[i])) = Len(s) + 1
        /\ \A n \in 1 .. Len(s) : Append(s, fl[i])[n] = s[n]
        /\ Append(s, fl[i])[Len(s) + 1] = fl[i]
    BY <1>1, <1>2, AppendProperties
  <2>. QED BY <1>1, <1>2, <2>1
<1>5. t = Append(s, fl[i])
  BY <1>3, <1>4, SeqEqual
<1>. QED BY <1>1, <1>2, <1>5 DEF s, t

LEMMA FoldAlong ==
  ASSUME NEW k, NEW R, NEW fl \in Seq(R)
  PROVE  /\ Upto(k, fl, 0) = k.start /\ Upto(k, fl, Len(fl)) = Folded(k, fl)
         /\ \A i \in 1 .. Len(fl) : Upto(k, fl, i) = Step(k, Upto(k, fl, i - 1), fl[i])
<1>1. SubSeq(fl, 1, 0) = <<>> /\ SubSeq(fl, 1, Len(fl)) = fl
  <2>1. SubSeq(fl, 1, 0) = <<>>
    BY SubSeqEmpty
  <2>2. SubSeq(fl, 1, Len(fl)) = fl
    BY SubSeqFull
  <2>. QED BY <2>1, <2>2
<1>2. ASSUME NEW i \in 1 .. Len(fl)
      PROVE  Upto(k, fl, i) = Step(k, Upto(k, fl, i - 1), fl[i])
  <2>. DEFINE s == SubSeq(fl, 1, i - 1)
  <2>1. s \in Seq(R) /\ fl[i] \in R /\ SubSeq(fl, 1, i) = Append(s, fl[i])
    BY Prefix
  <2>. HIDE DEF s
  <2>2. Folded(k, Append(s, fl[i])) = Step(k, Folded(k, s), fl[i])
    BY <2>1, FoldAppended
  <2>. QED BY <2>1, <2>2 DEF Upto, s
<1>. QED BY <1>1, <1>2, FoldEmpty DEF Upto

-------------------------------------------------------------------------------
(* Fractions.                                                                *)

Fraction == [n : Int, d : Nat \ {0}]

LEMMA Products ==
  /\ \A a, b \in Nat \ {0} : a * b \in Nat \ {0}
  /\ \A a, b \in Int : a * b \in Int
BY SMT

LEMMA Cancel ==
  ASSUME NEW x \in Int, NEW y \in Int, NEW z \in Nat \ {0}
  PROVE  /\ x < y => x * z < y * z
         /\ x * z < y * z => x < y
         /\ x * z = y * z => x = y
BY SMT

LEMMA PlusIs ==
  ASSUME NEW a \in Fraction, NEW b \in Fraction
  PROVE  /\ Plus(a, b) = [n |-> a.n * b.d + b.n * a.d, d |-> a.d * b.d]
         /\ Minus(a, b) = [n |-> a.n * b.d - b.n * a.d, d |-> a.d * b.d]
         /\ Plus(a, b) \in Fraction /\ Minus(a, b) \in Fraction
<1>1. a.n \in Int /\ b.n \in Int /\ a.d \in Nat \ {0} /\ b.d \in Nat \ {0}
  BY DEF Fraction
<1>2. a.d * b.d \in Nat \ {0} /\ a.n * b.d \in Int /\ b.n * a.d \in Int
  BY <1>1, Products
<1>3. ~(a.d * b.d < 0)
  BY <1>2
<1>4. a.n * b.d + b.n * a.d \in Int /\ a.n * b.d - b.n * a.d \in Int
  BY <1>2
<1>. QED BY <1>2, <1>3, <1>4 DEF Plus, Minus, Frac, Fraction

\* What a fraction is made of.
Quotient(x, n, d) == x \in Fraction /\ x.n = n /\ x.d = d

LEMMA QuotientPlus ==
  ASSUME NEW a, NEW an, NEW ad, Quotient(a, an, ad), NEW b, NEW bn, NEW bd, Quotient(b, bn, bd)
  PROVE  /\ Quotient(Plus(a, b), an * bd + bn * ad, ad * bd)
         /\ Quotient(Minus(a, b), an * bd - bn * ad, ad * bd)
<1>. DEFINE sn == a.n * b.d + b.n * a.d
            mn == a.n * b.d - b.n * a.d
            d == a.d * b.d
<1>1. a \in Fraction /\ b \in Fraction /\ a.n = an /\ a.d = ad /\ b.n = bn /\ b.d = bd
  BY DEF Quotient
<1>2. /\ Plus(a, b) = [n |-> sn, d |-> d] /\ Plus(a, b) \in Fraction
      /\ Minus(a, b) = [n |-> mn, d |-> d] /\ Minus(a, b) \in Fraction
  BY <1>1, PlusIs
<1>3. sn = an * bd + bn * ad /\ mn = an * bd - bn * ad /\ d = ad * bd
  BY <1>1
<1>. HIDE DEF sn, mn, d
<1>4. Quotient(Plus(a, b), sn, d) /\ Quotient(Minus(a, b), mn, d)
  BY <1>2 DEF Quotient
<1>. QED BY <1>3, <1>4

LEMMA TimesIs ==
  ASSUME NEW a \in Fraction, NEW k \in Int
  PROVE  Times(a, k) = [n |-> a.n * k, d |-> a.d] /\ Times(a, k) \in Fraction
<1>1. a.n \in Int /\ a.d \in Nat \ {0} /\ ~(a.d < 0)
  BY DEF Fraction
<1>2. a.n * k \in Int
  BY <1>1, Products
<1>. QED BY <1>1, <1>2 DEF Times, Frac, Fraction

LEMMA WholeIs ==
  ASSUME NEW k \in Int
  PROVE  Whole(k) = [n |-> k, d |-> 1] /\ Whole(k) \in Fraction
BY DEF Whole, Frac, Fraction

LEMMA OverIs ==
  ASSUME NEW a \in Fraction, NEW k \in Int, k # 0
  PROVE  Over(a, k) \in Fraction /\ Over(a, k).n * (a.d * k) = a.n * Over(a, k).d
<1>1. a.n \in Int /\ a.d \in Nat \ {0}
  BY DEF Fraction
<1>. DEFINE m == a.d * k
<1>2. m \in Int /\ m # 0
  BY <1>1, SMT
<1>. HIDE DEF m
<1>3. CASE m < 0
  <2>1. Frac(a.n, m) = [n |-> -a.n, d |-> -m]
    BY <1>3 DEF Frac
  <2>2. (-a.n) * m = a.n * (-m)
    BY <1>1, <1>2, SMT
  <2>. QED BY <1>1, <1>2, <1>3, <2>1, <2>2 DEF Over, m, Fraction
<1>4. CASE ~(m < 0)
  <2>1. Frac(a.n, m) = [n |-> a.n, d |-> m]
    BY <1>4 DEF Frac
  <2>. QED BY <1>1, <1>2, <1>4, <2>1 DEF Over, m, Fraction
<1>. QED BY <1>3, <1>4

LEMMA SameTransitive ==
  ASSUME NEW a \in Fraction, NEW b \in Fraction, NEW c \in Fraction, Same(a, b), Same(b, c)
  PROVE  Same(a, c)
<1>1. /\ a.n \in Int /\ b.n \in Int /\ c.n \in Int
      /\ a.d \in Nat \ {0} /\ b.d \in Nat \ {0} /\ c.d \in Nat \ {0}
  BY DEF Fraction
<1>2. a.n * b.d = b.n * a.d /\ b.n * c.d = c.n * b.d
  BY DEF Same
<1>3. (a.n * c.d) * b.d = (c.n * a.d) * b.d
  <2>1. (a.n * c.d) * b.d = (a.n * b.d) * c.d
    BY <1>1, SMT
  <2>2. (b.n * a.d) * c.d = (b.n * c.d) * a.d
    BY <1>1, SMT
  <2>3. (c.n * b.d) * a.d = (c.n * a.d) * b.d
    BY <1>1, SMT
  <2>. QED BY <1>2, <2>1, <2>2, <2>3
<1>4. a.n * c.d \in Int /\ c.n * a.d \in Int
  BY <1>1, Products
<1>. QED BY <1>1, <1>3, <1>4, Cancel DEF Same

\* The order of fractions.
LEMMA LessTransitive ==
  ASSUME NEW a \in Fraction, NEW b \in Fraction, NEW c \in Fraction, ~Less(b, a), ~Less(c, b)
  PROVE  /\ ~Less(c, a)
         /\ Less(a, b) \/ Less(b, c) => Less(a, c)
<1>1. /\ a.n \in Int /\ b.n \in Int /\ c.n \in Int
      /\ a.d \in Nat \ {0} /\ b.d \in Nat \ {0} /\ c.d \in Nat \ {0}
  BY DEF Fraction
<1>. DEFINE ab == a.n * b.d
            ba == b.n * a.d
            bc == b.n * c.d
            cb == c.n * b.d
            ac == a.n * c.d
            ca == c.n * a.d
<1>2. /\ ab \in Int /\ ba \in Int /\ bc \in Int /\ cb \in Int /\ ac \in Int /\ ca \in Int
  BY <1>1, Products
<1>3. ac * b.d = ab * c.d /\ ba * c.d = bc * a.d /\ cb * a.d = ca * b.d
  BY <1>1, SMT
<1>4. /\ Less(a, b) <=> ab < ba
      /\ Less(b, a) <=> ba < ab
      /\ Less(b, c) <=> bc < cb
      /\ Less(c, b) <=> cb < bc
      /\ Less(a, c) <=> ac < ca
      /\ Less(c, a) <=> ca < ac
  BY DEF Less
<1>. HIDE DEF ab, ba, bc, cb, ac, ca
<1>5. /\ ab = ba \/ ab < ba
      /\ bc = cb \/ bc < cb
  BY <1>2, <1>4
<1>6. /\ ab * c.d \in Int /\ ba * c.d \in Int /\ bc * a.d \in Int /\ cb * a.d \in Int
      /\ ac * b.d \in Int /\ ca * b.d \in Int
  BY <1>1, <1>2, Products
<1>7. /\ ab = ba => ab * c.d = ba * c.d
      /\ ab < ba => ab * c.d < ba * c.d
  BY <1>1, <1>2, Cancel
<1>8. /\ bc = cb => bc * a.d = cb * a.d
      /\ bc < cb => bc * a.d < cb * a.d
  BY <1>1, <1>2, Cancel
<1>9. /\ ~(ca * b.d < ac * b.d)
      /\ ab < ba \/ bc < cb => ac * b.d < ca * b.d
  BY <1>3, <1>5, <1>6, <1>7, <1>8
<1>10. /\ ca < ac => ca * b.d < ac * b.d
       /\ ac * b.d < ca * b.d => ac < ca
  BY <1>1, <1>2, Cancel
<1>. QED BY <1>4, <1>9, <1>10

LEMMA LessTotal ==
  ASSUME NEW a \in Fraction, NEW b \in Fraction
  PROVE  /\ Same(a, b) <=> ~Less(a, b) /\ ~Less(b, a)
         /\ ~(Less(a, b) /\ Less(b, a))
<1>1. a.n \in Int /\ b.n \in Int /\ a.d \in Nat \ {0} /\ b.d \in Nat \ {0}
  BY DEF Fraction
<1>2. a.n * b.d \in Int /\ b.n * a.d \in Int
  BY <1>1, Products
<1>. QED BY <1>2 DEF Same, Less

\* What is subtracted counts the other way.
LEMMA MinusFalls ==
  ASSUME NEW e \in Fraction, NEW p \in Fraction, NEW q \in Fraction, ~Less(p, q)
  PROVE  ~Less(Minus(e, q), Minus(e, p))
<1>1. /\ e.n \in Int /\ p.n \in Int /\ q.n \in Int
      /\ e.d \in Nat \ {0} /\ p.d \in Nat \ {0} /\ q.d \in Nat \ {0}
  BY DEF Fraction
<1>2. /\ Minus(e, p) = [n |-> e.n * p.d - p.n * e.d, d |-> e.d * p.d]
      /\ Minus(e, q) = [n |-> e.n * q.d - q.n * e.d, d |-> e.d * q.d]
  BY PlusIs
<1>. DEFINE z == e.d * e.d
<1>3. /\ (e.n * q.d - q.n * e.d) * (e.d * p.d) - (e.n * p.d - p.n * e.d) * (e.d * q.d)
          = (p.n * q.d) * z - (q.n * p.d) * z
  BY <1>1, SMT
<1>4. z \in Nat \ {0} /\ p.n * q.d \in Int /\ q.n * p.d \in Int
  BY <1>1, Products
<1>. HIDE DEF z
<1>5. ~((p.n * q.d) * z < (q.n * p.d) * z)
  BY <1>4, Cancel DEF Less
<1>6. /\ (e.n * q.d - q.n * e.d) * (e.d * p.d) \in Int
      /\ (e.n * p.d - p.n * e.d) * (e.d * q.d) \in Int
      /\ (p.n * q.d) * z \in Int /\ (q.n * p.d) * z \in Int
  BY <1>1, <1>4, SMT
<1>7. ~((e.n * q.d - q.n * e.d) * (e.d * p.d) < (e.n * p.d - p.n * e.d) * (e.d * q.d))
  BY <1>3, <1>5, <1>6
<1>. QED BY <1>2, <1>7 DEF Less

LEMMA MinusItself ==
  ASSUME NEW a \in Fraction
  PROVE  Minus(a, a).n = 0 /\ Same(Minus(a, a), Whole(0))
<1>. DEFINE x == a.n * a.d
            y == a.d * a.d
<1>1. x \in Int /\ y \in Int
  BY Products DEF Fraction
<1>2. Minus(a, a) = [n |-> x - x, d |-> y]
  BY PlusIs
<1>. HIDE DEF x, y
<1>3. Minus(a, a) = [n |-> 0, d |-> y]
  BY <1>1, <1>2
<1>4. Whole(0) = [n |-> 0, d |-> 1]
  BY WholeIs
<1>. QED BY <1>1, <1>3, <1>4 DEF Same

\* What the sign of a difference says.
LEMMA SignOf ==
  ASSUME NEW a \in Fraction, NEW b \in Fraction
  PROVE  /\ Minus(a, b).n < 0 <=> Less(a, b)
         /\ a.n = 0 /\ ~Less(b, a) => ~(b.n < 0)
         /\ a.n = 0 /\ ~Less(a, b) => ~(b.n > 0)
         /\ Same(a, b) /\ ~(a.n < 0) => ~(b.n < 0)
<1>1. a.n \in Int /\ b.n \in Int /\ a.d \in Nat \ {0} /\ b.d \in Nat \ {0}
  BY DEF Fraction
<1>. DEFINE x == a.n * b.d
            y == b.n * a.d
<1>2. x \in Int /\ y \in Int
  BY <1>1, Products
<1>3. Minus(a, b).n = x - y
  BY PlusIs
<1>4. (Less(a, b) <=> x < y) /\ (Less(b, a) <=> y < x) /\ (Same(a, b) <=> x = y)
  BY DEF Less, Same
<1>5. a.n = 0 => x = 0
  BY <1>1, SMT
<1>6. 0 * a.d = 0 /\ 0 * b.d = 0
  BY <1>1, SMT
<1>7. (b.n < 0 => y < 0) /\ (0 < b.n => 0 < y)
  <2>1. (b.n < 0 => b.n * a.d < 0 * a.d) /\ (0 < b.n => 0 * a.d < b.n * a.d)
    BY <1>1, Cancel
  <2>. QED BY <1>6, <2>1
<1>8. x < 0 => a.n < 0
  <2>1. a.n * b.d < 0 * b.d => a.n < 0
    BY <1>1, Cancel
  <2>. QED BY <1>6, <2>1
<1>. HIDE DEF x, y
<1>. QED BY <1>1, <1>2, <1>3, <1>4, <1>5, <1>7, <1>8

-------------------------------------------------------------------------------
(* One fill.                                                                 *)

AnyFill == [side : {"buy", "sell"}, price : Nat, quantity : Nat \ {0}]
AnyState == [quantity : Int, cost : Fraction, realized : Fraction]

\* What was realized is the cash and the cost of what is held.
BalancedAt(st, cash) == Same(st.realized, Plus(Whole(cash), Times(st.cost, st.quantity)))

LEMMA BalancedIs ==
  ASSUME NEW st \in AnyState, NEW cash \in Int
  PROVE  BalancedAt(st, cash) <=>
           st.realized.n * st.cost.d = (cash * st.cost.d + st.cost.n * st.quantity) * st.realized.d
<1>. DEFINE c == st.cost
            q == st.quantity
            m == c.n * q
<1>1. c \in Fraction /\ q \in Int /\ c.n \in Int /\ c.d \in Nat \ {0}
      /\ st.realized.n \in Int /\ st.realized.d \in Nat \ {0}
  BY DEF AnyState, Fraction
<1>2. Whole(cash) \in Fraction /\ Whole(cash) = [n |-> cash, d |-> 1]
  BY WholeIs
<1>3. Times(c, q) \in Fraction /\ Times(c, q) = [n |-> m, d |-> c.d]
  BY <1>1, TimesIs
<1>4. Plus(Whole(cash), Times(c, q)) = [n |-> cash * c.d + m * 1, d |-> 1 * c.d]
  <2>. HIDE DEF c, q, m
  <2>1. /\ Whole(cash).n = cash /\ Whole(cash).d = 1
        /\ Times(c, q).n = m /\ Times(c, q).d = c.d
    BY <1>2, <1>3
  <2>. QED BY <1>2, <1>3, <2>1, PlusIs
<1>5. m \in Int
  BY <1>1, Products
<1>. HIDE DEF c, q, m
<1>6. Plus(Whole(cash), Times(c, q)) = [n |-> cash * c.d + m, d |-> c.d]
  BY <1>1, <1>4, <1>5
<1>. QED BY <1>6 DEF BalancedAt, Same, c, q, m

\* The three ways to a new average, in whole numbers: c and e are the averages
\* before and after, r what was realized, C the cash, q what is held.
Added(rn, rd, C, q, p, s, en, ed) == rn * ed = ((C - s * p) * ed + en * (q + s)) * rd

Reduced(rn, rd, cn, cd, C, q, p, s) ==
  /\ (rn * cd + ((p * cd - cn) * (-s)) * rd) * cd = ((C - s * p) * cd + cn * (q + s)) * (rd * cd)
  /\ q + s = 0 => rn * cd + ((p * cd - cn) * (-s)) * rd = (C - s * p) * (rd * cd)
  /\ rn * cd + ((p * cd - cn) * q) * rd = ((C - s * p) + p * (q + s)) * (rd * cd)

LEMMA AddsUp ==
  ASSUME NEW rn \in Int, NEW rd \in Int, NEW cn \in Int, NEW cd \in Nat \ {0}, NEW C \in Int,
         NEW q \in Int, NEW p \in Int, NEW s \in Int, NEW en \in Int, NEW ed \in Int,
         rn * cd = (C * cd + cn * q) * rd,
         en * (cd * (q + s)) = (cn * q + p * s * cd) * ed
  PROVE  Added(rn, rd, C, q, p, s, en, ed)
<1>. DEFINE x == rn * ed
            y == ((C - s * p) * ed + en * (q + s)) * rd
<1>1. x * cd = (rn * cd) * ed
  BY SMT
<1>2. y * cd = ((C - s * p) * cd * ed + en * (cd * (q + s))) * rd
  BY SMT
<1>3. ((C - s * p) * cd * ed + (cn * q + p * s * cd) * ed) * rd = ((C * cd + cn * q) * rd) * ed
  BY SMT
<1>4. x \in Int /\ y \in Int
  BY SMT
<1>5. x * cd = y * cd
  BY <1>1, <1>2, <1>3
<1>. HIDE DEF x, y
<1>6. x = y
  BY <1>4, <1>5, Cancel
<1>. QED BY <1>6 DEF x, y, Added

LEMMA ReducesTo ==
  ASSUME NEW rn \in Int, NEW rd \in Int, NEW cn \in Int, NEW cd \in Int, NEW C \in Int,
         NEW q \in Int, NEW p \in Int, NEW s \in Int,
         rn * cd = (C * cd + cn * q) * rd
  PROVE  Reduced(rn, rd, cn, cd, C, q, p, s)
<1>1. ((C * cd + cn * q) * rd + ((p * cd - cn) * (-s)) * rd) * cd
        = ((C - s * p) * cd + cn * (q + s)) * (rd * cd)
  BY SMT
<1>2. (C * cd + cn * q) * rd + ((p * cd - cn) * (-s)) * rd = ((C - s * p) * cd + cn * (q + s)) * rd
  BY SMT
<1>3. (C * cd + cn * q) * rd + ((p * cd - cn) * q) * rd = ((C - s * p) + p * (q + s)) * (rd * cd)
  BY SMT
<1>4. q + s = 0 => ((C - s * p) * cd + cn * (q + s)) * rd = (C - s * p) * (rd * cd)
  <2>. SUFFICES ASSUME q + s = 0 PROVE ((C - s * p) * cd + cn * (q + s)) * rd = (C - s * p) * (rd * cd)
    OBVIOUS
  <2>1. cn * 0 = 0 /\ (C - s * p) * cd \in Int
    BY SMT
  <2>2. ((C - s * p) * cd) * rd = (C - s * p) * (rd * cd)
    BY SMT
  <2>. QED BY <2>1, <2>2
<1>. QED BY <1>1, <1>2, <1>3, <1>4 DEF Reduced

LEMMA MinOfTwo ==
  ASSUME NEW a \in Int, NEW b \in Int
  PROVE  Min({a, b}) = IF a <= b THEN a ELSE b
<1>1. IsFiniteSet({a, b})
  <2>1. IsFiniteSet({a}) /\ {a, b} = {a} \cup {b}
    BY FS_Singleton
  <2>. QED BY <2>1, FS_AddElement
<1>2. Min({a, b}) \in {a, b} /\ \A y \in {a, b} : Min({a, b}) <= y
  BY <1>1, MinExists
<1>. QED BY <1>2

LEMMA SignedIs ==
  ASSUME NEW x \in AnyFill
  PROVE  /\ SignedQuantity(x) \in Int /\ SignedQuantity(x) # 0 /\ x.price \in Nat
         /\ SignedQuantity(x) > 0 <=> x.side = "buy"
BY DEF SignedQuantity, AnyFill

\* Opening and adding.
LEMMA OpenOrAddIs ==
  ASSUME NEW st \in AnyState, NEW p \in Nat, NEW s \in Int, st.quantity + s # 0, NEW cash \in Int
  PROVE  LET new == OpenOrAdd(st, p, s) IN
         /\ new \in AnyState /\ new.quantity = st.quantity + s /\ new.realized = st.realized
         /\ BalancedAt(st, cash) => BalancedAt(new, cash - s * p)
<1>. DEFINE c == st.cost
            q == st.quantity
            r == st.realized
            new == OpenOrAdd(st, p, s)
            m == c.n * q
            ps == p * s
            sum == Plus(Times(c, q), Whole(ps))
            e == Over(sum, q + s)
<1>1. /\ c \in Fraction /\ q \in Int /\ c.n \in Int /\ c.d \in Nat \ {0}
      /\ r \in Fraction /\ r.n \in Int /\ r.d \in Nat \ {0}
  BY DEF AnyState, Fraction
<1>2. ps \in Int /\ m \in Int /\ p \in Int
  BY <1>1, Products
<1>3. Whole(ps) \in Fraction /\ Whole(ps) = [n |-> ps, d |-> 1]
  <2>. HIDE DEF ps
  <2>. QED BY <1>2, WholeIs
<1>4. Times(c, q) \in Fraction /\ Times(c, q) = [n |-> m, d |-> c.d]
  BY <1>1, TimesIs
<1>5. sum \in Fraction /\ sum = [n |-> m + ps * c.d, d |-> c.d]
  <2>. HIDE DEF c, q, m, ps
  <2>1. /\ Whole(ps).n = ps /\ Whole(ps).d = 1
        /\ Times(c, q).n = m /\ Times(c, q).d = c.d
    BY <1>3, <1>4
  <2>2. sum \in Fraction /\ sum = [n |-> m * 1 + ps * c.d, d |-> c.d * 1]
    BY <1>3, <1>4, <2>1, PlusIs
  <2>3. m * 1 = m /\ c.d * 1 = c.d
    BY <1>1, <1>2
  <2>. QED BY <2>2, <2>3
<1>6. e \in Fraction /\ e.n * (c.d * (q + s)) = (m + ps * c.d) * e.d
  <2>1. q + s \in Int /\ q + s # 0
    BY <1>1
  <2>. HIDE DEF c, q, m, ps, sum
  <2>2. e \in Fraction /\ e.n * (sum.d * (q + s)) = sum.n * e.d
    BY <1>5, <2>1, OverIs
  <2>. QED BY <1>5, <2>2
<1>7. new = [quantity |-> q + s, cost |-> e, realized |-> r]
  <2>1. st = [quantity |-> q, cost |-> c, realized |-> r]
    BY DEF AnyState
  <2>2. q + s # 0
    OBVIOUS
  <2>3. new = [st EXCEPT !.quantity = q + s, !.cost = e]
    BY <2>2 DEF OpenOrAdd
  <2>. HIDE DEF new, e, q, c, r
  <2>. QED BY <2>1, <2>3
<1>8. new \in AnyState
  <2>1. q + s \in Int
    BY <1>1
  <2>. HIDE DEF c, q, r, e, new
  <2>. QED BY <1>1, <1>6, <1>7, <2>1 DEF AnyState
<1>9. ASSUME BalancedAt(st, cash) PROVE BalancedAt(new, cash - s * p)
  <2>1. r.n * c.d = (cash * c.d + c.n * q) * r.d
    BY <1>9, BalancedIs
  <2>2. e.n \in Int /\ e.d \in Int /\ r.d \in Int
    <3>. HIDE DEF e
    <3>. QED BY <1>1, <1>6 DEF Fraction
  <2>3. e.n * (c.d * (q + s)) = (c.n * q + p * s * c.d) * e.d
    BY <1>6
  <2>4. cash - s * p \in Int
    BY <1>2, SMT
  <2>. HIDE DEF c, q, r, e, m, ps, sum, new
  <2>5. r.n * e.d = ((cash - s * p) * e.d + e.n * (q + s)) * r.d
    <3>1. Added(r.n, r.d, cash, q, p, s, e.n, e.d)
      BY <1>1, <1>2, <2>1, <2>2, <2>3, AddsUp
    <3>. QED BY <3>1 DEF Added
  <2>6. new.quantity = q + s /\ new.cost = e /\ new.realized = r
    BY <1>7
  <2>. QED BY <1>8, <2>4, <2>5, <2>6, BalancedIs
<1>10. new.quantity = q + s /\ new.realized = r
  <2>. HIDE DEF q, r, e, new
  <2>. QED BY <1>7
<1>. HIDE DEF new
<1>. QED BY <1>8, <1>9, <1>10 DEF new

\* Reducing, closing and reversing.
LEMMA ReduceIs ==
  ASSUME NEW st \in AnyState, NEW p \in Nat, NEW s \in Int, s # 0, st.quantity # 0,
         (st.quantity > 0) # (s > 0), NEW cash \in Int
  PROVE  LET new == ReduceCloseOrReverse(st, p, s) IN
         /\ new \in AnyState /\ new.quantity = st.quantity + s
         /\ BalancedAt(st, cash) => BalancedAt(new, cash - s * p)
<1>. DEFINE c == st.cost
            q == st.quantity
            r == st.realized
            new == ReduceCloseOrReverse(st, p, s)
            k == Min({Abs(s), Abs(q)}) * (IF q > 0 THEN 1 ELSE -1)
            gain == Times(Minus(Whole(p), c), k)
            over == Abs(s) > Abs(q)
            rr == Plus(r, gain)
<1>1. /\ c \in Fraction /\ q \in Int /\ c.n \in Int /\ c.d \in Nat \ {0}
      /\ r \in Fraction /\ r.n \in Int /\ r.d \in Nat \ {0} /\ p \in Int
      /\ q # 0 /\ (q > 0) # (s > 0)
  BY DEF AnyState, Fraction
<1>2. k = IF over THEN q ELSE -s
  <2>1. Abs(s) \in Int /\ Abs(q) \in Int
    BY <1>1 DEF Abs
  <2>2. Min({Abs(s), Abs(q)}) = IF Abs(s) <= Abs(q) THEN Abs(s) ELSE Abs(q)
    BY <2>1, MinOfTwo
  <2>. HIDE DEF q
  <2>. QED BY <1>1, <2>1, <2>2 DEF Abs
<1>3. k \in Int /\ q + s \in Int
  <2>. HIDE DEF k, over, q
  <2>. QED BY <1>1, <1>2
<1>4. Whole(p) \in Fraction /\ Whole(p) = [n |-> p, d |-> 1]
  BY <1>1, WholeIs
<1>5. /\ Minus(Whole(p), c) \in Fraction
      /\ Minus(Whole(p), c) = [n |-> p * c.d - c.n, d |-> c.d]
  <2>. HIDE DEF c
  <2>1. Whole(p).n = p /\ Whole(p).d = 1
    BY <1>4
  <2>2. /\ Minus(Whole(p), c) \in Fraction
        /\ Minus(Whole(p), c) = [n |-> p * c.d - c.n * 1, d |-> 1 * c.d]
    BY <1>1, <1>4, <2>1, PlusIs
  <2>3. c.n * 1 = c.n /\ 1 * c.d = c.d
    BY <1>1
  <2>. QED BY <2>2, <2>3
<1>6. gain \in Fraction /\ gain = [n |-> (p * c.d - c.n) * k, d |-> c.d]
  <2>. HIDE DEF c, k
  <2>1. Minus(Whole(p), c).n = p * c.d - c.n /\ Minus(Whole(p), c).d = c.d
    BY <1>5
  <2>. QED BY <1>3, <1>5, <2>1, TimesIs
<1>7. rr \in Fraction /\ rr = [n |-> r.n * c.d + ((p * c.d - c.n) * k) * r.d, d |-> r.d * c.d]
  <2>. HIDE DEF c, k, gain, r
  <2>1. gain.n = (p * c.d - c.n) * k /\ gain.d = c.d
    BY <1>6
  <2>. QED BY <1>1, <1>6, <2>1, PlusIs
<1>. DEFINE e == IF over THEN Whole(p) ELSE IF q + s = 0 THEN Whole(0) ELSE c
<1>8. new = [quantity |-> q + s, cost |-> e, realized |-> rr]
  BY DEF ReduceCloseOrReverse
<1>9. Whole(0) \in Fraction /\ Whole(0) = [n |-> 0, d |-> 1]
  BY WholeIs
<1>. HIDE DEF c, q, r, k, gain, over, rr, new
<1>10. e \in Fraction
  BY <1>1, <1>4, <1>9
<1>11. /\ new \in AnyState
       /\ new.quantity = q + s /\ new.cost = e /\ new.realized = rr
  <2>. HIDE DEF e
  <2>. QED BY <1>3, <1>7, <1>8, <1>10 DEF AnyState
<1>12. ASSUME BalancedAt(st, cash) PROVE BalancedAt(new, cash - s * p)
  <2>1. r.n * c.d = (cash * c.d + c.n * q) * r.d
    BY <1>12, BalancedIs DEF r, c, q
  <2>2. cash - s * p \in Int /\ r.d \in Int /\ c.d \in Int
    BY <1>1, SMT
  <2>3. /\ (r.n * c.d + ((p * c.d - c.n) * (-s)) * r.d) * c.d
            = ((cash - s * p) * c.d + c.n * (q + s)) * (r.d * c.d)
        /\ q + s = 0 => r.n * c.d + ((p * c.d - c.n) * (-s)) * r.d = (cash - s * p) * (r.d * c.d)
        /\ r.n * c.d + ((p * c.d - c.n) * q) * r.d = ((cash - s * p) + p * (q + s)) * (r.d * c.d)
    <3>1. Reduced(r.n, r.d, c.n, c.d, cash, q, p, s)
      BY <1>1, <2>1, <2>2, ReducesTo
    <3>. QED BY <3>1 DEF Reduced
  <2>4. rr.n = r.n * c.d + ((p * c.d - c.n) * k) * r.d /\ rr.d = r.d * c.d
    BY <1>7
  <2>5. rr.n \in Int /\ rr.d \in Int
    BY <1>7 DEF Fraction
  <2>6. rr.n * e.d = ((cash - s * p) * e.d + e.n * (q + s)) * rr.d
    <3>1. CASE over
      <4>1. e.n = p /\ e.d = 1 /\ k = q
        BY <1>2, <1>4, <3>1
      <4>2. rr.n = ((cash - s * p) + p * (q + s)) * rr.d
        BY <2>3, <2>4, <4>1
      <4>3. rr.n * 1 = rr.n /\ (cash - s * p) * 1 = cash - s * p
        BY <2>2, <2>5
      <4>. QED BY <4>1, <4>2, <4>3
    <3>2. CASE ~over /\ q + s = 0
      <4>1. e.n = 0 /\ e.d = 1 /\ k = -s
        BY <1>2, <1>9, <3>2
      <4>2. rr.n = (cash - s * p) * rr.d
        BY <2>3, <2>4, <3>2, <4>1
      <4>3. rr.n * 1 = rr.n /\ (cash - s * p) * 1 = cash - s * p
        BY <2>2, <2>5
      <4>4. 0 * (q + s) = 0 /\ (cash - s * p) + 0 = cash - s * p
        BY <2>2, <3>2
      <4>. QED BY <4>1, <4>2, <4>3, <4>4
    <3>3. CASE ~over /\ q + s # 0
      <4>1. e = c /\ k = -s
        BY <1>2, <3>3
      <4>. QED BY <2>3, <2>4, <4>1
    <3>. QED BY <3>1, <3>2, <3>3
  <2>. HIDE DEF e
  <2>. QED BY <1>11, <2>2, <2>6, BalancedIs
<1>. QED BY <1>11, <1>12 DEF new, q

LEMMA AppliedTo ==
  ASSUME NEW st \in AnyState, NEW x \in AnyFill, NEW cash \in Int
  PROVE  LET new == Apply(st, x)
             s == SignedQuantity(x)
         IN /\ new \in AnyState /\ new.quantity = st.quantity + s
            /\ ~(st.quantity * s < 0) => new.realized = st.realized
            /\ BalancedAt(st, cash) => BalancedAt(new, cash - s * x.price)
<1>. DEFINE s == SignedQuantity(x)
            q == st.quantity
<1>1. s \in Int /\ s # 0 /\ x.price \in Nat /\ q \in Int
  BY SignedIs DEF AnyState
<1>. HIDE DEF s
<1>2. CASE q = 0 \/ (q > 0) = (s > 0)
  <2>1. Apply(st, x) = OpenOrAdd(st, x.price, s)
    BY <1>2 DEF Apply, s
  <2>2. q + s # 0
    BY <1>1, <1>2
  <2>. QED BY <1>1, <2>1, <2>2, OpenOrAddIs DEF s
<1>3. CASE ~(q = 0 \/ (q > 0) = (s > 0))
  <2>1. Apply(st, x) = ReduceCloseOrReverse(st, x.price, s)
    BY <1>3 DEF Apply, s
  <2>2. q * s < 0
    <3>. HIDE DEF q
    <3>1. (q > 0 /\ s < 0) \/ (q < 0 /\ s > 0)
      BY <1>1, <1>3
    <3>. QED BY <1>1, <3>1, SMT
  <2>. QED BY <1>1, <1>3, <2>1, <2>2, ReduceIs DEF s
<1>. QED BY <1>2, <1>3

-------------------------------------------------------------------------------
(* The fills one by one.                                                     *)

Money(fl) == [i \in DOMAIN fl |-> fl[i].price * fl[i].quantity]
Quantity(fl) == [i \in DOMAIN fl |-> fl[i].quantity]

\* What f says of the first i fills, bought less sold.
SumTo(f, D, i) == SumFunctionOnSet(f, D \cap 1 .. i)
Net(f, fl, i) == SumTo(f, Buys(fl), i) - SumTo(f, Sells(fl), i)

LEMMA OneMore ==
  ASSUME NEW n \in Nat, NEW D \in SUBSET (1 .. n), NEW f, \A i \in 1 .. n : f[i] \in Nat,
         NEW i \in 1 .. n
  PROVE  /\ SumTo(f, D, i) \in Nat /\ SumTo(f, D, 0) = 0
         /\ SumTo(f, D, i) = SumTo(f, D, i - 1) + (IF i \in D THEN f[i] ELSE 0)
<1>. DEFINE S == D \cap 1 .. i - 1
            T == D \cap 1 .. i
<1>1. IsFiniteSet(S) /\ IsFiniteSet(T)
  <2>1. IsFiniteSet(1 .. n) /\ S \in SUBSET (1 .. n) /\ T \in SUBSET (1 .. n)
    BY FS_Interval
  <2>. HIDE DEF S, T
  <2>. QED BY <2>1, FS_Subset
<1>2. /\ \A j \in T : f[j] \in Nat
      /\ \A j \in S \cup {i} : f[j] \in Nat
      /\ i \notin S
      /\ T = IF i \in D THEN S \cup {i} ELSE S
  OBVIOUS
<1>3. D \cap 1 .. 0 = {}
  OBVIOUS
<1>4. SumFunctionOnSet(f, D \cap 1 .. 0) = 0
  BY <1>3, SumEmpty
<1>. HIDE DEF S, T
<1>5. SumFunctionOnSet(f, T) \in Nat /\ SumFunctionOnSet(f, S) \in Nat
  <2>1. \A j \in S : f[j] \in Nat
    BY <1>2
  <2>. QED BY <1>1, <1>2, <2>1, SumNat
<1>6. SumFunctionOnSet(f, T) = SumFunctionOnSet(f, S) + (IF i \in D THEN f[i] ELSE 0)
  <2>1. CASE i \in D
    <3>1. SumFunctionOnSet(f, S \cup {i}) = SumFunctionOnSet(f, S) + f[i]
      BY <1>1, <1>2, SumOneMore
    <3>. QED BY <1>2, <2>1, <3>1
  <2>2. CASE i \notin D
    BY <1>2, <1>5, <2>2
  <2>. QED BY <2>1, <2>2
<1>. QED BY <1>4, <1>5, <1>6 DEF S, T, SumTo

LEMMA NetAlong ==
  ASSUME NEW fl \in Seq(AnyFill), NEW f, \A i \in 1 .. Len(fl) : f[i] \in Nat
  PROVE  /\ Net(f, fl, 0) = 0
         /\ \A i \in 1 .. Len(fl) :
              Net(f, fl, i) = Net(f, fl, i - 1) + (IF fl[i].side = "buy" THEN f[i] ELSE -f[i])
<1>. DEFINE n == Len(fl)
            b == Buys(fl)
            s == Sells(fl)
<1>1. n \in Nat /\ DOMAIN fl = 1 .. n /\ \A i \in 1 .. n : fl[i] \in AnyFill
  OBVIOUS
<1>2. b \in SUBSET (1 .. n) /\ s \in SUBSET (1 .. n)
  BY <1>1 DEF Buys, Sells
<1>3. ASSUME NEW i \in 1 .. n
      PROVE  /\ i \in b => i \notin s /\ fl[i].side = "buy"
             /\ i \notin b => i \in s /\ fl[i].side # "buy"
             /\ f[i] \in Int
  BY <1>1, <1>3 DEF Buys, Sells, AnyFill
<1>. DEFINE B(i) == SumTo(f, b, i)
            S(i) == SumTo(f, s, i)
<1>4. B(0) = 0 /\ S(0) = 0 /\ Net(f, fl, 0) = 0
  <2>1. b \cap 1 .. 0 = {} /\ s \cap 1 .. 0 = {}
    OBVIOUS
  <2>2. B(0) = 0 /\ S(0) = 0
    BY <2>1, SumEmpty DEF SumTo
  <2>. QED BY <2>2 DEF Net
<1>. HIDE DEF b, s, n
<1>5. ASSUME NEW i \in 1 .. n
      PROVE  Net(f, fl, i) = Net(f, fl, i - 1) + (IF fl[i].side = "buy" THEN f[i] ELSE -f[i])
  <2>0. \A j \in 1 .. n : f[j] \in Nat
    BY DEF n
  <2>1. B(i) \in Nat /\ B(i) = B(i - 1) + (IF i \in b THEN f[i] ELSE 0)
    BY <1>1, <1>2, <1>5, <2>0, OneMore
  <2>2. S(i) \in Nat /\ S(i) = S(i - 1) + (IF i \in s THEN f[i] ELSE 0)
    BY <1>1, <1>2, <1>5, <2>0, OneMore
  <2>3. B(i - 1) \in Int /\ S(i - 1) \in Int
    <3>1. CASE i = 1
      <4>1. i - 1 = 0
        BY <3>1
      <4>. QED BY <1>4, <4>1
    <3>2. CASE i # 1
      <4>1. i - 1 \in 1 .. n
        BY <1>1, <1>5, <3>2
      <4>2. B(i - 1) \in Nat /\ S(i - 1) \in Nat
        BY <1>1, <1>2, <2>0, <4>1, OneMore
      <4>. HIDE DEF B, S
      <4>. QED BY <4>2
    <3>. QED BY <3>1, <3>2
  <2>4. Net(f, fl, i) = B(i) - S(i) /\ Net(f, fl, i - 1) = B(i - 1) - S(i - 1)
    BY DEF Net, b, s
  <2>. HIDE DEF B, S
  <2>5. CASE i \in b
    <3>1. fl[i].side = "buy" /\ f[i] \in Int /\ B(i) = B(i - 1) + f[i] /\ S(i) = S(i - 1) + 0
      BY <1>3, <2>1, <2>2, <2>5
    <3>2. Net(f, fl, i) = Net(f, fl, i - 1) + f[i]
      BY <2>3, <2>4, <3>1
    <3>. QED BY <3>1, <3>2
  <2>6. CASE i \notin b
    <3>1. fl[i].side # "buy" /\ f[i] \in Int /\ B(i) = B(i - 1) + 0 /\ S(i) = S(i - 1) + f[i]
      BY <1>3, <2>1, <2>2, <2>6
    <3>2. Net(f, fl, i) = Net(f, fl, i - 1) + (-f[i])
      BY <2>3, <2>4, <3>1
    <3>. QED BY <3>1, <3>2
  <2>. QED BY <2>5, <2>6
<1>. QED BY <1>4, <1>5 DEF n

\* The tracker after i fills.
Tracker(fl, i) == Upto(PositionFold, fl, i)

LEMMA TrackerAlong ==
  ASSUME NEW fl \in Seq(AnyFill)
  PROVE  /\ Tracker(fl, 0) = PositionState
         /\ \A i \in 1 .. Len(fl) : Tracker(fl, i) = Apply(Tracker(fl, i - 1), fl[i])
         /\ \A i \in 0 .. Len(fl) : Tracker(fl, i) = Position(SubSeq(fl, 1, i))
         /\ Tracker(fl, Len(fl)) = Position(fl)
<1>1. /\ Tracker(fl, 0) = PositionState /\ Tracker(fl, Len(fl)) = Folded(PositionFold, fl)
      /\ \A i \in 1 .. Len(fl) : Tracker(fl, i) = Apply(Tracker(fl, i - 1), fl[i])
  <2>1. PositionFold.start = PositionState
    BY DEF PositionFold
  <2>2. \A st, x : Step(PositionFold, st, x) = Apply(st, x)
    BY DEF Step, PositionFold
  <2>3. /\ Upto(PositionFold, fl, 0) = PositionFold.start
        /\ Upto(PositionFold, fl, Len(fl)) = Folded(PositionFold, fl)
        /\ \A i \in 1 .. Len(fl) :
             Upto(PositionFold, fl, i) = Step(PositionFold, Upto(PositionFold, fl, i - 1), fl[i])
    BY FoldAlong
  <2>. QED BY <2>1, <2>2, <2>3 DEF Tracker
<1>2. ASSUME NEW i \in 0 .. Len(fl) PROVE Tracker(fl, i) = Position(SubSeq(fl, 1, i))
  <2>1. SubSeq(fl, 1, i) \in Seq(AnyFill)
    OBVIOUS
  <2>2. Numbers(DOMAIN SubSeq(fl, 1, i))
    BY <2>1, ListIndices
  <2>. QED BY <2>2, PositionIsFold DEF Tracker, Upto
<1>3. Folded(PositionFold, fl) = Position(fl)
  BY ListIndices, PositionIsFold
<1>. QED BY <1>1, <1>2, <1>3

\* After each fill, the position is what was bought less what was sold, and what
\* was realized is the money received less the money spent and the cost of what is
\* still held.
LEMMA PositionsBalance ==
  ASSUME NEW fl \in Seq(AnyFill)
  PROVE  \A i \in 0 .. Len(fl) :
           /\ Tracker(fl, i) \in AnyState
           /\ Tracker(fl, i).quantity = Net(Quantity(fl), fl, i)
           /\ Net(Money(fl), fl, i) \in Int
           /\ BalancedAt(Tracker(fl, i), -Net(Money(fl), fl, i))
<1>. DEFINE n == Len(fl)
            q(i) == Net(Quantity(fl), fl, i)
            m(i) == Net(Money(fl), fl, i)
            Good == {i \in 0 .. n : /\ Tracker(fl, i) \in AnyState
                                    /\ Tracker(fl, i).quantity = q(i)
                                    /\ m(i) \in Int
                                    /\ BalancedAt(Tracker(fl, i), -m(i))}
<1>1. n \in Nat /\ DOMAIN fl = 1 .. n /\ \A i \in 1 .. n : fl[i] \in AnyFill
  OBVIOUS
<1>2. ASSUME NEW i \in 1 .. n
      PROVE  /\ Quantity(fl)[i] = fl[i].quantity /\ Quantity(fl)[i] \in Nat
             /\ Money(fl)[i] = fl[i].price * fl[i].quantity /\ Money(fl)[i] \in Nat
  <2>1. fl[i].price \in Nat /\ fl[i].quantity \in Nat
    BY <1>1, <1>2 DEF AnyFill
  <2>2. fl[i].price * fl[i].quantity \in Nat
    BY <2>1, SMT
  <2>. QED BY <1>1, <1>2, <2>1, <2>2 DEF Quantity, Money
<1>3. /\ q(0) = 0 /\ m(0) = 0
      /\ \A i \in 1 .. n : q(i) = q(i - 1) + (IF fl[i].side = "buy" THEN Quantity(fl)[i] ELSE -Quantity(fl)[i])
      /\ \A i \in 1 .. n : m(i) = m(i - 1) + (IF fl[i].side = "buy" THEN Money(fl)[i] ELSE -Money(fl)[i])
  BY <1>2, NetAlong
<1>. HIDE DEF n, q, m
<1>4. ASSUME NEW i \in 1 .. n
      PROVE  /\ q(i) = q(i - 1) + SignedQuantity(fl[i])
             /\ m(i) = m(i - 1) + SignedQuantity(fl[i]) * fl[i].price
             /\ SignedQuantity(fl[i]) * fl[i].price \in Int
  <2>1. fl[i].price \in Int /\ fl[i].quantity \in Int
    BY <1>1, <1>4 DEF AnyFill
  <2>2. /\ fl[i].quantity * fl[i].price = fl[i].price * fl[i].quantity
        /\ (-fl[i].quantity) * fl[i].price = -(fl[i].price * fl[i].quantity)
        /\ fl[i].price * fl[i].quantity \in Int
    BY <2>1, SMT
  <2>. QED BY <1>2, <1>3, <1>4, <2>2 DEF SignedQuantity
<1>5. 0 \in Good
  <2>1. PositionState \in AnyState /\ PositionState.quantity = 0
    <3>1. Whole(0) \in Fraction
      BY WholeIs
    <3>. QED BY <3>1 DEF PositionState, AnyState
  <2>2. BalancedAt(PositionState, 0)
    <3>1. Whole(0) = [n |-> 0, d |-> 1]
      BY WholeIs
    <3>2. /\ PositionState.realized.n = 0 /\ PositionState.realized.d = 1
          /\ PositionState.cost.n = 0 /\ PositionState.cost.d = 1 /\ PositionState.quantity = 0
      BY <3>1 DEF PositionState
    <3>. QED BY <2>1, <3>2, BalancedIs
  <2>3. Tracker(fl, 0) = PositionState /\ -m(0) = 0
    BY <1>3, TrackerAlong
  <2>. QED BY <1>1, <1>3, <2>1, <2>2, <2>3
<1>6. ASSUME NEW i \in 1 .. n, i - 1 \in Good PROVE i \in Good
  <2>. DEFINE x == fl[i]
              s == SignedQuantity(x)
              st == Tracker(fl, i - 1)
  <2>1. st \in AnyState /\ st.quantity = q(i - 1) /\ m(i - 1) \in Int /\ BalancedAt(st, -m(i - 1))
    BY <1>6
  <2>2. Tracker(fl, i) = Apply(st, x)
    BY <1>6, TrackerAlong DEF n
  <2>3. x \in AnyFill /\ -m(i - 1) \in Int
    BY <1>1, <1>6, <2>1
  <2>. HIDE DEF x, st
  <2>4. /\ Tracker(fl, i) \in AnyState /\ Tracker(fl, i).quantity = st.quantity + s
        /\ BalancedAt(Tracker(fl, i), (-m(i - 1)) - s * x.price)
    BY <2>1, <2>2, <2>3, AppliedTo
  <2>5. q(i) = q(i - 1) + s /\ m(i) = m(i - 1) + s * x.price /\ s * x.price \in Int
    BY <1>4, <1>6 DEF x
  <2>6. (-m(i - 1)) - s * x.price = -m(i) /\ m(i) \in Int
    <3>. HIDE DEF s
    <3>. QED BY <2>1, <2>5
  <2>7. i \in 0 .. n
    BY <1>1, <1>6
  <2>. QED BY <2>1, <2>4, <2>5, <2>6, <2>7
<1>. HIDE DEF Good
<1>7. \A i \in 0 .. n : i \in Good
  BY <1>1, <1>5, <1>6, Along
<1>. QED BY <1>7 DEF Good, n, q, m

-------------------------------------------------------------------------------
(* Trade by trade.                                                           *)

LEMMA PlusLaws ==
  ASSUME NEW a \in Fraction, NEW b \in Fraction, NEW x \in Fraction
  PROVE  /\ Same(Plus(Plus(a, x), b), Plus(Plus(a, b), x))
         /\ Same(Plus(a, Plus(b, x)), Plus(Plus(a, b), x))
         /\ Same(Plus(a, Minus(b, a)), b)
         /\ Same(Minus(a, Minus(Whole(0), b)), Plus(a, b))
<1>. DEFINE an == a.n
            ad == a.d
            bn == b.n
            bd == b.d
            xn == x.n
            xd == x.d
<1>1. /\ an \in Int /\ bn \in Int /\ xn \in Int /\ ad \in Int /\ bd \in Int /\ xd \in Int
  BY DEF Fraction
<1>2. /\ Quotient(a, an, ad) /\ Quotient(b, bn, bd) /\ Quotient(x, xn, xd)
      /\ Quotient(Whole(0), 0, 1)
  BY WholeIs DEF Quotient
<1>. HIDE DEF an, ad, bn, bd, xn, xd
<1>3. /\ Quotient(Plus(a, x), an * xd + xn * ad, ad * xd)
      /\ Quotient(Plus(a, b), an * bd + bn * ad, ad * bd)
      /\ Quotient(Plus(b, x), bn * xd + xn * bd, bd * xd)
      /\ Quotient(Minus(b, a), bn * ad - an * bd, bd * ad)
      /\ Quotient(Minus(Whole(0), b), 0 * bd - bn * 1, 1 * bd)
  BY <1>2, QuotientPlus
<1>8. Quotient(Plus(Plus(a, x), b), (an * xd + xn * ad) * bd + bn * (ad * xd), (ad * xd) * bd)
  BY <1>2, <1>3, QuotientPlus
<1>9. Quotient(Plus(Plus(a, b), x), (an * bd + bn * ad) * xd + xn * (ad * bd), (ad * bd) * xd)
  BY <1>2, <1>3, QuotientPlus
<1>10. Quotient(Plus(a, Plus(b, x)), an * (bd * xd) + (bn * xd + xn * bd) * ad, ad * (bd * xd))
  BY <1>2, <1>3, QuotientPlus
<1>11. Quotient(Plus(a, Minus(b, a)), an * (bd * ad) + (bn * ad - an * bd) * ad, ad * (bd * ad))
  BY <1>2, <1>3, QuotientPlus
<1>12. Quotient(Minus(a, Minus(Whole(0), b)), an * (1 * bd) - (0 * bd - bn * 1) * ad, ad * (1 * bd))
  BY <1>2, <1>3, QuotientPlus
<1>13. ((an * xd + xn * ad) * bd + bn * (ad * xd)) * ((ad * bd) * xd)
         = ((an * bd + bn * ad) * xd + xn * (ad * bd)) * ((ad * xd) * bd)
  BY <1>1, SMT
<1>14. (an * (bd * xd) + (bn * xd + xn * bd) * ad) * ((ad * bd) * xd)
         = ((an * bd + bn * ad) * xd + xn * (ad * bd)) * (ad * (bd * xd))
  BY <1>1, SMT
<1>15. (an * (bd * ad) + (bn * ad - an * bd) * ad) * bd = bn * (ad * (bd * ad))
  BY <1>1, SMT
<1>16. (an * (1 * bd) - (0 * bd - bn * 1) * ad) * (ad * bd) = (an * bd + bn * ad) * (ad * (1 * bd))
  BY <1>1, SMT
<1>17. Same(Plus(Plus(a, x), b), Plus(Plus(a, b), x))
  BY <1>8, <1>9, <1>13 DEF Same, Quotient
<1>18. Same(Plus(a, Plus(b, x)), Plus(Plus(a, b), x))
  BY <1>9, <1>10, <1>14 DEF Same, Quotient
<1>19. Same(Plus(a, Minus(b, a)), b)
  BY <1>2, <1>11, <1>15 DEF Same, Quotient
<1>20. Same(Minus(a, Minus(Whole(0), b)), Plus(a, b))
  BY <1>3, <1>12, <1>16 DEF Same, Quotient
<1>. QED BY <1>17, <1>18, <1>19, <1>20

LEMMA PlusSame ==
  ASSUME NEW a \in Fraction, NEW b \in Fraction, NEW x \in Fraction, Same(a, b)
  PROVE  Same(Plus(a, x), Plus(b, x))
<1>1. /\ a.n \in Int /\ b.n \in Int /\ x.n \in Int /\ a.d \in Int /\ b.d \in Int /\ x.d \in Int
  BY DEF Fraction
<1>2. a.n * b.d = b.n * a.d
  BY DEF Same
<1>3. /\ Quotient(Plus(a, x), a.n * x.d + x.n * a.d, a.d * x.d)
      /\ Quotient(Plus(b, x), b.n * x.d + x.n * b.d, b.d * x.d)
  <2>1. Quotient(a, a.n, a.d) /\ Quotient(b, b.n, b.d) /\ Quotient(x, x.n, x.d)
    BY DEF Quotient
  <2>. QED BY <2>1, QuotientPlus
<1>4. (a.n * x.d + x.n * a.d) * (b.d * x.d) = (a.n * b.d) * (x.d * x.d) + x.n * a.d * b.d * x.d
  BY <1>1, SMT
<1>5. (b.n * x.d + x.n * b.d) * (a.d * x.d) = (b.n * a.d) * (x.d * x.d) + x.n * a.d * b.d * x.d
  BY <1>1, SMT
<1>. QED BY <1>2, <1>3, <1>4, <1>5 DEF Same, Quotient

LEMMA MinusZero ==
  ASSUME NEW a \in Fraction, NEW b \in Fraction, Minus(a, b).n = 0
  PROVE  Same(a, b)
<1>. DEFINE x == a.n * b.d
            y == b.n * a.d
<1>1. x \in Int /\ y \in Int
  BY Products DEF Fraction
<1>2. Minus(a, b).n = x - y
  BY PlusIs
<1>. HIDE DEF x, y
<1>3. x = y
  BY <1>1, <1>2
<1>. QED BY <1>3 DEF x, y, Same

\* What a list of amounts comes to, its gains and its losses.
Sides(pnls) == Plus(Folded(GainFold, pnls), Folded(LossFold, pnls))
Summed(pnls) ==
  /\ pnls \in Seq(Fraction)
  /\ Folded(GainFold, pnls) \in Fraction /\ Folded(LossFold, pnls) \in Fraction

LEMMA NothingYet == Summed(<<>>) /\ Same(Sides(<<>>), Whole(0))
<1>1. Whole(0) \in Fraction /\ Whole(0) = [n |-> 0, d |-> 1]
  BY WholeIs
<1>2. Folded(GainFold, <<>>) = Whole(0) /\ Folded(LossFold, <<>>) = Whole(0)
  <2>1. GainFold.start = Whole(0) /\ LossFold.start = Whole(0)
    BY DEF GainFold, LossFold
  <2>. QED BY <2>1, FoldEmpty
<1>3. <<>> \in Seq(Fraction)
  OBVIOUS
<1>4. Plus(Whole(0), Whole(0)) = [n |-> 0, d |-> 1]
  <2>1. Whole(0).n = 0 /\ Whole(0).d = 1
    BY <1>1
  <2>2. Plus(Whole(0), Whole(0)) = [n |-> 0 * 1 + 0 * 1, d |-> 1 * 1]
    BY <1>1, <2>1, PlusIs
  <2>. QED BY <2>2
<1>. QED BY <1>1, <1>2, <1>3, <1>4 DEF Summed, Sides, Same

LEMMA OneAmount ==
  ASSUME NEW pnls, Summed(pnls), NEW x \in Fraction, x.n # 0
  PROVE  Summed(Append(pnls, x)) /\ Same(Sides(Append(pnls, x)), Plus(Sides(pnls), x))
<1>. DEFINE new == Append(pnls, x)
            g == Folded(GainFold, pnls)
            l == Folded(LossFold, pnls)
<1>1. pnls \in Seq(Fraction) /\ g \in Fraction /\ l \in Fraction /\ x.n \in Int
  BY DEF Summed, Fraction
<1>2. new \in Seq(Fraction)
  BY <1>1
<1>3. Folded(GainFold, new) = AddGain(g, x)
  <2>1. Folded(GainFold, new) = Step(GainFold, g, x)
    BY <1>1, FoldAppended
  <2>. QED BY <2>1 DEF Step, GainFold
<1>4. Folded(LossFold, new) = AddLoss(l, x)
  <2>1. Folded(LossFold, new) = Step(LossFold, l, x)
    BY <1>1, FoldAppended
  <2>. QED BY <2>1 DEF Step, LossFold
<1>. HIDE DEF new, g, l
<1>5. CASE x.n > 0
  <2>1. Folded(GainFold, new) = Plus(g, x) /\ Folded(LossFold, new) = l
    BY <1>1, <1>3, <1>4, <1>5 DEF AddGain, AddLoss
  <2>2. Plus(g, x) \in Fraction /\ Same(Plus(Plus(g, x), l), Plus(Plus(g, l), x))
    BY <1>1, PlusIs, PlusLaws
  <2>. QED BY <1>1, <1>2, <2>1, <2>2 DEF Summed, Sides, new, g, l
<1>6. CASE ~(x.n > 0)
  <2>1. Folded(GainFold, new) = g /\ Folded(LossFold, new) = Plus(l, x)
    BY <1>1, <1>3, <1>4, <1>6 DEF AddGain, AddLoss
  <2>2. Plus(l, x) \in Fraction /\ Same(Plus(g, Plus(l, x)), Plus(Plus(g, l), x))
    BY <1>1, PlusIs, PlusLaws
  <2>. QED BY <1>1, <1>2, <2>1, <2>2 DEF Summed, Sides, new, g, l
<1>. QED BY <1>5, <1>6

\* What a fill books: nothing, unless it is against the position.
LEMMA BookedIs ==
  ASSUME NEW fl \in Seq(AnyFill)
  PROVE  /\ Booked(fl) \in Seq(Fraction) /\ Len(Booked(fl)) = Len(fl) /\ DOMAIN Booked(fl) = 1 .. Len(fl)
         /\ \A i \in 1 .. Len(fl) :
              /\ Booked(fl)[i] = Minus(Tracker(fl, i).realized, Tracker(fl, i - 1).realized)
              /\ Booked(fl)[i].n # 0 => i \in Closing(fl)
<1>. DEFINE n == Len(fl)
<1>1. n \in Nat /\ DOMAIN fl = 1 .. n
  OBVIOUS
<1>2. ASSUME NEW i \in 1 .. n
      PROVE  /\ Tracker(fl, i) \in AnyState /\ Tracker(fl, i - 1) \in AnyState
             /\ i \in 0 .. n /\ i - 1 \in 0 .. n
  <2>1. i \in 0 .. n /\ i - 1 \in 0 .. n
    BY <1>1, <1>2
  <2>. HIDE DEF n
  <2>. QED BY <2>1, PositionsBalance DEF n
<1>3. ASSUME NEW i \in 1 .. n
      PROVE  /\ Booked(fl)[i] = Minus(Tracker(fl, i).realized, Tracker(fl, i - 1).realized)
             /\ Booked(fl)[i] \in Fraction
  <2>1. /\ Tracker(fl, i) = Position(SubSeq(fl, 1, i))
        /\ Tracker(fl, i - 1) = Position(SubSeq(fl, 1, i - 1))
    BY <1>2, <1>3, TrackerAlong
  <2>2. Booked(fl)[i] = Minus(Tracker(fl, i).realized, Tracker(fl, i - 1).realized)
    BY <1>1, <1>3, <2>1 DEF Booked
  <2>3. Tracker(fl, i).realized \in Fraction /\ Tracker(fl, i - 1).realized \in Fraction
    BY <1>2, <1>3 DEF AnyState
  <2>. QED BY <2>2, <2>3, PlusIs
<1>4. Booked(fl) = [i \in 1 .. n |-> Booked(fl)[i]]
  BY <1>1 DEF Booked
<1>5. Booked(fl) \in Seq(Fraction) /\ Len(Booked(fl)) = n /\ DOMAIN Booked(fl) = 1 .. n
  <2>. DEFINE bk == Booked(fl)
  <2>. HIDE DEF bk, n
  <2>1. bk = [i \in 1 .. n |-> bk[i]] /\ \A i \in 1 .. n : bk[i] \in Fraction
    BY <1>3, <1>4 DEF bk
  <2>2. bk \in [1 .. n -> Fraction]
    BY <2>1
  <2>3. bk \in Seq(Fraction) /\ Len(bk) = n
    BY <1>1, <2>2, IsASeq, LenProperties
  <2>. QED BY <2>2, <2>3 DEF bk
<1>6. ASSUME NEW i \in 1 .. n, i \notin Closing(fl) PROVE Booked(fl)[i].n = 0
  <2>. DEFINE st == Tracker(fl, i - 1)
              s == SignedQuantity(fl[i])
  <2>1. Held(fl, i) = Net(Quantity(fl), fl, i - 1)
    BY DEF Held, Net, SumTo, Quantity
  <2>2. st.quantity = Held(fl, i)
    BY <1>2, <1>6, <2>1, PositionsBalance
  <2>3. ~(st.quantity * s < 0)
    BY <1>1, <1>6, <2>2 DEF Closing
  <2>4. Tracker(fl, i) = Apply(st, fl[i]) /\ fl[i] \in AnyFill
    BY <1>6, TrackerAlong
  <2>5. st \in AnyState /\ st.realized \in Fraction
    BY <1>2, <1>6 DEF AnyState
  <2>. HIDE DEF st
  <2>6. Tracker(fl, i).realized = st.realized
    <3>1. 0 \in Int
      OBVIOUS
    <3>. QED BY <2>3, <2>4, <2>5, <3>1, AppliedTo
  <2>. QED BY <1>3, <1>6, <2>5, <2>6, MinusItself DEF st
<1>. QED BY <1>3, <1>5, <1>6

\* The profits and losses of the trades add up to what was realized, and there is at
\* most one for each closing fill.
LEMMA TradesAddUp ==
  ASSUME NEW fl \in Seq(AnyFill)
  PROVE  /\ Same(Minus(Gains(RealizedPnls(fl)), Losses(RealizedPnls(fl))), Position(fl).realized)
         /\ Len(RealizedPnls(fl)) <= Cardinality(Closing(fl))
<1>. DEFINE n == Len(fl)
            bk == Booked(fl)
            kept(i) == Upto(KeepFold, bk, i)
            some(i) == {j \in 1 .. i : bk[j].n # 0}
            r(i) == Tracker(fl, i).realized
            Good == {i \in 0 .. n : /\ Summed(kept(i)) /\ Same(Sides(kept(i)), r(i))
                                    /\ IsFiniteSet(some(i)) /\ Len(kept(i)) = Cardinality(some(i))}
<1>1. n \in Nat /\ bk \in Seq(Fraction) /\ Len(bk) = n /\ DOMAIN bk = 1 .. n
  BY BookedIs
<1>2. ASSUME NEW i \in 0 .. n PROVE r(i) \in Fraction
  BY <1>2, PositionsBalance DEF AnyState
<1>3. ASSUME NEW i \in 1 .. n PROVE bk[i] = Minus(r(i), r(i - 1))
  BY <1>3, BookedIs
<1>4. /\ kept(0) = <<>> /\ kept(n) = RealizedPnls(fl)
      /\ \A i \in 1 .. n : kept(i) = Keep(kept(i - 1), bk[i])
  <2>1. /\ kept(0) = KeepFold.start /\ kept(n) = Folded(KeepFold, bk)
        /\ \A i \in 1 .. n : kept(i) = Step(KeepFold, kept(i - 1), bk[i])
    <3>. HIDE DEF bk, n
    <3>. QED BY <1>1, FoldAlong
  <2>2. KeepFold.start = <<>> /\ \A st, x : Step(KeepFold, st, x) = Keep(st, x)
    BY DEF Step, KeepFold
  <2>3. Folded(KeepFold, bk) = RealizedPnls(fl)
    BY <1>1, ListIndices, KeptIsFold DEF RealizedPnls
  <2>. HIDE DEF kept, bk, n
  <2>. QED BY <2>1, <2>2, <2>3
<1>5. r(0) = Whole(0)
  BY TrackerAlong DEF PositionState
<1>. HIDE DEF n, bk, kept, r
<1>6. 0 \in Good
  <2>1. some(0) = {}
    OBVIOUS
  <2>2. IsFiniteSet(some(0)) /\ Cardinality(some(0)) = 0
    BY <2>1, FS_EmptySet
  <2>3. Len(<<>>) = 0 /\ 0 \in 0 .. n
    BY <1>1
  <2>. HIDE DEF some
  <2>. QED BY <1>4, <1>5, <2>2, <2>3, NothingYet
<1>7. ASSUME NEW i \in 1 .. n, i - 1 \in Good PROVE i \in Good
  <2>. DEFINE k == kept(i - 1)
              x == bk[i]
  <2>1. /\ Summed(k) /\ Same(Sides(k), r(i - 1))
        /\ IsFiniteSet(some(i - 1)) /\ Len(k) = Cardinality(some(i - 1))
    BY <1>7
  <2>2. i \in 0 .. n /\ i - 1 \in 0 .. n /\ i \in Nat
    BY <1>1, <1>7
  <2>3. kept(i) = Keep(k, x) /\ x = Minus(r(i), r(i - 1)) /\ x \in Fraction
    <3>1. r(i) \in Fraction /\ r(i - 1) \in Fraction
      BY <1>2, <2>2
    <3>. QED BY <1>3, <1>4, <1>7, <3>1, PlusIs
  <2>4. Sides(k) \in Fraction /\ r(i) \in Fraction /\ r(i - 1) \in Fraction
    BY <1>2, <2>1, <2>2, PlusIs DEF Sides, Summed
  <2>5. some(i) = IF x.n # 0 THEN some(i - 1) \cup {i} ELSE some(i - 1)
    <3>1. \A j \in Int : j \in 1 .. i <=> j \in 1 .. i - 1 \/ j = i
      BY <2>2
    <3>. QED BY <2>2, <3>1
  <2>6. i \notin some(i - 1)
    BY <2>2
  <2>. HIDE DEF k, x, some
  <2>7. CASE x.n = 0
    <3>1. kept(i) = k
      BY <2>3, <2>7 DEF Keep
    <3>2. Same(r(i), r(i - 1))
      BY <2>3, <2>4, <2>7, MinusZero
    <3>3. Same(r(i - 1), r(i))
      BY <3>2 DEF Same
    <3>4. Same(Sides(k), r(i))
      BY <2>1, <2>4, <3>3, SameTransitive
    <3>. QED BY <2>1, <2>2, <2>5, <2>7, <3>1, <3>4
  <2>8. CASE x.n # 0
    <3>1. kept(i) = Append(k, x)
      BY <2>3, <2>8 DEF Keep
    <3>2. Summed(Append(k, x)) /\ Same(Sides(Append(k, x)), Plus(Sides(k), x))
      BY <2>1, <2>3, <2>8, OneAmount
    <3>3. Same(Plus(Sides(k), x), Plus(r(i - 1), x))
      BY <2>1, <2>3, <2>4, PlusSame
    <3>4. Same(Plus(r(i - 1), x), r(i))
      BY <2>3, <2>4, PlusLaws
    <3>5. /\ Sides(Append(k, x)) \in Fraction
          /\ Plus(Sides(k), x) \in Fraction /\ Plus(r(i - 1), x) \in Fraction
      BY <2>3, <2>4, <3>2, PlusIs DEF Sides, Summed
    <3>6. Same(Sides(Append(k, x)), r(i))
      <4>1. Same(Sides(Append(k, x)), Plus(r(i - 1), x))
        BY <3>2, <3>3, <3>5, SameTransitive
      <4>. QED BY <2>4, <3>4, <3>5, <4>1, SameTransitive
    <3>7. /\ IsFiniteSet(some(i - 1) \cup {i})
          /\ Cardinality(some(i - 1) \cup {i}) = Cardinality(some(i - 1)) + 1
      BY <2>1, <2>6, FS_AddElement
    <3>8. Len(Append(k, x)) = Len(k) + 1
      <4>1. k \in Seq(Fraction)
        BY <2>1 DEF Summed
      <4>. QED BY <2>3, <4>1, AppendProperties
    <3>. QED BY <2>1, <2>2, <2>5, <2>8, <3>1, <3>2, <3>6, <3>7, <3>8
  <2>. QED BY <2>7, <2>8
<1>. HIDE DEF Good
<1>8. n \in Good
  <2>1. \A i \in 0 .. n : i \in Good
    BY <1>1, <1>6, <1>7, Along
  <2>. QED BY <1>1, <2>1
<1>9. /\ Summed(RealizedPnls(fl)) /\ Same(Sides(RealizedPnls(fl)), r(n))
      /\ Len(RealizedPnls(fl)) = Cardinality(some(n))
  BY <1>4, <1>8 DEF Good
<1>10. Cardinality(some(n)) <= Cardinality(Closing(fl))
  <2>1. Closing(fl) \in SUBSET (1 .. n)
    BY DEF Closing, n
  <2>2. IsFiniteSet(1 .. n)
    BY <1>1, FS_Interval
  <2>3. \A i \in 1 .. n : bk[i].n # 0 => i \in Closing(fl)
    BY BookedIs DEF bk, n
  <2>. QED BY <2>1, <2>2, <2>3, FS_Subset
<1>11. r(n) = Position(fl).realized
  BY TrackerAlong DEF r, n
<1>12. Same(Minus(Gains(RealizedPnls(fl)), Losses(RealizedPnls(fl))), r(n))
  <2>. DEFINE pnls == RealizedPnls(fl)
              g == Folded(GainFold, pnls)
              l == Folded(LossFold, pnls)
  <2>. HIDE DEF pnls
  <2>1. pnls \in Seq(Fraction) /\ g \in Fraction /\ l \in Fraction /\ Same(Plus(g, l), r(n))
    BY <1>9 DEF Summed, Sides, pnls
  <2>2. Gains(pnls) = g /\ Losses(pnls) = Minus(Whole(0), l)
    BY <2>1, ListIndices, GainsIsFold, LossesIsFold DEF Losses
  <2>. HIDE DEF g, l
  <2>3. Same(Minus(g, Minus(Whole(0), l)), Plus(g, l))
    BY <2>1, PlusLaws
  <2>4. /\ Minus(g, Minus(Whole(0), l)) \in Fraction /\ Plus(g, l) \in Fraction
        /\ r(n) \in Fraction
    <3>1. Whole(0) \in Fraction
      BY WholeIs
    <3>2. Minus(Whole(0), l) \in Fraction
      BY <2>1, <3>1, PlusIs
    <3>3. n \in 0 .. n
      BY <1>1
    <3>. QED BY <1>2, <2>1, <3>2, <3>3, PlusIs
  <2>5. Same(Minus(g, Minus(Whole(0), l)), r(n))
    BY <2>1, <2>3, <2>4, SameTransitive
  <2>. QED BY <2>2, <2>5 DEF pnls
<1>. QED BY <1>9, <1>10, <1>11, <1>12

-------------------------------------------------------------------------------
(* Drawdowns, of any curve.                                                  *)

LEMMA LessItself == ASSUME NEW a \in Fraction PROVE ~Less(a, a)
BY LessTotal

\* The pass after i points: its peak is the highest of them, and its deepest fall a
\* fall from one of them to a later one, of which there is no deeper.
DeepestAt(curve, i, pass) ==
  /\ pass.some = (i > 0) /\ pass.peak \in Fraction /\ pass.deepest \in Fraction
  /\ i = 0 => pass.deepest = Whole(0)
  /\ i > 0 => \E j \in 1 .. i : pass.peak = curve[j]
  /\ \A j \in 1 .. i : ~Less(pass.peak, curve[j])
  /\ \A k \in 1 .. i : \A j \in 1 .. k : ~Less(Minus(curve[k], curve[j]), pass.deepest)
  /\ i > 0 => \E k \in 1 .. i : \E j \in 1 .. k : Same(Minus(curve[k], curve[j]), pass.deepest)

LEMMA DeepestStep ==
  ASSUME NEW n \in Nat, NEW curve, \A i \in 1 .. n : curve[i] \in Fraction,
         NEW i \in 1 .. n, NEW pass, DeepestAt(curve, i - 1, pass)
  PROVE  DeepestAt(curve, i, Drawdown(pass, curve[i]))
<1>. DEFINE e == curve[i]
            peak == IF pass.some /\ Less(e, pass.peak) THEN pass.peak ELSE e
            fall == Minus(e, peak)
            deepest == IF Less(fall, pass.deepest) THEN fall ELSE pass.deepest
            new == Drawdown(pass, e)
<1>1. new.some = TRUE /\ new.peak = peak /\ new.deepest = deepest
  BY DEF Drawdown
<1>2. /\ i \in Nat /\ i > 0 /\ i - 1 \in Nat /\ i \in 1 .. i /\ e \in Fraction
      /\ \A j \in 1 .. i : j \in 1 .. i - 1 \/ j = i
      /\ \A j \in 1 .. i - 1 : j \in 1 .. i
      /\ \A j \in 1 .. i : curve[j] \in Fraction
  OBVIOUS
<1>3. /\ pass.some = (i - 1 > 0) /\ pass.peak \in Fraction /\ pass.deepest \in Fraction
      /\ \A j \in 1 .. i - 1 : ~Less(pass.peak, curve[j])
      /\ \A k \in 1 .. i - 1 : \A j \in 1 .. k : ~Less(Minus(curve[k], curve[j]), pass.deepest)
  BY DEF DeepestAt
<1>. HIDE DEF e, new
<1>4. peak \in Fraction /\ ~Less(peak, e)
  <2>1. ~(Less(e, pass.peak) /\ Less(pass.peak, e)) /\ ~Less(e, e)
    BY <1>2, <1>3, LessTotal, LessItself
  <2>. QED BY <1>2, <1>3, <2>1
<1>5. \E j \in 1 .. i : peak = curve[j]
  <2>1. CASE pass.some /\ Less(e, pass.peak)
    <3>1. \E j \in 1 .. i - 1 : pass.peak = curve[j]
      BY <1>2, <1>3, <2>1 DEF DeepestAt
    <3>. QED BY <1>2, <2>1, <3>1
  <2>2. CASE ~(pass.some /\ Less(e, pass.peak))
    BY <1>2, <2>2 DEF e
  <2>. QED BY <2>1, <2>2
<1>6. \A j \in 1 .. i : ~Less(peak, curve[j])
  <2>. SUFFICES ASSUME NEW j \in 1 .. i PROVE ~Less(peak, curve[j])
    OBVIOUS
  <2>1. CASE j = i
    BY <1>4, <2>1 DEF e
  <2>2. CASE j \in 1 .. i - 1
    <3>1. ~Less(pass.peak, curve[j]) /\ curve[j] \in Fraction /\ pass.some
      <4>1. i - 1 > 0
        BY <1>2, <2>2
      <4>2. pass.some
        BY <1>3, <4>1, Zenon
      <4>. QED BY <1>2, <1>3, <2>2, <4>2
    <3>2. ~Less(peak, pass.peak)
      <4>1. ~Less(pass.peak, pass.peak)
        BY <1>3, LessItself
      <4>. QED BY <3>1, <4>1
    <3>. QED BY <1>3, <1>4, <3>1, <3>2, LessTransitive
  <2>. QED BY <1>2, <2>1, <2>2
<1>. HIDE DEF peak
<1>7. fall \in Fraction /\ deepest \in Fraction /\ ~Less(fall, deepest) /\ ~Less(pass.deepest, deepest)
  <2>1. fall \in Fraction
    BY <1>2, <1>4, PlusIs
  <2>. HIDE DEF fall
  <2>2. ~(Less(fall, pass.deepest) /\ Less(pass.deepest, fall)) /\ ~Less(fall, fall)
        /\ ~Less(pass.deepest, pass.deepest)
    BY <1>3, <2>1, LessTotal, LessItself
  <2>. QED BY <1>3, <2>1, <2>2
<1>8. \A k \in 1 .. i : \A j \in 1 .. k : ~Less(Minus(curve[k], curve[j]), deepest)
  <2>. SUFFICES ASSUME NEW k \in 1 .. i, NEW j \in 1 .. k
                PROVE  ~Less(Minus(curve[k], curve[j]), deepest)
    OBVIOUS
  <2>. DEFINE f == Minus(curve[k], curve[j])
  <2>1. j \in 1 .. i /\ curve[k] \in Fraction /\ curve[j] \in Fraction /\ f \in Fraction
    <3>1. j \in 1 .. i
      BY <1>2
    <3>. QED BY <1>2, <3>1, PlusIs
  <2>2. CASE k = i
    <3>1. ~Less(f, fall)
      BY <1>2, <1>4, <1>6, <2>1, <2>2, MinusFalls DEF e
    <3>. HIDE DEF fall, f, deepest
    <3>2. ~Less(f, deepest)
      BY <1>7, <2>1, <3>1, LessTransitive
    <3>. QED BY <3>2 DEF f
  <2>3. CASE k \in 1 .. i - 1
    <3>1. ~Less(f, pass.deepest)
      BY <1>3, <2>3
    <3>. HIDE DEF fall, f, deepest
    <3>2. ~Less(f, deepest)
      BY <1>3, <1>7, <2>1, <3>1, LessTransitive
    <3>. QED BY <3>2 DEF f
  <2>. QED BY <1>2, <2>2, <2>3
<1>9. \E k \in 1 .. i : \E j \in 1 .. k : Same(Minus(curve[k], curve[j]), deepest)
  <2>1. CASE Less(fall, pass.deepest)
    <3>1. PICK j \in 1 .. i : peak = curve[j]
      BY <1>5
    <3>2. Minus(curve[i], curve[j]) = deepest
      BY <2>1, <3>1 DEF e
    <3>3. Same(deepest, deepest)
      <4>. HIDE DEF deepest
      <4>. QED BY DEF Same
    <3>. QED BY <1>2, <3>2, <3>3
  <2>2. CASE ~Less(fall, pass.deepest) /\ i - 1 > 0
    <3>1. PICK k \in 1 .. i - 1 : \E j \in 1 .. k : Same(Minus(curve[k], curve[j]), pass.deepest)
      BY <1>2, <2>2 DEF DeepestAt
    <3>. QED BY <1>2, <2>2, <3>1
  <2>3. CASE ~Less(fall, pass.deepest) /\ i - 1 = 0
    <3>1. pass.deepest = Whole(0)
      BY <2>3 DEF DeepestAt
    <3>2. Same(Minus(e, e), Whole(0))
      BY <1>2, MinusItself
    <3>. QED BY <1>2, <2>3, <3>1, <3>2 DEF e
  <2>. QED BY <1>2, <2>1, <2>2, <2>3
<1>. HIDE DEF deepest, fall
<1>10. i # 0
  BY <1>2
<1>. QED BY <1>1, <1>2, <1>4, <1>5, <1>6, <1>7, <1>8, <1>9, <1>10 DEF DeepestAt, new, e

\* Among its first m points the curve never falls.
Unfallen(curve, m) == \A k \in 1 .. m : \A j \in 1 .. k : ~Less(curve[k], curve[j])

LEMMA DeepestFound ==
  ASSUME NEW curve \in Seq(Fraction)
  PROVE  /\ Same(MaxDrawdown(curve), LargestFall(curve))
         /\ MaxDrawdown(curve).n = 0 <=> Unfallen(curve, Len(curve))
<1>. DEFINE n == Len(curve)
            pass(i) == Upto(DrawdownFold, curve, i)
            Good == {i \in 0 .. n : DeepestAt(curve, i, pass(i))}
            deepest == pass(n).deepest
            falls == UNION {{Minus(curve[j], curve[i]) : j \in i .. n} : i \in DOMAIN curve}
<1>1. n \in Nat /\ DOMAIN curve = 1 .. n /\ \A i \in 1 .. n : curve[i] \in Fraction
  OBVIOUS
<1>2. /\ pass(0) = NoDrawdown /\ pass(n) = FoldLeft(Drawdown, NoDrawdown, curve)
      /\ \A i \in 1 .. n : pass(i) = Drawdown(pass(i - 1), curve[i])
  <2>1. /\ pass(0) = DrawdownFold.start /\ pass(n) = Folded(DrawdownFold, curve)
        /\ \A i \in 1 .. n : pass(i) = Step(DrawdownFold, pass(i - 1), curve[i])
    BY FoldAlong
  <2>2. /\ DrawdownFold.start = NoDrawdown
        /\ \A st, x : Step(DrawdownFold, st, x) = Drawdown(st, x)
    BY DEF Step, DrawdownFold
  <2>3. Folded(DrawdownFold, curve) = FoldLeft(Drawdown, NoDrawdown, curve)
    BY ListIndices, DrawdownIsFold
  <2>. HIDE DEF pass, n
  <2>. QED BY <2>1, <2>2, <2>3
<1>. HIDE DEF pass, n
<1>3. 0 \in Good
  <2>1. NoDrawdown.some = FALSE /\ NoDrawdown.peak = Whole(0) /\ NoDrawdown.deepest = Whole(0)
    BY DEF NoDrawdown
  <2>2. Whole(0) \in Fraction /\ 0 \in 0 .. n /\ (0 > 0) = FALSE /\ \A j \in 1 .. 0 : FALSE
    BY <1>1, WholeIs
  <2>3. DeepestAt(curve, 0, NoDrawdown)
    BY <2>1, <2>2 DEF DeepestAt
  <2>. QED BY <1>2, <2>2, <2>3
<1>4. ASSUME NEW i \in 1 .. n, i - 1 \in Good PROVE i \in Good
  <2>1. DeepestAt(curve, i, Drawdown(pass(i - 1), curve[i]))
    BY <1>1, <1>4, DeepestStep
  <2>2. i \in 0 .. n
    BY <1>1, <1>4
  <2>. QED BY <1>2, <1>4, <2>1, <2>2
<1>. HIDE DEF Good
<1>5. DeepestAt(curve, n, pass(n))
  <2>1. n \in Good
    <3>1. \A i \in 0 .. n : i \in Good
      BY <1>1, <1>3, <1>4, Along
    <3>. QED BY <1>1, <3>1
  <2>. QED BY <2>1 DEF Good
<1>6. /\ deepest \in Fraction
      /\ n = 0 => deepest = Whole(0)
      /\ \A k \in 1 .. n : \A j \in 1 .. k : ~Less(Minus(curve[k], curve[j]), deepest)
      /\ n > 0 => \E k \in 1 .. n : \E j \in 1 .. k : Same(Minus(curve[k], curve[j]), deepest)
  BY <1>5 DEF DeepestAt
<1>7. MaxDrawdown(curve) = deepest
  BY <1>2 DEF MaxDrawdown
<1>13. deepest.n = 0 <=> Unfallen(curve, n)
  <2>. HIDE DEF deepest
  <2>1. \A k \in 1 .. n : \A j \in 1 .. k :
          /\ curve[k] \in Fraction /\ curve[j] \in Fraction
          /\ Minus(curve[k], curve[j]) \in Fraction
          /\ Minus(curve[k], curve[j]).n < 0 <=> Less(curve[k], curve[j])
    <3>1. \A k \in 1 .. n : \A j \in 1 .. k : j \in 1 .. n
      BY <1>1
    <3>. QED BY <1>1, <3>1, PlusIs, SignOf
  <2>2. ASSUME deepest.n = 0, NEW k \in 1 .. n, NEW j \in 1 .. k PROVE ~Less(curve[k], curve[j])
    BY <1>6, <2>1, <2>2, SignOf
  <2>3. ASSUME Unfallen(curve, n), n > 0 PROVE deepest.n = 0
    <3>1. PICK k \in 1 .. n : \E j \in 1 .. k : Same(Minus(curve[k], curve[j]), deepest)
      BY <1>6, <2>3
    <3>2. PICK j \in 1 .. k : Same(Minus(curve[k], curve[j]), deepest)
      BY <3>1
    <3>3. ~(deepest.n < 0)
      <4>1. ~Less(curve[k], curve[j])
        BY <2>3 DEF Unfallen
      <4>. QED BY <1>6, <2>1, <3>2, <4>1, SignOf
    <3>4. ~(deepest.n > 0)
      <4>1. 1 \in 1 .. n /\ 1 \in 1 .. 1
        BY <1>1, <2>3
      <4>2. Minus(curve[1], curve[1]).n = 0 /\ Minus(curve[1], curve[1]) \in Fraction
        BY <2>1, <4>1, MinusItself
      <4>. QED BY <1>6, <4>1, <4>2, SignOf
    <3>5. deepest.n \in Int
      BY <1>6 DEF Fraction
    <3>. QED BY <3>3, <3>4, <3>5
  <2>4. n = 0 => deepest.n = 0
    BY <1>6, WholeIs
  <2>5. n = 0 \/ n > 0
    BY <1>1
  <2>. QED BY <2>2, <2>3, <2>4, <2>5 DEF Unfallen
<1>8. LargestFall(curve) = IF falls = {} THEN Whole(0) ELSE CHOOSE f \in falls : \A g \in falls : ~Less(g, f)
  BY DEF LargestFall, n
<1>9. \A f : f \in falls <=> \E k \in 1 .. n : \E j \in 1 .. k : f = Minus(curve[k], curve[j])
  <2>1. ASSUME NEW f, f \in falls
        PROVE  \E k \in 1 .. n : \E j \in 1 .. k : f = Minus(curve[k], curve[j])
    <3>1. PICK j \in 1 .. n : f \in {Minus(curve[k], curve[j]) : k \in j .. n}
      BY <1>1, <2>1
    <3>2. PICK k \in j .. n : f = Minus(curve[k], curve[j])
      BY <3>1
    <3>3. k \in 1 .. n /\ j \in 1 .. k
      BY <1>1
    <3>. QED BY <3>2, <3>3
  <2>2. ASSUME NEW k \in 1 .. n, NEW j \in 1 .. k PROVE Minus(curve[k], curve[j]) \in falls
    <3>1. j \in 1 .. n /\ k \in j .. n
      BY <1>1
    <3>. QED BY <1>1, <3>1
  <2>. HIDE DEF falls
  <2>. QED BY <2>1, <2>2
<1>10. \A f \in falls : f \in Fraction /\ ~Less(f, deepest)
  <2>. SUFFICES ASSUME NEW f \in falls PROVE f \in Fraction /\ ~Less(f, deepest)
    OBVIOUS
  <2>. HIDE DEF falls, deepest
  <2>0. PICK k \in 1 .. n : \E j \in 1 .. k : f = Minus(curve[k], curve[j])
    BY <1>9
  <2>1. PICK j \in 1 .. k : f = Minus(curve[k], curve[j])
    BY <2>0
  <2>2. j \in 1 .. n
    BY <1>1
  <2>. QED BY <1>1, <1>6, <2>1, <2>2, PlusIs
<1>. HIDE DEF falls, deepest
<1>11. ASSUME n = 0 PROVE Same(MaxDrawdown(curve), LargestFall(curve))
  <2>1. falls = {}
    <3>1. \A k \in 1 .. n : FALSE
      BY <1>11
    <3>. QED BY <1>9, <3>1
  <2>. QED BY <1>6, <1>7, <1>8, <1>11, <2>1 DEF Same
<1>12. ASSUME n # 0 PROVE Same(MaxDrawdown(curve), LargestFall(curve))
  <2>1. PICK f \in falls : Same(f, deepest)
    <3>1. n > 0
      BY <1>1, <1>12
    <3>2. PICK k \in 1 .. n : \E j \in 1 .. k : Same(Minus(curve[k], curve[j]), deepest)
      BY <1>6, <3>1
    <3>3. PICK j \in 1 .. k : Same(Minus(curve[k], curve[j]), deepest)
      BY <3>2
    <3>4. Minus(curve[k], curve[j]) \in falls
      BY <1>9
    <3>. QED BY <3>3, <3>4
  <2>2. ~Less(f, deepest) /\ ~Less(deepest, f)
    BY <1>6, <1>10, <2>1, LessTotal
  <2>3. \A g \in falls : ~Less(g, f)
    BY <1>6, <1>10, <2>2, LessTransitive
  <2>. DEFINE h == CHOOSE f_1 \in falls : \A g \in falls : ~Less(g, f_1)
  <2>4. h \in falls /\ \A g \in falls : ~Less(g, h)
    BY <2>1, <2>3
  <2>5. LargestFall(curve) = h
    BY <1>8, <2>1
  <2>. HIDE DEF h
  <2>6. ~Less(f, h) /\ ~Less(h, deepest) /\ h \in Fraction
    BY <1>10, <2>4
  <2>7. ~Less(deepest, h)
    BY <1>6, <1>10, <2>2, <2>6, LessTransitive
  <2>8. Same(deepest, h)
    BY <1>6, <2>6, <2>7, LessTotal
  <2>. QED BY <1>7, <2>5, <2>8
<1>14. Same(MaxDrawdown(curve), LargestFall(curve))
  BY <1>11, <1>12
<1>. QED BY <1>7, <1>13, <1>14 DEF n

-------------------------------------------------------------------------------
(* Times under water.                                                        *)

\* Point j is under point i, and so is, or level with it, whatever lies between.
UnderFrom(curve, i, j) ==
  Less(curve[j], curve[i]) /\ \A k \in i .. j : ~Less(curve[i], curve[k])

\* The pass after m points: the last peak, and a time under one, if the curve fell.
LongestAt(curve, m, pass) ==
  /\ pass = [peak |-> pass.peak, longest |-> pass.longest]
  /\ pass.peak \in Nat /\ pass.longest \in Nat
  /\ m = 0 => pass.peak = 1 /\ pass.longest = 0
  /\ m > 0 => pass.peak \in 1 .. m
  /\ \A k \in 1 .. m : ~Less(curve[pass.peak], curve[k])
  /\ pass.longest = 0 => Unfallen(curve, m)
  /\ \/ pass.longest = 0
     \/ \E j \in 1 .. m : \E i \in 1 .. j : UnderFrom(curve, i, j) /\ pass.longest = j - i

LEMMA MaxOfTwo ==
  ASSUME NEW a \in Int, NEW b \in Int
  PROVE  Max({a, b}) = IF a <= b THEN b ELSE a
<1>1. IsFiniteSet({a, b})
  <2>1. IsFiniteSet({a}) /\ {a, b} = {a} \cup {b}
    BY FS_Singleton
  <2>. QED BY <2>1, FS_AddElement
<1>2. Max({a, b}) \in {a, b} /\ \A y \in {a, b} : y <= Max({a, b})
  BY <1>1, MaxExists
<1>. QED BY <1>2

LEMMA LongestStep ==
  ASSUME NEW n \in Nat, NEW curve, \A i \in 1 .. n : curve[i] \in Fraction,
         NEW m \in 1 .. n, NEW pass, LongestAt(curve, m - 1, pass)
  PROVE  LongestAt(curve, m, Duration(curve, pass, m))
<1>. DEFINE p == pass.peak
            old == pass.longest
            new == Duration(curve, pass, m)
<1>1. /\ m \in Nat /\ m > 0 /\ m - 1 \in Nat /\ m \in 1 .. m /\ curve[m] \in Fraction
      /\ \A j \in 1 .. m : j \in 1 .. m - 1 \/ j = m
      /\ \A j \in 1 .. m - 1 : j \in 1 .. m
      /\ \A j \in 1 .. m : curve[j] \in Fraction
      /\ \A j \in 1 .. m : \A i \in 1 .. j : i \in 1 .. m
  OBVIOUS
<1>2. /\ pass = [peak |-> p, longest |-> old]
      /\ p \in Nat /\ old \in Nat
      /\ m - 1 = 0 => p = 1 /\ old = 0
      /\ m - 1 > 0 => p \in 1 .. m - 1
      /\ \A k \in 1 .. m - 1 : ~Less(curve[p], curve[k])
      /\ old = 0 => Unfallen(curve, m - 1)
      /\ \/ old = 0
         \/ \E j \in 1 .. m - 1 : \E i \in 1 .. j : UnderFrom(curve, i, j) /\ old = j - i
  BY DEF LongestAt
<1>3. p \in 1 .. m /\ (m - 1 > 0 \/ p = m) /\ curve[p] \in Fraction
  <2>. HIDE DEF p, old
  <2>1. p \in 1 .. m /\ (m - 1 > 0 \/ p = m)
    BY <1>1, <1>2
  <2>. QED BY <1>1, <2>1
<1>. HIDE DEF p, old, new
<1>4. CASE ~Less(curve[m], curve[p])
  <2>1. new = [peak |-> m, longest |-> old]
    <3>1. new = [pass EXCEPT !.peak = m]
      BY <1>4 DEF Duration, new, p
    <3>. QED BY <1>2, <3>1
  <2>2. \A k \in 1 .. m : ~Less(curve[m], curve[k])
    <3>. SUFFICES ASSUME NEW k \in 1 .. m PROVE ~Less(curve[m], curve[k])
      OBVIOUS
    <3>1. CASE k = m
      BY <1>1, <3>1, LessItself
    <3>2. CASE k \in 1 .. m - 1
      <4>1. ~Less(curve[p], curve[k]) /\ curve[k] \in Fraction
        BY <1>1, <1>2, <3>2
      <4>. QED BY <1>1, <1>3, <1>4, <4>1, LessTransitive
    <3>. QED BY <1>1, <3>1, <3>2
  <2>3. old = 0 => Unfallen(curve, m)
    <3>. SUFFICES ASSUME old = 0, NEW k \in 1 .. m, NEW j \in 1 .. k PROVE ~Less(curve[k], curve[j])
      BY DEF Unfallen
    <3>1. CASE k = m
      BY <2>2, <3>1
    <3>2. CASE k \in 1 .. m - 1
      BY <1>2, <3>2 DEF Unfallen
    <3>. QED BY <1>1, <3>1, <3>2
  <2>5. \/ old = 0
        \/ \E j \in 1 .. m : \E i \in 1 .. j : UnderFrom(curve, i, j) /\ old = j - i
    BY <1>1, <1>2
  <2>6. new.peak = m /\ new.longest = old /\ m # 0
    BY <1>1, <2>1
  <2>. QED BY <1>1, <1>2, <2>1, <2>2, <2>3, <2>5, <2>6 DEF LongestAt, new
<1>5. CASE Less(curve[m], curve[p])
  <2>. DEFINE longest == Max({old, m - p})
  <2>1. p # m /\ m - 1 > 0 /\ p \in 1 .. m - 1
    <3>1. p # m
      BY <1>1, <1>5, LessItself
    <3>. QED BY <1>1, <1>2, <1>3, <3>1
  <2>2. new = [peak |-> p, longest |-> longest]
    <3>1. new = [pass EXCEPT !.longest = Max({old, m - p})]
      BY <1>5 DEF Duration, new, p, old
    <3>. QED BY <1>2, <3>1
  <2>3. /\ longest \in Nat /\ longest > 0
        /\ longest = old \/ longest = m - p
    <3>1. old \in Int /\ m - p \in Int /\ m - p > 0
      BY <1>1, <1>2, <2>1
    <3>2. longest = IF old <= m - p THEN m - p ELSE old
      BY <3>1, MaxOfTwo
    <3>. HIDE DEF longest
    <3>. QED BY <1>2, <3>1, <3>2
  <2>. HIDE DEF longest
  <2>4. \A k \in 1 .. m : ~Less(curve[p], curve[k])
    <3>1. ~Less(curve[p], curve[m])
      BY <1>1, <1>3, <1>5, LessTotal
    <3>. QED BY <1>1, <1>2, <3>1
  <2>5. UnderFrom(curve, p, m)
    <3>1. \A k \in p .. m : k \in 1 .. m
      BY <1>1, <2>1
    <3>. QED BY <1>5, <2>4, <3>1 DEF UnderFrom
  <2>8. \E j \in 1 .. m : \E i \in 1 .. j : UnderFrom(curve, i, j) /\ longest = j - i
    <3>1. CASE longest = m - p
      BY <1>1, <1>3, <2>5, <3>1
    <3>2. CASE longest = old
      <4>1. old # 0
        BY <2>3, <3>2
      <4>. QED BY <1>1, <1>2, <3>2, <4>1
    <3>. QED BY <2>3, <3>1, <3>2
  <2>9. new.peak = p /\ new.longest = longest /\ m # 0
    BY <1>1, <2>2
  <2>. QED BY <1>1, <1>2, <1>3, <2>2, <2>3, <2>4, <2>8, <2>9 DEF LongestAt, new
<1>. QED BY <1>4, <1>5 DEF new

LEMMA LongestFound ==
  ASSUME NEW curve \in Seq(Fraction)
  PROVE  /\ MaxDrawdownDuration(curve) <= LongestUnderWater(curve)
         /\ MaxDrawdownDuration(curve) = 0 <=> Unfallen(curve, Len(curve))
<1>. DEFINE n == Len(curve)
            times == [i \in DOMAIN curve |-> i]
            pass(i) == Upto(DurationFold(curve), times, i)
            Good == {i \in 0 .. n : LongestAt(curve, i, pass(i))}
            longest == pass(n).longest
            spans == UNION {{j - i : j \in {k \in i .. n : UnderFrom(curve, i, k)}} : i \in DOMAIN curve}
<1>1. n \in Nat /\ DOMAIN curve = 1 .. n /\ \A i \in 1 .. n : curve[i] \in Fraction
  OBVIOUS
<1>2. times \in Seq(Nat) /\ Len(times) = n /\ \A i \in 1 .. n : times[i] = i
  <2>1. times \in [1 .. n -> Nat]
    BY <1>1
  <2>2. times \in Seq(Nat) /\ Len(times) = n
    <3>. HIDE DEF times, n
    <3>. QED BY <1>1, <2>1, IsASeq, LenProperties
  <2>. QED BY <1>1, <2>2
<1>3. /\ pass(0) = [peak |-> 1, longest |-> 0]
      /\ pass(n) = Folded(DurationFold(curve), times)
      /\ \A i \in 1 .. n : pass(i) = Duration(curve, pass(i - 1), i)
  <2>. DEFINE fold == DurationFold(curve)
  <2>1. /\ fold.start = [peak |-> 1, longest |-> 0]
        /\ \A st, x : Step(fold, st, x) = Duration(curve, st, x)
    BY DEF Step, DurationFold
  <2>. HIDE DEF fold, times, n
  <2>2. /\ Upto(fold, times, 0) = fold.start /\ Upto(fold, times, Len(times)) = Folded(fold, times)
        /\ \A i \in 1 .. Len(times) :
             Upto(fold, times, i) = Step(fold, Upto(fold, times, i - 1), times[i])
    <3>1. times \in Seq(Nat)
      BY <1>2
    <3>. QED BY <3>1, FoldAlong
  <2>3. \A i \in 1 .. n : Upto(fold, times, i) = Duration(curve, Upto(fold, times, i - 1), i)
    BY <1>2, <2>1, <2>2
  <2>4. Upto(fold, times, 0) = [peak |-> 1, longest |-> 0] /\ Upto(fold, times, n) = Folded(fold, times)
    BY <1>2, <2>1, <2>2
  <2>. HIDE DEF pass
  <2>5. \A i : pass(i) = Upto(fold, times, i)
    BY DEF pass, fold
  <2>6. pass(0) = [peak |-> 1, longest |-> 0] /\ pass(n) = Folded(fold, times)
    BY <2>4, <2>5
  <2>7. \A i \in 1 .. n : pass(i) = Duration(curve, pass(i - 1), i)
    BY <2>3, <2>5
  <2>. QED BY <2>6, <2>7 DEF fold
<1>4. Folded(DurationFold(curve), times)
        = FoldLeft(LAMBDA pass_1, i : Duration(curve, pass_1, i), [peak |-> 1, longest |-> 0], times)
  <2>. HIDE DEF times
  <2>. QED BY <1>2, ListIndices, DurationIsFold
<1>. HIDE DEF pass, n
<1>5. 0 \in Good
  <2>1. \A j \in 1 .. 0 : FALSE
    OBVIOUS
  <2>2. Unfallen(curve, 0)
    BY <2>1 DEF Unfallen
  <2>3. ~(0 > 0) /\ 0 \in 0 .. n
    BY <1>1
  <2>. DEFINE st == pass(0)
  <2>4. st = [peak |-> 1, longest |-> 0] /\ st.peak = 1 /\ st.longest = 0
    BY <1>3
  <2>. HIDE DEF st
  <2>5. LongestAt(curve, 0, st)
    BY <2>1, <2>2, <2>3, <2>4 DEF LongestAt
  <2>. QED BY <2>3, <2>5 DEF st
<1>6. ASSUME NEW i \in 1 .. n, i - 1 \in Good PROVE i \in Good
  <2>1. LongestAt(curve, i, Duration(curve, pass(i - 1), i))
    BY <1>1, <1>6, LongestStep
  <2>2. i \in 0 .. n
    BY <1>1, <1>6
  <2>. QED BY <1>3, <1>6, <2>1, <2>2
<1>. HIDE DEF Good
<1>7. LongestAt(curve, n, pass(n))
  <2>1. n \in Good
    <3>1. \A i \in 0 .. n : i \in Good
      BY <1>1, <1>5, <1>6, Along
    <3>. QED BY <1>1, <3>1
  <2>. QED BY <2>1 DEF Good
<1>8. /\ longest \in Nat
      /\ n = 0 => longest = 0
      /\ longest = 0 => Unfallen(curve, n)
      /\ \/ longest = 0
         \/ \E j \in 1 .. n : \E i \in 1 .. j : UnderFrom(curve, i, j) /\ longest = j - i
  BY <1>7 DEF LongestAt
<1>9. MaxDrawdownDuration(curve) = longest
  <2>1. CASE curve = <<>>
    <3>1. n = 0
      BY <2>1 DEF n
    <3>. QED BY <1>8, <2>1, <3>1 DEF MaxDrawdownDuration
  <2>2. CASE curve # <<>>
    BY <1>3, <1>4, <2>2 DEF MaxDrawdownDuration
  <2>. QED BY <2>1, <2>2
<1>10. LongestUnderWater(curve) = Max({0} \cup spans)
  BY DEF LongestUnderWater, UnderFrom, n
<1>11. ASSUME NEW j \in 1 .. n, NEW i \in 1 .. j, UnderFrom(curve, i, j) PROVE j - i \in spans
  <2>1. i \in 1 .. n /\ j \in i .. n
    BY <1>1
  <2>2. j - i \in {k - i : k \in {k \in i .. n : UnderFrom(curve, i, k)}}
    BY <1>11, <2>1
  <2>. QED BY <1>1, <2>1, <2>2
<1>12. spans \subseteq 0 .. n
  <2>. SUFFICES ASSUME NEW x \in spans PROVE x \in 0 .. n
    OBVIOUS
  <2>1. PICK i \in DOMAIN curve : x \in {j - i : j \in {k \in i .. n : UnderFrom(curve, i, k)}}
    OBVIOUS
  <2>2. PICK j \in i .. n : x = j - i
    BY <2>1
  <2>. QED BY <1>1, <2>2
<1>. HIDE DEF spans, longest
<1>. DEFINE S == {0} \cup spans
<1>13. S \subseteq Int /\ IsFiniteSet(S) /\ S # {}
  <2>1. S \in SUBSET (0 .. n) /\ S \subseteq Int /\ S # {}
    BY <1>1, <1>12
  <2>2. IsFiniteSet(0 .. n)
    BY <1>1, FS_Interval
  <2>. HIDE DEF S
  <2>3. IsFiniteSet(S)
    BY <2>1, <2>2, FS_Subset
  <2>. QED BY <2>1, <2>3
<1>14. longest \in S
  BY <1>8, <1>11
<1>15. longest <= Max(S)
  <2>. HIDE DEF S
  <2>. QED BY <1>13, <1>14, MaxExists
<1>16. longest = 0 <=> Unfallen(curve, n)
  <2>1. ASSUME longest # 0 PROVE ~Unfallen(curve, n)
    <3>1. PICK j \in 1 .. n : \E i \in 1 .. j : UnderFrom(curve, i, j)
      BY <1>8, <2>1
    <3>2. PICK i \in 1 .. j : UnderFrom(curve, i, j)
      BY <3>1
    <3>. QED BY <3>2 DEF UnderFrom, Unfallen
  <2>. QED BY <1>8, <2>1
<1>. QED BY <1>9, <1>10, <1>15, <1>16 DEF n

-------------------------------------------------------------------------------
(* The report.                                                               *)

\* What was spent less what was received, over all the fills.
LEMMA CashIs ==
  ASSUME NEW fl \in Seq(AnyFill)
  PROVE  Cash(fl) = -Net(Money(fl), fl, Len(fl))
<1>. DEFINE n == Len(fl)
            f == Money(fl)
            b == Buys(fl)
            s == Sells(fl)
<1>1. n \in Nat /\ DOMAIN fl = 1 .. n /\ \A i \in 1 .. n : fl[i] \in AnyFill
  OBVIOUS
<1>2. b \in SUBSET (1 .. n) /\ s \in SUBSET (1 .. n)
  BY <1>1 DEF Buys, Sells
<1>3. \A i \in 1 .. n : f[i] \in Nat
  <2>. SUFFICES ASSUME NEW i \in 1 .. n PROVE f[i] \in Nat
    OBVIOUS
  <2>1. fl[i].price \in Nat /\ fl[i].quantity \in Nat
    BY <1>1 DEF AnyFill
  <2>2. fl[i].price * fl[i].quantity \in Nat
    BY <2>1, SMT
  <2>3. f[i] = fl[i].price * fl[i].quantity
    BY <1>1 DEF Money
  <2>. QED BY <2>2, <2>3
<1>4. Cash(fl) = SumFunctionOnSet(f, s) - SumFunctionOnSet(f, b)
  BY DEF Cash, Money
<1>5. Net(f, fl, n) = SumFunctionOnSet(f, b) - SumFunctionOnSet(f, s)
  <2>. HIDE DEF f
  <2>1. b \cap 1 .. n = b /\ s \cap 1 .. n = s
    BY <1>2
  <2>. HIDE DEF b, s, n
  <2>2. SumTo(f, b, n) = SumFunctionOnSet(f, b) /\ SumTo(f, s, n) = SumFunctionOnSet(f, s)
    BY <2>1 DEF SumTo
  <2>. QED BY <2>2 DEF Net, b, s
<1>. HIDE DEF f, b, s, n
<1>6. SumFunctionOnSet(f, b) \in Nat /\ SumFunctionOnSet(f, s) \in Nat
  <2>1. IsFiniteSet(b) /\ IsFiniteSet(s)
    <3>1. IsFiniteSet(1 .. n)
      BY <1>1, FS_Interval
    <3>. QED BY <1>2, <3>1, FS_Subset
  <2>2. (\A i \in b : f[i] \in Nat) /\ \A i \in s : f[i] \in Nat
    BY <1>2, <1>3
  <2>. QED BY <2>1, <2>2, SumNat
<1>7. Cash(fl) = -Net(f, fl, n)
  BY <1>4, <1>5, <1>6
<1>. QED BY <1>7 DEF f, n

LEMMA CurveIs ==
  ASSUME NEW fl \in Seq(AnyFill)
  PROVE  EquityCurve(fl) \in Seq(Fraction)
<1>. DEFINE n == Len(fl)
            curve == EquityCurve(fl)
<1>1. n \in Nat /\ DOMAIN fl = 1 .. n
  OBVIOUS
<1>2. ASSUME NEW i \in 1 .. n PROVE curve[i] \in Fraction
  <2>1. i \in 0 .. n
    BY <1>1
  <2>2. curve[i] = Position(SubSeq(fl, 1, i)).realized
    BY <1>1 DEF EquityCurve
  <2>. HIDE DEF curve, n
  <2>3. Tracker(fl, i) = Position(SubSeq(fl, 1, i)) /\ Tracker(fl, i) \in AnyState
    BY <2>1, TrackerAlong, PositionsBalance DEF n
  <2>. QED BY <2>2, <2>3 DEF AnyState
<1>3. curve = [i \in 1 .. n |-> curve[i]]
  BY <1>1 DEF EquityCurve
<1>. HIDE DEF curve, n
<1>4. curve \in [1 .. n -> Fraction]
  BY <1>2, <1>3
<1>. QED BY <1>1, <1>4, IsASeq DEF curve

\* Whatever list of fills a strategy is told of, at whole prices and quantities, the
\* library's numbers balance (trademetrics: position.py, trades.py, drawdown.py).
\* What was realized is the money received less the money spent and the cost of what
\* is still held; the gains less the losses come to it, at most one for each closing
\* fill; the drawdown is the largest fall of the equity curve; and its duration is no
\* more than the longest time under a peak, and none only if there was no fall.
THEOREM FillsBalance ==
  ASSUME NEW fl \in Seq(AnyFill)
  PROVE  Balances(fl)
<1>1. /\ Same(Minus(Gains(RealizedPnls(fl)), Losses(RealizedPnls(fl))), Position(fl).realized)
      /\ Len(RealizedPnls(fl)) <= Cardinality(Closing(fl))
  BY TradesAddUp
<1>2. Same(Position(fl).realized,
           Plus(Whole(Cash(fl)), Times(Position(fl).cost, Position(fl).quantity)))
  <2>. DEFINE n == Len(fl)
  <2>1. n \in 0 .. n
    OBVIOUS
  <2>2. Position(fl) = Tracker(fl, n) /\ Cash(fl) = -Net(Money(fl), fl, n)
    BY TrackerAlong, CashIs
  <2>3. BalancedAt(Tracker(fl, n), -Net(Money(fl), fl, n))
    BY <2>1, PositionsBalance
  <2>. HIDE DEF n
  <2>. QED BY <2>2, <2>3 DEF BalancedAt
<1>3. /\ Same(MaxDrawdown(EquityCurve(fl)), LargestFall(EquityCurve(fl)))
      /\ MaxDrawdownDuration(EquityCurve(fl)) <= LongestUnderWater(EquityCurve(fl))
      /\ MaxDrawdownDuration(EquityCurve(fl)) = 0 <=> MaxDrawdown(EquityCurve(fl)).n = 0
  BY CurveIs, DeepestFound, LongestFound
<1>. QED BY <1>1, <1>2, <1>3 DEF Balances

\* A further fill is applied to the position that the ones before it give.
LEMMA PositionAppended ==
  ASSUME NEW R, NEW fl \in Seq(R), NEW x \in R
  PROVE  Position(Append(fl, x)) = Apply(Position(fl), x)
<1>1. Append(fl, x) \in Seq(R)
  BY AppendProperties
<1>2. Position(fl) = Folded(PositionFold, fl)
  BY ListIndices, PositionIsFold
<1>3. Position(Append(fl, x)) = Folded(PositionFold, Append(fl, x))
  BY <1>1, ListIndices, PositionIsFold
<1>4. \A st : Step(PositionFold, st, x) = Apply(st, x)
  BY DEF Step, PositionFold
<1>5. Folded(PositionFold, Append(fl, x)) = Step(PositionFold, Folded(PositionFold, fl), x)
  BY FoldAppended
<1>. QED BY <1>2, <1>3, <1>4, <1>5

LEMMA PositionEmpty == Position(<<>>) = PositionState
<1>1. Numbers(DOMAIN <<>>)
  <2>1. DOMAIN <<>> = {}
    OBVIOUS
  <2>. QED BY <2>1, FS_EmptySet DEF Numbers
<1>2. PositionFold.start = PositionState
  BY DEF PositionFold
<1>. QED BY <1>1, <1>2, PositionIsFold, FoldEmpty

-------------------------------------------------------------------------------
(* What the trades come to.                                                  *)

USE InputsAssumption

TradeRecord == [bid : Nat \cup {Others}, ask : Nat \cup {Others}, price : Prices, quantity : Quantities]
Fill == [side : {"buy", "sell"}, price : Prices, quantity : Quantities]

AmountsOf(tr) == [n \in DOMAIN tr |-> tr[n].quantity]

\* Of the trades ns, those whose bid is ours, and the others.
Bought(tr, ns) == {n \in ns : tr[n].bid # Others}
Sold(tr, ns) == {n \in ns : tr[n].bid = Others}

Sum(tr, ns) == SumFunctionOnSet(AmountsOf(tr), ns)

LEMMA TradesTyped ==
  ASSUME NEW tr \in Seq(TradeRecord)
  PROVE  /\ DOMAIN tr = 1 .. Len(tr) /\ Len(tr) \in Nat /\ IsFiniteSet(DOMAIN tr)
         /\ \A n \in DOMAIN tr : tr[n] \in TradeRecord /\ AmountsOf(tr)[n] \in Nat
<1>1. DOMAIN tr = 1 .. Len(tr) /\ Len(tr) \in Nat
  OBVIOUS
<1>2. IsFiniteSet(1 .. Len(tr))
  BY <1>1, FS_Interval
<1>3. \A n \in DOMAIN tr : tr[n] \in TradeRecord
  OBVIOUS
<1>4. \A n \in DOMAIN tr : AmountsOf(tr)[n] \in Nat
  BY <1>3 DEF AmountsOf, TradeRecord
<1>. QED BY <1>1, <1>2, <1>3, <1>4

LEMMA SumTyped ==
  ASSUME NEW tr \in Seq(TradeRecord), NEW ns \in SUBSET DOMAIN tr
  PROVE  IsFiniteSet(ns) /\ Sum(tr, ns) \in Nat
<1>. DEFINE f == AmountsOf(tr)
<1>1. IsFiniteSet(ns) /\ \A n \in ns : f[n] \in Nat
  BY TradesTyped, FS_Subset
<1>. HIDE DEF f
<1>2. SumFunctionOnSet(f, ns) \in Nat
  BY <1>1, SumNat
<1>. QED BY <1>1, <1>2 DEF f, Sum

\* What on_trade() was told of the trades, when it had number n of them h[n] times.
ToldOf(tr, h) == [n \in DOMAIN tr |-> h[n] * tr[n].quantity]
ToldSum(tr, h, ns) == SumFunctionOnSet(ToldOf(tr, h), ns)

\* The trades it counts as bought, less those it counts as sold.
ToldBought(tr, h) == ToldSum(tr, h, Bought(tr, DOMAIN tr))
ToldSold(tr, h) == ToldSum(tr, h, Sold(tr, DOMAIN tr))

Receipts == [1 .. MaxTrades -> Nat]

LEMMA ToldTyped ==
  ASSUME NEW tr \in Seq(TradeRecord), Len(tr) <= MaxTrades, NEW h \in Receipts
  PROVE  /\ \A n \in DOMAIN tr : h[n] \in Nat /\ tr[n].quantity \in Nat /\ ToldOf(tr, h)[n] \in Nat
         /\ \A ns \in SUBSET DOMAIN tr : IsFiniteSet(ns) /\ ToldSum(tr, h, ns) \in Nat
         /\ ToldBought(tr, h) \in Nat /\ ToldSold(tr, h) \in Nat
<1>1. \A n \in DOMAIN tr : h[n] \in Nat /\ tr[n].quantity \in Nat
  <2>1. DOMAIN tr = 1 .. Len(tr) /\ Len(tr) \in Nat /\ \A n \in DOMAIN tr : tr[n] \in TradeRecord
    BY TradesTyped
  <2>2. \A n \in DOMAIN tr : n \in 1 .. MaxTrades
    BY <2>1
  <2>. QED BY <2>1, <2>2 DEF Receipts, TradeRecord
<1>2. \A n \in DOMAIN tr : ToldOf(tr, h)[n] \in Nat
  <2>. SUFFICES ASSUME NEW n \in DOMAIN tr PROVE ToldOf(tr, h)[n] \in Nat
    OBVIOUS
  <2>1. h[n] * tr[n].quantity \in Nat
    BY <1>1, SMT
  <2>2. ToldOf(tr, h)[n] = h[n] * tr[n].quantity
    BY DEF ToldOf
  <2>. QED BY <2>1, <2>2
<1>3. ASSUME NEW ns \in SUBSET DOMAIN tr PROVE IsFiniteSet(ns) /\ ToldSum(tr, h, ns) \in Nat
  <2>1. IsFiniteSet(ns)
    BY TradesTyped, FS_Subset
  <2>. QED BY <1>2, <2>1, SumNat DEF ToldSum
<1>4. Bought(tr, DOMAIN tr) \in SUBSET DOMAIN tr /\ Sold(tr, DOMAIN tr) \in SUBSET DOMAIN tr
  BY DEF Bought, Sold
<1>. QED BY <1>1, <1>2, <1>3, <1>4 DEF ToldBought, ToldSold

\* A trade that it has not had yet makes no difference.
LEMMA ToldAppended ==
  ASSUME NEW tr \in Seq(TradeRecord), NEW t \in TradeRecord, NEW h \in Receipts,
         Len(tr) + 1 <= MaxTrades, h[Len(tr) + 1] = 0
  PROVE  /\ ToldBought(Append(tr, t), h) = ToldBought(tr, h)
         /\ ToldSold(Append(tr, t), h) = ToldSold(tr, h)
<1>. DEFINE tl == Append(tr, t)
            n == Len(tr) + 1
            D == DOMAIN tr
            f == ToldOf(tr, h)
            g == ToldOf(tl, h)
<1>1. /\ D = 1 .. Len(tr) /\ Len(tr) \in Nat /\ n \notin D /\ DOMAIN tl = D \cup {n}
      /\ tl \in Seq(TradeRecord) /\ Len(tl) = n
      /\ tl[n] = t /\ \A k \in D : tl[k] = tr[k]
  <2>1. D = 1 .. Len(tr) /\ Len(tr) \in Nat
    OBVIOUS
  <2>2. /\ tl \in Seq(TradeRecord) /\ Len(tl) = n /\ DOMAIN tl = 1 .. Len(tr) + 1
        /\ tl[n] = t /\ \A k \in 1 .. Len(tr) : tl[k] = tr[k]
    BY AppendProperties
  <2>. HIDE DEF tl
  <2>. QED BY <2>1, <2>2
<1>2. /\ \A ns \in SUBSET D : IsFiniteSet(ns)
      /\ \A k \in D : f[k] \in Nat
      /\ \A k \in D \cup {n} : g[k] \in Nat
  <2>1. Len(tr) <= MaxTrades /\ Len(tl) <= MaxTrades
    BY <1>1
  <2>. HIDE DEF tl
  <2>. QED BY <1>1, <2>1, ToldTyped
<1>3. \A k \in D : g[k] = f[k]
  <2>. HIDE DEF tl
  <2>. QED BY <1>1 DEF ToldOf
<1>4. g[n] = 0
  <2>1. g[n] = h[n] * t.quantity
    <3>. HIDE DEF tl, n
    <3>. QED BY <1>1 DEF ToldOf
  <2>2. t.quantity \in Nat
    BY DEF TradeRecord
  <2>3. 0 * t.quantity = 0
    BY <2>2, SMT
  <2>. QED BY <2>1, <2>3
<1>. HIDE DEF f, g, n, tl
<1>5. ASSUME NEW ns \in SUBSET D, NEW ms, ms = ns \/ ms = ns \cup {n}
      PROVE  SumFunctionOnSet(g, ms) = SumFunctionOnSet(f, ns)
  <2>1. SumFunctionOnSet(g, ns) = SumFunctionOnSet(f, ns) /\ SumFunctionOnSet(g, ns) \in Nat
    BY <1>2, <1>3, SumSame, SumNat
  <2>2. SumFunctionOnSet(g, ns \cup {n}) = SumFunctionOnSet(g, ns) + g[n]
    BY <1>1, <1>2, SumOneMore
  <2>3. SumFunctionOnSet(g, ns \cup {n}) = SumFunctionOnSet(g, ns)
    BY <1>4, <2>1, <2>2
  <2>. QED BY <1>5, <2>1, <2>3
<1>6. /\ Bought(tr, D) \in SUBSET D /\ Sold(tr, D) \in SUBSET D
      /\ Bought(tl, DOMAIN tl) = Bought(tr, D) \/ Bought(tl, DOMAIN tl) = Bought(tr, D) \cup {n}
      /\ Sold(tl, DOMAIN tl) = Sold(tr, D) \/ Sold(tl, DOMAIN tl) = Sold(tr, D) \cup {n}
  BY <1>1 DEF Bought, Sold
<1>7. /\ SumFunctionOnSet(g, Bought(tl, DOMAIN tl)) = SumFunctionOnSet(f, Bought(tr, D))
      /\ SumFunctionOnSet(g, Sold(tl, DOMAIN tl)) = SumFunctionOnSet(f, Sold(tr, D))
  BY <1>5, <1>6
<1>. QED BY <1>7 DEF ToldBought, ToldSold, ToldSum, f, g, tl

\* Told of one once more.
LEMMA ToldAgain ==
  ASSUME NEW tr \in Seq(TradeRecord), Len(tr) <= MaxTrades, NEW h \in Receipts, NEW k \in DOMAIN tr
  PROVE  LET hh == [h EXCEPT ![k] = @ + 1] IN
         /\ hh \in Receipts
         /\ ToldBought(tr, hh) = ToldBought(tr, h) + (IF tr[k].bid # Others THEN tr[k].quantity ELSE 0)
         /\ ToldSold(tr, hh) = ToldSold(tr, h) + (IF tr[k].bid # Others THEN 0 ELSE tr[k].quantity)
<1>. DEFINE hh == [h EXCEPT ![k] = @ + 1]
            D == DOMAIN tr
            q == tr[k].quantity
            f == ToldOf(tr, h)
            g == ToldOf(tr, hh)
<1>1. /\ k \in 1 .. MaxTrades /\ hh \in Receipts /\ hh[k] = h[k] + 1 /\ h[k] \in Nat /\ q \in Nat
      /\ \A n \in D \ {k} : hh[n] = h[n]
  <2>1. h[k] \in Nat /\ q \in Nat /\ D = 1 .. Len(tr) /\ Len(tr) \in Nat
    BY ToldTyped, TradesTyped
  <2>2. k \in 1 .. MaxTrades /\ \A n \in D : n \in 1 .. MaxTrades
    BY <2>1
  <2>. QED BY <2>1, <2>2 DEF Receipts
<1>. HIDE DEF hh
<1>2. /\ \A ns \in SUBSET D : IsFiniteSet(ns)
      /\ \A n \in D : f[n] \in Nat /\ g[n] \in Nat
  BY <1>1, ToldTyped
<1>3. \A n \in D \ {k} : g[n] = f[n]
  BY <1>1 DEF ToldOf
<1>4. g[k] = f[k] - (-q)
  <2>1. g[k] = (h[k] + 1) * q /\ f[k] = h[k] * q
    BY <1>1 DEF ToldOf
  <2>. HIDE DEF q
  <2>2. (h[k] + 1) * q = h[k] * q - (-q)
    BY <1>1, SMT
  <2>. QED BY <2>1, <2>2
<1>. HIDE DEF f, g, q
<1>5. ASSUME NEW ns \in SUBSET D, k \in ns
      PROVE  SumFunctionOnSet(g, ns) = SumFunctionOnSet(f, ns) + q
  <2>1. -q \in Int /\ IsFiniteSet(ns) /\ SumFunctionOnSet(f, ns) \in Nat
    BY <1>1, <1>2, SumNat
  <2>. DEFINE d == -q
  <2>2. SumFunctionOnSet(g, ns) = SumFunctionOnSet(f, ns) - d
    <3>1. d \in Int /\ g[k] = f[k] - d /\ g[k] \in Nat /\ \A n \in ns \ {k} : g[n] = f[n]
      BY <1>2, <1>3, <1>4, <2>1
    <3>. HIDE DEF d
    <3>2. \A y \in ns : f[y] \in Nat
      BY <1>2
    <3>. QED BY <1>5, <2>1, <3>1, <3>2, SumTaken
  <2>. QED BY <1>1, <2>1, <2>2
<1>6. ASSUME NEW ns \in SUBSET D, k \notin ns
      PROVE  SumFunctionOnSet(g, ns) = SumFunctionOnSet(f, ns)
  <2>1. \A n \in ns : f[n] \in Nat /\ g[n] = f[n]
    BY <1>2, <1>3, <1>6
  <2>. QED BY <1>2, <2>1, SumSame
<1>7. /\ Bought(tr, D) \in SUBSET D /\ (k \in Bought(tr, D) <=> tr[k].bid # Others)
      /\ Sold(tr, D) \in SUBSET D /\ (k \in Sold(tr, D) <=> tr[k].bid = Others)
  BY DEF Bought, Sold
<1>8. ToldBought(tr, h) \in Nat /\ ToldSold(tr, h) \in Nat
  BY ToldTyped
<1>9. /\ ToldBought(tr, hh) = ToldBought(tr, h) + (IF tr[k].bid # Others THEN q ELSE 0)
      /\ ToldSold(tr, hh) = ToldSold(tr, h) + (IF tr[k].bid # Others THEN 0 ELSE q)
  <2>1. /\ ToldBought(tr, hh) = SumFunctionOnSet(g, Bought(tr, D))
        /\ ToldSold(tr, hh) = SumFunctionOnSet(g, Sold(tr, D))
        /\ ToldBought(tr, h) = SumFunctionOnSet(f, Bought(tr, D))
        /\ ToldSold(tr, h) = SumFunctionOnSet(f, Sold(tr, D))
    BY DEF ToldBought, ToldSold, ToldSum, f, g
  <2>2. CASE tr[k].bid # Others
    BY <1>5, <1>6, <1>7, <1>8, <2>1, <2>2
  <2>3. CASE tr[k].bid = Others
    BY <1>5, <1>6, <1>7, <1>8, <2>1, <2>3
  <2>. QED BY <2>2, <2>3
<1>. QED BY <1>1, <1>9 DEF hh, q

-------------------------------------------------------------------------------
(* The invariant.                                                           *)

Typed ==
  /\ receiver \in {"none", "recv", "trade", "top", "dead"}
  /\ placing \in [Threads -> {"idle", "remember"}]
  /\ order \in [Threads -> Nat \cup {NoOrder}]
  /\ \A t \in Threads : placing[t] = "remember" => order[t] \in Nat
  /\ nextLocalId \in Nat
  /\ buys \subseteq Nat /\ sells \subseteq Nat /\ ownIds \subseteq Nat
  /\ trades \in Seq(TradeRecord) /\ fills \in Seq(Fill)
  /\ Len(trades) <= MaxTrades /\ handled \in Receipts /\ unrecognised \subseteq DOMAIN trades
  /\ \A n \in 1 .. MaxTrades : n > Len(trades) => handled[n] = 0
  /\ receiver = "trade" => trade \in DOMAIN trades

\* The trades are of orders that were sent.
Parties ==
  \A n \in DOMAIN trades :
    /\ trades[n].bid \in buys \cup {Others} /\ trades[n].ask \in sells \cup {Others}
    /\ trades[n].bid # Others \/ trades[n].ask # Others

\* An order that is sent is remembered, or the thread that sent it is about to: the
\* receiver's within on_top_of_book(), any other at any time.
Known ==
  /\ \A k \in buys \cup sells :
       k \in ownIds \/ \E t \in Threads : placing[t] = "remember" /\ order[t] = k
  /\ placing["receiver"] = "remember" => receiver = "top"
  /\ placing["other"] = "remember" => order["other"] \in outside
  /\ stage = "down" => receiver = "none"

Recognised == \A n \in unrecognised : {trades[n].bid, trades[n].ask} \cap outside # {}

\* The position is what on_trade() was told, a trade with ourselves bought.
Counted ==
  /\ DOMAIN Position(fills) = {"quantity", "cost", "realized"}
  /\ outside = {} =>
       Position(fills).quantity = ToldBought(trades, handled) - ToldSold(trades, handled)

IInv == Typed /\ Parties /\ Known /\ Recognised /\ Counted

LEMMA InitIInv == Init => IInv
<1>. SUFFICES ASSUME Init PROVE IInv
  OBVIOUS
<1>1. /\ receiver = "none" /\ trade = 0 /\ placing = [t \in Threads |-> "idle"]
      /\ order = [t \in Threads |-> NoOrder] /\ nextLocalId = 1
      /\ ownIds = {} /\ buys = {} /\ sells = {} /\ outside = {}
      /\ trades = <<>> /\ fills = <<>> /\ handled = [n \in 1 .. MaxTrades |-> 0] /\ unrecognised = {}
  BY DEF Init
<1>2. Typed
  BY <1>1 DEF Typed, Receipts
<1>3. Parties /\ Known /\ Recognised
  BY <1>1 DEF Parties, Known, Recognised, Threads
<1>4. Counted
  <2>1. Bought(trades, DOMAIN trades) = {} /\ Sold(trades, DOMAIN trades) = {}
    BY <1>1 DEF Bought, Sold
  <2>2. ToldBought(trades, handled) = 0 /\ ToldSold(trades, handled) = 0
    BY <2>1, SumEmpty DEF ToldBought, ToldSold, ToldSum
  <2>3. Position(fills) = PositionState
    BY <1>1, PositionEmpty
  <2>. QED BY <2>2, <2>3 DEF Counted, PositionState
<1>. QED BY <1>2, <1>3, <1>4 DEF IInv

\* Either branch of Apply() moves the quantity by the fill's.
LEMMA Applied ==
  ASSUME NEW state, DOMAIN state = {"quantity", "cost", "realized"}, NEW fill
  PROVE  /\ DOMAIN Apply(state, fill) = {"quantity", "cost", "realized"}
         /\ Apply(state, fill).quantity = state.quantity + SignedQuantity(fill)
<1>1. CASE state.quantity = 0 \/ (state.quantity > 0) = (SignedQuantity(fill) > 0)
  <2>1. Apply(state, fill) = OpenOrAdd(state, fill.price, SignedQuantity(fill))
    BY <1>1 DEF Apply
  <2>. QED BY <2>1 DEF OpenOrAdd
<1>2. CASE ~(state.quantity = 0 \/ (state.quantity > 0) = (SignedQuantity(fill) > 0))
  <2>1. Apply(state, fill) = ReduceCloseOrReverse(state, fill.price, SignedQuantity(fill))
    BY <1>2 DEF Apply
  <2>. QED BY <2>1 DEF ReduceCloseOrReverse
<1>. QED BY <1>1, <1>2

\* What the trades, the fills and who knows of an order depend on.
LEMMA Unmoved ==
  ASSUME IInv, UNCHANGED <<trades, fillVars>>, outside \subseteq outside'
  PROVE  Recognised' /\ Counted'
<1>1. /\ trades' = trades /\ fills' = fills /\ handled' = handled /\ unrecognised' = unrecognised
  BY DEF fillVars
<1>2. Recognised'
  BY <1>1 DEF IInv, Recognised
<1>3. Counted'
  BY <1>1 DEF IInv, Counted
<1>. QED BY <1>2, <1>3

LEMMA MainKept ==
  ASSUME IInv, Run \/ Stop \/ Disconnect
  PROVE  IInv'
<1>1. /\ UNCHANGED <<trade, placing, order, nextLocalId, ownIds, buys, sells, outside,
                     trades, fillVars>>
      /\ \/ receiver' = receiver /\ (stage' = "stopping" \/ stage' = "done")
         \/ stage = "down" /\ receiver' = "recv" /\ stage' = "running"
  BY DEF Run, Stop, Disconnect, clientVars
<1>2. /\ trade' = trade /\ placing' = placing /\ order' = order /\ nextLocalId' = nextLocalId
      /\ ownIds' = ownIds /\ buys' = buys /\ sells' = sells /\ outside' = outside /\ trades' = trades
      /\ fills' = fills /\ handled' = handled /\ unrecognised' = unrecognised
  BY <1>1 DEF fillVars
<1>3. Typed'
  BY <1>1, <1>2 DEF IInv, Typed
<1>4. Parties'
  BY <1>2 DEF IInv, Parties
<1>5. Known'
  <2>1. stage = "down" => placing["receiver"] # "remember"
    BY DEF IInv, Known
  <2>. QED BY <1>1, <1>2, <2>1 DEF IInv, Known
<1>6. Recognised' /\ Counted'
  BY <1>1, Unmoved
<1>. QED BY <1>3, <1>4, <1>5, <1>6 DEF IInv

LEMMA SendKept ==
  ASSUME IInv, NEW t \in Threads, Send(t)
  PROVE  IInv'
<1>1. /\ UNCHANGED <<receiver, stage, trade, ownIds, trades, fillVars>>
      /\ placing[t] = "idle"
      /\ IF t = "receiver" THEN receiver = "top" ELSE stage = "running"
      /\ nextLocalId' = nextLocalId + 1
      /\ placing' = [placing EXCEPT ![t] = "remember"]
      /\ order' = [order EXCEPT ![t] = nextLocalId]
      /\ outside' = IF t = "receiver" THEN outside ELSE outside \cup {nextLocalId}
      /\ \/ buys' = buys \cup {nextLocalId} /\ sells' = sells
         \/ sells' = sells \cup {nextLocalId} /\ buys' = buys
  BY DEF Send, NewOrderId
<1>2. /\ receiver' = receiver /\ stage' = stage /\ trade' = trade /\ ownIds' = ownIds /\ trades' = trades
      /\ fills' = fills /\ handled' = handled /\ unrecognised' = unrecognised
  BY <1>1 DEF fillVars
<1>3. Typed'
  <2>1. nextLocalId \in Nat /\ nextLocalId' \in Nat
    BY <1>1 DEF IInv, Typed
  <2>2. /\ placing' \in [Threads -> {"idle", "remember"}] /\ order' \in [Threads -> Nat \cup {NoOrder}]
        /\ buys' \subseteq Nat /\ sells' \subseteq Nat
        /\ \A u \in Threads : placing'[u] = "remember" => order'[u] \in Nat
    BY <1>1, <2>1 DEF IInv, Typed
  <2>. QED BY <1>2, <2>1, <2>2 DEF IInv, Typed
<1>4. Parties'
  BY <1>1, <1>2 DEF IInv, Parties
<1>5. Known'
  <2>1. /\ placing'[t] = "remember" /\ order'[t] = nextLocalId
        /\ \A u \in Threads \ {t} : placing'[u] = placing[u] /\ order'[u] = order[u]
    BY <1>1 DEF IInv, Typed
  <2>2. ASSUME NEW k \in buys' \cup sells'
        PROVE  k \in ownIds' \/ \E u \in Threads : placing'[u] = "remember" /\ order'[u] = k
    <3>1. CASE k = nextLocalId
      BY <2>1, <3>1
    <3>2. CASE k # nextLocalId
      <4>1. k \in buys \cup sells
        BY <1>1, <2>2, <3>2
      <4>2. k \in ownIds \/ \E u \in Threads : placing[u] = "remember" /\ order[u] = k
        BY <4>1 DEF IInv, Known
      <4>. QED BY <1>1, <1>2, <2>1, <4>2
    <3>. QED BY <3>1, <3>2
  <2>3. placing'["receiver"] = "remember" => receiver' = "top"
    <3>1. CASE t = "receiver"
      BY <1>1, <1>2, <3>1
    <3>2. CASE t # "receiver"
      BY <1>2, <2>1, <3>2 DEF IInv, Known, Threads
    <3>. QED BY <3>1, <3>2
  <2>4. placing'["other"] = "remember" => order'["other"] \in outside'
    <3>1. CASE t = "other"
      BY <1>1, <2>1, <3>1
    <3>2. CASE t # "other"
      BY <1>1, <2>1, <3>2 DEF IInv, Known, Threads
    <3>. QED BY <3>1, <3>2
  <2>. QED BY <1>2, <2>2, <2>3, <2>4 DEF IInv, Known
<1>6. Recognised' /\ Counted'
  BY <1>1, Unmoved
<1>. QED BY <1>3, <1>4, <1>5, <1>6 DEF IInv

LEMMA SendRaisesKept ==
  ASSUME IInv, NEW t \in Threads, SendRaises(t)
  PROVE  IInv'
<1>1. /\ UNCHANGED <<stage, trade, ownIds, trades, fillVars, placing, order, buys, sells, outside>>
      /\ placing[t] = "idle"
      /\ IF t = "receiver" THEN receiver = "top" ELSE stage = "running"
      /\ nextLocalId' = nextLocalId + 1
      /\ receiver' = IF t = "receiver" THEN "dead" ELSE receiver
  BY DEF SendRaises, NewOrderId
<1>2. /\ placing' = placing /\ order' = order /\ buys' = buys /\ sells' = sells /\ outside' = outside
      /\ stage' = stage /\ trade' = trade /\ ownIds' = ownIds /\ trades' = trades
      /\ fills' = fills /\ handled' = handled /\ unrecognised' = unrecognised
  BY <1>1 DEF fillVars
<1>3. Typed'
  <2>1. nextLocalId' \in Nat
    BY <1>1 DEF IInv, Typed
  <2>. QED BY <1>1, <1>2, <2>1 DEF IInv, Typed
<1>4. Parties'
  BY <1>2 DEF IInv, Parties
<1>5. Known'
  BY <1>1, <1>2 DEF IInv, Known
<1>6. Recognised' /\ Counted'
  BY <1>1, Unmoved
<1>. QED BY <1>3, <1>4, <1>5, <1>6 DEF IInv

LEMMA RememberKept ==
  ASSUME IInv, NEW t \in Threads, Remember(t)
  PROVE  IInv'
<1>1. /\ UNCHANGED <<receiver, stage, trade, nextLocalId, trades, fillVars, buys, sells, outside>>
      /\ placing[t] = "remember"
      /\ ownIds' = ownIds \cup {order[t]}
      /\ order' = [order EXCEPT ![t] = NoOrder]
      /\ placing' = [placing EXCEPT ![t] = "idle"]
  BY DEF Remember
<1>2. /\ buys' = buys /\ sells' = sells /\ outside' = outside /\ receiver' = receiver
      /\ stage' = stage /\ trade' = trade /\ trades' = trades /\ nextLocalId' = nextLocalId
      /\ fills' = fills /\ handled' = handled /\ unrecognised' = unrecognised
  BY <1>1 DEF fillVars
<1>3. order[t] \in Nat
  BY <1>1 DEF IInv, Typed
<1>4. Typed'
  <2>1. /\ placing' \in [Threads -> {"idle", "remember"}] /\ order' \in [Threads -> Nat \cup {NoOrder}]
        /\ ownIds' \subseteq Nat
        /\ \A u \in Threads : placing'[u] = "remember" => order'[u] \in Nat
    BY <1>1, <1>3 DEF IInv, Typed
  <2>. QED BY <1>2, <2>1 DEF IInv, Typed
<1>5. Parties'
  BY <1>2 DEF IInv, Parties
<1>6. Known'
  <2>1. /\ placing'[t] = "idle"
        /\ \A u \in Threads \ {t} : placing'[u] = placing[u] /\ order'[u] = order[u]
    BY <1>1 DEF IInv, Typed
  <2>2. ASSUME NEW k \in buys' \cup sells'
        PROVE  k \in ownIds' \/ \E u \in Threads : placing'[u] = "remember" /\ order'[u] = k
    <3>1. k \in ownIds \/ \E u \in Threads : placing[u] = "remember" /\ order[u] = k
      BY <1>2, <2>2 DEF IInv, Known
    <3>. QED BY <1>1, <2>1, <3>1
  <2>. QED BY <1>2, <2>1, <2>2 DEF IInv, Known, Threads
<1>7. Recognised' /\ Counted'
  BY <1>1, Unmoved
<1>. QED BY <1>4, <1>5, <1>6, <1>7 DEF IInv

LEMMA TradeKept ==
  ASSUME IInv, Trade
  PROVE  IInv'
<1>1. /\ UNCHANGED <<stage, receiver, trade, placing, order, clientVars, fillVars>>
      /\ \E bid \in buys \cup {Others}, ask \in sells \cup {Others}, price \in Prices, quantity \in Quantities :
           /\ {bid, ask} # {Others}
           /\ trades' = Append(trades, [bid |-> bid, ask |-> ask, price |-> price, quantity |-> quantity])
      /\ Len(trades) < MaxTrades
  BY DEF Trade
<1>2. /\ placing' = placing /\ order' = order /\ buys' = buys /\ sells' = sells /\ outside' = outside
      /\ stage' = stage /\ receiver' = receiver /\ trade' = trade /\ ownIds' = ownIds
      /\ nextLocalId' = nextLocalId
      /\ fills' = fills /\ handled' = handled /\ unrecognised' = unrecognised
  BY <1>1 DEF clientVars, fillVars
<1>3. PICK t \in TradeRecord :
        /\ t.bid \in buys \cup {Others} /\ t.ask \in sells \cup {Others}
        /\ t.bid # Others \/ t.ask # Others
        /\ trades' = Append(trades, t)
  <2>1. PICK bid \in buys \cup {Others}, ask \in sells \cup {Others}, price \in Prices, quantity \in Quantities :
           /\ {bid, ask} # {Others}
           /\ trades' = Append(trades, [bid |-> bid, ask |-> ask, price |-> price, quantity |-> quantity])
    BY <1>1
  <2>. DEFINE t == [bid |-> bid, ask |-> ask, price |-> price, quantity |-> quantity]
  <2>2. t \in TradeRecord
    BY DEF IInv, Typed, TradeRecord
  <2>3. t.bid = bid /\ t.ask = ask /\ trades' = Append(trades, t) /\ (bid # Others \/ ask # Others)
    BY <2>1
  <2>. HIDE DEF t
  <2>. QED BY <2>2, <2>3
<1>4. /\ trades \in Seq(TradeRecord) /\ handled \in Receipts /\ unrecognised \subseteq DOMAIN trades
      /\ Len(trades) + 1 <= MaxTrades /\ handled[Len(trades) + 1] = 0
  <2>1. /\ trades \in Seq(TradeRecord) /\ handled \in Receipts /\ unrecognised \subseteq DOMAIN trades
        /\ \A n \in 1 .. MaxTrades : n > Len(trades) => handled[n] = 0
    BY DEF IInv, Typed
  <2>2. Len(trades) + 1 \in 1 .. MaxTrades /\ Len(trades) + 1 > Len(trades)
    BY <1>1, <2>1
  <2>. QED BY <2>1, <2>2
<1>5. /\ Len(trades) \in Nat /\ Len(trades') = Len(trades) + 1 /\ trades' \in Seq(TradeRecord)
      /\ DOMAIN trades' = DOMAIN trades \cup {Len(trades) + 1}
      /\ trades'[Len(trades) + 1] = t
      /\ \A n \in DOMAIN trades : trades'[n] = trades[n]
  <2>1. /\ DOMAIN trades = 1 .. Len(trades) /\ Len(trades) \in Nat
        /\ trades' \in Seq(TradeRecord) /\ Len(trades') = Len(trades) + 1
        /\ \A n \in 1 .. Len(trades) : trades'[n] = trades[n]
        /\ trades'[Len(trades) + 1] = t
    BY <1>3, <1>4, AppendProperties
  <2>2. DOMAIN trades' = 1 .. Len(trades) + 1
    BY <2>1
  <2>. QED BY <2>1, <2>2
<1>6. Typed'
  <2>1. /\ Len(trades') <= MaxTrades
        /\ \A n \in 1 .. MaxTrades : n > Len(trades') => n > Len(trades)
    BY <1>4, <1>5
  <2>. QED BY <1>2, <1>5, <2>1 DEF IInv, Typed
<1>7. Parties'
  BY <1>2, <1>3, <1>5 DEF IInv, Parties
<1>8. Known'
  BY <1>2 DEF IInv, Known
<1>9. Recognised'
  BY <1>2, <1>4, <1>5 DEF IInv, Recognised
<1>10. Counted'
  <2>1. /\ ToldBought(trades', handled) = ToldBought(trades, handled)
        /\ ToldSold(trades', handled) = ToldSold(trades, handled)
    BY <1>3, <1>4, ToldAppended
  <2>. QED BY <1>2, <2>1 DEF IInv, Counted
<1>. QED BY <1>6, <1>7, <1>8, <1>9, <1>10 DEF IInv

\* The receiver's steps that call no handler to its end.
LEMMA ReceiverKept ==
  ASSUME IInv, RecvTrade \/ RecvTop \/ TopReturns \/ StopSeen
  PROVE  IInv'
<1>1. /\ UNCHANGED <<stage, placing, order, clientVars, trades, fillVars>>
      /\ \/ receiver' = "trade" /\ trade' \in DOMAIN trades
         \/ receiver' \in {"none", "recv", "top"} /\ trade' = trade
      /\ receiver \in {"recv", "top"} /\ (receiver = "top" => placing["receiver"] = "idle")
  BY DEF RecvTrade, RecvTop, TopReturns, StopSeen, ReceiverMoves
<1>2. /\ placing' = placing /\ order' = order /\ buys' = buys /\ sells' = sells /\ outside' = outside
      /\ stage' = stage /\ ownIds' = ownIds /\ trades' = trades /\ nextLocalId' = nextLocalId
      /\ fills' = fills /\ handled' = handled /\ unrecognised' = unrecognised
  BY <1>1 DEF clientVars, fillVars
<1>3. Typed'
  <2>1. /\ receiver' \in {"none", "recv", "trade", "top", "dead"}
        /\ receiver' = "trade" => trade' \in DOMAIN trades
    BY <1>1
  <2>. QED BY <1>2, <2>1 DEF IInv, Typed
<1>4. Parties'
  BY <1>2 DEF IInv, Parties
<1>5. Known'
  <2>1. placing["receiver"] # "remember" /\ stage # "down"
    BY <1>1 DEF IInv, Known
  <2>. QED BY <1>2, <2>1 DEF IInv, Known
<1>6. Recognised' /\ Counted'
  BY <1>1, <1>2, Unmoved
<1>. QED BY <1>3, <1>4, <1>5, <1>6 DEF IInv

\* on_trade() runs when the receiver's thread places no order: it knows them all but
\* those of other threads.
LEMMA HandlerKnows ==
  ASSUME IInv, receiver = "trade", NEW k \in buys \cup sells, k \notin ownIds
  PROVE  k \in outside
<1>1. PICK t \in Threads : placing[t] = "remember" /\ order[t] = k
  BY DEF IInv, Known
<1>2. t = "other"
  BY <1>1 DEF IInv, Known, Threads
<1>. QED BY <1>1, <1>2 DEF IInv, Known

LEMMA OnTradeKept ==
  ASSUME IInv, OnTrade
  PROVE  IInv'
<1>. DEFINE t == trades[trade]
<1>1. /\ UNCHANGED <<stage, placing, order, clientVars, trades>>
      /\ receiver = "trade" /\ receiver' \in {"none", "recv"}
      /\ fills' = fills \o MyFill(t) /\ handled' = [handled EXCEPT ![trade] = @ + 1]
      /\ unrecognised' = IF MyFill(t) = <<>> THEN unrecognised \cup {trade} ELSE unrecognised
  BY DEF OnTrade, ReceiverMoves
<1>2. /\ placing' = placing /\ order' = order /\ buys' = buys /\ sells' = sells /\ outside' = outside
      /\ stage' = stage /\ ownIds' = ownIds /\ trades' = trades /\ nextLocalId' = nextLocalId
  BY <1>1 DEF clientVars
<1>3. /\ trades \in Seq(TradeRecord) /\ Len(trades) <= MaxTrades /\ trade \in DOMAIN trades
      /\ handled \in Receipts /\ \A n \in 1 .. MaxTrades : n > Len(trades) => handled[n] = 0
  BY <1>1 DEF IInv, Typed
<1>4. /\ t \in TradeRecord /\ t.bid \in buys \cup {Others} /\ t.ask \in sells \cup {Others}
      /\ t.bid # Others \/ t.ask # Others
  BY <1>3 DEF IInv, Parties
<1>5. Others \notin ownIds /\ fills \in Seq(Fill)
  BY DEF IInv, Typed
<1>. DEFINE bought == [side |-> "buy", price |-> t.price, quantity |-> t.quantity]
            sold == [side |-> "sell", price |-> t.price, quantity |-> t.quantity]
<1>6. bought \in Fill /\ sold \in Fill
  BY <1>4 DEF TradeRecord, Fill
<1>7. /\ SignedQuantity(bought) = t.quantity /\ SignedQuantity(sold) = -t.quantity
      /\ t.quantity \in Nat
  BY <1>4 DEF SignedQuantity, TradeRecord
<1>8. MyFill(t) = IF t.bid \in ownIds THEN <<bought>> ELSE IF t.ask \in ownIds THEN <<sold>> ELSE <<>>
  BY DEF MyFill
<1>. HIDE DEF bought, sold
<1>. HIDE DEF t
<1>9. \/ fills' = Append(fills, bought) /\ t.bid # Others /\ MyFill(t) # <<>>
      \/ /\ fills' = Append(fills, sold) /\ MyFill(t) # <<>>
         /\ t.bid # Others => t.bid \in outside
      \/ fills' = fills /\ {t.bid, t.ask} \cap outside # {}
  <2>1. CASE t.bid \in ownIds
    <3>1. MyFill(t) = <<bought>>
      BY <1>8, <2>1
    <3>. QED BY <1>1, <1>5, <1>6, <2>1, <3>1
  <2>2. CASE t.bid \notin ownIds /\ t.ask \in ownIds
    <3>1. MyFill(t) = <<sold>>
      BY <1>8, <2>2
    <3>2. t.bid # Others => t.bid \in outside
      BY <1>1, <1>4, <2>2, HandlerKnows
    <3>. QED BY <1>1, <1>5, <1>6, <3>1, <3>2
  <2>3. CASE t.bid \notin ownIds /\ t.ask \notin ownIds
    <3>1. fills' = fills
      <4>1. MyFill(t) = <<>>
        BY <1>8, <2>3
      <4>. QED BY <1>1, <1>5, <4>1
    <3>2. t.bid \in outside \/ t.ask \in outside
      BY <1>1, <1>4, <2>3, HandlerKnows
    <3>. QED BY <3>1, <3>2
  <2>. QED BY <2>1, <2>2, <2>3
<1>10. Typed'
  <2>1. fills' \in Seq(Fill)
    BY <1>5, <1>6, <1>9
  <2>2. handled' \in Receipts /\ \A n \in 1 .. MaxTrades : n > Len(trades) => handled'[n] = 0
    <3>1. handled' \in Receipts
      BY <1>1, <1>3, ToldAgain
    <3>2. \A n \in 1 .. MaxTrades : n > Len(trades) => n # trade
      BY <1>3
    <3>. QED BY <1>1, <1>3, <3>1, <3>2 DEF Receipts
  <2>3. unrecognised' \subseteq DOMAIN trades
    <3>1. unrecognised \subseteq DOMAIN trades
      BY DEF IInv, Typed
    <3>. QED BY <1>1, <1>3, <3>1
  <2>. QED BY <1>1, <1>2, <2>1, <2>2, <2>3 DEF IInv, Typed
<1>11. Parties'
  BY <1>2 DEF IInv, Parties
<1>12. Known'
  <2>1. placing["receiver"] # "remember" /\ stage # "down"
    BY <1>1 DEF IInv, Known
  <2>. QED BY <1>2, <2>1 DEF IInv, Known
<1>13. Recognised'
  <2>1. trade \in unrecognised' /\ trade \notin unrecognised => {t.bid, t.ask} \cap outside # {}
    <3>1. MyFill(t) = <<>> => {t.bid, t.ask} \cap outside # {}
      <4>. SUFFICES ASSUME MyFill(t) = <<>>, {t.bid, t.ask} \cap outside = {} PROVE FALSE
        OBVIOUS
      <4>1. t.bid \notin ownIds /\ t.ask \notin ownIds
        BY <1>8
      <4>. QED BY <1>1, <1>4, <4>1, HandlerKnows
    <3>. QED BY <1>1, <3>1
  <2>2. \A n \in unrecognised' : n \in unrecognised \/ n = trade
    BY <1>1
  <2>3. \A n \in unrecognised : {trades[n].bid, trades[n].ask} \cap outside # {}
    BY DEF IInv, Recognised
  <2>. QED BY <1>2, <2>1, <2>2, <2>3 DEF Recognised, t
<1>14. Counted'
  <2>. DEFINE pos == Position(fills)
              b == ToldBought(trades, handled)
              s == ToldSold(trades, handled)
  <2>1. /\ DOMAIN pos = {"quantity", "cost", "realized"}
        /\ outside = {} => pos.quantity = b - s
    BY DEF IInv, Counted
  <2>2. /\ t.bid # Others => ToldBought(trades, handled') = b + t.quantity /\ ToldSold(trades, handled') = s
        /\ t.bid = Others => ToldBought(trades, handled') = b /\ ToldSold(trades, handled') = s + t.quantity
    <3>1. b \in Nat /\ s \in Nat
      BY <1>3, ToldTyped
    <3>. HIDE DEF b, s
    <3>2. /\ ToldBought(trades, handled') = b + (IF t.bid # Others THEN t.quantity ELSE 0)
          /\ ToldSold(trades, handled') = s + (IF t.bid # Others THEN 0 ELSE t.quantity)
      BY <1>1, <1>3, ToldAgain DEF b, s, t
    <3>. QED BY <3>1, <3>2
  <2>3. b \in Nat /\ s \in Nat
    BY <1>3, ToldTyped
  <2>. HIDE DEF b, s
  <2>5. \A x \in Fill : Position(Append(fills, x)) = Apply(pos, x)
    BY <1>5, PositionAppended
  <2>. HIDE DEF pos
  <2>6. \A x \in Fill : /\ DOMAIN Position(Append(fills, x)) = {"quantity", "cost", "realized"}
                        /\ Position(Append(fills, x)).quantity = pos.quantity + SignedQuantity(x)
    BY <2>1, <2>5, Applied
  <2>7. CASE fills' = Append(fills, bought) /\ t.bid # Others
    <3>1. /\ DOMAIN Position(fills') = {"quantity", "cost", "realized"}
          /\ Position(fills').quantity = pos.quantity + t.quantity
      BY <1>6, <1>7, <2>6, <2>7
    <3>2. ASSUME outside = {}
          PROVE  Position(fills').quantity = (b + t.quantity) - s
      BY <1>7, <2>1, <2>3, <3>1, <3>2
    <3>. QED BY <1>2, <2>2, <2>7, <3>1, <3>2 DEF Counted
  <2>8. CASE fills' = Append(fills, sold) /\ (t.bid # Others => t.bid \in outside)
    <3>1. /\ DOMAIN Position(fills') = {"quantity", "cost", "realized"}
          /\ Position(fills').quantity = pos.quantity - t.quantity
      <4>1. Position(fills').quantity = pos.quantity + (-t.quantity)
        BY <1>6, <1>7, <2>6, <2>8
      <4>2. DOMAIN Position(fills') = {"quantity", "cost", "realized"}
        BY <1>6, <2>6, <2>8
      <4>. QED BY <4>1, <4>2
    <3>2. ASSUME outside = {}
          PROVE  Position(fills').quantity = b - (s + t.quantity)
      BY <1>7, <2>1, <2>3, <3>1, <3>2
    <3>3. outside = {} => t.bid = Others
      BY <2>8
    <3>. QED BY <1>2, <2>2, <3>1, <3>2, <3>3 DEF Counted
  <2>9. CASE fills' = fills /\ {t.bid, t.ask} \cap outside # {}
    BY <1>2, <2>1, <2>9 DEF Counted, pos
  <2>. QED BY <1>9, <2>7, <2>8, <2>9
<1>. QED BY <1>10, <1>11, <1>12, <1>13, <1>14 DEF IInv

LEMMA StutterKept ==
  ASSUME IInv, UNCHANGED vars
  PROVE  IInv'
BY DEF IInv, Typed, Parties, Known, Recognised, Counted, vars, clientVars, fillVars

\* The strengthened invariant of a program that trades.
THEOREM Invariance == Spec => []IInv
<1>1. Init => IInv
  BY InitIInv
<1>2. IInv /\ [Next]_vars => IInv'
  <2>. SUFFICES ASSUME IInv, [Next]_vars PROVE IInv'
    OBVIOUS
  <2>1. CASE Run \/ Stop \/ Disconnect
    BY <2>1, MainKept
  <2>2. ASSUME NEW t \in Threads, Placing(t) PROVE IInv'
    BY <2>2, SendKept, SendRaisesKept, RememberKept DEF Placing
  <2>3. CASE Trade
    BY <2>3, TradeKept
  <2>4. CASE Receiving
    BY <2>4, ReceiverKept, OnTradeKept DEF Receiving
  <2>5. CASE UNCHANGED vars
    BY <2>5, StutterKept
  <2>. QED BY <2>1, <2>2, <2>3, <2>4, <2>5 DEF Next
<1>. QED BY <1>1, <1>2, PTL DEF Spec

\* strategy.py:57-61: my_fill() knows every order that the strategy submitted from
\* the receiver's thread.  If there are no others, the fills are off by exactly the
\* datagrams that were lost or came again, and give the position if each came once,
\* but for the trades of the program with itself.
THEOREM FillsGivePositionHolds == Spec => []FillsGivePosition
<1>1. ASSUME IInv PROVE FillsGivePosition
  <2>. DEFINE D == DOMAIN trades
              b == Bids
              a == {n \in D : Ours(n).sell}
              both == {n \in D : SelfTrade(n)}
              s == Sold(trades, D)
  <2>1. Bought(trades, D) = b /\ D \ b = s /\ a = s \cup both /\ s \cap both = {}
    BY <1>1 DEF IInv, Parties, Bought, Sold, Ours, SelfTrade, Bids
  <2>2. /\ trades \in Seq(TradeRecord) /\ Len(trades) <= MaxTrades /\ handled \in Receipts
        /\ b \in SUBSET D /\ s \in SUBSET D /\ both \in SUBSET D
    BY <1>1 DEF IInv, Typed, Sold, Bids
  <2>3. Amounts = AmountsOf(trades) /\ Told = ToldOf(trades, handled)
    BY DEF Amounts, AmountsOf, Told, ToldOf
  <2>4. /\ TruePosition = Sum(trades, b) - Sum(trades, a)
        /\ SelfTraded = Sum(trades, both)
    BY <2>3 DEF TruePosition, SelfTraded, Sum
  <2>5. outside = {} => Position(fills).quantity = ToldSum(trades, handled, b) - ToldSum(trades, handled, s)
    BY <1>1, <2>1 DEF IInv, Counted, ToldBought, ToldSold
  <2>6. outside = {} => Position(fills).quantity = SumFunctionOnSet(Told, Bids) - SumFunctionOnSet(Told, D \ Bids)
    BY <2>1, <2>3, <2>5 DEF ToldSum
  <2>. HIDE DEF D, b, a, both, s
  <2>7. Sum(trades, a) = Sum(trades, s) + Sum(trades, both)
    <3>. DEFINE f == AmountsOf(trades)
    <3>1. /\ IsFiniteSet(s) /\ IsFiniteSet(both)
          /\ \A n \in s \cup both : f[n] \in Nat
      BY <2>2, SumTyped, TradesTyped DEF D
    <3>. HIDE DEF f
    <3>2. SumFunctionOnSet(f, s \cup both) = SumFunctionOnSet(f, s) + SumFunctionOnSet(f, both)
      BY <2>1, <3>1, SumUnion
    <3>. QED BY <2>1, <3>2 DEF f, Sum
  <2>8. Sum(trades, b) \in Nat /\ Sum(trades, s) \in Nat /\ Sum(trades, both) \in Nat
    BY <2>2, SumTyped DEF D
  <2>9. ASSUME \A n \in D : handled[n] = 1, NEW ns \in SUBSET D
        PROVE  ToldSum(trades, handled, ns) = Sum(trades, ns)
    <3>. DEFINE f == AmountsOf(trades)
                g == ToldOf(trades, handled)
    <3>1. ASSUME NEW n \in D PROVE f[n] \in Nat /\ g[n] = f[n]
      <4>1. /\ trades[n].quantity \in Nat /\ f[n] = trades[n].quantity
            /\ g[n] = handled[n] * trades[n].quantity
        BY <2>2, ToldTyped DEF D, AmountsOf, ToldOf
      <4>2. 1 * trades[n].quantity = trades[n].quantity
        BY <4>1
      <4>. QED BY <2>9, <4>1, <4>2
    <3>2. IsFiniteSet(ns)
      BY <2>2, ToldTyped DEF D
    <3>. HIDE DEF f, g
    <3>. QED BY <3>1, <3>2, SumSame DEF f, g, Sum, ToldSum
  <2>10. ASSUME outside = {}, \A n \in D : handled[n] = 1
         PROVE  Position(fills).quantity = TruePosition + SelfTraded
    <3>1. Position(fills).quantity = Sum(trades, b) - Sum(trades, s)
      BY <2>2, <2>5, <2>9, <2>10
    <3>. QED BY <2>4, <2>7, <2>8, <3>1
  <2>. QED BY <1>1, <2>6, <2>10 DEF FillsGivePosition, IInv, Recognised, D
<1>. QED BY Invariance, <1>1, PTL

\* my_strategy.py's report at the end is true of the fills it was told of, whatever
\* the bounds and however the threads interleave: they are a list of fills.
THEOREM ReportBalancesHolds == Spec => []ReportBalances
<1>1. IInv => ReportBalances
  <2>. SUFFICES ASSUME IInv PROVE Balances(fills)
    BY DEF ReportBalances
  <2>1. fills \in Seq(Fill)
    BY DEF IInv, Typed
  <2>2. fills \in Seq(AnyFill)
    <3>1. Len(fills) \in Nat /\ DOMAIN fills = 1 .. Len(fills) /\ fills = [i \in 1 .. Len(fills) |-> fills[i]]
      BY <2>1
    <3>2. \A i \in 1 .. Len(fills) : fills[i] \in Fill
      BY <2>1
    <3>3. \A x \in Fill : x \in AnyFill
      BY InputsAssumption DEF Fill, AnyFill
    <3>4. fills \in [1 .. Len(fills) -> AnyFill]
      BY <3>1, <3>2, <3>3
    <3>. QED BY <3>1, <3>4, IsASeq
  <2>. QED BY <2>2, FillsBalance
<1>. QED BY Invariance, <1>1, PTL
================================================================================
