----------------------------- MODULE TradeMetrics -----------------------------
(***************************************************************************)
(* The trademetrics library: what a list of fills comes to.  A fill is a   *)
(* record [side, price, quantity]; there is one symbol, and the number of  *)
(* a fill in its list is its timestamp.  Prices and quantities are whole   *)
(* numbers, and what is computed from them exact fractions.                *)
(***************************************************************************)
EXTENDS Integers, Sequences, FiniteSetsExt, SequencesExt

Abs(n) == IF n < 0 THEN -n ELSE n

\* Fractions, with a positive denominator.
Frac(n, d) == IF d < 0 THEN [n |-> -n, d |-> -d] ELSE [n |-> n, d |-> d]
Whole(n) == Frac(n, 1)
Plus(a, b) == Frac(a.n * b.d + b.n * a.d, a.d * b.d)
Minus(a, b) == Frac(a.n * b.d - b.n * a.d, a.d * b.d)
Times(a, k) == Frac(a.n * k, a.d)
Over(a, k) == Frac(a.n, a.d * k)
Less(a, b) == a.n * b.d < b.n * a.d
Same(a, b) == a.n * b.d = b.n * a.d

-------------------------------------------------------------------------------
(* PositionTracker.                                                          *)

PositionState == [quantity |-> 0, cost |-> Whole(0), realized |-> Whole(0)]

SignedQuantity(fill) == IF fill.side = "buy" THEN fill.quantity ELSE -fill.quantity

OpenOrAdd(state, price, signed) ==
  LET quantity == state.quantity + signed IN
  [state EXCEPT !.quantity = quantity,
                !.cost = IF quantity = 0 THEN @
                         ELSE Over(Plus(Times(@, state.quantity), Whole(price * signed)), quantity)]

\* Mutant of ReduceCloseOrReverse: what is left after a reversal keeps its cost.
ReduceCloseOrReverseKeepsCost(state, price, signed) ==
  LET closing == Min({Abs(signed), Abs(state.quantity)})
      direction == IF state.quantity > 0 THEN 1 ELSE -1
      remaining == state.quantity + signed
  IN [quantity |-> remaining,
      cost |-> IF remaining = 0 THEN Whole(0) ELSE state.cost,
      realized |-> Plus(state.realized,
                        Times(Minus(Whole(price), state.cost), closing * direction))]

ReduceCloseOrReverse(state, price, signed) ==
  LET closing == Min({Abs(signed), Abs(state.quantity)})
      direction == IF state.quantity > 0 THEN 1 ELSE -1
      remaining == state.quantity + signed
  IN [quantity |-> remaining,
      cost |-> IF Abs(signed) > Abs(state.quantity) THEN Whole(price)
               ELSE IF remaining = 0 THEN Whole(0) ELSE state.cost,
      realized |-> Plus(state.realized,
                        Times(Minus(Whole(price), state.cost), closing * direction))]

Apply(state, fill) ==
  LET signed == SignedQuantity(fill) IN
  IF state.quantity = 0 \/ (state.quantity > 0) = (signed > 0)
  THEN OpenOrAdd(state, fill.price, signed)
  ELSE ReduceCloseOrReverse(state, fill.price, signed)

Position(fills) == FoldLeft(Apply, PositionState, fills)

-------------------------------------------------------------------------------
(* The equity curve, the realized kind, and its drawdown.                    *)

EquityCurve(fills) == [i \in DOMAIN fills |-> Position(SubSeq(fills, 1, i)).realized]

\* drawdown_series() and max_drawdown(): one pass with the peak so far.
Drawdown(pass, equity) ==
  LET peak == IF pass.some /\ Less(equity, pass.peak) THEN pass.peak ELSE equity
      fall == Minus(equity, peak)
  IN [some |-> TRUE, peak |-> peak,
      deepest |-> IF Less(fall, pass.deepest) THEN fall ELSE pass.deepest]

NoDrawdown == [some |-> FALSE, peak |-> Whole(0), deepest |-> Whole(0)]

MaxDrawdown(curve) == FoldLeft(Drawdown, NoDrawdown, curve).deepest

\* max_drawdown_duration(): one pass with the time of the last peak.
Duration(curve, pass, i) ==
  IF ~Less(curve[i], curve[pass.peak]) THEN [pass EXCEPT !.peak = i]
  ELSE [pass EXCEPT !.longest = Max({@, i - pass.peak})]

MaxDrawdownDuration(curve) ==
  IF curve = <<>> THEN 0
  ELSE FoldLeft(LAMBDA pass, i : Duration(curve, pass, i), [peak |-> 1, longest |-> 0],
                [i \in DOMAIN curve |-> i]).longest

-------------------------------------------------------------------------------
(* Trade by trade.                                                           *)

\* What each fill booked.
Booked(fills) ==
  [i \in DOMAIN fills |-> Minus(Position(SubSeq(fills, 1, i)).realized,
                                Position(SubSeq(fills, 1, i - 1)).realized)]

\* realized_pnls_from_fills(): those that booked something.
Keep(pnls, pnl) == IF pnl.n # 0 THEN Append(pnls, pnl) ELSE pnls
RealizedPnls(fills) == FoldLeft(Keep, <<>>, Booked(fills))

\* The two sides of profit_factor().
AddGain(sum, pnl) == IF pnl.n > 0 THEN Plus(sum, pnl) ELSE sum
AddLoss(sum, pnl) == IF pnl.n < 0 THEN Plus(sum, pnl) ELSE sum
Gains(pnls) == FoldLeft(AddGain, Whole(0), pnls)
Losses(pnls) == Minus(Whole(0), FoldLeft(AddLoss, Whole(0), pnls))

-------------------------------------------------------------------------------
(* What these are worth: the same, said without running totals.              *)

Buys(fills) == {i \in DOMAIN fills : fills[i].side = "buy"}
Sells(fills) == {i \in DOMAIN fills : fills[i].side = "sell"}

\* The money received for the fills less the money spent on them.
Cash(fills) ==
  LET money == [i \in DOMAIN fills |-> fills[i].price * fills[i].quantity]
  IN SumFunctionOnSet(money, Sells(fills)) - SumFunctionOnSet(money, Buys(fills))

\* What is held before fill i.
Held(fills, i) ==
  LET quantity == [k \in DOMAIN fills |-> fills[k].quantity]
      before == 1 .. (i - 1)
  IN SumFunctionOnSet(quantity, Buys(fills) \cap before)
       - SumFunctionOnSet(quantity, Sells(fills) \cap before)

\* The largest fall from a point to a later one.
LargestFall(curve) ==
  LET falls == UNION {{Minus(curve[j], curve[i]) : j \in i .. Len(curve)} : i \in DOMAIN curve}
  IN IF falls = {} THEN Whole(0) ELSE CHOOSE f \in falls : \A g \in falls : ~Less(g, f)

\* The longest time from a point to a later one below it, with none above it between.
LongestUnderWater(curve) ==
  LET Under(i, j) == Less(curve[j], curve[i]) /\ \A k \in i .. j : ~Less(curve[i], curve[k])
  IN Max({0} \cup UNION {{j - i : j \in {k \in i .. Len(curve) : Under(i, k)}} : i \in DOMAIN curve})

\* The fills against the position held before them.
Closing(fills) == {i \in DOMAIN fills : Held(fills, i) * SignedQuantity(fills[i]) < 0}

Balances(fills) ==
  LET state == Position(fills)
      curve == EquityCurve(fills)
      pnls == RealizedPnls(fills)
  IN /\ Same(Minus(Gains(pnls), Losses(pnls)), state.realized)
     /\ Len(pnls) <= Cardinality(Closing(fills))
     /\ Same(state.realized, Plus(Whole(Cash(fills)), Times(state.cost, state.quantity)))
     /\ Same(MaxDrawdown(curve), LargestFall(curve))
     /\ MaxDrawdownDuration(curve) <= LongestUnderWater(curve)
     /\ MaxDrawdownDuration(curve) = 0 <=> MaxDrawdown(curve).n = 0

\* trades.py:1-2 and position.py:90-91: a realized amount for each closing fill.
ClosingFillsCounted(fills) == Len(RealizedPnls(fills)) = Cardinality(Closing(fills))

\* drawdown.py:27-30: the stretch lasts until the peak is exceeded.
DurationAsDocumented(curve) == MaxDrawdownDuration(curve) = LongestUnderWater(curve)
===============================================================================
