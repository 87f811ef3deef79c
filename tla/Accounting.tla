----------------------------- MODULE Accounting -----------------------------
(***************************************************************************)
(* Two books of the same fills: the portfolio (src/engine/portfolio.cpp),  *)
(* which keeps an average cost and a realized profit, and the performance  *)
(* calculator (src/metrics/performance_calculator.cpp), which matches      *)
(* fills first in, first out and measures the worst fall of the equity.    *)
(* Quotients are exact here: a number is a reduced fraction [n, d].        *)
(***************************************************************************)
EXTENDS Integers, Sequences, FiniteSetsExt, Sums

CONSTANTS
  Symbols, Prices, Quantities,  \* of the fills; a sale has a negative quantity
  Fees,                         \* commission and transaction cost of a fill
  Capital,                      \* initial_capital_
  MaxSteps                      \* bound: fills and marks

AccountingAssumption ==
  /\ IsFiniteSet(Symbols) /\ Prices \subseteq Nat \ {0} /\ Quantities \subseteq Int \ {0}
  /\ Fees \subseteq Nat /\ Capital \in Nat /\ MaxSteps \in Nat

VARIABLES
  cash,       \* cash_
  position,   \* positions_: [quantity, avg_cost, current_price]
  realized,   \* realized_pnl_
  paid,       \* history: all fees
  lots,       \* open_lots: [quantity, price, fees]
  pnl,        \* the profit of all trades of build_trades_from_fills()
  curve       \* the equity after each step

vars == <<cash, position, realized, paid, lots, pnl, curve>>
-----------------------------------------------------------------------------
(* Fractions.                                                              *)

Abs(i) == IF i < 0 THEN -i ELSE i
Least(i, j) == IF i < j THEN i ELSE j
Gcd(i, j) == Max({k \in 1 .. j : i % k = 0 /\ j % k = 0})
Frac(n, d) == LET g == Gcd(n, d) IN [n |-> n \div g, d |-> d \div g]
Whole(i) == [n |-> i, d |-> 1]
Plus(x, y) == Frac(x.n * y.d + y.n * x.d, x.d * y.d)
Minus(x, y) == Plus(x, [y EXCEPT !.n = -@])
Times(x, i) == Frac(x.n * i, x.d)
Over(x, i) == IF i < 0 THEN Frac(-x.n, x.d * (-i)) ELSE Frac(x.n, x.d * i)
Total(s) ==
  LET total[i \in 0 .. Len(s)] == IF i = 0 THEN Whole(0) ELSE Plus(total[i - 1], s[i])
  IN  total[Len(s)]
-----------------------------------------------------------------------------
\* Maps of symbols are read in an order that is not determined.
Order == CHOOSE order \in [1 .. Cardinality(Symbols) -> Symbols] : IsInjective(order)

NoPosition == [quantity |-> 0, avg_cost |-> Whole(0), current_price |-> 0]

Init ==
  /\ cash = Capital
  /\ position = [s \in Symbols |-> NoPosition]
  /\ realized = Whole(0) /\ paid = 0
  /\ lots = [s \in Symbols |-> <<>>]
  /\ pnl = Whole(0)
  /\ curve = <<Capital>>

SameSide(i, j) == (i > 0 /\ j > 0) \/ (i < 0 /\ j < 0)

\* Mutant: a fill that turns the position round keeps its average cost.
CostAfterTurn(p, quantity, price) ==
  LET new == p.quantity + quantity
  IN  IF p.quantity = 0 \/ SameSide(p.quantity, quantity)
      THEN Over(Plus(Times(p.avg_cost, p.quantity), Whole(price * quantity)), new)
      ELSE IF new = 0 THEN Whole(0) ELSE p.avg_cost

\* apply_fill(): the average cost after a fill.
CostAfter(p, quantity, price) ==
  LET new == p.quantity + quantity
  IN  IF p.quantity = 0 \/ SameSide(p.quantity, quantity)
      THEN Over(Plus(Times(p.avg_cost, p.quantity), Whole(price * quantity)), new)
      ELSE IF new = 0 THEN Whole(0)
      ELSE IF SameSide(p.quantity, new) THEN p.avg_cost
      ELSE Whole(price)

\* apply_fill(): the profit a fill realizes.
Realized(p, quantity, price) ==
  LET closing == Least(Abs(quantity), Abs(p.quantity))
      gain == Times(Minus(Whole(price), p.avg_cost), closing)
  IN  IF p.quantity = 0 \/ SameSide(p.quantity, quantity) THEN Whole(0)
      ELSE IF p.quantity > 0 THEN gain ELSE Times(gain, -1)

\* build_trades_from_fills(): one turn of the loop over the open lots.  `left` is
\* what of the fill is still to be matched, `used` the fees that went to it.
CloseLot(fee, price, acc, lot) ==
  LET close == Least(Abs(acc.left), Abs(lot.quantity))
      sign == IF lot.quantity > 0 THEN 1 ELSE -1
      opening == Times(Over(lot.fees, Abs(lot.quantity)), close)
      closing == Times(fee, close)
      gain == Whole(close * (price - lot.price) * sign)
      rest == [lot EXCEPT !.quantity = @ - sign * close, !.fees = Minus(@, opening)]
  IN  IF SameSide(acc.left, -lot.quantity)
      THEN [left |-> acc.left + sign * close, used |-> Plus(acc.used, closing),
            gain |-> Plus(acc.gain, Minus(gain, Plus(opening, closing))),
            lots |-> IF rest.quantity = 0 THEN acc.lots ELSE Append(acc.lots, rest)]
      ELSE [acc EXCEPT !.lots = Append(@, lot)]

\* Mutant: what is left of a fill that closed lots carries its whole fees.
RestPaysAll(fees, used) == Whole(fees)

\* The fees of what is left of a fill.
RestPays(fees, used) ==
  LET rest == Minus(Whole(fees), used) IN IF rest.n < 0 THEN Whole(0) ELSE rest

Matched(s, quantity, price, fees) ==
  LET after[i \in 0 .. Len(lots[s])] ==
        IF i = 0 THEN [left |-> quantity, used |-> Whole(0), gain |-> Whole(0), lots |-> <<>>]
        ELSE CloseLot(Over(Whole(fees), Abs(quantity)), price, after[i - 1], lots[s][i])
      closed == after[Len(lots[s])]
      rest == [quantity |-> closed.left, price |-> price, fees |-> RestPays(fees, closed.used)]
  IN  [closed EXCEPT !.lots = IF closed.left = 0 THEN @ ELSE Append(@, rest)]

Equity(c, ps) ==
  c + SumOf([i \in DOMAIN Order |-> ps[Order[i]].quantity * ps[Order[i]].current_price])

MayStep == Len(curve) <= MaxSteps

\* update_position(), and the same fill in the performance calculator.
UpdatePosition(s, quantity, price, fees) ==
  /\ MayStep
  /\ LET p == position[s]
         matched == Matched(s, quantity, price, fees)
     IN  /\ cash' = cash - price * quantity - fees
         /\ position' = [position EXCEPT ![s] =
              [quantity |-> p.quantity + quantity, avg_cost |-> CostAfter(p, quantity, price),
               current_price |-> price]]
         /\ realized' = Plus(realized, Realized(p, quantity, price))
         /\ lots' = [lots EXCEPT ![s] = matched.lots]
         /\ pnl' = Plus(pnl, matched.gain)
  /\ paid' = paid + fees
  /\ curve' = Append(curve, Equity(cash', position'))

\* mark_to_market()
MarkToMarket(s, price) ==
  /\ MayStep
  /\ position[s] # NoPosition /\ price # position[s].current_price
  /\ position' = [position EXCEPT ![s].current_price = price]
  /\ curve' = Append(curve, Equity(cash, position'))
  /\ UNCHANGED <<cash, realized, paid, lots, pnl>>

Next ==
  \E s \in Symbols, price \in Prices :
    \/ \E quantity \in Quantities, fees \in Fees : UpdatePosition(s, quantity, price, fees)
    \/ MarkToMarket(s, price)

Spec == Init /\ [][Next]_vars

Less(x, y) == x.n * y.d < y.n * x.d

\* Mutant: the fall is measured from the point before.
PeakBefore(peak, equity) == equity

\* max_drawdown(): the highest point so far.
Peak(peak, equity) == IF equity > peak THEN equity ELSE peak

MaxDrawdown ==
  LET fall(peak, equity) ==
        IF peak > 0 /\ peak > equity THEN Frac(peak - equity, peak) ELSE Whole(0)
      peak[i \in 0 .. Len(curve)] == IF i = 0 THEN curve[1] ELSE Peak(peak[i - 1], curve[i])
      worst[i \in 0 .. Len(curve)] ==
        IF i = 0 THEN Whole(0)
        ELSE IF Less(worst[i - 1], fall(peak[i], curve[i])) THEN fall(peak[i], curve[i]) ELSE worst[i - 1]
  IN  worst[Len(curve)]
-----------------------------------------------------------------------------
(* Properties.                                                             *)

Fraction == [n : Int, d : Nat \ {0}]

TypeOK ==
  /\ cash \in Int /\ paid \in Nat
  /\ position \in [Symbols -> [quantity : Int, avg_cost : Fraction, current_price : Nat]]
  /\ realized \in Fraction /\ pnl \in Fraction
  /\ lots \in [Symbols -> Seq([quantity : Int \ {0}, price : Prices, fees : Fraction])]
  /\ curve \in Seq(Int)

\* The equity is explained: it is the capital, less the fees, with the profits
\* realized and those not realized yet, over increases, partial closes and turns.
EquityIsExplained ==
  LET Unrealized(p) == Times(Minus(Whole(p.current_price), p.avg_cost), p.quantity)
      all == Total([i \in DOMAIN Order |-> Unrealized(position[Order[i]])])
  IN  Whole(curve[Len(curve)]) = Plus(Whole(Capital - paid), Plus(realized, all))

\* The open lots of a symbol are its position, all on one side, and the trades,
\* the open lots and the fees they still carry explain the cash to the last cent;
\* when all is closed, the profit of the trades is the change of the cash.
TradesExplainCash ==
  LET Cost(lot) == Plus(Whole(lot.quantity * lot.price), lot.fees)
      Costs(s) == Total([i \in DOMAIN lots[s] |-> Cost(lots[s][i])])
      all == Total([i \in DOMAIN Order |-> Costs(Order[i])])
  IN  /\ \A s \in Symbols :
           /\ SumOf([i \in DOMAIN lots[s] |-> lots[s][i].quantity]) = position[s].quantity
           /\ \A i \in DOMAIN lots[s] : SameSide(lots[s][i].quantity, position[s].quantity)
      /\ Whole(cash) = Minus(Plus(Whole(Capital), pnl), all)

\* Although it is measured from the highest equity only, in one pass, the drawdown
\* of a curve that does not go below zero is the worst relative fall from any
\* earlier point of it.
DrawdownIsTheWorstFall ==
  LET Falls == {f \in (DOMAIN curve) \X (DOMAIN curve) :
                  f[1] < f[2] /\ curve[f[1]] > 0 /\ curve[f[1]] > curve[f[2]]}
      Fall(f) == Frac(curve[f[1]] - curve[f[2]], curve[f[1]])
  IN  (\A i \in DOMAIN curve : curve[i] >= 0) =>
      IF Falls = {} THEN MaxDrawdown = Whole(0)
      ELSE /\ \E f \in Falls : MaxDrawdown = Fall(f)
           /\ \A f \in Falls : ~Less(MaxDrawdown, Fall(f))
=============================================================================
