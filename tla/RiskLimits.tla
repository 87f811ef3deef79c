----------------------------- MODULE RiskLimits -----------------------------
(***************************************************************************)
(* The risk manager in front of a portfolio (src/risk/risk_limits.cpp and  *)
(* include/regimeflow/risk/risk_limits.h): an order is validated when it   *)
(* is Pending, and one that passes is open until later events fill or end  *)
(* it.  The limits look at the positions alone, not at the open orders.    *)
(* The quantity of an order has no sign; its side says which way it goes.  *)
(***************************************************************************)
EXTENDS Integers, Sums

CONSTANTS
  SymbolCount,  \* SymbolRegistry numbers the symbols from 1
  Prices,       \* of orders and marks
  Trades,       \* what may be ordered of a symbol: [side, quantity, type, price]
  Limits,       \* the limits that may be configured: [kind, max], or an overlay,
                \* [kind |-> "overlay", max (in position per equity), new, market]
  Cash,         \* at the start
  Holdings,     \* at the start, of a symbol
  MaxOpen,      \* bound: open orders
  MaxPosition,  \* bound: positions in units either way
  MaxCash       \* bound: cash, or debt

Kinds == {"position", "gross", "leverage", "net", "sector", "overlay"}

\* A market order has neither price, a limit order a limit price, a stop order a
\* stop price.
OrderTypes == {"Market", "Limit", "Stop"}
Sides == {"Buy", "Sell"}

Symbols == 1 .. SymbolCount
Places == 1 .. MaxOpen

RiskAssumption ==
  /\ SymbolCount \in Nat \ {0}
  /\ Prices \subseteq Nat \ {0}
  /\ Trades \subseteq [side : Sides, quantity : Nat \ {0}, type : OrderTypes, price : Prices]
  /\ \A l \in Limits : l.kind \in Kinds /\ l.max \in Nat
  /\ \A l \in Limits : l.kind = "overlay" => {l.new, l.market} \subseteq BOOLEAN
  /\ Cash \in Nat /\ MaxOpen \in Nat /\ MaxPosition \in Nat /\ MaxCash \in Nat
  /\ Holdings \subseteq -MaxPosition .. MaxPosition

VARIABLES
  limit,     \* limits_: the one that is configured
  cash,      \* cash_
  quantity,  \* per symbol, the quantity of its position
  price,     \* per symbol, the current price
  open,      \* the orders that have passed and are not filled; of each (history)
             \* whether all of it is open, and positions and prices are still those that
             \* it was validated against
  uncounted  \* history, per symbol: the buys that were open, and not counted, when
             \* the last buy was validated

vars == <<limit, cash, quantity, price, open, uncounted>>

Abs(i) == IF i < 0 THEN -i ELSE i
Gross == SumOf([s \in Symbols |-> Abs(quantity[s]) * price[s]])
Net == SumOf([s \in Symbols |-> quantity[s] * price[s]])
Equity == cash + Net

\* `exit` is the risk_exit metadata.
Order(s, side, q, type, p) ==
  [symbol |-> s, side |-> side, quantity |-> q, type |-> type, exit |-> FALSE,
   limit_price |-> IF type = "Limit" THEN p ELSE 0,
   stop_price |-> IF type = "Stop" THEN p ELSE 0, fresh |-> TRUE]
NoOrder == Order(1, "Sell", 0, "Market", 0)

\* What open orders may still buy of a symbol.
Buys(s) ==
  SumOf([i \in Places |->
           IF open[i].symbol = s /\ open[i].side = "Buy" THEN open[i].quantity ELSE 0])

Signed(o) == IF o.side = "Buy" THEN o.quantity ELSE -o.quantity

\* Mutant: the position held already is not counted.
ProjectedOfOrder(o) == o.quantity

\* MaxPositionLimit::validate(): whichever the side.
Projected(o) == quantity[o.symbol] + o.quantity

\* Mutant: an order replaces the exposure instead of adding to it.
ExposureOfOrder(o) == o.quantity * o.limit_price

\* The exposure that gross, leverage and sector limits expect, for one sector.
Exposure(o) == Gross + o.quantity * o.limit_price

ReferencePrice(o) == IF o.limit_price > 0 THEN o.limit_price ELSE o.stop_price

\* Mutant: a reduction beyond zero does not count as new exposure.
IncreasesOnItsSide(o) ==
  LET held == quantity[o.symbol]
  IN  Abs(held + Signed(o)) > Abs(held) /\ held * Signed(o) >= 0

Increases(o) == Abs(quantity[o.symbol] + Signed(o)) > Abs(quantity[o.symbol])

\* RegimeRiskOverlayLimit::validate(), for an order with a regime.
OverlayAllows(o) ==
  LET p == ReferencePrice(o)
  IN  /\ o.type = "Market" => limit.market
      /\ p > 0 =>
           /\ Increases(o) => limit.new
           /\ limit.max > 0 /\ Equity > 0 =>
                Abs(quantity[o.symbol] + Signed(o)) * p <= limit.max * Equity

\* The validate() of each limit; without a limit price most of them pass.
Allows(o) ==
  CASE limit.kind = "position" -> Abs(Projected(o)) <= limit.max
    [] limit.kind = "gross" -> o.limit_price > 0 => Exposure(o) <= limit.max
    [] limit.kind \in {"leverage", "sector"} ->
         o.limit_price > 0 /\ Equity > 0 => Exposure(o) <= limit.max * Equity
    [] limit.kind = "net" ->
         o.limit_price > 0 => Abs(Net + o.quantity * o.limit_price) <= limit.max
    [] limit.kind = "overlay" -> OverlayAllows(o)

\* RiskManager::validate()
Validates(o) == o.exit \/ Allows(o)

\* The validate_portfolio() of the limits.
WithinLimit ==
  CASE limit.kind = "position" -> \A s \in Symbols : Abs(quantity[s]) <= limit.max
    [] limit.kind = "gross" -> Gross <= limit.max
    [] limit.kind \in {"leverage", "sector"} -> Equity > 0 => Gross <= limit.max * Equity
    [] limit.kind = "net" -> Abs(Net) <= limit.max
    [] limit.kind = "overlay" -> TRUE
-----------------------------------------------------------------------------
Init ==
  /\ limit \in Limits
  /\ cash = Cash
  /\ quantity \in [Symbols -> Holdings]
  /\ price \in [Symbols -> Prices]
  /\ open = [i \in Places |-> NoOrder]
  /\ uncounted = [s \in Symbols |-> 0]

\* The callback for Pending orders: one that passes is handed on, and is open.
Accept(o) ==
  /\ Validates(o)
  /\ \E i \in Places : open[i].quantity = 0 /\ open' = [open EXCEPT ![i] = o]
  /\ uncounted' = IF limit.kind = "position" /\ o.side = "Buy"
                  THEN [uncounted EXCEPT ![o.symbol] = Buys(o.symbol)] ELSE uncounted
  /\ UNCHANGED <<limit, cash, quantity, price>>

\* A refused order changes nothing.
Submit ==
  \E s \in Symbols, t \in Trades : Accept(Order(s, t.side, t.quantity, t.type, t.price))

\* An exit of the stop-loss manager or of close_all_positions().
Exit ==
  \E s \in Symbols :
    LET side == IF quantity[s] > 0 THEN "Sell" ELSE "Buy"
    IN  /\ quantity[s] # 0
        /\ Accept([Order(s, side, Abs(quantity[s]), "Market", 0) EXCEPT !.exit = TRUE])

\* What has been validated before the positions or the prices change.
Aged(os) == [i \in Places |-> [os[i] EXCEPT !.fresh = (os[i].quantity = 0)]]

\* What of an order is open when there are n to go.
Left(o, n) == IF n = 0 THEN NoOrder ELSE [o EXCEPT !.quantity = n, !.fresh = FALSE]

\* A fill event, of an order or a part of it.  When it is executed, and at what price, is
\* a choice of the execution; by its event the prices may have moved on.
Fill(i, lots, p) ==
  LET o == open[i]
      traded == Signed([o EXCEPT !.quantity = lots])
  IN  /\ Abs(quantity[o.symbol] + traded) <= MaxPosition
      /\ Abs(cash - p * traded) <= MaxCash
      /\ quantity' = [quantity EXCEPT ![o.symbol] = @ + traded]
      /\ cash' = cash - p * traded
      /\ price' = [price EXCEPT ![o.symbol] = p]
      /\ open' = Aged([open EXCEPT ![i] = Left(o, o.quantity - lots)])
      /\ UNCHANGED <<limit, uncounted>>

\* An order is cancelled, refused or expires; what was executed of it before, `left`, is
\* still to come.  The Update event of a partial fill, which has the order validated once
\* more with its whole quantity, is that and a submission.
End(i, left) ==
  /\ open' = [open EXCEPT ![i] = Left(@, left)]
  /\ UNCHANGED <<limit, cash, quantity, price, uncounted>>

Mark ==
  \E s \in Symbols, p \in Prices :
    /\ p # price[s]
    /\ price' = [price EXCEPT ![s] = p]
    /\ open' = Aged(open)
    /\ UNCHANGED <<limit, cash, quantity, uncounted>>

Next ==
  \/ Submit \/ Exit \/ Mark
  \/ \E i \in Places :
       \/ \E lots \in 1 .. open[i].quantity, p \in Prices : Fill(i, lots, p)
       \/ \E left \in 0 .. open[i].quantity - 1 : End(i, left)

Spec == Init /\ [][Next]_vars
-----------------------------------------------------------------------------
(* Properties.                                                             *)

TypeOK ==
  /\ limit \in Limits
  /\ cash \in -MaxCash .. MaxCash
  /\ quantity \in [Symbols -> -MaxPosition .. MaxPosition]
  /\ price \in [Symbols -> Prices]
  /\ \A i \in Places :
       /\ open[i].quantity \in Nat
       /\ open[i] \in {[o EXCEPT !.quantity = open[i].quantity, !.exit = e, !.fresh = f] :
            e \in BOOLEAN, f \in BOOLEAN,
            o \in {Order(s, side, 0, type, p) :
                    s \in Symbols, side \in Sides, type \in OrderTypes, p \in Prices}}
  /\ uncounted \in [Symbols -> Nat]

\* Open orders are not counted, so orders that pass one by one may together take a long
\* position above the position limit; but by no more than the buys that were open when
\* the last buy was validated, however the fills, parts and cancellations of all of them
\* follow each other.  One buy at a time is capped by the limit itself.
LongsAreCapped ==
  [][limit.kind = "position" =>
       \A s \in Symbols :
         quantity'[s] > quantity[s] => quantity'[s] <= limit.max + uncounted[s]]_vars

\* A limit order of which the first fill comes before anything else is filled or marked,
\* at the price of the portfolio and no more than its own, leaves the portfolio within
\* the gross, leverage or sector limit that let it pass, whatever else is open.
ExposureStaysInLimit ==
  [][\A i \in Places :
       /\ limit.kind \in {"gross", "leverage", "sector"}
       /\ open[i].type = "Limit" /\ open[i].fresh
       /\ price[open[i].symbol] <= open[i].limit_price
       /\ (\E lots \in 1 .. open[i].quantity : Fill(i, lots, price[open[i].symbol]))
       => WithinLimit']_vars

\* An overlay that lets neither new exposure nor market orders through keeps positions
\* from growing, and from turning to a larger one on the other side, by the first fill of
\* an order when that comes before anything else is filled or marked.
OverlayStopsGrowth ==
  [][limit.kind = "overlay" /\ ~limit.new /\ ~limit.market =>
       \A i \in Places :
         open[i].fresh /\ (\E lots \in 1 .. open[i].quantity, p \in Prices : Fill(i, lots, p)) =>
           \A s \in Symbols : Abs(quantity'[s]) <= Abs(quantity[s])]_vars
=============================================================================
