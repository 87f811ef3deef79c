------------------------ MODULE MCBacktestExecution -------------------------
(***************************************************************************)
(* Constants for the model checking of BacktestExecution.  The execution   *)
(* ticks of a bar are one microsecond apart, market events ten or more.    *)
(***************************************************************************)
EXTENDS BacktestExecution

OneOrder == 1 .. 1
TwoOrders == 1 .. 2

Plan(type, tif, quantity) ==
    [type |-> type, tif |-> tif, quantity |-> quantity, expire_at |-> 0]
Gtd(type, quantity, at) ==
    [type |-> type, tif |-> "GTD", quantity |-> quantity, expire_at |-> at]

\* Two events of one day, of which the second is a bar of two ticks, then a new day.
TwoDays == <<[at |-> 10, ticks |-> 1], [at |-> 20, ticks |-> 2], [at |-> 30, ticks |-> 1]>>

\* Orders that are answered at once, unless the session is closed.
PromptPlans ==
    {Plan("StopLimit", "IOC", 2), Plan("Market", "GTC", 2), Plan("Limit", "IOC", 2),
     Plan("Limit", "FOK", 2), Gtd("StopLimit", 2, 20)}
\* Orders that wait.
WaitingPlans ==
    {Plan("Limit", "Day", 2), Plan("StopLimit", "IOC", 1), Plan("Stop", "GTC", 2),
     Plan("Limit", "FOK", 1), Gtd("Limit", 1, 20)}
MarketIoc == {Plan("Market", "IOC", 1)}
LimitDay == {Plan("Limit", "Day", 2)}
=============================================================================
