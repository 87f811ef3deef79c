-------------------------- MODULE MCBacktestOrders --------------------------
(***************************************************************************)
(* Two instances of BacktestExecution checked by one run, told apart by    *)
(* `scenario`.  "waiting": orders that wait for their activation, for the  *)
(* session, a trigger or a price, under a strategy that starts with an     *)
(* order.  "prompt": orders without latency, answered at once if the       *)
(* session is open, with every way in which an execution ends, and a       *)
(* strategy that also modifies them.                                       *)
(***************************************************************************)
EXTENDS MCBacktestExecution

VARIABLE scenario

Prompt == INSTANCE BacktestExecution WITH
    Latency <- 0, Liquidity <- {0, 1, 2}, PriceDriftAction <- "Requote",
    SessionMayClose <- TRUE, Plans <- PromptPlans, Quantities <- {3}, StartOps <- {},
    MarketOps <- {"submit", "cancel", "modify"}, UpdateOps <- {}, MaxCalls <- 3,
    Feed <- Tail(TwoDays),
    RiskMayRefuse <- FALSE

ScenarioInit ==
    \/ scenario = "waiting" /\ Init
    \/ scenario = "prompt" /\ Prompt!Init

ScenarioNext ==
    /\ UNCHANGED scenario
    /\ \/ scenario = "waiting" /\ Next
       \/ scenario = "prompt" /\ Prompt!Next

ScenarioSpec ==
    /\ ScenarioInit /\ [][ScenarioNext]_<<vars, scenario>>
    /\ WF_<<vars, scenario>>(ScenarioNext)

\* A time in force ends in time: a Day order is over on the next day, an immediate
\* one waits only where the pipeline lets it rest untouched.
TimeInForceIsKept ==
    /\ DayOrdersExpire
    /\ ImmediateIsOver

\* A run whose executions fill an order whole ends: handlers return, the queue empties.
WaitingRunEnds == scenario = "waiting" => RunEnds
=============================================================================
