----------------------------- MODULE WalkForward -----------------------------
(***************************************************************************)
(* Walk-forward optimization (src/walkforward/optimizer.cpp): the windows  *)
(* of the range, the search for the best parameters in each, by threads    *)
(* that share a counter of trials or one after the other, and the test of  *)
(* the best ones out of sample.  A parameter set is the number of its      *)
(* trial, and a fitness is whatever the backtest makes of it.              *)
(***************************************************************************)
EXTENDS Integers, Sequences, FiniteSets, FiniteSetsExt

CONSTANTS
  Workers,     \* the threads of evaluate_trials()
  Trials,      \* how many parameter sets there are
  Fitnesses,   \* what compute_fitness() may return
  Configs,     \* the WalkForwardConfig's: [window_type, method, maximize,
               \* in_sample, out_of_sample, step]
  FullRange,   \* the range of the optimization
  Bars         \* the bars of the first symbol, as [ts, regime]

WindowTypes == {"Rolling", "Anchored", "RegimeAware"}
Methods == {"Grid", "Bayesian"}
Positive == Nat \ {0}

WalkForwardAssumption ==
  /\ Workers # {} /\ IsFiniteSet(Workers)
  /\ Trials \in Positive /\ Fitnesses \subseteq Int
  /\ Configs \subseteq [window_type : WindowTypes, method : Methods, maximize : BOOLEAN,
                        in_sample : Positive, out_of_sample : Positive, step : Positive]
  /\ FullRange \in [start : Nat, end : Nat]
  /\ Bars \in Seq([ts : Nat, regime : STRING])
  /\ \A i \in DOMAIN Bars : Bars[i].ts \in FullRange.start .. FullRange.end
  /\ \A i, j \in DOMAIN Bars : i < j => Bars[i].ts <= Bars[j].ts

VARIABLES
  config,     \* config_
  phase,      \* "next", "search", "test", "done" or "failed" (an exception left optimize())
  results,    \* results.windows: [in_sample, out_of_sample, best]
  index,      \* the next trial
  running,    \* per worker, the trial it runs, 0 between two, or NoTrial when it is gone
  outcomes,   \* the fitness of the trials that have one
  failure,    \* whether a trial has thrown
  best,       \* the trial with the best fitness, 0 for none (best_params is empty)
  cancelled,  \* cancelled_
  evaluated   \* history: how often each trial of the window was evaluated, up to twice

vars == <<config, phase, results, index, running, outcomes, failure, best, cancelled, evaluated>>

NoTrial == Trials + 1
AllTrials == 1 .. Trials
-----------------------------------------------------------------------------
(* The windows.  A range is inclusive at both ends.                        *)

\* The window of a position of the cursor.
BaseWindow(c, cursor) ==
  LET start == IF c.window_type = "Anchored" THEN FullRange.start ELSE cursor
      split == start + c.in_sample
  IN  [in_sample |-> [start |-> start, end |-> split],
       out_of_sample |-> [start |-> split, end |-> Min({split + c.out_of_sample, FullRange.end})]]

\* generate_windows(): up to the first cursor at the end or test beyond it.
Cursors(c) ==
  {cursor \in FullRange.start .. (FullRange.end - 1) :
     /\ (cursor - FullRange.start) % c.step = 0
     /\ BaseWindow(c, cursor).out_of_sample.start < FullRange.end}

Required == {Bars[i].regime : i \in DOMAIN Bars}
Regimes(from, to) == {Bars[i].regime : i \in from .. to}

\* Mutant: what is in the window already is forgotten while it grows.
StartAtMissing(first, last) ==
  LET found == Regimes(first, last)
  IN  IF found = Required THEN first
      ELSE Max({1} \cup {i \in 1 .. (first - 1) : Bars[i].regime \notin found})

\* The bar an in-sample window is extended back to: the last one from which every
\* regime of the data is in it, or the first of all.
ExtendedStart(first, last) ==
  Max({1} \cup {i \in 1 .. first : Regimes(i, last) = Required})

\* generate_regime_windows()
RegimeWindow(w) ==
  LET Before(ts) == Cardinality({i \in DOMAIN Bars : Bars[i].ts < ts})
      first == ExtendedStart(Before(w.in_sample.start) + 1, Before(w.in_sample.end))
  IN  IF first > Len(Bars) THEN w ELSE [w EXCEPT !.in_sample.start = Bars[first].ts]

\* The window of the next turn of optimize(): windows are in the order of cursors.
HasWindow(n) == n <= Cardinality(Cursors(config))
Window(n) ==
  LET cursor == FullRange.start + (n - 1) * config.step
      base == BaseWindow(config, cursor)
  IN  IF config.window_type = "RegimeAware" THEN RegimeWindow(base) ELSE base

-----------------------------------------------------------------------------
Init ==
  /\ config \in Configs
  /\ phase = "next" /\ results = <<>>
  /\ index = 1 /\ running = [w \in Workers |-> NoTrial]
  /\ outcomes = <<>>
  /\ failure = FALSE /\ best = 0 /\ cancelled = FALSE
  /\ evaluated = [t \in AllTrials |-> 0]

\* cancel(), from a callback or another thread; nothing takes it back.
Cancel ==
  /\ ~cancelled /\ cancelled' = TRUE
  /\ UNCHANGED <<config, phase, results, index, running, outcomes, failure, best, evaluated>>

Parallel == config.method # "Bayesian"

\* The next window, unless the optimization is cancelled.
BeginWindow ==
  /\ phase = "next"
  /\ HasWindow(Len(results) + 1) /\ ~cancelled
  /\ phase' = "search"
  /\ index' = 1 /\ best' = 0
  /\ running' = [w \in Workers |-> IF Parallel THEN 0 ELSE NoTrial]
  /\ outcomes' = <<>>
  /\ evaluated' = [t \in AllTrials |-> 0]
  /\ UNCHANGED <<config, results, failure, cancelled>>

EndWindows ==
  /\ phase = "next"
  /\ cancelled \/ ~HasWindow(Len(results) + 1)
  /\ phase' = "done"
  /\ UNCHANGED <<config, results, index, running, outcomes, failure, best, cancelled, evaluated>>

\* Mutant: the counter is read and written apart, and another thread's step is lost.
ClaimUnsynchronized(w) ==
  /\ phase = "search" /\ running[w] = 0
  /\ running' = [running EXCEPT ![w] = index]
  /\ index' \in {index, Min({index + 1, NoTrial})}
  /\ UNCHANGED <<config, phase, results, outcomes, failure, best, cancelled, evaluated>>

\* A thread takes the next trial, or ends.
Claim(w) ==
  /\ phase = "search" /\ running[w] = 0
  /\ running' = [running EXCEPT ![w] = index]
  /\ index' = Min({index + 1, NoTrial})
  /\ UNCHANGED <<config, phase, results, outcomes, failure, best, cancelled, evaluated>>

\* The outcomes with one more, that of trial t.
With(t, fitness) ==
  [u \in DOMAIN outcomes \cup {t} |-> IF u = t THEN fitness ELSE outcomes[u]]

\* run_backtest() and compute_fitness() return.
Evaluate(w, fitness) ==
  /\ phase = "search" /\ running[w] \in AllTrials
  /\ running' = [running EXCEPT ![w] = 0]
  /\ outcomes' = With(running[w], fitness)
  /\ evaluated' = [evaluated EXCEPT ![running[w]] = Min({@ + 1, 2})]
  /\ UNCHANGED <<config, phase, results, index, failure, best, cancelled>>

\* run_backtest() throws: the thread goes on with the next trial.
Throw(w) ==
  /\ phase = "search" /\ running[w] \in AllTrials
  /\ running' = [running EXCEPT ![w] = 0]
  /\ evaluated' = [evaluated EXCEPT ![running[w]] = Min({@ + 1, 2})]
  /\ failure' = TRUE
  /\ UNCHANGED <<config, phase, results, index, outcomes, best, cancelled>>

Better(a, b) == IF config.maximize THEN a > b ELSE a < b

\* Mutant: a later trial as good as the best replaces it.
BestOfLast ==
  CHOOSE t \in AllTrials :
    /\ \A u \in AllTrials : ~Better(outcomes[u], outcomes[t])
    /\ \A u \in (t + 1) .. Trials : outcomes[u] # outcomes[t]

\* The loop over the outcomes: a trial replaces the best if it is better.
BestOf ==
  CHOOSE t \in AllTrials :
    /\ \A u \in AllTrials : ~Better(outcomes[u], outcomes[t])
    /\ \A u \in 1 .. (t - 1) : outcomes[u] # outcomes[t]

\* All threads are joined; the first exception is thrown again.
Join ==
  /\ phase = "search" /\ Parallel
  /\ \A w \in Workers : running[w] = NoTrial
  /\ IF failure
     THEN phase' = "failed" /\ UNCHANGED best
     ELSE phase' = "test" /\ best' = BestOf
  /\ UNCHANGED <<config, results, index, running, outcomes, failure, cancelled, evaluated>>

\* One trial of the Bayesian search.
Try(fitness) ==
  /\ phase = "search" /\ ~Parallel
  /\ index \in AllTrials /\ ~cancelled
  /\ index' = index + 1
  /\ outcomes' = With(index, fitness)
  /\ evaluated' = [evaluated EXCEPT ![index] = Min({@ + 1, 2})]
  /\ best' = IF best = 0 \/ Better(fitness, outcomes[best]) THEN index ELSE best
  /\ UNCHANGED <<config, phase, results, running, failure, cancelled>>

TryFails ==
  /\ phase = "search" /\ ~Parallel
  /\ index \in AllTrials /\ ~cancelled
  /\ phase' = "failed" /\ failure' = TRUE
  /\ UNCHANGED <<config, results, index, running, outcomes, best, cancelled, evaluated>>

\* All trials are made, or the search is cancelled.
StopTrying ==
  /\ phase = "search" /\ ~Parallel
  /\ index = NoTrial \/ cancelled
  /\ phase' = "test"
  /\ UNCHANGED <<config, results, index, running, outcomes, failure, best, cancelled, evaluated>>

\* The test out of sample, and the window's result.
Test ==
  /\ phase = "test"
  /\ LET w == Window(Len(results) + 1)
     IN  results' = Append(results, [in_sample |-> w.in_sample, best |-> best,
                                     out_of_sample |-> w.out_of_sample])
  /\ phase' = "next"
  /\ UNCHANGED <<config, index, running, outcomes, failure, best, cancelled, evaluated>>

\* The test out of sample throws.
TestFails ==
  /\ phase = "test"
  /\ phase' = "failed" /\ failure' = TRUE
  /\ UNCHANGED <<config, results, index, running, outcomes, best, cancelled, evaluated>>

Over == phase \in {"done", "failed"} /\ UNCHANGED vars

Search(w) == Claim(w) \/ Throw(w) \/ \E f \in Fitnesses : Evaluate(w, f)

Step ==
  \/ BeginWindow \/ EndWindows \/ Join
  \/ (\E f \in Fitnesses : Try(f)) \/ TryFails \/ StopTrying
  \/ Test \/ TestFails

Next == Cancel \/ Step \/ (\E w \in Workers : Search(w)) \/ Over

Spec == Init /\ [][Next]_vars

\* Threads run, and backtests end.
FairSpec == Spec /\ WF_vars(Step) /\ \A w \in Workers : WF_vars(Search(w))
-----------------------------------------------------------------------------
(* Properties.                                                             *)

TimeRange == [start : Int, end : Int]

TypeOK ==
  /\ config \in Configs
  /\ phase \in {"next", "search", "test", "done", "failed"}
  /\ results \in Seq([in_sample : TimeRange, out_of_sample : TimeRange, best : 0 .. Trials])
  /\ index \in 1 .. NoTrial
  /\ running \in [Workers -> 0 .. NoTrial]
  /\ DOMAIN outcomes \subseteq AllTrials
  /\ \A t \in DOMAIN outcomes : outcomes[t] \in Fitnesses
  /\ {failure, cancelled} \subseteq BOOLEAN
  /\ best \in 0 .. Trials
  /\ evaluated \in [AllTrials -> 0 .. 2]

\* The threads share the trials without a lock: when they are joined, each trial
\* of the window was evaluated by one of them, once.
TrialsAreShared ==
  /\ \A t \in AllTrials : evaluated[t] <= 1
  /\ phase = "test" /\ Parallel => \A t \in AllTrials : evaluated[t] = 1

\* What is tested out of sample is the first of the best parameter sets, in
\* whatever order the threads ended; a cancelled search that evaluated none tests
\* the default parameters.
FirstOfTheBestIsTested ==
  LET Tried == DOMAIN outcomes
  IN  phase = "test" =>
        IF Tried = {} THEN best = 0
        ELSE /\ best \in Tried
             /\ \A t \in Tried :
                  \/ Better(outcomes[best], outcomes[t])
                  \/ outcomes[best] = outcomes[t] /\ best <= t

\* In-sample windows lie before the test they are for, and a window that follows
\* the regimes has every regime of the data in it or begins with the data.
WindowsSeeEnough ==
  \A i \in DOMAIN results :
    LET is == results[i].in_sample  oos == results[i].out_of_sample
        In == {b \in DOMAIN Bars : is.start <= Bars[b].ts /\ Bars[b].ts < is.end}
    IN  /\ FullRange.start <= is.start /\ is.end = oos.start
        /\ oos.start < oos.end /\ oos.end <= FullRange.end
        /\ config.window_type = "RegimeAware" /\ Bars # <<>> =>
             \/ {Bars[b].regime : b \in In} = Required
             \/ is.start = Bars[1].ts

\* optimize() ends, cancelled or not, and whether or not a backtest throws.
OptimizeEnds == <>(phase \in {"done", "failed"})
=============================================================================
