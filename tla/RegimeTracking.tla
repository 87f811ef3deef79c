--------------------------- MODULE RegimeTracking ---------------------------
(***************************************************************************)
(* From the answers of the regime detectors to what the strategies are     *)
(* told: EnsembleRegimeDetector::combine() (src/regime/ensemble.cpp),      *)
(* RegimeTracker (src/engine/regime_tracker.cpp), the bar and tick         *)
(* handlers of BacktestEngine with the hooks that may cancel them          *)
(* (src/plugins/hooks.cpp), the transitions that MetricsTracker counts,    *)
(* and handle_market_data() of the live engine over the same data.         *)
(*                                                                         *)
(* What a handler does to orders and to the portfolio is modelled in       *)
(* ExecutionPipeline and AccountGuard.  A detector is any function of the  *)
(* data: it answers with a vector of probabilities.                        *)
(***************************************************************************)
EXTENDS Integers, Sequences, FiniteSets, Functions, Sums

CONSTANTS
  Members,      \* how many detectors the ensemble has
  Weights,      \* their weights, above 0
  Answers,      \* the probabilities they answer with, in parts of Certainty
  Certainty,    \* what the probabilities of an answer add up to
  Priorities,   \* priorities of hooks
  HistorySize,  \* history_size_
  MaxHooks,     \* bound: hooks registered
  MaxEvents     \* bound: bars and ticks

\* Bull, Neutral, Bear and Crisis.
Regimes == 0 .. 3
Neutral == 1
Untold == -1

Detectors == 1 .. Members

TrackingAssumption ==
  /\ Members \in Nat \ {0}
  /\ Weights \in [Detectors -> Nat \ {0}]
  /\ Certainty \in Nat \ {0}
  /\ Answers \subseteq [Regimes -> 0 .. Certainty]
  /\ \A p \in Answers : p[0] + p[1] + p[2] + p[3] = Certainty
  /\ Priorities \subseteq Int
  /\ HistorySize \in Nat \ {0}

VARIABLES
  voting,     \* voting_method_
  hooks,      \* per hook type, the entries in the order they are asked
  answers,    \* the last answers
  has_state,  \* has_state_ of the tracker
  current,    \* current_state_, its regime
  history,    \* history_
  known,      \* the regime a strategy was last told of in the backtest
  missed,     \* whether a hook has kept the last change from the strategies
  last,       \* last_regime_ of the metrics
  counted,    \* the transitions counted by transition_metrics_
  changes,    \* history: the changes of `current`, the first from its default
  behind,     \* whether the last event was kept from the backtest
  live,       \* current_regime_ of the live engine
  live_known, \* the regime a strategy was last told of by the live engine
  events      \* how many bars and ticks there were

tracker == <<has_state, current, history>>
metrics == <<last, counted>>
vars == <<voting, hooks, answers, tracker, known, missed, metrics, changes, behind,
          live, live_known, events>>

Certain(r) == [q \in Regimes |-> IF q = r THEN Certainty ELSE 0]

Init ==
  /\ voting \in {"majority", "average", "confidence"}
  /\ hooks = [type \in {"data", "change"} |-> <<>>]
  /\ answers = [d \in Detectors |-> Certain(Neutral)]
  /\ has_state = FALSE /\ current = Neutral /\ history = <<>>
  /\ known = Untold /\ missed = FALSE
  /\ last = Untold /\ counted = <<>> /\ changes = <<>>
  /\ behind = FALSE
  /\ live = Neutral /\ live_known = Untold
  /\ events = 0
-----------------------------------------------------------------------------
(* The ensemble.                                                           *)

\* max_element(): the first of equal maxima.
Dominant(p) ==
  CHOOSE r \in Regimes : \A q \in Regimes : p[q] <= p[r] /\ (q < r => p[q] < p[r])

\* Mutant: the doubt.
ConfidenceLost(p) == Certainty - p[Dominant(p)]

Confidence(p) == p[Dominant(p)]

\* Dividing by the sum, or by the weights, changes no order.
Votes(given, r) ==
  CASE voting = "majority" -> Cardinality({d \in Detectors : Dominant(given[d]) = r})
    [] voting = "average" ->
         SumOf([d \in Detectors |-> Weights[d] * given[d][r]])
    [] voting = "confidence" ->
         SumOf([d \in Detectors |-> Weights[d] * Confidence(given[d]) * given[d][r]])

Combined(given) == Dominant([r \in Regimes |-> Votes(given, r)])
-----------------------------------------------------------------------------
(* The hooks.                                                              *)

\* Mutant: only the priority is compared, by a sort that is not stable.
AskedBeforeByPriority(a, b) == a.priority < b.priority \/ (a.priority = b.priority /\ a.sequence > b.sequence)

AskedBefore(a, b) ==
  a.priority < b.priority \/ (a.priority = b.priority /\ a.sequence < b.sequence)

\* sort_hooks(); no two entries have one number.
Sorted(list) ==
  CHOOSE s \in [DOMAIN list -> Range(list)] :
    /\ Range(s) = Range(list)
    /\ \A i, j \in DOMAIN s : i < j => AskedBefore(s[i], s[j])

Registered == Len(hooks["data"]) + Len(hooks["change"])

RegisterHook(type, priority) ==
  /\ events = 0 /\ Registered < MaxHooks
  /\ hooks' = [hooks EXCEPT ![type] =
       Sorted(Append(@, [priority |-> priority, sequence |-> Registered]))]
  /\ UNCHANGED <<voting, answers, tracker, known, missed, metrics, changes, behind,
                 live, live_known, events>>

Results == {"continue", "skip", "cancel"}

\* invoke(): the first hook that does not say Continue decides.
Cancels(results) ==
  \E i \in DOMAIN results :
    results[i] = "cancel" /\ \A j \in 1 .. i - 1 : results[j] = "continue"

\* Whether the hooks of a type may cancel, or not.
Outcomes(type) == {Cancels(results) : results \in [DOMAIN hooks[type] -> Results]}
-----------------------------------------------------------------------------
(* A bar or a tick.                                                        *)

\* Mutant: the regime that the data has brought.
MetricsRegimeAfter(next) == next

\* The return up to the event belongs to the regime before it.
MetricsRegime(next) == current

\* MetricsTracker::update()
Count(regime) ==
  /\ last' = regime
  /\ counted' = IF last \notin {Untold, regime} THEN Append(counted, <<last, regime>>) ELSE counted

\* RegimeTracker::on_bar() and on_tick()
Track(next) ==
  /\ has_state' = TRUE /\ current' = next
  /\ history' = LET longer == Append(history, next) IN
       IF Len(longer) > HistorySize THEN Tail(longer) ELSE longer
  /\ changes' = IF next # current THEN Append(changes, <<current, next>>) ELSE changes

\* Mutant: only the first change is one.
IsTransitionOnce(next) == has_state /\ known = Untold /\ next # current

IsTransition(next) == has_state /\ next # current

\* The strategies are told of the transition before they see the data, and do not
\* see the data either when a hook of the change cancels.
Tell(next, cancelled) ==
  /\ known' = IF IsTransition(next) /\ ~cancelled THEN next ELSE known
  /\ missed' = IF IsTransition(next) THEN cancelled ELSE missed

\* The handler of the live engine: there are no hooks, and the default is
\* compared with the first answer.
OnLiveData(next) ==
  /\ live' = next
  /\ live_known' = IF next # live THEN next ELSE live_known

OnData ==
  /\ events < MaxEvents
  /\ events' = events + 1
  /\ answers' \in [Detectors -> Answers]
  /\ LET next == Combined(answers') IN
       /\ OnLiveData(next)
       /\ \/ /\ TRUE \in Outcomes("data")
             /\ behind' = TRUE
             /\ UNCHANGED <<tracker, known, missed, metrics, changes>>
          \/ /\ FALSE \in Outcomes("data")
             /\ behind' = FALSE
             /\ Count(MetricsRegime(next))
             /\ Track(next)
             /\ \E cancelled \in Outcomes("change") : Tell(next, cancelled)
  /\ UNCHANGED <<voting, hooks>>

Next ==
  \/ \E type \in {"data", "change"}, p \in Priorities : RegisterHook(type, p)
  \/ OnData

Spec == Init /\ [][Next]_vars
-----------------------------------------------------------------------------
(* Properties.                                                             *)

TypeOK ==
  /\ voting \in {"majority", "average", "confidence"}
  /\ \A type \in {"data", "change"} : hooks[type] \in Seq([priority : Priorities, sequence : Nat])
  /\ answers \in [Detectors -> Answers \cup {Certain(Neutral)}]
  /\ {has_state, missed, behind} \subseteq BOOLEAN
  /\ {current, live} \subseteq Regimes
  /\ {known, live_known, last} \subseteq Regimes \cup {Untold}
  /\ history \in Seq(Regimes) /\ Len(history) <= HistorySize
  /\ has_state => history[Len(history)] = current
  /\ counted \in Seq(Regimes \X Regimes) /\ changes \in Seq(Regimes \X Regimes)
  /\ events \in 0 .. MaxEvents

\* Whatever the voting, an ensemble of one mind says what its members say, and a
\* member that comes round to the result with certainty does not overturn it.
EnsembleFollowsItsMembers ==
  LET result == Combined(answers) IN
  /\ \A r \in Regimes : (\A d \in Detectors : Dominant(answers[d]) = r) => result = r
  /\ \A d \in Detectors : Combined([answers EXCEPT ![d] = Certain(result)]) = result

\* A strategy that only listens to on_regime_change() knows the regime: before the
\* first change it is the first one detected, and after one it is wrong only while
\* a hook has cancelled the last change.
StrategiesFollowTheTracker ==
  has_state /\ ~missed => known \in {Untold, current}

\* Backtest and live engine tell a strategy the same over the same data, from the
\* first change on and until a hook keeps something from the strategies.
LiveFollowsTheBacktest ==
  /\ live_known \in {Untold, live}
  /\ has_state /\ ~behind => current = live
  /\ known # Untold /\ ~missed /\ ~behind => known = live_known

\* The transition metrics count every change once, the one from the default to the
\* first regime as well, with the first return that belongs to the new regime:
\* only the last change may still be missing.
ChangesAreCounted ==
  changes = IF last \in {Untold, current} THEN counted ELSE Append(counted, <<last, current>>)

\* Hooks are asked by priority, and in the order of registration within one.
HooksAreInOrder ==
  \A type \in {"data", "change"} : \A i, j \in DOMAIN hooks[type] :
    LET a == hooks[type][i] b == hooks[type][j] IN
    i < j => a.priority < b.priority \/ (a.priority = b.priority /\ a.sequence < b.sequence)
=============================================================================
