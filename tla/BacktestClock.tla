--------------------------- MODULE BacktestClock ----------------------------
(***************************************************************************)
(* Simulated time in a backtest: the events that EventGenerator makes of   *)
(* the data (src/engine/event_generator.cpp), the timers of TimerService   *)
(* (src/engine/timer_service.cpp), the event loop that handles both        *)
(* (src/engine/event_loop.cpp), and run(), step() and run_until() of the   *)
(* engine around it.  One thread does everything.                          *)
(*                                                                         *)
(* An event is handled in one step, with the one thing a strategy does     *)
(* about time when it is called.  Orders, which take their own way through *)
(* the same queue, are in BacktestExecution.                               *)
(***************************************************************************)
EXTENDS Integers, Sequences, FiniteSets, FiniteSetsExt

CONSTANTS
  Feed,           \* the data, as a sequence of [time, symbol], symbols above 0
  DayLength,      \* the length of a calendar day
  CheckInterval,  \* regime_check_interval, 0 for no checks
  TimerIds,       \* the timers of strategies, as numbers above 0
  Intervals,      \* their intervals
  Ends,           \* the arguments of run_until()
  MaxCalls,       \* bound: calls of schedule_timer() and cancel_timer()
  MaxRuns         \* bound: calls of run(), step() and run_until()

ClockAssumption ==
  /\ Feed \in Seq([time : Nat, symbol : Nat \ {0}]) /\ Feed # <<>>
  /\ DayLength \in Nat \ {0}
  /\ CheckInterval \in Nat
  /\ TimerIds \subseteq Nat \ {0}
  /\ Intervals \subseteq Nat /\ Ends \subseteq Nat
  /\ {MaxCalls, MaxRuns} \subseteq Nat

VARIABLES
  queue,         \* event_queue_
  numbered,      \* next_sequence_
  current_time,  \* current_time_
  timers,        \* timers_
  loop,          \* "off", or what EventLoop runs: "run", "step", "until"
  end,           \* the end_time of run_until()
  started,       \* started_
  calls, runs,   \* how many calls were made of the two kinds
  seen,          \* history: the market events handled
  counted        \* history: per timer, when it was scheduled and how often it
                 \* has fired since

vars == <<queue, numbered, current_time, timers, loop, end, started, calls, runs, seen, counted>>

kSystemPriority == 0
kMarketPriority == 10

\* The id is that of the data, the day or the timer, 0 for the regime check.  A
\* later number was pushed later; events under one number are in any order.
Event(time, priority, sequence, kind, id) ==
  [time |-> time, priority |-> priority, sequence |-> sequence, kind |-> kind, id |-> id]

Day(time) == time \div DayLength
-----------------------------------------------------------------------------
(* EventGenerator::enqueue_all().  It sorts by time, priority and symbol    *)
(* before it pushes, so the symbol takes the place of the number.          *)

Times == {Feed[i].time : i \in DOMAIN Feed}
Days == {Day(time) : time \in Times}
TimesOf(day) == {time \in Times : Day(time) = day}

MarketEvents ==
  {Event(Feed[i].time, kMarketPriority, Feed[i].symbol, "Market", i) : i \in DOMAIN Feed}

\* Markers at the first and at the last event of every day.
DayEvents ==
  {Event(Min(TimesOf(day)), kSystemPriority, 0, "DayStart", day) : day \in Days}
  \cup {Event(Max(TimesOf(day)), kSystemPriority, 0, "EndOfDay", day) : day \in Days}

CheckEvents ==
  IF CheckInterval = 0 THEN {}
  ELSE {Event(time, kSystemPriority, 0, "Timer", 0) :
          time \in {at \in Min(Times) + 1 .. Max(Times) : (at - Min(Times)) % CheckInterval = 0}}

Symbols == {Feed[i].symbol : i \in DOMAIN Feed}

Init ==
  /\ queue = MarketEvents \cup DayEvents \cup CheckEvents
  /\ numbered = Max(Symbols) + 1
  /\ current_time = 0
  /\ timers = [id \in {} |-> [interval |-> 0, next_fire |-> 0]]
  /\ loop = "off" /\ end = 0 /\ started = FALSE
  /\ calls = 0 /\ runs = 0
  /\ seen = {}
  /\ counted = [id \in TimerIds |-> [start |-> 0, fired |-> 0]]
-----------------------------------------------------------------------------
(* The queue and the timers.                                               *)

\* Mutant: events of one time come by their number, whatever their priority.
BeforeByNumber(a, b) ==
  a.time < b.time \/ (a.time = b.time /\ a.priority = b.priority /\ a.sequence < b.sequence)

\* EventComparator
Before(a, b) ==
  \/ a.time < b.time
  \/ a.time = b.time /\ a.priority < b.priority
  \/ a.time = b.time /\ a.priority = b.priority /\ a.sequence < b.sequence

\* What pop() may give out.
First == {e \in queue : \A f \in queue : ~Before(f, e)}

\* Mutant: a late timer goes on from now.
NextFireFromNow(timer, now) == now + timer.interval

\* One firing however late the timer is: it makes up for the rest one by one.
NextFire(timer, now) == timer.next_fire + timer.interval

\* Mutant: a timer fires at the event nearest to its time.
IsDueNearby(timer, now) == timer.next_fire <= now + 1

IsDue(timer, now) == timer.next_fire <= now

\* on_time_advance(), in the order of a hash map.
DueTimers(now) == {id \in DOMAIN timers : IsDue(timers[id], now)}
TimerEvents(now) ==
  {Event(timers[id].next_fire, kSystemPriority, numbered, "Timer", id) : id \in DueTimers(now)}
AdvancedTimers(now) ==
  [id \in DOMAIN timers |->
     IF id \in DueTimers(now) THEN [timers[id] EXCEPT !.next_fire = NextFire(timers[id], now)]
     ELSE timers[id]]
Counted(now) ==
  [id \in TimerIds |->
     IF id \in DueTimers(now) THEN [counted[id] EXCEPT !.fired = @ + 1] ELSE counted[id]]

\* schedule() and cancel(); what a timer has in the queue stays there.
Schedule(table, count, now, id, interval) ==
  /\ timers' = [x \in DOMAIN table \cup {id} |->
                  IF x = id THEN [interval |-> interval, next_fire |-> now + interval]
                  ELSE table[x]]
  /\ counted' = [count EXCEPT ![id] = [start |-> now, fired |-> 0]]

CancelTimer(table, count, id) ==
  /\ timers' = [x \in DOMAIN table \ {id} |-> table[x]]
  /\ counted' = count

\* The strategy is called at `now`, when the timers are `table`.
StrategyActs(table, count, now) ==
  \/ timers' = table /\ counted' = count /\ UNCHANGED calls
  \/ /\ calls < MaxCalls
     /\ calls' = calls + 1
     /\ \E id \in TimerIds :
          \/ CancelTimer(table, count, id)
          \/ \E interval \in Intervals : Schedule(table, count, now, id, interval)
-----------------------------------------------------------------------------
(* The engine and its loop.                                                *)

\* on_start, unless an earlier call left the backtest unfinished.  Before the
\* first event the time of the engine is 0.
Begin ==
  IF started THEN UNCHANGED <<timers, calls, counted>>
  ELSE StrategyActs(timers, counted, current_time)

Enter(op, until) ==
  /\ loop = "off"
  /\ runs < MaxRuns
  /\ runs' = runs + 1
  /\ loop' = op /\ end' = until
  /\ started' = TRUE
  /\ Begin
  /\ UNCHANGED <<queue, numbered, current_time, seen>>

Run == Enter("run", 0)
Step == Enter("step", 0)
RunUntil == \E until \in Ends : Enter("until", until)

\* Some callback asks the loop to stop, or it goes on; a step is over after one
\* event.
After == {"off"} \cup (IF loop = "step" THEN {} ELSE {loop})

MayHandle(e) ==
  /\ loop # "off"
  /\ e \in First
  /\ loop = "until" => e.time <= end

HandleMarket(e) ==
  /\ MayHandle(e) /\ e.kind = "Market"
  /\ queue' = (queue \ {e}) \cup TimerEvents(e.time)
  /\ numbered' = numbered + 1
  /\ current_time' = e.time
  /\ seen' = seen \cup {e}
  /\ StrategyActs(AdvancedTimers(e.time), Counted(e.time), e.time)

\* The day markers reach hooks alone: on_end_of_day() is called by nobody.
HandleMarker(e) ==
  /\ MayHandle(e) /\ e.kind \in {"DayStart", "EndOfDay"}
  /\ queue' = queue \ {e}
  /\ current_time' = e.time
  /\ UNCHANGED <<numbered, timers, calls, seen, counted>>

\* on_timer(); the time of the engine is that of the firing, not of the data.
HandleTimer(e) ==
  /\ MayHandle(e) /\ e.kind = "Timer"
  /\ queue' = queue \ {e}
  /\ current_time' = e.time
  /\ IF e.id \in TimerIds
       THEN StrategyActs(timers, counted, e.time)
       ELSE UNCHANGED <<timers, calls, counted>>
  /\ UNCHANGED <<numbered, seen>>

Handle ==
  /\ \E e \in First : HandleMarket(e) \/ HandleMarker(e) \/ HandleTimer(e)
  /\ loop' \in After
  /\ started' = (started /\ ~(loop' = "off" /\ queue' = {}))
  /\ UNCHANGED <<end, runs>>

\* Nothing is left, or nothing up to the end of run_until(); on_stop is called
\* only in the first case.
Finish ==
  /\ loop # "off"
  /\ \A e \in First : loop = "until" /\ e.time > end
  /\ loop' = "off"
  /\ started' = (queue # {})
  /\ UNCHANGED <<queue, numbered, current_time, timers, end, calls, runs, seen, counted>>

Next == Run \/ Step \/ RunUntil \/ Handle \/ Finish

Spec == Init /\ [][Next]_vars
-----------------------------------------------------------------------------
(* Properties.                                                             *)

EventType ==
  [time : Nat, priority : {kSystemPriority, kMarketPriority}, sequence : 0..numbered,
   kind : {"Market", "DayStart", "EndOfDay", "Timer"},
   id : Nat]

TypeOK ==
  /\ queue \subseteq EventType
  /\ numbered \in Nat /\ current_time \in Nat
  /\ DOMAIN timers \subseteq TimerIds
  /\ timers \in [DOMAIN timers -> [interval : Nat, next_fire : Nat]]
  /\ loop \in {"off", "run", "step", "until"} /\ end \in Nat
  /\ started \in BOOLEAN /\ (loop # "off" => started)
  /\ calls \in 0..MaxCalls /\ runs \in 0..MaxRuns
  /\ seen \subseteq MarketEvents
  /\ counted \in [TimerIds -> [start : Nat, fired : Nat]]

\* Timers look at the data and never ahead of it: a firing is pushed no earlier
\* than the data has reached its time.  (It is handled with the time it was due,
\* which may be long past: the clock of the engine goes back for it.)
TimersStayBehindData ==
  \A e \in queue : e.kind = "Timer" /\ e.id \in TimerIds => \E m \in seen : e.time <= m.time

\* However coarse the data, and whatever else is scheduled or cancelled, no period
\* of a timer is left out or counted twice: firings that are late come one with
\* every market event until they have caught up.
NoPeriodIsSkipped ==
  \A id \in DOMAIN timers :
    timers[id].next_fire = counted[id].start + (counted[id].fired + 1) * timers[id].interval

\* Runs may stop and go on anywhere: data of a day is handled only after the day
\* was opened and every earlier day was closed, and in the order of time.  (The
\* day is closed before its last event: both have one time, and markers go first.)
DaysComeInOrder ==
  \A m \in seen, e \in queue :
    /\ e.kind = "Market" => m.time <= e.time
    /\ e.kind = "DayStart" => Day(m.time) < Day(e.time)
    /\ e.kind = "EndOfDay" => Day(m.time) <= Day(e.time)
=============================================================================
