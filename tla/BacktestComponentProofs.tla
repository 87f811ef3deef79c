----------------------- MODULE BacktestComponentProofs -----------------------
(***************************************************************************)
(* Proofs about the components of MCComponents that the backtest uses: its *)
(* clock, stops and margin, limits, the regime, the search for parameters  *)
(* and its two books.  For each, an inductive invariant of the component   *)
(* alone, and in the end the properties that the run of MCComponents       *)
(* checks.                                                                 *)
(***************************************************************************)
EXTENDS MCComponents, SumProofs, FiniteSetTheorems, TLAPS

-----------------------------------------------------------------------------
(***************************************************************************)
(* Simulated time.                                                         *)
(***************************************************************************)
TimersFit(table, count) ==
  /\ DOMAIN table \subseteq ClockTimers
  /\ table \in [DOMAIN table -> [interval : Nat, next_fire : Nat]]
  /\ count \in [ClockTimers -> [start : Nat, fired : Nat]]
  /\ \A id \in DOMAIN table :
       table[id].next_fire = count[id].start + (count[id].fired + 1) * table[id].interval

\* The marker stands at the first data of its day.
OpensADay(e) ==
  /\ e.priority = 0 /\ e.time \in Clock!Times
  /\ \A time \in Clock!Times : Clock!Day(time) = Clock!Day(e.time) => e.time <= time

EventsFit ==
  \A e \in clock_queue :
    /\ e.time \in Nat
    /\ e.kind = "Market" => e \in Clock!MarketEvents
    /\ e.kind = "DayStart" => OpensADay(e)

ClockInv ==
  /\ EventsFit
  /\ clock_seen \subseteq Clock!MarketEvents
  /\ clock_current_time \in Nat
  /\ TimersFit(clock_timers, clock_counted)
  /\ Clock!TimersStayBehindData
  /\ Clock!DaysComeInOrder

\* The times of the market's events are those of the feed.
LEMMA FeedTimes ==
  ASSUME Clock!ClockAssumption
  PROVE  /\ Clock!Times \subseteq Nat /\ Clock!Times # {}
         /\ \A m \in Clock!MarketEvents : m.time \in Clock!Times /\ m.priority = 10 /\ m.kind = "Market"
<1>1. /\ ClockFeed \in Seq([time : Nat, symbol : Nat \ {0}]) /\ Len(ClockFeed) \in Nat \ {0}
      /\ DOMAIN ClockFeed = 1 .. Len(ClockFeed)
  BY DEF Clock!ClockAssumption
<1>2. \A i \in DOMAIN ClockFeed : ClockFeed[i] \in [time : Nat, symbol : Nat \ {0}]
  BY <1>1, ElementOfSeq
<1>3. 1 \in DOMAIN ClockFeed
  BY <1>1
<1> QED  BY <1>2, <1>3 DEF Clock!Times, Clock!MarketEvents, Clock!Event, Clock!kMarketPriority

\* A set of numbers that has a bound has a greatest element.
LEMMA GreatestNumber ==
  ASSUME NEW S, S \subseteq Nat, S # {}, NEW bound \in Nat, \A x \in S : x <= bound
  PROVE  \E x \in S : \A y \in S : y <= x
<1> DEFINE U == {b \in Nat : \A x \in S : x <= b}
<1>1. U \subseteq Nat /\ U # {}
  OBVIOUS
<1>2. PICK b \in U : \A c \in U : ~(c < b)
  <2> HIDE DEF U
  <2> QED  BY <1>1, LeastNumber
<1>3. b \in S
  <2> SUFFICES ASSUME b \notin S PROVE FALSE
    OBVIOUS
  <2>1. \A x \in S : x < b
    BY <1>2
  <2>2. b - 1 \in Nat /\ \A x \in S : x <= b - 1
    <3>1. b \in Nat /\ \A x \in S : x \in Nat
      OBVIOUS
    <3>2. PICK x \in S : x \in Nat /\ x < b
      BY <2>1, <3>1
    <3> HIDE DEF U
    <3>3. \A y \in S : y <= b - 1
      BY <2>1, <3>1
    <3> QED  BY <3>1, <3>2, <3>3
  <2>3. b - 1 \in U /\ b - 1 < b
    BY <2>2
  <2> QED  BY <1>2, <2>3
<1> QED  BY <1>2, <1>3

\* The feed ends.
LEMMA FeedIsBounded ==
  ASSUME Clock!ClockAssumption PROVE \E b \in Nat : \A time \in Clock!Times : time <= b
<1> DEFINE n == Len(ClockFeed)
           T == {k \in 0 .. n : \E b \in Nat : \A i \in 1 .. k : ClockFeed[i].time <= b}
<1>1. n \in Nat /\ DOMAIN ClockFeed = 1 .. n /\ \A i \in 1 .. n : ClockFeed[i].time \in Nat
  <2>1. ClockFeed \in Seq([time : Nat, symbol : Nat \ {0}])
    BY DEF Clock!ClockAssumption
  <2>2. n \in Nat /\ DOMAIN ClockFeed = 1 .. n
    BY <2>1
  <2>3. \A i \in 1 .. n : ClockFeed[i] \in [time : Nat, symbol : Nat \ {0}]
    BY <2>1, <2>2, ElementOfSeq
  <2> QED  BY <2>2, <2>3
<1>2. 0 \in T
  <2>1. 0 \in Nat /\ 0 \in 0 .. n /\ \A i \in 1 .. 0 : ClockFeed[i].time <= 0
    BY <1>1
  <2> QED  BY <2>1
<1>3. ASSUME NEW i \in 0 .. (n - 1), i \in T PROVE i + 1 \in T
  <2>1. PICK b \in Nat : \A j \in 1 .. i : ClockFeed[j].time <= b
    BY <1>3
  <2>2. ClockFeed[i + 1].time \in Nat /\ i + 1 \in 0 .. n /\ 1 .. i + 1 = (1 .. i) \cup {i + 1}
    BY <1>1
  <2> DEFINE c == IF b < ClockFeed[i + 1].time THEN ClockFeed[i + 1].time ELSE b
  <2>3. c \in Nat /\ b <= c /\ ClockFeed[i + 1].time <= c
    BY <2>2
  <2> HIDE DEF c
  <2>4. \A j \in 1 .. i : ClockFeed[j].time <= c
    <3>1. \A j \in 1 .. i : ClockFeed[j].time \in Nat
      BY <1>1
    <3> QED  BY <2>1, <2>3, <3>1
  <2>5. \A j \in 1 .. i + 1 : ClockFeed[j].time <= c
    BY <2>2, <2>3, <2>4
  <2> QED  BY <2>2, <2>3, <2>5
<1> HIDE DEF T
<1>4. 0 .. n \subseteq T
  BY <1>1, <1>2, <1>3, SetInduction
<1>5. n \in T
  BY <1>1, <1>4
<1> QED  BY <1>1, <1>5 DEF T, Clock!Times

\* A later time is on no earlier day.
LEMMA DaysGrow ==
  ASSUME Clock!ClockAssumption, NEW a \in Nat, NEW b \in Nat, a <= b
  PROVE  Clock!Day(a) \in Nat /\ Clock!Day(b) \in Nat /\ Clock!Day(a) <= Clock!Day(b)
<1>1. ClockDayLength \in Nat \ {0}
  BY DEF Clock!ClockAssumption
<1>2. Clock!Day(a) = a \div ClockDayLength /\ Clock!Day(b) = b \div ClockDayLength
  BY DEF Clock!Day
<1>3. a \div ClockDayLength \in Nat /\ b \div ClockDayLength \in Nat
  BY <1>1
<1>4. a \div ClockDayLength <= b \div ClockDayLength
  BY <1>1, Z3
<1> QED  BY <1>2, <1>3, <1>4

\* The markers of a day stand at data of that day.
LEMMA MarkersFit ==
  ASSUME Clock!ClockAssumption, NEW e \in Clock!DayEvents
  PROVE  /\ e.time \in Nat /\ e.kind \in {"DayStart", "EndOfDay"} /\ (e.kind = "DayStart" => OpensADay(e))
<1>1. Clock!Times \subseteq Nat
  BY FeedTimes
<1>2. ASSUME NEW day \in Clock!Days
      PROVE  /\ Clock!Min(Clock!TimesOf(day)) \in Clock!TimesOf(day)
             /\ \A time \in Clock!TimesOf(day) : Clock!Min(Clock!TimesOf(day)) <= time
             /\ Clock!Max(Clock!TimesOf(day)) \in Clock!TimesOf(day)
  <2> DEFINE S == Clock!TimesOf(day)
  <2>1. S \subseteq Nat /\ S # {} /\ S \subseteq Clock!Times
    BY <1>1 DEF Clock!TimesOf, Clock!Days
  <2>2. \E x \in S : \A y \in S : x <= y
    <3>1. PICK x \in S : \A y \in S : ~(y < x)
      <4> HIDE DEF S
      <4> QED  BY <2>1, LeastNumber
    <3> QED  BY <2>1, <3>1
  <2>3. \E x \in S : \A y \in S : y <= x
    <3> HIDE DEF S
    <3>1. PICK b \in Nat : \A time \in Clock!Times : time <= b
      BY FeedIsBounded
    <3> QED  BY <2>1, <3>1, GreatestNumber
  <2>4. S \subseteq Int
    BY <2>1
  <2> HIDE DEF S
  <2>5. Clock!Min(S) \in S /\ \A y \in S : Clock!Min(S) <= y
    BY <2>2 DEF Clock!Min
  <2>6. Clock!Max(S) \in S
    BY <2>3, <2>4 DEF Clock!Max
  <2> QED  BY <2>5, <2>6 DEF S
<1>3. PICK day \in Clock!Days :
        \/ e = Clock!Event(Clock!Min(Clock!TimesOf(day)), Clock!kSystemPriority, 0, "DayStart", day)
        \/ e = Clock!Event(Clock!Max(Clock!TimesOf(day)), Clock!kSystemPriority, 0, "EndOfDay", day)
  BY DEF Clock!DayEvents
<1>4. /\ e.kind \in {"DayStart", "EndOfDay"} /\ e.priority = 0
      /\ e.kind = "DayStart" => e.time = Clock!Min(Clock!TimesOf(day))
      /\ e.kind = "EndOfDay" => e.time = Clock!Max(Clock!TimesOf(day))
  BY <1>3 DEF Clock!Event, Clock!kSystemPriority
<1>5. e.time \in Clock!TimesOf(day)
  BY <1>2, <1>4
<1>6. e.kind = "DayStart" => \A time \in Clock!TimesOf(day) : e.time <= time
  BY <1>2, <1>4
<1> QED  BY <1>1, <1>4, <1>5, <1>6 DEF Clock!TimesOf, OpensADay

\* Whatever a strategy does, its timers and their counts fit.
LEMMA ActsKeep ==
  ASSUME NEW table, NEW count, NEW now \in Nat, Clock!ClockAssumption,
         TimersFit(table, count), Clock!StrategyActs(table, count, now)
  PROVE  TimersFit(clock_timers', clock_counted')
<1>1. CASE clock_timers' = table /\ clock_counted' = count
  BY <1>1
<1>2. ASSUME NEW id \in ClockTimers, Clock!CancelTimer(table, count, id)
      PROVE  TimersFit(clock_timers', clock_counted')
  <2>1. clock_counted' = count /\ clock_timers' = [x \in DOMAIN table \ {id} |-> table[x]]
    BY <1>2 DEF Clock!CancelTimer
  <2>2. \A x \in DOMAIN table : table[x] \in [interval : Nat, next_fire : Nat]
    BY DEF TimersFit
  <2>3. /\ DOMAIN clock_timers' = DOMAIN table \ {id}
        /\ \A x \in DOMAIN clock_timers' : clock_timers'[x] = table[x]
    BY <2>1
  <2>4. clock_timers' \in [DOMAIN clock_timers' -> [interval : Nat, next_fire : Nat]]
    BY <2>1, <2>2
  <2> QED  BY <2>1, <2>3, <2>4 DEF TimersFit
<1>3. ASSUME NEW id \in ClockTimers, NEW interval \in ClockIntervals,
             Clock!Schedule(table, count, now, id, interval)
      PROVE  TimersFit(clock_timers', clock_counted')
  <2>1. /\ clock_timers' = [x \in DOMAIN table \cup {id} |->
                              IF x = id THEN [interval |-> interval, next_fire |-> now + interval]
                              ELSE table[x]]
        /\ clock_counted' = [count EXCEPT ![id] = [start |-> now, fired |-> 0]]
    BY <1>3 DEF Clock!Schedule
  <2>2. interval \in Nat
    BY DEF Clock!ClockAssumption
  <2>3. /\ DOMAIN table \subseteq ClockTimers
        /\ \A x \in DOMAIN table : table[x] \in [interval : Nat, next_fire : Nat]
        /\ count \in [ClockTimers -> [start : Nat, fired : Nat]]
    BY DEF TimersFit
  <2>4. DOMAIN clock_timers' = DOMAIN table \cup {id}
    BY <2>1
  <2>5. clock_timers' \in [DOMAIN clock_timers' -> [interval : Nat, next_fire : Nat]]
    <3>1. [interval |-> interval, next_fire |-> now + interval] \in [interval : Nat, next_fire : Nat]
      BY <2>2
    <3> QED  BY <2>1, <2>3, <3>1
  <2>6. clock_counted' \in [ClockTimers -> [start : Nat, fired : Nat]]
    BY <2>1, <2>3
  <2>7. ASSUME NEW x \in DOMAIN clock_timers'
        PROVE  clock_timers'[x].next_fire
                 = clock_counted'[x].start + (clock_counted'[x].fired + 1) * clock_timers'[x].interval
    <3>1. CASE x = id
      <4>1. clock_timers'[x] = [interval |-> interval, next_fire |-> now + interval]
        BY <2>1, <2>4, <3>1
      <4>2. clock_counted'[x] = [start |-> now, fired |-> 0]
        BY <2>1, <2>3, <3>1
      <4> QED  BY <2>2, <4>1, <4>2
    <3>2. CASE x # id
      <4>1. x \in DOMAIN table /\ x \in ClockTimers /\ clock_timers'[x] = table[x]
        BY <2>1, <2>3, <2>4, <3>2
      <4>2. clock_counted'[x] = count[x]
        BY <2>1, <2>3, <3>2, <4>1
      <4> QED  BY <4>1, <4>2 DEF TimersFit
    <3> QED  BY <3>1, <3>2
  <2> QED  BY <2>3, <2>4, <2>5, <2>6, <2>7 DEF TimersFit
<1> QED  BY <1>1, <1>2, <1>3 DEF Clock!StrategyActs

\* A timer that fires goes on by one interval, and that is counted.
LEMMA FiringIsCounted ==
  ASSUME NEW now \in Nat, TimersFit(clock_timers, clock_counted)
  PROVE  TimersFit(Clock!AdvancedTimers(now), Clock!Counted(now))
<1> DEFINE T == Clock!AdvancedTimers(now)
           C == Clock!Counted(now)
           due == Clock!DueTimers(now)
<1>1. /\ DOMAIN clock_timers \subseteq ClockTimers
      /\ \A x \in DOMAIN clock_timers : clock_timers[x] \in [interval : Nat, next_fire : Nat]
      /\ clock_counted \in [ClockTimers -> [start : Nat, fired : Nat]]
  BY DEF TimersFit
<1>2. due \subseteq DOMAIN clock_timers
  BY DEF Clock!DueTimers
<1>3. /\ DOMAIN T = DOMAIN clock_timers
      /\ \A x \in DOMAIN clock_timers :
           IF x \in due
             THEN /\ T[x].interval = clock_timers[x].interval
                  /\ T[x].next_fire = clock_timers[x].next_fire + clock_timers[x].interval
                  /\ T[x] \in [interval : Nat, next_fire : Nat]
             ELSE T[x] = clock_timers[x]
  <2>1. T = [id \in DOMAIN clock_timers |->
               IF id \in due
                 THEN [clock_timers[id] EXCEPT
                         !.next_fire = clock_timers[id].next_fire + clock_timers[id].interval]
                 ELSE clock_timers[id]]
    BY DEF Clock!AdvancedTimers, Clock!NextFire
  <2> HIDE DEF T, due
  <2> QED  BY <1>1, <2>1
<1>4. /\ C \in [ClockTimers -> [start : Nat, fired : Nat]]
      /\ \A x \in ClockTimers :
           IF x \in due
             THEN C[x].start = clock_counted[x].start /\ C[x].fired = clock_counted[x].fired + 1
             ELSE C[x] = clock_counted[x]
  <2>1. C = [id \in ClockTimers |->
               IF id \in due THEN [clock_counted[id] EXCEPT !.fired = clock_counted[id].fired + 1]
               ELSE clock_counted[id]]
    BY DEF Clock!Counted
  <2> HIDE DEF C, due
  <2> QED  BY <1>1, <2>1
<1> HIDE DEF T, C, due
<1>5. ASSUME NEW x \in DOMAIN T PROVE T[x].next_fire = C[x].start + (C[x].fired + 1) * T[x].interval
  <2>1. x \in DOMAIN clock_timers /\ x \in ClockTimers
    BY <1>1, <1>3
  <2>2. clock_timers[x].next_fire
          = clock_counted[x].start + (clock_counted[x].fired + 1) * clock_timers[x].interval
    BY <2>1 DEF TimersFit
  <2>3. CASE x \in due
    <3> DEFINE i == clock_timers[x].interval
               s == clock_counted[x].start
               f == clock_counted[x].fired
    <3>1. i \in Nat /\ s \in Nat /\ f \in Nat
      BY <1>1, <2>1
    <3>2. /\ T[x].interval = i /\ T[x].next_fire = clock_timers[x].next_fire + i
          /\ C[x].start = s /\ C[x].fired = f + 1
      BY <1>3, <1>4, <2>1, <2>3
    <3>3. clock_timers[x].next_fire = s + (f + 1) * i
      BY <2>2
    <3> HIDE DEF i, s, f
    <3>4. s + (f + 1) * i + i = s + (f + 1 + 1) * i
      BY <3>1
    <3> QED  BY <3>2, <3>3, <3>4
  <2>4. CASE x \notin due
    BY <1>3, <1>4, <2>1, <2>2, <2>4
  <2> QED  BY <2>3, <2>4
<1>6. T \in [DOMAIN T -> [interval : Nat, next_fire : Nat]]
  <2>1. \A x \in DOMAIN T : T[x] \in [interval : Nat, next_fire : Nat]
    BY <1>1, <1>3
  <2>2. T = [x \in DOMAIN T |-> T[x]]
    BY DEF T, Clock!AdvancedTimers
  <2> QED  BY <2>1, <2>2
<1>7. DOMAIN T \subseteq ClockTimers
  BY <1>1, <1>3
<1> QED  BY <1>4, <1>5, <1>6, <1>7 DEF TimersFit, T, C

\* The queue that enqueue_all() makes.
LEMMA ClockStarts ==
  ASSUME Clock!ClockAssumption, Clock!Init PROVE ClockInv
<1>1. Clock!Times \subseteq Nat /\ Clock!Times # {}
  BY FeedTimes
<1>2. ASSUME NEW e \in clock_queue
      PROVE  /\ e.time \in Nat
             /\ e.kind = "Market" => e \in Clock!MarketEvents
             /\ e.kind = "DayStart" => OpensADay(e)
             /\ e.kind = "Timer" => e.id = 0
  <2>1. e \in Clock!MarketEvents \/ e \in Clock!DayEvents \/ e \in Clock!CheckEvents
    BY DEF Clock!Init
  <2>2. CASE e \in Clock!MarketEvents
    BY <1>1, <2>2, FeedTimes
  <2>3. CASE e \in Clock!DayEvents
    BY <2>3, MarkersFit
  <2>4. CASE e \in Clock!CheckEvents
    <3>1. PICK time \in Clock!Min(Clock!Times) + 1 .. Clock!Max(Clock!Times) :
            e = Clock!Event(time, Clock!kSystemPriority, 0, "Timer", 0)
      BY <2>4 DEF Clock!CheckEvents
    <3>2. Clock!Min(Clock!Times) \in Nat
      <4>1. PICK x \in Clock!Times : \A y \in Clock!Times : ~(y < x)
        BY <1>1, LeastNumber
      <4>2. x \in Clock!Times /\ \A y \in Clock!Times : x <= y
        BY <1>1, <4>1
      <4>3. Clock!Min(Clock!Times) \in Clock!Times
        BY <4>2 DEF Clock!Min
      <4> QED  BY <1>1, <4>3
    <3>3. time \in Nat
      BY <3>1, <3>2
    <3> QED  BY <3>1, <3>3 DEF Clock!Event
  <2> QED  BY <2>1, <2>2, <2>3, <2>4
<1>3. clock_seen = {} /\ clock_current_time = 0
  BY DEF Clock!Init
<1>4. Clock!TimersStayBehindData
  <2>1. 0 \notin ClockTimers
    BY DEF Clock!ClockAssumption
  <2> QED  BY <1>2, <2>1 DEF Clock!TimersStayBehindData
<1>5. Clock!DaysComeInOrder
  BY <1>3 DEF Clock!DaysComeInOrder
<1>6. TimersFit(clock_timers, clock_counted)
  <2>1. /\ clock_timers = [id \in {} |-> [interval |-> 0, next_fire |-> 0]]
        /\ clock_counted = [id \in ClockTimers |-> [start |-> 0, fired |-> 0]]
    BY DEF Clock!Init
  <2>2. DOMAIN clock_timers = {}
    BY <2>1
  <2>3. clock_timers \in [{} -> [interval : Nat, next_fire : Nat]]
    BY <2>1
  <2>4. clock_counted \in [ClockTimers -> [start : Nat, fired : Nat]]
    BY <2>1
  <2> QED  BY <2>2, <2>3, <2>4 DEF TimersFit
<1> QED  BY <1>2, <1>3, <1>4, <1>5, <1>6 DEF ClockInv, EventsFit

\* The data that comes first precedes all other data, and the days of the markers
\* that are left have not come.
LEMMA MarketIsKept ==
  ASSUME Clock!ClockAssumption, ClockInv, NEW e \in Clock!First, Clock!HandleMarket(e)
  PROVE  ClockInv'
<1>1. /\ e \in clock_queue /\ e.kind = "Market" /\ \A f \in clock_queue : ~Clock!Before(f, e)
      /\ clock_queue' = (clock_queue \ {e}) \cup Clock!TimerEvents(e.time)
      /\ clock_current_time' = e.time
      /\ clock_seen' = clock_seen \cup {e}
      /\ Clock!StrategyActs(Clock!AdvancedTimers(e.time), Clock!Counted(e.time), e.time)
  BY DEF Clock!HandleMarket, Clock!MayHandle, Clock!First
<1>2. e \in Clock!MarketEvents /\ e.time \in Nat /\ e.time \in Clock!Times /\ e.priority = 10
  BY <1>1, FeedTimes DEF ClockInv, EventsFit
<1>3. ASSUME NEW f \in Clock!TimerEvents(e.time)
      PROVE  f.kind = "Timer" /\ f.time \in Nat /\ f.time <= e.time
  <2>1. PICK id \in Clock!DueTimers(e.time) :
          f = Clock!Event(clock_timers[id].next_fire, Clock!kSystemPriority, clock_numbered, "Timer", id)
    BY DEF Clock!TimerEvents
  <2>2. f.kind = "Timer" /\ f.time = clock_timers[id].next_fire
    BY <2>1 DEF Clock!Event
  <2>3. id \in DOMAIN clock_timers /\ clock_timers[id].next_fire <= e.time
    BY DEF Clock!DueTimers, Clock!IsDue
  <2>4. clock_timers[id].next_fire \in Nat
    BY <2>3 DEF ClockInv, TimersFit
  <2> QED  BY <2>2, <2>3, <2>4
<1>4. TimersFit(clock_timers', clock_counted')
  <2>1. TimersFit(Clock!AdvancedTimers(e.time), Clock!Counted(e.time))
    BY <1>2, FiringIsCounted DEF ClockInv
  <2> QED  BY <1>1, <1>2, <2>1, ActsKeep
<1>5. EventsFit'
  <2> SUFFICES ASSUME NEW f \in clock_queue'
               PROVE  /\ f.time \in Nat
                      /\ f.kind = "Market" => f \in Clock!MarketEvents
                      /\ f.kind = "DayStart" => OpensADay(f)
    BY DEF EventsFit
  <2>1. CASE f \in clock_queue
    BY <2>1 DEF ClockInv, EventsFit
  <2>2. CASE f \in Clock!TimerEvents(e.time)
    BY <1>3, <2>2
  <2> QED  BY <1>1, <2>1, <2>2
<1>6. Clock!TimersStayBehindData'
  <2> SUFFICES ASSUME NEW f \in clock_queue', f.kind = "Timer" /\ f.id \in ClockTimers
               PROVE  \E m \in clock_seen' : f.time <= m.time
    BY DEF Clock!TimersStayBehindData
  <2>1. CASE f \in clock_queue
    <3>1. PICK m \in clock_seen : f.time <= m.time
      BY <2>1 DEF ClockInv, Clock!TimersStayBehindData
    <3> QED  BY <1>1, <3>1
  <2>2. CASE f \in Clock!TimerEvents(e.time)
    BY <1>1, <1>3, <2>2
  <2> QED  BY <1>1, <2>1, <2>2
<1>7. Clock!DaysComeInOrder'
  <2> SUFFICES ASSUME NEW m \in clock_seen', NEW f \in clock_queue'
               PROVE  /\ f.kind = "Market" => m.time <= f.time
                      /\ f.kind = "DayStart" => Clock!Day(m.time) < Clock!Day(f.time)
                      /\ f.kind = "EndOfDay" => Clock!Day(m.time) <= Clock!Day(f.time)
    BY DEF Clock!DaysComeInOrder
  <2>1. CASE f \in Clock!TimerEvents(e.time)
    BY <1>3, <2>1
  <2>2. CASE f \in clock_queue /\ m \in clock_seen
    BY <2>2 DEF ClockInv, Clock!DaysComeInOrder
  <2>3. CASE f \in clock_queue /\ m = e
    <3>1. f.time \in Nat /\ (f.kind = "DayStart" => OpensADay(f))
      BY <2>3 DEF ClockInv, EventsFit
    <3>2. ~(f.time < e.time) /\ ~(f.time = e.time /\ f.priority < e.priority)
      BY <1>1, <2>3 DEF Clock!Before
    <3>3. e.time <= f.time
      BY <1>2, <3>1, <3>2
    <3>4. /\ Clock!Day(e.time) \in Nat /\ Clock!Day(f.time) \in Nat
          /\ Clock!Day(e.time) <= Clock!Day(f.time)
      BY <1>2, <3>1, <3>3, DaysGrow
    <3>5. ASSUME f.kind = "DayStart" PROVE Clock!Day(e.time) # Clock!Day(f.time)
      <4>1. /\ f.priority = 0
            /\ \A time \in Clock!Times : Clock!Day(time) = Clock!Day(f.time) => f.time <= time
        BY <3>1, <3>5 DEF OpensADay
      <4>2. f.time # e.time
        BY <1>2, <3>2, <4>1
      <4>3. ~(f.time <= e.time)
        BY <1>2, <3>1, <3>3, <4>2
      <4> QED  BY <1>2, <4>1, <4>3
    <3> QED  BY <2>3, <3>3, <3>4, <3>5
  <2> QED  BY <1>1, <2>1, <2>2, <2>3
<1>8. clock_seen' \subseteq Clock!MarketEvents /\ clock_current_time' \in Nat
  BY <1>1, <1>2 DEF ClockInv
<1> QED  BY <1>4, <1>5, <1>6, <1>7, <1>8 DEF ClockInv

\* Without new data and with nothing new in the queue, the order is that of before.
LEMMA OrderIsKept ==
  ASSUME ClockInv, clock_queue' \subseteq clock_queue, clock_seen' = clock_seen
  PROVE  EventsFit' /\ Clock!TimersStayBehindData' /\ Clock!DaysComeInOrder'
<1>1. \A e \in clock_queue' : e \in clock_queue
  OBVIOUS
<1>2. EventsFit'
  BY <1>1 DEF ClockInv, EventsFit
<1>3. Clock!TimersStayBehindData'
  BY <1>1 DEF ClockInv, Clock!TimersStayBehindData
<1>4. Clock!DaysComeInOrder'
  BY <1>1 DEF ClockInv, Clock!DaysComeInOrder
<1> QED  BY <1>2, <1>3, <1>4

\* No call of the engine, and nothing that happens in one, breaks the order.
LEMMA ClockSteps ==
  ASSUME Clock!ClockAssumption, ClockInv, Clock!Next PROVE ClockInv'
<1>1. ASSUME NEW op, NEW until, Clock!Enter(op, until) PROVE ClockInv'
  <2>1. clock_queue' = clock_queue /\ clock_seen' = clock_seen /\ clock_current_time' = clock_current_time
    BY <1>1 DEF Clock!Enter
  <2>2. TimersFit(clock_timers', clock_counted')
    <3>1. CASE clock_started
      <4>1. clock_timers' = clock_timers /\ clock_counted' = clock_counted
        BY <1>1, <3>1 DEF Clock!Enter, Clock!Begin
      <4> QED  BY <4>1 DEF ClockInv
    <3>2. CASE ~clock_started
      <4>1. Clock!StrategyActs(clock_timers, clock_counted, clock_current_time)
        BY <1>1, <3>2 DEF Clock!Enter, Clock!Begin
      <4> QED  BY <4>1, ActsKeep DEF ClockInv
    <3> QED  BY <3>1, <3>2
  <2>3. EventsFit' /\ Clock!TimersStayBehindData' /\ Clock!DaysComeInOrder'
    BY <2>1, OrderIsKept
  <2> QED  BY <2>1, <2>2, <2>3 DEF ClockInv
<1>2. ASSUME NEW e \in Clock!First, Clock!HandleMarker(e) PROVE ClockInv'
  <2>1. /\ clock_queue' = clock_queue \ {e} /\ clock_seen' = clock_seen /\ clock_current_time' = e.time
        /\ clock_timers' = clock_timers /\ clock_counted' = clock_counted
    BY <1>2 DEF Clock!HandleMarker
  <2>2. e.time \in Nat
    BY DEF ClockInv, EventsFit, Clock!First
  <2>3. EventsFit' /\ Clock!TimersStayBehindData' /\ Clock!DaysComeInOrder'
    BY <2>1, OrderIsKept
  <2> QED  BY <2>1, <2>2, <2>3 DEF ClockInv
<1>3. ASSUME NEW e \in Clock!First, Clock!HandleTimer(e) PROVE ClockInv'
  <2>1. clock_queue' = clock_queue \ {e} /\ clock_seen' = clock_seen /\ clock_current_time' = e.time
    BY <1>3 DEF Clock!HandleTimer
  <2>2. e.time \in Nat
    BY DEF ClockInv, EventsFit, Clock!First
  <2>3. TimersFit(clock_timers', clock_counted')
    <3>1. CASE e.id \in ClockTimers
      <4>1. Clock!StrategyActs(clock_timers, clock_counted, e.time)
        BY <1>3, <3>1 DEF Clock!HandleTimer
      <4> QED  BY <2>2, <4>1, ActsKeep DEF ClockInv
    <3>2. CASE e.id \notin ClockTimers
      <4>1. clock_timers' = clock_timers /\ clock_counted' = clock_counted
        BY <1>3, <3>2 DEF Clock!HandleTimer
      <4> QED  BY <4>1 DEF ClockInv
    <3> QED  BY <3>1, <3>2
  <2>4. EventsFit' /\ Clock!TimersStayBehindData' /\ Clock!DaysComeInOrder'
    BY <2>1, OrderIsKept
  <2> QED  BY <2>1, <2>2, <2>3, <2>4 DEF ClockInv
<1>4. CASE Clock!Handle
  BY <1>2, <1>3, <1>4, MarketIsKept DEF Clock!Handle
<1>5. CASE Clock!Finish
  <2>1. UNCHANGED <<clock_queue, clock_seen, clock_current_time, clock_timers, clock_counted>>
    BY <1>5 DEF Clock!Finish
  <2> QED  BY <2>1 DEF ClockInv, EventsFit, Clock!TimersStayBehindData, Clock!DaysComeInOrder
<1>6. CASE Clock!Run \/ Clock!Step \/ Clock!RunUntil
  BY <1>1, <1>6 DEF Clock!Run, Clock!Step, Clock!RunUntil
<1> QED  BY <1>4, <1>5, <1>6 DEF Clock!Next

\* The order holds throughout a backtest.
LEMMA ClockIsKept ==
  ASSUME Clock!ClockAssumption PROVE Clock!Spec => []ClockInv
<1>1. Clock!Init => ClockInv
  BY ClockStarts
<1>2. ClockInv /\ [Clock!Next]_Clock!vars => ClockInv'
  <2>1. ASSUME ClockInv, UNCHANGED Clock!vars PROVE ClockInv'
    <3>1. UNCHANGED <<clock_queue, clock_seen, clock_current_time, clock_timers, clock_counted>>
      BY <2>1 DEF Clock!vars
    <3> QED  BY <2>1, <3>1 DEF ClockInv, EventsFit, Clock!TimersStayBehindData, Clock!DaysComeInOrder
  <2> QED  BY <2>1, ClockSteps
<1> QED  BY <1>1, <1>2, PTL DEF Clock!Spec

\* A behaviour of the components has one of the backtest's time in it.
LEMMA TimeRuns == PartsSpec => Clock!Spec
<1>1. PartsInit => Clock!Init
  BY DEF PartsInit
<1>2. [PartsNext]_allVars => [Clock!Next]_(Clock!vars)
  BY DEF PartsNext, Still, allVars, clockVars, Clock!vars
<1> QED  BY <1>1, <1>2, PTL DEF PartsSpec, Clock!Spec

\* Whatever the data, the timers and the calls are: no timer fires ahead of the data,
\* none of its periods is left out or counted twice, and data, days and markers come
\* in the order of time.
THEOREM TimeStaysInOrder == PartsSpec => []TimeIsInOrder
<1>1. Clock!ClockAssumption
  BY PartsAssumption
<1>2. ClockInv => TimeIsInOrder
  BY DEF ClockInv, TimersFit, TimeIsInOrder, TimersStayBehindData, NoPeriodIsSkipped, DaysComeInOrder,
         Clock!NoPeriodIsSkipped
<1> QED  BY <1>1, <1>2, TimeRuns, ClockIsKept, PTL

-----------------------------------------------------------------------------
(***************************************************************************)
(* Stops and margin.  The manager has one order in work at most, and that  *)
(* one reduces the position, as long as nobody else changed the position.  *)
(***************************************************************************)
OrderRecords ==
  [by : {"none", "strategy", "stop"}, quantity : Int, rests : Int, flies : Int, updates : Nat,
   escapes : BOOLEAN]

\* A slot is taken as long as there is anything on the order's way.
Taken(order) ==
  order.by = "none" <=> order.rests = 0 /\ order.flies = 0 /\ order.updates = 0

OrdersFit(os) ==
  /\ os \in [GuardSlots -> OrderRecords]
  /\ \A o \in GuardSlots : Taken(os[o])

\* What the order may still do ends between the position and zero; it rests whole.
Reduces(order, quantity) ==
  /\ order.rests \in {0, order.quantity}
  /\ \/ quantity > 0 /\ order.rests <= 0 /\ order.flies <= 0 /\ order.rests + order.flies >= -quantity
     \/ quantity < 0 /\ order.rests >= 0 /\ order.flies >= 0 /\ order.rests + order.flies <= -quantity
     \/ quantity = 0 /\ order.rests = 0 /\ order.flies = 0

OneExit(os, s, quantity) ==
  \A o \in GuardSlots : os[o].by = "stop" =>
    /\ s.asked \/ quantity = 0
    /\ Reduces(os[o], quantity)
    /\ \A u \in GuardSlots : os[u].by = "stop" => u = o

OnlyEscapesRest(os) ==
  \A o \in GuardSlots : os[o].rests # 0 \/ os[o].updates > 0 => os[o].escapes

StopKnows(s, quantity) == s \in [last : {quantity}, asked : BOOLEAN]

GuardInv ==
  /\ guard_position \in Int
  /\ StopKnows(guard_stop, guard_position)
  /\ OrdersFit(guard_orders)
  /\ guard_account \in [called : BOOLEAN, stoppedOut : BOOLEAN, halted : BOOLEAN]
  /\ guard_disturbed \in BOOLEAN
  /\ ~guard_disturbed => OneExit(guard_orders, guard_stop, guard_position)
  /\ guard_account.halted => OnlyEscapesRest(guard_orders)

\* No order of the manager that was not there, and no more of one that was.
ExitsShrink(after, before) ==
  \A o \in GuardSlots : after[o].by = "stop" =>
    /\ before[o].by = "stop" /\ after[o].flies = before[o].flies
    /\ after[o].quantity = before[o].quantity
    /\ after[o].rests \in {0, before[o].rests}

\* A part of an order is on its side and no larger.
LEMMA PartsAreSmaller ==
  ASSUME NEW n \in Int, NEW q \in Guard!PartsOf(n)
  PROVE  /\ q \in Int /\ n # 0
         /\ n > 0 => q > 0 /\ q <= n
         /\ n < 0 => q < 0 /\ q >= n
BY DEF Guard!PartsOf, Guard!SignOf, Guard!Abs

\* An order of which an event changes some fields is one still.
LEMMA ExecutedOrders ==
  ASSUME NEW order \in OrderRecords, NEW rests \in Int, NEW flies \in Int
  PROVE  [order EXCEPT !.rests = rests, !.flies = flies] \in OrderRecords
BY DEF OrderRecords

\* An order of which an event changes some fields is one still.
LEMMA ReportedOrders ==
  ASSUME NEW order \in OrderRecords, NEW rests \in Int, NEW flies \in Int, NEW updates \in Nat
  PROVE  [order EXCEPT !.rests = rests, !.flies = flies, !.updates = updates] \in OrderRecords
BY DEF OrderRecords

\* An order of which an event changes some fields is one still.
LEMMA EscapingOrders ==
  ASSUME NEW order \in OrderRecords, NEW rests \in Int, NEW escapes \in BOOLEAN
  PROVE  [order EXCEPT !.rests = rests, !.escapes = escapes] \in OrderRecords
BY DEF OrderRecords

\* An order that has nothing on its way is none.
LEMMA KeptOrders ==
  ASSUME NEW order \in OrderRecords,
         order.by = "none" => order.rests = 0 /\ order.flies = 0 /\ order.updates = 0
  PROVE  /\ Guard!Kept(order) \in OrderRecords /\ Taken(Guard!Kept(order))
         /\ Guard!Kept(order).rests = order.rests /\ Guard!Kept(order).flies = order.flies
         /\ Guard!Kept(order).updates = order.updates
         /\ Guard!Kept(order).by # "none" => Guard!Kept(order) = order
BY DEF Guard!Kept, Guard!NoOrder, Guard!OrderOf, OrderRecords, Taken

\* Cancelling leaves nothing at the venue but what is in flight.
LEMMA CancelledOrders ==
  ASSUME NEW os, OrdersFit(os)
  PROVE  LET after == Guard!Cancelled(os)
         IN  OrdersFit(after) /\ ExitsShrink(after, os) /\ OnlyEscapesRest(after)
<1> DEFINE after == Guard!Cancelled(os)
<1>1. ASSUME NEW o \in GuardSlots
      PROVE  /\ after[o] \in OrderRecords /\ Taken(after[o]) /\ after[o].rests = 0
             /\ after[o].updates > 0 => after[o].escapes
             /\ after[o].by = "stop" => /\ os[o].by = "stop" /\ after[o].flies = os[o].flies
                                        /\ after[o].quantity = os[o].quantity
  <2> DEFINE order == [os[o] EXCEPT !.rests = 0, !.escapes = os[o].updates > 0]
  <2>1. after[o] = Guard!Kept(order)
    BY DEF Guard!Cancelled
  <2>2. os[o] \in OrderRecords /\ Taken(os[o])
    BY DEF OrdersFit
  <2>3. /\ order \in OrderRecords /\ order.by = os[o].by /\ order.quantity = os[o].quantity /\ order.rests = 0
        /\ order.flies = os[o].flies /\ order.updates = os[o].updates /\ order.escapes = (os[o].updates > 0)
    <3>1. order \in OrderRecords
      <4>1. 0 \in Int /\ (os[o].updates > 0) \in BOOLEAN
        OBVIOUS
      <4> QED  BY <2>2, <4>1, EscapingOrders
    <3>2. order.by = os[o].by /\ order.quantity = os[o].quantity
      BY <2>2 DEF OrderRecords
    <3>3. order.rests = 0 /\ order.flies = os[o].flies
      BY <2>2 DEF OrderRecords
    <3>4. order.updates = os[o].updates
      BY <2>2 DEF OrderRecords
    <3>5. order.escapes = (os[o].updates > 0)
      BY <2>2 DEF OrderRecords
    <3> HIDE DEF order
    <3> QED  BY <3>1, <3>2, <3>3, <3>4, <3>5
  <2> HIDE DEF order, after
  <2>4. order.by = "none" => order.rests = 0 /\ order.flies = 0 /\ order.updates = 0
    BY <2>2, <2>3 DEF Taken
  <2>5. /\ after[o] \in OrderRecords /\ Taken(after[o]) /\ after[o].rests = 0 /\ after[o].updates = order.updates
        /\ after[o].by # "none" => after[o] = order
    BY <2>1, <2>3, <2>4, KeptOrders
  <2>6. after[o].updates > 0 => after[o].by # "none"
    BY <2>5 DEF Taken
  <2> QED  BY <2>3, <2>5, <2>6
<1>2. after \in [GuardSlots -> OrderRecords]
  <2>1. after = [o \in GuardSlots |-> after[o]]
    BY DEF Guard!Cancelled
  <2> HIDE DEF after
  <2> QED  BY <1>1, <2>1
<1> HIDE DEF after
<1>3. OrdersFit(after) /\ ExitsShrink(after, os) /\ OnlyEscapesRest(after)
  BY <1>1, <1>2 DEF OrdersFit, ExitsShrink, OnlyEscapesRest
<1> QED  BY <1>3 DEF after

\* submit_order() leaves the table as it is, or takes one free slot unless trading
\* is halted.
TakesASlot(after, before, order) ==
  \E o \in GuardSlots :
    /\ before[o].by = "none" /\ after[o] = order
    /\ \A u \in GuardSlots : u # o => after[u] = before[u]

\* A submission takes a free slot, or a halted account refuses it.
LEMMA SubmittedOrders ==
  ASSUME NEW held, NEW halted, NEW os, OrdersFit(os), NEW by \in {"strategy", "stop"},
         NEW quantity \in Int \ {0}, NEW escapes \in BOOLEAN,
         NEW after \in Guard!Submitted(held, halted, os, by, quantity, escapes)
  PROVE  /\ OrdersFit(after)
         /\ \/ after = os /\ halted
            \/ ~halted /\ TakesASlot(after, os, Guard!OrderOf(by, quantity, escapes))
<1> DEFINE order == Guard!OrderOf(by, quantity, escapes)
<1>1. CASE halted
  BY <1>1 DEF Guard!Submitted
<1>2. CASE ~halted
  <2>1. PICK o \in GuardSlots : os[o].by = "none" /\ after = [os EXCEPT ![o] = order]
    BY <1>2 DEF Guard!Submitted
  <2>2. order \in OrderRecords /\ Taken(order)
    BY DEF OrderRecords, Taken, Guard!OrderOf
  <2> HIDE DEF order
  <2>3. OrdersFit(after)
    BY <2>1, <2>2 DEF OrdersFit
  <2>4. TakesASlot(after, os, order)
    BY <2>1 DEF OrdersFit, TakesASlot
  <2> QED  BY <1>2, <2>3, <2>4 DEF order
<1> QED  BY <1>1, <1>2

\* What the strategy does when it is told adds no order of the manager, and no order
\* that rests without being marked.
LEMMA CallbacksKeepExits ==
  ASSUME Guard!AccountGuardAssumption, NEW held, NEW os, OrdersFit(os), NEW told,
         NEW after \in Guard!AfterCallbacks(held, os, told)
  PROVE  OrdersFit(after) /\ ExitsShrink(after, os) /\ (OnlyEscapesRest(os) => OnlyEscapesRest(after))
<1>1. CASE after = os
  BY <1>1 DEF ExitsShrink
<1>2. CASE after # os
  <2>1. PICK q \in GuardTrades : after \in Guard!Submitted(held, guard_account.halted, os, "strategy", q, TRUE)
    BY <1>2 DEF Guard!AfterCallbacks
  <2>2. OrdersFit(after) /\ TakesASlot(after, os, Guard!OrderOf("strategy", q, TRUE))
    <3>1. q \in Int \ {0} /\ TRUE \in BOOLEAN /\ "strategy" \in {"strategy", "stop"}
      BY DEF Guard!AccountGuardAssumption
    <3> QED  BY <1>2, <2>1, <3>1, SubmittedOrders
  <2> QED  BY <2>2 DEF TakesASlot, ExitsShrink, OnlyEscapesRest, Guard!OrderOf
<1> QED  BY <1>1, <1>2

\* Exits that shrink and shrink again have shrunk.
LEMMA ExitsShrinkOn ==
  ASSUME NEW a, NEW b, NEW c, ExitsShrink(a, b), ExitsShrink(b, c) PROVE ExitsShrink(a, c)
BY DEF ExitsShrink

\* evaluate_account_state(): what it leaves of the orders.
LEMMA CallKeepsExits ==
  ASSUME Guard!AccountGuardAssumption, NEW held, NEW os, OrdersFit(os), NEW call \in BOOLEAN,
         NEW after \in Guard!OrdersAfterCall(held, os, call)
  PROVE  /\ OrdersFit(after) /\ ExitsShrink(after, os) /\ (OnlyEscapesRest(os) => OnlyEscapesRest(after))
         /\ call /\ ~guard_account.called /\ MarginCallAction = "halt" => OnlyEscapesRest(after)
<1>1. CASE call /\ ~guard_account.called /\ MarginCallAction \in {"cancel", "halt"}
  <2>1. after \in Guard!AfterCallbacks(held, Guard!Cancelled(os), Guard!HasOrders(os))
    BY <1>1 DEF Guard!OrdersAfterCall
  <2>2. OrdersFit(Guard!Cancelled(os)) /\ ExitsShrink(Guard!Cancelled(os), os) /\ OnlyEscapesRest(Guard!Cancelled(os))
    BY CancelledOrders
  <2> QED  BY <2>1, <2>2, CallbacksKeepExits, ExitsShrinkOn
<1>2. CASE ~(call /\ ~guard_account.called /\ MarginCallAction \in {"cancel", "halt"})
  BY <1>2 DEF Guard!OrdersAfterCall, ExitsShrink
<1> QED  BY <1>1, <1>2

\* A stop that has seen the position knows it after a fill.
LEMMA StopAfterKnows ==
  ASSUME NEW q \in Int, NEW s, s.asked \in BOOLEAN, NEW p \in Int, s.last = p PROVE StopKnows(Guard!StopAfter(s, q), q)
BY DEF StopKnows, Guard!StopAfter

EvaluationFits(r, quantity, s, os) ==
  /\ r.position \in Int /\ StopKnows(r.stop, r.position)
  /\ OrdersFit(r.orders) /\ ExitsShrink(r.orders, os)
  /\ r.account \in [called : BOOLEAN, stoppedOut : BOOLEAN, halted : BOOLEAN]
  /\ r.liquidates \in BOOLEAN
  /\ ~r.liquidates => r.position = quantity /\ r.stop = s
  /\ (guard_account.halted => OnlyEscapesRest(os)) /\ r.account.halted => OnlyEscapesRest(r.orders)

\* The account's evaluation after a fill or a price leaves what fits.
LEMMA EvaluatedFits ==
  ASSUME Guard!AccountGuardAssumption, GuardInv, NEW quantity \in Int, NEW s, StopKnows(s, quantity), NEW os, OrdersFit(os),
         NEW r \in Guard!Evaluated(quantity, s, os)
  PROVE  EvaluationFits(r, quantity, s, os)
<1>1. PICK margin \in BOOLEAN \X BOOLEAN :
        LET call == margin[1]
            out == margin[2]
            haltedByCall == call /\ ~guard_account.called /\ MarginCallAction = "halt"
            liquidates == out /\ ~guard_account.stoppedOut /\ MarginStopOutAction = "liquidate"
            state == [called |-> call, stoppedOut |-> out,
                      halted |-> guard_account.halted \/ haltedByCall \/ (liquidates /\ HaltAtStopOut)]
            Of(q, os2) == [position |-> q, stop |-> IF q = quantity THEN s ELSE Guard!StopAfter(s, q),
                           orders |-> os2, account |-> state, liquidates |-> liquidates]
        IN  r \in IF ~liquidates
          THEN {Of(quantity, os2) : os2 \in Guard!OrdersAfterCall(quantity, os, call)}
          ELSE UNION {{Of(x[2], os2) :
                         os2 \in Guard!AfterCallbacks(quantity, Guard!Cancelled(x[1]),
                                  ~haltedByCall /\ (Guard!HasOrders(x[1]) \/ x[2] # quantity))} :
                        x \in Guard!OrdersAfterCall(quantity, os, call) \X Guard!LeftOver(quantity)}
  BY DEF Guard!Evaluated
<1> DEFINE call == margin[1]
           out == margin[2]
           haltedByCall == call /\ ~guard_account.called /\ MarginCallAction = "halt"
           liquidates == out /\ ~guard_account.stoppedOut /\ MarginStopOutAction = "liquidate"
           state == [called |-> call, stoppedOut |-> out,
                     halted |-> guard_account.halted \/ haltedByCall \/ (liquidates /\ HaltAtStopOut)]
           Of(q, os2) == [position |-> q, stop |-> IF q = quantity THEN s ELSE Guard!StopAfter(s, q),
                          orders |-> os2, account |-> state, liquidates |-> liquidates]
<1>2. call \in BOOLEAN /\ out \in BOOLEAN /\ haltedByCall \in BOOLEAN /\ liquidates \in BOOLEAN /\ HaltAtStopOut \in BOOLEAN
      /\ state \in [called : BOOLEAN, stoppedOut : BOOLEAN, halted : BOOLEAN]
  BY DEF GuardInv, Guard!AccountGuardAssumption
<1>3. CASE ~liquidates
  <2>1. PICK os2 \in Guard!OrdersAfterCall(quantity, os, call) : r = Of(quantity, os2)
    BY <1>1, <1>3
  <2>2. /\ OrdersFit(os2) /\ ExitsShrink(os2, os) /\ (OnlyEscapesRest(os) => OnlyEscapesRest(os2))
        /\ haltedByCall => OnlyEscapesRest(os2)
    BY <1>2, CallKeepsExits
  <2>3. /\ r.position = quantity /\ r.stop = s /\ r.orders = os2 /\ r.account = state /\ r.liquidates = FALSE
        /\ r.account.halted => guard_account.halted \/ haltedByCall
    BY <2>1, <1>3, <1>2
  <2> HIDE DEF state, haltedByCall
  <2> QED  BY <1>2, <2>2, <2>3 DEF EvaluationFits
<1>4. CASE liquidates
  <2>1. PICK os1 \in Guard!OrdersAfterCall(quantity, os, call), q \in Guard!LeftOver(quantity) :
          \E os2 \in Guard!AfterCallbacks(quantity, Guard!Cancelled(os1),
                                  ~haltedByCall /\ (Guard!HasOrders(os1) \/ q # quantity)) : r = Of(q, os2)
    <3>. DEFINE Told(x) == ~haltedByCall /\ (Guard!HasOrders(x[1]) \/ x[2] # quantity)
    <3>1. PICK x \in Guard!OrdersAfterCall(quantity, os, call) \X Guard!LeftOver(quantity) :
            \E os2 \in Guard!AfterCallbacks(quantity, Guard!Cancelled(x[1]), Told(x)) : r = Of(x[2], os2)
      BY <1>1, <1>4
    <3>2. x[1] \in Guard!OrdersAfterCall(quantity, os, call) /\ x[2] \in Guard!LeftOver(quantity)
      OBVIOUS
    <3> QED  BY <3>1, <3>2
  <2>2. PICK os2 \in Guard!AfterCallbacks(quantity, Guard!Cancelled(os1),
                                  ~haltedByCall /\ (Guard!HasOrders(os1) \/ q # quantity)) : r = Of(q, os2)
    BY <2>1
  <2>3. OrdersFit(os1) /\ ExitsShrink(os1, os)
    BY <1>2, CallKeepsExits
  <2>4. OrdersFit(Guard!Cancelled(os1)) /\ ExitsShrink(Guard!Cancelled(os1), os1) /\ OnlyEscapesRest(Guard!Cancelled(os1))
    BY <2>3, CancelledOrders
  <2>5. OrdersFit(os2) /\ ExitsShrink(os2, os) /\ OnlyEscapesRest(os2)
    BY <2>3, <2>4, CallbacksKeepExits, ExitsShrinkOn
  <2>6. q \in Int /\ StopKnows(IF q = quantity THEN s ELSE Guard!StopAfter(s, q), q)
    <3>1. q \in Int
      <4>1. PICK sold \in Guard!PartsOf(quantity) \cup {0} : q = quantity - sold
        BY DEF Guard!LeftOver
      <4> QED BY <4>1, PartsAreSmaller
    <3> QED  BY <3>1, StopAfterKnows DEF StopKnows
  <2>7. /\ r.position = q /\ r.stop = (IF q = quantity THEN s ELSE Guard!StopAfter(s, q)) /\ r.orders = os2
        /\ r.account = state /\ r.liquidates = TRUE
    BY <2>2, <1>4, <1>2
  <2> HIDE DEF state
  <2> QED  BY <1>2, <2>5, <2>6, <2>7 DEF EvaluationFits
<1> QED  BY <1>3, <1>4

\* After an event: what is left of the orders of the manager still reduces the position.
LEMMA BecomeStep ==
  ASSUME GuardInv, NEW quantity \in Int, NEW s, StopKnows(s, quantity), NEW os, OrdersFit(os),
         NEW r, EvaluationFits(r, quantity, s, os), NEW byOthers \in BOOLEAN, Guard!Become(r, byOthers),
         guard_account.halted => OnlyEscapesRest(os),
         ~guard_disturbed /\ ~byOthers => OneExit(os, s, quantity)
  PROVE  GuardInv'
<1>1. /\ guard_position' = r.position /\ guard_stop' = r.stop /\ guard_orders' = r.orders /\ guard_account' = r.account
      /\ guard_disturbed' = (Guard!ExitsIn(r.orders) # {} /\ (guard_disturbed \/ byOthers \/ r.liquidates))
  BY DEF Guard!Become
<1>2. guard_disturbed' \in BOOLEAN
  BY <1>1
<1>3. ASSUME ~guard_disturbed' PROVE OneExit(r.orders, r.stop, r.position)
  <2>1. CASE Guard!ExitsIn(r.orders) = {}
    BY <2>1 DEF Guard!ExitsIn, OneExit
  <2>2. CASE Guard!ExitsIn(r.orders) # {}
    <3>1. ~guard_disturbed /\ ~byOthers /\ ~r.liquidates
      BY <1>1, <1>3, <2>2
    <3>2. OneExit(os, s, quantity) /\ r.position = quantity /\ r.stop = s /\ ExitsShrink(r.orders, os)
      BY <3>1 DEF EvaluationFits
    <3>3. ASSUME NEW o \in GuardSlots, r.orders[o].by = "stop"
          PROVE  (s.asked \/ quantity = 0) /\ Reduces(r.orders[o], quantity) /\ \A u \in GuardSlots : r.orders[u].by = "stop" => u = o
      <4>1. /\ os[o].by = "stop" /\ r.orders[o].flies = os[o].flies /\ r.orders[o].rests \in {0, os[o].rests}
            /\ r.orders[o].quantity = os[o].quantity
            /\ \A u \in GuardSlots : r.orders[u].by = "stop" => os[u].by = "stop"
        BY <3>2, <3>3 DEF ExitsShrink
      <4>2. (s.asked \/ quantity = 0) /\ Reduces(os[o], quantity) /\ \A u \in GuardSlots : os[u].by = "stop" => u = o
        BY <3>2, <4>1 DEF OneExit
      <4>3. os[o].rests \in Int /\ os[o].flies \in Int
        BY DEF OrdersFit, OrderRecords
      <4> QED  BY <4>1, <4>2, <4>3 DEF Reduces
    <3> QED  BY <3>2, <3>3 DEF OneExit
  <2> QED  BY <2>1, <2>2
<1>4. guard_account'.halted => OnlyEscapesRest(guard_orders')
  BY <1>1 DEF EvaluationFits
<1> QED  BY <1>1, <1>2, <1>3, <1>4 DEF EvaluationFits, GuardInv

\* The strategy submits an order.
LEMMA TradeStep == ASSUME Guard!AccountGuardAssumption, GuardInv, Guard!Trade PROVE GuardInv'
<1>1. PICK q \in GuardTrades :
        guard_orders' \in Guard!Submitted(guard_position, guard_account.halted, guard_orders, "strategy", q, FALSE)
  BY DEF Guard!Trade
<1>2. UNCHANGED <<guard_position, guard_stop, guard_account, guard_disturbed>>
  BY DEF Guard!Trade
<1>3. q \in Int \ {0} /\ FALSE \in BOOLEAN /\ "strategy" \in {"strategy", "stop"} /\ OrdersFit(guard_orders)
  BY DEF GuardInv, Guard!AccountGuardAssumption
<1>4. /\ OrdersFit(guard_orders')
      /\ \/ guard_orders' = guard_orders /\ guard_account.halted
         \/ ~guard_account.halted /\ TakesASlot(guard_orders', guard_orders, Guard!OrderOf("strategy", q, FALSE))
  BY <1>1, <1>3, SubmittedOrders
<1>5. OneExit(guard_orders, guard_stop, guard_position) => OneExit(guard_orders', guard_stop, guard_position)
  BY <1>4 DEF TakesASlot, OneExit, Guard!OrderOf
<1> QED  BY <1>2, <1>4, <1>5 DEF GuardInv, StopKnows

\* An event of one order keeps the invariant when the order keeps its owner, does not
\* come back to life, and still reduces the position if it is an exit.
LEMMA OrderStep ==
  ASSUME GuardInv, NEW o \in GuardSlots, NEW after \in OrderRecords, Taken(after),
         guard_orders' = [guard_orders EXCEPT ![o] = after], UNCHANGED <<guard_position, guard_stop, guard_account>>,
         guard_disturbed' \in BOOLEAN,
         after.by # "none" => after.by = guard_orders[o].by /\ after.escapes = guard_orders[o].escapes,
         after.by # "none" /\ (after.rests # 0 \/ after.updates > 0)
           => guard_orders[o].rests # 0 \/ guard_orders[o].updates > 0,
         ~guard_disturbed' /\ Guard!ExitsIn(guard_orders') # {}
           => ~guard_disturbed /\ (after.by = "stop" => \A p \in Int : Reduces(guard_orders[o], p) => Reduces(after, p))
  PROVE  GuardInv'
<1>1. OrdersFit(guard_orders)
  BY DEF GuardInv
<1>2. \A u \in GuardSlots : guard_orders'[u] = IF u = o THEN after ELSE guard_orders[u]
  BY <1>1 DEF OrdersFit
<1>3. OrdersFit(guard_orders')
  BY <1>1 DEF OrdersFit
<1>4. OnlyEscapesRest(guard_orders) => OnlyEscapesRest(guard_orders')
  BY <1>2 DEF OnlyEscapesRest, Taken
<1>5. ~guard_disturbed' => OneExit(guard_orders', guard_stop, guard_position)
  <2> SUFFICES ASSUME ~guard_disturbed' PROVE OneExit(guard_orders', guard_stop, guard_position)
    OBVIOUS
  <2>1. CASE Guard!ExitsIn(guard_orders') = {}
    BY <2>1 DEF Guard!ExitsIn, OneExit
  <2>2. CASE Guard!ExitsIn(guard_orders') # {}
    <3>1. OneExit(guard_orders, guard_stop, guard_position) /\ guard_position \in Int
      BY <2>2 DEF GuardInv
    <3>2. after.by = "stop" => guard_orders[o].by = "stop" /\ \A p \in Int : Reduces(guard_orders[o], p) => Reduces(after, p)
      BY <2>2
    <3> QED  BY <1>2, <3>1, <3>2 DEF OneExit
  <2> QED  BY <2>1, <2>2
<1> QED  BY <1>3, <1>4, <1>5 DEF GuardInv, StopKnows

\* What an event of one order starts from.
LEMMA TheOrder ==
  ASSUME GuardInv, NEW o \in GuardSlots
  PROVE  /\ guard_orders[o] \in OrderRecords /\ Taken(guard_orders[o]) /\ guard_disturbed \in BOOLEAN
         /\ DOMAIN guard_orders = GuardSlots
         /\ guard_orders[o].rests \in Int /\ guard_orders[o].flies \in Int /\ guard_orders[o].updates \in Nat
BY DEF GuardInv, OrdersFit, OrderRecords

\* An order that executes and is done with keeps what it found in flight.
LEMMA ExecuteStep == ASSUME GuardInv, NEW o \in GuardSlots, Guard!Execute(o) PROVE GuardInv'
<1> DEFINE before == guard_orders[o]
<1>1. PICK q \in Guard!PartsOf(before.rests) \cup {0} :
        guard_orders' = [guard_orders EXCEPT ![o] = Guard!Kept([guard_orders[o] EXCEPT !.rests = 0, !.flies = @ + q])]
  BY DEF Guard!Execute
<1> DEFINE order == [before EXCEPT !.rests = 0, !.flies = before.flies + q]
           after == Guard!Kept(order)
<1>2. /\ UNCHANGED <<guard_position, guard_stop, guard_account>> /\ before.rests # 0
      /\ guard_disturbed' = (guard_disturbed /\ Guard!ExitsIn(guard_orders') # {})
  BY DEF Guard!Execute
<1>3. before \in OrderRecords /\ Taken(before) /\ before.rests \in Int /\ before.flies \in Int /\ guard_disturbed \in BOOLEAN
  BY TheOrder
<1>4. /\ q \in Int
      /\ before.rests > 0 => q >= 0 /\ q <= before.rests
      /\ before.rests < 0 => q <= 0 /\ q >= before.rests
  BY <1>1, <1>3, PartsAreSmaller
<1>5. guard_orders' = [guard_orders EXCEPT ![o] = after]
  BY <1>1
<1>6. /\ order \in OrderRecords /\ order.by = before.by /\ order.rests = 0 /\ order.flies = before.flies + q
      /\ order.updates = before.updates /\ order.escapes = before.escapes /\ order.quantity = before.quantity
  <2> HIDE DEF before
  <2>1. order \in OrderRecords
    <3>1. 0 \in Int /\ before.flies + q \in Int
      BY <1>3, <1>4
    <3> QED  BY <1>3, <3>1, ExecutedOrders
  <2>2. order.by = before.by /\ order.quantity = before.quantity
    BY <1>3 DEF OrderRecords
  <2>3. order.rests = 0
    BY <1>3 DEF OrderRecords
  <2>4. order.flies = before.flies + q
    BY <1>3 DEF OrderRecords
  <2>5. order.updates = before.updates
    BY <1>3 DEF OrderRecords
  <2>6. order.escapes = before.escapes
    BY <1>3 DEF OrderRecords
  <2> HIDE DEF order
  <2> QED  BY <2>1, <2>2, <2>3, <2>4, <2>5, <2>6
<1> HIDE DEF order, before
<1>7. before.by # "none"
  BY <1>2, <1>3 DEF Taken
<1>8. after \in OrderRecords /\ Taken(after) /\ (after.by # "none" => after = order)
  BY <1>6, <1>7, KeptOrders
<1>9. \A p \in Int : Reduces(before, p) => Reduces(order, p)
  BY <1>2, <1>3, <1>4, <1>6 DEF Reduces
<1> HIDE DEF after
<1>10. guard_disturbed' \in BOOLEAN
  BY <1>2
<1>11. ~guard_disturbed' /\ Guard!ExitsIn(guard_orders') # {} => ~guard_disturbed
  BY <1>2
<1> QED  BY <1>2, <1>5, <1>6, <1>8, <1>9, <1>10, <1>11, OrderStep DEF before

\* A limit order that executes in part is the strategy's.
LEMMA ExecuteSomeStep == ASSUME GuardInv, NEW o \in GuardSlots, Guard!ExecuteSome(o) PROVE GuardInv'
<1> DEFINE before == guard_orders[o]
<1>1. PICK q \in (Guard!PartsOf(before.rests) \cup {0}) \ {before.rests} :
        guard_orders' = [guard_orders EXCEPT ![o].rests = @ - q, ![o].flies = @ + q, ![o].updates = @ + 1]
  BY DEF Guard!ExecuteSome
<1> DEFINE after == [before EXCEPT !.rests = before.rests - q, !.flies = before.flies + q, !.updates = before.updates + 1]
<1>2. UNCHANGED <<guard_position, guard_stop, guard_account, guard_disturbed>> /\ before.by = "strategy"
  BY DEF Guard!ExecuteSome
<1>3. /\ before \in OrderRecords /\ before.rests \in Int /\ before.flies \in Int /\ before.updates \in Nat
      /\ guard_disturbed \in BOOLEAN /\ DOMAIN guard_orders = GuardSlots
  BY TheOrder
<1>4. q \in Int /\ before.rests # 0 /\ before.rests # q
  BY <1>1, <1>3, PartsAreSmaller
<1>5. guard_orders' = [guard_orders EXCEPT ![o] = after]
  BY <1>1, <1>3
<1>6. after \in OrderRecords /\ after.by = before.by /\ after.escapes = before.escapes /\ after.updates = before.updates + 1
  <2> HIDE DEF before
  <2>1. after \in OrderRecords
    <3>1. before.rests - q \in Int /\ before.flies + q \in Int /\ before.updates + 1 \in Nat
      BY <1>3, <1>4
    <3> QED  BY <1>3, <3>1, ReportedOrders
  <2>2. after.by = before.by
    BY <1>3 DEF OrderRecords
  <2>3. after.escapes = before.escapes
    BY <1>3 DEF OrderRecords
  <2>4. after.updates = before.updates + 1
    BY <1>3 DEF OrderRecords
  <2> HIDE DEF after
  <2> QED  BY <2>1, <2>2, <2>3, <2>4
<1> HIDE DEF after, before
<1>7. Taken(after)
  BY <1>2, <1>3, <1>6 DEF Taken
<1> QED  BY <1>2, <1>3, <1>4, <1>5, <1>6, <1>7, OrderStep DEF before

\* A requote only queues an Update.
LEMMA RequoteStep == ASSUME GuardInv, NEW o \in GuardSlots, Guard!Requote(o) PROVE GuardInv'
<1> DEFINE before == guard_orders[o]
           after == [before EXCEPT !.updates = before.updates + 1]
<1>1. /\ UNCHANGED <<guard_position, guard_stop, guard_account, guard_disturbed>> /\ before.rests # 0
      /\ guard_orders' = [guard_orders EXCEPT ![o].updates = @ + 1]
  BY DEF Guard!Requote
<1>2. before \in OrderRecords /\ Taken(before) /\ before.updates \in Nat /\ guard_disturbed \in BOOLEAN /\ DOMAIN guard_orders = GuardSlots
  BY TheOrder
<1>3. guard_orders' = [guard_orders EXCEPT ![o] = after]
  BY <1>1, <1>2
<1>4. /\ after \in OrderRecords /\ after.by = before.by /\ after.escapes = before.escapes /\ after.rests = before.rests
      /\ after.flies = before.flies /\ after.quantity = before.quantity /\ after.updates = before.updates + 1
  BY <1>2 DEF OrderRecords
<1> HIDE DEF after, before
<1>5. Taken(after) /\ \A p \in Int : Reduces(before, p) => Reduces(after, p)
  BY <1>1, <1>2, <1>4 DEF Taken, Reduces
<1> QED  BY <1>1, <1>2, <1>3, <1>4, <1>5, OrderStep DEF before

\* An Update hands an exit to the pipeline again whole: nothing of it was executed, unless
\* the position counts as disturbed.
LEMMA ReopenStep == ASSUME GuardInv, NEW o \in GuardSlots, Guard!Reopen(o) PROVE GuardInv'
<1> DEFINE before == guard_orders[o]
<1>1. PICK left \in {before.quantity, before.rests, 0} :
        guard_orders' = [guard_orders EXCEPT ![o] = Guard!Kept([guard_orders[o] EXCEPT !.rests = left, !.updates = @ - 1])]
  BY DEF Guard!Reopen
<1> DEFINE order == [before EXCEPT !.rests = left, !.updates = before.updates - 1]
           after == Guard!Kept(order)
<1>2. /\ UNCHANGED <<guard_position, guard_stop, guard_account>> /\ before.updates > 0
      /\ guard_disturbed' = ( /\ Guard!ExitsIn(guard_orders') # {}
                              /\ guard_disturbed \/ (before.by = "stop" /\ before.rests = 0))
  BY DEF Guard!Reopen
<1>3. /\ before \in OrderRecords /\ Taken(before) /\ before.rests \in Int /\ before.flies \in Int /\ before.updates \in Nat
      /\ before.quantity \in Int /\ guard_disturbed \in BOOLEAN
  BY TheOrder DEF OrderRecords
<1>4. left \in Int /\ before.updates - 1 \in Nat
  BY <1>2, <1>3
<1>5. guard_orders' = [guard_orders EXCEPT ![o] = after]
  BY <1>1
<1>6. /\ order \in OrderRecords /\ order.by = before.by /\ order.rests = left /\ order.flies = before.flies
      /\ order.escapes = before.escapes /\ order.quantity = before.quantity
  BY <1>3, <1>4 DEF OrderRecords
<1> HIDE DEF order, before
<1>7. before.by # "none"
  BY <1>2, <1>3 DEF Taken
<1>8. after \in OrderRecords /\ Taken(after) /\ (after.by # "none" => after = order)
  BY <1>6, <1>7, KeptOrders
<1>9. before.rests # 0 => \A p \in Int : Reduces(before, p) => Reduces(order, p)
  BY <1>1, <1>3, <1>6 DEF Reduces
<1> HIDE DEF after
<1>10. guard_disturbed' \in BOOLEAN
  BY <1>2
<1>11. ~guard_disturbed' /\ Guard!ExitsIn(guard_orders') # {} => ~guard_disturbed /\ (before.by = "stop" => before.rests # 0)
  BY <1>2
<1> QED  BY <1>2, <1>5, <1>6, <1>8, <1>9, <1>10, <1>11, OrderStep DEF before

\* An order that is cancelled keeps what is executed of it already.
LEMMA CancelStep == ASSUME GuardInv, NEW o \in GuardSlots, Guard!Cancel(o) PROVE GuardInv'
<1> DEFINE before == guard_orders[o]
           order == [before EXCEPT !.rests = 0]
           after == Guard!Kept(order)
<1>1. /\ guard_orders' = [guard_orders EXCEPT ![o] = after] /\ before.rests # 0
      /\ guard_disturbed' = (guard_disturbed /\ Guard!ExitsIn(guard_orders') # {})
      /\ UNCHANGED <<guard_position, guard_stop, guard_account>>
  BY DEF Guard!Cancel
<1>2. before \in OrderRecords /\ Taken(before) /\ before.rests \in Int /\ before.flies \in Int /\ guard_disturbed \in BOOLEAN
  BY TheOrder
<1>3. /\ order \in OrderRecords /\ order.by = before.by /\ order.rests = 0 /\ order.flies = before.flies
      /\ order.updates = before.updates /\ order.escapes = before.escapes /\ order.quantity = before.quantity
  BY <1>2 DEF OrderRecords
<1> HIDE DEF order, before
<1>4. before.by # "none"
  BY <1>1, <1>2 DEF Taken
<1>5. after \in OrderRecords /\ Taken(after) /\ (after.by # "none" => after = order)
  BY <1>3, <1>4, KeptOrders
<1>6. \A p \in Int : Reduces(before, p) => Reduces(order, p)
  BY <1>2, <1>3 DEF Reduces
<1> HIDE DEF after
<1>7. guard_disturbed' \in BOOLEAN
  BY <1>1
<1>8. ~guard_disturbed' /\ Guard!ExitsIn(guard_orders') # {} => ~guard_disturbed
  BY <1>1
<1> QED  BY <1>1, <1>3, <1>5, <1>6, <1>7, <1>8, OrderStep DEF before

\* A fill of the manager's own order brings the position nearer to zero by what the
\* order has less; one that reaches zero ends the order.
LEMMA FillStep == ASSUME Guard!AccountGuardAssumption, GuardInv, NEW o \in GuardSlots, Guard!Fill(o) PROVE GuardInv'
<1>1. PICK q \in Guard!PartsOf(guard_orders[o].flies) :
        \E r \in Guard!Evaluated(guard_position + q, Guard!StopAfter(guard_stop, guard_position + q),
                           [guard_orders EXCEPT ![o] = Guard!Kept([guard_orders[o] EXCEPT !.flies = @ - q])]) :
          Guard!Become(r, guard_orders[o].by # "stop")
  BY DEF Guard!Fill
<1> DEFINE before == guard_orders[o]
           after == Guard!Kept([before EXCEPT !.flies = @ - q])
           os == [guard_orders EXCEPT ![o] = after]
           held == guard_position + q
           s == Guard!StopAfter(guard_stop, held)
<1>2. before \in OrderRecords /\ Taken(before) /\ OrdersFit(guard_orders) /\ guard_position \in Int
  BY DEF GuardInv, OrdersFit
<1>3. /\ q \in Int /\ before.rests \in Int /\ before.flies \in Int
      /\ before.flies > 0 => q > 0 /\ q <= before.flies
      /\ before.flies < 0 => q < 0 /\ q >= before.flies
      /\ before.flies # 0
  BY <1>1, <1>2, PartsAreSmaller DEF OrderRecords
<1>4. /\ after \in OrderRecords /\ Taken(after)
      /\ after.by # "none" => /\ after.by = before.by /\ after.rests = before.rests /\ after.flies = before.flies - q
                              /\ after.escapes = before.escapes /\ after.updates = before.updates
                              /\ after.quantity = before.quantity
  <2> DEFINE order == [before EXCEPT !.flies = before.flies - q]
  <2>1. after = Guard!Kept(order)
    OBVIOUS
  <2>2. /\ order \in OrderRecords /\ order.by = before.by /\ order.rests = before.rests /\ order.flies = before.flies - q
        /\ order.updates = before.updates /\ order.escapes = before.escapes /\ order.quantity = before.quantity
    BY <1>2, <1>3 DEF OrderRecords
  <2>3. before.by # "none"
    BY <1>2, <1>3 DEF Taken
  <2> HIDE DEF order, after, before
  <2> QED  BY <2>1, <2>2, <2>3, KeptOrders
<1>5. held \in Int /\ StopKnows(s, held)
  <2>1. held \in Int
    BY <1>2, <1>3
  <2> HIDE DEF held
  <2> QED  BY <2>1, StopAfterKnows DEF GuardInv, StopKnows
<1> HIDE DEF after
<1>6. OrdersFit(os) /\ \A u \in GuardSlots : os[u] = IF u = o THEN after ELSE guard_orders[u]
  BY <1>2, <1>4 DEF OrdersFit
<1>7. OnlyEscapesRest(guard_orders) => OnlyEscapesRest(os)
  BY <1>4, <1>6 DEF OnlyEscapesRest, Taken
<1>8. ASSUME ~guard_disturbed, before.by = "stop" PROVE OneExit(os, s, held)
  <2>1. /\ guard_stop.asked \/ guard_position = 0
        /\ Reduces(before, guard_position)
        /\ \A u \in GuardSlots : guard_orders[u].by = "stop" => u = o
    BY <1>8 DEF GuardInv, OneExit
  <2>2. ASSUME after.by = "stop" PROVE (s.asked \/ held = 0) /\ Reduces(after, held)
    <3>1. /\ after.rests = before.rests /\ after.flies = before.flies - q /\ after.quantity = before.quantity
          /\ guard_stop.last = guard_position
      BY <1>4, <2>2 DEF GuardInv, StopKnows
    <3>2. /\ guard_position > 0 => held >= 0 /\ held < guard_position
          /\ guard_position < 0 => held <= 0 /\ held > guard_position
          /\ guard_position # 0 /\ Reduces(after, held)
      <4> DEFINE rests == before.rests
                 flies == before.flies
      <4>1. rests \in Int /\ flies \in Int /\ q \in Int /\ guard_position \in Int
        BY <1>2, <1>3
      <4>2. after.rests = rests /\ after.flies = flies - q /\ rests \in {0, after.quantity}
        BY <2>1, <3>1 DEF Reduces
      <4>3. \/ guard_position > 0 /\ rests <= 0 /\ flies <= 0 /\ rests + flies >= -guard_position
            \/ guard_position < 0 /\ rests >= 0 /\ flies >= 0 /\ rests + flies <= -guard_position
        BY <1>3, <2>1 DEF Reduces
      <4>4. (flies > 0 => q > 0 /\ q <= flies) /\ (flies < 0 => q < 0 /\ q >= flies) /\ flies # 0
        BY <1>3
      <4> HIDE DEF rests, flies, before
      <4>5. CASE guard_position > 0
        <5>1. /\ held >= 0 /\ held < guard_position /\ rests <= 0 /\ flies - q <= 0 /\ rests + (flies - q) >= -held
              /\ held = 0 => rests = 0 /\ flies - q = 0
          BY <4>1, <4>3, <4>4, <4>5
        <5>2. held \in Int
          BY <1>5
        <5> HIDE DEF held
        <5> QED  BY <4>1, <4>2, <4>5, <5>1, <5>2 DEF Reduces
      <4>6. CASE guard_position < 0
        <5>1. /\ held <= 0 /\ held > guard_position /\ rests >= 0 /\ flies - q >= 0 /\ rests + (flies - q) <= -held
              /\ held = 0 => rests = 0 /\ flies - q = 0
          BY <4>1, <4>3, <4>4, <4>6
        <5>2. held \in Int
          BY <1>5
        <5> HIDE DEF held
        <5> QED  BY <4>1, <4>2, <4>6, <5>1, <5>2 DEF Reduces
      <4> QED  BY <4>1, <4>3, <4>5, <4>6
    <3>3. s.asked \/ held = 0
      <4>1. s.asked = (guard_stop.asked /\ Guard!SignOf(guard_position) = Guard!SignOf(held)
                         /\ ~(Guard!Abs(held) > Guard!Abs(guard_position)))
        BY <3>1 DEF Guard!StopAfter
      <4> HIDE DEF held, s
      <4> QED  BY <1>2, <1>5, <2>1, <3>2, <4>1, SMTT(30) DEF Guard!SignOf, Guard!Abs, StopKnows
    <3> QED  BY <3>2, <3>3
  <2>3. \A u \in GuardSlots : os[u].by = "stop" => u = o
    BY <1>6, <2>1
  <2> HIDE DEF s, held, os
  <2> QED  BY <1>6, <2>2, <2>3 DEF OneExit
<1>9. PICK r \in Guard!Evaluated(held, s, os) : Guard!Become(r, before.by # "stop")
  BY <1>1, <1>2 DEF after
<1> HIDE DEF held, s, os
<1>10. EvaluationFits(r, held, s, os)
  BY <1>5, <1>6, EvaluatedFits
<1>11. (before.by # "stop") \in BOOLEAN
  OBVIOUS
<1>12. guard_account.halted => OnlyEscapesRest(os)
  BY <1>7 DEF GuardInv
<1> QED  BY <1>5, <1>6, <1>8, <1>9, <1>10, <1>11, <1>12, BecomeStep

\* A price that hits the stop asks for one exit of all that is held.
LEMMA MarkStep == ASSUME Guard!AccountGuardAssumption, GuardInv, Guard!Mark PROVE GuardInv'
<1> DEFINE s == Guard!StopAfter(guard_stop, guard_position)
<1>1. PICK r \in Guard!Evaluated(guard_position, s, guard_orders) :
        Guard!Become(r, FALSE) \/ \E hit \in Guard!Asked(r) : Guard!Become(hit, FALSE)
  BY DEF Guard!Mark
<1>2. guard_position \in Int /\ StopKnows(guard_stop, guard_position) /\ OrdersFit(guard_orders)
  BY DEF GuardInv
<1>3. s = guard_stop
  BY <1>2 DEF StopKnows, Guard!StopAfter, Guard!SignOf, Guard!Abs
<1> HIDE DEF s
<1>4. EvaluationFits(r, guard_position, guard_stop, guard_orders)
  BY <1>1, <1>2, <1>3, EvaluatedFits
<1>5. /\ guard_account.halted => OnlyEscapesRest(guard_orders)
      /\ ~guard_disturbed /\ ~FALSE => OneExit(guard_orders, guard_stop, guard_position)
  BY DEF GuardInv
<1>6. CASE Guard!Become(r, FALSE)
  BY <1>2, <1>4, <1>5, <1>6, BecomeStep
<1>7. ASSUME NEW hit \in Guard!Asked(r), Guard!Become(hit, FALSE) PROVE GuardInv'
  <2>1. CASE hit = r
    BY <1>6, <1>7, <2>1
  <2>2. CASE hit # r
    <3>1. PICK os \in Guard!Submitted(r.position, r.account.halted, r.orders, "stop", -r.stop.last, FALSE) :
            hit = [r EXCEPT !.orders = os, !.stop.asked = TRUE] /\ r.stop.last # 0 /\ ~r.stop.asked
      BY <1>7, <2>2 DEF Guard!Asked
    <3>2. /\ OrdersFit(r.orders) /\ r.position \in Int /\ StopKnows(r.stop, r.position)
          /\ r.account.halted => OnlyEscapesRest(r.orders)
      BY <1>4, <1>5 DEF EvaluationFits
    <3>3. -r.stop.last \in Int \ {0} /\ FALSE \in BOOLEAN /\ "stop" \in {"strategy", "stop"} /\ r.stop.last = r.position
      BY <3>1, <3>2 DEF StopKnows
    <3>. DEFINE order == Guard!OrderOf("stop", -r.stop.last, FALSE)
    <3>4. /\ OrdersFit(os)
          /\ \/ os = r.orders /\ r.account.halted
             \/ ~r.account.halted /\ TakesASlot(os, r.orders, order)
      <4>1. os \in Guard!Submitted(r.position, r.account.halted, r.orders, "stop", -r.stop.last, FALSE)
        BY <3>1
      <4>. DEFINE lots == -r.stop.last
                 held == r.position
                 halted == r.account.halted
                 before == r.orders
      <4>2. lots \in Int \ {0} /\ OrdersFit(before) /\ os \in Guard!Submitted(held, halted, before, "stop", lots, FALSE)
        BY <3>2, <3>3, <4>1
      <4>. HIDE DEF lots, held, halted, before
      <4>3. /\ OrdersFit(os)
            /\ \/ os = before /\ halted
               \/ ~halted /\ TakesASlot(os, before, Guard!OrderOf("stop", lots, FALSE))
        BY <3>3, <4>2, SubmittedOrders
      <4> QED  BY <4>3 DEF lots, halted, before
    <3>5. /\ guard_position' = r.position /\ guard_stop' = [r.stop EXCEPT !.asked = TRUE] /\ guard_orders' = os
          /\ guard_account' = r.account
          /\ guard_disturbed' = (Guard!ExitsIn(os) # {} /\ (guard_disturbed \/ r.liquidates))
      BY <1>7, <3>1 DEF Guard!Become
    <3>6. StopKnows(guard_stop', guard_position') /\ guard_stop'.asked
      BY <3>2, <3>5 DEF StopKnows
    <3>7. guard_account'.halted => OnlyEscapesRest(guard_orders')
      BY <3>2, <3>4, <3>5
    <3>8. ASSUME ~guard_disturbed' PROVE OneExit(os, guard_stop', guard_position')
      <4>1. CASE Guard!ExitsIn(os) = {}
        BY <4>1 DEF Guard!ExitsIn, OneExit
      <4>2. CASE Guard!ExitsIn(os) # {}
        <5>1. ~guard_disturbed /\ ~r.liquidates
          BY <3>5, <3>8, <4>2
        <5>2. /\ OneExit(guard_orders, guard_stop, guard_position) /\ ExitsShrink(r.orders, guard_orders)
              /\ r.stop = guard_stop /\ r.position = guard_position
          BY <1>4, <1>5, <5>1 DEF EvaluationFits
        <5>3. \A o \in GuardSlots : r.orders[o].by # "stop"
          BY <3>1, <3>3, <5>2 DEF OneExit, ExitsShrink
        <5>4. TakesASlot(os, r.orders, order)
          BY <3>4, <4>2, <5>3 DEF Guard!ExitsIn
        <5>5. order.by = "stop" /\ Reduces(order, guard_position')
          BY <3>1, <3>2, <3>3, <3>5 DEF Reduces, Guard!OrderOf
        <5>6. \A o \in GuardSlots : os[o].by = "stop" => os[o] = order /\ \A u \in GuardSlots : os[u].by = "stop" => u = o
          BY <5>3, <5>4 DEF TakesASlot
        <5> QED  BY <3>6, <5>5, <5>6 DEF OneExit
      <4> QED  BY <4>1, <4>2
    <3>9. guard_disturbed' \in BOOLEAN /\ r.account \in [called : BOOLEAN, stoppedOut : BOOLEAN, halted : BOOLEAN]
      BY <1>4, <3>5 DEF EvaluationFits
    <3> QED  BY <3>2, <3>4, <3>5, <3>6, <3>7, <3>8, <3>9 DEF GuardInv
  <2> QED  BY <2>1, <2>2
<1> QED  BY <1>1, <1>6, <1>7

\* Every behaviour of the stops and the margin keeps the invariant.
LEMMA GuardIsKept == Guard!AccountGuardAssumption => (Guard!Spec => []GuardInv)
<1> SUFFICES ASSUME Guard!AccountGuardAssumption PROVE Guard!Spec => []GuardInv
  OBVIOUS
<1>1. Guard!Init => GuardInv
  <2> SUFFICES ASSUME Guard!Init PROVE GuardInv
    OBVIOUS
  <2>1. \A o \in GuardSlots : guard_orders[o] = Guard!NoOrder
    BY DEF Guard!Init
  <2>2. /\ Guard!NoOrder \in OrderRecords /\ Taken(Guard!NoOrder) /\ Guard!NoOrder.by = "none" /\ Guard!NoOrder.rests = 0
        /\ Guard!NoOrder.updates = 0
    BY DEF Guard!NoOrder, Guard!OrderOf, OrderRecords, Taken
  <2>3. OrdersFit(guard_orders) /\ OneExit(guard_orders, guard_stop, guard_position) /\ OnlyEscapesRest(guard_orders)
    BY <2>1, <2>2 DEF OrdersFit, OneExit, OnlyEscapesRest, Guard!Init
  <2>4. StopKnows(guard_stop, guard_position)
    BY DEF Guard!Init, StopKnows
  <2>5. guard_account \in [called : BOOLEAN, stoppedOut : BOOLEAN, halted : BOOLEAN]
    <3>1. guard_account = [called |-> FALSE, stoppedOut |-> FALSE, halted |-> FALSE]
      BY DEF Guard!Init
    <3> QED  BY <3>1
  <2>6. guard_disturbed \in BOOLEAN /\ guard_position \in Int
    <3>1. guard_disturbed \in BOOLEAN
      BY Zenon DEF Guard!Init
    <3>2. guard_position \in Int
      BY DEF Guard!Init
    <3> QED  BY <3>1, <3>2
  <2> QED  BY <2>3, <2>4, <2>5, <2>6 DEF GuardInv
<1>2. GuardInv /\ [Guard!Next]_(Guard!vars) => GuardInv'
  <2> SUFFICES ASSUME GuardInv, [Guard!Next]_(Guard!vars) PROVE GuardInv'
    OBVIOUS
  <2>1. CASE UNCHANGED Guard!vars
    BY <2>1 DEF Guard!vars, GuardInv, StopKnows, OrdersFit, OneExit, OnlyEscapesRest
  <2> QED  BY <2>1, TradeStep, MarkStep, ExecuteStep, ExecuteSomeStep, RequoteStep, ReopenStep, CancelStep, FillStep DEF Guard!Next
<1> QED  BY <1>1, <1>2, PTL DEF Guard!Spec

\* The sum over the orders of the manager, of which there is one at most.
LEMMA NoExits == ASSUME NEW os, Guard!ExitsIn(os) = {} PROVE Guard!ExitTotal(os) = 0
<1>1. Guard!ExitTotal(os) = Guard!MapThenSumSet(LAMBDA o : os[o].rests + os[o].flies, {})
  BY DEF Guard!ExitTotal
<1> QED  BY <1>1 DEF Guard!MapThenSumSet, Guard!MapThenFoldSet

\* One exit is the total of the exits.
LEMMA OneExitTotal ==
  ASSUME NEW os, NEW o, Guard!ExitsIn(os) = {o}, os[o].rests + os[o].flies \in Int
  PROVE  Guard!ExitTotal(os) = os[o].rests + os[o].flies
<1> DEFINE Of(u) == os[u].rests + os[u].flies
           Sums(f) == f = [s \in SUBSET {o} |-> IF s = {} THEN 0 ELSE LET x == CHOOSE x \in s : TRUE IN Of(x) + f[s \ {x}]]
<1>1. Guard!ExitTotal(os) = Guard!MapThenSumSet(LAMBDA u : os[u].rests + os[u].flies, {o})
  BY DEF Guard!ExitTotal
<1>2. Guard!ExitTotal(os) = (CHOOSE f : Sums(f))[{o}]
  BY <1>1 DEF Guard!MapThenSumSet, Guard!MapThenFoldSet
<1>3. \A s \in SUBSET {o} : s # {} => s = {o} /\ (CHOOSE x \in s : TRUE) = o /\ s \ {o} = {}
  <2>1. \A s \in SUBSET {o} : s # {} => s = {o}
    OBVIOUS
  <2>2. (CHOOSE x \in {o} : TRUE) = o
    OBVIOUS
  <2> QED  BY <2>1, <2>2
<1>4. \E f : Sums(f)
  <2> DEFINE g == [s \in SUBSET {o} |-> IF s = {} THEN 0 ELSE Of(o)]
  <2>1. g[{}] = 0
    OBVIOUS
  <2>2. ASSUME NEW s \in SUBSET {o}
        PROVE  g[s] = IF s = {} THEN 0 ELSE LET x == CHOOSE x \in s : TRUE IN Of(x) + g[s \ {x}]
    BY <1>3, <2>1
  <2> HIDE DEF Of
  <2>3. Sums(g)
    BY <2>2
  <2> QED  BY <2>3
<1>5. Sums(CHOOSE f : Sums(f))
  BY <1>4
<1>6. ASSUME NEW f, Sums(f) PROVE f[{o}] = Of(o)
  <2>1. f[{}] = 0
    BY <1>6
  <2>2. f[{o}] = LET x == CHOOSE x \in {o} : TRUE IN Of(x) + f[{o} \ {x}]
    <3>1. {o} \in SUBSET {o} /\ {o} # {}
      OBVIOUS
    <3> QED  BY <1>6, <3>1
  <2> QED  BY <1>3, <2>1, <2>2
<1> HIDE DEF Sums, Of
<1>7. (CHOOSE f : Sums(f))[{o}] = Of(o)
  BY <1>5, <1>6
<1> QED  BY <1>2, <1>7 DEF Of

\* What the invariant says of the properties.
LEMMA StopsHold == ASSUME GuardInv PROVE Guard!ExitsFitThePosition /\ Guard!HaltLeavesNothingToExecute
<1>1. ASSUME ~guard_disturbed
      PROVE  /\ Guard!SignOf(Guard!ExitTotal(guard_orders)) \in {0, -Guard!SignOf(guard_position)}
             /\ Guard!Abs(Guard!ExitTotal(guard_orders)) <= Guard!Abs(guard_position)
  <2>1. guard_position \in Int /\ OneExit(guard_orders, guard_stop, guard_position)
    BY <1>1 DEF GuardInv
  <2>2. CASE Guard!ExitsIn(guard_orders) = {}
    <3>1. Guard!ExitTotal(guard_orders) = 0
      BY <2>2, NoExits
    <3> QED  BY <2>1, <3>1 DEF Guard!SignOf, Guard!Abs
  <2>3. CASE Guard!ExitsIn(guard_orders) # {}
    <3>1. PICK o \in GuardSlots : guard_orders[o].by = "stop"
      BY <2>3 DEF Guard!ExitsIn
    <3>2. Guard!ExitsIn(guard_orders) = {o} /\ Reduces(guard_orders[o], guard_position)
      BY <2>1, <3>1 DEF OneExit, Guard!ExitsIn
    <3>3. guard_orders[o].rests \in Int /\ guard_orders[o].flies \in Int
      BY DEF GuardInv, OrdersFit, OrderRecords
    <3>. DEFINE total == guard_orders[o].rests + guard_orders[o].flies
    <3>4. /\ total \in Int /\ \/ guard_position > 0 /\ total <= 0 /\ total >= -guard_position
                              \/ guard_position < 0 /\ total >= 0 /\ total <= -guard_position
                              \/ guard_position = 0 /\ total = 0
      BY <2>1, <3>2, <3>3 DEF Reduces
    <3>5. Guard!ExitTotal(guard_orders) = total
      BY <3>2, <3>4, OneExitTotal
    <3>. HIDE DEF total
    <3>6. CASE guard_position > 0
      BY <2>1, <3>4, <3>5, <3>6 DEF Guard!SignOf, Guard!Abs
    <3>7. CASE guard_position < 0
      <4>1. Guard!SignOf(guard_position) = -1 /\ Guard!Abs(guard_position) = -guard_position
        BY <2>1, <3>7 DEF Guard!SignOf, Guard!Abs
      <4>2. Guard!SignOf(total) \in {0, 1} /\ Guard!Abs(total) = total /\ total <= -guard_position
        BY <2>1, <3>4, <3>7 DEF Guard!SignOf, Guard!Abs
      <4> QED  BY <3>5, <4>1, <4>2
    <3>8. CASE guard_position = 0
      BY <3>4, <3>5, <3>8 DEF Guard!SignOf, Guard!Abs
    <3> QED  BY <2>1, <3>6, <3>7, <3>8
  <2> QED  BY <2>2, <2>3
<1> QED  BY <1>1 DEF Guard!ExitsFitThePosition, Guard!HaltLeavesNothingToExecute, GuardInv, OnlyEscapesRest

\* A behaviour of the components has one of the stops and the margin in it.
LEMMA GuardRuns == PartsSpec => Guard!Spec
<1>1. PartsInit => Guard!Init
  BY DEF PartsInit
<1>2. [PartsNext]_allVars => [Guard!Next]_(Guard!vars)
  BY DEF PartsNext, Still, allVars, guardVars, Guard!vars
<1>. QED BY <1>1, <1>2, PTL DEF PartsSpec, Guard!Spec

\* Whatever the slots, the prices and the actions of the account are: the stop-loss
\* manager's orders never turn the position round by themselves, and a halted
\* account has nothing left to execute but what was submitted from the callbacks of the
\* halt, or cancelled with an Update on its way that opens it again.
THEOREM StopsStaySound == PartsSpec => []StopsAreSound
<1>1. Guard!AccountGuardAssumption
  BY PartsAssumption
<1>2. GuardInv => StopsAreSound
  BY StopsHold DEF StopsAreSound, ExitsFitThePosition, HaltLeavesNothingToExecute
<1>. QED BY <1>1, <1>2, GuardRuns, GuardIsKept, PTL

-----------------------------------------------------------------------------
(***************************************************************************)
(* Limits.                                                                 *)
(***************************************************************************)
\* What is open passed, and was made by Order().
OpenOrders ==
  {o \in [symbol : Risk!Symbols, side : Risk!Sides, quantity : Nat, type : Risk!OrderTypes,
          exit : BOOLEAN, limit_price : RiskPrices \cup {0}, stop_price : RiskPrices \cup {0},
          fresh : BOOLEAN] :
     /\ o.type = "Market" => o.limit_price = 0 /\ o.stop_price = 0
     /\ o.type = "Limit" => o.limit_price \in RiskPrices
     /\ o.type = "Stop" => o.limit_price = 0 /\ o.stop_price \in RiskPrices
     /\ o.exit => o.type = "Market"}

RiskTypes ==
  /\ limits_limit \in ConfiguredLimits
  /\ limits_cash \in Int
  /\ limits_quantity \in [Risk!Symbols -> Int]
  /\ limits_price \in [Risk!Symbols -> RiskPrices]
  /\ limits_open \in [Risk!Places -> OpenOrders]
  /\ limits_uncounted \in [Risk!Symbols -> Nat]

\* An order passed, or is an exit of all that is held.
Passed(o) ==
  IF o.exit THEN Risk!Signed(o) = -limits_quantity[o.symbol] ELSE Risk!Allows(o)

FreshPassed ==
  \A i \in Risk!Places :
    limits_open[i].fresh /\ limits_open[i].quantity > 0 => Passed(limits_open[i])

\* Whatever is bought of what is open, the position stays below the bound.
LongsFit ==
  limits_limit.kind = "position" =>
    \A s \in Risk!Symbols :
      Risk!Buys(s) > 0 =>
        limits_quantity[s] + Risk!Buys(s) <= limits_limit.max + limits_uncounted[s]

RiskInv == RiskTypes /\ FreshPassed /\ LongsFit

\* The constants, for numbers.
LEMMA RiskNumbers ==
  ASSUME Risk!RiskAssumption
  PROVE  /\ \A p \in RiskPrices : p \in Nat \ {0}
         /\ \A l \in ConfiguredLimits : l.max \in Nat
         /\ RiskSymbols \in Nat \ {0} /\ RiskOpen \in Nat
         /\ 1 \in Risk!Symbols
BY DEF Risk!RiskAssumption, Risk!Symbols

\* The limits' sums are sums.
LEMMA RiskSums == ASSUME NEW s PROVE Risk!SumOf(s) = SumOf(s)
BY DEF Risk!SumOf, Risk!Totals, SumOf, Totals

\* What one order adds to the buys of a symbol.
BuyOf(s, o) == IF o.symbol = s /\ o.side = "Buy" THEN o.quantity ELSE 0

\* What changes when one place changes.
LEMMA BuysChange ==
  ASSUME Risk!RiskAssumption, limits_open \in [Risk!Places -> OpenOrders],
         limits_open' \in [Risk!Places -> OpenOrders], NEW i \in Risk!Places, NEW s,
         \A j \in Risk!Places : j # i => BuyOf(s, limits_open'[j]) = BuyOf(s, limits_open[j])
  PROVE  /\ Risk!Buys(s) \in Nat /\ Risk!Buys(s)' \in Nat
         /\ BuyOf(s, limits_open[i]) \in Nat /\ BuyOf(s, limits_open'[i]) \in Nat
         /\ Risk!Buys(s)' = Risk!Buys(s) - BuyOf(s, limits_open[i]) + BuyOf(s, limits_open'[i])
<1> DEFINE B == [j \in Risk!Places |-> BuyOf(s, limits_open[j])]
           C == [j \in Risk!Places |-> BuyOf(s, limits_open'[j])]
<1>1. \A o \in OpenOrders : BuyOf(s, o) \in Nat
  BY DEF OpenOrders, BuyOf
<1>2. Risk!Buys(s) = SumOf(B) /\ Risk!Buys(s)' = SumOf(C)
  BY RiskSums DEF Risk!Buys, BuyOf
<1>3. /\ B \in Seq(Nat) /\ C \in Seq(Nat) /\ Len(B) = RiskOpen /\ Len(C) = RiskOpen
      /\ i \in 1 .. RiskOpen /\ Risk!Places = 1 .. RiskOpen
  <2>1. RiskOpen \in Nat /\ Risk!Places = 1 .. RiskOpen
    BY RiskNumbers DEF Risk!Places
  <2>2. B \in [1 .. RiskOpen -> Nat] /\ C \in [1 .. RiskOpen -> Nat]
    BY <1>1, <2>1
  <2> HIDE DEF B, C
  <2> QED  BY <2>1, <2>2
<1>4. /\ B[i] = BuyOf(s, limits_open[i]) /\ C[i] = BuyOf(s, limits_open'[i])
      /\ \A j \in 1 .. RiskOpen : j # i => C[j] = B[j]
  BY <1>3
<1>5. B[i] \in Nat /\ C[i] \in Nat
  BY <1>1, <1>4
<1> HIDE DEF B, C
<1>6. SumOf(B) \in Nat /\ SumOf(C) \in Nat
  BY <1>3, SumOfNaturals
<1>7. SumOf(C) = SumOf(B) - B[i] + C[i]
  <2>1. B \in Seq(Int) /\ C \in Seq(Int)
    BY <1>3
  <2> QED  BY <1>3, <1>4, <2>1, SumOfChanged
<1> QED  BY <1>2, <1>4, <1>5, <1>6, <1>7

\* Nothing changes when what is open is the same, but for being fresh.
LEMMA BuysStay ==
  ASSUME Risk!RiskAssumption, limits_open \in [Risk!Places -> OpenOrders], NEW s,
         \A j \in Risk!Places : BuyOf(s, limits_open'[j]) = BuyOf(s, limits_open[j])
  PROVE  Risk!Buys(s) \in Nat /\ Risk!Buys(s)' = Risk!Buys(s)
<1> DEFINE B == [j \in Risk!Places |-> BuyOf(s, limits_open[j])]
           C == [j \in Risk!Places |-> BuyOf(s, limits_open'[j])]
<1>1. \A o \in OpenOrders : BuyOf(s, o) \in Nat
  BY DEF OpenOrders, BuyOf
<1>2. Risk!Buys(s) = SumOf(B) /\ Risk!Buys(s)' = SumOf(C)
  BY RiskSums DEF Risk!Buys, BuyOf
<1>3. B = C
  OBVIOUS
<1>4. B \in Seq(Nat)
  <2>1. RiskOpen \in Nat /\ Risk!Places = 1 .. RiskOpen
    BY RiskNumbers DEF Risk!Places
  <2>2. B \in [1 .. RiskOpen -> Nat]
    BY <1>1, <2>1
  <2> HIDE DEF B, C
  <2> QED  BY <2>1, <2>2
<1> HIDE DEF B, C
<1> QED  BY <1>2, <1>3, <1>4, SumOfNaturals

\* What an order is made of.
LEMMA OrdersAre ==
  ASSUME Risk!RiskAssumption, NEW s \in Risk!Symbols, NEW side \in Risk!Sides, NEW q \in Nat,
         NEW type \in Risk!OrderTypes, NEW p \in RiskPrices
  PROVE  LET o == Risk!Order(s, side, q, type, p)
         IN  /\ o \in OpenOrders /\ o.symbol = s /\ o.quantity = q /\ ~o.exit /\ o.fresh
BY RiskNumbers DEF Risk!Order, OpenOrders

\* The order of an exit.
ExitOrder(s) ==
  [Risk!Order(s, IF limits_quantity[s] > 0 THEN "Sell" ELSE "Buy", Risk!Abs(limits_quantity[s]), "Market", 0)
                   EXCEPT !.exit = TRUE]

\* What the order that closes a position is made of.
LEMMA ExitsAre ==
  ASSUME RiskTypes, NEW s \in Risk!Symbols, limits_quantity[s] # 0
  PROVE  /\ ExitOrder(s) \in OpenOrders /\ ExitOrder(s).quantity > 0 /\ ExitOrder(s).fresh
         /\ ExitOrder(s).exit /\ ExitOrder(s).symbol = s
         /\ Risk!Signed(ExitOrder(s)) = -limits_quantity[s]
<1> DEFINE side == IF limits_quantity[s] > 0 THEN "Sell" ELSE "Buy"
           q == Risk!Abs(limits_quantity[s])
<1>1. /\ limits_quantity[s] \in Int /\ side \in Risk!Sides /\ q \in Nat /\ q > 0
      /\ (IF side = "Buy" THEN q ELSE -q) = -limits_quantity[s]
  BY DEF RiskTypes, Risk!Abs, Risk!Sides
<1>2. ExitOrder(s) = [Risk!Order(s, side, q, "Market", 0) EXCEPT !.exit = TRUE]
  BY DEF ExitOrder
<1> HIDE DEF side, q
<1>3. ExitOrder(s) = [symbol |-> s, side |-> side, quantity |-> q, type |-> "Market", exit |-> TRUE,
                      limit_price |-> 0, stop_price |-> 0, fresh |-> TRUE]
  BY <1>2 DEF Risk!Order
<1>4. ExitOrder(s) \in OpenOrders
  BY <1>1, <1>3 DEF OpenOrders, Risk!OrderTypes
<1> QED  BY <1>1, <1>3, <1>4 DEF Risk!Signed

\* An empty place.
LEMMA NoOrders ==
  ASSUME Risk!RiskAssumption
  PROVE  /\ Risk!NoOrder \in OpenOrders /\ Risk!NoOrder.quantity = 0
         /\ \A s : BuyOf(s, Risk!NoOrder) = 0
BY RiskNumbers DEF Risk!NoOrder, Risk!Order, OpenOrders, Risk!Sides, Risk!OrderTypes, BuyOf

\* What is left of an order.
LEMMA LeftOvers ==
  ASSUME Risk!RiskAssumption, NEW o \in OpenOrders, NEW n \in Nat
  PROVE  /\ Risk!Left(o, n) \in OpenOrders
         /\ Risk!Left(o, n).quantity > 0 => ~Risk!Left(o, n).fresh
         /\ \A s : BuyOf(s, Risk!Left(o, n)) = IF o.symbol = s /\ o.side = "Buy" THEN n ELSE 0
<1>1. CASE n = 0
  BY <1>1, NoOrders DEF Risk!Left
<1>2. CASE n # 0
  <2>1. Risk!Left(o, n) = [o EXCEPT !.quantity = n, !.fresh = FALSE]
    BY <1>2 DEF Risk!Left
  <2> QED  BY <2>1 DEF OpenOrders, BuyOf
<1> QED  BY <1>1, <1>2

\* What is no longer fresh.
LEMMA AgedOrders ==
  ASSUME NEW os \in [Risk!Places -> OpenOrders]
  PROVE  /\ Risk!Aged(os) \in [Risk!Places -> OpenOrders]
         /\ \A i \in Risk!Places :
              /\ Risk!Aged(os)[i].fresh => Risk!Aged(os)[i].quantity = 0
              /\ \A s : BuyOf(s, Risk!Aged(os)[i]) = BuyOf(s, os[i])
BY DEF Risk!Aged, OpenOrders, BuyOf

\* Of a step: it moves the position of one symbol.
Moves(s, d) ==
  \A t \in Risk!Symbols : limits_quantity'[t] = IF t = s THEN limits_quantity[s] + d ELSE limits_quantity[t]

\* What a fill does.
LEMMA FillsAre ==
  ASSUME Risk!RiskAssumption, RiskTypes, NEW i \in Risk!Places, NEW lots \in 1 .. limits_open[i].quantity,
         NEW p \in RiskPrices, Risk!Fill(i, lots, p)
  PROVE  LET o == limits_open[i]
             d == IF o.side = "Buy" THEN lots ELSE -lots
         IN  /\ RiskTypes' /\ limits_limit' = limits_limit /\ limits_uncounted' = limits_uncounted
             /\ o.symbol \in Risk!Symbols /\ Moves(o.symbol, d)
             /\ limits_cash' = limits_cash - p * d
             /\ limits_price' = [limits_price EXCEPT ![o.symbol] = p]
             /\ \A j \in Risk!Places : limits_open'[j].fresh => limits_open'[j].quantity = 0
             /\ \A s : \A j \in Risk!Places :
                  BuyOf(s, limits_open'[j]) =
                    IF j # i THEN BuyOf(s, limits_open[j])
                    ELSE IF o.symbol = s /\ o.side = "Buy" THEN o.quantity - lots ELSE 0
<1> DEFINE o == limits_open[i]
           d == IF o.side = "Buy" THEN lots ELSE -lots
           left == [limits_open EXCEPT ![i] = Risk!Left(o, o.quantity - lots)]
<1>1. /\ o \in OpenOrders /\ o.symbol \in Risk!Symbols /\ o.quantity \in Nat
      /\ lots \in Nat \ {0} /\ lots <= o.quantity /\ d \in Int /\ p \in Nat
      /\ o.quantity - lots \in Nat
  BY RiskNumbers DEF RiskTypes, OpenOrders
<1>2. Risk!Signed([o EXCEPT !.quantity = lots]) = d
  BY <1>1 DEF Risk!Signed, OpenOrders
<1>3. /\ limits_limit' = limits_limit /\ limits_uncounted' = limits_uncounted
      /\ limits_quantity' = [limits_quantity EXCEPT ![o.symbol] = @ + d]
      /\ limits_cash' = limits_cash - p * d
      /\ limits_price' = [limits_price EXCEPT ![o.symbol] = p]
      /\ limits_open' = Risk!Aged(left)
  BY <1>2 DEF Risk!Fill
<1> HIDE DEF d
<1>4. /\ limits_quantity' \in [Risk!Symbols -> Int] /\ limits_price' \in [Risk!Symbols -> RiskPrices]
      /\ Moves(o.symbol, d) /\ limits_cash' \in Int
  BY <1>1, <1>3 DEF RiskTypes, Moves
<1>5. left \in [Risk!Places -> OpenOrders] /\ \A s : \A j \in Risk!Places :
        BuyOf(s, left[j]) =
          IF j # i THEN BuyOf(s, limits_open[j])
          ELSE IF o.symbol = s /\ o.side = "Buy" THEN o.quantity - lots ELSE 0
  <2>1. /\ Risk!Left(o, o.quantity - lots) \in OpenOrders
        /\ \A s : BuyOf(s, Risk!Left(o, o.quantity - lots)) =
                    IF o.symbol = s /\ o.side = "Buy" THEN o.quantity - lots ELSE 0
    BY <1>1, LeftOvers
  <2>2. left[i] = Risk!Left(o, o.quantity - lots) /\ \A j \in Risk!Places : j # i => left[j] = limits_open[j]
    BY DEF RiskTypes
  <2>3. left \in [Risk!Places -> OpenOrders]
    BY <2>1 DEF RiskTypes
  <2> QED  BY <2>1, <2>2, <2>3
<1> HIDE DEF left
<1>6. /\ limits_open' \in [Risk!Places -> OpenOrders]
      /\ \A j \in Risk!Places : limits_open'[j].fresh => limits_open'[j].quantity = 0
      /\ \A s : \A j \in Risk!Places : BuyOf(s, limits_open'[j]) = BuyOf(s, left[j])
  BY <1>3, <1>5, AgedOrders
<1>7. RiskTypes'
  BY <1>3, <1>4, <1>6 DEF RiskTypes, Risk!Symbols, Risk!Places
<1> QED  BY <1>1, <1>3, <1>4, <1>5, <1>6, <1>7 DEF d

\* A portfolio that stays lets the same orders pass.
LEMMA PassedStays ==
  ASSUME UNCHANGED <<limits_limit, limits_cash, limits_quantity, limits_price>>, NEW i
  PROVE  Passed(limits_open[i])' = Passed(limits_open'[i])
<1>1. Risk!Gross' = Risk!Gross /\ Risk!Net' = Risk!Net /\ Risk!Equity' = Risk!Equity
  BY DEF Risk!Gross, Risk!Net, Risk!Equity, Risk!Symbols
<1> QED  BY <1>1 DEF Passed, Risk!Allows, Risk!Signed, Risk!Projected, Risk!Exposure, Risk!OverlayAllows,
                 Risk!ReferencePrice, Risk!Increases

\* What the limit lets pass may be open, however much is open already.
LEMMA AcceptStep ==
  ASSUME Risk!RiskAssumption, RiskInv, NEW o \in OpenOrders, o.fresh, o.quantity > 0, Passed(o),
         Risk!Accept(o)
  PROVE  RiskInv'
<1>1. PICK i \in Risk!Places : limits_open[i].quantity = 0 /\ limits_open' = [limits_open EXCEPT ![i] = o]
  BY DEF Risk!Accept
<1>2. /\ UNCHANGED <<limits_limit, limits_cash, limits_quantity, limits_price>>
      /\ limits_uncounted' = IF limits_limit.kind = "position" /\ o.side = "Buy"
                             THEN [limits_uncounted EXCEPT ![o.symbol] = Risk!Buys(o.symbol)] ELSE limits_uncounted
  BY DEF Risk!Accept
<1>3. /\ limits_open' \in [Risk!Places -> OpenOrders] /\ limits_open'[i] = o
      /\ \A j \in Risk!Places : j # i => limits_open'[j] = limits_open[j]
  BY <1>1 DEF RiskInv, RiskTypes
<1>4. ASSUME NEW s \in Risk!Symbols
      PROVE  /\ Risk!Buys(s) \in Nat /\ Risk!Buys(s)' \in Nat
             /\ Risk!Buys(s)' = Risk!Buys(s) + BuyOf(s, o)
  <2>1. BuyOf(s, limits_open[i]) = 0
    BY <1>1 DEF BuyOf
  <2>2. limits_open \in [Risk!Places -> OpenOrders]
    BY DEF RiskInv, RiskTypes
  <2>3. \A j \in Risk!Places : j # i => BuyOf(s, limits_open'[j]) = BuyOf(s, limits_open[j])
    BY <1>3
  <2> QED  BY <1>3, <2>1, <2>2, <2>3, BuysChange
<1>5. o.symbol \in Risk!Symbols /\ o.quantity \in Nat
  BY DEF OpenOrders
<1>6. RiskTypes'
  <2>1. limits_uncounted' \in [Risk!Symbols -> Nat]
    BY <1>2, <1>4, <1>5 DEF RiskInv, RiskTypes
  <2> QED  BY <1>2, <1>3, <2>1 DEF RiskInv, RiskTypes, Risk!Symbols, Risk!Places
<1>7. FreshPassed'
  <2>1. SUFFICES ASSUME NEW j \in Risk!Places, limits_open'[j].fresh, limits_open'[j].quantity > 0
                 PROVE  Passed(limits_open[j])'
    BY DEF FreshPassed, Risk!Places
  <2>2. Passed(limits_open'[j])
    BY <1>3, <2>1 DEF RiskInv, FreshPassed
  <2> QED  BY <1>2, <2>2, PassedStays
<1>8. LongsFit'
  <2>1. SUFFICES ASSUME limits_limit'.kind = "position", NEW s \in Risk!Symbols, Risk!Buys(s)' > 0
                 PROVE  limits_quantity'[s] + Risk!Buys(s)' <= limits_limit'.max + limits_uncounted'[s]
    BY DEF LongsFit, Risk!Symbols
  <2>2. limits_quantity[s] \in Int /\ limits_limit.max \in Nat /\ limits_uncounted[s] \in Nat
    BY RiskNumbers DEF RiskInv, RiskTypes
  <2>3. CASE o.symbol = s /\ o.side = "Buy"
    <3>1. limits_uncounted'[s] = Risk!Buys(s)
      BY <1>2, <1>5, <2>1, <2>3 DEF RiskInv, RiskTypes
    <3>2. limits_quantity[s] + o.quantity <= limits_limit.max
      <4>1. CASE o.exit
        <5>1. o.quantity = -limits_quantity[s]
          BY <2>3, <4>1 DEF Passed, Risk!Signed
        <5> QED  BY <1>5, <2>2, <5>1
      <4>2. CASE ~o.exit
        <5>1. Risk!Abs(limits_quantity[s] + o.quantity) <= limits_limit.max
          BY <1>2, <2>1, <2>3, <4>2 DEF Passed, Risk!Allows, Risk!Projected
        <5> QED  BY <1>5, <2>2, <5>1 DEF Risk!Abs
      <4> QED  BY <4>1, <4>2
    <3>3. Risk!Buys(s)' = Risk!Buys(s) + o.quantity
      BY <1>4, <2>3 DEF BuyOf
    <3> QED  BY <1>2, <1>4, <1>5, <2>2, <3>1, <3>2, <3>3
  <2>4. CASE ~(o.symbol = s /\ o.side = "Buy")
    <3>1. limits_uncounted'[s] = limits_uncounted[s]
      BY <1>2, <2>4 DEF RiskInv, RiskTypes
    <3>2. Risk!Buys(s)' = Risk!Buys(s)
      BY <1>4, <2>4 DEF BuyOf
    <3> QED  BY <1>2, <2>1, <2>2, <3>1, <3>2 DEF RiskInv, LongsFit
  <2> QED  BY <2>3, <2>4
<1> QED  BY <1>6, <1>7, <1>8 DEF RiskInv

\* A fill takes from what is open what it adds to the position.
LEMMA RiskFillStep ==
  ASSUME Risk!RiskAssumption, RiskInv, NEW i \in Risk!Places, NEW lots \in 1 .. limits_open[i].quantity,
         NEW p \in RiskPrices, Risk!Fill(i, lots, p)
  PROVE  /\ RiskInv'
         /\ limits_limit.kind = "position" =>
              \A s \in Risk!Symbols :
                limits_quantity'[s] > limits_quantity[s] =>
                  limits_quantity'[s] <= limits_limit.max + limits_uncounted[s]
<1> DEFINE o == limits_open[i]
           d == IF o.side = "Buy" THEN lots ELSE -lots
<1>1. /\ RiskTypes' /\ limits_limit' = limits_limit /\ limits_uncounted' = limits_uncounted
      /\ o.symbol \in Risk!Symbols /\ Moves(o.symbol, d)
      /\ \A j \in Risk!Places : limits_open'[j].fresh => limits_open'[j].quantity = 0
      /\ \A s : \A j \in Risk!Places :
           BuyOf(s, limits_open'[j]) =
             IF j # i THEN BuyOf(s, limits_open[j])
             ELSE IF o.symbol = s /\ o.side = "Buy" THEN o.quantity - lots ELSE 0
  BY FillsAre DEF RiskInv
<1>2. o \in OpenOrders /\ o.quantity \in Nat /\ lots \in Nat \ {0} /\ o.side \in {"Buy", "Sell"}
  BY DEF RiskInv, RiskTypes, OpenOrders, Risk!Sides
<1>3. ASSUME NEW s \in Risk!Symbols
      PROVE  /\ Risk!Buys(s) \in Nat /\ Risk!Buys(s)' \in Nat
             /\ Risk!Buys(s)' = Risk!Buys(s) - (IF o.symbol = s /\ o.side = "Buy" THEN lots ELSE 0)
  <2>1. /\ limits_open \in [Risk!Places -> OpenOrders]
        /\ limits_open' \in [Risk!Places -> OpenOrders]
    BY <1>1 DEF RiskInv, RiskTypes, Risk!Places
  <2>2. \A j \in Risk!Places : j # i => BuyOf(s, limits_open'[j]) = BuyOf(s, limits_open[j])
    BY <1>1
  <2>3. /\ Risk!Buys(s) \in Nat /\ Risk!Buys(s)' \in Nat
        /\ Risk!Buys(s)' = Risk!Buys(s) - BuyOf(s, o) + BuyOf(s, limits_open'[i])
    BY <2>1, <2>2, BuysChange
  <2>4. BuyOf(s, o) = IF o.symbol = s /\ o.side = "Buy" THEN o.quantity ELSE 0
    BY DEF BuyOf
  <2>5. BuyOf(s, limits_open'[i]) = IF o.symbol = s /\ o.side = "Buy" THEN o.quantity - lots ELSE 0
    BY <1>1
  <2> HIDE DEF o
  <2> QED  BY <1>2, <2>3, <2>4, <2>5
<1>4. ASSUME limits_limit.kind = "position", NEW s \in Risk!Symbols
      PROVE  /\ Risk!Buys(s)' > 0 => limits_quantity'[s] + Risk!Buys(s)' <= limits_limit.max + limits_uncounted[s]
             /\ limits_quantity'[s] > limits_quantity[s] =>
                  limits_quantity'[s] <= limits_limit.max + limits_uncounted[s]
  <2>1. limits_quantity[s] \in Int /\ limits_limit.max \in Nat /\ limits_uncounted[s] \in Nat
    BY RiskNumbers DEF RiskInv, RiskTypes
  <2>2. Risk!Buys(s) > 0 => limits_quantity[s] + Risk!Buys(s) <= limits_limit.max + limits_uncounted[s]
    BY <1>4 DEF RiskInv, LongsFit
  <2>3. CASE o.symbol = s /\ o.side = "Buy"
    <3>1. limits_quantity'[s] = limits_quantity[s] + lots /\ Risk!Buys(s)' = Risk!Buys(s) - lots
      BY <1>1, <1>3, <2>3 DEF Moves
    <3> QED  BY <1>2, <1>3, <2>1, <2>2, <3>1
  <2>4. CASE ~(o.symbol = s /\ o.side = "Buy")
    <3>1. Risk!Buys(s)' = Risk!Buys(s)
      BY <1>3, <2>4
    <3>2. limits_quantity'[s] = limits_quantity[s] \/ limits_quantity'[s] = limits_quantity[s] - lots
      BY <1>1, <1>2, <2>1, <2>4 DEF Moves
    <3> QED  BY <1>2, <1>3, <2>1, <2>2, <3>1, <3>2
  <2> QED  BY <2>3, <2>4
<1> HIDE DEF d, o
<1>5. FreshPassed'
  BY <1>1 DEF FreshPassed, Risk!Places
<1>6. LongsFit'
  BY <1>1, <1>4 DEF LongsFit, Risk!Symbols
<1> QED  BY <1>1, <1>4, <1>5, <1>6 DEF RiskInv

\* What ends is bought no more.
LEMMA EndStep ==
  ASSUME Risk!RiskAssumption, RiskInv, NEW i \in Risk!Places, NEW left \in 0 .. limits_open[i].quantity - 1,
         Risk!End(i, left)
  PROVE  RiskInv'
<1> DEFINE o == limits_open[i]
<1>1. o \in OpenOrders /\ o.quantity \in Nat /\ left \in Nat /\ left < o.quantity
  BY DEF RiskInv, RiskTypes, OpenOrders
<1>2. /\ UNCHANGED <<limits_limit, limits_cash, limits_quantity, limits_price, limits_uncounted>>
      /\ limits_open' = [limits_open EXCEPT ![i] = Risk!Left(o, left)]
  BY DEF Risk!End
<1> HIDE DEF o
<1>3. /\ Risk!Left(o, left) \in OpenOrders
      /\ Risk!Left(o, left).quantity > 0 => ~Risk!Left(o, left).fresh
      /\ \A s : BuyOf(s, Risk!Left(o, left)) = IF o.symbol = s /\ o.side = "Buy" THEN left ELSE 0
  BY <1>1, LeftOvers
<1>4. /\ limits_open' \in [Risk!Places -> OpenOrders] /\ limits_open'[i] = Risk!Left(o, left)
      /\ \A j \in Risk!Places : j # i => limits_open'[j] = limits_open[j]
  BY <1>2, <1>3 DEF RiskInv, RiskTypes
<1>5. RiskTypes'
  BY <1>2, <1>4 DEF RiskInv, RiskTypes, Risk!Symbols, Risk!Places
<1>6. FreshPassed'
  <2>1. SUFFICES ASSUME NEW j \in Risk!Places, limits_open'[j].fresh, limits_open'[j].quantity > 0
                 PROVE  Passed(limits_open[j])'
    BY DEF FreshPassed, Risk!Places
  <2>2. Passed(limits_open'[j])
    BY <1>3, <1>4, <2>1 DEF RiskInv, FreshPassed
  <2> QED  BY <1>2, <2>2, PassedStays
<1>7. LongsFit'
  <2>1. SUFFICES ASSUME limits_limit'.kind = "position", NEW s \in Risk!Symbols, Risk!Buys(s)' > 0
                 PROVE  limits_quantity'[s] + Risk!Buys(s)' <= limits_limit'.max + limits_uncounted'[s]
    BY DEF LongsFit, Risk!Symbols
  <2>2. limits_quantity[s] \in Int /\ limits_limit.max \in Nat /\ limits_uncounted[s] \in Nat
    BY RiskNumbers DEF RiskInv, RiskTypes
  <2>3. /\ Risk!Buys(s) \in Nat /\ Risk!Buys(s)' \in Nat
        /\ Risk!Buys(s)' = Risk!Buys(s) - BuyOf(s, o) + BuyOf(s, Risk!Left(o, left))
    <3>1. limits_open \in [Risk!Places -> OpenOrders]
      BY DEF RiskInv, RiskTypes
    <3>2. \A j \in Risk!Places : j # i => BuyOf(s, limits_open'[j]) = BuyOf(s, limits_open[j])
      BY <1>4
    <3> QED  BY <1>4, <3>1, <3>2, BuysChange DEF o
  <2>4. BuyOf(s, o) = IF o.symbol = s /\ o.side = "Buy" THEN o.quantity ELSE 0
    BY DEF BuyOf
  <2>5. Risk!Buys(s)' <= Risk!Buys(s)
    BY <1>1, <1>3, <2>3, <2>4
  <2>6. Risk!Buys(s) > 0 => limits_quantity[s] + Risk!Buys(s) <= limits_limit.max + limits_uncounted[s]
    BY <1>2, <2>1 DEF RiskInv, LongsFit
  <2> QED  BY <1>2, <2>1, <2>2, <2>3, <2>5, <2>6
<1> QED  BY <1>5, <1>6, <1>7 DEF RiskInv

\* A mark moves no position.
LEMMA RiskMarkStep ==
  ASSUME Risk!RiskAssumption, RiskInv, Risk!Mark
  PROVE  RiskInv' /\ limits_quantity' = limits_quantity
<1>1. PICK s \in Risk!Symbols, p \in RiskPrices : limits_price' = [limits_price EXCEPT ![s] = p]
  BY DEF Risk!Mark
<1>2. limits_open' = Risk!Aged(limits_open) /\ UNCHANGED <<limits_limit, limits_cash, limits_quantity, limits_uncounted>>
  BY DEF Risk!Mark
<1>3. /\ limits_open' \in [Risk!Places -> OpenOrders]
      /\ \A i \in Risk!Places :
           /\ limits_open'[i].fresh => limits_open'[i].quantity = 0
           /\ \A t : BuyOf(t, limits_open'[i]) = BuyOf(t, limits_open[i])
  BY <1>2, AgedOrders DEF RiskInv, RiskTypes
<1>4. RiskTypes'
  BY <1>1, <1>2, <1>3 DEF RiskInv, RiskTypes, Risk!Symbols, Risk!Places
<1>5. FreshPassed'
  BY <1>3 DEF FreshPassed, Risk!Places
<1>6. \A t \in Risk!Symbols : Risk!Buys(t)' = Risk!Buys(t)
  BY <1>3, BuysStay DEF RiskInv, RiskTypes
<1>7. LongsFit'
  BY <1>2, <1>6 DEF RiskInv, LongsFit, Risk!Symbols
<1> QED  BY <1>2, <1>4, <1>5, <1>7 DEF RiskInv

\* Every step keeps the invariant, and lets positions grow below the bound.
LEMMA RiskSteps ==
  ASSUME Risk!RiskAssumption, RiskInv, [Risk!Next]_(Risk!vars)
  PROVE  /\ RiskInv'
         /\ limits_limit.kind = "position" =>
              \A s \in Risk!Symbols :
                limits_quantity'[s] > limits_quantity[s] =>
                  limits_quantity'[s] <= limits_limit.max + limits_uncounted[s]
<1>1. limits_quantity' = limits_quantity =>
        \A s \in Risk!Symbols : ~(limits_quantity'[s] > limits_quantity[s])
  BY DEF RiskInv, RiskTypes
<1>2. ASSUME NEW o \in OpenOrders, o.fresh, o.quantity > 0, Passed(o), Risk!Accept(o)
      PROVE  RiskInv' /\ limits_quantity' = limits_quantity
  BY <1>2, AcceptStep DEF Risk!Accept
<1>3. CASE Risk!Submit
  <2>1. PICK s \in Risk!Symbols, t \in RiskTrades :
          Risk!Accept(Risk!Order(s, t.side, t.quantity, t.type, t.price))
    BY <1>3 DEF Risk!Submit
  <2>2. t.side \in Risk!Sides /\ t.quantity \in Nat \ {0} /\ t.type \in Risk!OrderTypes /\ t.price \in RiskPrices
    BY DEF Risk!RiskAssumption
  <2> DEFINE o == Risk!Order(s, t.side, t.quantity, t.type, t.price)
  <2>3. o \in OpenOrders /\ o.quantity = t.quantity /\ ~o.exit /\ o.fresh
    BY <2>2, OrdersAre
  <2> HIDE DEF o
  <2>4. Risk!Accept(o)
    BY <2>1 DEF o
  <2>5. Passed(o) /\ o.quantity > 0
    BY <2>2, <2>3, <2>4 DEF Passed, Risk!Accept, Risk!Validates
  <2> QED  BY <1>1, <1>2, <2>3, <2>4, <2>5
<1>4. CASE Risk!Exit
  <2>1. PICK s \in Risk!Symbols : limits_quantity[s] # 0 /\ Risk!Accept(ExitOrder(s))
    BY <1>4 DEF Risk!Exit, ExitOrder
  <2>2. /\ ExitOrder(s) \in OpenOrders /\ ExitOrder(s).quantity > 0 /\ ExitOrder(s).fresh
        /\ Passed(ExitOrder(s))
    BY <2>1, ExitsAre DEF RiskInv, Passed
  <2> QED  BY <1>1, <1>2, <2>1, <2>2
<1>5. CASE Risk!Mark
  BY <1>1, <1>5, RiskMarkStep
<1>6. ASSUME NEW i \in Risk!Places, NEW lots \in 1 .. limits_open[i].quantity, NEW p \in RiskPrices,
             Risk!Fill(i, lots, p)
      PROVE  /\ RiskInv'
             /\ limits_limit.kind = "position" =>
                  \A s \in Risk!Symbols :
                    limits_quantity'[s] > limits_quantity[s] =>
                      limits_quantity'[s] <= limits_limit.max + limits_uncounted[s]
  BY <1>6, RiskFillStep
<1>7. ASSUME NEW i \in Risk!Places, NEW left \in 0 .. limits_open[i].quantity - 1, Risk!End(i, left)
      PROVE  RiskInv' /\ limits_quantity' = limits_quantity
  BY <1>7, EndStep DEF Risk!End
<1>8. CASE UNCHANGED Risk!vars
  <2>1. /\ UNCHANGED <<limits_limit, limits_cash, limits_quantity, limits_price>>
        /\ UNCHANGED <<limits_open, limits_uncounted>>
    BY <1>8 DEF Risk!vars
  <2>2. RiskTypes'
    BY <2>1 DEF RiskInv, RiskTypes, Risk!Symbols, Risk!Places
  <2>3. FreshPassed'
    BY <2>1, PassedStays DEF RiskInv, FreshPassed, Risk!Places
  <2>4. LongsFit'
    BY <2>1 DEF RiskInv, LongsFit, Risk!Symbols, Risk!Buys, Risk!Places
  <2> QED  BY <1>1, <2>1, <2>2, <2>3, <2>4 DEF RiskInv
<1> QED  BY <1>1, <1>3, <1>4, <1>5, <1>6, <1>7, <1>8 DEF Risk!Next

\* The first fill of an order that nothing preceded passes an overlay that is shut only
\* if no position grows.
LEMMA OverlayStep ==
  ASSUME Risk!RiskAssumption, RiskInv, limits_limit.kind = "overlay", ~limits_limit.new, ~limits_limit.market,
         NEW i \in Risk!Places, limits_open[i].fresh, NEW lots \in 1 .. limits_open[i].quantity,
         NEW p \in RiskPrices, Risk!Fill(i, lots, p), NEW s \in Risk!Symbols
  PROVE  Risk!Abs(limits_quantity'[s]) <= Risk!Abs(limits_quantity[s])
<1> DEFINE o == limits_open[i]
           d == IF o.side = "Buy" THEN lots ELSE -lots
           held == limits_quantity[o.symbol]
<1>1. o.symbol \in Risk!Symbols /\ Moves(o.symbol, d)
  BY FillsAre DEF RiskInv
<1>2. /\ o \in OpenOrders /\ o.quantity \in Nat /\ lots \in Nat \ {0} /\ lots <= o.quantity
      /\ o.side \in {"Buy", "Sell"} /\ o.type \in {"Market", "Limit", "Stop"} /\ held \in Int
      /\ limits_quantity[s] \in Int /\ Passed(o)
  BY <1>1 DEF RiskInv, RiskTypes, FreshPassed, OpenOrders, Risk!Sides, Risk!OrderTypes
<1>3. ~(Risk!Abs(held + Risk!Signed(o)) > Risk!Abs(held))
  <2>1. CASE o.exit
    BY <1>2, <2>1 DEF Passed, Risk!Signed, Risk!Abs
  <2>2. CASE ~o.exit
    <3>1. Risk!OverlayAllows(o)
      BY <1>2, <2>2 DEF Passed, Risk!Allows
    <3>2. o.type # "Market"
      BY <3>1 DEF Risk!OverlayAllows
    <3>3. Risk!ReferencePrice(o) > 0
      BY <1>2, <3>2, RiskNumbers DEF Risk!ReferencePrice, OpenOrders
    <3> QED  BY <3>1, <3>3 DEF Risk!OverlayAllows, Risk!Increases
  <2> QED  BY <2>1, <2>2
<1>4. s = o.symbol => limits_quantity'[s] = held + d
  BY <1>1 DEF Moves
<1>5. s # o.symbol => limits_quantity'[s] = limits_quantity[s]
  BY <1>1 DEF Moves
<1> HIDE DEF o
<1>6. Risk!Abs(held + d) <= Risk!Abs(held)
  BY <1>2, <1>3 DEF Risk!Abs, Risk!Signed
<1> QED  BY <1>2, <1>4, <1>5, <1>6 DEF Risk!Abs

\* The size of a position grows by no more than the order.
LEMMA Magnitude ==
  ASSUME NEW a \in Int, NEW d \in Int
  PROVE  /\ Risk!Abs(a) \in Nat /\ Risk!Abs(a + d) \in Nat
         /\ \A q \in Nat : d = q \/ d = -q => Risk!Abs(a + d) <= Risk!Abs(a) + q
BY DEF Risk!Abs

\* Products of whole numbers.
LEMMA Products ==
  ASSUME NEW a \in Int, NEW b \in Int, NEW p \in Int
  PROVE  a * p \in Int /\ (a + b) * p = a * p + b * p /\ b * p = p * b /\ (p >= 0 /\ a <= b => a * p <= b * p)
OBVIOUS

\* A fill at the price of the portfolio moves the gross exposure by no more than the
\* order, and leaves the equity as it is.
LEMMA FillAtThePrice ==
  ASSUME Risk!RiskAssumption, RiskTypes, NEW s \in Risk!Symbols, NEW d \in Int, NEW q \in Nat, d = q \/ d = -q,
         Moves(s, d), limits_quantity' \in [Risk!Symbols -> Int], limits_price' = limits_price,
         limits_cash' = limits_cash - limits_price[s] * d
  PROVE  /\ Risk!Gross \in Int /\ Risk!Equity \in Int /\ Risk!Equity' = Risk!Equity
         /\ Risk!Gross' \in Int /\ Risk!Gross' <= Risk!Gross + q * limits_price[s]
<1> DEFINE G == [t \in Risk!Symbols |-> Risk!Abs(limits_quantity[t]) * limits_price[t]]
           N == [t \in Risk!Symbols |-> limits_quantity[t] * limits_price[t]]
           H == [t \in Risk!Symbols |-> Risk!Abs(limits_quantity'[t]) * limits_price'[t]]
           M == [t \in Risk!Symbols |-> limits_quantity'[t] * limits_price'[t]]
           p == limits_price[s]
           held == limits_quantity[s]
<1>1. /\ \A t \in Risk!Symbols : limits_price[t] \in Nat /\ limits_quantity[t] \in Int /\ limits_quantity'[t] \in Int
      /\ RiskSymbols \in Nat /\ limits_cash \in Int
  BY DEF RiskTypes, Risk!RiskAssumption
<1>2. \A t \in Risk!Symbols : G[t] \in Int /\ N[t] \in Int /\ H[t] \in Int /\ M[t] \in Int
  <2> SUFFICES ASSUME NEW t \in Risk!Symbols PROVE G[t] \in Int /\ N[t] \in Int /\ H[t] \in Int /\ M[t] \in Int
    OBVIOUS
  <2>1. Risk!Abs(limits_quantity[t]) \in Int /\ Risk!Abs(limits_quantity'[t]) \in Int
    BY <1>1 DEF Risk!Abs
  <2> QED  BY <1>1, <2>1, Products
<1>3. /\ G \in Seq(Int) /\ N \in Seq(Int) /\ H \in Seq(Int) /\ M \in Seq(Int)
      /\ Len(G) = RiskSymbols /\ Len(N) = RiskSymbols /\ Len(H) = RiskSymbols /\ Len(M) = RiskSymbols
      /\ s \in 1 .. RiskSymbols
  <2> HIDE DEF G, N, H, M
  <2>1. G \in [1 .. RiskSymbols -> Int] /\ N \in [1 .. RiskSymbols -> Int] /\ H \in [1 .. RiskSymbols -> Int] /\ M \in [1 .. RiskSymbols -> Int]
    BY <1>2 DEF G, N, H, M, Risk!Symbols
  <2> QED  BY <1>1, <2>1 DEF Risk!Symbols
<1>4. \A t \in 1 .. RiskSymbols : t # s => H[t] = G[t] /\ M[t] = N[t]
  BY DEF Moves, Risk!Symbols
<1>5. /\ G[s] = Risk!Abs(held) * p /\ N[s] = held * p
      /\ H[s] = Risk!Abs(held + d) * p /\ M[s] = (held + d) * p
      /\ p \in Nat /\ held \in Int
  BY <1>1 DEF Moves
<1>6. H[s] <= G[s] + q * p /\ M[s] = N[s] + d * p /\ d * p = p * d /\ d * p \in Int /\ q * p \in Int
  <2> HIDE DEF G, N, H, M, p, held
  <2>1. Risk!Abs(held) \in Nat /\ Risk!Abs(held + d) \in Nat /\ Risk!Abs(held + d) <= Risk!Abs(held) + q
    BY <1>5, Magnitude
  <2>2. Risk!Abs(held + d) * p <= (Risk!Abs(held) + q) * p
    BY <1>5, <2>1, Products
  <2>3. (Risk!Abs(held) + q) * p = Risk!Abs(held) * p + q * p
    BY <1>5, <2>1, Products
  <2>4. (held + d) * p = held * p + d * p /\ d * p = p * d /\ d * p \in Int /\ q * p \in Int
    BY <1>5, Products
  <2> QED  BY <1>5, <2>2, <2>3, <2>4
<1>7. /\ Risk!Gross = SumOf(G) /\ Risk!Net = SumOf(N) /\ Risk!Gross' = SumOf(H) /\ Risk!Net' = SumOf(M)
  BY RiskSums DEF Risk!Gross, Risk!Net, Risk!Symbols
<1> HIDE DEF G, N, H, M
<1>8. /\ SumOf(H) = SumOf(G) - G[s] + H[s] /\ SumOf(M) = SumOf(N) - N[s] + M[s]
      /\ SumOf(G) \in Int /\ SumOf(N) \in Int /\ SumOf(H) \in Int /\ SumOf(M) \in Int
      /\ G[s] \in Int /\ N[s] \in Int /\ H[s] \in Int /\ M[s] \in Int
  <2>1. /\ SumOf(G) \in Int /\ SumOf(N) \in Int /\ SumOf(H) \in Int /\ SumOf(M) \in Int
    BY <1>3, SumType
  <2>2. SumOf(H) = SumOf(G) - G[s] + H[s]
    <3>1. G \in Seq(Int) /\ H \in Seq(Int) /\ s \in 1 .. Len(G) /\ Len(H) = Len(G)
      BY <1>3
    <3>2. \A t \in 1 .. Len(G) : t # s => H[t] = G[t]
      BY <1>3, <1>4
    <3> QED  BY <3>1, <3>2, SumOfChanged
  <2>3. SumOf(M) = SumOf(N) - N[s] + M[s]
    <3>1. N \in Seq(Int) /\ M \in Seq(Int) /\ s \in 1 .. Len(N) /\ Len(M) = Len(N)
      BY <1>3
    <3>2. \A t \in 1 .. Len(N) : t # s => M[t] = N[t]
      BY <1>3, <1>4
    <3> QED  BY <3>1, <3>2, SumOfChanged
  <2> QED  BY <1>2, <2>1, <2>2, <2>3
<1>9. Risk!Equity = limits_cash + SumOf(N) /\ Risk!Equity' = limits_cash' + SumOf(M)
  BY <1>7 DEF Risk!Equity
<1> DEFINE turnover == d * p
           size == q * p
<1>10. limits_cash' = limits_cash - turnover
  BY <1>6
<1> HIDE DEF p, held
<1>11. turnover \in Int /\ size \in Int /\ M[s] = N[s] + turnover /\ H[s] <= G[s] + size
  BY <1>6
<1> HIDE DEF turnover, size
<1>12. Risk!Equity' = Risk!Equity /\ Risk!Equity \in Int
  BY <1>1, <1>8, <1>9, <1>10, <1>11
<1>13. SumOf(H) <= SumOf(G) + size
  BY <1>8, <1>11
<1> QED  BY <1>7, <1>8, <1>12, <1>13 DEF size, p

\* The first fill of a limit order that nothing preceded leaves the limits kept.
LEMMA ExposureStep ==
  ASSUME Risk!RiskAssumption, RiskInv, limits_limit.kind \in {"gross", "leverage", "sector"},
         NEW i \in Risk!Places, limits_open[i].type = "Limit", limits_open[i].fresh,
         limits_price[limits_open[i].symbol] <= limits_open[i].limit_price,
         NEW lots \in 1 .. limits_open[i].quantity, Risk!Fill(i, lots, limits_price[limits_open[i].symbol])
  PROVE  Risk!WithinLimit'
<1> DEFINE o == limits_open[i]
           s == o.symbol
           p == limits_price[s]
           d == IF o.side = "Buy" THEN lots ELSE -lots
<1>1. /\ o \in OpenOrders /\ s \in Risk!Symbols /\ ~o.exit /\ o.limit_price \in RiskPrices
      /\ o.quantity \in Nat /\ lots \in Nat \ {0} /\ lots <= o.quantity /\ Passed(o)
      /\ p \in RiskPrices
  BY DEF RiskInv, RiskTypes, FreshPassed, OpenOrders
<1>2. /\ o.limit_price \in Nat \ {0} /\ p \in Nat /\ p <= o.limit_price
      /\ limits_limit.max \in Nat /\ d \in Int /\ (d = lots \/ d = -lots)
  BY <1>1, RiskNumbers DEF RiskInv, RiskTypes
<1>3. /\ limits_limit' = limits_limit /\ Moves(s, d) /\ limits_cash' = limits_cash - p * d
      /\ limits_price' = limits_price /\ limits_quantity' \in [Risk!Symbols -> Int]
  <2>1. /\ RiskTypes' /\ limits_limit' = limits_limit /\ Moves(s, d) /\ limits_cash' = limits_cash - p * d
        /\ limits_price' = [limits_price EXCEPT ![s] = p]
    BY <1>1, FillsAre DEF RiskInv
  <2>2. limits_price' = limits_price
    BY <1>1, <2>1 DEF RiskInv, RiskTypes
  <2> QED  BY <2>1, <2>2 DEF RiskTypes, Risk!Symbols
<1>4. Risk!Allows(o) /\ Risk!Exposure(o) = Risk!Gross + o.quantity * o.limit_price
  BY <1>1 DEF Passed, Risk!Exposure
<1> DEFINE step == lots * p
           size == o.quantity * o.limit_price
           ceiling == limits_limit.max * Risk!Equity
<1> HIDE DEF o, p, d
<1>5. /\ Risk!Gross \in Int /\ Risk!Equity \in Int /\ Risk!Equity' = Risk!Equity
      /\ Risk!Gross' \in Int /\ Risk!Gross' <= Risk!Gross + step
  <2>1. lots \in Nat /\ s \in Risk!Symbols /\ RiskTypes
    BY <1>1 DEF RiskInv
  <2> QED  BY <1>2, <1>3, <2>1, FillAtThePrice DEF p
<1>6. step \in Int /\ size \in Int /\ ceiling \in Int /\ step <= size
  <2>1. o.limit_price \in Int /\ lots \in Int /\ o.quantity \in Int /\ p \in Int
    BY <1>1, <1>2
  <2>2. step <= o.quantity * p
    BY <1>1, <1>2, <2>1, Products
  <2>3. o.quantity * p = p * o.quantity /\ size = o.limit_price * o.quantity
    BY <2>1, Products
  <2>4. p * o.quantity <= o.limit_price * o.quantity
    BY <1>1, <1>2, <2>1, Products
  <2>5. step \in Int /\ size \in Int /\ ceiling \in Int /\ p * o.quantity \in Int
    BY <1>2, <1>5, <2>1, Products
  <2> QED  BY <2>2, <2>3, <2>4, <2>5
<1>7. CASE limits_limit.kind = "gross"
  <2>1. Risk!Gross + size <= limits_limit.max
    BY <1>2, <1>4, <1>7 DEF Risk!Allows
  <2>2. Risk!Gross' <= limits_limit.max
    <3> HIDE DEF size, step
    <3> QED  BY <1>2, <1>5, <1>6, <2>1
  <2> QED  BY <1>3, <1>7, <2>2 DEF Risk!WithinLimit
<1>8. CASE limits_limit.kind \in {"leverage", "sector"}
  <2>1. Risk!Equity > 0 => Risk!Gross + size <= ceiling
    <3>1. o.limit_price > 0
      BY <1>2
    <3>2. Risk!Equity > 0 => Risk!Exposure(o) <= limits_limit.max * Risk!Equity
      BY <1>4, <1>8, <3>1 DEF Risk!Allows
    <3> QED  BY <1>4, <3>2
  <2>2. Risk!Equity > 0 => Risk!Gross' <= ceiling
    <3> HIDE DEF size, step, ceiling
    <3> QED  BY <1>5, <1>6, <2>1
  <2>3. Risk!Equity' > 0 => Risk!Gross' <= limits_limit'.max * Risk!Equity'
    BY <1>3, <1>5, <2>2
  <2> QED  BY <1>3, <1>8, <2>3 DEF Risk!WithinLimit
<1> QED  BY <1>7, <1>8

\* Nothing is open at the start.
LEMMA RiskAtStart ==
  ASSUME Risk!RiskAssumption, Risk!Init
  PROVE  RiskInv
<1>1. limits_open = [i \in Risk!Places |-> Risk!NoOrder] /\ limits_uncounted = [s \in Risk!Symbols |-> 0]
  BY DEF Risk!Init
<1>2. RiskTypes
  <2>1. limits_quantity \in [Risk!Symbols -> Int]
    <3>1. \A h \in RiskHoldings : h \in Int
      BY DEF Risk!RiskAssumption
    <3> QED  BY <3>1 DEF Risk!Init
  <2>2. limits_cash \in Int
    BY DEF Risk!Init, Risk!RiskAssumption
  <2>3. limits_open \in [Risk!Places -> OpenOrders]
    BY <1>1, NoOrders
  <2> QED  BY <1>1, <2>1, <2>2, <2>3 DEF Risk!Init, RiskTypes
<1>3. FreshPassed
  BY <1>1, NoOrders DEF FreshPassed
<1>4. ASSUME NEW s \in Risk!Symbols PROVE Risk!Buys(s) = 0
  <2> DEFINE B == [i \in Risk!Places |-> BuyOf(s, limits_open[i])]
             Z == [i \in 0 .. Len(B) |-> 0]
  <2>1. Risk!Buys(s) = SumOf(B)
    BY RiskSums DEF Risk!Buys, BuyOf
  <2>2. B \in [1 .. RiskOpen -> {0}] /\ RiskOpen \in Nat
    BY <1>1, NoOrders, RiskNumbers DEF Risk!Places
  <2> HIDE DEF B
  <2>3. B \in Seq(Int) /\ Len(B) \in Nat /\ \A i \in 1 .. Len(B) : B[i] = 0
    BY <2>2
  <2>4. Z \in [0 .. Len(B) -> Int] /\ Z[Len(B)] = 0 /\ Z[0] = 0 /\ \A i \in 1 .. Len(B) : Z[i] = Z[i - 1] + B[i]
    BY <2>3
  <2> HIDE DEF Z
  <2>5. SumOf(B) \in Int /\ Z[Len(B)] = Z[0] + SumOf(B)
    BY <2>3, <2>4, SumUnique
  <2> QED  BY <2>1, <2>4, <2>5
<1> QED  BY <1>2, <1>3, <1>4 DEF RiskInv, LongsFit

\* What steps of the limits keep of them.
LEMMA LimitsAreKept == Risk!RiskAssumption => (Risk!Spec => Risk!LongsAreCapped /\ Risk!ExposureStaysInLimit /\ Risk!OverlayStopsGrowth)
<1> SUFFICES ASSUME Risk!RiskAssumption
             PROVE  Risk!Spec => Risk!LongsAreCapped /\ Risk!ExposureStaysInLimit /\ Risk!OverlayStopsGrowth
  OBVIOUS
<1>1. Risk!Init => RiskInv
  BY RiskAtStart
<1>2. RiskInv /\ [Risk!Next]_(Risk!vars) => RiskInv'
  BY RiskSteps
<1>3. RiskInv /\ [Risk!Next]_(Risk!vars) =>
        [limits_limit.kind = "position" =>
           \A s \in Risk!Symbols :
             limits_quantity'[s] > limits_quantity[s] =>
               limits_quantity'[s] <= limits_limit.max + limits_uncounted[s]]_(Risk!vars)
  BY RiskSteps
<1>4. RiskInv /\ [Risk!Next]_(Risk!vars) =>
        [\A i \in Risk!Places :
           /\ limits_limit.kind \in {"gross", "leverage", "sector"}
           /\ limits_open[i].type = "Limit" /\ limits_open[i].fresh
           /\ limits_price[limits_open[i].symbol] <= limits_open[i].limit_price
           /\ (\E lots \in 1 .. limits_open[i].quantity : Risk!Fill(i, lots, limits_price[limits_open[i].symbol]))
           => Risk!WithinLimit']_(Risk!vars)
  BY ExposureStep
<1>5. RiskInv /\ [Risk!Next]_(Risk!vars) =>
        [limits_limit.kind = "overlay" /\ ~limits_limit.new /\ ~limits_limit.market =>
           \A i \in Risk!Places :
             limits_open[i].fresh
             /\ (\E lots \in 1 .. limits_open[i].quantity, p \in RiskPrices : Risk!Fill(i, lots, p)) =>
               \A s \in Risk!Symbols : Risk!Abs(limits_quantity'[s]) <= Risk!Abs(limits_quantity[s])]_(Risk!vars)
  BY OverlayStep
<1> QED  BY <1>1, <1>2, <1>3, <1>4, <1>5, PTL DEF Risk!Spec, Risk!LongsAreCapped, Risk!ExposureStaysInLimit, Risk!OverlayStopsGrowth

\* A behaviour of the components has one of the limits in it.
LEMMA RiskRuns == PartsSpec => Risk!Spec
<1>1. PartsInit => Risk!Init
  BY DEF PartsInit
<1>2. [PartsNext]_allVars => [Risk!Next]_(Risk!vars)
  BY DEF PartsNext, Still, allVars, limitsVars, Risk!vars
<1>. QED BY <1>1, <1>2, PTL DEF PartsSpec, Risk!Spec

\* Whatever the symbols, prices, holdings, orders and limits are, and however many orders
\* are open: a fill takes a long position above the position limit by no more than the
\* buys that were open, and not counted, when the last one was let pass; a limit order
\* filled before anything else leaves the portfolio within the limit that let it pass;
\* and an overlay that allows no new exposure keeps such a fill from growing a position.
THEOREM LimitsStayHeld == PartsSpec => LimitsHold
<1>1. Risk!RiskAssumption
  BY PartsAssumption
<1>. QED BY <1>1, RiskRuns, LimitsAreKept, PTL DEF LimitsHold, LongsAreCapped, ExposureStaysInLimit, OverlayStopsGrowth

-----------------------------------------------------------------------------
(***************************************************************************)
(* The regime.                                                             *)
(***************************************************************************)
Probabilities == [Regime!Regimes -> Int]

\* The first of the greatest.
Leads(p, r) == \A q \in Regime!Regimes : p[q] <= p[r] /\ (q < r => p[q] < p[r])

\* max_element() has exactly one result.
LEMMA OneLeads ==
  ASSUME NEW p \in Probabilities
  PROVE  /\ Regime!Dominant(p) \in Regime!Regimes /\ Leads(p, Regime!Dominant(p))
         /\ \A r \in Regime!Regimes : Leads(p, r) => r = Regime!Dominant(p)
<1>1. Regime!Regimes = {0, 1, 2, 3}
  BY DEF Regime!Regimes
<1>2. p[0] \in Int /\ p[1] \in Int /\ p[2] \in Int /\ p[3] \in Int
  BY <1>1 DEF Probabilities
<1>3. \E r \in Regime!Regimes : Leads(p, r)
  <2>1. CASE p[1] <= p[0] /\ p[2] <= p[0] /\ p[3] <= p[0]
    BY <1>1, <1>2, <2>1 DEF Leads
  <2>2. CASE p[0] < p[1] /\ p[2] <= p[1] /\ p[3] <= p[1]
    BY <1>1, <1>2, <2>2 DEF Leads
  <2>3. CASE p[0] < p[2] /\ p[1] < p[2] /\ p[3] <= p[2]
    BY <1>1, <1>2, <2>3 DEF Leads
  <2>4. CASE p[0] < p[3] /\ p[1] < p[3] /\ p[2] < p[3]
    BY <1>1, <1>2, <2>4 DEF Leads
  <2> QED  BY <1>2, <2>1, <2>2, <2>3, <2>4
<1>4. Regime!Dominant(p) \in Regime!Regimes /\ Leads(p, Regime!Dominant(p))
  BY <1>3 DEF Regime!Dominant, Leads
<1>5. \A r, q \in Regime!Regimes : Leads(p, r) /\ Leads(p, q) => r = q
  <2> SUFFICES ASSUME NEW r \in Regime!Regimes, NEW q \in Regime!Regimes, Leads(p, r), Leads(p, q)
               PROVE  r = q
    OBVIOUS
  <2>1. r \in Int /\ q \in Int /\ p[r] \in Int /\ p[q] \in Int
    BY <1>1, <1>2
  <2>2. p[q] <= p[r] /\ p[r] <= p[q] /\ (q < r => p[q] < p[r]) /\ (r < q => p[r] < p[q])
    BY DEF Leads
  <2> QED  BY <2>1, <2>2
<1> QED  BY <1>4, <1>5

\* The ensemble's sums are sums.
LEMMA RegimeSums == ASSUME NEW s PROVE Regime!SumOf(s) = SumOf(s)
BY DEF Regime!SumOf, Regime!Totals, SumOf, Totals

\* The tracking's counts are cardinalities.
LEMMA RegimeCounts == ASSUME NEW S PROVE Regime!Cardinality(S) = Cardinality(S)
BY DEF Regime!Cardinality, Cardinality

\* Sums follow their terms.
LEMMA SumsCompare ==
  ASSUME NEW n \in Nat, NEW s \in [1 .. n -> Int], NEW t \in [1 .. n -> Int],
         \A i \in 1 .. n : s[i] <= t[i]
  PROVE  /\ SumOf(s) \in Int /\ SumOf(t) \in Int /\ SumOf(s) <= SumOf(t)
         /\ n # 0 /\ (\A i \in 1 .. n : s[i] < t[i]) => SumOf(s) < SumOf(t)
<1> DEFINE d == [i \in 1 .. n |-> t[i] - s[i]]
           S == Totals(s)
           D == Totals(d)
           g == [i \in 0 .. n |-> S[i] + D[i]]
<1>1. /\ s \in Seq(Int) /\ t \in Seq(Int) /\ Len(s) = n /\ Len(t) = n
      /\ \A i \in 1 .. n : s[i] \in Int /\ t[i] \in Int
  OBVIOUS
<1>2. /\ d \in [1 .. n -> Nat] /\ \A i \in 1 .. n : d[i] = t[i] - s[i] /\ d[i] \in Nat
  OBVIOUS
<1> HIDE DEF d
<1>3. d \in Seq(Nat) /\ d \in Seq(Int) /\ Len(d) = n
  BY <1>2
<1>4. /\ S \in [0 .. n -> Int] /\ S[0] = 0 /\ \A i \in 1 .. n : S[i] = S[i - 1] + s[i]
  BY <1>1, TotalsOfPrefixes
<1>5. /\ D \in [0 .. n -> Int] /\ D[0] = 0 /\ \A i \in 1 .. n : D[i] = D[i - 1] + d[i]
  BY <1>3, TotalsOfPrefixes
<1>6. SumOf(s) = S[n] /\ SumOf(d) = D[n]
  BY <1>1, <1>3 DEF SumOf
<1> HIDE DEF S, D
<1>7. g \in [0 .. n -> Int] /\ \A i \in 1 .. n : g[i] = g[i - 1] + t[i]
  <2>1. g \in [0 .. n -> Int]
    BY <1>4, <1>5
  <2>2. ASSUME NEW i \in 1 .. n PROVE g[i] = g[i - 1] + t[i]
    <3>1. i \in 0 .. n /\ i - 1 \in 0 .. n
      OBVIOUS
    <3>2. g[i] = S[i] + D[i] /\ g[i - 1] = S[i - 1] + D[i - 1]
      BY <3>1
    <3>3. S[i - 1] \in Int /\ D[i - 1] \in Int /\ s[i] \in Int /\ t[i] \in Int
      BY <1>1, <1>4, <1>5, <3>1
    <3>4. S[i] = S[i - 1] + s[i] /\ D[i] = D[i - 1] + (t[i] - s[i])
      BY <1>2, <1>4, <1>5
    <3> QED  BY <3>2, <3>3, <3>4
  <2> QED  BY <2>1, <2>2
<1>8. g[0] = 0 /\ g[n] = SumOf(s) + SumOf(d)
  BY <1>4, <1>5, <1>6
<1> HIDE DEF g
<1>9. SumOf(t) \in Int /\ SumOf(t) = SumOf(s) + SumOf(d)
  <2>1. SumOf(t) \in Int /\ g[n] = g[0] + SumOf(t)
    BY <1>1, <1>7, SumUnique
  <2> QED  BY <1>8, <2>1
<1>10. SumOf(d) \in Nat /\ SumOf(s) \in Int
  BY <1>1, <1>3, SumOfNaturals, SumType
<1>11. ASSUME n # 0, \A i \in 1 .. n : s[i] < t[i] PROVE SumOf(d) > 0
  <2> DEFINE e == [d EXCEPT ![1] = 0]
  <2>1. 1 \in 1 .. n /\ d[1] \in Nat /\ d[1] > 0
    BY <1>1, <1>2, <1>11
  <2>2. e \in [1 .. n -> Nat] /\ e[1] = 0 /\ \A j \in 1 .. n : j # 1 => e[j] = d[j]
    BY <1>2, <2>1
  <2> HIDE DEF e
  <2>3. e \in Seq(Nat) /\ e \in Seq(Int) /\ Len(e) = n
    BY <2>2
  <2>4. SumOf(e) = SumOf(d) - d[1] + e[1]
    <3>1. 1 \in 1 .. Len(d) /\ Len(e) = Len(d) /\ \A j \in 1 .. Len(d) : j # 1 => e[j] = d[j]
      BY <1>3, <2>1, <2>2, <2>3
    <3> QED  BY <1>3, <2>3, <3>1, SumOfChanged
  <2>5. SumOf(e) \in Nat
    BY <2>3, SumOfNaturals
  <2> QED  BY <1>10, <2>1, <2>2, <2>4, <2>5
<1> QED  BY <1>9, <1>10, <1>11

AnswersFit == regime_answers \in [Regime!Detectors -> [Regime!Regimes -> 0 .. FullCertainty]]

\* The most certain of answers is one, and says what it is certain of.
LEMMA CertainAnswers ==
  ASSUME Regime!TrackingAssumption, NEW r \in Regime!Regimes
  PROVE  /\ Regime!Certain(r) \in [Regime!Regimes -> 0 .. FullCertainty]
         /\ Regime!Certain(r)[r] = FullCertainty
         /\ \A q \in Regime!Regimes : q # r => Regime!Certain(r)[q] = 0
         /\ Regime!Dominant(Regime!Certain(r)) = r
<1>1. FullCertainty \in Nat /\ FullCertainty > 0
  BY DEF Regime!TrackingAssumption
<1>2. /\ Regime!Certain(r) \in [Regime!Regimes -> 0 .. FullCertainty]
      /\ Regime!Certain(r)[r] = FullCertainty
      /\ \A q \in Regime!Regimes : q # r => Regime!Certain(r)[q] = 0
  BY <1>1 DEF Regime!Certain
<1>3. Regime!Regimes \subseteq Int
  BY DEF Regime!Regimes
<1>4. Regime!Certain(r) \in Probabilities /\ Leads(Regime!Certain(r), r)
  BY <1>1, <1>2, <1>3 DEF Probabilities, Leads
<1> QED  BY <1>2, <1>4, OneLeads

\* What a detector adds to the votes for a regime, but for a majority.
Term(given, d, r) ==
  IF regime_voting = "average" THEN EnsembleWeights[d] * given[d][r]
  ELSE EnsembleWeights[d] * Regime!Confidence(given[d]) * given[d][r]
Terms(given, r) == [d \in 1 .. EnsembleSize |-> Term(given, d, r)]
Voters(given, r) == {d \in 1 .. EnsembleSize : Regime!Dominant(given[d]) = r}
VotingFits == regime_voting \in {"majority", "average", "confidence"}

\* The three ways to count.
LEMMA VotesAre ==
  ASSUME VotingFits, NEW given, NEW r \in Regime!Regimes
  PROVE  Regime!Votes(given, r) = IF regime_voting = "majority" THEN Cardinality(Voters(given, r))
                                  ELSE SumOf(Terms(given, r))
<1>1. CASE regime_voting = "majority"
  BY <1>1, RegimeCounts DEF Regime!Votes, Voters, Regime!Detectors
<1>2. CASE regime_voting = "average"
  <2>1. Terms(given, r) = [d \in 1 .. EnsembleSize |-> EnsembleWeights[d] * given[d][r]]
    BY <1>2 DEF Terms, Term
  <2> QED  BY <1>2, <2>1, RegimeSums DEF Regime!Votes, Regime!Detectors
<1>3. CASE regime_voting = "confidence"
  <2>1. Terms(given, r) = [d \in 1 .. EnsembleSize |->
                             EnsembleWeights[d] * Regime!Confidence(given[d]) * given[d][r]]
    BY <1>3 DEF Terms, Term
  <2> QED  BY <1>3, <2>1, RegimeSums DEF Regime!Votes, Regime!Detectors
<1> QED  BY <1>1, <1>2, <1>3 DEF VotingFits

\* Products grow with their factors.
LEMMA ProductsCompare ==
  ASSUME NEW a \in Nat, NEW b \in Nat, NEW c \in Nat, NEW d \in Nat, a <= c, b <= d
  PROVE  /\ a * b \in Nat /\ a * b <= c * d
         /\ a # 0 /\ b < d => a * b < c * d
<1>1. a * b \in Nat /\ c * b \in Nat /\ c * d \in Nat /\ a * d \in Nat
  OBVIOUS
<1>2. a * b <= c * b
  BY SMT
<1>3. c * b <= c * d
  BY SMT
<1>4. a # 0 /\ b < d => a * b < a * d
  BY SMT
<1>5. a * d <= c * d
  BY SMT
<1> QED  BY <1>1, <1>2, <1>3, <1>4, <1>5

Fits(given) == given \in [1 .. EnsembleSize -> [Regime!Regimes -> 0 .. FullCertainty]]

\* A term is greatest for the regime its detector says, and no detector adds more
\* than one that is certain.
LEMMA TermsCompare ==
  ASSUME Regime!TrackingAssumption, NEW given, Fits(given), NEW d \in 1 .. EnsembleSize,
         NEW r \in Regime!Regimes
  PROVE  /\ Term(given, d, r) \in Nat
         /\ Regime!Dominant(given[d]) = r =>
              \A q \in Regime!Regimes : /\ Term(given, d, q) <= Term(given, d, r)
                                        /\ q < r => Term(given, d, q) < Term(given, d, r)
         /\ \A sure : sure[d] = Regime!Certain(r) =>
              /\ Term(given, d, r) <= Term(sure, d, r)
              /\ \A q \in Regime!Regimes : q # r => Term(sure, d, q) <= Term(given, d, q)
<1> DEFINE p == given[d]
           w == EnsembleWeights[d]
           c == Regime!Confidence(p)
           k == IF regime_voting = "average" THEN w ELSE w * c
<1>1. w \in Nat /\ w # 0 /\ FullCertainty \in Nat /\ FullCertainty # 0
  BY DEF Regime!TrackingAssumption, Regime!Detectors
<1>2. p \in [Regime!Regimes -> 0 .. FullCertainty]
  BY DEF Fits
<1>3. \A q \in Regime!Regimes : p[q] \in Nat /\ p[q] <= FullCertainty
  BY <1>1, <1>2
<1>4. p \in Probabilities
  BY <1>1, <1>2 DEF Probabilities
<1>5. c \in Nat /\ c <= FullCertainty /\ c = p[Regime!Dominant(p)]
  BY <1>3, <1>4, OneLeads DEF Regime!Confidence
<1>6. \A q \in Regime!Regimes : Term(given, d, q) = k * p[q]
  BY DEF Term
<1>7. k \in Nat
  BY <1>1, <1>5, ProductsCompare
<1>8. \A q \in Regime!Regimes : Term(given, d, q) \in Nat
  BY <1>3, <1>6, <1>7, ProductsCompare
<1>9. ASSUME Regime!Dominant(p) = r, NEW q \in Regime!Regimes
      PROVE  Term(given, d, q) <= Term(given, d, r) /\ (q < r => Term(given, d, q) < Term(given, d, r))
  <2>1. p[q] <= p[r] /\ (q < r => p[q] < p[r])
    BY <1>4, <1>9, OneLeads DEF Leads
  <2>2. q < r => k # 0
    <3>1. q < r => c # 0
      BY <1>3, <1>5, <1>9, <2>1
    <3>2. c # 0 => w * c # 0
      BY <1>1, <1>5
    <3> QED  BY <1>1, <3>1, <3>2
  <2> HIDE DEF k, p
  <2>3. k * p[q] <= k * p[r] /\ (q < r => k * p[q] < k * p[r])
    BY <1>3, <1>7, <2>1, <2>2, ProductsCompare
  <2> QED  BY <1>6, <2>3
<1>10. ASSUME NEW sure, sure[d] = Regime!Certain(r)
       PROVE  /\ Term(given, d, r) <= Term(sure, d, r)
              /\ \A q \in Regime!Regimes : q # r => Term(sure, d, q) <= Term(given, d, q)
  <2> DEFINE m == IF regime_voting = "average" THEN w ELSE w * FullCertainty
  <2>1. /\ sure[d][r] = FullCertainty
        /\ \A q \in Regime!Regimes : q # r => sure[d][q] = 0
        /\ Regime!Confidence(sure[d]) = FullCertainty
    BY <1>10, CertainAnswers DEF Regime!Confidence
  <2>2. Term(sure, d, r) = m * FullCertainty
    BY <2>1 DEF Term
  <2>3. \A q \in Regime!Regimes : q # r => Term(sure, d, q) = m * 0
    BY <2>1 DEF Term
  <2>4. w * c <= w * FullCertainty /\ w * FullCertainty \in Nat
    BY <1>1, <1>5, ProductsCompare
  <2>5. m \in Nat /\ k <= m
    BY <1>1, <2>4
  <2>6. m * 0 = 0
    <3> HIDE DEF m
    <3> QED  BY <2>5
  <2> HIDE DEF k, m, p
  <2>7. k * p[r] <= m * FullCertainty
    BY <1>1, <1>3, <1>7, <2>5, ProductsCompare
  <2>8. ASSUME NEW q \in Regime!Regimes, q # r PROVE Term(sure, d, q) <= Term(given, d, q)
    BY <1>8, <2>3, <2>6, <2>8
  <2> QED  BY <1>6, <2>2, <2>7, <2>8
<1> QED  BY <1>8, <1>9, <1>10

VotesOf(given) == [r \in Regime!Regimes |-> Regime!Votes(given, r)]

\* Votes are numbers.
LEMMA VotesFit ==
  ASSUME VotingFits, Regime!TrackingAssumption, NEW given, Fits(given)
  PROVE  /\ VotesOf(given) \in Probabilities
         /\ \A r \in Regime!Regimes :
              /\ IsFiniteSet(Voters(given, r)) /\ Cardinality(Voters(given, r)) \in Nat
              /\ Terms(given, r) \in [1 .. EnsembleSize -> Int] /\ SumOf(Terms(given, r)) \in Int
<1>1. EnsembleSize \in Nat /\ EnsembleSize # 0
  BY DEF Regime!TrackingAssumption
<1>2. ASSUME NEW r \in Regime!Regimes
      PROVE  /\ IsFiniteSet(Voters(given, r)) /\ Cardinality(Voters(given, r)) \in Nat
             /\ Terms(given, r) \in [1 .. EnsembleSize -> Int] /\ SumOf(Terms(given, r)) \in Int
  <2>1. IsFiniteSet(1 .. EnsembleSize)
    BY <1>1, FS_Interval
  <2>2. Voters(given, r) \in SUBSET (1 .. EnsembleSize)
    BY DEF Voters
  <2>3. IsFiniteSet(Voters(given, r)) /\ Cardinality(Voters(given, r)) \in Nat
    BY <2>1, <2>2, FS_Subset, FS_CardinalityType
  <2>4. Terms(given, r) \in [1 .. EnsembleSize -> Int]
    BY TermsCompare DEF Terms
  <2>5. Terms(given, r) \in Seq(Int)
    BY <1>1, <2>4
  <2> QED  BY <2>3, <2>4, <2>5, SumType
<1>3. ASSUME NEW r \in Regime!Regimes PROVE Regime!Votes(given, r) \in Int
  BY <1>2, <1>3, VotesAre
<1> QED  BY <1>2, <1>3 DEF VotesOf, Probabilities

\* A unanimous ensemble says what its members say.
LEMMA OneMind ==
  ASSUME VotingFits, Regime!TrackingAssumption, NEW given, Fits(given), NEW r \in Regime!Regimes,
         \A d \in 1 .. EnsembleSize : Regime!Dominant(given[d]) = r
  PROVE  Regime!Combined(given) = r
<1>1. EnsembleSize \in Nat /\ EnsembleSize # 0
  BY DEF Regime!TrackingAssumption
<1>2. ASSUME NEW q \in Regime!Regimes
      PROVE  /\ Regime!Votes(given, q) <= Regime!Votes(given, r)
             /\ q < r => Regime!Votes(given, q) < Regime!Votes(given, r)
  <2>1. CASE regime_voting = "majority"
    <3>1. Regime!Votes(given, q) = Cardinality(Voters(given, q))
          /\ Regime!Votes(given, r) = Cardinality(Voters(given, r))
      BY <2>1, VotesAre
    <3>2. Voters(given, r) = 1 .. EnsembleSize
      BY DEF Voters
    <3>3. Cardinality(Voters(given, r)) = EnsembleSize
      BY <1>1, <3>2, FS_Interval
    <3>4. CASE q = r
      BY <1>1, <3>1, <3>3, <3>4 DEF Regime!Regimes
    <3>5. CASE q # r
      <4>1. Voters(given, q) = {}
        BY <3>5 DEF Voters
      <4>2. Cardinality(Voters(given, q)) = 0
        BY <4>1, FS_EmptySet
      <4> QED  BY <1>1, <3>1, <3>3, <4>2
    <3> QED  BY <3>4, <3>5
  <2>2. CASE regime_voting # "majority"
    <3>1. Regime!Votes(given, q) = SumOf(Terms(given, q)) /\ Regime!Votes(given, r) = SumOf(Terms(given, r))
      BY <2>2, VotesAre
    <3>2. Terms(given, q) \in [1 .. EnsembleSize -> Int] /\ Terms(given, r) \in [1 .. EnsembleSize -> Int]
      BY VotesFit
    <3>3. \A d \in 1 .. EnsembleSize : Terms(given, q)[d] <= Terms(given, r)[d]
                                       /\ (q < r => Terms(given, q)[d] < Terms(given, r)[d])
      BY TermsCompare DEF Terms
    <3> QED  BY <1>1, <3>1, <3>2, <3>3, SumsCompare
  <2> QED  BY <2>1, <2>2
<1>3. Leads(VotesOf(given), r)
  BY <1>2 DEF Leads, VotesOf
<1> QED  BY <1>3, VotesFit, OneLeads DEF Regime!Combined, VotesOf

\* A member that comes round to the result does not overturn it.
LEMMA ConvertsConfirm ==
  ASSUME VotingFits, Regime!TrackingAssumption, NEW given, Fits(given), NEW d \in 1 .. EnsembleSize
  PROVE  Regime!Combined([given EXCEPT ![d] = Regime!Certain(Regime!Combined(given))]) = Regime!Combined(given)
<1> DEFINE r == Regime!Combined(given)
           sure == [given EXCEPT ![d] = Regime!Certain(r)]
<1>1. EnsembleSize \in Nat /\ EnsembleSize # 0
  BY DEF Regime!TrackingAssumption
<1>2. r \in Regime!Regimes /\ Leads(VotesOf(given), r)
  BY VotesFit, OneLeads DEF Regime!Combined, VotesOf
<1> HIDE DEF r
<1>3. /\ Fits(sure) /\ sure[d] = Regime!Certain(r)
      /\ \A e \in 1 .. EnsembleSize : e # d => sure[e] = given[e]
  BY <1>2, CertainAnswers DEF Fits
<1>4. Regime!Dominant(sure[d]) = r
  BY <1>2, <1>3, CertainAnswers
<1> HIDE DEF sure
<1>5. ASSUME NEW q \in Regime!Regimes
      PROVE  /\ Cardinality(Voters(given, r)) <= Cardinality(Voters(sure, r))
             /\ q # r => Cardinality(Voters(sure, q)) <= Cardinality(Voters(given, q))
  <2>1. Voters(given, r) \subseteq Voters(sure, r)
    BY <1>3, <1>4 DEF Voters
  <2>2. q # r => Voters(sure, q) \subseteq Voters(given, q)
    BY <1>3, <1>4 DEF Voters
  <2> QED  BY <1>2, <1>3, <2>1, <2>2, VotesFit, FS_Subset
<1>6. ASSUME NEW q \in Regime!Regimes
      PROVE  /\ SumOf(Terms(given, r)) <= SumOf(Terms(sure, r))
             /\ q # r => SumOf(Terms(sure, q)) <= SumOf(Terms(given, q))
  <2>1. ASSUME NEW e \in 1 .. EnsembleSize
        PROVE  /\ Term(given, e, r) <= Term(sure, e, r)
               /\ q # r => Term(sure, e, q) <= Term(given, e, q)
    <3>1. CASE e = d
      BY <1>2, <1>3, <3>1, TermsCompare
    <3>2. CASE e # d
      <4>1. sure[e] = given[e]
        BY <1>3, <3>2
      <4>2. Term(sure, e, r) = Term(given, e, r) /\ Term(sure, e, q) = Term(given, e, q)
        BY <4>1 DEF Term
      <4>3. Term(given, e, r) \in Nat /\ Term(given, e, q) \in Nat
        BY <1>2, TermsCompare
      <4> QED  BY <4>2, <4>3
    <3> QED  BY <3>1, <3>2
  <2>2. \A e \in 1 .. EnsembleSize : /\ Terms(given, r)[e] <= Terms(sure, r)[e]
                                     /\ q # r => Terms(sure, q)[e] <= Terms(given, q)[e]
    BY <2>1 DEF Terms
  <2>3. /\ Terms(given, r) \in [1 .. EnsembleSize -> Int] /\ Terms(sure, r) \in [1 .. EnsembleSize -> Int]
        /\ Terms(given, q) \in [1 .. EnsembleSize -> Int] /\ Terms(sure, q) \in [1 .. EnsembleSize -> Int]
    BY <1>2, <1>3, VotesFit
  <2>4. SumOf(Terms(given, r)) <= SumOf(Terms(sure, r))
    BY <1>1, <2>2, <2>3, SumsCompare
  <2>5. q # r => SumOf(Terms(sure, q)) <= SumOf(Terms(given, q))
    BY <1>1, <2>2, <2>3, SumsCompare
  <2> QED  BY <2>4, <2>5
<1>7. ASSUME NEW q \in Regime!Regimes
      PROVE  /\ Regime!Votes(given, r) <= Regime!Votes(sure, r)
             /\ q # r => Regime!Votes(sure, q) <= Regime!Votes(given, q)
  BY <1>2, <1>5, <1>6, VotesAre
<1>8. Leads(VotesOf(sure), r)
  <2> SUFFICES ASSUME NEW q \in Regime!Regimes
               PROVE  VotesOf(sure)[q] <= VotesOf(sure)[r] /\ (q < r => VotesOf(sure)[q] < VotesOf(sure)[r])
    BY DEF Leads
  <2>1. VotesOf(given) \in Probabilities /\ VotesOf(sure) \in Probabilities
    BY <1>3, VotesFit
  <2>2. /\ VotesOf(given)[q] \in Int /\ VotesOf(sure)[q] \in Int
        /\ VotesOf(given)[r] \in Int /\ VotesOf(sure)[r] \in Int
    BY <1>2, <2>1 DEF Probabilities
  <2>3. VotesOf(given)[q] <= VotesOf(given)[r] /\ (q < r => VotesOf(given)[q] < VotesOf(given)[r])
    BY <1>2 DEF Leads
  <2>4. VotesOf(given)[r] <= VotesOf(sure)[r] /\ (q # r => VotesOf(sure)[q] <= VotesOf(given)[q])
    BY <1>2, <1>7 DEF VotesOf
  <2>5. q < r => q # r
    BY <1>2 DEF Regime!Regimes
  <2> QED  BY <2>2, <2>3, <2>4, <2>5
<1>9. Regime!Combined(sure) = r
  BY <1>2, <1>3, <1>8, VotesFit, OneLeads DEF Regime!Combined, VotesOf
<1> QED  BY <1>9 DEF r, sure

\* What tracker, strategies, metrics and live engine know of each other.
TrackInv ==
  /\ regime_has_state \in BOOLEAN
  /\ regime_current \in Regime!Regimes /\ regime_live \in Regime!Regimes
  /\ regime_live_known \in {Regime!Untold, regime_live}
  /\ regime_has_state /\ ~regime_behind => regime_current = regime_live
  /\ regime_has_state /\ ~regime_missed => regime_known \in {Regime!Untold, regime_current}
  /\ regime_known # Regime!Untold /\ ~regime_missed /\ ~regime_behind => regime_known = regime_live_known
  /\ ~regime_has_state => regime_known = Regime!Untold
  /\ regime_live_known = Regime!Untold =>
       regime_live = Regime!Neutral /\ regime_current = Regime!Neutral /\ regime_known = Regime!Untold
  /\ Regime!ChangesAreCounted

\* The first event the backtest sees shows the regime, and every later one what changed.
LEMMA TrackIsKept ==
  ASSUME TrackInv, NEW next \in Regime!Regimes, Regime!OnLiveData(next),
         \/ /\ regime_behind' = TRUE
            /\ UNCHANGED <<regime_has_state, regime_current, regime_known, regime_missed, regime_last,
                           regime_counted, regime_changes>>
         \/ /\ regime_behind' = FALSE
            /\ Regime!Count(Regime!MetricsRegime(next))
            /\ Regime!Track(next)
            /\ \E cancelled : Regime!Tell(next, cancelled)
  PROVE  TrackInv'
<1>1. regime_live' = next /\ regime_live_known' = IF next # regime_live THEN next ELSE regime_live_known
  BY DEF Regime!OnLiveData
<1>2. Regime!Untold \notin Regime!Regimes
  BY DEF Regime!Untold, Regime!Regimes
<1>3. CASE /\ regime_behind' = TRUE
           /\ UNCHANGED <<regime_has_state, regime_current, regime_known, regime_missed, regime_last,
                          regime_counted, regime_changes>>
  <2>1. regime_live_known' = Regime!Untold => regime_live_known = Regime!Untold /\ next = regime_live
    BY <1>1, <1>2
  <2>2. Regime!ChangesAreCounted'
    BY <1>3 DEF TrackInv, Regime!ChangesAreCounted
  <2> QED  BY <1>1, <1>3, <2>1, <2>2 DEF TrackInv
<1>4. ASSUME NEW cancelled, Regime!Tell(next, cancelled), regime_behind' = FALSE,
             Regime!Count(Regime!MetricsRegime(next)), Regime!Track(next)
      PROVE  TrackInv'
  <2>1. /\ regime_has_state' = TRUE /\ regime_current' = next
        /\ regime_changes' = IF next # regime_current THEN Append(regime_changes, <<regime_current, next>>)
                             ELSE regime_changes
    BY <1>4 DEF Regime!Track
  <2>2. /\ regime_last' = regime_current
        /\ regime_counted' = IF regime_last \notin {Regime!Untold, regime_current}
                             THEN Append(regime_counted, <<regime_last, regime_current>>) ELSE regime_counted
    BY <1>4 DEF Regime!Count, Regime!MetricsRegime
  <2> DEFINE told == regime_has_state /\ next # regime_current
  <2>3. /\ regime_known' = IF told /\ ~cancelled THEN next ELSE regime_known
        /\ regime_missed' = IF told THEN cancelled ELSE regime_missed
    BY <1>4 DEF Regime!Tell, Regime!IsTransition
  <2>4. Regime!ChangesAreCounted'
    <3>1. regime_counted' = regime_changes
      BY <2>2 DEF TrackInv, Regime!ChangesAreCounted
    <3>2. regime_current # Regime!Untold
      BY <1>2 DEF TrackInv
    <3> QED  BY <2>1, <2>2, <3>1, <3>2 DEF Regime!ChangesAreCounted
  <2>5. regime_live_known' = Regime!Untold =>
          /\ next = Regime!Neutral /\ regime_current = Regime!Neutral
          /\ regime_known = Regime!Untold
    BY <1>1, <1>2 DEF TrackInv
  <2>6. regime_live_known' \in {Regime!Untold, regime_live'}
    BY <1>1 DEF TrackInv
  <2>7. ~regime_missed' => regime_known' \in {Regime!Untold, next}
    BY <2>3 DEF TrackInv
  <2>8. regime_live_known' = Regime!Untold => regime_known' = Regime!Untold
    BY <2>3, <2>5
  <2>9. regime_known' # Regime!Untold /\ ~regime_missed' => regime_known' = regime_live_known'
    BY <1>1, <2>6, <2>7, <2>8
  <2> QED  BY <1>1, <1>2, <1>4, <2>1, <2>4, <2>5, <2>6, <2>7, <2>8, <2>9 DEF TrackInv
<1> QED  BY <1>3, <1>4

Entries == [priority : Int, sequence : Nat]
Ordered(s) == \A i, j \in DOMAIN s : i < j => Regime!AskedBefore(s[i], s[j])

\* Sorting a list of hooks that is in order but for the last one.
LEMMA OneMoreHook ==
  ASSUME NEW s \in Seq(Entries), Ordered(s), NEW x \in Entries,
         \A i \in DOMAIN s : s[i].sequence < x.sequence
  PROVE  /\ Regime!Sorted(Append(s, x)) \in Seq(Entries)
         /\ Len(Regime!Sorted(Append(s, x))) = Len(s) + 1
         /\ Ordered(Regime!Sorted(Append(s, x)))
         /\ \A i \in DOMAIN Regime!Sorted(Append(s, x)) :
              \/ Regime!Sorted(Append(s, x))[i] = x
              \/ \E j \in DOMAIN s : Regime!Sorted(Append(s, x))[i] = s[j]
<1> DEFINE n == Len(s)
           list == Append(s, x)
           Places == {k \in 1 .. n + 1 : k = n + 1 \/ Regime!AskedBefore(x, s[k])}
<1>1. n \in Nat /\ DOMAIN s = 1 .. n /\ \A i \in 1 .. n : s[i] \in Entries
  BY ElementOfSeq
<1>2. PICK k \in Places : \A i \in Places : ~(i < k)
  <2>1. Places \subseteq Nat /\ n + 1 \in Places
    BY <1>1
  <2> HIDE DEF Places
  <2> QED  BY <2>1, LeastNumber
<1>3. /\ list \in Seq(Entries) /\ Len(list) = n + 1 /\ DOMAIN list = 1 .. n + 1
      /\ list[n + 1] = x /\ \A i \in 1 .. n : list[i] = s[i]
  BY <1>1
<1>4. k \in 1 .. n + 1 /\ (k = n + 1 \/ Regime!AskedBefore(x, s[k])) /\ k \in Nat
  BY <1>1, <1>2
<1>5. \A i \in 1 .. n : i < k => Regime!AskedBefore(s[i], x)
  <2> SUFFICES ASSUME NEW i \in 1 .. n, i < k PROVE Regime!AskedBefore(s[i], x)
    OBVIOUS
  <2>1. i \notin Places /\ i \in 1 .. n + 1 /\ i # n + 1
    BY <1>1, <1>2
  <2>2. ~Regime!AskedBefore(x, s[i])
    BY <2>1
  <2>3. s[i].priority \in Int /\ x.priority \in Int /\ s[i].sequence \in Nat /\ x.sequence \in Nat
        /\ s[i].sequence < x.sequence
    BY <1>1 DEF Entries
  <2> QED  BY <2>2, <2>3 DEF Regime!AskedBefore
<1>6. \A i \in 1 .. n : k <= i => Regime!AskedBefore(x, s[i])
  <2> SUFFICES ASSUME NEW i \in 1 .. n, k <= i PROVE Regime!AskedBefore(x, s[i])
    OBVIOUS
  <2>1. k \in 1 .. n /\ Regime!AskedBefore(x, s[k])
    BY <1>1, <1>4
  <2>2. CASE i = k
    BY <2>1, <2>2
  <2>3. CASE i # k
    <3>1. Regime!AskedBefore(s[k], s[i])
      BY <1>1, <2>1, <2>3 DEF Ordered
    <3>2. /\ s[i].priority \in Int /\ x.priority \in Int /\ s[i].sequence \in Nat /\ x.sequence \in Nat
          /\ s[k].priority \in Int /\ s[k].sequence \in Nat
      BY <1>1, <2>1 DEF Entries
    <3> QED  BY <2>1, <3>1, <3>2 DEF Regime!AskedBefore
  <2> QED  BY <2>2, <2>3
<1> HIDE DEF list, Places
<1> DEFINE t == [i \in 1 .. n + 1 |-> IF i < k THEN s[i] ELSE IF i = k THEN x ELSE s[i - 1]]
<1>7. \A i \in 1 .. n + 1 : /\ i < k => i \in 1 .. n /\ t[i] = s[i]
                            /\ i = k => t[i] = x
                            /\ k < i => i - 1 \in 1 .. n /\ k <= i - 1 /\ t[i] = s[i - 1]
  BY <1>1, <1>4
<1>8. Regime!Range(t) = Regime!Range(list)
  <2>1. DOMAIN t = 1 .. n + 1
    OBVIOUS
  <2>2. ASSUME NEW i \in 1 .. n + 1 PROVE \E j \in 1 .. n + 1 : t[i] = list[j]
    <3>1. i < k \/ i = k \/ k < i
      BY <1>1, <1>4
    <3>2. n + 1 \in 1 .. n + 1 /\ \A j \in 1 .. n : j \in 1 .. n + 1
      BY <1>1
    <3> HIDE DEF t
    <3> QED  BY <1>3, <1>7, <3>1, <3>2
  <2>3. ASSUME NEW i \in 1 .. n + 1 PROVE \E j \in 1 .. n + 1 : list[i] = t[j]
    <3>1. CASE i = n + 1
      BY <1>3, <1>4, <1>7, <3>1
    <3>2. CASE i \in 1 .. n /\ i < k
      BY <1>3, <1>7, <3>2
    <3>3. CASE i \in 1 .. n /\ k <= i
      <4>1. i + 1 \in 1 .. n + 1 /\ k < i + 1 /\ i + 1 - 1 = i
        BY <1>1, <1>4, <3>3
      <4> HIDE DEF t
      <4> QED  BY <1>3, <1>7, <3>3, <4>1
    <3> QED  BY <1>1, <1>4, <3>1, <3>2, <3>3
  <2> HIDE DEF t
  <2>4. Regime!Range(t) = {t[i] : i \in 1 .. n + 1} /\ Regime!Range(list) = {list[i] : i \in 1 .. n + 1}
    BY <1>3, <2>1 DEF Regime!Range
  <2>5. {t[i] : i \in 1 .. n + 1} \subseteq {list[i] : i \in 1 .. n + 1}
    BY <2>2
  <2>6. {list[i] : i \in 1 .. n + 1} \subseteq {t[i] : i \in 1 .. n + 1}
    BY <2>3
  <2> QED  BY <2>4, <2>5, <2>6
<1>9. t \in [DOMAIN list -> Regime!Range(list)]
  <2>1. DOMAIN t = DOMAIN list /\ t = [i \in DOMAIN t |-> t[i]]
    BY <1>3
  <2>2. \A i \in DOMAIN t : t[i] \in Regime!Range(t)
    BY DEF Regime!Range
  <2> HIDE DEF t
  <2> QED  BY <1>8, <2>1, <2>2
<1>10. \A i, j \in DOMAIN t : i < j => Regime!AskedBefore(t[i], t[j])
  <2> SUFFICES ASSUME NEW i \in 1 .. n + 1, NEW j \in 1 .. n + 1, i < j
               PROVE  Regime!AskedBefore(t[i], t[j])
    OBVIOUS
  <2>1. i < k \/ i = k \/ k < i
    BY <1>1, <1>4
  <2>2. j < k \/ j = k \/ k < j
    BY <1>1, <1>4
  <2> HIDE DEF t
  <2>3. CASE j < k
    BY <1>1, <1>4, <1>7, <2>3 DEF Ordered
  <2>4. CASE j = k
    BY <1>1, <1>4, <1>5, <1>7, <2>4
  <2>5. CASE k < j /\ i < k
    <3>1. t[j] = s[j - 1] /\ j - 1 \in DOMAIN s /\ t[i] = s[i] /\ i \in DOMAIN s /\ i < j - 1
      BY <1>1, <1>4, <1>7, <2>5
    <3> QED  BY <3>1 DEF Ordered
  <2>6. CASE k < j /\ i = k
    BY <1>1, <1>4, <1>6, <1>7, <2>6
  <2>7. CASE k < j /\ k < i
    <3>1. t[j] = s[j - 1] /\ j - 1 \in DOMAIN s /\ t[i] = s[i - 1] /\ i - 1 \in DOMAIN s /\ i - 1 < j - 1
      BY <1>1, <1>4, <1>7, <2>7
    <3> QED  BY <3>1 DEF Ordered
  <2> QED  BY <2>1, <2>2, <2>3, <2>4, <2>5, <2>6, <2>7
<1> DEFINE r == Regime!Sorted(list)
<1>11. /\ r \in [DOMAIN list -> Regime!Range(list)]
       /\ \A i, j \in DOMAIN r : i < j => Regime!AskedBefore(r[i], r[j])
  <2> HIDE DEF t
  <2> QED  BY <1>8, <1>9, <1>10 DEF Regime!Sorted
<1> HIDE DEF r, t
<1>12. DOMAIN r = 1 .. n + 1 /\ Ordered(r)
  BY <1>3, <1>11 DEF Ordered
<1>13. \A i \in 1 .. n + 1 : r[i] \in Entries /\ (r[i] = x \/ \E j \in DOMAIN s : r[i] = s[j])
  <2> SUFFICES ASSUME NEW i \in 1 .. n + 1
               PROVE  r[i] \in Entries /\ (r[i] = x \/ \E j \in DOMAIN s : r[i] = s[j])
    OBVIOUS
  <2>1. PICK j \in 1 .. n + 1 : r[i] = list[j]
    BY <1>3, <1>11, <1>12 DEF Regime!Range
  <2>2. j \in 1 .. n \/ j = n + 1
    BY <1>1
  <2> QED  BY <1>1, <1>3, <2>1, <2>2
<1>14. r \in Seq(Entries) /\ Len(r) = n + 1
  <2>1. r \in [1 .. n + 1 -> Entries]
    BY <1>3, <1>11, <1>13
  <2> QED  BY <1>1, <2>1
<1> QED  BY <1>12, <1>13, <1>14 DEF r, list

\* Both lists of hooks are in order, and a number is given once.
HooksFit ==
  /\ regime_hooks \in [{"data", "change"} -> Seq(Entries)]
  /\ \A type \in {"data", "change"} :
       /\ Ordered(regime_hooks[type])
       /\ \A i \in DOMAIN regime_hooks[type] : regime_hooks[type][i].sequence < Regime!Registered

\* A hook that is registered finds its place.
LEMMA HooksAreKept ==
  ASSUME Regime!TrackingAssumption, HooksFit, NEW type \in {"data", "change"},
         NEW priority \in HookPriorities, Regime!RegisterHook(type, priority)
  PROVE  HooksFit'
<1> DEFINE n == Regime!Registered
           x == [priority |-> priority, sequence |-> n]
           s == regime_hooks[type]
           t == Regime!Sorted(Append(s, x))
           Data == Len(regime_hooks["data"])
           Change == Len(regime_hooks["change"])
<1>1. \A y \in {"data", "change"} : regime_hooks[y] \in Seq(Entries) /\ Len(regime_hooks[y]) \in Nat
  BY DEF HooksFit
<1>2. n \in Nat /\ Data \in Nat /\ Change \in Nat /\ n = Data + Change
  <2>1. Data \in Nat /\ Change \in Nat
    BY <1>1
  <2>2. n = Data + Change
    BY DEF Regime!Registered
  <2> HIDE DEF n, Data, Change
  <2> QED  BY <2>1, <2>2
<1>3. x \in Entries
  BY <1>2 DEF Entries, Regime!TrackingAssumption
<1>4. regime_hooks' = [regime_hooks EXCEPT ![type] = t]
  BY DEF Regime!RegisterHook
<1>5. /\ t \in Seq(Entries) /\ Len(t) = Len(s) + 1 /\ Ordered(t)
      /\ \A i \in DOMAIN t : t[i] = x \/ \E j \in DOMAIN s : t[i] = s[j]
  <2>1. s \in Seq(Entries) /\ Ordered(s) /\ \A i \in DOMAIN s : s[i].sequence < x.sequence
    BY <1>1 DEF HooksFit
  <2> HIDE DEF s, x
  <2> QED  BY <1>3, <2>1, OneMoreHook
<1>6. /\ regime_hooks' \in [{"data", "change"} -> Seq(Entries)]
      /\ regime_hooks'[type] = t
      /\ \A y \in {"data", "change"} : y # type => regime_hooks'[y] = regime_hooks[y]
  <2> HIDE DEF t
  <2> QED  BY <1>4, <1>5 DEF HooksFit
<1>7. Regime!Registered' = n + 1
  <2> HIDE DEF t
  <2> DEFINE NewData == Len(regime_hooks'["data"])
             NewChange == Len(regime_hooks'["change"])
  <2>1. Regime!Registered' = NewData + NewChange
    BY DEF Regime!Registered
  <2>2. \/ NewData = Data + 1 /\ NewChange = Change
        \/ NewData = Data /\ NewChange = Change + 1
    <3>1. CASE type = "data"
      BY <1>5, <1>6, <3>1
    <3>2. CASE type = "change"
      BY <1>5, <1>6, <3>2
    <3> QED  BY <3>1, <3>2
  <2> HIDE DEF n, Data, Change, NewData, NewChange
  <2> QED  BY <1>2, <2>1, <2>2
<1> HIDE DEF Data, Change
<1>8. ASSUME NEW y \in {"data", "change"}, NEW i \in DOMAIN regime_hooks'[y]
      PROVE  regime_hooks'[y][i].sequence < n + 1
  <2>1. \A j \in DOMAIN s : s[j].sequence < n /\ s[j].sequence \in Nat
    <3>1. s \in Seq(Entries)
      BY <1>1
    <3>2. \A j \in DOMAIN s : s[j] \in Entries
      BY <3>1, ElementOfSeq
    <3> QED  BY <3>2 DEF HooksFit, Entries
  <2>2. CASE y = type
    <3>1. regime_hooks'[y][i] = x \/ \E j \in DOMAIN s : regime_hooks'[y][i] = s[j]
      <4> HIDE DEF t, x, s
      <4> QED  BY <1>5, <1>6, <2>2
    <3>2. x.sequence = n
      OBVIOUS
    <3> HIDE DEF t, x, s, n
    <3> QED  BY <1>2, <2>1, <3>1, <3>2
  <2>3. CASE y # type
    <3>1. regime_hooks'[y] = regime_hooks[y]
      BY <1>6, <2>3
    <3>2. regime_hooks[y] \in Seq(Entries)
      BY <1>1
    <3>3. regime_hooks[y][i] \in Entries
      BY <3>1, <3>2, ElementOfSeq
    <3>4. regime_hooks[y][i].sequence < n /\ regime_hooks[y][i].sequence \in Nat
      BY <3>1, <3>3 DEF HooksFit, Entries
    <3> HIDE DEF n
    <3> QED  BY <1>2, <3>1, <3>4
  <2> QED  BY <2>2, <2>3
<1>9. ASSUME NEW y \in {"data", "change"} PROVE Ordered(regime_hooks'[y])
  <2> HIDE DEF t, s
  <2>1. CASE y = type
    BY <1>5, <1>6, <2>1
  <2>2. CASE y # type
    BY <1>6, <2>2 DEF HooksFit
  <2> QED  BY <2>1, <2>2
<1> QED  BY <1>6, <1>7, <1>8, <1>9 DEF HooksFit

RegimeInv == VotingFits /\ AnswersFit /\ TrackInv /\ HooksFit

\* The regime is kept through every bar and tick and every hook that is registered.
LEMMA RegimeIsKept ==
  ASSUME Regime!TrackingAssumption PROVE Regime!Spec => []RegimeInv
<1>1. Regime!Init => RegimeInv
  <2> SUFFICES ASSUME Regime!Init PROVE RegimeInv
    OBVIOUS
  <2>1. VotingFits
    BY DEF Regime!Init, VotingFits
  <2>2. Regime!Neutral \in Regime!Regimes
    BY DEF Regime!Neutral, Regime!Regimes
  <2>3. AnswersFit
    BY <2>2, CertainAnswers DEF Regime!Init, AnswersFit
  <2>4. TrackInv
    BY <2>2 DEF Regime!Init, TrackInv, Regime!ChangesAreCounted
  <2>5. HooksFit
    <3>1. regime_hooks = [type \in {"data", "change"} |-> <<>>]
      BY DEF Regime!Init
    <3>2. \A type \in {"data", "change"} : regime_hooks[type] = <<>> /\ <<>> \in Seq(Entries)
      BY <3>1
    <3>3. regime_hooks \in [{"data", "change"} -> Seq(Entries)]
      BY <3>1
    <3>4. DOMAIN <<>> = {}
      OBVIOUS
    <3> QED  BY <3>2, <3>3, <3>4 DEF HooksFit, Ordered
  <2> QED  BY <2>1, <2>3, <2>4, <2>5 DEF RegimeInv
<1>2. RegimeInv /\ [Regime!Next]_Regime!vars => RegimeInv'
  <2> SUFFICES ASSUME RegimeInv, [Regime!Next]_Regime!vars PROVE RegimeInv'
    OBVIOUS
  <2>1. ASSUME NEW type \in {"data", "change"}, NEW p \in HookPriorities, Regime!RegisterHook(type, p)
        PROVE  RegimeInv'
    <3>1. HooksFit'
      BY <2>1, HooksAreKept DEF RegimeInv
    <3>2. /\ UNCHANGED <<regime_voting, regime_answers, regime_has_state, regime_current, regime_known>>
          /\ UNCHANGED <<regime_missed, regime_last, regime_counted, regime_changes, regime_behind>>
          /\ UNCHANGED <<regime_live, regime_live_known>>
      BY <2>1 DEF Regime!RegisterHook, Regime!tracker, Regime!metrics
    <3>3. VotingFits' /\ AnswersFit' /\ TrackInv'
      BY <3>2 DEF RegimeInv, VotingFits, AnswersFit, TrackInv, Regime!ChangesAreCounted
    <3> QED  BY <3>1, <3>3 DEF RegimeInv
  <2>2. CASE Regime!OnData
    <3>1. /\ regime_answers' \in [Regime!Detectors -> DetectorAnswers]
          /\ UNCHANGED <<regime_voting, regime_hooks>>
      BY <2>2 DEF Regime!OnData
    <3>2. VotingFits' /\ AnswersFit' /\ HooksFit'
      <4>1. VotingFits' /\ HooksFit'
        BY <3>1 DEF RegimeInv, VotingFits, HooksFit, Regime!Registered
      <4>2. DetectorAnswers \subseteq [Regime!Regimes -> 0 .. FullCertainty]
        BY DEF Regime!TrackingAssumption
      <4>3. AnswersFit'
        BY <3>1, <4>2 DEF AnswersFit
      <4> QED  BY <4>1, <4>3
    <3> DEFINE next == Regime!Combined(regime_answers')
    <3>3. next \in Regime!Regimes
      <4>1. VotingFits /\ Fits(regime_answers')
        BY <3>2 DEF RegimeInv, AnswersFit, Fits, Regime!Detectors
      <4>2. VotesOf(regime_answers') \in Probabilities
        BY <4>1, VotesFit
      <4> QED  BY <4>2, OneLeads DEF Regime!Combined, VotesOf
    <3>4. /\ Regime!OnLiveData(next)
          /\ \/ /\ regime_behind' = TRUE
                /\ UNCHANGED <<regime_has_state, regime_current, regime_known, regime_missed, regime_last,
                               regime_counted, regime_changes>>
             \/ /\ regime_behind' = FALSE
                /\ Regime!Count(Regime!MetricsRegime(next))
                /\ Regime!Track(next)
                /\ \E cancelled : Regime!Tell(next, cancelled)
      BY <2>2 DEF Regime!OnData, Regime!tracker, Regime!metrics
    <3> HIDE DEF next
    <3>5. TrackInv'
      BY <3>3, <3>4, TrackIsKept DEF RegimeInv
    <3> QED  BY <3>2, <3>5 DEF RegimeInv
  <2>3. CASE UNCHANGED Regime!vars
    <3>1. /\ UNCHANGED <<regime_voting, regime_answers, regime_has_state, regime_current, regime_known>>
          /\ UNCHANGED <<regime_missed, regime_last, regime_counted, regime_changes, regime_behind>>
          /\ UNCHANGED <<regime_live, regime_live_known, regime_hooks>>
      BY <2>3 DEF Regime!vars, Regime!tracker, Regime!metrics
    <3> QED  BY <3>1 DEF RegimeInv, VotingFits, AnswersFit, TrackInv, Regime!ChangesAreCounted, HooksFit,
                         Regime!Registered
  <2> QED  BY <2>1, <2>2, <2>3 DEF Regime!Next
<1> QED  BY <1>1, <1>2, PTL DEF Regime!Spec

\* What the invariant says of the properties.
LEMMA RegimesHold ==
  ASSUME Regime!TrackingAssumption, RegimeInv PROVE RegimesAgree
<1>1. Regime!EnsembleFollowsItsMembers
  <2>1. VotingFits /\ Fits(regime_answers)
    BY DEF RegimeInv, AnswersFit, Fits, Regime!Detectors
  <2> QED  BY <2>1, OneMind, ConvertsConfirm DEF Regime!EnsembleFollowsItsMembers, Regime!Detectors
<1>2. Regime!StrategiesFollowTheTracker /\ Regime!LiveFollowsTheBacktest /\ Regime!ChangesAreCounted
  BY DEF RegimeInv, TrackInv, Regime!StrategiesFollowTheTracker, Regime!LiveFollowsTheBacktest
<1>3. Regime!HooksAreInOrder
  BY DEF RegimeInv, HooksFit, Ordered, Regime!HooksAreInOrder, Regime!AskedBefore
<1> QED  BY <1>1, <1>2, <1>3 DEF RegimesAgree, EnsembleFollowsItsMembers, StrategiesFollowTheTracker,
                                 LiveFollowsTheBacktest, ChangesAreCounted, HooksAreInOrder

\* A behaviour of the components has one of the regime's in it.
LEMMA RegimeRuns == PartsSpec => Regime!Spec
<1>1. PartsInit => Regime!Init
  BY DEF PartsInit
<1>2. [PartsNext]_allVars => [Regime!Next]_(Regime!vars)
  BY DEF PartsNext, Still, allVars, regimeVars, Regime!vars, Regime!tracker, Regime!metrics
<1> QED  BY <1>1, <1>2, PTL DEF PartsSpec, Regime!Spec

\* Whatever the ensemble, its weights, its answers and the hooks are: an ensemble of
\* one mind follows its members, strategies, metrics and the live engine agree on
\* the regime as far as hooks let them, and hooks are asked in their order.
THEOREM RegimesStayAgreed == PartsSpec => []RegimesAgree
<1>1. Regime!TrackingAssumption
  BY PartsAssumption
<1>2. RegimeInv => RegimesAgree
  BY <1>1, RegimesHold
<1> QED  BY <1>1, <1>2, RegimeRuns, RegimeIsKept, PTL

-----------------------------------------------------------------------------
(***************************************************************************)
(* The search.                                                             *)
(***************************************************************************)
LEMMA WindowSets ==
  /\ \A S : Walk!Cardinality(S) = Cardinality(S)
  /\ \A a, b \in Int : a <= b => Walk!Min({a, b}) = a
  /\ \A a, b \in Int : b <= a => Walk!Min({a, b}) = b
<1>1. \A S : Walk!Cardinality(S) = Cardinality(S)
  BY DEF Walk!Cardinality, Cardinality
<1>2. ASSUME NEW a \in Int, NEW b \in Int, a <= b PROVE Walk!Min({a, b}) = a
  BY <1>2 DEF Walk!Min
<1>3. ASSUME NEW a \in Int, NEW b \in Int, b <= a PROVE Walk!Min({a, b}) = b
  BY <1>3 DEF Walk!Min
<1> QED  BY <1>1, <1>2, <1>3

\* The numbers of a configuration and of the range.
LEMMA ConfigFits ==
  ASSUME Walk!WalkForwardAssumption, NEW c \in SearchConfigs
  PROVE  /\ c.in_sample \in Nat \ {0} /\ c.out_of_sample \in Nat \ {0} /\ c.step \in Nat \ {0}
         /\ SearchRange.start \in Nat /\ SearchRange.end \in Nat
         /\ c.maximize \in BOOLEAN
BY DEF Walk!WalkForwardAssumption, Walk!Positive

\* Of a step s, a number of steps is what division by s gives.
LEMMA StepsAreCounted ==
  ASSUME NEW s \in Nat \ {0}, NEW x \in Nat
  PROVE  /\ x \div s \in Nat
         /\ x % s = 0 => x = (x \div s) * s
         /\ \A k \in Nat : (k * s) % s = 0
<1>1. x \div s \in Nat /\ (x % s = 0 => x = (x \div s) * s)
  BY SMT
<1>2. ASSUME NEW k \in Nat PROVE (k * s) % s = 0
  BY Z3
<1> QED  BY <1>1, <1>2

\* Where the cursor is for the n-th window.
CursorAt(n) == SearchRange.start + (n - 1) * walk_config.step

\* The windows are counted: the n-th of them is that of the n-th place of the cursor.
LEMMA WindowsAreCounted ==
  ASSUME Walk!WalkForwardAssumption, walk_config \in SearchConfigs, NEW n \in Nat \ {0}, Walk!HasWindow(n)
  PROVE  CursorAt(n) \in Walk!Cursors(walk_config)
<1> DEFINE c == walk_config
           C == Walk!Cursors(c)
           s == c.step
           start == SearchRange.start
           end == SearchRange.end
           \* Where the test of a window begins.
           Split(x) == IF c.window_type = "Anchored" THEN start + c.in_sample ELSE x + c.in_sample
<1>1. s \in Nat \ {0} /\ c.in_sample \in Nat /\ start \in Nat /\ end \in Nat
  BY ConfigFits
<1>2. C = {x \in start .. end - 1 : (x - start) % s = 0 /\ Split(x) < end}
  <2>1. \A x : Walk!BaseWindow(c, x).out_of_sample.start = Split(x)
    BY DEF Walk!BaseWindow
  <2> QED  BY <2>1 DEF Walk!Cursors
<1> HIDE DEF C
<1>3. SUFFICES ASSUME CursorAt(n) \notin C PROVE FALSE
  BY DEF C
<1>4. (n - 1) * s \in Nat /\ CursorAt(n) = start + (n - 1) * s /\ CursorAt(n) \in Nat
  <2>1. n - 1 \in Nat
    OBVIOUS
  <2> QED  BY <1>1, <2>1 DEF CursorAt
<1>5. ((n - 1) * s) % s = 0
  <2>1. n - 1 \in Nat
    OBVIOUS
  <2> HIDE DEF s
  <2> QED  BY <1>1, <2>1, StepsAreCounted
<1> DEFINE f == [x \in C |-> (x - start) \div s]
<1>6. ASSUME NEW x \in C
      PROVE  /\ (x - start) \div s \in 0 .. n - 2
             /\ x = start + ((x - start) \div s) * s
  <2>1. x \in Int /\ start <= x /\ x <= end - 1 /\ (x - start) % s = 0 /\ Split(x) < end /\ x - start \in Nat
    BY <1>1, <1>2
  <2> DEFINE k == (x - start) \div s
  <2>2. k \in Nat /\ x - start = k * s
    <3>1. x - start \in Nat /\ (x - start) % s = 0
      BY <2>1
    <3> HIDE DEF s, start
    <3> QED  BY <1>1, <3>1, StepsAreCounted
  <2> HIDE DEF k
  <2>3. k < n - 1
    <3> SUFFICES ASSUME n - 1 <= k PROVE FALSE
      BY <2>2
    <3>1. (n - 1) * s <= k * s
      <4>1. n - 1 \in Nat /\ s \in Nat
        BY <1>1
      <4> HIDE DEF s
      <4> QED  BY <2>2, <4>1, SMT
    <3> DEFINE m == (n - 1) * s
               l == k * s
               cursor == CursorAt(n)
    <3>2. m \in Nat /\ m <= l /\ cursor = start + m /\ m % s = 0 /\ x - start = l /\ l \in Int
      BY <1>4, <1>5, <2>1, <2>2, <3>1
    <3>a. start \in Nat /\ end \in Nat /\ x \in Int /\ x <= end - 1 /\ cursor \in Nat
      BY <1>1, <1>4, <2>1
    <3> HIDE DEF m, l, s, start, end, cursor
    <3>b. cursor <= x /\ cursor - start = m /\ start <= cursor
      BY <3>2, <3>a
    <3>c. cursor \in start .. end - 1
      BY <3>a, <3>b
    <3>3. CursorAt(n) \in start .. end - 1 /\ CursorAt(n) <= x /\ CursorAt(n) - start = m
      BY <3>b, <3>c DEF cursor
    <3>4. Split(CursorAt(n)) <= Split(x) /\ Split(CursorAt(n)) \in Int /\ Split(x) \in Int
      BY <1>1, <1>4, <2>1, <3>3
    <3>5. Split(CursorAt(n)) < end
      BY <1>1, <2>1, <3>4
    <3>6. CursorAt(n) \in C
      BY <1>2, <3>2, <3>3, <3>5
    <3> QED  BY <1>3, <3>6
  <2>4. k \in 0 .. n - 2
    BY <2>2, <2>3
  <2>5. x = start + k * s
    BY <1>1, <2>1, <2>2
  <2> QED  BY <2>4, <2>5 DEF k
<1>7. f \in Injection(C, 0 .. n - 2)
  <2>1. f \in [C -> 0 .. n - 2]
    BY <1>6
  <2>2. \A x, y \in C : f[x] = f[y] => x = y
    <3> SUFFICES ASSUME NEW x \in C, NEW y \in C, (x - start) \div s = (y - start) \div s PROVE x = y
      OBVIOUS
    <3> QED  BY <1>6
  <2> HIDE DEF f
  <2> QED  BY <2>1, <2>2 DEF Injection, IsInjective
<1>8. Cardinality(C) <= n - 1
  <2>1. n - 2 \in Int /\ 0 \in Int
    OBVIOUS
  <2>2. IsFiniteSet(0 .. n - 2) /\ Cardinality(0 .. n - 2) <= n - 1 /\ Cardinality(0 .. n - 2) \in Nat
    <3>1. /\ IsFiniteSet(0 .. n - 2)
          /\ Cardinality(0 .. n - 2) = IF 0 > n - 2 THEN 0 ELSE n - 2 - 0 + 1
      BY <2>1, FS_Interval
    <3> QED  BY <3>1, FS_CardinalityType
  <2>3. IsFiniteSet(C) /\ Cardinality(C) <= Cardinality(0 .. n - 2)
    <3> HIDE DEF f
    <3> QED  BY <1>7, <2>2, FS_Injection
  <2>4. Cardinality(C) \in Nat
    BY <2>3, FS_CardinalityType
  <2> QED  BY <2>2, <2>3, <2>4
<1>9. n <= Cardinality(C) /\ Cardinality(C) \in Int
  <2>1. n <= Cardinality(C)
    BY WindowSets DEF Walk!HasWindow, C
  <2>2. IsFiniteSet(C)
    <3>1. start \in Int /\ end - 1 \in Int
      BY <1>1
    <3>2. C \in SUBSET (start .. end - 1)
      BY <1>2
    <3> HIDE DEF start, end
    <3>3. IsFiniteSet(start .. (end - 1))
      BY <3>1, FS_Interval
    <3> QED  BY <3>2, <3>3, FS_Subset
  <2> QED  BY <2>1, <2>2, FS_CardinalityType
<1> QED  BY <1>8, <1>9

\* The bars before a time come first.
LEMMA BarsBefore ==
  ASSUME Walk!WalkForwardAssumption, NEW ts \in Nat
  PROVE  LET P == {i \in DOMAIN SearchBars : SearchBars[i].ts < ts}
         IN  Cardinality(P) \in 0 .. Len(SearchBars) /\ P = 1 .. Cardinality(P)
<1> DEFINE n == Len(SearchBars)
           P == {i \in DOMAIN SearchBars : SearchBars[i].ts < ts}
<1>1. /\ SearchBars \in Seq([ts : Nat, regime : STRING]) /\ n \in Nat /\ DOMAIN SearchBars = 1 .. n
      /\ \A i, j \in 1 .. n : i < j => SearchBars[i].ts <= SearchBars[j].ts
  BY DEF Walk!WalkForwardAssumption
<1>2. \A i \in 1 .. n : SearchBars[i].ts \in Nat
  <2>1. \A i \in 1 .. n : SearchBars[i] \in [ts : Nat, regime : STRING]
    BY <1>1, ElementOfSeq
  <2> QED  BY <2>1
<1>3. P \subseteq 1 .. n
  BY <1>1
<1>4. ASSUME NEW i \in P, NEW j \in 1 .. n, j <= i PROVE j \in P
  <2>1. SearchBars[j].ts <= SearchBars[i].ts
    BY <1>1, <1>2, <1>3, <1>4
  <2> QED  BY <1>1, <1>2, <1>3, <2>1
<1>5. \E m \in 0 .. n : P = 1 .. m
  <2>1. CASE P = {}
    <3>1. 0 \in 0 .. n /\ 1 .. 0 = {}
      BY <1>1
    <3> QED  BY <2>1, <3>1
  <2>2. CASE P # {}
    <3> HIDE DEF P
    <3>1. PICK m \in P : \A y \in P : y <= m
      <4>1. P \subseteq Nat /\ \A x \in P : x <= n
        BY <1>1, <1>3
      <4> QED  BY <1>1, <2>2, <4>1, GreatestNumber
    <3>2. m \in 1 .. n /\ m \in 0 .. n
      BY <1>1, <1>3
    <3>3. P \subseteq 1 .. m
      BY <1>3, <3>1, <3>2
    <3>4. \A j \in 1 .. m : j \in 1 .. n /\ j <= m
      BY <3>2
    <3>5. 1 .. m \subseteq P
      BY <1>4, <3>4
    <3>6. P = 1 .. m
      BY <3>3, <3>5
    <3> QED  BY <3>2, <3>6
  <2> QED  BY <2>1, <2>2
<1> HIDE DEF P
<1>6. PICK m \in 0 .. n : P = 1 .. m
  BY <1>5
<1>7. Cardinality(P) = m
  BY <1>1, <1>6, FS_Interval
<1> QED  BY <1>6, <1>7 DEF P

\* The bar an in-sample window is extended back to.
LEMMA ExtensionFits ==
  ASSUME Walk!WalkForwardAssumption, SearchBars # <<>>,
         NEW first \in 1 .. Len(SearchBars) + 1, NEW last \in 0 .. Len(SearchBars)
  PROVE  LET x == Walk!ExtendedStart(first, last)
         IN  x \in 1 .. Len(SearchBars) /\ (x = 1 \/ Walk!Regimes(x, last) = Walk!Required)
<1> DEFINE n == Len(SearchBars)
           S == {1} \cup {i \in 1 .. first : Walk!Regimes(i, last) = Walk!Required}
           x == Walk!ExtendedStart(first, last)
<1>1. n \in Nat /\ n # 0 /\ DOMAIN SearchBars = 1 .. n /\ first \in Nat
  <2>1. SearchBars \in Seq([ts : Nat, regime : STRING])
    BY DEF Walk!WalkForwardAssumption
  <2> QED  BY <2>1
<1>2. x \in S
  <2>1. S \subseteq Nat /\ S # {} /\ \A i \in S : i <= first
    BY <1>1
  <2> HIDE DEF S
  <2>2. \E i \in S : \A j \in S : j <= i
    BY <1>1, <2>1, GreatestNumber
  <2>3. S \subseteq Int
    BY <2>1
  <2>4. Walk!Max(S) \in S
    BY <2>2, <2>3 DEF Walk!Max
  <2> QED  BY <2>4 DEF Walk!ExtendedStart, S
<1> HIDE DEF x
<1>3. CASE x = 1
  BY <1>1, <1>3 DEF x
<1>4. CASE x \in 1 .. first /\ Walk!Regimes(x, last) = Walk!Required
  <2>1. SearchBars[1].regime \in Walk!Required
    BY <1>1 DEF Walk!Required
  <2>2. x # n + 1
    <3> SUFFICES ASSUME x = n + 1 PROVE FALSE
      OBVIOUS
    <3>1. x .. last = {}
      BY <1>1
    <3>2. Walk!Regimes(x, last) = {}
      BY <3>1 DEF Walk!Regimes
    <3> QED  BY <1>4, <2>1, <3>2
  <2>3. x \in 1 .. n
    BY <1>1, <1>4, <2>2
  <2> QED  BY <1>4, <2>3 DEF x
<1> QED  BY <1>2, <1>3, <1>4

\* What a window has to be.
Sees(c, is, oos) ==
  LET In == {b \in DOMAIN SearchBars : is.start <= SearchBars[b].ts /\ SearchBars[b].ts < is.end}
  IN  /\ SearchRange.start <= is.start /\ is.end = oos.start
      /\ oos.start < oos.end /\ oos.end <= SearchRange.end
      /\ c.window_type = "RegimeAware" /\ SearchBars # <<>> =>
           \/ {SearchBars[b].regime : b \in In} = Walk!Required
           \/ is.start = SearchBars[1].ts

\* Every window of the range sees enough.
LEMMA WindowsSee ==
  ASSUME Walk!WalkForwardAssumption, walk_config \in SearchConfigs, NEW n \in Nat \ {0}, Walk!HasWindow(n)
  PROVE  Sees(walk_config, Walk!Window(n).in_sample, Walk!Window(n).out_of_sample)
<1> DEFINE c == walk_config
           cursor == CursorAt(n)
           w == Walk!BaseWindow(c, cursor)
           start == SearchRange.start
           end == SearchRange.end
           from == IF c.window_type = "Anchored" THEN start ELSE cursor
           split == from + c.in_sample
           stop == Walk!Min({split + c.out_of_sample, end})
<1>1. c.in_sample \in Nat \ {0} /\ c.out_of_sample \in Nat \ {0} /\ start \in Nat /\ end \in Nat
  BY ConfigFits
<1>2. w = [in_sample |-> [start |-> from, end |-> split],
           out_of_sample |-> [start |-> split, end |-> stop]]
  BY DEF Walk!BaseWindow
<1>3. /\ cursor \in start .. (end - 1) /\ split < end
  BY <1>2, WindowsAreCounted DEF Walk!Cursors
<1>4. from \in Nat /\ split \in Nat /\ start <= from
  <2>1. cursor \in Nat /\ start <= cursor
    BY <1>1, <1>3
  <2> QED  BY <1>1, <2>1
<1>5. split < stop /\ stop <= end
  <2> DEFINE full == split + c.out_of_sample
  <2>1. full \in Int /\ split < full
    BY <1>1, <1>4
  <2> HIDE DEF full, split
  <2>2. full <= end => stop = full
    BY <1>1, <2>1, WindowSets DEF full
  <2>3. end <= full => stop = end
    BY <1>1, <2>1, WindowSets DEF full
  <2> QED  BY <1>1, <1>3, <2>1, <2>2, <2>3
<1>6. Walk!Window(n) = IF c.window_type = "RegimeAware" THEN Walk!RegimeWindow(w) ELSE w
  BY DEF Walk!Window, CursorAt
<1> HIDE DEF from, split, stop, cursor
<1>7. w.in_sample.start = from /\ w.in_sample.end = split /\ w.out_of_sample.start = split /\ w.out_of_sample.end = stop
  BY <1>2
<1>8. ASSUME NEW v, NEW begin \in Nat, start <= begin,
             v.in_sample.start = begin, v.in_sample.end = split, v.out_of_sample = w.out_of_sample,
             c.window_type = "RegimeAware" /\ SearchBars # <<>> =>
               \/ {SearchBars[b].regime : b \in {b \in DOMAIN SearchBars :
                     begin <= SearchBars[b].ts /\ SearchBars[b].ts < split}} = Walk!Required
               \/ begin = SearchBars[1].ts
      PROVE  Sees(walk_config, v.in_sample, v.out_of_sample)
  BY <1>5, <1>7, <1>8 DEF Sees
<1>9. CASE c.window_type # "RegimeAware"
  <2>1. Walk!Window(n) = w
    BY <1>6, <1>9
  <2> HIDE DEF w
  <2> QED  BY <1>4, <1>7, <1>8, <1>9, <2>1
<1>10. CASE c.window_type = "RegimeAware"
  <2> DEFINE N == Len(SearchBars)
             P(ts) == {i \in DOMAIN SearchBars : SearchBars[i].ts < ts}
             first == Cardinality(P(from)) + 1
             last == Cardinality(P(split))
             x == Walk!ExtendedStart(first, last)
             v == IF x > N THEN w ELSE [w EXCEPT !.in_sample.start = SearchBars[x].ts]
  <2>1. Walk!Window(n) = v
    <3> DEFINE Bef(ts) == Walk!Cardinality({i \in DOMAIN SearchBars : SearchBars[i].ts < ts})
               y == Walk!ExtendedStart(Bef(w.in_sample.start) + 1, Bef(w.in_sample.end))
    <3>1. Walk!RegimeWindow(w) = IF y > N THEN w ELSE [w EXCEPT !.in_sample.start = SearchBars[y].ts]
      BY DEF Walk!RegimeWindow
    <3>2. Bef(w.in_sample.start) = Cardinality(P(from)) /\ Bef(w.in_sample.end) = Cardinality(P(split))
      <4> HIDE DEF w
      <4> QED  BY <1>7, WindowSets
    <3>3. y = x
      <4> HIDE DEF Bef, w, P
      <4> QED  BY <3>2
    <3> HIDE DEF y, x, w
    <3> QED  BY <1>6, <1>10, <3>1, <3>3
  <2>2. /\ SearchBars \in Seq([ts : Nat, regime : STRING]) /\ N \in Nat /\ DOMAIN SearchBars = 1 .. N
        /\ \A i \in 1 .. N : SearchBars[i].ts \in start .. end
        /\ \A i, j \in 1 .. N : i < j => SearchBars[i].ts <= SearchBars[j].ts
    <3>1. SearchBars \in Seq([ts : Nat, regime : STRING])
      BY DEF Walk!WalkForwardAssumption
    <3>2. N \in Nat /\ DOMAIN SearchBars = 1 .. N
      BY <3>1
    <3>3. /\ \A i \in DOMAIN SearchBars : SearchBars[i].ts \in start .. end
          /\ \A i, j \in DOMAIN SearchBars : i < j => SearchBars[i].ts <= SearchBars[j].ts
      BY DEF Walk!WalkForwardAssumption
    <3> HIDE DEF N
    <3> QED  BY <3>1, <3>2, <3>3
  <2>3. /\ Cardinality(P(from)) \in 0 .. N /\ last \in 0 .. N
        /\ P(split) = 1 .. last
    BY <1>4, BarsBefore
  <2>4. first \in 1 .. N + 1
    BY <2>2, <2>3
  <2>5. CASE SearchBars = <<>>
    <3>1. N = 0
      BY <2>5
    <3>2. x > N
      <4> DEFINE S == {1} \cup {i \in 1 .. first : Walk!Regimes(i, last) = Walk!Required}
      <4>0. first \in Nat /\ 1 <= first
        <5> HIDE DEF first
        <5> QED  BY <2>2, <2>4
      <4>1. S \subseteq Nat \ {0} /\ S # {} /\ \A i \in S : i <= first
        <5> HIDE DEF first
        <5> QED  BY <4>0
      <4>2. x = Walk!Max(S)
        BY DEF Walk!ExtendedStart
      <4> HIDE DEF S, first, last, x
      <4>3. first \in Nat /\ S \subseteq Nat
        BY <2>2, <2>4, <4>1
      <4>4. \E i \in S : \A j \in S : j <= i
        BY <4>1, <4>3, GreatestNumber
      <4>5. Walk!Max(S) \in S
        BY <4>3, <4>4 DEF Walk!Max
      <4>6. x \in Nat /\ x # 0
        BY <4>1, <4>2, <4>5
      <4> QED  BY <3>1, <4>6
    <3>3. v = w
      BY <3>2
    <3> HIDE DEF v, w
    <3> QED  BY <1>4, <1>7, <1>8, <2>1, <2>5, <3>3
  <2>6. CASE SearchBars # <<>>
    <3>1. x \in 1 .. N /\ (x = 1 \/ Walk!Regimes(x, last) = Walk!Required)
      <4> HIDE DEF first, last, N, P
      <4> QED  BY <2>3, <2>4, <2>6, ExtensionFits DEF N
    <3> DEFINE begin == SearchBars[x].ts
    <3>2. begin \in Nat /\ start <= begin
      <4> HIDE DEF x
      <4> QED  BY <1>1, <2>2, <3>1
    <3>3. v = [w EXCEPT !.in_sample.start = begin]
      <4>1. ~(x > N)
        <5> HIDE DEF x, N
        <5> QED  BY <2>2, <3>1
      <4> QED  BY <4>1
    <3>4. v.in_sample.start = begin /\ v.in_sample.end = split /\ v.out_of_sample = w.out_of_sample
      <4> DEFINE u == [w EXCEPT !.in_sample.start = begin]
      <4> HIDE DEF begin
      <4>1. DOMAIN w = {"in_sample", "out_of_sample"} /\ DOMAIN w.in_sample = {"start", "end"}
        BY <1>2
      <4>2. u.out_of_sample = w.out_of_sample /\ u.in_sample = [w.in_sample EXCEPT !.start = begin]
        <5> HIDE DEF w
        <5> QED  BY <4>1
      <4>3. u.in_sample.start = begin /\ u.in_sample.end = w.in_sample.end
        <5> HIDE DEF w, u
        <5> QED  BY <4>1, <4>2
      <4> HIDE DEF w, u, v
      <4>4. v = u
        BY <3>3 DEF u
      <4> QED  BY <1>7, <4>2, <4>3, <4>4
    <3> DEFINE In == {b \in DOMAIN SearchBars : begin <= SearchBars[b].ts /\ SearchBars[b].ts < split}
    <3>5. {SearchBars[b].regime : b \in In} = Walk!Required \/ begin = SearchBars[1].ts
      <4>1. CASE x = 1
        BY <4>1
      <4>2. CASE Walk!Regimes(x, last) = Walk!Required
        <5>1. x .. last \subseteq In
          <6> SUFFICES ASSUME NEW b \in x .. last PROVE b \in In
            OBVIOUS
          <6> HIDE DEF x, last, P
          <6>1. b \in 1 .. N /\ b \in 1 .. last /\ x <= b /\ x \in Int
            BY <2>2, <2>3, <3>1
          <6>2. SearchBars[b].ts < split
            BY <2>3, <6>1 DEF P
          <6>3. SearchBars[x].ts <= SearchBars[b].ts
            <7>1. CASE x = b
              <8>1. SearchBars[b].ts \in Int
                BY <1>1, <2>2, <6>1
              <8> QED  BY <7>1, <8>1
            <7>2. CASE x < b
              BY <2>2, <3>1, <6>1, <7>2
            <7> QED  BY <6>1, <7>1, <7>2
          <6> QED  BY <2>2, <6>1, <6>2, <6>3
        <5>2. {SearchBars[b].regime : b \in x .. last} \subseteq {SearchBars[b].regime : b \in In}
          <6> HIDE DEF x, last, In
          <6> QED  BY <5>1
        <5>3. {SearchBars[b].regime : b \in In} \subseteq Walk!Required
          BY DEF Walk!Required
        <5>4. Walk!Regimes(x, last) = {SearchBars[b].regime : b \in x .. last}
          BY DEF Walk!Regimes
        <5> HIDE DEF x, last, In
        <5> QED  BY <4>2, <5>2, <5>3, <5>4
      <4> QED  BY <3>1, <4>1, <4>2
    <3> HIDE DEF v, w, begin, x
    <3> QED  BY <1>8, <2>1, <3>2, <3>4, <3>5
  <2> QED  BY <2>5, <2>6
<1> QED  BY <1>9, <1>10

\* A sequence stays one of its elements when one is appended.
LEMMA AppendedIsSeq ==
  ASSUME NEW s, s \in Seq({s[i] : i \in DOMAIN s}), NEW r
  PROVE  LET t == Append(s, r)
         IN  /\ t \in Seq({t[i] : i \in DOMAIN t})
             /\ Len(t) = Len(s) + 1 /\ Len(s) \in Nat
             /\ DOMAIN t = 1 .. Len(s) + 1 /\ DOMAIN s = 1 .. Len(s)
             /\ \A i \in DOMAIN s : t[i] = s[i]
             /\ t[Len(s) + 1] = r
<1> DEFINE S == {s[i] : i \in DOMAIN s}
           U == S \cup {r}
           t == Append(s, r)
           n == Len(s)
<1>1. s \in Seq(U) /\ n \in Nat /\ DOMAIN s = 1 .. n
  <2>1. s \in Seq(S)
    OBVIOUS
  <2> HIDE DEF S
  <2>2. n \in Nat /\ DOMAIN s = 1 .. n /\ \A i \in 1 .. n : s[i] \in S
    BY <2>1, ElementOfSeq
  <2>3. s \in Seq(U)
    BY <2>1
  <2> QED  BY <2>2, <2>3
<1>2. t \in Seq(U) /\ Len(t) = n + 1 /\ DOMAIN t = 1 .. n + 1 /\ t[n + 1] = r /\ \A i \in 1 .. n : t[i] = s[i]
  <2> HIDE DEF S
  <2>1. r \in U
    OBVIOUS
  <2> HIDE DEF U
  <2> QED  BY <1>1, <2>1
<1> HIDE DEF S, U, t
<1>3. t \in Seq({t[i] : i \in DOMAIN t})
  <2>1. \A i \in 1 .. Len(t) : t[i] \in {t[j] : j \in DOMAIN t}
    BY <1>1, <1>2
  <2>2. t = [i \in 1 .. Len(t) |-> t[i]]
    BY <1>2
  <2>3. Len(t) \in Nat
    BY <1>1, <1>2
  <2> QED  BY <2>1, <2>2, <2>3, IsASeq
<1> QED  BY <1>1, <1>2, <1>3 DEF t

-----------------------------------------------------------------------------
\* Whether fitness a is better than b.
Beats(c, a, b) == IF c.maximize THEN a > b ELSE a < b

\* Trial b is the first of the best of those of D.
Leading(c, o, D, b) ==
  /\ b \in D
  /\ \A t \in D : Beats(c, o[b], o[t]) \/ (o[b] = o[t] /\ b <= t)

\* The loop over the trials keeps the first of the best.
LEMMA LeaderGrows ==
  ASSUME NEW c, c.maximize \in BOOLEAN, NEW k \in Nat \ {0}, NEW o,
         \A t \in 1 .. k + 1 : o[t] \in Int,
         NEW b, Leading(c, o, 1 .. k, b)
  PROVE  Leading(c, o, 1 .. k + 1, IF Beats(c, o[k + 1], o[b]) THEN k + 1 ELSE b)
<1> DEFINE D == 1 .. k + 1
           n == k + 1
<1>1. b \in 1 .. k /\ b \in D /\ n \in D /\ D = 1 .. k \cup {n} /\ b <= n /\ n \in Int
  BY DEF Leading
<1>2. \A t \in 1 .. k : Beats(c, o[b], o[t]) \/ (o[b] = o[t] /\ b <= t)
  BY DEF Leading
<1>3. CASE Beats(c, o[n], o[b])
  <2>1. ASSUME NEW t \in 1 .. k PROVE Beats(c, o[n], o[t])
    <3>1. o[t] \in Int /\ o[b] \in Int /\ o[n] \in Int
      BY <1>1
    <3>2. Beats(c, o[b], o[t]) \/ o[b] = o[t]
      BY <1>2
    <3> HIDE DEF n
    <3> QED  BY <1>3, <3>1, <3>2 DEF Beats
  <2>2. Leading(c, o, D, n)
    <3> HIDE DEF D, n
    <3> QED  BY <1>1, <2>1 DEF Leading
  <2> QED  BY <1>3, <2>2
<1>4. CASE ~Beats(c, o[n], o[b])
  <2>1. Beats(c, o[b], o[n]) \/ o[b] = o[n]
    <3>1. o[b] \in Int /\ o[n] \in Int
      BY <1>1
    <3> HIDE DEF n
    <3> QED  BY <1>4, <3>1 DEF Beats
  <2>2. Leading(c, o, D, b)
    <3> HIDE DEF D, n
    <3> QED  BY <1>1, <1>2, <2>1 DEF Leading
  <2> QED  BY <1>4, <2>2
<1> QED  BY <1>3, <1>4

\* One trial leads itself.
LEMMA OneTrialLeads ==
  ASSUME NEW c, NEW o PROVE Leading(c, o, 1 .. 1, 1)
<1>1. 1 .. 1 = {1}
  OBVIOUS
<1> QED  BY <1>1 DEF Leading

\* Some trial is the first of the best.
LEMMA SomeoneLeads ==
  ASSUME NEW c, c.maximize \in BOOLEAN, NEW n \in Nat \ {0}, NEW o, \A t \in 1 .. n : o[t] \in Int
  PROVE  \E b \in 1 .. n : Leading(c, o, 1 .. n, b)
<1> DEFINE Led(k) == \E b \in 1 .. k : Leading(c, o, 1 .. k, b)
           S == {k \in 1 .. n : ~Led(k)}
<1> SUFFICES ASSUME ~Led(n) PROVE FALSE
  OBVIOUS
<1> HIDE DEF Led
<1>1. S \subseteq Nat /\ S # {}
  BY SMT
<1>2. PICK k \in S : \A y \in S : ~(y < k)
  <2> HIDE DEF S
  <2> QED  BY <1>1, LeastNumber
<1>3. k \in 1 .. n /\ ~Led(k)
  OBVIOUS
<1>4. k # 1
  <2>1. Led(1)
    <3>1. 1 \in 1 .. 1
      OBVIOUS
    <3> QED  BY <3>1, OneTrialLeads DEF Led
  <2> QED  BY <1>3, <2>1
<1> DEFINE j == k - 1
<1>5. j \in Nat \ {0} /\ j + 1 = k /\ j \in 1 .. n
  BY <1>3, <1>4
<1>6. Led(j)
  <2>1. j < k
    BY <1>3
  <2>2. j \notin S
    <3> HIDE DEF S, j
    <3> QED  BY <1>2, <2>1
  <2> HIDE DEF j
  <2> QED  BY <1>5, <2>2
<1> HIDE DEF S, j
<1>7. PICK b \in 1 .. j : Leading(c, o, 1 .. j, b)
  BY <1>6 DEF Led
<1> DEFINE d == IF Beats(c, o[j + 1], o[b]) THEN j + 1 ELSE b
<1>8. Leading(c, o, 1 .. j + 1, d)
  <2>1. \A t \in 1 .. j + 1 : o[t] \in Int
    BY <1>3, <1>5
  <2> QED  BY <1>5, <1>7, <2>1, LeaderGrows
<1>9. d \in 1 .. k /\ Leading(c, o, 1 .. k, d)
  <2> HIDE DEF d
  <2> QED  BY <1>5, <1>8 DEF Leading
<1> HIDE DEF d
<1> QED  BY <1>3, <1>9 DEF Led

\* What the joined threads choose is the first of the best.
LEMMA TheBestLead ==
  ASSUME Walk!WalkForwardAssumption, walk_config \in SearchConfigs,
         \A t \in 1 .. SearchTrials : walk_outcomes[t] \in Int
  PROVE  Leading(walk_config, walk_outcomes, 1 .. SearchTrials, Walk!BestOf)
<1> DEFINE c == walk_config
           o == walk_outcomes
           D == 1 .. SearchTrials
           Best(t) == /\ \A u \in D : ~Beats(c, o[u], o[t])
                      /\ \A u \in 1 .. (t - 1) : o[u] # o[t]
<1>1. c.maximize \in BOOLEAN /\ SearchTrials \in Nat \ {0}
  BY ConfigFits DEF Walk!WalkForwardAssumption, Walk!Positive
<1>2. PICK b \in D : Leading(c, o, D, b)
  BY <1>1, SomeoneLeads
<1>3. Best(b)
  <2>1. ASSUME NEW u \in D PROVE ~Beats(c, o[u], o[b])
    <3>1. o[u] \in Int /\ o[b] \in Int
      OBVIOUS
    <3>2. Beats(c, o[b], o[u]) \/ o[b] = o[u]
      BY <1>2 DEF Leading
    <3> QED  BY <1>1, <3>1, <3>2 DEF Beats
  <2>2. ASSUME NEW u \in 1 .. (b - 1) PROVE o[u] # o[b]
    <3>1. u \in D /\ ~(b <= u)
      BY <1>1
    <3>2. o[u] \in Int /\ o[b] \in Int
      BY <3>1
    <3>3. Beats(c, o[b], o[u])
      BY <1>2, <3>1 DEF Leading
    <3> QED  BY <1>1, <3>2, <3>3 DEF Beats
  <2> QED  BY <2>1, <2>2
<1> DEFINE x == Walk!BestOf
<1>4. x = CHOOSE t \in D : Best(t)
  BY DEF Walk!BestOf, Walk!AllTrials, Walk!Better, Beats
<1>5. x \in D /\ Best(x)
  <2> HIDE DEF Best, x
  <2> QED  BY <1>3, <1>4
<1> HIDE DEF x
<1>6. ASSUME NEW t \in D PROVE Beats(c, o[x], o[t]) \/ (o[x] = o[t] /\ x <= t)
  <2>1. o[x] \in Int /\ o[t] \in Int
    BY <1>5
  <2>2. ~Beats(c, o[t], o[x])
    BY <1>5
  <2>3. Beats(c, o[x], o[t]) \/ o[x] = o[t]
    BY <1>1, <2>1, <2>2 DEF Beats
  <2>4. o[x] = o[t] => x <= t
    <3> SUFFICES ASSUME o[x] = o[t], ~(x <= t) PROVE FALSE
      OBVIOUS
    <3>1. t \in 1 .. (x - 1)
      BY <1>1, <1>5
    <3> QED  BY <1>5, <3>1
  <2> QED  BY <2>3, <2>4
<1> QED  BY <1>5, <1>6 DEF Leading, x

\* The numbers of the state of the search.
SearchFits ==
  /\ walk_config \in SearchConfigs
  /\ walk_phase \in {"next", "search", "test", "done", "failed"}
  /\ walk_index \in 1 .. SearchTrials + 1
  /\ walk_running \in [SearchWorkers -> 0 .. SearchTrials + 1]
  /\ walk_evaluated \in [1 .. SearchTrials -> 0 .. 1]
  /\ DOMAIN walk_outcomes \subseteq 1 .. SearchTrials
  /\ \A t \in DOMAIN walk_outcomes : walk_outcomes[t] \in Int
  /\ walk_failure \in BOOLEAN
  /\ walk_phase \in {"next", "test"} => ~walk_failure

\* The windows that are done see enough, and there is one for the search.
WindowsAreSeen ==
  /\ walk_results \in Seq({walk_results[i] : i \in DOMAIN walk_results})
  /\ \A i \in DOMAIN walk_results :
       Sees(walk_config, walk_results[i].in_sample, walk_results[i].out_of_sample)
  /\ walk_phase \in {"search", "test"} => Walk!HasWindow(Len(walk_results) + 1)

\* The trials from the counter on are nobody's; each before it is done, or one
\* thread runs it.
TrialsAreClaimed ==
  walk_phase = "search" /\ Walk!Parallel =>
    /\ \A t \in 1 .. SearchTrials :
         /\ walk_index <= t => /\ walk_evaluated[t] = 0
                               /\ \A w \in SearchWorkers : walk_running[w] # t
         /\ t < walk_index =>
              \/ walk_evaluated[t] = 1 /\ \A w \in SearchWorkers : walk_running[w] # t
              \/ /\ walk_evaluated[t] = 0
                 /\ \E w \in SearchWorkers : walk_running[w] = t
                 /\ \A w, v \in SearchWorkers : walk_running[w] = t /\ walk_running[v] = t => w = v
         /\ ~walk_failure => (t \in DOMAIN walk_outcomes <=> walk_evaluated[t] = 1)
    /\ \A w \in SearchWorkers : walk_running[w] = SearchTrials + 1 => walk_index = SearchTrials + 1

\* One after the other, the trials before the counter have an outcome.
TrialsAreTried ==
  walk_phase = "search" /\ ~Walk!Parallel =>
    /\ \A w \in SearchWorkers : walk_running[w] = SearchTrials + 1
    /\ \A t \in 1 .. SearchTrials : walk_index <= t => walk_evaluated[t] = 0
    /\ DOMAIN walk_outcomes = 1 .. (walk_index - 1)
    /\ IF walk_index = 1 THEN walk_best = 0
       ELSE Leading(walk_config, walk_outcomes, 1 .. (walk_index - 1), walk_best)
    /\ ~walk_failure

\* What is tested.
TheFirstIsTested ==
  walk_phase = "test" =>
    /\ Walk!Parallel => \A t \in 1 .. SearchTrials : walk_evaluated[t] = 1
    /\ IF DOMAIN walk_outcomes = {} THEN walk_best = 0
       ELSE Leading(walk_config, walk_outcomes, DOMAIN walk_outcomes, walk_best)

SearchInv ==
  /\ SearchFits
  /\ WindowsAreSeen
  /\ TrialsAreClaimed
  /\ TrialsAreTried
  /\ TheFirstIsTested

\* The search is sound with it.
LEMMA SearchInvSuffices ==
  ASSUME SearchInv PROVE SearchIsSound
<1>1. Walk!TrialsAreShared
  BY DEF SearchInv, SearchFits, TheFirstIsTested, Walk!TrialsAreShared, Walk!AllTrials
<1>2. Walk!FirstOfTheBestIsTested
  BY DEF SearchInv, TheFirstIsTested, Leading, Beats, Walk!FirstOfTheBestIsTested, Walk!Better
<1>3. Walk!WindowsSeeEnough
  BY DEF SearchInv, WindowsAreSeen, Sees, Walk!WindowsSeeEnough
<1> QED  BY <1>1, <1>2, <1>3 DEF SearchIsSound, TrialsAreShared, FirstOfTheBestIsTested, WindowsSeeEnough

\* The optimization begins with the invariant.
LEMMA SearchStarts ==
  ASSUME Walk!WalkForwardAssumption, Walk!Init PROVE SearchInv
<1>1. SearchTrials \in Nat \ {0}
  BY DEF Walk!WalkForwardAssumption, Walk!Positive
<1>2. SearchFits
  <2>1. walk_index \in 1 .. SearchTrials + 1 /\ walk_running \in [SearchWorkers -> 0 .. SearchTrials + 1]
    BY <1>1 DEF Walk!Init, Walk!NoTrial
  <2>2. walk_evaluated \in [1 .. SearchTrials -> 0 .. 1]
    BY <1>1 DEF Walk!Init, Walk!AllTrials
  <2>3. walk_outcomes = <<>> /\ DOMAIN walk_outcomes = {}
    BY DEF Walk!Init
  <2>4. walk_config \in SearchConfigs /\ walk_phase = "next" /\ walk_failure = FALSE
    BY DEF Walk!Init
  <2>5. walk_failure \in BOOLEAN
    BY <2>4, Zenon
  <2> QED  BY <2>1, <2>2, <2>3, <2>4, <2>5 DEF SearchFits
<1>3. WindowsAreSeen
  BY DEF Walk!Init, WindowsAreSeen
<1> QED  BY <1>2, <1>3 DEF Walk!Init, SearchInv, TrialsAreClaimed, TrialsAreTried, TheFirstIsTested

\* What leaves the configuration and the results leaves the windows seen.
LEMMA WindowsStaySeen ==
  ASSUME WindowsAreSeen, UNCHANGED <<walk_config, walk_results>>,
         walk_phase' \in {"search", "test"} =>
           walk_phase \in {"search", "test"} \/ Walk!HasWindow(Len(walk_results) + 1)
  PROVE  WindowsAreSeen'
<1>1. Walk!HasWindow(Len(walk_results) + 1)' <=> Walk!HasWindow(Len(walk_results) + 1)
  BY DEF Walk!HasWindow
<1> QED  BY <1>1 DEF WindowsAreSeen

\* The outcomes with one more.
LEMMA OutcomesGrow ==
  ASSUME NEW t, NEW f \in Int, \A u \in DOMAIN walk_outcomes : walk_outcomes[u] \in Int,
         walk_outcomes' = Walk!With(t, f)
  PROVE  /\ DOMAIN walk_outcomes' = DOMAIN walk_outcomes \cup {t}
         /\ walk_outcomes'[t] = f
         /\ \A u \in DOMAIN walk_outcomes : u # t => walk_outcomes'[u] = walk_outcomes[u]
         /\ \A u \in DOMAIN walk_outcomes' : walk_outcomes'[u] \in Int
BY DEF Walk!With

\* A window begins.
LEMMA BeginKeeps ==
  ASSUME Walk!WalkForwardAssumption, SearchInv, Walk!BeginWindow PROVE SearchInv'
<1> USE DEF SearchInv
<1> DEFINE n == SearchTrials + 1
<1>1. SearchTrials \in Nat \ {0} /\ n \in Nat /\ 1 \in 1 .. n /\ SearchTrials < n
  BY DEF Walk!WalkForwardAssumption, Walk!Positive
<1>2. /\ walk_phase = "next" /\ walk_phase' = "search" /\ walk_index' = 1 /\ walk_best' = 0
      /\ walk_running' = [w \in SearchWorkers |-> IF Walk!Parallel THEN 0 ELSE n]
      /\ walk_outcomes' = <<>> /\ walk_evaluated' = [t \in 1 .. SearchTrials |-> 0]
      /\ UNCHANGED <<walk_config, walk_results, walk_failure>>
      /\ Walk!HasWindow(Len(walk_results) + 1)
  BY DEF Walk!BeginWindow, Walk!AllTrials, Walk!NoTrial
<1>3. Walk!Parallel' <=> Walk!Parallel
  BY <1>2 DEF Walk!Parallel
<1>4. DOMAIN walk_outcomes' = {}
  BY <1>2
<1> HIDE DEF n
<1>5. SearchFits'
  <2>1. walk_running' \in [SearchWorkers -> 0 .. n]
    BY <1>1, <1>2
  <2>2. walk_evaluated' \in [1 .. SearchTrials -> 0 .. 1]
    BY <1>2
  <2> QED  BY <1>1, <1>2, <1>4, <2>1, <2>2 DEF SearchFits, n
<1>6. WindowsAreSeen'
  BY <1>2, WindowsStaySeen
<1>7. TrialsAreClaimed'
  <2> SUFFICES ASSUME Walk!Parallel
               PROVE  TrialsAreClaimed'
    BY <1>3 DEF TrialsAreClaimed
  <2>1. \A w \in SearchWorkers : walk_running'[w] = 0
    BY <1>2
  <2>2. \A t \in 1 .. SearchTrials : walk_evaluated'[t] = 0 /\ t # 0 /\ ~(t < 1)
    BY <1>2
  <2> QED  BY <1>1, <1>2, <1>4, <2>1, <2>2 DEF TrialsAreClaimed, n
<1>8. TrialsAreTried'
  <2> SUFFICES ASSUME ~Walk!Parallel
               PROVE  TrialsAreTried'
    BY <1>3 DEF TrialsAreTried
  <2>1. \A w \in SearchWorkers : walk_running'[w] = SearchTrials + 1
    BY <1>2 DEF n
  <2>2. \A t \in 1 .. SearchTrials : walk_evaluated'[t] = 0
    BY <1>2
  <2>3. 1 .. (walk_index' - 1) = {}
    BY <1>2
  <2>4. ~walk_failure'
    BY <1>2 DEF SearchFits
  <2> QED  BY <1>2, <1>4, <2>1, <2>2, <2>3, <2>4 DEF TrialsAreTried
<1>9. TheFirstIsTested'
  BY <1>2 DEF TheFirstIsTested
<1> QED  BY <1>5, <1>6, <1>7, <1>8, <1>9

\* A thread takes a trial, or ends.
LEMMA ClaimKeeps ==
  ASSUME Walk!WalkForwardAssumption, SearchInv, NEW w \in SearchWorkers, Walk!Claim(w) PROVE SearchInv'
<1> USE DEF SearchInv
<1> DEFINE n == SearchTrials + 1
           i == walk_index
<1>1. SearchTrials \in Nat \ {0} /\ n \in Nat \ {0} /\ SearchTrials < n /\ 1 .. SearchTrials \subseteq Nat \ {0}
      /\ n \notin 1 .. SearchTrials
  BY DEF Walk!WalkForwardAssumption, Walk!Positive
<1>2. /\ walk_phase = "search" /\ walk_phase' = "search" /\ walk_running[w] = 0
      /\ walk_running' = [walk_running EXCEPT ![w] = i]
      /\ walk_index' = Walk!Min({i + 1, n})
      /\ UNCHANGED <<walk_config, walk_results, walk_outcomes, walk_failure, walk_best, walk_evaluated>>
  BY DEF Walk!Claim, Walk!NoTrial
<1>3. Walk!Parallel' <=> Walk!Parallel
  BY <1>2 DEF Walk!Parallel
<1>4. Walk!Parallel
  <2>1. 0 # SearchTrials + 1
    BY <1>1
  <2> QED  BY <1>2, <2>1 DEF TrialsAreTried
<1>5. i \in 1 .. n /\ walk_running \in [SearchWorkers -> 0 .. n]
  BY DEF SearchFits
<1>6. /\ walk_running'[w] = i
      /\ \A v \in SearchWorkers : v # w => walk_running'[v] = walk_running[v]
      /\ walk_running' \in [SearchWorkers -> 0 .. n]
  <2> HIDE DEF i, n
  <2>1. i \in 0 .. n
    BY <1>1, <1>5
  <2> QED  BY <1>2, <1>5, <2>1
<1>7. walk_index' = IF i = n THEN n ELSE i + 1
  <2>0. i \in Int /\ n \in Int /\ i + 1 \in Int /\ i <= n
    BY <1>1, <1>5
  <2> HIDE DEF i, n
  <2>1. CASE i = n
    <3>1. n <= i + 1
      BY <2>0, <2>1
    <3> QED  BY <1>2, <2>0, <2>1, <3>1, WindowSets
  <2>2. CASE i # n
    <3>1. i + 1 <= n
      BY <2>0, <2>2
    <3> QED  BY <1>2, <2>0, <2>2, <3>1, WindowSets
  <2> QED  BY <2>1, <2>2
<1> HIDE DEF i, n
<1>8. walk_index' \in 1 .. n
  BY <1>1, <1>5, <1>7
<1>9. SearchFits'
  BY <1>2, <1>6, <1>8 DEF SearchFits, n
<1>10. WindowsAreSeen'
  BY <1>2, WindowsStaySeen
<1>11. TrialsAreClaimed'
  <2>1. ASSUME NEW t \in 1 .. SearchTrials
        PROVE  /\ walk_index' <= t => /\ walk_evaluated[t] = 0
                                      /\ \A v \in SearchWorkers : walk_running'[v] # t
               /\ t < walk_index' =>
                    \/ walk_evaluated[t] = 1 /\ \A v \in SearchWorkers : walk_running'[v] # t
                    \/ /\ walk_evaluated[t] = 0
                       /\ \E v \in SearchWorkers : walk_running'[v] = t
                       /\ \A v, u \in SearchWorkers : walk_running'[v] = t /\ walk_running'[u] = t => v = u
    <3>1. t \in Nat /\ t # 0 /\ t # n
      BY <1>1
    <3>2. /\ i <= t => walk_evaluated[t] = 0 /\ \A v \in SearchWorkers : walk_running[v] # t
          /\ t < i =>
              \/ walk_evaluated[t] = 1 /\ \A v \in SearchWorkers : walk_running[v] # t
              \/ /\ walk_evaluated[t] = 0
                 /\ \E v \in SearchWorkers : walk_running[v] = t
                 /\ \A v, u \in SearchWorkers : walk_running[v] = t /\ walk_running[u] = t => v = u
      BY <1>2, <1>4 DEF TrialsAreClaimed, i
    <3>3. CASE t = i
      <4>1. walk_index' = i + 1 /\ ~(walk_index' <= t) /\ i <= t
        BY <1>1, <1>5, <1>7, <3>1, <3>3
      <4> QED  BY <1>6, <3>2, <3>3, <4>1
    <3>4. CASE i < t
      <4>1. ~(t < walk_index') /\ i <= t
        BY <1>1, <1>5, <1>7, <3>1, <3>4
      <4>2. \A v \in SearchWorkers : walk_running'[v] # t
        BY <1>5, <1>6, <3>1, <3>2, <3>4
      <4> QED  BY <3>2, <4>1, <4>2
    <3>5. CASE t < i
      <4>1. ~(walk_index' <= t) /\ t # i
        BY <1>1, <1>5, <1>7, <3>1, <3>5
      <4>2. \A v \in SearchWorkers : walk_running'[v] = t <=> walk_running[v] = t
        BY <1>2, <1>6, <3>1, <4>1
      <4> QED  BY <3>2, <3>5, <4>1, <4>2
    <3> QED  BY <1>5, <3>1, <3>3, <3>4, <3>5
  <2>2. ASSUME NEW t \in 1 .. SearchTrials
        PROVE  ~walk_failure' => (t \in DOMAIN walk_outcomes' <=> walk_evaluated'[t] = 1)
    BY <1>2, <1>4 DEF TrialsAreClaimed
  <2>3. ASSUME NEW v \in SearchWorkers, walk_running'[v] = n PROVE walk_index' = n
    <3>1. CASE v = w
      BY <1>6, <1>7, <2>3, <3>1
    <3>2. CASE v # w
      <4>1. walk_running[v] = n
        BY <1>6, <2>3, <3>2
      <4>2. i = n
        BY <1>2, <1>4, <4>1 DEF TrialsAreClaimed, n, i
      <4> QED  BY <1>7, <4>2
    <3> QED  BY <3>1, <3>2
  <2> QED  BY <1>2, <2>1, <2>2, <2>3 DEF TrialsAreClaimed, n
<1>12. TrialsAreTried'
  BY <1>3, <1>4 DEF TrialsAreTried
<1>13. TheFirstIsTested'
  BY <1>2 DEF TheFirstIsTested
<1> QED  BY <1>9, <1>10, <1>11, <1>12, <1>13

\* A trial ends, with its fitness or with an exception.
LEMMA TrialKeeps ==
  ASSUME Walk!WalkForwardAssumption, SearchInv, NEW w \in SearchWorkers,
         Walk!Throw(w) \/ \E f \in SearchFitnesses : Walk!Evaluate(w, f)
  PROVE  SearchInv'
<1> USE DEF SearchInv
<1> DEFINE n == SearchTrials + 1
           a == walk_running[w]
<1>1. SearchTrials \in Nat \ {0} /\ n \in Nat \ {0} /\ 0 \notin 1 .. SearchTrials /\ n \notin 1 .. SearchTrials
  BY DEF Walk!WalkForwardAssumption, Walk!Positive
<1>2. /\ walk_phase = "search" /\ walk_phase' = "search" /\ a \in 1 .. SearchTrials
      /\ walk_running' = [walk_running EXCEPT ![w] = 0]
      /\ walk_evaluated' = [walk_evaluated EXCEPT ![a] = Walk!Min({walk_evaluated[a] + 1, 2})]
      /\ UNCHANGED <<walk_config, walk_results, walk_index, walk_best>>
  BY DEF Walk!Throw, Walk!Evaluate, Walk!AllTrials
<1>3. \/ walk_failure' = TRUE /\ walk_outcomes' = walk_outcomes
      \/ walk_failure' = walk_failure /\ \E f \in SearchFitnesses : walk_outcomes' = Walk!With(a, f)
  BY DEF Walk!Throw, Walk!Evaluate
<1>4. Walk!Parallel' <=> Walk!Parallel
  BY <1>2 DEF Walk!Parallel
<1>5. Walk!Parallel /\ a # n /\ a # 0
  BY <1>1, <1>2 DEF TrialsAreTried
<1>6. /\ walk_running \in [SearchWorkers -> 0 .. n] /\ walk_index \in 1 .. n
      /\ walk_evaluated \in [1 .. SearchTrials -> 0 .. 1]
  BY DEF SearchFits
<1>7. /\ walk_evaluated[a] = 0
      /\ \A v \in SearchWorkers : walk_running[v] = a => v = w
      /\ a < walk_index
  <2>1. ~(walk_index <= a)
    BY <1>2, <1>5 DEF TrialsAreClaimed
  <2>2. a < walk_index
    BY <1>1, <1>2, <1>6, <2>1
  <2> QED  BY <1>2, <1>5, <2>2 DEF TrialsAreClaimed
<1> HIDE DEF n, a
<1>8. /\ walk_evaluated'[a] = 1
      /\ \A t \in 1 .. SearchTrials : t # a => walk_evaluated'[t] = walk_evaluated[t]
      /\ walk_evaluated' \in [1 .. SearchTrials -> 0 .. 1]
  <2>1. walk_evaluated[a] + 1 = 1
    BY <1>7
  <2>2. Walk!Min({1, 2}) = 1
    BY WindowSets
  <2>3. walk_evaluated' = [walk_evaluated EXCEPT ![a] = 1]
    BY <1>2, <2>1, <2>2
  <2>4. 1 \in 0 .. 1
    OBVIOUS
  <2> QED  BY <1>2, <1>6, <2>3, <2>4
<1>9. /\ walk_running'[w] = 0
      /\ \A v \in SearchWorkers : v # w => walk_running'[v] = walk_running[v]
      /\ walk_running' \in [SearchWorkers -> 0 .. n]
  <2>1. 0 \in 0 .. n
    BY <1>1
  <2> QED  BY <1>2, <1>6, <2>1
<1>10. /\ DOMAIN walk_outcomes' \subseteq 1 .. SearchTrials
       /\ \A t \in DOMAIN walk_outcomes' : walk_outcomes'[t] \in Int
       /\ walk_failure' \in BOOLEAN
       /\ ~walk_failure' => ~walk_failure /\ DOMAIN walk_outcomes' = DOMAIN walk_outcomes \cup {a}
  <2>1. DOMAIN walk_outcomes \subseteq 1 .. SearchTrials /\ \A t \in DOMAIN walk_outcomes : walk_outcomes[t] \in Int
    BY DEF SearchFits
  <2>2. walk_failure \in BOOLEAN
    BY DEF SearchFits
  <2>3. CASE walk_failure' = TRUE /\ walk_outcomes' = walk_outcomes
    <3>1. walk_failure' \in BOOLEAN
      BY <2>3, Zenon
    <3> QED  BY <2>1, <2>3, <3>1
  <2>4. CASE walk_failure' = walk_failure /\ \E f \in SearchFitnesses : walk_outcomes' = Walk!With(a, f)
    <3>1. PICK f \in SearchFitnesses : walk_outcomes' = Walk!With(a, f)
      BY <2>4
    <3>2. f \in Int
      BY DEF Walk!WalkForwardAssumption
    <3>3. /\ DOMAIN walk_outcomes' = DOMAIN walk_outcomes \cup {a}
          /\ \A u \in DOMAIN walk_outcomes' : walk_outcomes'[u] \in Int
      BY <2>1, <3>1, <3>2, OutcomesGrow
    <3>4. walk_failure' \in BOOLEAN
      BY <2>2, <2>4
    <3> QED  BY <1>2, <2>1, <2>4, <3>3, <3>4
  <2> QED  BY <1>3, <2>3, <2>4
<1>11. SearchFits'
  BY <1>2, <1>8, <1>9, <1>10 DEF SearchFits, n
<1>12. WindowsAreSeen'
  BY <1>2, WindowsStaySeen
<1>13. TrialsAreClaimed'
  <2>1. ASSUME NEW t \in 1 .. SearchTrials
        PROVE  /\ walk_index <= t => /\ walk_evaluated'[t] = 0
                                     /\ \A v \in SearchWorkers : walk_running'[v] # t
               /\ t < walk_index =>
                    \/ walk_evaluated'[t] = 1 /\ \A v \in SearchWorkers : walk_running'[v] # t
                    \/ /\ walk_evaluated'[t] = 0
                       /\ \E v \in SearchWorkers : walk_running'[v] = t
                       /\ \A v, u \in SearchWorkers : walk_running'[v] = t /\ walk_running'[u] = t => v = u
               /\ ~walk_failure' => (t \in DOMAIN walk_outcomes' <=> walk_evaluated'[t] = 1)
    <3>1. t # 0
      BY <1>1
    <3>2. /\ walk_index <= t => walk_evaluated[t] = 0 /\ \A v \in SearchWorkers : walk_running[v] # t
          /\ t < walk_index =>
              \/ walk_evaluated[t] = 1 /\ \A v \in SearchWorkers : walk_running[v] # t
              \/ /\ walk_evaluated[t] = 0
                 /\ \E v \in SearchWorkers : walk_running[v] = t
                 /\ \A v, u \in SearchWorkers : walk_running[v] = t /\ walk_running[u] = t => v = u
          /\ ~walk_failure => (t \in DOMAIN walk_outcomes <=> walk_evaluated[t] = 1)
      BY <1>2, <1>5 DEF TrialsAreClaimed
    <3>3. CASE t = a
      <4>1. \A v \in SearchWorkers : walk_running'[v] # t
        BY <1>7, <1>9, <3>1, <3>3
      <4>2. ~(walk_index <= t)
        BY <1>2, <1>6, <1>7, <3>3
      <4> QED  BY <1>8, <1>10, <3>3, <4>1, <4>2
    <3>4. CASE t # a
      <4>1. \A v \in SearchWorkers : walk_running'[v] = t <=> walk_running[v] = t
        BY <1>2, <1>9, <3>1, <3>4 DEF a
      <4> QED  BY <1>8, <1>10, <3>2, <3>4, <4>1
    <3> QED  BY <3>3, <3>4
  <2>2. ASSUME NEW v \in SearchWorkers, walk_running'[v] = n PROVE walk_index = n
    <3>1. v # w /\ walk_running[v] = n
      BY <1>1, <1>9, <2>2
    <3> QED  BY <1>2, <1>5, <3>1 DEF TrialsAreClaimed, n
  <2> QED  BY <1>2, <2>1, <2>2 DEF TrialsAreClaimed, n
<1>14. TrialsAreTried'
  BY <1>4, <1>5 DEF TrialsAreTried
<1>15. TheFirstIsTested'
  BY <1>2 DEF TheFirstIsTested
<1> QED  BY <1>11, <1>12, <1>13, <1>14, <1>15

\* The threads are joined.
LEMMA JoinKeeps ==
  ASSUME Walk!WalkForwardAssumption, SearchInv, Walk!Join PROVE SearchInv'
<1> USE DEF SearchInv
<1> DEFINE n == SearchTrials + 1
<1>1. SearchTrials \in Nat \ {0} /\ n \in Nat \ {0} /\ n \notin 1 .. SearchTrials /\ SearchWorkers # {}
  BY DEF Walk!WalkForwardAssumption, Walk!Positive
<1>2. /\ walk_phase = "search" /\ Walk!Parallel /\ \A w \in SearchWorkers : walk_running[w] = n
      /\ UNCHANGED <<walk_config, walk_results, walk_index, walk_running, walk_outcomes, walk_failure,
                     walk_evaluated>>
      /\ IF walk_failure THEN walk_phase' = "failed" ELSE walk_phase' = "test" /\ walk_best' = Walk!BestOf
  BY DEF Walk!Join, Walk!NoTrial
<1>3. walk_index = n
  BY <1>1, <1>2 DEF TrialsAreClaimed
<1>4. ASSUME NEW t \in 1 .. SearchTrials
      PROVE  walk_evaluated[t] = 1 /\ (~walk_failure => t \in DOMAIN walk_outcomes)
  <2>1. t < walk_index /\ t # n
    BY <1>1, <1>3
  <2> HIDE DEF n
  <2>2. \A w \in SearchWorkers : walk_running[w] # t
    BY <1>2, <2>1
  <2> QED  BY <1>2, <2>1, <2>2 DEF TrialsAreClaimed
<1>5. SearchFits'
  BY <1>2 DEF SearchFits
<1>6. WindowsAreSeen'
  BY <1>2, WindowsStaySeen
<1>7. TheFirstIsTested'
  <2> SUFFICES ASSUME ~walk_failure PROVE TheFirstIsTested'
    BY <1>2 DEF TheFirstIsTested
  <2>1. DOMAIN walk_outcomes = 1 .. SearchTrials /\ \A t \in 1 .. SearchTrials : walk_outcomes[t] \in Int
    BY <1>4 DEF SearchFits
  <2>2. walk_config \in SearchConfigs
    BY DEF SearchFits
  <2>3. Leading(walk_config, walk_outcomes, 1 .. SearchTrials, Walk!BestOf)
    BY <2>1, <2>2, TheBestLead
  <2>4. 1 .. SearchTrials # {}
    BY <1>1
  <2> QED  BY <1>2, <1>4, <2>1, <2>3, <2>4 DEF TheFirstIsTested
<1> QED  BY <1>2, <1>5, <1>6, <1>7 DEF TrialsAreClaimed, TrialsAreTried

\* One trial of the Bayesian search.
LEMMA TryKeeps ==
  ASSUME Walk!WalkForwardAssumption, SearchInv, NEW f \in SearchFitnesses, Walk!Try(f) PROVE SearchInv'
<1> USE DEF SearchInv
<1> DEFINE i == walk_index
           k == i - 1
           o == walk_outcomes
           b == walk_best
<1>1. SearchTrials \in Nat \ {0} /\ f \in Int
  BY DEF Walk!WalkForwardAssumption, Walk!Positive
<1>2. /\ walk_phase = "search" /\ walk_phase' = "search" /\ ~Walk!Parallel /\ i \in 1 .. SearchTrials
      /\ walk_index' = i + 1 /\ walk_outcomes' = Walk!With(i, f)
      /\ walk_evaluated' = [walk_evaluated EXCEPT ![i] = Walk!Min({walk_evaluated[i] + 1, 2})]
      /\ walk_best' = IF b = 0 \/ Beats(walk_config, f, o[b]) THEN i ELSE b
      /\ UNCHANGED <<walk_config, walk_results, walk_running, walk_failure>>
  BY DEF Walk!Try, Walk!AllTrials, Walk!Better, Beats
<1>3. Walk!Parallel' <=> Walk!Parallel
  BY <1>2 DEF Walk!Parallel
<1>4. /\ \A w \in SearchWorkers : walk_running[w] = SearchTrials + 1
      /\ \A t \in 1 .. SearchTrials : i <= t => walk_evaluated[t] = 0
      /\ DOMAIN o = 1 .. k
      /\ IF i = 1 THEN b = 0 ELSE Leading(walk_config, o, 1 .. k, b)
      /\ ~walk_failure
  BY <1>2 DEF TrialsAreTried
<1>5. /\ walk_evaluated \in [1 .. SearchTrials -> 0 .. 1] /\ walk_config \in SearchConfigs
      /\ \A t \in DOMAIN o : o[t] \in Int
  BY DEF SearchFits
<1>6. i \in Nat /\ i # 0 /\ k \in Nat /\ k + 1 = i /\ (i + 1) - 1 = i /\ i \notin 1 .. k /\ 1 .. k \cup {i} = 1 .. i
  BY <1>2
<1>7. /\ walk_evaluated' \in [1 .. SearchTrials -> 0 .. 1]
      /\ \A t \in 1 .. SearchTrials : i + 1 <= t => walk_evaluated'[t] = 0
  <2>1. walk_evaluated[i] + 1 = 1
    BY <1>2, <1>4
  <2>2. Walk!Min({1, 2}) = 1
    BY WindowSets
  <2>3. walk_evaluated' = [walk_evaluated EXCEPT ![i] = 1]
    BY <1>2, <2>1, <2>2
  <2>4. 1 \in 0 .. 1
    OBVIOUS
  <2>5. \A t \in 1 .. SearchTrials : i + 1 <= t => i <= t /\ t # i
    BY <1>6
  <2> QED  BY <1>2, <1>4, <1>5, <2>3, <2>4, <2>5
<1> HIDE DEF k, o, b, i
<1>8. /\ DOMAIN walk_outcomes' = 1 .. i
      /\ walk_outcomes'[i] = f
      /\ \A u \in 1 .. k : walk_outcomes'[u] = o[u]
      /\ \A u \in 1 .. i : walk_outcomes'[u] \in Int
  <2>1. /\ DOMAIN walk_outcomes' = DOMAIN o \cup {i}
        /\ walk_outcomes'[i] = f
        /\ \A u \in DOMAIN o : u # i => walk_outcomes'[u] = o[u]
        /\ \A u \in DOMAIN walk_outcomes' : walk_outcomes'[u] \in Int
    BY <1>1, <1>2, <1>5, OutcomesGrow DEF o
  <2> QED  BY <1>4, <1>6, <2>1
<1>9. SearchFits'
  <2>1. walk_index' \in 1 .. SearchTrials + 1 /\ 1 .. i \subseteq 1 .. SearchTrials
    BY <1>1, <1>2
  <2> QED  BY <1>2, <1>7, <1>8, <2>1 DEF SearchFits
<1>10. WindowsAreSeen'
  BY <1>2, WindowsStaySeen
<1>11. Leading(walk_config, walk_outcomes', 1 .. i, walk_best')
  <2>1. CASE i = 1
    <3>1. b = 0 /\ walk_best' = 1 /\ 1 .. i = 1 .. 1
      BY <1>2, <1>4, <2>1
    <3> QED  BY <3>1, OneTrialLeads
  <2>2. CASE i # 1
    <3>1. k \in Nat \ {0}
      BY <1>6, <2>2
    <3>2. b \in 1 .. k /\ \A t \in 1 .. k : Beats(walk_config, o[b], o[t]) \/ (o[b] = o[t] /\ b <= t)
      BY <1>4, <2>2 DEF Leading
    <3>3. Leading(walk_config, walk_outcomes', 1 .. k, b)
      BY <1>8, <3>2 DEF Leading
    <3>4. b # 0 /\ walk_outcomes'[b] = o[b]
      BY <1>8, <3>1, <3>2
    <3>5. walk_config.maximize \in BOOLEAN
      BY <1>5, ConfigFits
    <3>6. \A t \in 1 .. k + 1 : walk_outcomes'[t] \in Int
      BY <1>6, <1>8
    <3>7. Leading(walk_config, walk_outcomes', 1 .. k + 1,
                  IF Beats(walk_config, walk_outcomes'[k + 1], walk_outcomes'[b]) THEN k + 1 ELSE b)
      BY <3>1, <3>3, <3>5, <3>6, LeaderGrows
    <3> QED  BY <1>2, <1>6, <1>8, <3>4, <3>7
  <2> QED  BY <2>1, <2>2
<1>12. TrialsAreTried'
  <2>1. walk_index' # 1 /\ walk_index' - 1 = i
    BY <1>2, <1>6
  <2> QED  BY <1>2, <1>3, <1>4, <1>7, <1>8, <1>11, <2>1 DEF TrialsAreTried
<1>13. TrialsAreClaimed'
  BY <1>2, <1>3 DEF TrialsAreClaimed
<1>14. TheFirstIsTested'
  BY <1>2 DEF TheFirstIsTested
<1> QED  BY <1>9, <1>10, <1>12, <1>13, <1>14

\* The search one after the other stops.
LEMMA StopKeeps ==
  ASSUME SearchInv, Walk!StopTrying PROVE SearchInv'
<1> USE DEF SearchInv
<1>1. /\ walk_phase = "search" /\ walk_phase' = "test" /\ ~Walk!Parallel
      /\ UNCHANGED <<walk_config, walk_results, walk_index, walk_running, walk_outcomes, walk_failure,
                     walk_best, walk_evaluated>>
  BY DEF Walk!StopTrying
<1>2. Walk!Parallel' <=> Walk!Parallel
  BY <1>1 DEF Walk!Parallel
<1>3. /\ DOMAIN walk_outcomes = 1 .. (walk_index - 1)
      /\ IF walk_index = 1 THEN walk_best = 0
         ELSE Leading(walk_config, walk_outcomes, 1 .. (walk_index - 1), walk_best)
      /\ ~walk_failure
  BY <1>1 DEF TrialsAreTried
<1>4. SearchFits'
  BY <1>1, <1>3 DEF SearchFits
<1>5. WindowsAreSeen'
  BY <1>1, WindowsStaySeen
<1>6. TheFirstIsTested'
  <2>1. walk_index = 1 <=> 1 .. (walk_index - 1) = {}
    <3>1. walk_index \in Nat /\ 1 <= walk_index
      BY DEF SearchFits
    <3>2. walk_index # 1 => 1 \in 1 .. (walk_index - 1)
      BY <3>1
    <3> QED  BY <3>1, <3>2
  <2> QED  BY <1>1, <1>2, <1>3, <2>1 DEF TheFirstIsTested
<1> QED  BY <1>1, <1>4, <1>5, <1>6 DEF TrialsAreClaimed, TrialsAreTried

\* The window is tested.
LEMMA TestKeeps ==
  ASSUME Walk!WalkForwardAssumption, SearchInv, Walk!Test PROVE SearchInv'
<1> USE DEF SearchInv
<1> DEFINE n == Len(walk_results) + 1
           v == Walk!Window(n)
           r == [in_sample |-> v.in_sample, best |-> walk_best, out_of_sample |-> v.out_of_sample]
<1>1. /\ walk_phase = "test" /\ walk_phase' = "next" /\ walk_results' = Append(walk_results, r)
      /\ UNCHANGED <<walk_config, walk_index, walk_running, walk_outcomes, walk_failure, walk_best,
                     walk_evaluated>>
  BY DEF Walk!Test
<1>2. Walk!HasWindow(n) /\ walk_config \in SearchConfigs
  BY <1>1 DEF WindowsAreSeen, SearchFits
<1>3. r.in_sample = v.in_sample /\ r.out_of_sample = v.out_of_sample
  OBVIOUS
<1> HIDE DEF r
<1>4. /\ walk_results' \in Seq({walk_results'[i] : i \in DOMAIN walk_results'})
      /\ Len(walk_results) \in Nat
      /\ DOMAIN walk_results' = 1 .. n /\ DOMAIN walk_results = 1 .. Len(walk_results)
      /\ \A i \in DOMAIN walk_results : walk_results'[i] = walk_results[i]
      /\ walk_results'[n] = r
  <2>1. walk_results \in Seq({walk_results[i] : i \in DOMAIN walk_results})
    BY DEF WindowsAreSeen
  <2> QED  BY <1>1, <2>1, AppendedIsSeq
<1>5. Sees(walk_config, v.in_sample, v.out_of_sample)
  <2>1. n \in Nat \ {0}
    BY <1>4
  <2> HIDE DEF n
  <2> QED  BY <1>2, <2>1, WindowsSee
<1>6. \A i \in DOMAIN walk_results' :
        Sees(walk_config', walk_results'[i].in_sample, walk_results'[i].out_of_sample)
  <2> SUFFICES ASSUME NEW i \in DOMAIN walk_results'
               PROVE  Sees(walk_config, walk_results'[i].in_sample, walk_results'[i].out_of_sample)
    BY <1>1
  <2>1. i = n \/ i \in DOMAIN walk_results
    BY <1>4
  <2>2. CASE i = n
    <3> HIDE DEF v, n
    <3> QED  BY <1>3, <1>4, <1>5, <2>2
  <2>3. CASE i \in DOMAIN walk_results
    BY <1>4, <2>3 DEF WindowsAreSeen
  <2> QED  BY <2>1, <2>2, <2>3
<1> HIDE DEF v, n
<1>7. WindowsAreSeen'
  BY <1>1, <1>4, <1>6 DEF WindowsAreSeen
<1>8. SearchFits'
  BY <1>1 DEF SearchFits
<1> QED  BY <1>1, <1>7, <1>8 DEF TrialsAreClaimed, TrialsAreTried, TheFirstIsTested

\* The steps that end the optimization.
LEMMA EndsKeep ==
  ASSUME SearchInv, Walk!EndWindows \/ Walk!TryFails \/ Walk!TestFails PROVE SearchInv'
<1> USE DEF SearchInv
<1>1. /\ walk_phase' \in {"done", "failed"} /\ walk_failure' \in BOOLEAN
      /\ UNCHANGED <<walk_config, walk_results, walk_index, walk_running, walk_outcomes, walk_evaluated>>
  <2>1. walk_failure \in BOOLEAN
    BY DEF SearchFits
  <2>2. walk_failure' = walk_failure \/ walk_failure' = TRUE
    BY DEF Walk!EndWindows, Walk!TryFails, Walk!TestFails
  <2>3. walk_failure' \in BOOLEAN
    BY <2>1, <2>2, Zenon
  <2> QED  BY <2>3 DEF Walk!EndWindows, Walk!TryFails, Walk!TestFails
<1>2. walk_phase' \notin {"next", "search", "test"}
  BY <1>1
<1>3. SearchFits'
  BY <1>1, <1>2 DEF SearchFits
<1>4. WindowsAreSeen'
  BY <1>1, <1>2, WindowsStaySeen
<1> QED  BY <1>2, <1>3, <1>4 DEF TrialsAreClaimed, TrialsAreTried, TheFirstIsTested

\* A cancellation changes nothing the search keeps.
LEMMA SearchIsKept ==
  ASSUME SearchInv, Walk!Cancel \/ UNCHANGED walkVars PROVE SearchInv'
<1> USE DEF SearchInv
<1>1. UNCHANGED <<walk_config, walk_phase, walk_results, walk_index, walk_running, walk_outcomes,
                  walk_failure, walk_best, walk_evaluated>>
  BY DEF Walk!Cancel, walkVars
<1>2. Walk!Parallel' <=> Walk!Parallel
  BY <1>1 DEF Walk!Parallel
<1>3. SearchFits'
  BY <1>1 DEF SearchFits
<1>4. WindowsAreSeen'
  BY <1>1, WindowsStaySeen DEF WindowsAreSeen
<1>5. TrialsAreClaimed'
  BY <1>1, <1>2 DEF TrialsAreClaimed
<1>6. TrialsAreTried'
  BY <1>1, <1>2 DEF TrialsAreTried
<1>7. TheFirstIsTested'
  BY <1>1, <1>2 DEF TheFirstIsTested
<1> QED  BY <1>3, <1>4, <1>5, <1>6, <1>7

\* Every step of the optimization keeps the search sound.
LEMMA SearchSteps ==
  ASSUME Walk!WalkForwardAssumption, SearchInv, Walk!Next PROVE SearchInv'
<1>1. CASE Walk!Cancel \/ Walk!Over
  <2>1. Walk!Cancel \/ UNCHANGED walkVars
    BY <1>1 DEF Walk!Over, Walk!vars, walkVars
  <2> QED  BY <2>1, SearchIsKept
<1>2. CASE Walk!Step
  <2>1. CASE Walk!BeginWindow
    BY <2>1, BeginKeeps
  <2>2. CASE Walk!EndWindows \/ Walk!TryFails \/ Walk!TestFails
    BY <2>2, EndsKeep
  <2>3. CASE Walk!Join
    BY <2>3, JoinKeeps
  <2>4. CASE \E f \in SearchFitnesses : Walk!Try(f)
    BY <2>4, TryKeeps
  <2>5. CASE Walk!StopTrying
    BY <2>5, StopKeeps
  <2>6. CASE Walk!Test
    BY <2>6, TestKeeps
  <2> QED  BY <1>2, <2>1, <2>2, <2>3, <2>4, <2>5, <2>6 DEF Walk!Step
<1>3. ASSUME NEW w \in SearchWorkers, Walk!Search(w) PROVE SearchInv'
  <2>1. CASE Walk!Claim(w)
    BY <2>1, ClaimKeeps
  <2>2. CASE Walk!Throw(w) \/ \E f \in SearchFitnesses : Walk!Evaluate(w, f)
    BY <2>2, TrialKeeps
  <2> QED  BY <1>3, <2>1, <2>2 DEF Walk!Search
<1> QED  BY <1>1, <1>2, <1>3 DEF Walk!Next

\* Every step of the components keeps it.
LEMMA SearchInvSteps ==
  ASSUME Walk!WalkForwardAssumption, SearchInv, [PartsNext]_allVars PROVE SearchInv'
<1>1. CASE UNCHANGED allVars
  BY <1>1, SearchIsKept DEF allVars
<1>2. CASE PartsNext
  <2>1. CASE UNCHANGED walkVars
    BY <2>1, SearchIsKept
  <2>2. CASE Walk!Next
    BY <2>2, SearchSteps
  <2> QED  BY <1>2, <2>1, <2>2 DEF PartsNext, Still
<1> QED  BY <1>1, <1>2

\* The invariant holds throughout.
LEMMA SearchStaysKept == PartsSpec => []SearchInv
<1>1. Walk!WalkForwardAssumption
  BY PartsAssumption
<1>2. PartsInit => SearchInv
  BY <1>1, SearchStarts DEF PartsInit
<1>3. SearchInv /\ [PartsNext]_allVars => SearchInv'
  BY <1>1, SearchInvSteps
<1> QED  BY <1>2, <1>3, PTL DEF PartsSpec

\* Whatever the configuration, the threads, the trials and the bars are: the
\* threads evaluate each trial once, what is tested out of sample is the first of
\* the best parameter sets, and windows precede their test and see every regime.
THEOREM SearchStaysSound == PartsSpec => []SearchIsSound
<1> QED  BY SearchStaysKept, SearchInvSuffices, PTL

-----------------------------------------------------------------------------
(***************************************************************************)
(* The two books.  Fractions are compared over a common denominator: Is(x, *)
(* v, D) says that x is v / D.                                             *)
(***************************************************************************)
Is(x, v, D) == x \in Books!Fraction /\ x.n * D = v * x.d

\* The parts of a fraction.
LEMMA FractionParts ==
  ASSUME NEW x \in Books!Fraction
  PROVE  x.n \in Int /\ x.d \in Nat \ {0} /\ x.d \in Int /\ x.d # 0 /\ x = [n |-> x.n, d |-> x.d]
BY DEF Books!Fraction

\* A factor that is not 0 may be left out.
LEMMA Cancel ==
  ASSUME NEW a \in Int, NEW b \in Int, NEW k \in Int, k # 0, a * k = b * k
  PROVE  a = b
BY Z3

\* What a divisor divides.
LEMMA Divided ==
  ASSUME NEW i \in Int, NEW k \in Nat \ {0}, i % k = 0
  PROVE  i \div k \in Int /\ i = (i \div k) * k
BY Z3

\* The greatest common divisor is a divisor of both, and is the second if that divides
\* the first.
LEMMA GcdDivides ==
  ASSUME NEW i \in Int, NEW j \in Nat \ {0}
  PROVE  /\ Books!Gcd(i, j) \in 1 .. j /\ i % Books!Gcd(i, j) = 0 /\ j % Books!Gcd(i, j) = 0
         /\ i % j = 0 => Books!Gcd(i, j) = j
<1> DEFINE S == {k \in 1 .. j : i % k = 0 /\ j % k = 0}
<1>1. 1 \in S /\ S \subseteq Nat /\ \A k \in S : k <= j
  <2>1. 1 \in 1 .. j /\ i % 1 = 0 /\ j % 1 = 0
    BY Z3
  <2> QED  BY <2>1
<1>2. j % j = 0 /\ j \in 1 .. j
  BY Z3
<1>3. PICK m \in S : \A k \in S : k <= m
  <2> HIDE DEF S
  <2> QED  BY <1>1, GreatestNumber
<1>4. Books!Gcd(i, j) = Books!Max(S)
  BY DEF Books!Gcd
<1>5. Books!Gcd(i, j) \in S /\ \A k \in S : Books!Gcd(i, j) >= k
  <2>1. \A k \in S : m >= k
    BY <1>1, <1>3
  <2> HIDE DEF S
  <2> QED  BY <1>3, <1>4, <2>1 DEF Books!Max
<1> QED  BY <1>1, <1>2, <1>5

\* A reduced quotient is the quotient, and a whole number if it is one.
LEMMA FracIs ==
  ASSUME NEW n \in Int, NEW d \in Nat \ {0}
  PROVE  /\ Books!Frac(n, d) \in Books!Fraction
         /\ Books!Frac(n, d).n * d = n * Books!Frac(n, d).d
         /\ \A i \in Int : n = i * d => Books!Frac(n, d) = Books!Whole(i)
<1> DEFINE g == Books!Gcd(n, d)
<1>1. g \in 1 .. d /\ n % g = 0 /\ d % g = 0 /\ (n % d = 0 => g = d)
  BY GcdDivides
<1>2. Books!Frac(n, d) = [n |-> n \div g, d |-> d \div g]
  BY DEF Books!Frac
<1> HIDE DEF g
<1>3. g \in Nat \ {0}
  BY <1>1
<1> DEFINE a == n \div g
           b == d \div g
<1>4. a \in Int /\ b \in Int /\ n = a * g /\ d = b * g
  BY <1>1, <1>3, Divided
<1>5. b \in Nat \ {0}
  <2> HIDE DEF a, b
  <2> QED  BY <1>3, <1>4, Z3
<1>6. a * d = n * b
  <2> HIDE DEF a, b
  <2> QED  BY <1>3, <1>4, Z3
<1>7. ASSUME NEW i \in Int, n = i * d PROVE Books!Frac(n, d) = Books!Whole(i)
  <2>1. n % d = 0
    BY <1>7, Z3
  <2>2. g = d
    BY <1>1, <2>1
  <2>3. a = i /\ b = 1
    <3> HIDE DEF a, b
    <3>1. a * d = i * d /\ b * d = 1 * d
      BY <1>4, <1>7, <2>2
    <3> QED  BY <1>4, <3>1, Cancel
  <2> QED  BY <1>2, <2>3 DEF Books!Whole
<1> QED  BY <1>2, <1>4, <1>5, <1>6, <1>7 DEF Books!Fraction

\* So is a reduced quotient of the same value.
LEMMA FracHas ==
  ASSUME NEW n \in Int, NEW d \in Nat \ {0}, NEW v \in Int, NEW D \in Nat \ {0}, n * D = v * d
  PROVE  /\ Is(Books!Frac(n, d), v, D)
         /\ \A i \in Int : v = i * D => Books!Frac(n, d) = Books!Whole(i)
<1> DEFINE x == Books!Frac(n, d)
<1>1. x \in Books!Fraction /\ x.n * d = n * x.d /\ \A i \in Int : n = i * d => x = Books!Whole(i)
  BY FracIs
<1> HIDE DEF x
<1>2. x.n \in Int /\ x.d \in Int
  BY <1>1, FractionParts
<1>3. x.n * D = v * x.d
  <2> DEFINE a == x.n
             b == x.d
  <2>1. a \in Int /\ b \in Int /\ a * d = n * b
    BY <1>1, <1>2
  <2> HIDE DEF a, b
  <2>2. (a * D) * d = (v * b) * d
    <3>1. (a * D) * d = (a * d) * D /\ (v * b) * d = (v * d) * b /\ (n * b) * D = (n * D) * b
      BY <2>1, Z3
    <3> QED  BY <2>1, <3>1
  <2>3. a * D \in Int /\ v * b \in Int
    BY <2>1
  <2>4. a * D = v * b
    BY <2>2, <2>3, Cancel
  <2> QED  BY <2>4 DEF a, b
<1>4. ASSUME NEW i \in Int, v = i * D PROVE x = Books!Whole(i)
  <2>1. n * D = (i * d) * D
    BY <1>4, Z3
  <2>2. n = i * d
    BY <2>1, Cancel
  <2> QED  BY <1>1, <2>2
<1> QED  BY <1>1, <1>3, <1>4 DEF Is, x

\* The value over a denominator is one.
LEMMA IsUnique ==
  ASSUME NEW x, NEW v \in Int, NEW w \in Int, NEW D, Is(x, v, D), Is(x, w, D)
  PROVE  v = w
<1>1. x.d \in Int /\ x.d # 0 /\ v * x.d = w * x.d
  BY FractionParts DEF Is
<1> QED  BY <1>1, Cancel

LEMMA WholeIs ==
  ASSUME NEW i \in Int, NEW D \in Nat \ {0}
  PROVE  Is(Books!Whole(i), i * D, D)
<1>1. Books!Whole(i) \in Books!Fraction
  BY DEF Books!Whole, Books!Fraction
<1> QED  BY <1>1 DEF Is, Books!Whole

\* Over a multiple of the denominator.
LEMMA IsScaled ==
  ASSUME NEW x, NEW v \in Int, NEW D \in Nat \ {0}, Is(x, v, D), NEW k \in Nat \ {0}
  PROVE  Is(x, v * k, D * k) /\ D * k \in Nat \ {0}
<1> DEFINE a == x.n
           b == x.d
<1>1. a \in Int /\ b \in Int /\ a * D = v * b
  BY FractionParts DEF Is
<1> HIDE DEF a, b
<1>2. a * (D * k) = (v * k) * b
  <2>1. a * (D * k) = (a * D) * k /\ (v * k) * b = (v * b) * k
    BY <1>1, Z3
  <2> QED  BY <1>1, <2>1
<1>3. D * k \in Nat \ {0}
  BY Z3
<1> QED  BY <1>2, <1>3 DEF Is, a, b

LEMMA PlusIs ==
  ASSUME NEW x, NEW y, NEW v \in Int, NEW w \in Int, NEW D \in Nat \ {0}, Is(x, v, D), Is(y, w, D)
  PROVE  /\ Is(Books!Plus(x, y), v + w, D)
         /\ \A i \in Int : v + w = i * D => Books!Plus(x, y) = Books!Whole(i)
<1> DEFINE a == x.n
           b == x.d
           e == y.n
           f == y.d
<1>1. /\ a \in Int /\ b \in Nat \ {0} /\ a * D = v * b
      /\ e \in Int /\ f \in Nat \ {0} /\ e * D = w * f
  BY FractionParts DEF Is
<1>2. Books!Plus(x, y) = Books!Frac(a * f + e * b, b * f)
  BY DEF Books!Plus
<1> HIDE DEF a, b, e, f
<1> DEFINE n == a * f + e * b
           d == b * f
<1>3. n \in Int /\ d \in Nat \ {0}
  BY <1>1, Z3
<1>4. n * D = (v + w) * d
  <2>1. n * D = (a * D) * f + (e * D) * b
    BY <1>1, Z3
  <2>2. (v + w) * d = (v * b) * f + (w * f) * b
    BY <1>1, Z3
  <2> QED  BY <1>1, <2>1, <2>2
<1>5. v + w \in Int /\ Books!Plus(x, y) = Books!Frac(n, d)
  BY <1>2
<1> HIDE DEF n, d
<1> QED  BY <1>3, <1>4, <1>5, FracHas

LEMMA MinusIs ==
  ASSUME NEW x, NEW y, NEW v \in Int, NEW w \in Int, NEW D \in Nat \ {0}, Is(x, v, D), Is(y, w, D)
  PROVE  /\ Is(Books!Minus(x, y), v - w, D)
         /\ \A i \in Int : v - w = i * D => Books!Minus(x, y) = Books!Whole(i)
<1> DEFINE z == [y EXCEPT !.n = -@]
<1>1. y = [n |-> y.n, d |-> y.d] /\ y.n \in Int /\ y.d \in Nat \ {0} /\ y.n * D = w * y.d
  BY FractionParts DEF Is
<1>2. z = [n |-> -y.n, d |-> y.d]
  BY <1>1
<1>3. Is(z, -w, D)
  <2> DEFINE e == y.n
             f == y.d
  <2>1. z.n = -e /\ z.d = f /\ e \in Int /\ f \in Nat \ {0} /\ e * D = w * f
    BY <1>1, <1>2
  <2> HIDE DEF e, f
  <2>2. (-e) * D = (-w) * f
    BY <2>1, Z3
  <2>3. z \in Books!Fraction
    BY <1>2, <2>1 DEF Books!Fraction, e, f
  <2> HIDE DEF z
  <2> QED  BY <2>1, <2>2, <2>3 DEF Is
<1>4. Books!Minus(x, y) = Books!Plus(x, z) /\ -w \in Int /\ v + (-w) = v - w
  BY DEF Books!Minus
<1> HIDE DEF z
<1> QED  BY <1>3, <1>4, PlusIs

LEMMA TimesIs ==
  ASSUME NEW x, NEW v \in Int, NEW D \in Nat \ {0}, Is(x, v, D), NEW i \in Int
  PROVE  Is(Books!Times(x, i), v * i, D)
<1> DEFINE a == x.n
           b == x.d
<1>1. a \in Int /\ b \in Nat \ {0} /\ a * D = v * b
  BY FractionParts DEF Is
<1>2. Books!Times(x, i) = Books!Frac(a * i, b)
  BY DEF Books!Times
<1> HIDE DEF a, b
<1> DEFINE n == a * i
           u == v * i
<1>3. n \in Int /\ u \in Int /\ n * D = u * b
  <2>1. n * D = (a * D) * i /\ u * b = (v * b) * i
    BY <1>1, Z3
  <2> QED  BY <1>1, <2>1
<1>4. Books!Times(x, i) = Books!Frac(n, b)
  BY <1>2
<1>5. Is(Books!Frac(n, b), u, D)
  <2> HIDE DEF n, u
  <2> QED  BY <1>1, <1>3, FracHas
<1> QED  BY <1>4, <1>5

\* Over a multiple of the denominator, a quotient keeps the value.
LEMMA OverIs ==
  ASSUME NEW x, NEW v \in Int, NEW D \in Nat \ {0}, Is(x, v, D), NEW i \in Int, i # 0
  PROVE  /\ i > 0 => Is(Books!Over(x, i), v, D * i)
         /\ i < 0 => Is(Books!Over(x, i), -v, D * (-i))
<1> DEFINE a == x.n
           b == x.d
<1>1. a \in Int /\ b \in Nat \ {0} /\ a * D = v * b
  BY FractionParts DEF Is
<1>2. Books!Over(x, i) = IF i < 0 THEN Books!Frac(-a, b * (-i)) ELSE Books!Frac(a, b * i)
  BY DEF Books!Over
<1> HIDE DEF a, b
<1>3. ASSUME NEW c \in Int, NEW u \in Int, c * D = u * b, NEW k \in Nat \ {0}
      PROVE  Is(Books!Frac(c, b * k), u, D * k)
  <2>1. D * k \in Nat \ {0} /\ b * k \in Nat \ {0}
    BY <1>1, Z3
  <2>2. c * (D * k) = (c * D) * k /\ u * (b * k) = (u * b) * k
    BY <1>1, Z3
  <2>3. c * (D * k) = u * (b * k)
    BY <1>3, <2>2
  <2> QED  BY <2>1, <2>3, FracHas
<1>4. CASE i > 0
  <2>1. i \in Nat \ {0} /\ Books!Over(x, i) = Books!Frac(a, b * i)
    BY <1>2, <1>4
  <2>2. Is(Books!Frac(a, b * i), v, D * i)
    BY <1>1, <1>3, <2>1
  <2> QED  BY <1>4, <2>1, <2>2
<1>5. CASE i < 0
  <2>1. -i \in Nat \ {0} /\ Books!Over(x, i) = Books!Frac(-a, b * (-i))
    BY <1>2, <1>5
  <2>2. -a \in Int /\ -v \in Int /\ (-a) * D = (-v) * b
    BY <1>1, Z3
  <2>3. Is(Books!Frac(-a, b * (-i)), -v, D * (-i))
    BY <1>3, <2>1, <2>2
  <2> QED  BY <1>5, <2>1, <2>3
<1> QED  BY <1>4, <1>5

-----------------------------------------------------------------------------
\* Sums of fractions.  The definition by recursion does define the sums of prefixes.
LEMMA TotalsOfFractions ==
  ASSUME NEW s \in Seq(Books!Fraction)
  PROVE  \E f \in [0 .. Len(s) -> Books!Fraction] :
           /\ f[0] = Books!Whole(0) /\ \A i \in 1 .. Len(s) : f[i] = Books!Plus(f[i - 1], s[i])
           /\ Books!Total(s) = f[Len(s)]
<1> DEFINE S == Books!Fraction
           N == Len(s)
           none == Books!Whole(0)
           step == [x \in (1 .. N) \X S |-> Books!Plus(x[2], s[x[1]])]
           Def(f) == f = [i \in 0 .. N |-> IF i = 0 THEN none ELSE Books!Plus(f[i - 1], s[i])]
           f == CHOOSE g : Def(g)
<1>1. N \in Nat /\ (\A i \in 1 .. N : s[i] \in S) /\ none \in S
  <2>1. none \in S
    BY DEF Books!Whole, Books!Fraction
  <2>2. s \in Seq(S) /\ N \in Nat /\ N = Len(s)
    OBVIOUS
  <2> HIDE DEF S, N
  <2> QED  BY <2>1, <2>2, ElementOfSeq
<1>2. \A x, y \in S : Books!Plus(x, y) \in S
  <2> SUFFICES ASSUME NEW x \in S, NEW y \in S PROVE Books!Plus(x, y) \in S
    OBVIOUS
  <2> DEFINE n == x.n * y.d + y.n * x.d
             d == x.d * y.d
  <2>1. n \in Int /\ d \in Nat \ {0}
    BY FractionParts, Z3
  <2>2. Books!Plus(x, y) = Books!Frac(n, d)
    BY DEF Books!Plus
  <2> HIDE DEF n, d
  <2> QED  BY <2>1, <2>2, FracIs
<1> HIDE DEF S, none
<1>3. step \in [(1 .. N) \X S -> S]
  BY <1>1, <1>2
<1>4. PICK g \in [0 .. N -> S] : Follows(g, N, none, step)
  <2> HIDE DEF N, step
  <2> QED  BY <1>1, <1>3, Recursion
<1>5. \A i \in 1 .. N : i - 1 \in 0 .. N /\ g[i] = Books!Plus(g[i - 1], s[i])
  <2> SUFFICES ASSUME NEW i \in 1 .. N PROVE i - 1 \in 0 .. N /\ g[i] = Books!Plus(g[i - 1], s[i])
    OBVIOUS
  <2>1. i - 1 \in 0 .. N /\ g[i - 1] \in S
    BY <1>1
  <2>2. g[i] = step[<<i, g[i - 1]>>]
    BY <1>4 DEF Follows
  <2> HIDE DEF N
  <2> QED  BY <2>1, <2>2
<1>6. Def(g)
  <2> DEFINE h == [i \in 0 .. N |-> IF i = 0 THEN none ELSE Books!Plus(g[i - 1], s[i])]
  <2>1. \A i \in 0 .. N : i = 0 \/ i \in 1 .. N
    BY <1>1
  <2>2. \A i \in 0 .. N : g[i] = h[i]
    BY <1>4, <1>5, <2>1 DEF Follows
  <2>3. h = [i \in 0 .. N |-> h[i]] /\ g = [i \in 0 .. N |-> g[i]]
    OBVIOUS
  <2>4. g = h
    <3> HIDE DEF h, N
    <3> QED  BY <2>2, <2>3, Zenon
  <2> QED  BY <2>4, Zenon
<1>7. Def(f)
  <2> HIDE DEF Def
  <2> QED  BY <1>6, Zenon DEF f
<1>8. Books!Total(s) = f[N]
  BY Zenon DEF Books!Total, none
<1>9. f[0] = none /\ \A i \in 1 .. N : f[i] = Books!Plus(f[i - 1], s[i])
  <2>1. 0 \in 0 .. N /\ \A i \in 1 .. N : i \in 0 .. N /\ i # 0
    BY <1>1
  <2> HIDE DEF f, N
  <2> QED  BY <1>7, <2>1
<1> DEFINE T == {i \in 0 .. N : f[i] \in S}
<1>10. 0 \in T
  <2> HIDE DEF f
  <2> QED  BY <1>1, <1>9
<1>11. ASSUME NEW i \in 0 .. (N - 1), i \in T PROVE i + 1 \in T
  <2>1. i + 1 \in 1 .. N /\ i + 1 \in 0 .. N /\ (i + 1) - 1 = i
    BY <1>1
  <2>2. f[i + 1] = Books!Plus(f[i], s[i + 1])
    BY <1>9, <2>1
  <2> HIDE DEF f
  <2>3. f[i] \in S
    BY <1>11
  <2> QED  BY <1>1, <1>2, <2>1, <2>2, <2>3
<1>12. 0 .. N \subseteq T
  <2> HIDE DEF T, N
  <2> QED  BY <1>1, <1>10, <1>11, SetInduction
<1>13. f \in [0 .. N -> S]
  <2>1. f = [i \in 0 .. N |-> IF i = 0 THEN none ELSE Books!Plus(f[i - 1], s[i])]
    BY <1>7
  <2> HIDE DEF f
  <2> QED  BY <1>12, <2>1
<1> HIDE DEF f
<1> QED  BY <1>8, <1>9, <1>13 DEF S, none

\* The sum of fractions is the sum of their values.
LEMMA TotalIs ==
  ASSUME NEW s \in Seq(Books!Fraction), NEW v \in Seq(Int), Len(v) = Len(s), NEW D \in Nat \ {0},
         \A i \in 1 .. Len(s) : Is(s[i], v[i], D)
  PROVE  SumOf(v) \in Int /\ Is(Books!Total(s), SumOf(v), D)
<1> DEFINE N == Len(s)
           t == Totals(v)
<1>1. N \in Nat /\ \A i \in 1 .. N : v[i] \in Int
  OBVIOUS
<1>2. /\ t \in [0 .. N -> Int] /\ t[0] = 0 /\ SumOf(v) = t[N]
      /\ \A i \in 1 .. N : t[i] = t[i - 1] + v[i]
  BY TotalsOfPrefixes DEF SumOf
<1>3. PICK f \in [0 .. N -> Books!Fraction] :
           /\ f[0] = Books!Whole(0) /\ \A i \in 1 .. N : f[i] = Books!Plus(f[i - 1], s[i])
           /\ Books!Total(s) = f[N]
  BY TotalsOfFractions
<1> HIDE DEF t
<1> DEFINE T == {i \in 0 .. N : Is(f[i], t[i], D)}
<1>4. 0 \in T
  <2>1. Is(Books!Whole(0), 0 * D, D) /\ 0 * D = 0
    BY WholeIs
  <2> QED  BY <1>1, <1>2, <1>3, <2>1
<1>5. ASSUME NEW i \in 0 .. (N - 1), i \in T PROVE i + 1 \in T
  <2>1. i + 1 \in 1 .. N /\ i + 1 \in 0 .. N /\ (i + 1) - 1 = i
    BY <1>1
  <2>2. f[i + 1] = Books!Plus(f[i], s[i + 1]) /\ t[i + 1] = t[i] + v[i + 1]
    BY <1>2, <1>3, <2>1
  <2>3. t[i] \in Int /\ v[i + 1] \in Int /\ Is(f[i], t[i], D) /\ Is(s[i + 1], v[i + 1], D)
    BY <1>1, <1>2, <1>5, <2>1
  <2>4. Is(Books!Plus(f[i], s[i + 1]), t[i] + v[i + 1], D)
    BY <2>3, PlusIs
  <2> QED  BY <2>1, <2>2, <2>4
<1>6. 0 .. N \subseteq T
  <2> HIDE DEF T, N
  <2> QED  BY <1>1, <1>4, <1>5, SetInduction
<1>7. N \in T /\ t[N] \in Int
  BY <1>1, <1>2, <1>6
<1> QED  BY <1>2, <1>3, <1>7

-----------------------------------------------------------------------------
\* Sums over the symbols, in the order in which they are read.
SymbolSum(f) == SumOf([i \in 1 .. Len(Books!Order) |-> f[Books!Order[i]]])

\* Each symbol is at one place of the order.
LEMMA OrderIsWhole ==
  ASSUME Books!AccountingAssumption
  PROVE  /\ Books!Order \in Seq(BookSymbols) /\ DOMAIN Books!Order = 1 .. Len(Books!Order)
         /\ \A s \in BookSymbols : \E i \in 1 .. Len(Books!Order) :
              Books!Order[i] = s /\ \A j \in 1 .. Len(Books!Order) : j # i => Books!Order[j] # s
<1> DEFINE S == BookSymbols
           n == Cardinality(S)
           f == Books!Order
<1>1. IsFiniteSet(S)
  BY DEF Books!AccountingAssumption, Books!IsFiniteSet, IsFiniteSet
<1>2. n \in Nat /\ ExistsBijection(1 .. n, S)
  BY <1>1, FS_CardinalityType
<1>3. Books!Cardinality(S) = n
  BY DEF Books!Cardinality, Cardinality
<1>4. f = CHOOSE g \in [1 .. n -> S] : Books!IsInjective(g)
  BY <1>3, Zenon DEF Books!Order
<1>5. \E g \in [1 .. n -> S] : Books!IsInjective(g)
  BY <1>2 DEF ExistsBijection, Bijection, Injection, IsInjective, Books!IsInjective
<1>6. f \in [1 .. n -> S] /\ Books!IsInjective(f)
  <2> HIDE DEF f, n
  <2> QED  BY <1>4, <1>5, Zenon
<1> HIDE DEF f
<1>7. f \in Injection(1 .. n, S)
  BY <1>6 DEF Injection, IsInjective, Books!IsInjective
<1>8. Cardinality(1 .. n) = n
  BY <1>2, FS_Interval
<1>9. f \in Surjection(1 .. n, S)
  BY <1>1, <1>7, <1>8, FS_Injection
<1>10. f \in Seq(S) /\ Len(f) = n
  BY <1>2, <1>6, LenProperties, SeqDef
<1>11. DOMAIN f = 1 .. n
  BY <1>6
<1> HIDE DEF n
<1>12. \A s \in S : \E i \in 1 .. n : f[i] = s
  BY <1>9 DEF Surjection
<1>13. \A i, j \in 1 .. n : f[i] = f[j] => i = j
  BY <1>6, <1>11 DEF Books!IsInjective
<1> QED  BY <1>10, <1>11, <1>12, <1>13 DEF f

LEMMA SymbolSequence ==
  ASSUME Books!AccountingAssumption, NEW T, NEW f \in [BookSymbols -> T]
  PROVE  LET s == [i \in 1 .. Len(Books!Order) |-> f[Books!Order[i]]]
         IN  s \in Seq(T) /\ Len(s) = Len(Books!Order) /\ \A i \in 1 .. Len(Books!Order) : s[i] = f[Books!Order[i]]
<1> DEFINE N == Len(Books!Order)
           s == [i \in 1 .. N |-> f[Books!Order[i]]]
<1>1. N \in Nat /\ \A i \in 1 .. N : Books!Order[i] \in BookSymbols
  BY OrderIsWhole, ElementOfSeq
<1> HIDE DEF N
<1>2. s \in [1 .. N -> T] /\ \A i \in 1 .. N : s[i] = f[Books!Order[i]]
  BY <1>1
<1>3. s \in Seq(T) /\ Len(s) = N
  <2> HIDE DEF s
  <2> QED  BY <1>1, <1>2, SeqDef, LenProperties
<1> QED  BY <1>2, <1>3 DEF N

LEMMA SymbolSumType ==
  ASSUME Books!AccountingAssumption, NEW f \in [BookSymbols -> Int]
  PROVE  SymbolSum(f) \in Int
<1>1. [i \in 1 .. Len(Books!Order) |-> f[Books!Order[i]]] \in Seq(Int)
  BY SymbolSequence
<1> QED  BY <1>1, SumType DEF SymbolSum

\* One symbol's part of the sum changes.
LEMMA SymbolSumChanges ==
  ASSUME Books!AccountingAssumption, NEW f \in [BookSymbols -> Int], NEW g \in [BookSymbols -> Int],
         NEW s \in BookSymbols, \A t \in BookSymbols \ {s} : g[t] = f[t]
  PROVE  SymbolSum(g) = SymbolSum(f) - f[s] + g[s]
<1> DEFINE N == Len(Books!Order)
           a == [i \in 1 .. N |-> f[Books!Order[i]]]
           b == [i \in 1 .. N |-> g[Books!Order[i]]]
<1>1. /\ a \in Seq(Int) /\ Len(a) = N /\ (\A i \in 1 .. N : a[i] = f[Books!Order[i]])
      /\ b \in Seq(Int) /\ Len(b) = N /\ (\A i \in 1 .. N : b[i] = g[Books!Order[i]])
  BY SymbolSequence
<1>2. PICK i \in 1 .. N : Books!Order[i] = s /\ \A j \in 1 .. N : j # i => Books!Order[j] # s
  BY OrderIsWhole
<1>3. \A j \in 1 .. N : Books!Order[j] \in BookSymbols
  BY OrderIsWhole, ElementOfSeq
<1>4. SymbolSum(f) = SumOf(a) /\ SymbolSum(g) = SumOf(b)
  BY DEF SymbolSum
<1> HIDE DEF a, b, N
<1>5. \A j \in 1 .. N : j # i => b[j] = a[j]
  BY <1>1, <1>2, <1>3
<1>6. SumOf(b) = SumOf(a) - a[i] + b[i]
  <2>1. a \in Seq(Int) /\ b \in Seq(Int) /\ i \in 1 .. Len(a) /\ Len(b) = Len(a)
    BY <1>1, <1>2
  <2>2. \A j \in 1 .. Len(a) : j # i => b[j] = a[j]
    BY <1>1, <1>5
  <2> QED  BY <2>1, <2>2, SumOfChanged
<1> QED  BY <1>1, <1>2, <1>4, <1>6

\* The sum of multiples, and of sums.
LEMMA SymbolSumOfBoth ==
  ASSUME Books!AccountingAssumption, NEW f \in [BookSymbols -> Int], NEW g \in [BookSymbols -> Int],
         NEW h \in [BookSymbols -> Int], NEW k \in Int, \A s \in BookSymbols : h[s] = f[s] * k + g[s]
  PROVE  SymbolSum(h) = SymbolSum(f) * k + SymbolSum(g)
<1> DEFINE N == Len(Books!Order)
           a == [i \in 1 .. N |-> f[Books!Order[i]]]
           b == [i \in 1 .. N |-> g[Books!Order[i]]]
           c == [i \in 1 .. N |-> h[Books!Order[i]]]
           sums == [i \in 0 .. N |-> Totals(a)[i] * k + Totals(b)[i]]
<1>1. /\ a \in Seq(Int) /\ Len(a) = N /\ (\A i \in 1 .. N : a[i] = f[Books!Order[i]])
      /\ b \in Seq(Int) /\ Len(b) = N /\ (\A i \in 1 .. N : b[i] = g[Books!Order[i]])
      /\ c \in Seq(Int) /\ Len(c) = N /\ (\A i \in 1 .. N : c[i] = h[Books!Order[i]])
  BY SymbolSequence
<1>2. \A j \in 1 .. N : Books!Order[j] \in BookSymbols
  BY OrderIsWhole, ElementOfSeq
<1>3. SymbolSum(f) = SumOf(a) /\ SymbolSum(g) = SumOf(b) /\ SymbolSum(h) = SumOf(c)
  BY DEF SymbolSum
<1>4. N \in Nat
  BY OrderIsWhole, LenProperties
<1> HIDE DEF a, b, c, N
<1>5. \A i \in 1 .. N : a[i] \in Int /\ b[i] \in Int /\ c[i] = a[i] * k + b[i]
  BY <1>1, <1>2
<1> DEFINE t == Totals(a)
           u == Totals(b)
<1>6. /\ t \in [0 .. N -> Int] /\ t[0] = 0 /\ SumOf(a) = t[N] /\ (\A i \in 1 .. N : t[i] = t[i - 1] + a[i])
      /\ u \in [0 .. N -> Int] /\ u[0] = 0 /\ SumOf(b) = u[N] /\ (\A i \in 1 .. N : u[i] = u[i - 1] + b[i])
  BY <1>1, TotalsOfPrefixes DEF SumOf
<1>7. sums = [i \in 0 .. N |-> t[i] * k + u[i]]
  OBVIOUS
<1> HIDE DEF t, u, sums
<1>8. sums \in [0 .. N -> Int] /\ \A i \in 0 .. N : sums[i] = t[i] * k + u[i]
  BY <1>6, <1>7
<1>9. ASSUME NEW i \in 1 .. N PROVE sums[i] = sums[i - 1] + c[i]
  <2>1. i \in 0 .. N /\ i - 1 \in 0 .. N
    BY <1>4
  <2> DEFINE x == t[i - 1]
             y == u[i - 1]
             v == a[i]
             w == b[i]
  <2>2. x \in Int /\ y \in Int /\ v \in Int /\ w \in Int
    BY <1>5, <1>6, <2>1
  <2>3. sums[i] = (x + v) * k + (y + w) /\ sums[i - 1] = x * k + y /\ c[i] = v * k + w
    BY <1>5, <1>6, <1>8, <2>1
  <2> HIDE DEF x, y, v, w
  <2>4. (x + v) * k = x * k + v * k
    BY <2>2, Z3
  <2> QED  BY <2>2, <2>3, <2>4
<1>10. sums[N] = sums[0] + SumOf(c)
  BY <1>1, <1>8, <1>9, SumUnique
<1>11. sums[0] = 0 /\ sums[N] = SumOf(a) * k + SumOf(b)
  <2>1. 0 \in 0 .. N /\ N \in 0 .. N /\ 0 * k = 0
    BY <1>4
  <2> QED  BY <1>6, <1>8, <2>1
<1>12. SumOf(c) \in Int
  BY <1>1, SumType
<1> QED  BY <1>3, <1>10, <1>11, <1>12

-----------------------------------------------------------------------------
\* The portfolio.
Position == [quantity : Int, avg_cost : Books!Fraction, current_price : Nat]

BooksFit ==
  /\ books_cash \in Int /\ books_paid \in Nat /\ books_realized \in Books!Fraction
  /\ books_position \in [BookSymbols -> Position]
  /\ books_curve \in Seq(Int) /\ books_curve # <<>>

\* What was paid for the positions, of which v are the average costs.
PaidFor(v) == SymbolSum([s \in BookSymbols |-> books_position[s].quantity * v[s]])

\* The cash is the capital, less the fees, with what was realized and without what
\* was paid for the positions.
CashIs(D, r, v) ==
  /\ Is(books_realized, r, D)
  /\ \A s \in BookSymbols : Is(books_position[s].avg_cost, v[s], D)
  /\ books_cash * D = (BookCapital - books_paid) * D + r - PaidFor(v)

CashIsExplained ==
  \E D \in Nat \ {0}, r \in Int, v \in [BookSymbols -> Int] : CashIs(D, r, v)

EquityIsLast == books_curve[Len(books_curve)] = Books!Equity(books_cash, books_position)

EquityInv == BooksFit /\ CashIsExplained /\ EquityIsLast

\* A fill, over the denominator m times as large: what is paid for the position, w
\* per share, is what was paid, with the fill and what it realized.
FillMoves(p, quantity, price, v, D, m, w, g) ==
  /\ m \in Nat \ {0} /\ w \in Int /\ g \in Int
  /\ Is(Books!CostAfter(p, quantity, price), w, D * m)
  /\ Is(Books!Realized(p, quantity, price), g, D * m)
  /\ (p.quantity + quantity) * w = (p.quantity * v) * m + ((price * quantity) * D) * m + g

\* What is realized where a position is reduced.
LEMMA GainIs ==
  ASSUME NEW p \in Position, NEW v \in Int, NEW D \in Nat \ {0}, Is(p.avg_cost, v, D),
         NEW quantity \in Int, NEW price \in Nat,
         p.quantity # 0, ~Books!SameSide(p.quantity, quantity)
  PROVE  LET closing == Books!Least(Books!Abs(quantity), Books!Abs(p.quantity))
         IN  Is(Books!Realized(p, quantity, price),
                IF p.quantity > 0 THEN (price * D - v) * closing ELSE -((price * D - v) * closing), D)
<1> DEFINE closing == Books!Least(Books!Abs(quantity), Books!Abs(p.quantity))
           gain == Books!Times(Books!Minus(Books!Whole(price), p.avg_cost), closing)
           u == price * D
           c == (u - v) * closing
<1>1. p.quantity \in Int
  BY DEF Position
<1>2. closing \in Int
  BY <1>1 DEF Books!Least, Books!Abs
<1>3. u \in Int /\ Is(Books!Whole(price), u, D)
  BY WholeIs
<1>4. Books!Realized(p, quantity, price) = IF p.quantity > 0 THEN gain ELSE Books!Times(gain, -1)
  BY DEF Books!Realized
<1> HIDE DEF closing, u
<1>5. Is(Books!Minus(Books!Whole(price), p.avg_cost), u - v, D)
  BY <1>3, MinusIs
<1>6. u - v \in Int
  BY <1>3
<1>7. Is(gain, c, D) /\ c \in Int
  <2> DEFINE x == Books!Minus(Books!Whole(price), p.avg_cost)
             y == u - v
  <2> HIDE DEF x, y
  <2>1. Is(Books!Times(x, closing), y * closing, D)
    BY <1>2, <1>5, <1>6, TimesIs DEF x, y
  <2>2. y * closing \in Int
    BY <1>2, <1>6 DEF y
  <2> QED  BY <2>1, <2>2 DEF x, y
<1> HIDE DEF gain, c
<1>8. Is(Books!Times(gain, -1), -c, D)
  <2>1. c * (-1) = -c
    BY <1>7
  <2> QED  BY <1>7, <2>1, TimesIs
<1> QED  BY <1>4, <1>7, <1>8 DEF closing, u, c

\* What one fill does.
LEMMA FillIs ==
  ASSUME NEW p \in Position, NEW v \in Int, NEW D \in Nat \ {0}, Is(p.avg_cost, v, D),
         NEW quantity \in Int \ {0}, NEW price \in Nat
  PROVE  \E m, w, g : FillMoves(p, quantity, price, v, D, m, w, g)
<1> DEFINE q == p.quantity
           new == q + quantity
           u == price * D
           cost == Books!CostAfter(p, quantity, price)
           real == Books!Realized(p, quantity, price)
<1>1. q \in Int /\ new \in Int /\ u \in Int
  BY DEF Position
<1>2. CASE q = 0 \/ Books!SameSide(q, quantity)
  <2> DEFINE n == q * v + (price * quantity) * D
             x == Books!Plus(Books!Times(p.avg_cost, q), Books!Whole(price * quantity))
             m == IF new < 0 THEN -new ELSE new
             w == IF new < 0 THEN -n ELSE n
  <2>1. new # 0 /\ m \in Nat \ {0}
    BY <1>1, <1>2 DEF Books!SameSide
  <2>2. Is(x, v * q + (price * quantity) * D, D)
    <3> DEFINE k == price * quantity
               e == v * q
    <3>1. k \in Int /\ e \in Int /\ k * D \in Int
      BY <1>1
    <3>2. Is(Books!Times(p.avg_cost, q), e, D)
      BY <1>1, TimesIs
    <3>3. Is(Books!Whole(k), k * D, D)
      BY <3>1, WholeIs
    <3> HIDE DEF k, e
    <3>4. Is(Books!Plus(Books!Times(p.avg_cost, q), Books!Whole(k)), e + k * D, D)
      BY <3>1, <3>2, <3>3, PlusIs
    <3> QED  BY <3>4 DEF k, e
  <2>3. n \in Int /\ Is(x, n, D)
    <3>1. n = v * q + (price * quantity) * D /\ n \in Int
      BY <1>1
    <3> HIDE DEF n
    <3> QED  BY <2>2, <3>1
  <2>4. cost = Books!Over(x, new) /\ real = Books!Whole(0)
    BY <1>2 DEF Books!CostAfter, Books!Realized
  <2> HIDE DEF x, n, new
  <2>5. Is(cost, w, D * m) /\ w \in Int
    <3>1. /\ new > 0 => Is(Books!Over(x, new), n, D * new)
          /\ new < 0 => Is(Books!Over(x, new), -n, D * (-new))
      BY <1>1, <2>1, <2>3, OverIs
    <3>2. new \in Int /\ new # 0
      BY <1>1, <2>1
    <3>3. CASE new > 0
      BY <2>3, <2>4, <3>1, <3>2, <3>3
    <3>4. CASE new < 0
      BY <2>3, <2>4, <3>1, <3>2, <3>4
    <3> QED  BY <3>2, <3>3, <3>4
  <2>6. Is(real, 0, D * m)
    <3> HIDE DEF m
    <3>1. D * m \in Nat \ {0} /\ 0 * (D * m) = 0
      BY <2>1, Z3
    <3> QED  BY <2>4, <3>1, WholeIs
  <2>7. new * w = (q * v) * m + ((price * quantity) * D) * m + 0
    <3> DEFINE a == q * v
               b == (price * quantity) * D
    <3>1. a \in Int /\ b \in Int /\ n = a + b
      BY <1>1 DEF n
    <3> HIDE DEF a, b
    <3>2. new * w = n * m
      BY <1>1, <2>3
    <3>3. (a + b) * m = a * m + b * m
      BY <2>1, <3>1, Z3
    <3>4. a * m \in Int /\ b * m \in Int
      BY <2>1, <3>1
    <3> HIDE DEF m, w
    <3>5. new * w = a * m + b * m + 0
      BY <3>1, <3>2, <3>3, <3>4
    <3> QED  BY <3>5 DEF a, b
  <2> HIDE DEF m, w
  <2>8. FillMoves(p, quantity, price, v, D, m, w, 0)
    BY <2>1, <2>5, <2>6, <2>7 DEF FillMoves, new
  <2> QED  BY <2>8
<1>3. CASE q # 0 /\ ~Books!SameSide(q, quantity)
  <2> DEFINE closing == Books!Least(Books!Abs(quantity), Books!Abs(q))
             g == IF q > 0 THEN (u - v) * closing ELSE -((u - v) * closing)
  <2>1. closing \in Int
    BY <1>1 DEF Books!Least, Books!Abs
  <2>2. g \in Int /\ Is(real, g, D * 1)
    <3>1. Is(real, g, D)
      BY <1>3, GainIs
    <3>2. D * 1 = D
      OBVIOUS
    <3>3. g \in Int
      BY <1>1, <2>1
    <3> QED  BY <3>1, <3>2, <3>3
  <2> DEFINE Sums(w) == new * w = q * v + u * quantity + g
  <2>3. ASSUME NEW w \in Int, Is(cost, w, D), Sums(w) PROVE FillMoves(p, quantity, price, v, D, 1, w, g)
    <3>1. u * quantity = (price * quantity) * D
      BY Z3
    <3>2. (q * v) * 1 = q * v /\ ((price * quantity) * D) * 1 = (price * quantity) * D /\ D * 1 = D
      BY <1>1
    <3> HIDE DEF g, u
    <3> QED  BY <2>2, <2>3, <3>1, <3>2 DEF FillMoves
  <2>4. CASE new = 0
    <3>1. Is(cost, 0, D)
      <4>1. cost = Books!Whole(0) /\ 0 * D = 0
        BY <1>3, <2>4 DEF Books!CostAfter
      <4> QED  BY <4>1, WholeIs
    <3>2. g = (u - v) * q /\ quantity = -q
      BY <1>1, <1>3, <2>4 DEF Books!Least, Books!Abs
    <3>3. Sums(0)
      <4> HIDE DEF u, g, q, new
      <4>1. (u - v) * q = u * q - v * q /\ u * (-q) = -(u * q) /\ q * v = v * q
        BY <1>1, Z3
      <4>2. u * q \in Int /\ v * q \in Int /\ new * 0 = 0
        BY <1>1
      <4> QED  BY <3>2, <4>1, <4>2
    <3> HIDE DEF Sums, g
    <3> QED  BY <2>3, <3>1, <3>3
  <2>5. CASE new # 0 /\ Books!SameSide(q, new)
    <3>1. cost = p.avg_cost
      BY <1>3, <2>5 DEF Books!CostAfter
    <3>2. g = -((u - v) * quantity)
      <4>1. closing = IF quantity > 0 THEN quantity ELSE -quantity
        BY <1>1, <1>3, <2>5 DEF Books!Least, Books!Abs, Books!SameSide
      <4>2. q > 0 => closing = -quantity
        BY <1>1, <1>3, <4>1 DEF Books!SameSide
      <4>3. q < 0 => closing = quantity
        BY <1>1, <1>3, <4>1 DEF Books!SameSide
      <4>4. (u - v) * (-quantity) = -((u - v) * quantity)
        BY <1>1, Z3
      <4> HIDE DEF closing
      <4> QED  BY <1>1, <1>3, <4>2, <4>3, <4>4
    <3>3. Sums(v)
      <4> HIDE DEF u, g, q
      <4>1. (u - v) * quantity = u * quantity - v * quantity /\ (q + quantity) * v = q * v + v * quantity
        BY <1>1, Z3
      <4>2. u * quantity \in Int /\ v * quantity \in Int /\ q * v \in Int
        BY <1>1
      <4> QED  BY <3>2, <4>1, <4>2
    <3> HIDE DEF Sums, g
    <3> QED  BY <2>3, <3>1, <3>3
  <2>6. CASE new # 0 /\ ~Books!SameSide(q, new)
    <3>1. cost = Books!Whole(price) /\ Is(cost, u, D)
      <4>1. cost = Books!Whole(price)
        BY <1>3, <2>6 DEF Books!CostAfter
      <4>2. Is(Books!Whole(price), u, D)
        BY WholeIs
      <4> QED  BY <4>1, <4>2
    <3>2. g = (u - v) * q
      <4>1. closing = IF q > 0 THEN q ELSE -q
        BY <1>1, <1>3, <2>6 DEF Books!Least, Books!Abs, Books!SameSide
      <4>2. -((u - v) * (-q)) = (u - v) * q
        BY <1>1, Z3
      <4> QED  BY <1>1, <1>3, <4>1, <4>2
    <3>3. Sums(u)
      <4> HIDE DEF u, g, q
      <4>1. (u - v) * q = u * q - v * q /\ (q + quantity) * u = u * q + u * quantity /\ q * v = v * q
        BY <1>1, Z3
      <4>2. u * quantity \in Int /\ v * q \in Int /\ u * q \in Int
        BY <1>1
      <4> QED  BY <3>2, <4>1, <4>2
    <3> HIDE DEF Sums, g
    <3> QED  BY <1>1, <2>3, <3>1, <3>3
  <2> HIDE DEF g, Sums
  <2> QED  BY <2>4, <2>5, <2>6
<1> QED  BY <1>2, <1>3

LEMMA SymbolSumScaled ==
  ASSUME Books!AccountingAssumption, NEW f \in [BookSymbols -> Int], NEW h \in [BookSymbols -> Int],
         NEW k \in Int, \A s \in BookSymbols : h[s] = f[s] * k
  PROVE  SymbolSum(h) = SymbolSum(f) * k
<1> DEFINE zero == [s \in BookSymbols |-> 0]
<1>1. zero \in [BookSymbols -> Int] /\ \A s \in BookSymbols : zero[s] = 0
  OBVIOUS
<1> HIDE DEF zero
<1>2. SymbolSum(zero) \in Int /\ SymbolSum(f) \in Int
  BY <1>1, SymbolSumType
<1>3. SymbolSum(zero) = SymbolSum(zero) * 1 + SymbolSum(zero)
  <2>1. \A s \in BookSymbols : zero[s] = zero[s] * 1 + zero[s]
    BY <1>1
  <2> QED  BY <1>1, <2>1, SymbolSumOfBoth
<1>4. SymbolSum(zero) = 0
  <2> DEFINE n == SymbolSum(zero)
  <2>1. n \in Int /\ n = n * 1 + n
    BY <1>2, <1>3
  <2> HIDE DEF n
  <2>2. n = 0
    BY <2>1
  <2> QED  BY <2>2 DEF n
<1>5. SymbolSum(h) = SymbolSum(f) * k + SymbolSum(zero)
  <2>1. \A s \in BookSymbols : h[s] = f[s] * k + zero[s]
    BY <1>1
  <2> QED  BY <1>1, <2>1, SymbolSumOfBoth
<1> QED  BY <1>2, <1>4, <1>5

\* What the positions are worth.
Worth(ps) == SymbolSum([s \in BookSymbols |-> ps[s].quantity * ps[s].current_price])

LEMMA EquityIsWorth ==
  ASSUME Books!AccountingAssumption, NEW c, NEW ps \in [BookSymbols -> Position]
  PROVE  Books!Equity(c, ps) = c + Worth(ps) /\ Worth(ps) \in Int
<1> DEFINE N == Len(Books!Order)
           f == [s \in BookSymbols |-> ps[s].quantity * ps[s].current_price]
           a == [i \in 1 .. N |-> f[Books!Order[i]]]
           b == [i \in DOMAIN Books!Order |-> ps[Books!Order[i]].quantity * ps[Books!Order[i]].current_price]
<1>1. DOMAIN Books!Order = 1 .. N /\ \A i \in 1 .. N : Books!Order[i] \in BookSymbols
  BY OrderIsWhole, ElementOfSeq
<1>2. a = b
  BY <1>1
<1>3. Books!SumOf(b) = SumOf(b)
  BY DEF Books!SumOf, Books!Totals, SumOf, Totals
<1>4. f \in [BookSymbols -> Int]
  BY DEF Position
<1>5. Books!Equity(c, ps) = c + Books!SumOf(b) /\ Worth(ps) = SumOf(a)
  BY Zenon DEF Books!Equity, Worth, SymbolSum
<1>6. Worth(ps) \in Int
  <2> HIDE DEF f
  <2> QED  BY <1>4, SymbolSumType DEF Worth, f
<1> QED  BY <1>2, <1>3, <1>5, <1>6

\* The values of a sum over the symbols.
LEMMA SymbolTotalIs ==
  ASSUME Books!AccountingAssumption, NEW x \in [BookSymbols -> Books!Fraction],
         NEW v \in [BookSymbols -> Int], NEW D \in Nat \ {0}, \A s \in BookSymbols : Is(x[s], v[s], D)
  PROVE  /\ SymbolSum(v) \in Int
         /\ Is(Books!Total([i \in DOMAIN Books!Order |-> x[Books!Order[i]]]), SymbolSum(v), D)
<1> DEFINE N == Len(Books!Order)
           a == [i \in 1 .. N |-> x[Books!Order[i]]]
           b == [i \in 1 .. N |-> v[Books!Order[i]]]
<1>1. DOMAIN Books!Order = 1 .. N /\ \A i \in 1 .. N : Books!Order[i] \in BookSymbols
  BY OrderIsWhole, ElementOfSeq
<1>2. /\ a \in Seq(Books!Fraction) /\ Len(a) = N /\ (\A i \in 1 .. N : a[i] = x[Books!Order[i]])
      /\ b \in Seq(Int) /\ Len(b) = N /\ (\A i \in 1 .. N : b[i] = v[Books!Order[i]])
  BY SymbolSequence
<1>3. SymbolSum(v) = SumOf(b) /\ a = [i \in DOMAIN Books!Order |-> x[Books!Order[i]]]
  BY <1>1 DEF SymbolSum
<1> HIDE DEF a, b
<1>4. Len(b) = Len(a) /\ \A i \in 1 .. Len(a) : Is(a[i], b[i], D)
  BY <1>1, <1>2
<1>5. SumOf(b) \in Int /\ Is(Books!Total(a), SumOf(b), D)
  BY <1>2, <1>4, TotalIs
<1> QED  BY <1>3, <1>5

LEMMA EquityBegins == Books!AccountingAssumption /\ Books!Init => EquityInv
<1> SUFFICES ASSUME Books!AccountingAssumption, Books!Init PROVE EquityInv
  OBVIOUS
<1> DEFINE zero == [s \in BookSymbols |-> 0]
<1>1. /\ books_cash = BookCapital /\ books_realized = Books!Whole(0) /\ books_paid = 0
      /\ books_position = [s \in BookSymbols |-> Books!NoPosition] /\ books_curve = <<BookCapital>>
      /\ BookCapital \in Nat
  BY DEF Books!Init, Books!AccountingAssumption
<1>2. Books!NoPosition \in Position /\ Books!Whole(0) \in Books!Fraction
  BY DEF Books!NoPosition, Position, Books!Whole, Books!Fraction
<1>3. BooksFit
  BY <1>1, <1>2 DEF BooksFit
<1>4. zero \in [BookSymbols -> Int] /\ \A s \in BookSymbols : zero[s] = 0
  OBVIOUS
<1>5. \A s \in BookSymbols : books_position[s].quantity = 0 /\ books_position[s].avg_cost = Books!Whole(0)
                            /\ books_position[s].current_price = 0
  BY <1>1 DEF Books!NoPosition
<1>6. SymbolSum(zero) = 0
  <2> HIDE DEF zero
  <2>1. \A s \in BookSymbols : zero[s] = zero[s] * 0
    BY <1>4
  <2>2. SymbolSum(zero) = SymbolSum(zero) * 0 /\ SymbolSum(zero) \in Int
    BY <1>4, <2>1, SymbolSumScaled, SymbolSumType
  <2> QED  BY <2>2
<1>7. PaidFor(zero) = 0 /\ Worth(books_position) = 0
  <2>1. [s \in BookSymbols |-> books_position[s].quantity * zero[s]] = zero
    BY <1>5
  <2>2. [s \in BookSymbols |-> books_position[s].quantity * books_position[s].current_price] = zero
    BY <1>5
  <2> HIDE DEF zero
  <2> QED  BY <1>6, <2>1, <2>2 DEF PaidFor, Worth
<1>8. Is(Books!Whole(0), 0, 1)
  BY <1>2 DEF Is, Books!Whole
<1>9. CashIs(1, 0, zero)
  <2> HIDE DEF zero
  <2> QED  BY <1>1, <1>4, <1>5, <1>7, <1>8 DEF CashIs
<1>10. CashIsExplained
  <2> HIDE DEF zero
  <2> QED  BY <1>4, <1>9 DEF CashIsExplained
<1>11. EquityIsLast
  <2>1. Books!Equity(books_cash, books_position) = books_cash + 0
    BY <1>3, <1>7, EquityIsWorth DEF BooksFit
  <2> QED  BY <1>1, <2>1 DEF EquityIsLast
<1> QED  BY <1>3, <1>10, <1>11 DEF EquityInv

\* The equity is appended to the curve.
LEMMA CurveGrows ==
  ASSUME Books!AccountingAssumption, BooksFit, books_cash' \in Int,
         books_position' \in [BookSymbols -> Position],
         books_curve' = Append(books_curve, Books!Equity(books_cash', books_position'))
  PROVE  books_curve' \in Seq(Int) /\ books_curve' # <<>> /\ EquityIsLast'
<1> DEFINE e == Books!Equity(books_cash', books_position')
<1>1. e \in Int
  BY EquityIsWorth
<1>2. books_curve \in Seq(Int)
  BY DEF BooksFit
<1>3. books_curve' = Append(books_curve, e)
  OBVIOUS
<1> HIDE DEF e
<1>4. books_curve' \in Seq(Int) /\ Len(books_curve') = Len(books_curve) + 1
      /\ books_curve'[Len(books_curve) + 1] = e /\ books_curve' # <<>>
  BY <1>1, <1>2, <1>3
<1> QED  BY <1>4 DEF EquityIsLast, e

\* A fill leaves the cash explained.
LEMMA FillKeeps ==
  ASSUME Books!AccountingAssumption, EquityInv, NEW s \in BookSymbols, NEW price \in FillPrices,
         NEW quantity \in FillQuantities, NEW fees \in FillFees,
         Books!UpdatePosition(s, quantity, price, fees)
  PROVE  EquityInv'
<1> DEFINE p == books_position[s]
           new == p.quantity + quantity
           cost == Books!CostAfter(p, quantity, price)
           real == Books!Realized(p, quantity, price)
           after == [quantity |-> new, avg_cost |-> cost, current_price |-> price]
<1>1. /\ quantity \in Int \ {0} /\ price \in Nat /\ fees \in Nat /\ BookCapital \in Nat
      /\ p \in Position /\ p.quantity \in Int /\ new \in Int
  BY DEF Books!AccountingAssumption, EquityInv, BooksFit, Position
<1>2. /\ books_cash' = books_cash - price * quantity - fees /\ books_paid' = books_paid + fees
      /\ books_position' = [books_position EXCEPT ![s] = after]
      /\ books_realized' = Books!Plus(books_realized, real)
      /\ books_curve' = Append(books_curve, Books!Equity(books_cash', books_position'))
  BY DEF Books!UpdatePosition
<1>3. PICK D \in Nat \ {0}, r \in Int, v \in [BookSymbols -> Int] : CashIs(D, r, v)
  BY DEF EquityInv, CashIsExplained
<1>4. v[s] \in Int /\ Is(p.avg_cost, v[s], D)
  BY <1>3 DEF CashIs
<1>5. PICK m, w, g : FillMoves(p, quantity, price, v[s], D, m, w, g)
  BY <1>1, <1>4, FillIs
<1>6. /\ m \in Nat \ {0} /\ w \in Int /\ g \in Int /\ Is(cost, w, D * m) /\ Is(real, g, D * m)
      /\ new * w = (p.quantity * v[s]) * m + ((price * quantity) * D) * m + g
  BY <1>5 DEF FillMoves
<1>7. /\ Is(books_realized, r, D) /\ (\A t \in BookSymbols : Is(books_position[t].avg_cost, v[t], D))
      /\ books_cash * D = (BookCapital - books_paid) * D + r - PaidFor(v)
      /\ books_cash \in Int /\ books_paid \in Nat /\ books_position \in [BookSymbols -> Position]
  BY <1>3 DEF CashIs, EquityInv, BooksFit
<1>8. D * m \in Nat \ {0}
  BY <1>6, Z3
<1> DEFINE u == [t \in BookSymbols |-> IF t = s THEN w ELSE v[t] * m]
           f == [t \in BookSymbols |-> books_position[t].quantity * v[t]]
           h == [t \in BookSymbols |-> (books_position[t].quantity * v[t]) * m]
           k == [t \in BookSymbols |-> books_position'[t].quantity * u[t]]
<1>9. /\ books_position'[s] = after /\ after.quantity = new /\ after.avg_cost = cost
      /\ \A t \in BookSymbols \ {s} : books_position'[t] = books_position[t]
  BY <1>2, <1>7
<1>10. u \in [BookSymbols -> Int] /\ u[s] = w /\ \A t \in BookSymbols \ {s} : u[t] = v[t] * m
  BY <1>6
<1> HIDE DEF u, p, new, cost, real
<1>11. after \in Position /\ books_position' \in [BookSymbols -> Position]
  <2>1. cost \in Books!Fraction
    BY <1>6 DEF Is
  <2>2. after \in Position
    BY <1>1, <2>1 DEF Position
  <2> HIDE DEF after
  <2> QED  BY <1>2, <1>7, <2>2
<1> HIDE DEF after
<1>12. \A t \in BookSymbols : Is(books_position'[t].avg_cost, u[t], D * m)
  <2> SUFFICES ASSUME NEW t \in BookSymbols PROVE Is(books_position'[t].avg_cost, u[t], D * m)
    OBVIOUS
  <2>1. CASE t = s
    BY <1>6, <1>9, <1>10, <2>1
  <2>2. CASE t # s
    <3>1. Is(books_position[t].avg_cost, v[t], D) /\ v[t] \in Int
      BY <1>7
    <3>2. Is(books_position[t].avg_cost, v[t] * m, D * m)
      BY <1>6, <3>1, IsScaled
    <3> QED  BY <1>9, <1>10, <2>2, <3>2
  <2> QED  BY <2>1, <2>2
<1>13. /\ r * m + g \in Int /\ Is(books_realized', r * m + g, D * m)
  <2>1. Is(books_realized, r * m, D * m) /\ r * m \in Int
    BY <1>6, <1>7, IsScaled
  <2> HIDE DEF CashIs
  <2>2. Is(Books!Plus(books_realized, real), r * m + g, D * m)
    <3> DEFINE a == r * m
               E == D * m
    <3>1. a \in Int /\ E \in Nat \ {0} /\ Is(books_realized, a, E) /\ Is(real, g, E)
      BY <1>6, <1>8, <2>1
    <3> HIDE DEF a, E
    <3>2. Is(Books!Plus(books_realized, real), a + g, E)
      BY <1>6, <3>1, PlusIs
    <3> QED  BY <3>2 DEF a, E
  <2> QED  BY <1>2, <1>6, <2>1, <2>2
<1>14. PaidFor(u)' = PaidFor(v) * m + ((price * quantity) * D) * m + g /\ PaidFor(v) \in Int
  <2>1. f \in [BookSymbols -> Int] /\ h \in [BookSymbols -> Int] /\ k \in [BookSymbols -> Int]
    BY <1>6, <1>7, <1>10, <1>11 DEF Position
  <2>2. \A t \in BookSymbols : h[t] = f[t] * m
    OBVIOUS
  <2>3. \A t \in BookSymbols \ {s} : k[t] = h[t]
    <3> SUFFICES ASSUME NEW t \in BookSymbols \ {s} PROVE k[t] = h[t]
      OBVIOUS
    <3> DEFINE q == books_position[t].quantity
               z == v[t]
    <3>1. k[t] = q * (z * m) /\ h[t] = (q * z) * m
      BY <1>9, <1>10
    <3>2. q \in Int /\ z \in Int
      BY <1>7 DEF Position
    <3> HIDE DEF q, z, k, h
    <3>3. q * (z * m) = (q * z) * m
      BY <1>6, <3>2, Z3
    <3> QED  BY <3>1, <3>3
  <2>4. k[s] = new * w /\ h[s] = (p.quantity * v[s]) * m
    BY <1>9, <1>10 DEF p
  <2>5. PaidFor(v) = SymbolSum(f) /\ PaidFor(u)' = SymbolSum(k)
    BY DEF PaidFor, SymbolSum
  <2> HIDE DEF f, h, k
  <2>6. SymbolSum(h) = SymbolSum(f) * m
    BY <1>6, <2>1, <2>2, SymbolSumScaled
  <2>7. SymbolSum(k) = SymbolSum(h) - h[s] + k[s]
    BY <2>1, <2>3, SymbolSumChanges
  <2>8. SymbolSum(f) \in Int /\ SymbolSum(h) \in Int /\ h[s] \in Int
    BY <2>1, SymbolSumType
  <2> DEFINE a == (p.quantity * v[s]) * m
             b == ((price * quantity) * D) * m
  <2>9. b \in Int
    BY <1>1, <1>6
  <2>10. h[s] = a /\ k[s] = a + b + g
    BY <1>6, <2>4
  <2> HIDE DEF a, b
  <2>11. SymbolSum(k) = SymbolSum(h) + b + g
    BY <1>6, <2>7, <2>8, <2>9, <2>10
  <2> QED  BY <2>5, <2>6, <2>8, <2>11 DEF b
<1>15. books_cash' * (D * m) = (BookCapital - books_paid') * (D * m) + (r * m + g) - PaidFor(u)'
  <2> DEFINE c == books_cash
             a == BookCapital - books_paid
             x == price * quantity
             P == PaidFor(v)
             E == D * m
  <2>1. /\ c \in Int /\ a \in Int /\ x \in Int /\ P \in Int /\ E \in Int
        /\ c * D = a * D + r - P
    BY <1>1, <1>7, <1>8, <1>14
  <2>2. books_cash' = c - x - fees /\ BookCapital - books_paid' = a - fees
    BY <1>1, <1>2, <1>7
  <2>3. PaidFor(u)' = P * m + (x * D) * m + g
    BY <1>14
  <2>4. (x * D) * m = x * E /\ (c * D) * m = c * E /\ (a * D) * m = a * E
    <3> HIDE DEF c, a, x
    <3> QED  BY <1>6, <2>1, Z3 DEF E
  <2> HIDE DEF c, a, x, P, E
  <2>5. c * E = a * E + r * m - P * m
    <3>1. (c * D) * m = (a * D + r - P) * m
      BY <2>1
    <3>2. (a * D + r - P) * m = (a * D) * m + r * m - P * m
      BY <1>6, <2>1, Z3
    <3> QED  BY <2>4, <3>1, <3>2
  <2>6. (c - x - fees) * E = c * E - x * E - fees * E /\ (a - fees) * E = a * E - fees * E
    BY <1>1, <2>1, Z3
  <2>7. c * E \in Int /\ x * E \in Int /\ fees * E \in Int /\ a * E \in Int /\ r * m \in Int /\ P * m \in Int
    BY <1>1, <1>6, <2>1
  <2>8. (c - x - fees) * E = (a - fees) * E + (r * m + g) - (P * m + x * E + g)
    BY <1>6, <2>5, <2>6, <2>7
  <2> QED  BY <2>2, <2>3, <2>4, <2>8 DEF E
<1>16. CashIsExplained'
  <2> DEFINE E == D * m
             z == r * m + g
  <2>1. E \in Nat \ {0} /\ z \in Int
    BY <1>8, <1>13
  <2> HIDE DEF E, z
  <2>2. CashIs(E, z, u)'
    BY <1>12, <1>13, <1>15 DEF CashIs, E, z
  <2> QED  BY <1>10, <2>1, <2>2 DEF CashIsExplained
<1>17. books_cash' \in Int /\ books_paid' \in Nat
  BY <1>1, <1>2, <1>7
<1>18. books_curve' \in Seq(Int) /\ books_curve' # <<>> /\ EquityIsLast'
  <2>1. BooksFit
    BY DEF EquityInv
  <2> QED  BY <1>2, <1>11, <1>17, <2>1, CurveGrows
<1>19. books_realized' \in Books!Fraction
  BY <1>13 DEF Is
<1> QED  BY <1>11, <1>16, <1>17, <1>18, <1>19 DEF EquityInv, BooksFit

\* So does a mark.
LEMMA MarkKeeps ==
  ASSUME Books!AccountingAssumption, EquityInv, NEW s \in BookSymbols, NEW price \in FillPrices,
         Books!MarkToMarket(s, price)
  PROVE  EquityInv'
<1>1. /\ books_position' = [books_position EXCEPT ![s].current_price = price]
      /\ books_curve' = Append(books_curve, Books!Equity(books_cash, books_position'))
      /\ UNCHANGED <<books_cash, books_realized, books_paid>>
  BY DEF Books!MarkToMarket
<1>2. BooksFit /\ price \in Nat
  BY DEF EquityInv, Books!AccountingAssumption
<1>3. books_position' \in [BookSymbols -> Position]
  BY <1>1, <1>2 DEF BooksFit, Position
<1>4. \A t \in BookSymbols : /\ books_position'[t].quantity = books_position[t].quantity
                              /\ books_position'[t].avg_cost = books_position[t].avg_cost
  BY <1>1, <1>2 DEF BooksFit, Position
<1>5. CashIsExplained'
  <2>1. PICK D \in Nat \ {0}, r \in Int, v \in [BookSymbols -> Int] : CashIs(D, r, v)
    BY DEF EquityInv, CashIsExplained
  <2>2. PaidFor(v)' = PaidFor(v)
    <3>1. [t \in BookSymbols |-> books_position'[t].quantity * v[t]]
            = [t \in BookSymbols |-> books_position[t].quantity * v[t]]
      BY <1>4
    <3>2. PaidFor(v)' = SymbolSum([t \in BookSymbols |-> books_position'[t].quantity * v[t]])
      BY DEF PaidFor, SymbolSum
    <3> QED  BY <3>1, <3>2 DEF PaidFor
  <2>3. CashIs(D, r, v)'
    BY <1>1, <1>4, <2>1, <2>2 DEF CashIs
  <2> QED  BY <2>3 DEF CashIsExplained
<1>6. books_cash' \in Int /\ books_curve' = Append(books_curve, Books!Equity(books_cash', books_position'))
  BY <1>1, <1>2 DEF BooksFit
<1>7. books_curve' \in Seq(Int) /\ books_curve' # <<>> /\ EquityIsLast'
  BY <1>2, <1>3, <1>6, CurveGrows
<1> QED  BY <1>1, <1>2, <1>3, <1>5, <1>7 DEF EquityInv, BooksFit

\* The equity is then what the property says.
LEMMA EquityHolds ==
  ASSUME Books!AccountingAssumption, EquityInv PROVE Books!EquityIsExplained
<1> DEFINE Unrealized(p) == Books!Times(Books!Minus(Books!Whole(p.current_price), p.avg_cost), p.quantity)
           x == [s \in BookSymbols |-> Unrealized(books_position[s])]
           all == Books!Total([i \in DOMAIN Books!Order |-> x[Books!Order[i]]])
           c == books_cash
           W == Worth(books_position)
<1>1. /\ BooksFit /\ books_position \in [BookSymbols -> Position] /\ c \in Int
      /\ books_paid \in Nat /\ BookCapital \in Nat
  BY DEF EquityInv, BooksFit, Books!AccountingAssumption
<1>2. PICK D \in Nat \ {0}, r \in Int, v \in [BookSymbols -> Int] : CashIs(D, r, v)
  BY DEF EquityInv, CashIsExplained
<1>3. /\ Is(books_realized, r, D) /\ (\A t \in BookSymbols : Is(books_position[t].avg_cost, v[t], D))
      /\ c * D = (BookCapital - books_paid) * D + r - PaidFor(v)
  BY <1>2 DEF CashIs
<1> DEFINE worth == [s \in BookSymbols |-> books_position[s].quantity * books_position[s].current_price]
           scaled == [s \in BookSymbols |-> worth[s] * D]
           paid == [s \in BookSymbols |-> books_position[s].quantity * v[s]]
           f == [s \in BookSymbols |-> paid[s] * (-1) + scaled[s]]
<1>4. /\ worth \in [BookSymbols -> Int] /\ scaled \in [BookSymbols -> Int]
      /\ paid \in [BookSymbols -> Int] /\ f \in [BookSymbols -> Int]
  BY <1>1 DEF Position
<1>5. \A s \in BookSymbols : Is(x[s], f[s], D)
  <2> SUFFICES ASSUME NEW s \in BookSymbols PROVE Is(x[s], f[s], D)
    OBVIOUS
  <2> DEFINE p == books_position[s]
             q == p.quantity
             k == p.current_price
             y == v[s]
             a == k * D
  <2>1. q \in Int /\ k \in Int /\ y \in Int /\ Is(p.avg_cost, y, D)
    BY <1>1, <1>3 DEF Position
  <2>2. x[s] = Books!Times(Books!Minus(Books!Whole(k), p.avg_cost), q) /\ f[s] = (q * y) * (-1) + (q * k) * D
    OBVIOUS
  <2> HIDE DEF p, q, k, y, x, f
  <2>3. a \in Int /\ Is(Books!Whole(k), a, D)
    BY <2>1, WholeIs
  <2>4. a - y \in Int /\ (a - y) * q = f[s]
    <3>1. (a - y) * q = (q * k) * D - q * y
      BY <2>1, Z3
    <3>2. (q * k) * D \in Int /\ q * y \in Int /\ (q * y) * (-1) = -(q * y)
      BY <2>1
    <3> QED  BY <2>1, <2>2, <2>3, <3>1, <3>2
  <2> HIDE DEF a
  <2>5. Is(Books!Minus(Books!Whole(k), p.avg_cost), a - y, D)
    BY <2>1, <2>3, MinusIs
  <2> DEFINE d == a - y
             z == Books!Minus(Books!Whole(k), p.avg_cost)
  <2>6. d \in Int /\ Is(z, d, D) /\ d * q = f[s] /\ x[s] = Books!Times(z, q)
    BY <2>2, <2>4, <2>5
  <2> HIDE DEF d, z
  <2>7. Is(Books!Times(z, q), d * q, D)
    BY <2>1, <2>6, TimesIs
  <2> QED  BY <2>6, <2>7
<1>6. x \in [BookSymbols -> Books!Fraction]
  <2>1. \A s \in BookSymbols : x[s] \in Books!Fraction
    BY <1>5 DEF Is
  <2>2. x = [s \in BookSymbols |-> x[s]]
    OBVIOUS
  <2> HIDE DEF x
  <2> QED  BY <2>1, <2>2
<1>7. SymbolSum(f) = PaidFor(v) * (-1) + W * D /\ PaidFor(v) \in Int /\ W \in Int
  <2>1. \A s \in BookSymbols : scaled[s] = worth[s] * D /\ f[s] = paid[s] * (-1) + scaled[s]
    OBVIOUS
  <2>2. W = SymbolSum(worth) /\ PaidFor(v) = SymbolSum(paid)
    BY DEF Worth, PaidFor
  <2> HIDE DEF worth, scaled, paid, f, W
  <2>3. SymbolSum(scaled) = SymbolSum(worth) * D
    <3>1. D \in Int /\ \A s \in BookSymbols : scaled[s] = worth[s] * D
      BY <2>1
    <3> QED  BY <1>4, <3>1, SymbolSumScaled
  <2>4. SymbolSum(f) = SymbolSum(paid) * (-1) + SymbolSum(scaled)
    <3> DEFINE k == -1
    <3>1. k \in Int /\ \A s \in BookSymbols : f[s] = paid[s] * k + scaled[s]
      BY <2>1
    <3> HIDE DEF k
    <3>2. SymbolSum(f) = SymbolSum(paid) * k + SymbolSum(scaled)
      BY <1>4, <3>1, SymbolSumOfBoth
    <3> QED  BY <3>2 DEF k
  <2> QED  BY <1>4, <2>2, <2>3, <2>4, SymbolSumType
<1> HIDE DEF f
<1>8. SymbolSum(f) \in Int /\ Is(all, SymbolSum(f), D)
  <2> HIDE DEF x
  <2> QED  BY <1>4, <1>5, <1>6, SymbolTotalIs
<1>9. all = Books!Total([i \in DOMAIN Books!Order |-> Unrealized(books_position[Books!Order[i]])])
  <2>1. \A i \in DOMAIN Books!Order : Books!Order[i] \in BookSymbols
    BY OrderIsWhole, ElementOfSeq
  <2>2. [i \in DOMAIN Books!Order |-> x[Books!Order[i]]]
          = [i \in DOMAIN Books!Order |-> Unrealized(books_position[Books!Order[i]])]
    BY <2>1
  <2> QED  BY <2>2
<1>10. books_curve[Len(books_curve)] = c + W
  BY <1>1, EquityIsWorth DEF EquityInv, EquityIsLast
<1> HIDE DEF x, all
<1>11. Books!Plus(Books!Whole(BookCapital - books_paid), Books!Plus(books_realized, all)) = Books!Whole(c + W)
  <2> DEFINE a == BookCapital - books_paid
             P == PaidFor(v)
             S == SymbolSum(f)
             b == a * D
             e == r + S
             z == Books!Plus(books_realized, all)
  <2>1. a \in Int /\ b \in Int /\ S \in Int /\ e \in Int /\ c + W \in Int
    BY <1>1, <1>7, <1>8
  <2>2. Is(Books!Whole(a), b, D)
    BY <2>1, WholeIs
  <2>3. Is(z, e, D)
    BY <1>3, <1>8, PlusIs
  <2>4. b + e = (c + W) * D
    <3> HIDE DEF a, P, S, c, W
    <3>1. (c + W) * D = c * D + W * D
      BY <1>1, <1>7, Z3
    <3>2. c * D = b + r - P /\ S = P * (-1) + W * D
      BY <1>3, <1>7 DEF a, P, S
    <3>3. P \in Int /\ W * D \in Int /\ c * D \in Int
      BY <1>1, <1>7 DEF P
    <3> HIDE DEF b
    <3> QED  BY <2>1, <3>1, <3>2, <3>3
  <2> DEFINE i == c + W
             y == Books!Whole(a)
  <2> HIDE DEF b, e, y, z
  <2>5. Books!Plus(y, z) = Books!Whole(c + W)
    <3>1. i \in Int /\ b + e = i * D /\ Is(y, b, D)
      BY <2>1, <2>2, <2>4 DEF y
    <3> HIDE DEF i
    <3>2. Books!Plus(y, z) = Books!Whole(i)
      BY <2>1, <2>3, <3>1, PlusIs
    <3> QED  BY <3>2 DEF i
  <2> QED  BY <2>5 DEF y, z
<1> QED  BY <1>9, <1>10, <1>11, Zenon DEF Books!EquityIsExplained

LEMMA EquityKept == Books!AccountingAssumption => (Books!Spec => []EquityInv)
<1> SUFFICES ASSUME Books!AccountingAssumption PROVE Books!Spec => []EquityInv
  OBVIOUS
<1>1. EquityInv /\ [Books!Next]_(Books!vars) => EquityInv'
  <2> SUFFICES ASSUME EquityInv, [Books!Next]_(Books!vars) PROVE EquityInv'
    OBVIOUS
  <2>1. CASE UNCHANGED Books!vars
    BY <2>1 DEF Books!vars, EquityInv, BooksFit, CashIsExplained, CashIs, PaidFor, EquityIsLast
  <2>2. ASSUME NEW s \in BookSymbols, NEW price \in FillPrices, NEW quantity \in FillQuantities,
               NEW fees \in FillFees, Books!UpdatePosition(s, quantity, price, fees)
        PROVE  EquityInv'
    BY <2>2, FillKeeps
  <2>3. ASSUME NEW s \in BookSymbols, NEW price \in FillPrices, Books!MarkToMarket(s, price)
        PROVE  EquityInv'
    BY <2>3, MarkKeeps
  <2> QED  BY <2>1, <2>2, <2>3 DEF Books!Next
<1>2. Books!Init => EquityInv
  BY EquityBegins
<1>. QED BY <1>1, <1>2, PTL DEF Books!Spec

\* In a run, the two books run as they would alone.
LEMMA BooksRuns == PartsSpec => Books!Spec
<1>1. PartsInit => Books!Init
  BY DEF PartsInit
<1>2. [PartsNext]_allVars => [Books!Next]_(Books!vars)
  BY DEF PartsNext, Still, allVars, booksVars, Books!vars
<1>. QED BY <1>1, <1>2, PTL DEF PartsSpec, Books!Spec

\* Whatever the symbols, the prices, the sizes and the fees of the fills: the last
\* equity is the capital, less the fees, with the profits realized and those not
\* realized yet, over increases, partial closes and turns, to the last cent.
THEOREM EquityStaysExplained == PartsSpec => []EquityIsExplained
<1>1. Books!AccountingAssumption
  BY PartsAssumption
<1>2. EquityInv => EquityIsExplained
  BY <1>1, EquityHolds DEF EquityIsExplained
<1>. QED BY <1>1, <1>2, BooksRuns, EquityKept, PTL

-----------------------------------------------------------------------------
\* The trades.
Lot == [quantity : Int \ {0}, price : Nat, fees : Books!Fraction]
CostOf(lot) == Books!Plus(Books!Whole(lot.quantity * lot.price), lot.fees)
CostsOf(list) == Books!Total([i \in DOMAIN list |-> CostOf(list[i])])
HeldIn(list) == SumOf([i \in DOMAIN list |-> list[i].quantity])

\* What the lots of a list cost, over D, adds up to w.
CostsAre(list, w, D) ==
  \E v \in Seq(Int) : /\ Len(v) = Len(list) /\ w = SumOf(v)
                      /\ \A i \in 1 .. Len(list) : Is(CostOf(list[i]), v[i], D)

\* The operations on fractions give fractions.
LEMMA FractionTypes ==
  ASSUME NEW x \in Books!Fraction, NEW y \in Books!Fraction, NEW i \in Int, i # 0, NEW j \in Int
  PROVE  /\ Books!Plus(x, y) \in Books!Fraction /\ Books!Minus(x, y) \in Books!Fraction
         /\ Books!Times(x, j) \in Books!Fraction /\ Books!Over(x, i) \in Books!Fraction
         /\ Books!Whole(j) \in Books!Fraction
<1>1. x.n \in Int /\ x.d \in Nat \ {0} /\ y.n \in Int /\ y.d \in Nat \ {0}
  BY FractionParts
<1>2. ASSUME NEW n \in Int PROVE Books!Plus(x, [y EXCEPT !.n = n]) \in Books!Fraction
  <2> DEFINE z == [y EXCEPT !.n = n]
             a == x.n * z.d + z.n * x.d
             d == x.d * z.d
  <2>1. z.n = n /\ z.d = y.d
    BY FractionParts DEF Books!Fraction
  <2> HIDE DEF z
  <2>2. a \in Int /\ d \in Nat \ {0}
    BY <1>1, <2>1, Z3
  <2>3. Books!Plus(x, z) = Books!Frac(a, d)
    BY DEF Books!Plus
  <2> HIDE DEF a, d
  <2> QED  BY <2>2, <2>3, FracIs DEF z
<1>3. Books!Plus(x, y) \in Books!Fraction
  <2>1. y = [y EXCEPT !.n = y.n]
    BY DEF Books!Fraction
  <2> QED  BY <1>1, <1>2, <2>1
<1>4. Books!Minus(x, y) \in Books!Fraction
  BY <1>1, <1>2 DEF Books!Minus
<1>5. Books!Times(x, j) \in Books!Fraction
  BY <1>1, FracIs DEF Books!Times
<1>6. Books!Over(x, i) \in Books!Fraction
  <2>1. i < 0 => -x.n \in Int /\ x.d * (-i) \in Nat \ {0}
    BY <1>1, Z3
  <2>2. ~(i < 0) => x.d * i \in Nat \ {0}
    BY <1>1, Z3
  <2> QED  BY <1>1, <2>1, <2>2, FracIs DEF Books!Over
<1>7. Books!Whole(j) \in Books!Fraction
  BY DEF Books!Whole, Books!Fraction
<1> QED  BY <1>3, <1>4, <1>5, <1>6, <1>7

\* Back from a quotient.
LEMMA OverBack ==
  ASSUME NEW x \in Books!Fraction, NEW v \in Int, NEW D \in Nat \ {0}, NEW k \in Nat \ {0},
         Is(Books!Over(x, k), v, D)
  PROVE  Is(x, v * k, D)
<1> DEFINE a == x.n
           b == x.d
           y == Books!Frac(a, b * k)
           n == y.n
           d == y.d
<1>1. a \in Int /\ b \in Nat \ {0}
  BY FractionParts
<1>2. b * k \in Nat \ {0}
  BY <1>1, Z3
<1>3. Books!Over(x, k) = y
  BY DEF Books!Over
<1>4. y \in Books!Fraction /\ n * (b * k) = a * d
  BY <1>1, <1>2, FracIs
<1>5. n * D = v * d /\ n \in Int /\ d \in Nat \ {0}
  BY <1>3, <1>4, FractionParts DEF Is
<1> HIDE DEF a, b, n, d
<1>6. (a * D) * d = ((v * k) * b) * d
  <2>1. (a * D) * d = (a * d) * D /\ ((v * k) * b) * d = (v * d) * (b * k) /\ (n * (b * k)) * D = (n * D) * (b * k)
    BY <1>1, <1>5, Z3
  <2> QED  BY <1>4, <1>5, <2>1
<1>7. a * D = (v * k) * b
  BY <1>1, <1>5, <1>6, Cancel
<1> QED  BY <1>7 DEF Is, a, b

\* Fractions have a common denominator.
LEMMA CommonDenominator ==
  ASSUME NEW x \in Seq(Books!Fraction)
  PROVE  \E D \in Nat \ {0}, v \in Seq(Int) :
           Len(v) = Len(x) /\ \A i \in 1 .. Len(x) : Is(x[i], v[i], D)
<1> DEFINE N == Len(x)
           Over(k, D, v) == \A i \in 1 .. k : Is(x[i], v[i], D)
           T == {k \in 0 .. N : \E D \in Nat \ {0}, v \in [1 .. N -> Int] : Over(k, D, v)}
<1>1. N \in Nat /\ \A i \in 1 .. N : x[i] \in Books!Fraction
  BY ElementOfSeq, LenProperties
<1> HIDE DEF N
<1>2. 0 \in T
  <2> DEFINE v == [i \in 1 .. N |-> 0]
  <2>1. v \in [1 .. N -> Int] /\ 1 \in Nat \ {0} /\ Over(0, 1, v)
    OBVIOUS
  <2> HIDE DEF v, Over
  <2> QED  BY <1>1, <2>1
<1>3. ASSUME NEW k \in 0 .. (N - 1), k \in T PROVE k + 1 \in T
  <2>1. PICK D \in Nat \ {0}, v \in [1 .. N -> Int] : Over(k, D, v)
    BY <1>3
  <2>2. k + 1 \in 1 .. N /\ k + 1 \in 0 .. N /\ \A i \in 1 .. k + 1 : i = k + 1 \/ (i \in 1 .. k /\ i # k + 1)
    BY <1>1
  <2> DEFINE n == x[k + 1].n
             d == x[k + 1].d
             w == [i \in 1 .. N |-> IF i = k + 1 THEN n * D ELSE v[i] * d]
  <2>3. n \in Int /\ d \in Nat \ {0} /\ Is(x[k + 1], n, d)
    <3>1. x[k + 1] \in Books!Fraction
      BY <1>1, <2>2
    <3> QED  BY <3>1, FractionParts DEF Is
  <2> HIDE DEF n, d
  <2>4. D * d \in Nat \ {0} /\ w \in [1 .. N -> Int]
    BY <2>3, Z3
  <2>5. \A i \in 1 .. N : w[i] = IF i = k + 1 THEN n * D ELSE v[i] * d
    OBVIOUS
  <2> HIDE DEF w
  <2>6. ASSUME NEW i \in 1 .. k + 1 PROVE Is(x[i], w[i], D * d)
    <3>1. CASE i = k + 1
      <4>1. Is(x[k + 1], n * D, d * D)
        BY <2>3, IsScaled
      <4>2. d * D = D * d /\ w[i] = n * D
        BY <2>2, <2>3, <2>5, <3>1
      <4> QED  BY <3>1, <4>1, <4>2
    <3>2. CASE i \in 1 .. k /\ i # k + 1
      <4>1. i \in 1 .. N /\ v[i] \in Int /\ Is(x[i], v[i], D)
        BY <1>1, <2>1, <3>2
      <4>2. Is(x[i], v[i] * d, D * d)
        BY <2>3, <4>1, IsScaled
      <4> QED  BY <2>5, <3>2, <4>1, <4>2
    <3> QED  BY <2>2, <3>1, <3>2
  <2>7. Over(k + 1, D * d, w)
    BY <2>6
  <2> HIDE DEF Over
  <2> QED  BY <2>2, <2>4, <2>7
<1>4. 0 .. N \subseteq T
  <2> HIDE DEF T
  <2> QED  BY <1>1, <1>2, <1>3, SetInduction
<1>5. N \in T
  <2> HIDE DEF T
  <2> QED  BY <1>1, <1>4
<1>6. PICK D \in Nat \ {0}, v \in [1 .. N -> Int] : Over(N, D, v)
  BY <1>5
<1>7. v \in Seq(Int) /\ Len(v) = N
  BY <1>1, SeqDef, LenProperties
<1> QED  BY <1>6, <1>7 DEF N

\* The cost of a lot.
LEMMA CostIs ==
  ASSUME NEW lot, NEW D \in Nat \ {0}, NEW f \in Int, NEW k \in Int, lot.quantity * lot.price = k,
         Is(lot.fees, f, D)
  PROVE  Is(CostOf(lot), k * D + f, D)
<1> DEFINE a == k * D
<1>1. a \in Int /\ Is(Books!Whole(k), a, D)
  BY WholeIs
<1> HIDE DEF a
<1>2. Is(Books!Plus(Books!Whole(k), lot.fees), a + f, D)
  BY <1>1, PlusIs
<1> QED  BY <1>2 DEF CostOf, a

LEMMA NoCosts ==
  ASSUME NEW D \in Nat \ {0}
  PROVE  CostsAre(<<>>, 0, D) /\ HeldIn(<<>>) = 0
<1>1. <<>> \in Seq(Int) /\ Len(<<>>) = 0 /\ SumOf(<<>>) = 0
  BY SumOfEmpty
<1> DEFINE none == <<>>
<1>2. CostsAre(<<>>, 0, D)
  <2>1. none \in Seq(Int) /\ Len(none) = 0 /\ SumOf(none) = 0 /\ \A i \in 1 .. 0 : Is(CostOf(none[i]), none[i], D)
    BY <1>1
  <2>2. CostsAre(none, 0, D)
    <3> HIDE DEF none
    <3> QED  BY <2>1 DEF CostsAre
  <2> QED  BY <2>2
<1>3. [i \in DOMAIN <<>> |-> <<>>[i].quantity] = <<>>
  OBVIOUS
<1> QED  BY <1>1, <1>2, <1>3 DEF HeldIn

LEMMA MoreCosts ==
  ASSUME NEW list \in Seq(Lot), NEW lot \in Lot, NEW D \in Nat \ {0}, NEW w, CostsAre(list, w, D),
         NEW x \in Int, Is(CostOf(lot), x, D)
  PROVE  /\ CostsAre(Append(list, lot), w + x, D) /\ w \in Int
         /\ HeldIn(Append(list, lot)) = HeldIn(list) + lot.quantity /\ HeldIn(list) \in Int
<1> DEFINE n == Len(list)
           more == Append(list, lot)
<1>1. /\ n \in Nat /\ Len(more) = n + 1 /\ more[n + 1] = lot
      /\ DOMAIN list = 1 .. n /\ DOMAIN more = 1 .. n + 1
      /\ \A i \in 1 .. n : list[i] \in Lot /\ more[i] = list[i]
  OBVIOUS
<1> HIDE DEF more, n
<1>2. CostsAre(more, w + x, D) /\ w \in Int
  <2>1. PICK v \in Seq(Int) : /\ Len(v) = n /\ w = SumOf(v)
                              /\ \A i \in 1 .. n : Is(CostOf(list[i]), v[i], D)
    BY DEF CostsAre, n
  <2> DEFINE u == Append(v, x)
  <2>2. u \in Seq(Int) /\ Len(u) = n + 1 /\ u[n + 1] = x /\ \A i \in 1 .. n : u[i] = v[i]
    BY <2>1
  <2>3. SumOf(u) = w + x /\ w \in Int
    BY <2>1, SumOfAppend, SumType
  <2> HIDE DEF u
  <2>4. \A i \in 1 .. n + 1 : i = n + 1 \/ i \in 1 .. n
    BY <1>1
  <2>5. \A i \in 1 .. n + 1 : Is(CostOf(more[i]), u[i], D)
    BY <1>1, <2>1, <2>2, <2>4
  <2> QED  BY <1>1, <2>2, <2>3, <2>5 DEF CostsAre
<1>3. HeldIn(more) = HeldIn(list) + lot.quantity /\ HeldIn(list) \in Int
  <2> DEFINE a == [i \in 1 .. n |-> list[i].quantity]
             b == [i \in 1 .. n + 1 |-> more[i].quantity]
             k == lot.quantity
  <2>1. a \in Seq(Int) /\ Len(a) = n /\ k \in Int
    <3>1. a \in [1 .. n -> Int]
      BY <1>1 DEF Lot
    <3>2. k \in Int
      BY DEF Lot
    <3> HIDE DEF a
    <3> QED  BY <1>1, <3>1, <3>2, SeqDef, LenProperties
  <2>2. b = Append(a, k)
    <3>1. Append(a, k) \in [1 .. n + 1 -> Int] /\ Append(a, k)[n + 1] = k
          /\ \A i \in 1 .. n : Append(a, k)[i] = a[i]
      <4> HIDE DEF a, k
      <4>1. Append(a, k) \in Seq(Int) /\ Len(Append(a, k)) = n + 1
            /\ Append(a, k)[n + 1] = k /\ \A i \in 1 .. n : Append(a, k)[i] = a[i]
        BY <2>1, AppendProperties
      <4> QED  BY <4>1, LenProperties, ElementOfSeq
    <3> DEFINE c == Append(a, k)
    <3>2. \A i \in 1 .. n + 1 : i = n + 1 \/ i \in 1 .. n
      BY <1>1
    <3> HIDE DEF c
    <3>3. \A i \in 1 .. n + 1 : b[i] = c[i]
      BY <1>1, <3>1, <3>2 DEF c
    <3>4. c = [i \in 1 .. n + 1 |-> c[i]] /\ b = [i \in 1 .. n + 1 |-> b[i]]
      BY <3>1 DEF c
    <3>5. b = c
      <4> HIDE DEF b
      <4> QED  BY <3>3, <3>4
    <3> QED  BY <3>5 DEF c
  <2>3. HeldIn(list) = SumOf(a) /\ HeldIn(more) = SumOf(b)
    BY <1>1 DEF HeldIn
  <2> HIDE DEF a, b
  <2>4. SumOf(Append(a, k)) = SumOf(a) + k /\ SumOf(a) \in Int
    BY <2>1, SumOfAppend, SumType
  <2> QED  BY <2>2, <2>3, <2>4
<1> QED  BY <1>2, <1>3 DEF more

\* The sum of the costs.
LEMMA CostsAreTheirSum ==
  ASSUME NEW list \in Seq(Lot), NEW D \in Nat \ {0}, NEW w, CostsAre(list, w, D)
  PROVE  w \in Int /\ Is(CostsOf(list), w, D)
<1> DEFINE n == Len(list)
           c == [i \in DOMAIN list |-> CostOf(list[i])]
<1>1. n \in Nat /\ DOMAIN list = 1 .. n /\ \A i \in 1 .. n : list[i] \in Lot
  OBVIOUS
<1>2. PICK v \in Seq(Int) : /\ Len(v) = n /\ w = SumOf(v)
                            /\ \A i \in 1 .. n : Is(CostOf(list[i]), v[i], D)
  BY DEF CostsAre
<1> HIDE DEF n
<1>3. c \in [1 .. n -> Books!Fraction] /\ \A i \in 1 .. n : c[i] = CostOf(list[i])
  BY <1>1, <1>2 DEF Is
<1> HIDE DEF c
<1>4. c \in Seq(Books!Fraction) /\ Len(c) = n
  BY <1>1, <1>3, SeqDef, LenProperties
<1>5. \A i \in 1 .. Len(c) : Is(c[i], v[i], D)
  BY <1>2, <1>3, <1>4
<1>6. SumOf(v) \in Int /\ Is(Books!Total(c), SumOf(v), D)
  BY <1>2, <1>4, <1>5, TotalIs
<1> QED  BY <1>2, <1>6 DEF CostsOf, c

-----------------------------------------------------------------------------
\* A fill meets the open lots.
Match == [left : Int, used : Books!Fraction, gain : Books!Fraction, lots : Seq(Lot)]

\* What is left of a fill of Q lies on its side.  Lots are left of the side of the
\* position p, and none if some of a fill of the other side is left.
SidesFit(acc, Q, p) ==
  /\ acc.left = 0 \/ Books!SameSide(acc.left, Q)
  /\ Books!Abs(acc.left) <= Books!Abs(Q)
  /\ Books!SameSide(Q, p) => acc.left = Q
  /\ ~Books!SameSide(Q, p) /\ acc.left # 0 => acc.lots = <<>>
  /\ \A j \in 1 .. Len(acc.lots) : Books!SameSide(acc.lots[j].quantity, p)

\* Of the fill at the price P, of which a share pays e / D, the lots met so far held h
\* and cost c / D: nothing is lost between the lots, the gain and the fees.
MatchIs(acc, Q, P, e, D, h, c, u, g, w) ==
  /\ u \in Int /\ g \in Int /\ w \in Int
  /\ Is(acc.used, u, D) /\ Is(acc.gain, g, D) /\ CostsAre(acc.lots, w, D)
  /\ u = e * (Books!Abs(Q) - Books!Abs(acc.left))
  /\ g + u = ((acc.left - Q) * P) * D + w - c

Matches(acc, Q, P, p, e, D, h, c) ==
  /\ acc \in Match /\ SidesFit(acc, Q, p)
  /\ HeldIn(acc.lots) + acc.left = Q + h
  /\ \E u, g, w : MatchIs(acc, Q, P, e, D, h, c, u, g, w)

\* A lot that is not touched.
LEMMA LotStays ==
  ASSUME NEW acc, NEW Q \in Int \ {0}, NEW P \in Nat, NEW p \in Int, NEW e \in Int,
         NEW D \in Nat \ {0}, NEW h \in Int, NEW c \in Int, Matches(acc, Q, P, p, e, D, h, c),
         NEW lot \in Lot, Books!SameSide(lot.quantity, p), NEW x \in Int, Is(CostOf(lot), x, D),
         ~Books!SameSide(acc.left, -lot.quantity)
  PROVE  Matches([acc EXCEPT !.lots = Append(@, lot)], Q, P, p, e, D, h + lot.quantity, c + x)
<1> DEFINE more == Append(acc.lots, lot)
           after == [acc EXCEPT !.lots = Append(@, lot)]
           q == lot.quantity
<1>1. /\ acc \in Match /\ acc.left \in Int /\ acc.lots \in Seq(Lot) /\ SidesFit(acc, Q, p)
      /\ HeldIn(acc.lots) + acc.left = Q + h /\ q \in Int /\ q # 0
  BY DEF Matches, Match, Lot
<1>2. more \in Seq(Lot) /\ Len(more) = Len(acc.lots) + 1 /\ more[Len(acc.lots) + 1] = lot
      /\ \A j \in 1 .. Len(acc.lots) : more[j] = acc.lots[j]
  BY <1>1, AppendProperties
<1>3. /\ after \in Match /\ after.left = acc.left /\ after.used = acc.used /\ after.gain = acc.gain
      /\ after.lots = more
  BY <1>1, <1>2 DEF Match
<1> HIDE DEF after
<1>4. PICK u, g, w : MatchIs(acc, Q, P, e, D, h, c, u, g, w)
  BY DEF Matches
<1>5. /\ CostsAre(more, w + x, D) /\ w \in Int /\ HeldIn(more) = HeldIn(acc.lots) + q
      /\ HeldIn(acc.lots) \in Int
  BY <1>1, <1>4, MoreCosts DEF MatchIs
<1> HIDE DEF more
<1>6. SidesFit(after, Q, p)
  <2>1. Books!SameSide(Q, p) \/ acc.left = 0
    BY <1>1 DEF SidesFit, Books!SameSide
  <2>2. \A j \in 1 .. Len(more) : Books!SameSide(more[j].quantity, p)
    <3>1. \A j \in 1 .. Len(more) : j \in 1 .. Len(acc.lots) \/ j = Len(acc.lots) + 1
      BY <1>1, <1>2, LenProperties
    <3> QED  BY <1>1, <1>2, <3>1 DEF SidesFit
  <2> QED  BY <1>1, <1>3, <2>1, <2>2 DEF SidesFit
<1>7. MatchIs(after, Q, P, e, D, h + q, c + x, u, g, w + x)
  <2> DEFINE k == ((acc.left - Q) * P) * D
  <2>1. k \in Int /\ g + u = k + w - c /\ g \in Int /\ u \in Int
    BY <1>1, <1>4 DEF MatchIs
  <2> HIDE DEF k
  <2>2. g + u = k + (w + x) - (c + x)
    BY <1>5, <2>1
  <2> QED  BY <1>3, <1>4, <1>5, <2>2 DEF MatchIs, k
<1>8. HeldIn(after.lots) + after.left = Q + (h + q)
  <2>1. HeldIn(after.lots) = HeldIn(acc.lots) + q /\ after.left = acc.left
    BY <1>3, <1>5
  <2> HIDE DEF q
  <2> QED  BY <1>1, <1>5, <2>1
<1> QED  BY <1>3, <1>6, <1>7, <1>8 DEF Matches, after, q

\* How much of a lot a fill of the other side closes.
LEMMA Closes ==
  ASSUME NEW l \in Int, NEW q \in Int, q # 0, Books!SameSide(l, -q), NEW Q \in Int, NEW p \in Int,
         Books!SameSide(q, p), Books!SameSide(l, Q), Books!Abs(l) <= Books!Abs(Q)
  PROVE  LET close == Books!Least(Books!Abs(l), Books!Abs(q))
             sign == IF q > 0 THEN 1 ELSE -1
             move == IF q > 0 THEN close ELSE -close
         IN  /\ close \in Nat \ {0} /\ Books!Abs(q) \in Nat \ {0} /\ sign \in {1, -1}
             /\ move = sign * close /\ move \in Int
             /\ Books!Abs(l + move) = Books!Abs(l) - close /\ Books!Abs(l) \in Int /\ Books!Abs(Q) \in Int
             /\ l + move = 0 \/ Books!SameSide(l + move, Q)
             /\ Books!Abs(l + move) <= Books!Abs(Q)
             /\ q - move = 0 => close = Books!Abs(q)
             /\ q - move # 0 => l + move = 0 /\ Books!SameSide(q - move, p)
<1> DEFINE close == Books!Least(Books!Abs(l), Books!Abs(q))
           sign == IF q > 0 THEN 1 ELSE -1
<1>1. CASE q > 0
  <2>1. l < 0 /\ p > 0 /\ Q < 0 /\ Books!Abs(l) = -l /\ Books!Abs(q) = q /\ sign = 1 /\ Books!Abs(Q) = -Q
    BY <1>1 DEF Books!SameSide, Books!Abs
  <2>2. close = IF -l < q THEN -l ELSE q
    BY <2>1 DEF Books!Least
  <2>3. close \in Nat \ {0} /\ close <= q /\ close <= -l
    BY <1>1, <2>1, <2>2
  <2>4. Books!Abs(l + close) = -l - close
    BY <2>1, <2>3 DEF Books!Abs
  <2> HIDE DEF close, sign
  <2>5. sign * close = close
    BY <2>1, <2>3
  <2> QED  BY <1>1, <2>1, <2>2, <2>3, <2>4, <2>5 DEF Books!SameSide, close, sign
<1>2. CASE q < 0
  <2>1. l > 0 /\ p < 0 /\ Q > 0 /\ Books!Abs(l) = l /\ Books!Abs(q) = -q /\ sign = -1 /\ Books!Abs(Q) = Q
    BY <1>2 DEF Books!SameSide, Books!Abs
  <2>2. close = IF l < -q THEN l ELSE -q
    BY <2>1 DEF Books!Least
  <2>3. close \in Nat \ {0} /\ close <= -q /\ close <= l
    BY <1>2, <2>1, <2>2
  <2>4. Books!Abs(l + -close) = l - close
    BY <2>1, <2>3 DEF Books!Abs
  <2> HIDE DEF close, sign
  <2>5. sign * close = -close
    BY <2>1, <2>3
  <2> QED  BY <1>2, <2>1, <2>2, <2>3, <2>4, <2>5 DEF Books!SameSide, close, sign
<1> QED  BY <1>1, <1>2

\* A lot that the fill closes, or a part of it.
LEMMA LotCloses ==
  ASSUME NEW acc, NEW Q \in Int \ {0}, NEW P \in Nat, NEW p \in Int, NEW e \in Int,
         NEW D \in Nat \ {0}, NEW h \in Int, NEW c \in Int, Matches(acc, Q, P, p, e, D, h, c),
         NEW lot \in Lot, Books!SameSide(lot.quantity, p),
         NEW o \in Int, Is(Books!Over(lot.fees, Books!Abs(lot.quantity)), o, D), NEW fee, Is(fee, e, D),
         Books!SameSide(acc.left, -lot.quantity)
  PROVE  Matches(Books!CloseLot(fee, P, acc, lot), Q, P, p, e, D, h + lot.quantity,
                 c + ((lot.quantity * lot.price) * D + o * Books!Abs(lot.quantity)))
<1> DEFINE q == lot.quantity
           a == Books!Abs(q)
           close == Books!Least(Books!Abs(acc.left), a)
           sign == IF q > 0 THEN 1 ELSE -1
           move == IF q > 0 THEN close ELSE -close
           opening == Books!Times(Books!Over(lot.fees, a), close)
           closing == Books!Times(fee, close)
           gain == Books!Whole(close * (P - lot.price) * sign)
           rest == [lot EXCEPT !.quantity = @ - move, !.fees = Books!Minus(@, opening)]
           after == [left |-> acc.left + move, used |-> Books!Plus(acc.used, closing),
                     gain |-> Books!Plus(acc.gain, Books!Minus(gain, Books!Plus(opening, closing))),
                     lots |-> IF rest.quantity = 0 THEN acc.lots ELSE Append(acc.lots, rest)]
<1>1. /\ acc \in Match /\ acc.left \in Int /\ acc.lots \in Seq(Lot) /\ SidesFit(acc, Q, p)
      /\ HeldIn(acc.lots) + acc.left = Q + h /\ q \in Int /\ q # 0 /\ lot.price \in Nat
      /\ lot.fees \in Books!Fraction
  BY DEF Matches, Match, Lot
<1>3. /\ close \in Nat \ {0} /\ a \in Nat \ {0} /\ sign \in {1, -1} /\ move = sign * close /\ move \in Int
      /\ Books!Abs(acc.left + move) = Books!Abs(acc.left) - close
      /\ Books!Abs(acc.left) \in Int /\ Books!Abs(Q) \in Int
      /\ acc.left + move = 0 \/ Books!SameSide(acc.left + move, Q)
      /\ Books!Abs(acc.left + move) <= Books!Abs(Q)
      /\ q - move = 0 => close = a
      /\ q - move # 0 => acc.left + move = 0 /\ Books!SameSide(q - move, p)
  <2>1. acc.left # 0
    BY <1>1 DEF Books!SameSide
  <2>2. Books!SameSide(acc.left, Q) /\ Books!Abs(acc.left) <= Books!Abs(Q)
    BY <1>1, <2>1 DEF SidesFit
  <2> QED  BY <1>1, <2>2, Closes
<1>2. Books!CloseLot(fee, P, acc, lot) = after
  <2>1. sign * close = move
    BY <1>3
  <2> HIDE DEF move
  <2> QED  BY <2>1, Zenon DEF Books!CloseLot
<1> HIDE DEF a, close, sign, move
<1>4. /\ rest = [quantity |-> q - move, price |-> lot.price, fees |-> Books!Minus(lot.fees, opening)]
      /\ rest.quantity = q - move
  <2> DEFINE f == Books!Minus(lot.fees, opening)
  <2>1. rest = [lot EXCEPT !.quantity = q - move, !.fees = f]
    BY Zenon
  <2> HIDE DEF f
  <2>2. [lot EXCEPT !.quantity = q - move, !.fees = f] = [quantity |-> q - move, price |-> lot.price, fees |-> f]
    <3> DEFINE x == q - move
    <3> HIDE DEF x
    <3> DEFINE z == [lot EXCEPT !.quantity = x]
    <3>1. z = [quantity |-> x, price |-> lot.price, fees |-> lot.fees]
      BY DEF Lot
    <3>2. [lot EXCEPT !.quantity = x, !.fees = f] = [z EXCEPT !.fees = f]
      BY DEF Lot
    <3> HIDE DEF z
    <3>3. z \in [quantity : {x}, price : {lot.price}, fees : {lot.fees}] /\ z.quantity = x /\ z.price = lot.price
      BY <3>1
    <3>4. [z EXCEPT !.fees = f] = [quantity |-> x, price |-> lot.price, fees |-> f]
      BY <3>3
    <3> QED  BY <3>2, <3>4 DEF x
  <2> HIDE DEF rest
  <2>3. rest = [quantity |-> q - move, price |-> lot.price, fees |-> f]
    BY <2>1, <2>2
  <2> QED  BY <2>3 DEF f
<1>5. PICK u, g, w : MatchIs(acc, Q, P, e, D, h, c, u, g, w)
  BY DEF Matches
<1>6. /\ u \in Int /\ g \in Int /\ w \in Int /\ Is(acc.used, u, D) /\ Is(acc.gain, g, D)
      /\ CostsAre(acc.lots, w, D) /\ u = e * (Books!Abs(Q) - Books!Abs(acc.left))
      /\ g + u = ((acc.left - Q) * P) * D + w - c
  BY <1>5 DEF MatchIs
<1> DEFINE ov == o * close
           ev == e * close
           k == close * (P - lot.price) * sign
           gv == k * D
<1>7. /\ ov \in Int /\ Is(opening, ov, D) /\ ev \in Int /\ Is(closing, ev, D)
      /\ k \in Int /\ gv \in Int /\ Is(gain, gv, D)
  <2>1. Is(opening, ov, D) /\ ov \in Int
    BY <1>3, TimesIs DEF a
  <2>2. Is(closing, ev, D) /\ ev \in Int
    BY <1>3, TimesIs
  <2>3. k \in Int
    <3> DEFINE x == P - lot.price
               y == close * x
    <3>1. x \in Int /\ close \in Int /\ sign \in Int
      BY <1>1, <1>3
    <3> HIDE DEF x
    <3>2. y \in Int
      BY <3>1
    <3> HIDE DEF y
    <3>3. y * sign \in Int
      BY <3>1, <3>2
    <3> QED  BY <3>3 DEF x, y
  <2> HIDE DEF k
  <2>4. Is(Books!Whole(k), gv, D) /\ gv \in Int
    BY <2>3, WholeIs
  <2> QED  BY <2>1, <2>2, <2>3, <2>4 DEF k
<1> HIDE DEF opening, closing, gain
<1>8. Is(after.used, u + ev, D)
  <2> HIDE DEF ev
  <2> QED  BY <1>6, <1>7, PlusIs
<1>9. Is(after.gain, g + (gv - (ov + ev)), D)
  <2> HIDE DEF ov, ev, gv
  <2> DEFINE x == Books!Plus(opening, closing)
             xv == ov + ev
  <2>1. xv \in Int /\ Is(x, xv, D)
    BY <1>7, PlusIs
  <2> HIDE DEF x, xv
  <2> DEFINE y == Books!Minus(gain, x)
             yv == gv - xv
  <2>2. yv \in Int /\ Is(y, yv, D)
    BY <1>7, <2>1, MinusIs
  <2> HIDE DEF y, yv
  <2>3. Is(Books!Plus(acc.gain, y), g + yv, D)
    BY <1>6, <2>2, PlusIs
  <2> QED  BY <2>3 DEF x, xv, y, yv
<1> DEFINE fv == o * a
           rk == (q - move) * lot.price
           rv == rk * D + (fv - ov)
<1>10. fv \in Int /\ Is(rest.fees, fv - ov, D) /\ rk \in Int /\ rv \in Int /\ move \in Int /\ fv - ov \in Int
       /\ Is(lot.fees, fv, D)
  <2>1. fv \in Int /\ Is(lot.fees, fv, D)
    <3>1. a \in Nat \ {0} /\ Is(Books!Over(lot.fees, a), o, D)
      BY <1>3 DEF a
    <3> QED  BY <1>1, <3>1, OverBack
  <2>2. Is(Books!Minus(lot.fees, opening), fv - ov, D)
    <3> HIDE DEF fv, ov
    <3> QED  BY <1>7, <2>1, MinusIs
  <2>3. move \in Int
    BY <1>3
  <2>4. rk \in Int
    BY <1>1, <2>3
  <2>5. fv - ov \in Int
    <3> HIDE DEF fv, ov
    <3> QED  BY <1>7, <2>1
  <2>6. rv \in Int
    <3> DEFINE z == fv - ov
    <3> HIDE DEF rk, z
    <3>1. rk * D + z \in Int
      BY <2>4, <2>5 DEF z
    <3> QED  BY <3>1 DEF z
  <2>7. Is(rest.fees, fv - ov, D)
    <3> HIDE DEF fv, ov, rest
    <3> QED  BY <1>4, <2>2
  <2> QED  BY <2>1, <2>3, <2>4, <2>5, <2>6, <2>7
<1>11. Is(CostOf(rest), rv, D)
  <2>1. rest.quantity * rest.price = rk /\ fv - ov \in Int
    BY <1>4, <1>7, <1>10
  <2> HIDE DEF rk, rest, fv, ov
  <2> QED  BY <1>10, <2>1, CostIs
<1>12. rest.quantity # 0 => rest \in Lot
  BY <1>1, <1>4, <1>10 DEF Lot, Is
<1> DEFINE W == IF rest.quantity = 0 THEN w ELSE w + rv
<1>13. W = w + rv /\ W \in Int
  <2>1. CASE rest.quantity = 0
    <3>1. close = a /\ q - move = 0
      BY <1>3, <1>4, <2>1
    <3>2. fv - ov = 0 /\ rk = 0
      BY <1>1, <1>3, <3>1
    <3> HIDE DEF fv, ov, rk
    <3>3. rv = 0
      BY <3>2
    <3> QED  BY <1>6, <2>1, <3>3
  <2>2. CASE rest.quantity # 0
    BY <1>6, <1>10, <2>2
  <2> QED  BY <2>1, <2>2
<1> HIDE DEF rest
<1>14. /\ CostsAre(after.lots, W, D) /\ after.lots \in Seq(Lot)
       /\ HeldIn(after.lots) = HeldIn(acc.lots) + (q - move) /\ HeldIn(acc.lots) \in Int
  <2>1. HeldIn(acc.lots) \in Int
    <3>1. lot \in Lot /\ fv \in Int /\ Is(lot.fees, fv, D)
      BY <1>10
    <3>2. lot.quantity * lot.price \in Int
      BY <1>1
    <3> HIDE DEF fv
    <3> DEFINE n == lot.quantity * lot.price
               z == n * D + fv
    <3>3. Is(CostOf(lot), z, D) /\ z \in Int
      BY <3>1, <3>2, CostIs
    <3> HIDE DEF z
    <3> QED  BY <1>1, <1>6, <3>3, MoreCosts
  <2>2. CASE rest.quantity = 0
    BY <1>1, <1>4, <1>6, <2>1, <2>2
  <2>3. CASE rest.quantity # 0
    <3> HIDE DEF rv
    <3>1. rest \in Lot /\ rv \in Int
      BY <1>10, <1>12, <2>3
    <3>2. /\ CostsAre(Append(acc.lots, rest), w + rv, D)
          /\ HeldIn(Append(acc.lots, rest)) = HeldIn(acc.lots) + rest.quantity
      <4> DEFINE list == acc.lots
      <4>1. list \in Seq(Lot) /\ CostsAre(list, w, D)
        BY <1>1, <1>6
      <4> HIDE DEF list
      <4>2. /\ CostsAre(Append(list, rest), w + rv, D)
            /\ HeldIn(Append(list, rest)) = HeldIn(list) + rest.quantity
        BY <1>11, <3>1, <4>1, MoreCosts
      <4> QED  BY <4>2 DEF list
    <3>3. Append(acc.lots, rest) \in Seq(Lot)
      BY <1>1, <3>1, AppendProperties
    <3> QED  BY <1>4, <2>1, <2>3, <3>2, <3>3
  <2> QED  BY <2>2, <2>3
<1>15. after \in Match
  <2>1. acc.left + move \in Int
    <3>1. acc.left \in Int /\ move \in Int
      BY <1>1, <1>10
    <3> QED  BY <3>1
  <2>2. after.used \in Books!Fraction /\ after.gain \in Books!Fraction
    BY <1>8, <1>9 DEF Is
  <2> QED  BY <1>14, <2>1, <2>2 DEF Match
<1>16. SidesFit(after, Q, p)
  <2>1. ~Books!SameSide(Q, p) /\ acc.left # 0
    BY <1>1 DEF SidesFit, Books!SameSide
  <2>2. acc.lots = <<>>
    BY <1>1, <2>1 DEF SidesFit
  <2>3. \A j \in 1 .. Len(after.lots) : Books!SameSide(after.lots[j].quantity, p)
    <3>1. CASE rest.quantity = 0
      BY <2>2, <3>1
    <3>2. CASE rest.quantity # 0
      <4>1. after.lots = <<rest>>
        BY <2>2, <3>2
      <4>2. Books!SameSide(rest.quantity, p)
        BY <1>3, <1>4, <3>2
      <4> HIDE DEF after
      <4> QED  BY <4>1, <4>2
    <3> QED  BY <3>1, <3>2
  <2>4. after.left # 0 => after.lots = <<>>
    BY <1>3, <1>4, <2>2
  <2>5. /\ after.left = 0 \/ Books!SameSide(after.left, Q)
        /\ Books!Abs(after.left) <= Books!Abs(Q)
    BY <1>3
  <2> HIDE DEF after
  <2> QED  BY <2>1, <2>3, <2>4, <2>5 DEF SidesFit
<1>17. u + ev = e * (Books!Abs(Q) - Books!Abs(after.left))
  <2> DEFINE m == Books!Abs(Q)
             n == Books!Abs(acc.left)
  <2>1. m \in Int /\ n \in Int /\ Books!Abs(after.left) = n - close
    BY <1>3
  <2> HIDE DEF m, n, after
  <2>2. e * (m - (n - close)) = e * (m - n) + e * close
    BY <1>3, <2>1, Z3
  <2> QED  BY <1>6, <2>1, <2>2 DEF m, n
<1>18. (g + (gv - (ov + ev))) + (u + ev)
         = ((after.left - Q) * P) * D + W - (c + ((q * lot.price) * D + fv))
  <2> DEFINE l == acc.left - Q
             b == lot.price
  <2>1. l \in Int /\ b \in Nat /\ after.left - Q = l + move /\ g + u = (l * P) * D + w - c
    <3>1. l \in Int /\ b \in Nat /\ g + u = (l * P) * D + w - c
      BY <1>1, <1>6
    <3>2. after.left = acc.left + move
      OBVIOUS
    <3> HIDE DEF after
    <3>3. after.left - Q = l + move
      BY <1>1, <1>10, <3>2
    <3> QED  BY <3>1, <3>3
  <2>2. W = w + ((q - move) * b) * D + (fv - ov)
    <3>1. W = w + rv
      BY <1>13
    <3>2. rk * D \in Int
      BY <1>10
    <3> HIDE DEF W, fv, ov
    <3> DEFINE z == rk * D
    <3>3. rv = z + (fv - ov) /\ z \in Int
      BY <3>2
    <3> HIDE DEF rv, z
    <3>4. W = w + z + (fv - ov)
      BY <1>6, <1>7, <1>10, <3>1, <3>3
    <3> QED  BY <3>4 DEF z
  <2>3. gv = (move * P) * D - (move * b) * D
    <3>1. k = move * (P - b)
      <4> HIDE DEF b
      <4>1. close * (P - b) * sign = (sign * close) * (P - b)
        BY <1>3, <2>1, Z3
      <4> QED  BY <1>3, <4>1 DEF b
    <3>2. move * (P - b) = move * P - move * b
      <4> HIDE DEF move, b
      <4> QED  BY <1>10, <2>1, Z3
    <3>3. (move * P - move * b) * D = (move * P) * D - (move * b) * D
      <4> DEFINE x == move * P
                 y == move * b
      <4>1. x \in Int /\ y \in Int
        BY <1>10, <2>1
      <4> HIDE DEF x, y
      <4>2. (x - y) * D = x * D - y * D
        BY <4>1, Z3
      <4> QED  BY <4>2 DEF x, y
    <3> QED  BY <3>1, <3>2, <3>3
  <2> HIDE DEF l, b, move, W, after, gv, ov, ev, fv, k, rk, rv
  <2>4. ((l + move) * P) * D = (l * P) * D + (move * P) * D
    BY <1>10, <2>1, Z3
  <2>5. ((q - move) * b) * D = (q * b) * D - (move * b) * D
    <3>1. (q - move) * b = q * b - move * b
      <4>1. q \in Int /\ move \in Int /\ b \in Int
        BY <1>1, <1>10, <2>1
      <4> HIDE DEF q
      <4> QED  BY <4>1, Z3
    <3> DEFINE x == q * b
               y == move * b
    <3>2. x \in Int /\ y \in Int
      BY <1>1, <1>10, <2>1
    <3> HIDE DEF x, y
    <3>3. (x - y) * D = x * D - y * D
      BY <3>2, Z3
    <3> QED  BY <3>1, <3>3 DEF x, y
  <2> DEFINE x1 == (l * P) * D
             x2 == (move * P) * D
             x3 == (move * b) * D
             x4 == (q * b) * D
  <2>6. x1 \in Int /\ x2 \in Int /\ x3 \in Int /\ x4 \in Int
    <3> DEFINE y1 == l * P
               y2 == move * P
               y3 == move * b
               y4 == q * b
    <3>1. y1 \in Int /\ y2 \in Int /\ y3 \in Int /\ y4 \in Int /\ D \in Int
      BY <1>1, <1>10, <2>1
    <3> HIDE DEF y1, y2, y3, y4
    <3>2. y1 * D \in Int /\ y2 * D \in Int /\ y3 * D \in Int /\ y4 * D \in Int
      BY <3>1
    <3> QED  BY <3>2 DEF y1, y2, y3, y4
  <2>7. /\ g + u = x1 + w - c /\ W = w + (x4 - x3) + (fv - ov) /\ gv = x2 - x3
        /\ ((after.left - Q) * P) * D = x1 + x2 /\ (q * lot.price) * D = x4
    BY <2>1, <2>2, <2>3, <2>4, <2>5 DEF b
  <2> HIDE DEF x1, x2, x3, x4
  <2> QED  BY <1>6, <1>7, <1>10, <1>13, <2>6, <2>7
<1>19. MatchIs(after, Q, P, e, D, h + q, c + ((q * lot.price) * D + fv), u + ev, g + (gv - (ov + ev)), W)
  <2>1. u + ev \in Int /\ g + (gv - (ov + ev)) \in Int
    <3> HIDE DEF ev, gv, ov
    <3> QED  BY <1>6, <1>7
  <2> HIDE DEF after, W, ev, gv, ov, fv
  <2> QED  BY <1>8, <1>9, <1>13, <1>14, <1>17, <1>18, <2>1 DEF MatchIs
<1>20. HeldIn(after.lots) + after.left = Q + (h + q)
  <2>1. after.left = acc.left + move
    OBVIOUS
  <2>2. HeldIn(after.lots) = HeldIn(acc.lots) + (q - move)
    BY <1>14
  <2>3. acc.left \in Int /\ move \in Int /\ HeldIn(acc.lots) \in Int /\ q \in Int /\ HeldIn(acc.lots) + acc.left = Q + h
    BY <1>1, <1>10, <1>14
  <2> HIDE DEF after, q
  <2> QED  BY <2>1, <2>2, <2>3
<1> HIDE DEF after
<1> QED  BY <1>2, <1>15, <1>16, <1>19, <1>20 DEF Matches, a

\* Closing a lot keeps the types.
LEMMA CloseType ==
  ASSUME NEW fee \in Books!Fraction, NEW P \in Nat, NEW acc \in Match, NEW lot \in Lot
  PROVE  Books!CloseLot(fee, P, acc, lot) \in Match
<1> DEFINE q == lot.quantity
           a == Books!Abs(q)
           close == Books!Least(Books!Abs(acc.left), a)
           sign == IF q > 0 THEN 1 ELSE -1
           move == sign * close
           opening == Books!Times(Books!Over(lot.fees, a), close)
           closing == Books!Times(fee, close)
           k == close * (P - lot.price) * sign
           gain == Books!Whole(k)
           rest == [lot EXCEPT !.quantity = @ - move, !.fees = Books!Minus(@, opening)]
           after == [left |-> acc.left + move, used |-> Books!Plus(acc.used, closing),
                     gain |-> Books!Plus(acc.gain, Books!Minus(gain, Books!Plus(opening, closing))),
                     lots |-> IF rest.quantity = 0 THEN acc.lots ELSE Append(acc.lots, rest)]
<1>1. /\ q \in Int /\ q # 0 /\ lot.price \in Nat /\ lot.fees \in Books!Fraction
      /\ acc.left \in Int /\ acc.used \in Books!Fraction /\ acc.gain \in Books!Fraction /\ acc.lots \in Seq(Lot)
  BY DEF Lot, Match
<1>2. a \in Nat \ {0} /\ close \in Int /\ sign \in {1, -1}
  BY <1>1 DEF Books!Abs, Books!Least
<1>3. Books!CloseLot(fee, P, acc, lot)
        = IF Books!SameSide(acc.left, -q) THEN after ELSE [acc EXCEPT !.lots = Append(@, lot)]
  BY DEF Books!CloseLot
<1> HIDE DEF a, close, sign
<1>4. move \in Int /\ k \in Int
  BY <1>1, <1>2
<1> HIDE DEF move, k
<1>5. opening \in Books!Fraction /\ closing \in Books!Fraction /\ gain \in Books!Fraction
  <2>1. Books!Over(lot.fees, a) \in Books!Fraction
    <3>1. a \in Int /\ a # 0 /\ lot.fees \in Books!Fraction
      BY <1>1, <1>2
    <3> QED  BY <3>1, FractionTypes
  <2>2. 1 \in Int /\ 1 # 0
    OBVIOUS
  <2> QED  BY <1>2, <1>4, <2>1, <2>2, FractionTypes
<1> HIDE DEF opening, closing, gain
<1>6. Books!Plus(acc.used, closing) \in Books!Fraction
      /\ Books!Plus(acc.gain, Books!Minus(gain, Books!Plus(opening, closing))) \in Books!Fraction
      /\ Books!Minus(lot.fees, opening) \in Books!Fraction
  <2>1. 1 \in Int /\ 1 # 0
    OBVIOUS
  <2>2. Books!Plus(opening, closing) \in Books!Fraction
    BY <1>5, <2>1, FractionTypes
  <2>3. Books!Minus(gain, Books!Plus(opening, closing)) \in Books!Fraction
    BY <1>5, <2>1, <2>2, FractionTypes
  <2> QED  BY <1>1, <1>5, <2>1, <2>3, FractionTypes
<1>7. rest.quantity # 0 => rest \in Lot
  <2> DEFINE f == Books!Minus(lot.fees, opening)
             x == q - move
  <2>1. rest = [lot EXCEPT !.quantity = x, !.fees = f] /\ x \in Int
    BY <1>1, <1>4
  <2>2. f \in Books!Fraction
    BY <1>6
  <2> HIDE DEF f, x, rest
  <2>3. rest \in [quantity : Int, price : Nat, fees : Books!Fraction]
    BY <2>1, <2>2 DEF Lot
  <2> QED  BY <2>3 DEF Lot
<1> HIDE DEF rest
<1>8. after \in Match
  <2>1. (IF rest.quantity = 0 THEN acc.lots ELSE Append(acc.lots, rest)) \in Seq(Lot)
    BY <1>1, <1>7, AppendProperties
  <2>2. acc.left + move \in Int
    BY <1>1, <1>4
  <2> QED  BY <1>6, <2>1, <2>2 DEF Match
<1>9. [acc EXCEPT !.lots = Append(@, lot)] \in Match
  <2>1. Append(acc.lots, lot) \in Seq(Lot)
    BY <1>1, AppendProperties
  <2> QED  BY <2>1 DEF Match
<1> HIDE DEF after
<1> QED  BY <1>3, <1>8, <1>9

\* What is left of the fill after each of the lots.
FirstMatch(Q) == [left |-> Q, used |-> Books!Whole(0), gain |-> Books!Whole(0), lots |-> <<>>]
RestOf(acc, P, F) == [quantity |-> acc.left, price |-> P, fees |-> Books!RestPays(F, acc.used)]

MatchesInTurn(f, s, Q, P, F) ==
  LET fee == Books!Over(Books!Whole(F), Books!Abs(Q))
      closed == f[Len(books_lots[s])]
  IN  /\ f[0] = FirstMatch(Q)
      /\ \A i \in 1 .. Len(books_lots[s]) : f[i] = Books!CloseLot(fee, P, f[i - 1], books_lots[s][i])
      /\ Books!Matched(s, Q, P, F)
           = [closed EXCEPT !.lots = IF closed.left = 0 THEN @ ELSE Append(@, RestOf(closed, P, F))]

LEMMA MatchRuns ==
  ASSUME NEW s \in BookSymbols, books_lots[s] \in Seq(Lot), NEW Q \in Int \ {0}, NEW P \in Nat, NEW F \in Nat
  PROVE  \E f : MatchesInTurn(f, s, Q, P, F)
<1> DEFINE S == Match
           L == books_lots[s]
           N == Len(L)
           fee == Books!Over(Books!Whole(F), Books!Abs(Q))
           first == FirstMatch(Q)
           step == [x \in (1 .. N) \X S |-> Books!CloseLot(fee, P, x[2], L[x[1]])]
           Def(f) == f = [i \in 0 .. N |-> IF i = 0 THEN first ELSE Books!CloseLot(fee, P, f[i - 1], L[i])]
           f == CHOOSE g : Def(g)
<1>1. N \in Nat /\ \A i \in 1 .. N : L[i] \in Lot
  <2> HIDE DEF L
  <2> QED  BY LenProperties, ElementOfSeq DEF L
<1>2. fee \in Books!Fraction /\ first \in S
  <2>1. 0 \in Int /\ F \in Int /\ Books!Abs(Q) \in Int /\ Books!Abs(Q) # 0
    BY DEF Books!Abs
  <2>2. Books!Whole(F) \in Books!Fraction /\ Books!Whole(0) \in Books!Fraction
    BY DEF Books!Whole, Books!Fraction
  <2>3. fee \in Books!Fraction
    BY <2>1, <2>2, FractionTypes
  <2>4. <<>> \in Seq(Lot)
    OBVIOUS
  <2> QED  BY <2>2, <2>3, <2>4 DEF FirstMatch, Match
<1> HIDE DEF S, first, fee, L
<1>3. \A i \in 1 .. N, x \in S : Books!CloseLot(fee, P, x, L[i]) \in S
  BY <1>1, <1>2, CloseType DEF S
<1>4. step \in [(1 .. N) \X S -> S]
  BY <1>3
<1>5. PICK g \in [0 .. N -> S] : Follows(g, N, first, step)
  <2> HIDE DEF N, step
  <2> QED  BY <1>1, <1>2, <1>4, Recursion
<1>6. \A i \in 1 .. N : i - 1 \in 0 .. N /\ g[i] = Books!CloseLot(fee, P, g[i - 1], L[i])
  <2> SUFFICES ASSUME NEW i \in 1 .. N PROVE i - 1 \in 0 .. N /\ g[i] = Books!CloseLot(fee, P, g[i - 1], L[i])
    OBVIOUS
  <2>1. i - 1 \in 0 .. N /\ g[i - 1] \in S
    BY <1>1
  <2>2. g[i] = step[<<i, g[i - 1]>>]
    BY <1>5 DEF Follows
  <2> HIDE DEF N
  <2> QED  BY <2>1, <2>2
<1>7. Def(g)
  <2> DEFINE h == [i \in 0 .. N |-> IF i = 0 THEN first ELSE Books!CloseLot(fee, P, g[i - 1], L[i])]
  <2>1. \A i \in 0 .. N : i = 0 \/ i \in 1 .. N
    BY <1>1
  <2>2. \A i \in 0 .. N : g[i] = h[i]
    BY <1>5, <1>6, <2>1 DEF Follows
  <2>3. h = [i \in 0 .. N |-> h[i]] /\ g = [i \in 0 .. N |-> g[i]]
    OBVIOUS
  <2>4. g = h
    <3> HIDE DEF h, N
    <3> QED  BY <2>2, <2>3, Zenon
  <2> QED  BY <2>4, Zenon
<1>8. Def(f)
  <2> HIDE DEF Def
  <2> QED  BY <1>7, Zenon DEF f
<1>9. Books!Matched(s, Q, P, F)
        = LET closed == f[N]
          IN  [closed EXCEPT !.lots = IF closed.left = 0 THEN @ ELSE Append(@, RestOf(closed, P, F))]
  BY Zenon DEF Books!Matched, RestOf, FirstMatch, first, fee, L
<1>10. f[0] = first /\ \A i \in 1 .. N : f[i] = Books!CloseLot(fee, P, f[i - 1], L[i])
  <2>1. 0 \in 0 .. N /\ \A i \in 1 .. N : i \in 0 .. N /\ i # 0
    BY <1>1
  <2> HIDE DEF f, N
  <2> QED  BY <1>8, <2>1
<1> HIDE DEF f
<1>11. MatchesInTurn(f, s, Q, P, F)
  BY <1>9, <1>10 DEF MatchesInTurn, first, fee, L
<1> QED  BY <1>11

\* The lots of a list.
LEMMA LotsOfList ==
  ASSUME NEW list \in Seq(Lot)
  PROVE  /\ Len(list) \in Nat /\ DOMAIN list = 1 .. Len(list)
         /\ \A i \in 1 .. Len(list) : list[i] \in Lot /\ list[i].quantity \in Int
<1>1. \A x \in Lot : x.quantity \in Int
  BY DEF Lot
<1>2. \A i \in 1 .. Len(list) : list[i] \in Lot
  BY ElementOfSeq
<1> QED  BY <1>1, <1>2, LenProperties

\* Lots on one side hold something of that side.
LEMMA SideOfSum ==
  ASSUME NEW list \in Seq(Lot), NEW p \in Int,
         \A i \in 1 .. Len(list) : Books!SameSide(list[i].quantity, p)
  PROVE  HeldIn(list) \in Int /\ (Len(list) # 0 => Books!SameSide(HeldIn(list), p))
<1> DEFINE n == Len(list)
           a == [i \in DOMAIN list |-> list[i].quantity]
           t == Totals(a)
<1>1. n \in Nat /\ DOMAIN list = 1 .. n /\ \A i \in 1 .. n : list[i].quantity \in Int
  BY LotsOfList
<1>2. a \in [1 .. n -> Int] /\ \A i \in 1 .. n : Books!SameSide(a[i], p)
  BY <1>1
<1>3. HeldIn(list) = SumOf(a)
  BY DEF HeldIn
<1> HIDE DEF a, n
<1>4. a \in Seq(Int) /\ Len(a) = n
  BY <1>1, <1>2, SeqDef, LenProperties
<1>5. t \in [0 .. n -> Int] /\ t[0] = 0 /\ SumOf(a) = t[n] /\ \A i \in 1 .. n : t[i] = t[i - 1] + a[i]
  BY <1>4, TotalsOfPrefixes DEF SumOf
<1> HIDE DEF t
<1> DEFINE T == {i \in 0 .. n : i = 0 \/ Books!SameSide(t[i], p)}
<1>6. 0 \in T
  BY <1>1
<1>7. ASSUME NEW i \in 0 .. (n - 1), i \in T PROVE i + 1 \in T
  <2>1. i + 1 \in 1 .. n /\ i + 1 \in 0 .. n /\ (i + 1) - 1 = i /\ t[i] \in Int /\ a[i + 1] \in Int
    BY <1>1, <1>2, <1>5
  <2>2. t[i + 1] = t[i] + a[i + 1] /\ Books!SameSide(a[i + 1], p) /\ (t[i] = 0 \/ Books!SameSide(t[i], p))
    BY <1>2, <1>5, <1>7, <2>1
  <2>3. Books!SameSide(t[i + 1], p)
    BY <2>1, <2>2 DEF Books!SameSide
  <2> QED  BY <2>1, <2>3
<1>8. 0 .. n \subseteq T
  <2> HIDE DEF T
  <2> QED  BY <1>1, <1>6, <1>7, SetInduction
<1>9. n \in T
  <2> HIDE DEF T
  <2> QED  BY <1>1, <1>8
<1> QED  BY <1>1, <1>3, <1>5, <1>9 DEF n

\* What is left of a fill pays what of its fees the lots have not paid.
UsedIs(used, u, F, a, e, l, D) ==
  /\ u \in Int /\ Is(used, u, D) /\ u = e * (a - l)
  /\ Is(Books!Over(Books!Whole(F), a), e, D)

LEMMA RestPaysIs ==
  ASSUME NEW F \in Nat, NEW a \in Nat \ {0}, NEW D \in Nat \ {0}, NEW e \in Int,
         NEW l \in Nat, l <= a, NEW used, NEW u, UsedIs(used, u, F, a, e, l, D)
  PROVE  Is(Books!RestPays(F, used), e * l, D) /\ F * D = e * a
<1> DEFINE x == Books!Minus(Books!Whole(F), used)
           fd == F * D
<1>0. u \in Int /\ u = e * (a - l) /\ Is(used, u, D) /\ Is(Books!Over(Books!Whole(F), a), e, D)
  BY DEF UsedIs
<1>1. Books!Whole(F) \in Books!Fraction /\ Is(Books!Whole(F), fd, D) /\ fd \in Nat
  <2>1. fd \in Nat
    BY Z3
  <2>2. Is(Books!Whole(F), fd, D)
    BY WholeIs
  <2> QED  BY <2>1, <2>2 DEF Is
<1>2. fd = e * a
  <2>1. Is(Books!Whole(F), e * a, D) /\ e * a \in Int
    BY <1>0, <1>1, OverBack
  <2> HIDE DEF fd
  <2> QED  BY <1>1, <2>1, IsUnique
<1>3. e >= 0
  <2> HIDE DEF fd
  <2> QED  BY <1>1, <1>2, Z3
<1>4. fd - u = e * l /\ e * l \in Nat
  <2>1. e * (a - l) = e * a - e * l /\ e * l \in Nat
    BY <1>3, Z3
  <2>2. e * a \in Int
    OBVIOUS
  <2> HIDE DEF fd
  <2> QED  BY <1>0, <1>1, <1>2, <2>1, <2>2
<1>5. Is(x, fd - u, D)
  <2> HIDE DEF fd
  <2> QED  BY <1>0, <1>1, MinusIs
<1>6. x.n >= 0
  <2> DEFINE v == e * l
             n == x.n
             d == x.d
  <2>1. v \in Nat /\ n * D = v * d /\ n \in Int /\ d \in Nat
    BY <1>4, <1>5, FractionParts DEF Is
  <2> HIDE DEF v, n, d
  <2>2. v * d >= 0
    BY <2>1, Z3
  <2>3. n >= 0
    BY <2>1, <2>2, Z3
  <2> QED  BY <2>3 DEF n
<1>7. Books!RestPays(F, used) = x
  BY <1>6, FractionParts, <1>5 DEF Books!RestPays, Is
<1> QED  BY <1>2, <1>4, <1>5, <1>7

\* What a fill makes of the lots of a symbol: the lots are the new position, and their
\* costs grow by what was paid for the fill and gained by it.
FillMatches(m, L, Q, P, F, p, D, w, c, g) ==
  /\ w \in Int /\ c \in Int /\ g \in Int
  /\ Is(m.gain, g, D) /\ CostsAre(L, c, D) /\ CostsAre(m.lots, w, D)
  /\ w = c + g + ((Q * P) * D + F * D)
  /\ m.lots \in Seq(Lot) /\ HeldIn(m.lots) = p + Q
  /\ \A i \in 1 .. Len(m.lots) : Books!SameSide(m.lots[i].quantity, p + Q)

\* The rest of the fill is the last lot.
LEMMA RestIsKept ==
  ASSUME NEW acc, NEW Q \in Int \ {0}, NEW P \in FillPrices, FillPrices \subseteq Nat, NEW F \in Nat, NEW p \in Int,
         NEW e \in Int, NEW D \in Nat \ {0}, Is(Books!Over(Books!Whole(F), Books!Abs(Q)), e, D),
         NEW c \in Int, NEW L, CostsAre(L, c, D), Matches(acc, Q, P, p, e, D, p, c)
  PROVE  \E w, g : FillMatches([acc EXCEPT !.lots = IF acc.left = 0 THEN @ ELSE Append(@, RestOf(acc, P, F))],
                               L, Q, P, F, p, D, w, c, g)
<1> DEFINE l == acc.left
           m == [acc EXCEPT !.lots = IF acc.left = 0 THEN @ ELSE Append(@, RestOf(acc, P, F))]
           lots == IF l = 0 THEN acc.lots ELSE Append(acc.lots, RestOf(acc, P, F))
           rest == RestOf(acc, P, F)
           a == Books!Abs(Q)
           b == Books!Abs(l)
<1>1. /\ acc \in Match /\ l \in Int /\ acc.lots \in Seq(Lot) /\ SidesFit(acc, Q, p) /\ P \in Nat
      /\ HeldIn(acc.lots) + l = Q + p
  BY DEF Matches, Match
<1>2. m.gain = acc.gain /\ m.lots = lots
  BY <1>1 DEF Match
<1>3. PICK u, g, v : MatchIs(acc, Q, P, e, D, p, c, u, g, v)
  BY DEF Matches
<1>4. /\ u \in Int /\ g \in Int /\ v \in Int
      /\ Is(acc.used, u, D) /\ Is(acc.gain, g, D) /\ CostsAre(acc.lots, v, D)
      /\ u = e * (a - b) /\ g + u = ((l - Q) * P) * D + v - c
  BY <1>3 DEF MatchIs
<1>5. a \in Nat \ {0} /\ b \in Nat /\ b <= a
  BY <1>1 DEF Books!Abs, SidesFit
<1>6. Is(rest.fees, e * b, D) /\ F * D = e * a
  <2>1. rest.fees = Books!RestPays(F, acc.used)
    BY DEF RestOf
  <2>2. Is(Books!Over(Books!Whole(F), a), e, D) /\ Is(acc.used, u, D) /\ u \in Int /\ u = e * (a - b)
    BY <1>4
  <2> HIDE DEF rest, a, b
  <2> DEFINE y == acc.used
  <2>3. UsedIs(y, u, F, a, e, b, D)
    BY <2>2 DEF UsedIs
  <2> HIDE DEF y
  <2>4. Is(Books!RestPays(F, y), e * b, D) /\ F * D = e * a
    BY <1>5, <2>3, RestPaysIs
  <2> QED  BY <2>1, <2>4 DEF y
<1>7. rest.quantity = l /\ rest.price = P /\ rest = [quantity |-> l, price |-> P, fees |-> rest.fees]
  BY DEF RestOf
<1> HIDE DEF m, rest, a, b
<1> DEFINE x == (l * P) * D + e * b
<1>8. x \in Int /\ Is(CostOf(rest), x, D)
  <2> DEFINE k == l * P
             f == e * b
  <2>1. k \in Int /\ f \in Int /\ rest.quantity * rest.price = k /\ Is(rest.fees, f, D)
    BY <1>1, <1>5, <1>6, <1>7
  <2> HIDE DEF k, f
  <2>2. Is(CostOf(rest), k * D + f, D) /\ k * D + f \in Int
    BY <2>1, CostIs
  <2> QED  BY <2>2 DEF k, f
<1>9. /\ CostsAre(lots, v + x, D) /\ lots \in Seq(Lot) /\ HeldIn(lots) = HeldIn(acc.lots) + l
      /\ HeldIn(acc.lots) \in Int
  <2>1. CASE l = 0
    <3>1. x = 0
      <4>1. b = 0
        BY <2>1 DEF Books!Abs, b
      <4>2. (0 * P) * D = 0 /\ e * 0 = 0
        BY <1>1, Z3
      <4> QED  BY <2>1, <4>1, <4>2
    <3>2. HeldIn(acc.lots) \in Int
      BY <1>1, SideOfSum DEF SidesFit
    <3> HIDE DEF x
    <3> QED  BY <1>1, <1>4, <2>1, <3>1, <3>2
  <2>2. CASE l # 0
    <3>1. rest \in Lot
      <4>1. rest.fees \in Books!Fraction
        BY <1>6 DEF Is
      <4> QED  BY <1>1, <1>7, <2>2, <4>1 DEF Lot
    <3> DEFINE list == acc.lots
    <3>2. list \in Seq(Lot) /\ CostsAre(list, v, D)
      BY <1>1, <1>4
    <3> HIDE DEF x, list
    <3>3. /\ CostsAre(Append(list, rest), v + x, D) /\ HeldIn(Append(list, rest)) = HeldIn(list) + rest.quantity
          /\ HeldIn(list) \in Int /\ Append(list, rest) \in Seq(Lot)
      BY <1>8, <3>1, <3>2, MoreCosts, AppendProperties
    <3> QED  BY <1>7, <2>2, <3>3 DEF list, rest
  <2> QED  BY <2>1, <2>2
<1>10. HeldIn(lots) = p + Q
  <2>1. HeldIn(lots) = HeldIn(acc.lots) + l
    BY <1>9
  <2> HIDE DEF lots, l
  <2> QED  BY <1>1, <1>9, <2>1
<1>11. \A i \in 1 .. Len(lots) : Books!SameSide(lots[i].quantity, p + Q)
  <2>1. CASE Books!SameSide(Q, p)
    <3>1. l = Q /\ l # 0 /\ \A i \in 1 .. Len(acc.lots) : Books!SameSide(acc.lots[i].quantity, p)
      BY <1>1, <2>1 DEF SidesFit
    <3>2. /\ Len(lots) = Len(acc.lots) + 1 /\ lots[Len(acc.lots) + 1] = rest /\ Len(acc.lots) \in Nat
          /\ \A i \in 1 .. Len(acc.lots) : lots[i] = acc.lots[i] /\ acc.lots[i].quantity \in Int
      <4>1. lots = Append(acc.lots, rest)
        BY <3>1 DEF rest
      <4>2. \A i \in 1 .. Len(acc.lots) : acc.lots[i].quantity \in Int
        BY <1>1, LotsOfList
      <4> DEFINE list == acc.lots
      <4> HIDE DEF lots, list
      <4>3. /\ Len(Append(list, rest)) = Len(list) + 1 /\ Append(list, rest)[Len(list) + 1] = rest
            /\ \A i \in 1 .. Len(list) : Append(list, rest)[i] = list[i]
        <5>1. list \in Seq(Lot \cup {rest}) /\ rest \in Lot \cup {rest}
          BY <1>1 DEF list
        <5> QED  BY <5>1, AppendProperties
      <4>4. Len(list) \in Nat
        BY <1>1, LenProperties DEF list
      <4> QED  BY <4>1, <4>2, <4>3, <4>4 DEF list
    <3>3. \A q \in Int : Books!SameSide(q, p) => Books!SameSide(q, p + Q)
      BY <2>1 DEF Books!SameSide
    <3>4. Books!SameSide(rest.quantity, p + Q)
      BY <1>7, <2>1, <3>1 DEF Books!SameSide
    <3>5. \A i \in 1 .. Len(lots) : i = Len(acc.lots) + 1 \/ i \in 1 .. Len(acc.lots)
      BY <3>2
    <3> HIDE DEF lots
    <3> QED  BY <3>1, <3>2, <3>3, <3>4, <3>5
  <2>2. CASE ~Books!SameSide(Q, p) /\ l # 0
    <3>1. acc.lots = <<>>
      BY <1>1, <2>2 DEF SidesFit
    <3>2. lots = <<rest>> /\ HeldIn(acc.lots) = 0
      BY <2>2, <3>1, NoCosts DEF rest
    <3>3. l = p + Q
      BY <1>1, <3>2
    <3>4. Books!SameSide(rest.quantity, p + Q)
      BY <1>1, <1>7, <2>2, <3>3 DEF Books!SameSide
    <3> HIDE DEF lots
    <3> QED  BY <3>2, <3>4
  <2>3. CASE ~Books!SameSide(Q, p) /\ l = 0
    <3>1. lots = acc.lots /\ \A i \in 1 .. Len(lots) : Books!SameSide(lots[i].quantity, p)
      BY <1>1, <2>3 DEF SidesFit
    <3> HIDE DEF lots
    <3>2. Len(lots) # 0 => Books!SameSide(p + Q, p)
      BY <1>9, <1>10, <3>1, SideOfSum
    <3>3. \A i \in 1 .. Len(lots) : Len(lots) # 0 /\ lots[i].quantity \in Int
      BY <1>9, LotsOfList
    <3> QED  BY <3>1, <3>2, <3>3 DEF Books!SameSide
  <2> QED  BY <2>1, <2>2, <2>3
<1>12. v + x = c + g + ((Q * P) * D + F * D) /\ v + x \in Int
  <2> DEFINE k == (l * P) * D
             n == (Q * P) * D
             y == e * a
             z == e * b
  <2>1. k \in Int /\ n \in Int /\ y \in Int /\ z \in Int
    BY <1>1, <1>5
  <2>2. ((l - Q) * P) * D = k - n
    <3> DEFINE i == l * P
               j == Q * P
    <3>1. (l - Q) * P = i - j /\ i \in Int /\ j \in Int
      BY <1>1, Z3
    <3> HIDE DEF i, j
    <3>2. (i - j) * D = i * D - j * D
      BY <3>1, Z3
    <3> QED  BY <3>1, <3>2 DEF i, j
  <2>3. u = y - z
    <3>1. e * (a - b) = e * a - e * b
      BY <1>5, Z3
    <3> QED  BY <1>4, <3>1
  <2>4. g + u = k - n + v - c /\ x = k + z /\ F * D = y
    BY <1>4, <1>6, <2>2
  <2> HIDE DEF k, n, y, z, x
  <2>5. v + x = c + g + (n + y) /\ v + x \in Int
    BY <1>4, <2>1, <2>3, <2>4
  <2> QED  BY <2>4, <2>5 DEF n
<1> HIDE DEF lots, x
<1>13. FillMatches(m, L, Q, P, F, p, D, v + x, c, g)
  BY <1>2, <1>4, <1>9, <1>10, <1>11, <1>12 DEF FillMatches
<1> QED  BY <1>13 DEF m

\* What a fill and the lots of its symbol pay per share, over D.
UnitsAre(L, F, Q, D, e, o) ==
  /\ e \in Int /\ o \in Seq(Int) /\ Len(o) = Len(L)
  /\ Is(Books!Over(Books!Whole(F), Books!Abs(Q)), e, D)
  /\ \A i \in 1 .. Len(L) : Is(Books!Over(L[i].fees, Books!Abs(L[i].quantity)), o[i], D)

\* The match begins with the whole fill.
LEMMA MatchBegins ==
  ASSUME NEW Q \in Int \ {0}, NEW P \in Nat, NEW p \in Int, NEW e \in Int, NEW D \in Nat \ {0}
  PROVE  Matches(FirstMatch(Q), Q, P, p, e, D, 0, 0)
<1> DEFINE acc == FirstMatch(Q)
<1>1. /\ acc.left = Q /\ acc.used = Books!Whole(0) /\ acc.gain = Books!Whole(0) /\ acc.lots = <<>>
      /\ acc = [left |-> acc.left, used |-> acc.used, gain |-> acc.gain, lots |-> acc.lots]
  BY DEF FirstMatch
<1>2. Is(Books!Whole(0), 0, D) /\ Books!Whole(0) \in Books!Fraction
  <2> DEFINE z == 0
  <2>1. z \in Int /\ z * D = 0
    BY Z3
  <2> HIDE DEF z
  <2>2. Is(Books!Whole(z), z * D, D)
    BY <2>1, WholeIs
  <2> QED  BY <2>1, <2>2 DEF Is, z
<1>3. CostsAre(<<>>, 0, D) /\ HeldIn(<<>>) = 0 /\ <<>> \in Seq(Lot) /\ Len(<<>>) = 0
  BY NoCosts
<1> HIDE DEF acc
<1>4. acc \in Match
  BY <1>1, <1>2, <1>3 DEF Match
<1>5. SidesFit(acc, Q, p)
  BY <1>1, <1>3 DEF SidesFit, Books!SameSide, Books!Abs
<1>6. MatchIs(acc, Q, P, e, D, 0, 0, 0, 0, 0)
  <2>1. Books!Abs(Q) \in Int
    BY DEF Books!Abs
  <2>2. e * (Books!Abs(Q) - Books!Abs(Q)) = 0
    BY <2>1, Z3
  <2>3. Q - Q = 0 /\ (0 * P) * D = 0
    BY Z3
  <2>4. ((Q - Q) * P) * D + 0 - 0 = 0 + 0
    BY <2>3
  <2> QED  BY <1>1, <1>2, <1>3, <2>2, <2>4 DEF MatchIs
<1> QED  BY <1>1, <1>3, <1>4, <1>5, <1>6 DEF Matches, acc

\* The whole match of a fill with the lots of its symbol.
LEMMA FillMeetsLots ==
  ASSUME Books!AccountingAssumption, NEW s \in BookSymbols, books_lots[s] \in Seq(Lot), NEW p \in Int,
         HeldIn(books_lots[s]) = p,
         \A i \in 1 .. Len(books_lots[s]) : Books!SameSide(books_lots[s][i].quantity, p),
         NEW Q \in Int \ {0}, NEW P \in FillPrices, NEW F \in Nat,
         NEW D \in Nat \ {0}, NEW e, NEW o, UnitsAre(books_lots[s], F, Q, D, e, o)
  PROVE  \E w, c, g : FillMatches(Books!Matched(s, Q, P, F), books_lots[s], Q, P, F, p, D, w, c, g)
<1> DEFINE L == books_lots[s]
           n == Len(L)
           fee == Books!Over(Books!Whole(F), Books!Abs(Q))
           x == [i \in 1 .. n |-> (L[i].quantity * L[i].price) * D + o[i] * Books!Abs(L[i].quantity)]
           q == [i \in 1 .. n |-> L[i].quantity]
           t == Totals(q)
           k == Totals(x)
<1>1. /\ L \in Seq(Lot) /\ n \in Nat /\ DOMAIN L = 1 .. n /\ P \in Nat
      /\ (\A i \in 1 .. n : L[i] \in Lot /\ L[i].quantity \in Int \ {0} /\ L[i].price \in Nat /\ L[i].fees \in Books!Fraction)
  BY LotsOfList DEF Lot, Books!AccountingAssumption
<1>2. /\ e \in Int /\ o \in Seq(Int) /\ Len(o) = n /\ Is(fee, e, D)
      /\ \A i \in 1 .. n : Is(Books!Over(L[i].fees, Books!Abs(L[i].quantity)), o[i], D)
  BY DEF UnitsAre
<1>3. \A i \in 1 .. n : o[i] \in Int /\ Books!Abs(L[i].quantity) \in Nat \ {0}
  <2> SUFFICES ASSUME NEW i \in 1 .. n PROVE o[i] \in Int /\ Books!Abs(L[i].quantity) \in Nat \ {0}
    OBVIOUS
  <2>1. L[i].quantity \in Int \ {0} /\ i \in 1 .. Len(o)
    BY <1>1, <1>2
  <2> HIDE DEF L, n
  <2>2. o[i] \in Int
    BY <1>2, <2>1, ElementOfSeq
  <2> QED  BY <2>1, <2>2 DEF Books!Abs
<1>4. PICK f : MatchesInTurn(f, s, Q, P, F)
  BY <1>1, MatchRuns
<1>0. /\ f[0] = FirstMatch(Q) /\ Len(L) = n
      /\ \A i \in 1 .. n : f[i] = Books!CloseLot(fee, P, f[i - 1], L[i])
  BY <1>4 DEF MatchesInTurn
<1>5. HeldIn(L) = p /\ \A i \in 1 .. n : Books!SameSide(L[i].quantity, p)
  OBVIOUS
<1>6. HeldIn(L) = SumOf(q)
  BY <1>1 DEF HeldIn
<1>7. x = [i \in 1 .. n |-> x[i]] /\ q = [i \in 1 .. n |-> q[i]] /\ \A i \in 1 .. n :
        q[i] = L[i].quantity /\ x[i] = (L[i].quantity * L[i].price) * D + o[i] * Books!Abs(L[i].quantity)
  OBVIOUS
<1> HIDE DEF L, n, x, q
<1>8. \A i \in 1 .. n : q[i] \in Int /\ x[i] \in Int
  <2> SUFFICES ASSUME NEW i \in 1 .. n PROVE q[i] \in Int /\ x[i] \in Int
    OBVIOUS
  <2> DEFINE a == L[i].quantity
             b == L[i].price
             y == Books!Abs(L[i].quantity)
             z == o[i]
  <2>1. a \in Int /\ b \in Int /\ y \in Int /\ z \in Int /\ q[i] = a /\ x[i] = (a * b) * D + z * y
    BY <1>1, <1>3, <1>7
  <2> HIDE DEF a, b, y, z
  <2>2. (a * b) * D \in Int /\ z * y \in Int
    BY <2>1
  <2> QED  BY <2>1, <2>2
<1>9. x \in [1 .. n -> Int] /\ q \in [1 .. n -> Int]
  BY <1>7, <1>8
<1>10. x \in Seq(Int) /\ Len(x) = n /\ q \in Seq(Int) /\ Len(q) = n
  BY <1>1, <1>9, SeqDef, LenProperties
<1>11. /\ t \in [0 .. n -> Int] /\ t[0] = 0 /\ SumOf(q) = t[n] /\ \A i \in 1 .. n : t[i] = t[i - 1] + q[i]
       /\ k \in [0 .. n -> Int] /\ k[0] = 0 /\ SumOf(x) = k[n] /\ \A i \in 1 .. n : k[i] = k[i - 1] + x[i]
  BY <1>10, TotalsOfPrefixes DEF SumOf
<1> HIDE DEF t, k
<1>12. \A i \in 1 .. n : Is(CostOf(L[i]), x[i], D)
  <2> SUFFICES ASSUME NEW i \in 1 .. n PROVE Is(CostOf(L[i]), x[i], D)
    OBVIOUS
  <2> DEFINE lot == L[i]
             b == Books!Abs(lot.quantity)
             u == o[i]
             y == u * b
             z == lot.quantity * lot.price
             r == lot.fees
  <2>1. /\ lot \in Lot /\ b \in Nat \ {0} /\ u \in Int /\ r \in Books!Fraction /\ Is(Books!Over(r, b), u, D)
        /\ lot.quantity \in Int /\ lot.price \in Nat
    BY <1>1, <1>2, <1>3
  <2>2. x[i] = z * D + y
    BY <1>7
  <2>3. y \in Int /\ z \in Int
    BY <2>1
  <2> HIDE DEF b, u, r
  <2>4. Is(r, y, D)
    BY <2>1, OverBack
  <2>5. Is(lot.fees, y, D) /\ lot.quantity * lot.price = z
    BY <2>4 DEF r
  <2> HIDE DEF lot, y, z
  <2>6. Is(CostOf(lot), z * D + y, D)
    BY <2>3, <2>5, CostIs
  <2> QED  BY <2>2, <2>6 DEF lot
<1>13. CostsAre(L, k[n], D)
  BY <1>0, <1>10, <1>11, <1>12 DEF CostsAre
<1> DEFINE T == {i \in 0 .. n : Matches(f[i], Q, P, p, e, D, t[i], k[i])}
<1>14. 0 \in T
  <2>1. Matches(FirstMatch(Q), Q, P, p, e, D, 0, 0)
    BY <1>1, <1>2, MatchBegins
  <2> QED  BY <1>0, <1>1, <1>11, <2>1
<1>15. ASSUME NEW i \in 0 .. (n - 1), i \in T PROVE i + 1 \in T
  <2> DEFINE acc == f[i]
             lot == L[i + 1]
             h == t[i]
             c == k[i]
  <2>1. i + 1 \in 1 .. n /\ i + 1 \in 0 .. n /\ i \in 0 .. n /\ (i + 1) - 1 = i
    BY <1>1
  <2>2. Matches(acc, Q, P, p, e, D, h, c)
    BY <1>15
  <2>3. /\ lot \in Lot /\ lot.quantity \in Int /\ Books!SameSide(lot.quantity, p) /\ h \in Int /\ c \in Int
        /\ f[i + 1] = Books!CloseLot(fee, P, acc, lot)
        /\ t[i + 1] = h + lot.quantity /\ k[i + 1] = c + x[i + 1]
    BY <1>0, <1>1, <1>5, <1>7, <1>11, <2>1
  <2>4. /\ o[i + 1] \in Int /\ Is(Books!Over(lot.fees, Books!Abs(lot.quantity)), o[i + 1], D)
        /\ x[i + 1] = (lot.quantity * lot.price) * D + o[i + 1] * Books!Abs(lot.quantity)
        /\ x[i + 1] \in Int /\ Is(CostOf(lot), x[i + 1], D)
    BY <1>2, <1>3, <1>7, <1>8, <1>12, <2>1
  <2> DEFINE z == x[i + 1]
             v == o[i + 1]
  <2> HIDE DEF acc, lot, h, c, fee
  <2>5. CASE Books!SameSide(acc.left, -lot.quantity)
    <3>1. v \in Int /\ Is(Books!Over(lot.fees, Books!Abs(lot.quantity)), v, D)
      BY <2>4
    <3>2. Matches(Books!CloseLot(fee, P, acc, lot), Q, P, p, e, D, h + lot.quantity,
                  c + ((lot.quantity * lot.price) * D + v * Books!Abs(lot.quantity)))
      <4> HIDE DEF v
      <4> QED  BY <1>1, <1>2, <2>2, <2>3, <2>5, <3>1, LotCloses
    <3>3. Matches(f[i + 1], Q, P, p, e, D, t[i + 1], k[i + 1])
      BY <2>3, <2>4, <3>2
    <3> QED  BY <2>1, <3>3
  <2>6. CASE ~Books!SameSide(acc.left, -lot.quantity)
    <3>1. Books!CloseLot(fee, P, acc, lot) = [acc EXCEPT !.lots = Append(@, lot)]
      BY <2>6 DEF Books!CloseLot
    <3>2. z \in Int /\ Is(CostOf(lot), z, D)
      BY <2>4
    <3>3. Matches([acc EXCEPT !.lots = Append(@, lot)], Q, P, p, e, D, h + lot.quantity, c + z)
      <4> HIDE DEF z
      <4> QED  BY <1>1, <1>2, <2>2, <2>3, <2>6, <3>2, LotStays
    <3>4. Matches(f[i + 1], Q, P, p, e, D, t[i + 1], k[i + 1])
      BY <2>3, <3>1, <3>3
    <3> QED  BY <2>1, <3>4
  <2> QED  BY <2>5, <2>6
<1>16. n \in T
  <2> HIDE DEF T
  <2>1. 0 .. n \subseteq T
    BY <1>1, <1>14, <1>15, SetInduction
  <2> QED  BY <1>1, <2>1
<1> DEFINE acc == f[n]
           c == k[n]
<1>17. Matches(acc, Q, P, p, e, D, p, c) /\ c \in Int /\ CostsAre(L, c, D)
  <2>1. t[n] = p /\ n \in 0 .. n
    BY <1>1, <1>5, <1>6, <1>11
  <2> QED  BY <1>11, <1>13, <1>16, <2>1
<1>18. Books!Matched(s, Q, P, F) = [acc EXCEPT !.lots = IF acc.left = 0 THEN @ ELSE Append(@, RestOf(acc, P, F))]
  BY <1>4 DEF MatchesInTurn, n, L
<1> HIDE DEF acc, c, T
<1>19. FillPrices \subseteq Nat /\ Is(Books!Over(Books!Whole(F), Books!Abs(Q)), e, D)
  BY <1>2 DEF fee, Books!AccountingAssumption
<1> DEFINE m == [acc EXCEPT !.lots = IF acc.left = 0 THEN @ ELSE Append(@, RestOf(acc, P, F))]
<1>20. PICK w, g : FillMatches(m, L, Q, P, F, p, D, w, c, g)
  BY <1>2, <1>17, <1>19, RestIsKept
<1> QED  BY <1>18, <1>20 DEF m, L

-----------------------------------------------------------------------------
\* The lots of a symbol are its position, all on its side.
LotsFit ==
  /\ books_lots \in [BookSymbols -> Seq(Lot)]
  /\ \A s \in BookSymbols :
       /\ HeldIn(books_lots[s]) = books_position[s].quantity
       /\ \A i \in 1 .. Len(books_lots[s]) :
            Books!SameSide(books_lots[s][i].quantity, books_position[s].quantity)

\* The cash is the capital with the profit of the trades and without what the open
\* lots, with the fees they still carry, cost.
TradesAre(D, g, v) ==
  /\ Is(books_pnl, g, D)
  /\ \A s \in BookSymbols : CostsAre(books_lots[s], v[s], D)
  /\ books_cash * D = BookCapital * D + g - SymbolSum(v)

TradesFit == \E D \in Nat \ {0}, g \in Int, v \in [BookSymbols -> Int] : TradesAre(D, g, v)

TradesInv == LotsFit /\ TradesFit

\* The costs over a multiple of the denominator.
LEMMA CostsScaled ==
  ASSUME NEW list \in Seq(Lot), NEW D \in Nat \ {0}, NEW w \in Int, CostsAre(list, w, D), NEW k \in Nat \ {0}
  PROVE  CostsAre(list, w * k, D * k)
<1>1. PICK v \in Seq(Int) : /\ Len(v) = Len(list) /\ w = SumOf(v)
                            /\ \A i \in 1 .. Len(list) : Is(CostOf(list[i]), v[i], D)
  BY DEF CostsAre
<1> DEFINE n == Len(list)
           u == [i \in 1 .. n |-> v[i] * k]
           t == Totals(v)
           z == [i \in 0 .. n |-> t[i] * k]
<1>2. n \in Nat /\ Len(v) = n /\ \A i \in 1 .. n : v[i] \in Int
  BY <1>1, LenProperties, ElementOfSeq
<1>3. t \in [0 .. n -> Int] /\ t[0] = 0 /\ SumOf(v) = t[n] /\ \A i \in 1 .. n : t[i] = t[i - 1] + v[i]
  BY <1>2, TotalsOfPrefixes DEF SumOf
<1> HIDE DEF n, t
<1>4. u \in [1 .. n -> Int] /\ (\A i \in 1 .. n : u[i] = v[i] * k)
  BY <1>2
<1>5. z \in [0 .. n -> Int] /\ (\A i \in 0 .. n : z[i] = t[i] * k)
  BY <1>3
<1> HIDE DEF u, z
<1>6. u \in Seq(Int) /\ Len(u) = n
  BY <1>2, <1>4, SeqDef, LenProperties
<1>7. ASSUME NEW i \in 1 .. n PROVE z[i] = z[i - 1] + u[i]
  <2> DEFINE a == t[i - 1]
             b == v[i]
  <2>1. i \in 0 .. n /\ i - 1 \in 0 .. n
    BY <1>2
  <2>2. a \in Int /\ b \in Int /\ z[i] = (a + b) * k /\ z[i - 1] = a * k /\ u[i] = b * k
    BY <1>2, <1>3, <1>4, <1>5, <2>1
  <2> HIDE DEF a, b
  <2>3. (a + b) * k = a * k + b * k
    BY <2>2, Z3
  <2> QED  BY <2>2, <2>3
<1>8. z[n] = z[0] + SumOf(u)
  BY <1>5, <1>6, <1>7, SumUnique
<1>9. SumOf(u) = w * k
  <2>1. 0 \in 0 .. n /\ n \in 0 .. n /\ 0 * k = 0 /\ SumOf(u) \in Int
    BY <1>2, <1>6, SumType
  <2> QED  BY <1>1, <1>3, <1>5, <1>8, <2>1
<1>10. \A i \in 1 .. n : Is(CostOf(list[i]), u[i], D * k)
  <2> SUFFICES ASSUME NEW i \in 1 .. n PROVE Is(CostOf(list[i]), u[i], D * k)
    OBVIOUS
  <2> DEFINE a == v[i]
             x == CostOf(list[i])
  <2>1. a \in Int /\ Is(x, a, D) /\ u[i] = a * k
    BY <1>1, <1>2, <1>4 DEF n
  <2> HIDE DEF a, x
  <2>2. Is(x, a * k, D * k)
    BY <2>1, IsScaled
  <2> QED  BY <2>1, <2>2 DEF x
<1> QED  BY <1>6, <1>9, <1>10 DEF CostsAre, n

\* What the fees of a fill and of the lots of its symbol come to per share has a
\* denominator.
LEMMA UnitsExist ==
  ASSUME NEW L \in Seq(Lot), NEW F \in Nat, NEW Q \in Int \ {0}
  PROVE  \E E \in Nat \ {0} : \E e, o : UnitsAre(L, F, Q, E, e, o)
<1> DEFINE n == Len(L)
           fee == Books!Over(Books!Whole(F), Books!Abs(Q))
           unit(lot) == Books!Over(lot.fees, Books!Abs(lot.quantity))
           x == [i \in 1 .. n + 1 |-> IF i = n + 1 THEN fee ELSE unit(L[i])]
<1>1. n \in Nat /\ \A i \in 1 .. n : L[i] \in Lot
  BY LotsOfList
<1>2. fee \in Books!Fraction
  <2>1. 0 \in Int /\ F \in Int /\ Books!Abs(Q) \in Int /\ Books!Abs(Q) # 0
    BY DEF Books!Abs
  <2>2. Books!Whole(F) \in Books!Fraction
    BY DEF Books!Whole, Books!Fraction
  <2> QED  BY <2>1, <2>2, FractionTypes
<1>3. \A i \in 1 .. n : unit(L[i]) \in Books!Fraction
  <2> SUFFICES ASSUME NEW i \in 1 .. n PROVE unit(L[i]) \in Books!Fraction
    OBVIOUS
  <2> DEFINE r == L[i].fees
             b == Books!Abs(L[i].quantity)
  <2>1. r \in Books!Fraction /\ b \in Int /\ b # 0
    BY <1>1 DEF Lot, Books!Abs
  <2> HIDE DEF r, b
  <2>2. Books!Over(r, b) \in Books!Fraction
    BY <2>1, FractionTypes
  <2> QED  BY <2>2 DEF r, b
<1> HIDE DEF n, fee, unit
<1>4. x \in [1 .. n + 1 -> Books!Fraction] /\ x[n + 1] = fee /\ \A i \in 1 .. n : x[i] = unit(L[i])
  BY <1>1, <1>2, <1>3
<1> HIDE DEF x
<1>5. x \in Seq(Books!Fraction) /\ Len(x) = n + 1
  <2>1. n + 1 \in Nat
    BY <1>1
  <2> QED  BY <1>4, <2>1, SeqDef, LenProperties
<1>6. PICK E \in Nat \ {0}, v \in Seq(Int) : Len(v) = Len(x) /\ \A i \in 1 .. Len(x) : Is(x[i], v[i], E)
  BY <1>5, CommonDenominator
<1> DEFINE o == [i \in 1 .. n |-> v[i]]
<1>7. n + 1 \in 1 .. n + 1 /\ \A i \in 1 .. n + 1 : v[i] \in Int /\ Is(x[i], v[i], E)
  BY <1>1, <1>5, <1>6, ElementOfSeq
<1>8. o \in [1 .. n -> Int] /\ \A i \in 1 .. n : o[i] = v[i] /\ Is(unit(L[i]), o[i], E)
  BY <1>1, <1>4, <1>7
<1> HIDE DEF o
<1>9. o \in Seq(Int) /\ Len(o) = n
  BY <1>1, <1>8, SeqDef, LenProperties
<1>10. UnitsAre(L, F, Q, E, v[n + 1], o)
  BY <1>4, <1>7, <1>8, <1>9 DEF UnitsAre, fee, unit, n
<1> QED  BY <1>10

\* They have every multiple of it.
LEMMA UnitsScaled ==
  ASSUME NEW L \in Seq(Lot), NEW F \in Nat, NEW Q \in Int \ {0}, NEW E \in Nat \ {0}, NEW e, NEW o,
         UnitsAre(L, F, Q, E, e, o), NEW k \in Nat \ {0}
  PROVE  \E y, u : UnitsAre(L, F, Q, k * E, y, u)
<1> DEFINE n == Len(L)
           u == [i \in 1 .. n |-> o[i] * k]
           fee == Books!Over(Books!Whole(F), Books!Abs(Q))
           unit(lot) == Books!Over(lot.fees, Books!Abs(lot.quantity))
<1>1. /\ n \in Nat /\ e \in Int /\ o \in Seq(Int) /\ Len(o) = n /\ Is(fee, e, E)
      /\ \A i \in 1 .. n : Is(unit(L[i]), o[i], E)
  BY LenProperties DEF UnitsAre
<1> HIDE DEF n, fee, unit
<1>2. \A i \in 1 .. n : o[i] \in Int
  BY <1>1, ElementOfSeq
<1>3. u \in [1 .. n -> Int] /\ \A i \in 1 .. n : u[i] = o[i] * k
  BY <1>2
<1> HIDE DEF u
<1>4. u \in Seq(Int) /\ Len(u) = n
  BY <1>1, <1>3, SeqDef, LenProperties
<1>5. E * k = k * E
  BY Z3
<1>6. e * k \in Int /\ Is(fee, e * k, E * k)
  BY <1>1, IsScaled
<1>7. \A i \in 1 .. n : Is(unit(L[i]), u[i], E * k)
  <2> SUFFICES ASSUME NEW i \in 1 .. n PROVE Is(unit(L[i]), u[i], E * k)
    OBVIOUS
  <2> DEFINE a == o[i]
             x == unit(L[i])
  <2>1. a \in Int /\ Is(x, a, E) /\ u[i] = a * k
    BY <1>1, <1>2, <1>3
  <2> HIDE DEF a, x
  <2>2. Is(x, a * k, E * k)
    BY <2>1, IsScaled
  <2> QED  BY <2>1, <2>2 DEF x
<1>8. UnitsAre(L, F, Q, k * E, e * k, u)
  <2> DEFINE K == k * E
             y == e * k
  <2>1. y \in Int /\ Is(fee, y, K) /\ \A i \in 1 .. n : Is(unit(L[i]), u[i], K)
    BY <1>5, <1>6, <1>7
  <2> HIDE DEF K, y
  <2>2. UnitsAre(L, F, Q, K, y, u)
    BY <1>4, <2>1 DEF UnitsAre, fee, unit, n
  <2> QED  BY <2>2 DEF K, y
<1> QED  BY <1>8

LEMMA TradesBegin == Books!AccountingAssumption /\ Books!Init => TradesInv
<1> SUFFICES ASSUME Books!AccountingAssumption, Books!Init PROVE TradesInv
  OBVIOUS
<1> DEFINE zero == [s \in BookSymbols |-> 0]
<1>1. /\ books_cash = BookCapital /\ books_pnl = Books!Whole(0) /\ BookCapital \in Nat
      /\ books_position = [s \in BookSymbols |-> Books!NoPosition] /\ books_lots = [s \in BookSymbols |-> <<>>]
  BY DEF Books!Init, Books!AccountingAssumption
<1>2. zero \in [BookSymbols -> Int] /\ \A s \in BookSymbols : zero[s] = 0
  OBVIOUS
<1>3. \A s \in BookSymbols : books_position[s].quantity = 0 /\ books_lots[s] = <<>>
  BY <1>1 DEF Books!NoPosition
<1> HIDE DEF zero
<1>4. SymbolSum(zero) = 0
  <2>1. \A s \in BookSymbols : zero[s] = zero[s] * 0
    BY <1>2
  <2>2. SymbolSum(zero) = SymbolSum(zero) * 0 /\ SymbolSum(zero) \in Int
    BY <1>2, <2>1, SymbolSumScaled, SymbolSumType
  <2> QED  BY <2>2
<1>5. CostsAre(<<>>, 0, 1) /\ HeldIn(<<>>) = 0 /\ <<>> \in Seq(Lot) /\ Len(<<>>) = 0
  <2>1. 1 \in Nat \ {0}
    OBVIOUS
  <2> QED  BY <2>1, NoCosts
<1>6. LotsFit
  BY <1>1, <1>3, <1>5 DEF LotsFit
<1>7. Is(Books!Whole(0), 0, 1)
  BY DEF Is, Books!Whole, Books!Fraction
<1>8. TradesAre(1, 0, zero)
  BY <1>1, <1>2, <1>3, <1>4, <1>5, <1>7 DEF TradesAre
<1> QED  BY <1>2, <1>6, <1>8 DEF TradesInv, TradesFit

\* A fill leaves the cash explained by the trades and the open lots.
LEMMA FillKeepsTrades ==
  ASSUME Books!AccountingAssumption, BooksFit, TradesInv, NEW s \in BookSymbols, NEW price \in FillPrices,
         NEW quantity \in FillQuantities, NEW fees \in FillFees,
         Books!UpdatePosition(s, quantity, price, fees)
  PROVE  TradesInv'
<1> DEFINE p == books_position[s].quantity
           L == books_lots[s]
           m == Books!Matched(s, quantity, price, fees)
<1>1. /\ quantity \in Int \ {0} /\ price \in Nat /\ fees \in Nat /\ BookCapital \in Nat
      /\ p \in Int /\ books_cash \in Int
  BY DEF Books!AccountingAssumption, BooksFit, Position
<1>2. /\ books_cash' = books_cash - price * quantity - fees
      /\ books_lots' = [books_lots EXCEPT ![s] = m.lots]
      /\ books_pnl' = Books!Plus(books_pnl, m.gain)
      /\ books_position'[s].quantity = p + quantity
      /\ \A t \in BookSymbols \ {s} : books_position'[t] = books_position[t]
  BY DEF Books!UpdatePosition, BooksFit
<1>3. /\ books_lots \in [BookSymbols -> Seq(Lot)] /\ L \in Seq(Lot) /\ HeldIn(L) = p
      /\ \A i \in 1 .. Len(L) : Books!SameSide(L[i].quantity, p)
  BY DEF TradesInv, LotsFit
<1>4. PICK D \in Nat \ {0}, g \in Int, v \in [BookSymbols -> Int] : TradesAre(D, g, v)
  BY DEF TradesInv, TradesFit
<1>5. /\ Is(books_pnl, g, D) /\ (\A t \in BookSymbols : CostsAre(books_lots[t], v[t], D))
      /\ books_cash * D = BookCapital * D + g - SymbolSum(v) /\ SymbolSum(v) \in Int
  BY <1>4, SymbolSumType DEF TradesAre
<1>6. PICK E \in Nat \ {0} : \E e0, o0 : UnitsAre(L, fees, quantity, E, e0, o0)
  BY <1>1, <1>3, UnitsExist
<1>7. PICK e, o : UnitsAre(L, fees, quantity, D * E, e, o)
  BY <1>1, <1>3, <1>6, UnitsScaled
<1>8. D * E \in Nat \ {0}
  BY Z3
<1>9. PICK w, c, h : FillMatches(m, L, quantity, price, fees, p, D * E, w, c, h)
  <2> DEFINE K == D * E
  <2>1. K \in Nat \ {0} /\ UnitsAre(L, fees, quantity, K, e, o)
    BY <1>7, <1>8
  <2> HIDE DEF K, p
  <2>2. \E w, c, h : FillMatches(m, L, quantity, price, fees, p, K, w, c, h)
    BY <1>1, <1>3, <2>1, FillMeetsLots
  <2> QED  BY <2>2 DEF K, p
<1> DEFINE u == [t \in BookSymbols |-> IF t = s THEN w ELSE v[t] * E]
           f == [t \in BookSymbols |-> v[t] * E]
<1>10. /\ w \in Int /\ c \in Int /\ h \in Int
       /\ Is(m.gain, h, D * E) /\ CostsAre(L, c, D * E) /\ CostsAre(m.lots, w, D * E)
       /\ w = c + h + ((quantity * price) * (D * E) + fees * (D * E))
       /\ m.lots \in Seq(Lot) /\ HeldIn(m.lots) = p + quantity
       /\ \A i \in 1 .. Len(m.lots) : Books!SameSide(m.lots[i].quantity, p + quantity)
  BY <1>9 DEF FillMatches
<1> HIDE DEF m
<1>11. /\ u \in [BookSymbols -> Int] /\ u[s] = w /\ (\A t \in BookSymbols \ {s} : u[t] = f[t])
       /\ f \in [BookSymbols -> Int] /\ \A t \in BookSymbols : f[t] = v[t] * E
  BY <1>10
<1> HIDE DEF u, f
<1>12. /\ books_lots' \in [BookSymbols -> Seq(Lot)] /\ books_lots'[s] = m.lots
       /\ \A t \in BookSymbols \ {s} : books_lots'[t] = books_lots[t]
  BY <1>2, <1>3, <1>10
<1>13. LotsFit'
  <2>1. ASSUME NEW t \in BookSymbols
        PROVE  /\ HeldIn(books_lots'[t]) = books_position'[t].quantity
               /\ \A i \in 1 .. Len(books_lots'[t]) :
                    Books!SameSide(books_lots'[t][i].quantity, books_position'[t].quantity)
    <3>1. CASE t = s
      BY <1>2, <1>10, <1>12, <3>1
    <3>2. CASE t # s
      BY <1>2, <1>12, <3>2 DEF TradesInv, LotsFit
    <3> QED  BY <3>1, <3>2
  <2> QED  BY <1>12, <2>1 DEF LotsFit, HeldIn, Books!SameSide
<1>14. c = f[s]
  <2> DEFINE x == v[s]
             K == D * E
             y == x * E
  <2>1. x \in Int /\ CostsAre(L, x, D)
    BY <1>5
  <2> HIDE DEF x, L
  <2>2. CostsAre(L, x * E, D * E)
    BY <1>3, <2>1, CostsScaled
  <2>3. y \in Int /\ K \in Nat \ {0} /\ CostsAre(L, y, K) /\ CostsAre(L, c, K)
    BY <1>8, <1>10, <2>1, <2>2
  <2> HIDE DEF K, y
  <2>4. Is(CostsOf(L), y, K) /\ Is(CostsOf(L), c, K)
    BY <1>3, <2>3, CostsAreTheirSum
  <2>5. y = c
    BY <1>10, <2>3, <2>4, IsUnique
  <2> QED  BY <1>11, <2>5 DEF y, x
<1>15. \A t \in BookSymbols : CostsAre(books_lots'[t], u[t], D * E)
  <2> SUFFICES ASSUME NEW t \in BookSymbols PROVE CostsAre(books_lots'[t], u[t], D * E)
    OBVIOUS
  <2>1. CASE t = s
    BY <1>10, <1>11, <1>12, <2>1
  <2>2. CASE t # s
    <3> DEFINE x == v[t]
               list == books_lots[t]
    <3>1. x \in Int /\ list \in Seq(Lot) /\ CostsAre(list, x, D)
      BY <1>3, <1>5
    <3> HIDE DEF x, list
    <3>2. CostsAre(list, x * E, D * E)
      BY <3>1, CostsScaled
    <3> QED  BY <1>11, <1>12, <2>2, <3>2 DEF x, list
  <2> QED  BY <2>1, <2>2
<1>16. g * E + h \in Int /\ Is(books_pnl', g * E + h, D * E)
  <2> DEFINE a == g * E
             K == D * E
  <2>9. Is(books_pnl, g * E, D * E)
    BY <1>5, IsScaled
  <2>1. a \in Int /\ Is(books_pnl, a, K) /\ K \in Nat \ {0} /\ Is(m.gain, h, K)
    BY <1>8, <1>10, <2>9
  <2> HIDE DEF a, K
  <2>2. Is(Books!Plus(books_pnl, m.gain), a + h, K)
    BY <1>10, <2>1, PlusIs
  <2> QED  BY <1>2, <1>10, <2>1, <2>2 DEF a, K
<1>17. SymbolSum(u) = SymbolSum(v) * E + h + ((quantity * price) * (D * E) + fees * (D * E))
  <2>1. SymbolSum(f) = SymbolSum(v) * E
    BY <1>11, SymbolSumScaled
  <2>2. SymbolSum(u) = SymbolSum(f) - f[s] + u[s] /\ SymbolSum(f) \in Int
    BY <1>11, SymbolSumChanges, SymbolSumType
  <2> DEFINE x == (quantity * price) * (D * E) + fees * (D * E)
  <2>3. x \in Int
    <3> DEFINE K == D * E
               a == quantity * price
    <3>1. K \in Int /\ a \in Int
      BY <1>1, <1>8
    <3> HIDE DEF K, a
    <3> QED  BY <1>1, <3>1 DEF K, a
  <2>4. w = c + h + x
    BY <1>10
  <2> HIDE DEF x
  <2>5. SymbolSum(u) = SymbolSum(f) + h + x
    BY <1>10, <1>11, <1>14, <2>2, <2>3, <2>4
  <2> QED  BY <2>1, <2>5 DEF x
<1>18. books_cash' * (D * E) = BookCapital * (D * E) + (g * E + h) - SymbolSum(u)
  <2> DEFINE k == books_cash
             a == BookCapital
             x == price * quantity
             V == SymbolSum(v)
             K == D * E
  <2>1. k \in Int /\ a \in Int /\ x \in Int /\ V \in Int /\ K \in Int /\ k * D = a * D + g - V
    BY <1>1, <1>5, <1>8
  <2>2. books_cash' = k - x - fees /\ quantity * price = x
    BY <1>1, <1>2
  <2>3. SymbolSum(u) = V * E + h + (x * K + fees * K)
    BY <1>17, <2>2
  <2>4. (k * D) * E = k * K /\ (a * D) * E = a * K
    <3> HIDE DEF k, a
    <3> QED  BY <2>1, Z3 DEF K
  <2> HIDE DEF k, a, x, V, K
  <2>5. k * K = a * K + g * E - V * E
    <3>1. (k * D) * E = (a * D + g - V) * E
      BY <2>1
    <3>2. (a * D + g - V) * E = (a * D) * E + g * E - V * E
      BY <2>1, Z3
    <3> QED  BY <2>4, <3>1, <3>2
  <2>6. (k - x - fees) * K = k * K - x * K - fees * K
    BY <1>1, <2>1, Z3
  <2>7. k * K \in Int /\ x * K \in Int /\ fees * K \in Int /\ a * K \in Int /\ g * E \in Int /\ V * E \in Int
    BY <1>1, <2>1
  <2>8. (k - x - fees) * K = a * K + (g * E + h) - (V * E + h + (x * K + fees * K))
    <3> DEFINE kK == k * K
               aK == a * K
               gE == g * E
               vE == V * E
               xK == x * K
               fK == fees * K
    <3>1. /\ kK \in Int /\ aK \in Int /\ gE \in Int /\ vE \in Int /\ xK \in Int /\ fK \in Int /\ h \in Int
          /\ kK = aK + gE - vE
      BY <1>10, <2>5, <2>7
    <3> HIDE DEF kK, aK, gE, vE, xK, fK
    <3>2. kK - xK - fK = aK + (gE + h) - (vE + h + (xK + fK))
      BY <3>1
    <3> QED  BY <2>6, <3>2 DEF kK, aK, gE, vE, xK, fK
  <2> QED  BY <2>2, <2>3, <2>8 DEF K, a
<1>19. TradesFit'
  <2> DEFINE K == D * E
             z == g * E + h
  <2>1. K \in Nat \ {0} /\ z \in Int
    BY <1>8, <1>16
  <2> HIDE DEF K, z
  <2>2. TradesAre(K, z, u)'
    BY <1>15, <1>16, <1>18 DEF TradesAre, K, z
  <2> QED  BY <1>11, <2>1, <2>2 DEF TradesFit
<1> QED  BY <1>13, <1>19 DEF TradesInv

\* So does a mark.
LEMMA MarkKeepsTrades ==
  ASSUME Books!AccountingAssumption, BooksFit, TradesInv, NEW s \in BookSymbols, NEW price \in FillPrices,
         Books!MarkToMarket(s, price)
  PROVE  TradesInv'
<1>1. /\ books_position' = [books_position EXCEPT ![s].current_price = price]
      /\ UNCHANGED <<books_cash, books_lots, books_pnl>>
  BY DEF Books!MarkToMarket
<1>2. \A t \in BookSymbols : books_position'[t].quantity = books_position[t].quantity
  BY <1>1 DEF BooksFit, Position
<1>3. LotsFit'
  BY <1>1, <1>2 DEF TradesInv, LotsFit
<1>4. PICK D \in Nat \ {0}, g \in Int, v \in [BookSymbols -> Int] : TradesAre(D, g, v)
  BY DEF TradesInv, TradesFit
<1>5. TradesAre(D, g, v)'
  BY <1>1, <1>4 DEF TradesAre
<1> QED  BY <1>3, <1>5 DEF TradesInv, TradesFit

\* The trades are then what the property says.
LEMMA TradesHold ==
  ASSUME Books!AccountingAssumption, BooksFit, TradesInv PROVE Books!TradesExplainCash
<1> DEFINE Cost(lot) == Books!Plus(Books!Whole(lot.quantity * lot.price), lot.fees)
           Costs(s) == Books!Total([i \in DOMAIN books_lots[s] |-> Cost(books_lots[s][i])])
           x == [s \in BookSymbols |-> Costs(s)]
           all == Books!Total([i \in DOMAIN Books!Order |-> x[Books!Order[i]]])
<1>1. PICK D \in Nat \ {0}, g \in Int, v \in [BookSymbols -> Int] : TradesAre(D, g, v)
  BY DEF TradesInv, TradesFit
<1>2. /\ Is(books_pnl, g, D) /\ (\A s \in BookSymbols : CostsAre(books_lots[s], v[s], D))
      /\ books_cash * D = BookCapital * D + g - SymbolSum(v) /\ books_cash \in Int /\ BookCapital \in Nat
      /\ books_lots \in [BookSymbols -> Seq(Lot)]
  BY <1>1 DEF TradesAre, BooksFit, TradesInv, LotsFit, Books!AccountingAssumption
<1>3. \A s \in BookSymbols : Costs(s) = CostsOf(books_lots[s])
  BY DEF CostsOf, CostOf
<1>4. \A s \in BookSymbols : Is(x[s], v[s], D)
  <2> SUFFICES ASSUME NEW s \in BookSymbols PROVE Is(x[s], v[s], D)
    OBVIOUS
  <2>1. Is(CostsOf(books_lots[s]), v[s], D)
    BY <1>2, CostsAreTheirSum
  <2> QED  BY <1>3, <2>1
<1>5. x \in [BookSymbols -> Books!Fraction]
  <2>1. \A s \in BookSymbols : x[s] \in Books!Fraction
    BY <1>4 DEF Is
  <2>2. x = [s \in BookSymbols |-> x[s]]
    OBVIOUS
  <2> HIDE DEF x
  <2> QED  BY <2>1, <2>2
<1>6. SymbolSum(v) \in Int /\ Is(all, SymbolSum(v), D)
  <2> HIDE DEF x
  <2> QED  BY <1>4, <1>5, SymbolTotalIs
<1>7. all = Books!Total([i \in DOMAIN Books!Order |-> Costs(Books!Order[i])])
  <2>1. \A i \in DOMAIN Books!Order : Books!Order[i] \in BookSymbols
    BY OrderIsWhole, ElementOfSeq
  <2>2. [i \in DOMAIN Books!Order |-> x[Books!Order[i]]] = [i \in DOMAIN Books!Order |-> Costs(Books!Order[i])]
    BY <2>1
  <2> QED  BY <2>2
<1>8. \A s \in BookSymbols :
        /\ Books!SumOf([i \in DOMAIN books_lots[s] |-> books_lots[s][i].quantity]) = books_position[s].quantity
        /\ \A i \in DOMAIN books_lots[s] : Books!SameSide(books_lots[s][i].quantity, books_position[s].quantity)
  <2> SUFFICES ASSUME NEW s \in BookSymbols
               PROVE  /\ Books!SumOf([i \in DOMAIN books_lots[s] |-> books_lots[s][i].quantity]) = books_position[s].quantity
                      /\ \A i \in DOMAIN books_lots[s] : Books!SameSide(books_lots[s][i].quantity, books_position[s].quantity)
    OBVIOUS
  <2>1. DOMAIN books_lots[s] = 1 .. Len(books_lots[s])
    BY <1>2, LotsOfList
  <2>2. HeldIn(books_lots[s]) = books_position[s].quantity
        /\ \A i \in 1 .. Len(books_lots[s]) : Books!SameSide(books_lots[s][i].quantity, books_position[s].quantity)
    BY DEF TradesInv, LotsFit
  <2>3. HeldIn(books_lots[s]) = Books!SumOf([i \in DOMAIN books_lots[s] |-> books_lots[s][i].quantity])
    BY DEF HeldIn, SumOf, Totals, Books!SumOf, Books!Totals
  <2> QED  BY <2>1, <2>2, <2>3
<1> HIDE DEF x, all
<1>9. Books!Minus(Books!Plus(Books!Whole(BookCapital), books_pnl), all) = Books!Whole(books_cash)
  <2> DEFINE a == BookCapital
             b == a * D
             y == Books!Plus(Books!Whole(a), books_pnl)
             i == books_cash
             S == SymbolSum(v)
             e == b + g
  <2>1. a \in Int /\ b \in Int /\ i \in Int /\ S \in Int /\ e \in Int /\ i * D = e - S
    BY <1>2, <1>6
  <2>2. Is(Books!Whole(a), b, D)
    BY <2>1, WholeIs
  <2> HIDE DEF a, b, i, S
  <2>3. Is(y, e, D)
    BY <1>2, <2>1, <2>2, PlusIs
  <2>4. Is(all, S, D)
    BY <1>6 DEF S
  <2> HIDE DEF y, e
  <2>5. Books!Minus(y, all) = Books!Whole(i)
    BY <2>1, <2>3, <2>4, MinusIs
  <2> QED  BY <2>5 DEF y, i, a
<1> QED  BY <1>7, <1>8, <1>9, Zenon DEF Books!TradesExplainCash

LEMMA TradesKept == Books!AccountingAssumption => (Books!Spec => [](BooksFit /\ TradesInv))
<1> SUFFICES ASSUME Books!AccountingAssumption PROVE Books!Spec => [](BooksFit /\ TradesInv)
  OBVIOUS
<1>1. EquityInv => BooksFit
  BY DEF EquityInv
<1>2. BooksFit /\ TradesInv /\ [Books!Next]_(Books!vars) => TradesInv'
  <2> SUFFICES ASSUME BooksFit, TradesInv, [Books!Next]_(Books!vars) PROVE TradesInv'
    OBVIOUS
  <2>1. CASE UNCHANGED Books!vars
    BY <2>1 DEF Books!vars, TradesInv, LotsFit, TradesFit, TradesAre
  <2>2. ASSUME NEW s \in BookSymbols, NEW price \in FillPrices, NEW quantity \in FillQuantities,
               NEW fees \in FillFees, Books!UpdatePosition(s, quantity, price, fees)
        PROVE  TradesInv'
    BY <2>2, FillKeepsTrades
  <2>3. ASSUME NEW s \in BookSymbols, NEW price \in FillPrices, Books!MarkToMarket(s, price)
        PROVE  TradesInv'
    BY <2>3, MarkKeepsTrades
  <2> QED  BY <2>1, <2>2, <2>3 DEF Books!Next
<1>3. Books!Init => TradesInv
  BY TradesBegin
<1>. QED BY <1>1, <1>2, <1>3, EquityKept, PTL DEF Books!Spec

\* Whatever the symbols, the prices, the sizes and the fees of the fills: matched first
\* in, first out, the open lots of a symbol are its position, and the trades, the lots
\* and the fees the lots still carry explain the cash.
THEOREM TradesStayExplained == PartsSpec => []TradesExplainCash
<1>1. Books!AccountingAssumption
  BY PartsAssumption
<1>2. BooksFit /\ TradesInv => TradesExplainCash
  BY <1>1, TradesHold DEF TradesExplainCash
<1>. QED BY <1>1, <1>2, BooksRuns, TradesKept, PTL
=============================================================================
