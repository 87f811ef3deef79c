----------------------------- MODULE BarBuilder -----------------------------
(***************************************************************************)
(* Bars made of ticks (src/data/bar_builder.cpp).  The model is one        *)
(* BarBuilder, which is given the ticks of one symbol or of several;       *)
(* MultiSymbolBarBuilder has one builder for every symbol.                 *)
(*                                                                         *)
(* Quantities are counted in parts of which Unit make one share, prices in *)
(* whole numbers.                                                          *)
(***************************************************************************)
EXTENDS Integers, Sequences

CONSTANTS
  Symbols, Prices, Quantities, Steps, \* of the ticks; Steps is the time between them
  Unit,
  BarTypes,     \* among "Time", "Volume", "Tick", "Dollar"
  Threshold,    \* of the type: time_interval_ms, volume_threshold, ...
  MaxTicks      \* bound: ticks given to the builder

BarAssumption ==
  /\ Symbols # {}
  /\ Prices \subseteq Nat \ {0}
  /\ Quantities \subseteq Nat /\ Steps \subseteq Nat
  /\ {Unit, Threshold} \subseteq Nat \ {0}
  /\ BarTypes \subseteq {"Time", "Volume", "Tick", "Dollar"}
  /\ MaxTicks \in Nat

VARIABLES
  type,      \* config_.type
  has_state, \* has_state_
  bar,       \* the bar in progress
  now,       \* the time of the last tick
  bars,      \* history: the bars completed, with their `done`
  ticks      \* history: the ticks processed

vars == <<type, has_state, bar, now, bars, ticks>>

Tick == [symbol : Symbols, time : Nat, price : Prices, quantity : Quantities]

\* Mutant: rounded to the nearest.
VolumeRounded(quantity) == (2 * quantity + Unit) \div (2 * Unit)

\* The whole shares that a quantity is counted as in volume_.
Volume(quantity) == quantity \div Unit

\* Of a bar in progress: `first` and `last` are the places of its ticks in the
\* stream, `whole` tells whether all of them were whole shares.
BarOf(tick) ==
  [symbol |-> tick.symbol, start |-> tick.time, high |-> tick.price, low |-> tick.price,
   volume |-> Volume(tick.quantity), tick_count |-> 1,
   dollar_volume |-> tick.price * tick.quantity,
   first |-> Len(ticks) + 1, last |-> Len(ticks) + 1, whole |-> tick.quantity % Unit = 0]

Init ==
  /\ type \in BarTypes
  /\ has_state = FALSE
  /\ bar = [symbol |-> CHOOSE s \in Symbols : TRUE, start |-> 0, high |-> 0, low |-> 0,
            volume |-> 0, tick_count |-> 0, dollar_volume |-> 0,
            first |-> 0, last |-> 0, whole |-> TRUE]
  /\ now = 0
  /\ bars = <<>> /\ ticks = <<>>
-----------------------------------------------------------------------------
\* update_state()
Updated(tick) ==
  [bar EXCEPT !.high = IF tick.price > @ THEN tick.price ELSE @,
              !.low = IF tick.price < @ THEN tick.price ELSE @,
              !.volume = @ + Volume(tick.quantity),
              !.tick_count = @ + 1,
              !.dollar_volume = @ + tick.price * tick.quantity,
              !.last = Len(ticks) + 1,
              !.whole = @ /\ tick.quantity % Unit = 0]

\* Mutant: the interval is full only when it is over.
IsCompleteLate(b, time) ==
  CASE type = "Time" -> time - b.start > Threshold
    [] type = "Volume" -> b.volume > Threshold
    [] type = "Tick" -> b.tick_count > Threshold
    [] type = "Dollar" -> b.dollar_volume > Threshold * Unit

\* is_bar_complete()
IsComplete(b, time) ==
  CASE type = "Time" -> time - b.start >= Threshold
    [] type = "Volume" -> b.volume >= Threshold
    [] type = "Tick" -> b.tick_count >= Threshold
    [] type = "Dollar" -> b.dollar_volume >= Threshold * Unit

Complete(b) == bars' = Append(bars, b)

\* process(), case by case.  The first tick of a bar is never tested.
StartBar(tick) ==
  /\ ~has_state
  /\ bar' = BarOf(tick) /\ has_state' = TRUE
  /\ UNCHANGED bars

ChangeSymbol(tick) ==
  /\ has_state /\ tick.symbol # bar.symbol
  /\ Complete(bar)
  /\ bar' = BarOf(tick)
  /\ UNCHANGED has_state

\* A tick that is too late for a time bar begins the next one,
ContinueTimeBar(tick) ==
  /\ has_state /\ tick.symbol = bar.symbol /\ type = "Time"
  /\ IF IsComplete(bar, tick.time)
       THEN Complete(bar) /\ bar' = BarOf(tick)
       ELSE bar' = Updated(tick) /\ UNCHANGED bars
  /\ UNCHANGED has_state

\* Mutant: the completed bar stays for the next tick.
StateAfterKept == TRUE

\* reset() of process() and flush()
StateAfter == FALSE

\* one that fills another bar is its last.
ContinueBar(tick) ==
  /\ has_state /\ tick.symbol = bar.symbol /\ type # "Time"
  /\ IF IsComplete(Updated(tick), tick.time)
       THEN Complete(Updated(tick)) /\ has_state' = StateAfter /\ UNCHANGED bar
       ELSE bar' = Updated(tick) /\ UNCHANGED <<has_state, bars>>

Process(tick) ==
  /\ Len(ticks) < MaxTicks
  /\ ticks' = Append(ticks, tick)
  /\ now' = tick.time
  /\ StartBar(tick) \/ ChangeSymbol(tick) \/ ContinueTimeBar(tick) \/ ContinueBar(tick)
  /\ UNCHANGED type

Flush ==
  /\ has_state
  /\ Complete(bar)
  /\ has_state' = StateAfter
  /\ UNCHANGED <<type, bar, now, ticks>>

Next ==
  \/ Flush
  \/ \E s \in Symbols, p \in Prices, q \in Quantities, step \in Steps :
       Process([symbol |-> s, time |-> now + step, price |-> p, quantity |-> q])

Spec == Init /\ [][Next]_vars
-----------------------------------------------------------------------------
(* Properties.                                                             *)

Bar ==
  [symbol : Symbols, start : Nat, high : Nat, low : Nat, volume : Nat, tick_count : Nat,
   dollar_volume : Nat, first : Nat, last : Nat, whole : BOOLEAN]

TypeOK ==
  /\ type \in BarTypes /\ has_state \in BOOLEAN
  /\ bar \in Bar /\ bars \in Seq(Bar)
  /\ now \in Nat /\ ticks \in Seq(Tick)

\* The bars, and the one in progress last.
AllBars == IF has_state THEN Append(bars, bar) ELSE bars

\* Every tick is in exactly one bar, that of its symbol, whatever completes the
\* bars: each has the ticks from its first to its last, and none is between two.
TicksArePartitioned ==
  /\ \A i \in DOMAIN AllBars :
       LET b == AllBars[i] IN
         /\ b.first = (IF i = 1 THEN 1 ELSE AllBars[i - 1].last + 1)
         /\ b.tick_count = b.last - b.first + 1
         /\ \A k \in b.first..b.last : ticks[k].symbol = b.symbol
  /\ ticks # <<>> => AllBars # <<>> /\ AllBars[Len(AllBars)].last = Len(ticks)

\* A bar is as long as configured and no longer: no tick of a time bar is an
\* interval after its start, and of another bar the ticks before the last one do not
\* reach the threshold.  (The first tick is not tested: one that reaches it alone
\* waits for a second one.)
BarsCloseInTime ==
  \A i \in DOMAIN AllBars :
    LET b == AllBars[i] IN
      IF type = "Time" THEN ticks[b.last].time - b.start < Threshold
      ELSE (has_state /\ i = Len(AllBars) /\ b.tick_count > 1) => ~IsComplete(b, now)

\* vwap is dollar_volume / volume and volume counts whole shares of every tick:
\* between the low and the high if all ticks were whole shares, and never below
\* the low.  (A bar without one whole share has no vwap: the field stays 0, and the
\* products below say nothing of it.)
VwapIsAPrice ==
  \A i \in DOMAIN AllBars :
    LET b == AllBars[i] IN
      /\ b.low * b.volume * Unit <= b.dollar_volume
      /\ b.whole => b.dollar_volume <= b.high * b.volume * Unit
=============================================================================
