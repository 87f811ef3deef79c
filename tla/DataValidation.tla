--------------------------- MODULE DataValidation ---------------------------
(***************************************************************************)
(* What becomes of the rows of a data file or of a query: validate_bars(), *)
(* validate_ticks() and fill_missing_time_bars()                           *)
(* (src/data/validation_utils.cpp), and the same checks row by row in      *)
(* CSVDataSource::parse_bars() (src/data/csv_reader.cpp).  WebSocketFeed   *)
(* has them too, for the messages of each symbol, and fills nothing.       *)
(*                                                                         *)
(* A row is its time and its price.  Price 0 stands for whatever           *)
(* check_price_bounds and the other checks of one row refuse, and a change *)
(* of more than MaxJump for one that check_price_jump notices.  Reports    *)
(* are not collected: if they are, "fail" is the same as "skip".  The      *)
(* range of a query is left out.                                           *)
(***************************************************************************)
EXTENDS Integers, Sequences

CONSTANTS
  Times, Prices,     \* of the rows
  Interval,          \* of the bar type
  MaxGap, MaxJump,
  ErrorActions, GapActions, WarningActions, \* what on_error, on_gap and on_warning may be
  MaxRows            \* bound: rows of the input

ValidationAssumption ==
  /\ Times \subseteq Nat /\ Prices \subseteq Nat
  /\ Interval \in Nat \ {0}
  /\ {MaxGap, MaxJump, MaxRows} \subseteq Nat
  /\ ErrorActions \cup GapActions \cup WarningActions
       \subseteq {"skip", "fill", "continue", "fail"}

VARIABLES
  config,      \* on_error, on_gap, on_warning and fill_missing_bars
  rows,        \* history: the rows so far
  out,         \* the bars so far
  fill_on_gap, \* a gap asks for filling
  state        \* "reading", "done" or "failed", which is an exception

vars == <<config, rows, out, fill_on_gap, state>>

Row == [time : Times, price : Prices]

Configs ==
  [on_error : ErrorActions, on_gap : GapActions, on_warning : WarningActions, fill : BOOLEAN]

Init ==
  /\ config \in Configs
  /\ rows = <<>> /\ out = <<>>
  /\ fill_on_gap = FALSE
  /\ state = "reading"
-----------------------------------------------------------------------------
Last(bars) == bars[Len(bars)]
Distance(p, q) == IF p < q THEN q - p ELSE p - q

\* require_monotonic_timestamps, against the last row that was accepted.
OutOfOrder(row) == out # <<>> /\ row.time < Last(out).time

\* The rows are compared with the last one accepted, not with the last one read.
AfterGap(row) == out # <<>> /\ row.time - Last(out).time > MaxGap
AfterJump(row) == out # <<>> /\ Distance(Last(out).price, row.price) > MaxJump

\* What the checks make of a row.  An error is never let through:
\* normalize_error_action() turns "fill" and "continue" into "skip".
OnError == IF config.on_error = "fail" THEN "fail" ELSE "skip"

Verdict(row) ==
  IF row.price = 0 \/ OutOfOrder(row) THEN OnError
  ELSE IF AfterGap(row) /\ config.on_gap \in {"skip", "fail"} THEN config.on_gap
  ELSE IF AfterJump(row) /\ config.on_warning \in {"skip", "fail"} THEN config.on_warning
  ELSE "accept"

ReadRow(row) ==
  /\ state = "reading"
  /\ Len(rows) < MaxRows
  /\ rows' = Append(rows, row)
  /\ out' = IF Verdict(row) = "accept" THEN Append(out, row) ELSE out
  /\ fill_on_gap' =
       (fill_on_gap \/ (/\ row.price # 0 /\ ~OutOfOrder(row)
                        /\ AfterGap(row) /\ config.on_gap = "fill"))
  /\ state' = IF Verdict(row) = "fail" THEN "failed" ELSE "reading"
  /\ UNCHANGED config

\* fill_missing_time_bars(): after a bar as many as fit before the next one, at
\* multiples of the interval, with the price it closed at.
Missing(bar, next) ==
  LET count == IF next.time > bar.time THEN (next.time - bar.time - 1) \div Interval ELSE 0
  IN  [i \in 1..count |-> [time |-> bar.time + i * Interval, price |-> bar.price]]

\* Mutant: bars are made with the price to come.
MissingLookingAhead(bar, next) ==
  [i \in DOMAIN Missing(bar, next) |-> [Missing(bar, next)[i] EXCEPT !.price = next.price]]

Between(bar, next) == Missing(bar, next)

Filled(bars) ==
  LET upTo[n \in 0..Len(bars)] ==
        IF n = 0 THEN <<>>
        ELSE IF n = 1 THEN <<bars[1]>>
        ELSE upTo[n - 1] \o Between(bars[n - 1], bars[n]) \o <<bars[n]>>
  IN  upTo[Len(bars)]

Finish ==
  /\ state = "reading"
  /\ state' = "done"
  /\ out' = IF config.fill \/ fill_on_gap THEN Filled(out) ELSE out
  /\ UNCHANGED <<config, rows, fill_on_gap>>

Next == Finish \/ \E row \in Row : ReadRow(row)

Spec == Init /\ [][Next]_vars
-----------------------------------------------------------------------------
(* Properties.                                                             *)

TypeOK ==
  /\ config \in Configs
  /\ rows \in Seq(Row) /\ Len(rows) <= MaxRows
  /\ out \in Seq([time : Nat, price : Nat \ {0}])
  /\ fill_on_gap \in BOOLEAN
  /\ state \in {"reading", "done", "failed"}

\* Whatever comes in, what goes out never steps back in time, filled or not: with
\* every policy for errors, and after any number of rows that were refused.
OutputIsInOrder == \A i \in 1..Len(out) - 1 : out[i].time <= out[i + 1].time

\* A bar that was made up shows what was known at its time: the price of the last
\* row accepted before it, never of one to come; and it stands where no row was
\* accepted.
NoLookAhead ==
  state = "done" =>
    \A i \in DOMAIN out :
      \/ out[i] \in {rows[k] : k \in DOMAIN rows}
      \/ i > 1 /\ out[i].price = out[i - 1].price /\ out[i].time = out[i - 1].time + Interval
         /\ i < Len(out) /\ out[i].time < out[i + 1].time

\* A file that is filled has a bar at least every interval from its first row to
\* its last.
NoHoleIsLeft ==
  state = "done" /\ config.fill =>
    \A i \in 1..Len(out) - 1 : out[i + 1].time - out[i].time <= Interval

\* on_gap = skip (docs/reference/data-validation.md:30).  Rows are compared with the
\* last one accepted, so the row after a gap is not left out alone: all that follow
\* it are, and of a file in order only the part before its first gap remains.
SkippedGapEndsTheData ==
  (/\ state = "reading" /\ config.on_gap = "skip" /\ config.on_warning # "skip"
   /\ \A i \in DOMAIN rows : rows[i].price # 0
   /\ \A i \in 1..Len(rows) - 1 : rows[i].time <= rows[i + 1].time)
  => out = SubSeq(rows, 1, Len(out))
=============================================================================
