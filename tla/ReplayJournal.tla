---------------------------- MODULE ReplayJournal ----------------------------
(***************************************************************************)
(* The replay journal (src/engine/replay_journal.cpp): append() writes an  *)
(* event as a line of JSON and flushes, read_replay_journal() gives all    *)
(* events or an error.  Market data is appended by the event loop, order   *)
(* updates also by the thread of the broker adapter, and no lock is taken  *)
(* in between (src/live/live_engine.cpp).  The process may crash and the   *)
(* disk may refuse.  An event is its number: fields are left out.          *)
(***************************************************************************)
EXTENDS Integers, Sequences, FiniteSets

CONSTANTS
  Threads,     \* that append
  MaxEvents,   \* bound: calls of append()
  MaxFailures  \* bound: crashes and refusals

JournalAssumption == 0 \notin Threads /\ {MaxEvents, MaxFailures} \subseteq Nat

VARIABLES
  file,       \* the pieces written: [event, kind]
  flushed,    \* how many of them are on the disk
  stream,     \* stream_: "closed", "open", or "bad", which it remains
  writing,    \* per thread, the event whose text it has written, 0 for none
  number,     \* how many events there were
  reported,   \* history: the events whose append() returned Ok
  failures,   \* history: crashes and refusals
  disturbed   \* history: two threads were in append(), or one was interrupted

vars == <<file, flushed, stream, writing, number, reported, failures, disturbed>>

Text(e) == [event |-> e, kind |-> "text"]
Half(e) == [event |-> e, kind |-> "half"]
Newline == [event |-> 0, kind |-> "newline"]

Init ==
  /\ file = <<>> /\ flushed = 0
  /\ stream = "closed"
  /\ writing = [t \in Threads |-> 0]
  /\ number = 0 /\ reported = {} /\ failures = 0
  /\ disturbed = FALSE
-----------------------------------------------------------------------------
\* append() up to the newline: the stream is opened at the end of the file.
WriteText(t) ==
  /\ writing[t] = 0 /\ number < MaxEvents /\ stream # "bad"
  /\ number' = number + 1
  /\ stream' = "open"
  /\ file' = Append(file, Text(number + 1))
  /\ writing' = [writing EXCEPT ![t] = number + 1]
  /\ disturbed' = (disturbed \/ \E u \in Threads : writing[u] # 0)
  /\ UNCHANGED <<flushed, reported, failures>>

\* A stream that is bad takes nothing, and the caller is told.
Refuse(t) ==
  /\ writing[t] = 0 /\ number < MaxEvents /\ stream = "bad"
  /\ number' = number + 1
  /\ UNCHANGED <<file, flushed, stream, writing, reported, failures, disturbed>>

\* Mutants: the newline, or the flush, is forgotten.
EndWithoutNewline(t) ==
  /\ writing[t] # 0 /\ stream = "open"
  /\ flushed' = Len(file)
  /\ writing' = [writing EXCEPT ![t] = 0] /\ reported' = reported \cup {writing[t]}
  /\ UNCHANGED <<file, stream, number, failures, disturbed>>

EndWithoutFlush(t) ==
  /\ writing[t] # 0 /\ stream = "open"
  /\ file' = Append(file, Newline)
  /\ writing' = [writing EXCEPT ![t] = 0] /\ reported' = reported \cup {writing[t]}
  /\ UNCHANGED <<flushed, stream, number, failures, disturbed>>

EndLine(t) ==
  /\ writing[t] # 0 /\ stream = "open"
  /\ file' = Append(file, Newline) /\ flushed' = Len(file) + 1
  /\ writing' = [writing EXCEPT ![t] = 0] /\ reported' = reported \cup {writing[t]}
  /\ UNCHANGED <<stream, number, failures, disturbed>>

\* What a tear leaves: everything up to some piece, and maybe half of the next.
Torn(pieces) ==
  {SubSeq(pieces, 1, k) : k \in flushed .. Len(pieces)}
    \cup {Append(SubSeq(pieces, 1, k), Half(pieces[k + 1].event)) :
            k \in {n \in flushed .. Len(pieces) - 1 : pieces[n + 1].kind = "text"}}

\* The state of the stream is tested before the flush: append() returns Ok.
DiskRefuses(t) ==
  /\ writing[t] # 0 /\ stream = "open" /\ failures < MaxFailures
  /\ file' \in Torn(Append(file, Newline)) /\ flushed' = Len(file')
  /\ stream' = "bad"
  /\ writing' = [writing EXCEPT ![t] = 0] /\ reported' = reported \cup {writing[t]}
  /\ failures' = failures + 1 /\ disturbed' = TRUE
  /\ UNCHANGED number

\* What another thread was about when the stream went bad is not written.
EndRefused(t) ==
  /\ writing[t] # 0 /\ stream = "bad"
  /\ writing' = [writing EXCEPT ![t] = 0]
  /\ UNCHANGED <<file, flushed, stream, number, reported, failures, disturbed>>

\* The process ends and starts again.
Crash ==
  /\ failures < MaxFailures
  /\ file' \in Torn(file) /\ flushed' = Len(file')
  /\ stream' = "closed" /\ writing' = [t \in Threads |-> 0]
  /\ failures' = failures + 1
  /\ disturbed' = (disturbed \/ \E t \in Threads : writing[t] # 0)
  /\ UNCHANGED <<number, reported>>

Next ==
  \/ Crash
  \/ \E t \in Threads :
       WriteText(t) \/ Refuse(t) \/ EndLine(t) \/ DiskRefuses(t) \/ EndRefused(t)

Spec == Init /\ [][Next]_vars
-----------------------------------------------------------------------------
\* read_replay_journal(): every line that is not empty must be one event, and an
\* event is complete without its newline at the end of the file.
Readable ==
  \A i \in DOMAIN file :
    /\ file[i].kind # "half"
    /\ file[i].kind = "text" /\ i < Len(file) => file[i + 1] = Newline

\* Where the events are that it gives, in this order.
Events == {i \in DOMAIN file : file[i].kind = "text"}
-----------------------------------------------------------------------------
(* Properties.                                                             *)

TypeOK ==
  /\ file \in Seq([event : 0 .. MaxEvents, kind : {"text", "half", "newline"}])
  /\ flushed \in 0 .. Len(file)
  /\ stream \in {"closed", "open", "bad"}
  /\ writing \in [Threads -> 0 .. number] /\ number \in 0 .. MaxEvents
  /\ reported \subseteq 1 .. number
  /\ failures \in 0 .. MaxFailures /\ disturbed \in BOOLEAN

\* As long as calls do not overlap and none is interrupted, across any number of
\* restarts, the journal is read without an error and gives the events in the order
\* they were appended.  (One torn line makes the whole file unreadable.)
UndisturbedJournalIsRead ==
  ~disturbed =>
    /\ Readable
    /\ \A i, j \in Events : i < j => file[i].event < file[j].event

\* What append() reported as written is in the file, even if calls overlap and
\* whenever the process ends: a refusal of the disk, which the caller does not hear of
\* before its next call, loses what two threads had under way and nothing before.
ReportedIsWritten ==
  LET lost == {e \in reported : \A i \in 1 .. flushed : file[i] # Text(e)}
  IN  Cardinality(lost) <= failures
=============================================================================
