----------------------------- MODULE SpscQueue ------------------------------
(***************************************************************************)
(* SpscQueue (src/include/regimeflow/common/spsc_queue.h), the ring        *)
(* between the dispatcher of the event bus, which pushes market data, and  *)
(* the event loop of the live engine, which pops it.                       *)
(*                                                                         *)
(* Each side is split at its accesses of what the other side uses.  The    *)
(* accesses of head_ and tail_ acquire and release, which with one thread  *)
(* on each side leaves the interleavings modelled here.                    *)
(***************************************************************************)
EXTENDS Integers, Sequences

CONSTANTS
  Capacity,  \* the slots of the ring, of which one stays empty
  Values

SpscAssumption == Capacity \in Nat /\ Capacity >= 2

VARIABLES
  buffer,    \* buffer_
  head,      \* head_, where the next value goes; the producer's
  tail,      \* tail_, the oldest value; the consumer's
  pushing,   \* where push() is
  value,     \* its argument
  popping,   \* where pop() is
  out        \* what it gave out last

producer == <<head, pushing, value>>
consumer == <<tail, popping, out>>
vars == <<buffer, producer, consumer>>

Slots == 0..(Capacity - 1)

Init ==
  /\ buffer \in [Slots -> Values]
  /\ head = 0 /\ tail = 0
  /\ pushing = "idle" /\ value \in Values
  /\ popping = "idle" /\ out \in Values
-----------------------------------------------------------------------------
Increment(index) == (index + 1) % Capacity

\* Mutant: fullness is not looked at.
IsFullToTheLast == FALSE

IsFull == Increment(head) = tail

\* push(): a full ring refuses the value;
StartPush ==
  /\ pushing = "idle"
  /\ ~IsFull
  /\ value' \in Values
  /\ pushing' = "write"
  /\ UNCHANGED <<buffer, head, consumer>>

\* the value is in the slot
WriteSlot ==
  /\ pushing = "write"
  /\ buffer' = [buffer EXCEPT ![head] = value]
  /\ pushing' = "publish"
  /\ UNCHANGED <<head, value, consumer>>

\* before the consumer may look for it there.
PublishHead ==
  /\ pushing = "publish"
  /\ head' = Increment(head)
  /\ pushing' = "idle"
  /\ UNCHANGED <<buffer, value, consumer>>

\* pop(): an empty ring has nothing;
StartPop ==
  /\ popping = "idle"
  /\ tail # head
  /\ popping' = "read"
  /\ UNCHANGED <<buffer, producer, tail, out>>

\* the value is copied
ReadSlot ==
  /\ popping = "read"
  /\ out' = buffer[tail]
  /\ popping' = "free"
  /\ UNCHANGED <<buffer, producer, tail>>

\* before the producer may use the slot.
FreeSlot ==
  /\ popping = "free"
  /\ tail' = Increment(tail)
  /\ popping' = "idle"
  /\ UNCHANGED <<buffer, producer, out>>

Next == StartPush \/ WriteSlot \/ PublishHead \/ StartPop \/ ReadSlot \/ FreeSlot

Spec == Init /\ [][Next]_vars
-----------------------------------------------------------------------------
(* Properties.                                                             *)

TypeOK ==
  /\ buffer \in [Slots -> Values]
  /\ head \in Slots /\ tail \in Slots
  /\ value \in Values /\ out \in Values
  /\ pushing \in {"idle", "write", "publish"}
  /\ popping \in {"idle", "read", "free"}

\* How many slots the consumer may see.
Used == IF tail <= head THEN head - tail ELSE head - tail + Capacity

\* Neither side is in a slot of the other: what is being written is not visible
\* yet, although the room for it was found at an earlier moment, and what is
\* being read or was read is not given back yet.
SidesAreApart ==
  /\ Used <= Capacity - 1
  /\ pushing # "idle" => ~IsFull
  /\ popping # "idle" => tail # head
  /\ popping = "free" => out = buffer[tail]
  /\ pushing = "publish" => buffer[head] = value

\* A value is in the queue once the head has moved, and out of it when it is
\* copied.
Skipped == IF popping = "free" THEN 1 ELSE 0
Visible ==
  [i \in 1..(Used - Skipped) |-> buffer[(tail + Skipped + i - 1) % Capacity]]

Queue == INSTANCE BoundedQueue
  WITH items <- Visible, given <- out, Limit <- Capacity - 1

\* The ring implements a bounded queue: nothing is lost, doubled or overtaken when
\* both sides are in the middle of their calls.
RingIsAQueue == Queue!Spec
=============================================================================
