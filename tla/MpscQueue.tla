----------------------------- MODULE MpscQueue ------------------------------
(***************************************************************************)
(* MpscQueue (src/include/regimeflow/common/mpsc_queue.h), the list in     *)
(* which every thread of the live engine leaves its alerts and the reports *)
(* of update_dashboard_snapshot() find them.                               *)
(*                                                                         *)
(* A node is named by its place in the order in which the producers took   *)
(* the tail, and stands for its value too.  The consumer is one thread, as *)
(* the queue demands.                                                      *)
(***************************************************************************)
EXTENDS Integers, Sequences

CONSTANTS
  Producers,
  MaxNodes     \* bound: nodes ever made, the dummy included

MpscAssumption == MaxNodes \in Nat \ {0}

VARIABLES
  next,     \* next of every node made, 0 for nullptr
  head,     \* head_, the consumer's
  tail,     \* tail_
  made,     \* per producer, its node that is not linked yet, 0 if none
  prev,     \* per producer, the tail its exchange gave it
  popped,   \* the value given out last
  freed     \* the nodes deleted

vars == <<next, head, tail, made, prev, popped, freed>>

Init ==
  /\ next = <<0>>
  /\ head = 1 /\ tail = 1
  /\ made = [p \in Producers |-> 0] /\ prev = [p \in Producers |-> 0]
  /\ popped = 1
  /\ freed = {}
-----------------------------------------------------------------------------
\* push(): the exchange makes the new node the tail,
Exchange(p) ==
  /\ made[p] = 0
  /\ Len(next) < MaxNodes
  /\ next' = Append(next, 0)
  /\ tail' = Len(next) + 1
  /\ made' = [made EXCEPT ![p] = Len(next) + 1]
  /\ prev' = [prev EXCEPT ![p] = tail]
  /\ UNCHANGED <<head, popped, freed>>

\* Mutants: the node is linked to the one it finds at the end; the tail tells
\* whether there is a value.
PredecessorFromTail(p) == IF tail = made[p] THEN prev[p] ELSE tail
HasNextByTail == head # tail

Predecessor(p) == prev[p]

\* and only then the one before it knows it: until then the list is cut there.
Link(p) ==
  /\ made[p] # 0
  /\ next' = [next EXCEPT ![Predecessor(p)] = made[p]]
  /\ made' = [made EXCEPT ![p] = 0]
  /\ UNCHANGED <<head, tail, prev, popped, freed>>

HasNext == next[head] # 0

\* pop(): false also when a later node waits behind a cut.
Pop ==
  /\ HasNext
  /\ popped' = next[head]
  /\ head' = next[head]
  /\ freed' = freed \cup {head}
  /\ UNCHANGED <<next, tail, made, prev>>

Push(p) == Exchange(p) \/ Link(p)

Next == Pop \/ \E p \in Producers : Push(p)

\* A push that was begun ends, and the alerts are fetched again and again.
Fairness == WF_vars(Pop) /\ \A p \in Producers : WF_vars(Link(p))

Spec == Init /\ [][Next]_vars

FairSpec == Spec /\ Fairness
-----------------------------------------------------------------------------
(* Properties.                                                             *)

TypeOK ==
  /\ next \in Seq(0..MaxNodes) /\ Len(next) \in 1..MaxNodes
  /\ tail = Len(next) /\ head \in 1..tail
  /\ made \in [Producers -> 0..tail] /\ prev \in [Producers -> 0..tail]
  /\ popped \in 1..tail
  /\ freed \in SUBSET (1..tail)

\* A producer that was interrupted between its exchange and its link still finds
\* the node it has to link to, whatever was pushed and popped meanwhile; and of
\* every node the list has, its link or the producer that will set it is there.
LinksAreKept ==
  /\ \A p \in Producers : made[p] # 0 => prev[p] >= head /\ prev[p] \notin freed
  /\ \A n \in head..tail - 1 :
       \/ next[n] = n + 1
       \/ next[n] = 0 /\ \E p \in Producers : made[p] = n + 1 /\ prev[p] = n

Queue == INSTANCE BoundedQueue
  WITH items <- [i \in 1..(tail - head) |-> head + i], given <- popped,
       Values <- 1..MaxNodes, Limit <- MaxNodes

\* The list implements an unbounded queue in the order of the exchanges.
ListIsAQueue == Queue!Spec

\* An alert does not stay behind a cut for ever, however many are pushed after it.
IsFetched(n) == (tail >= n) ~> (head >= n)

AlertsAreFetched == \A n \in 1..MaxNodes : IsFetched(n)
=============================================================================
