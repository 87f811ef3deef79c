--------------------------- MODULE MergedIterator ---------------------------
(***************************************************************************)
(* The merging of data streams by time (src/data/merged_iterator.cpp):     *)
(* MergedBarIterator, and MergedTickIterator and MergedOrderBookIterator,  *)
(* which differ in nothing but their type.  The heap holds one item of     *)
(* every stream that has not come to its end.                              *)
(***************************************************************************)
EXTENDS Integers, Sequences, FiniteSets

CONSTANT Streams   \* a sequence of sequences of [time, symbol]

Item == [time : Nat, symbol : Nat]

\* The streams are read from sources that are in order of time.
StreamsAssumption ==
  /\ Streams \in Seq(Seq(Item))
  /\ \A s \in DOMAIN Streams : \A i, j \in DOMAIN Streams[s] :
       i < j => Streams[s][i].time <= Streams[s][j].time

VARIABLES
  heap,   \* heap_: the set of [item, stream]
  read,   \* per stream, how many items were taken from it
  given   \* history: what next() has given since the start or reset(), as
          \* [item, stream]

vars == <<heap, read, given>>

Entry(s, i) == [item |-> Streams[s][i], stream |-> s]

\* initialize_heap()
Start(h, r) ==
  /\ h = {Entry(s, 1) : s \in {t \in DOMAIN Streams : Streams[t] # <<>>}}
  /\ r = [s \in DOMAIN Streams |-> IF Streams[s] # <<>> THEN 1 ELSE 0]

Init ==
  /\ Start(heap, read)
  /\ given = <<>>

\* Mutant: by symbol before time.
BeforeBySymbol(a, b) ==
  \/ a.symbol < b.symbol
  \/ a.symbol = b.symbol /\ a.time < b.time

\* HeapCompare
Before(a, b) ==
  \/ a.time < b.time
  \/ a.time = b.time /\ a.symbol < b.symbol

\* What the heap may have on top; items of one time and symbol from two streams
\* come in any order.
IsTop(e) == e \in heap /\ \A f \in heap : ~Before(f.item, e.item)

\* Mutant: the heap is filled up from the stream that is behind.
RefillFromTheFirst(s) == CHOOSE t \in DOMAIN Streams : \A u \in DOMAIN Streams : read[t] <= read[u]

\* The stream that next() takes another item from.
Refill(s) == s

HasMore(s) == read[s] < Len(Streams[s])

NextItem(e) ==
  /\ IsTop(e)
  /\ given' = Append(given, e)
  /\ LET s == Refill(e.stream) IN
       IF HasMore(s)
         THEN /\ heap' = (heap \ {e}) \cup {Entry(s, read[s] + 1)}
              /\ read' = [read EXCEPT ![s] = @ + 1]
         ELSE heap' = heap \ {e} /\ UNCHANGED read

\* reset(), at any time.
Reset ==
  /\ Start(heap', read')
  /\ given' = <<>>

Next == Reset \/ \E e \in heap : NextItem(e)

Spec == Init /\ [][Next]_vars
-----------------------------------------------------------------------------
(* Properties.                                                             *)

TypeOK ==
  /\ heap \subseteq [item : Item, stream : DOMAIN Streams]
  /\ read \in [DOMAIN Streams -> Nat]
  /\ \A s \in DOMAIN Streams : read[s] <= Len(Streams[s])
  /\ given \in Seq([item : Item, stream : DOMAIN Streams])

\* The merged stream is in the order of time, after any number of resets.
MergeIsInOrder ==
  \A i, j \in DOMAIN given : i < j => given[i].item.time <= given[j].item.time

\* How many of the first i items given came from stream s.
GivenOf(s, i) == Cardinality({j \in 1 .. i : given[j].stream = s})

\* Of every stream exactly what was taken from it came out, in its order, but for
\* the one item that waits in the heap.
NothingIsLost ==
  /\ \A i \in DOMAIN given :
       LET s == given[i].stream IN given[i].item = Streams[s][GivenOf(s, i)]
  /\ \A s \in DOMAIN Streams :
       LET waiting == \E e \in heap : e.stream = s
       IN  /\ GivenOf(s, Len(given)) = (IF waiting THEN read[s] - 1 ELSE read[s])
           /\ waiting \/ read[s] = Len(Streams[s])
=============================================================================
