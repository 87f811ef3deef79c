--------------------------- MODULE ComponentProofs ---------------------------
(***************************************************************************)
(* Proofs about the components of MCComponents that carry data, orders and *)
(* connections: for each, what is proved of the component alone, and in    *)
(* the end the properties that the run of MCComponents checks.             *)
(***************************************************************************)
EXTENDS MCComponents, SumProofs, FiniteSetTheorems, SequenceTheorems, TLAPS

\* The remainder in the range in which the ring uses it.
LEMMA Wraps ==
  ASSUME Ring!SpscAssumption, NEW n \in 0 .. (2 * RingCapacity - 1)
  PROVE  n % RingCapacity = IF n < RingCapacity THEN n ELSE n - RingCapacity
BY Z3 DEF Ring!SpscAssumption

\* The slot after another one.
LEMMA NextSlot ==
  ASSUME Ring!SpscAssumption, NEW slot \in Ring!Slots
  PROVE  Ring!Increment(slot) = IF slot = RingCapacity - 1 THEN 0 ELSE slot + 1
<1>1. slot \in Int /\ slot + 1 \in 0 .. (2 * RingCapacity - 1) /\ RingCapacity \in Int
  BY DEF Ring!SpscAssumption, Ring!Slots
<1> QED  BY <1>1, Wraps, RingCapacity \in Int DEF Ring!Increment, Ring!Slots, Ring!SpscAssumption

(***************************************************************************)
(* Safety: that both hold is inductive as it stands.                       *)
(***************************************************************************)
RingInv == Ring!TypeOK /\ Ring!SidesAreApart

LEMMA InitRing == Ring!SpscAssumption /\ Ring!Init => RingInv
BY NextSlot DEF Ring!Init, RingInv, Ring!TypeOK, Ring!SidesAreApart, Ring!SpscAssumption,
                Ring!Slots, Ring!Used, Ring!IsFull

LEMMA RingStep ==
  ASSUME Ring!SpscAssumption, RingInv, [Ring!Next]_(Ring!vars)
  PROVE  RingInv'
<1> USE DEF Ring!SpscAssumption, RingInv, Ring!TypeOK, Ring!SidesAreApart, Ring!Used,
            Ring!IsFull, Ring!vars, Ring!producer, Ring!consumer
<1>0. /\ Ring!Increment(ring_head) = IF ring_head = RingCapacity - 1 THEN 0 ELSE ring_head + 1
      /\ Ring!Increment(ring_tail) = IF ring_tail = RingCapacity - 1 THEN 0 ELSE ring_tail + 1
  BY NextSlot
<1>1. CASE Ring!StartPush
  BY <1>0, <1>1 DEF Ring!StartPush, Ring!Slots
<1>2. CASE Ring!WriteSlot
  BY <1>0, <1>2 DEF Ring!WriteSlot, Ring!Slots
<1>3. CASE Ring!PublishHead
  BY <1>0, <1>3 DEF Ring!PublishHead, Ring!Slots
<1>4. CASE Ring!StartPop
  BY <1>0, <1>4 DEF Ring!StartPop, Ring!Slots
<1>5. CASE Ring!ReadSlot
  BY <1>0, <1>5 DEF Ring!ReadSlot, Ring!Slots
<1>6. CASE Ring!FreeSlot
  BY <1>0, <1>6 DEF Ring!FreeSlot, Ring!Slots
<1>7. CASE UNCHANGED Ring!vars
  BY <1>7 DEF Ring!Increment
<1> QED  BY <1>1, <1>2, <1>3, <1>4, <1>5, <1>6, <1>7 DEF Ring!Next

\* Producer and consumer are never in one slot, although each tests the other's
\* index before it acts and acts on it later.
LEMMA RingIsSafe == Ring!SpscAssumption => (Ring!Spec => []RingInv)
<1> SUFFICES ASSUME Ring!SpscAssumption PROVE Ring!Spec => []RingInv
  OBVIOUS
<1>1. Ring!Init => RingInv
  BY InitRing
<1>2. RingInv /\ [Ring!Next]_(Ring!vars) => RingInv'
  BY RingStep
<1> QED  BY <1>1, <1>2, PTL DEF Ring!Spec

(***************************************************************************)
(* The refinement.  A value enters the abstract queue when the head moves, *)
(* and leaves it when it is copied; every other step is a stutter.         *)
(***************************************************************************)
Around(n) == IF n < RingCapacity THEN n ELSE n - RingCapacity

VisibleIsTheRing ==
  /\ Ring!Used - Ring!Skipped \in Nat /\ Ring!Used - Ring!Skipped <= RingCapacity - 1
  /\ Ring!Visible \in Seq(RingValues)
  /\ Len(Ring!Visible) = Ring!Used - Ring!Skipped
  /\ \A i \in 1 .. (Ring!Used - Ring!Skipped) :
       /\ Ring!Visible[i] = ring_buffer[Around(ring_tail + Ring!Skipped + i - 1)]
       /\ Around(ring_tail + Ring!Skipped + i - 1) \in Ring!Slots

LEMMA VisibleSlots == Ring!SpscAssumption /\ RingInv => VisibleIsTheRing
<1> SUFFICES ASSUME Ring!SpscAssumption, RingInv PROVE VisibleIsTheRing
  OBVIOUS
<1> DEFINE n == Ring!Used - Ring!Skipped
<1>1. n \in Nat /\ n <= RingCapacity - 1 /\ ring_tail + Ring!Skipped + n <= 2 * RingCapacity - 1
  BY DEF Ring!SpscAssumption, RingInv, Ring!TypeOK, Ring!SidesAreApart, Ring!Used, Ring!Skipped,
         Ring!IsFull, Ring!Slots
<1>2. ASSUME NEW i \in 1 .. n
      PROVE  /\ (ring_tail + Ring!Skipped + i - 1) % RingCapacity = Around(ring_tail + Ring!Skipped + i - 1)
             /\ Around(ring_tail + Ring!Skipped + i - 1) \in Ring!Slots
  <2>1. ring_tail + Ring!Skipped + i - 1 \in 0 .. (2 * RingCapacity - 1)
    BY <1>1 DEF Ring!SpscAssumption, RingInv, Ring!TypeOK, Ring!Skipped, Ring!Slots
  <2> HIDE DEF n
  <2> QED  BY <2>1, Wraps DEF Around, Ring!Slots, Ring!SpscAssumption
<1>3. \A i \in 1 .. n : ring_buffer[(ring_tail + Ring!Skipped + i - 1) % RingCapacity] \in RingValues
  BY <1>2 DEF RingInv, Ring!TypeOK
<1> HIDE DEF n
<1>4. /\ [i \in 1 .. n |-> ring_buffer[(ring_tail + Ring!Skipped + i - 1) % RingCapacity]] \in Seq(RingValues)
      /\ Len([i \in 1 .. n |-> ring_buffer[(ring_tail + Ring!Skipped + i - 1) % RingCapacity]]) = n
  BY <1>1, <1>3
<1>5. Ring!Visible = [i \in 1 .. n |-> ring_buffer[(ring_tail + Ring!Skipped + i - 1) % RingCapacity]]
  BY DEF n, Ring!Visible
<1>6. \A i \in 1 .. n : Ring!Visible[i] = ring_buffer[Around(ring_tail + Ring!Skipped + i - 1)]
  BY <1>2, <1>5
<1> QED  BY <1>1, <1>2, <1>4, <1>5, <1>6 DEF n, VisibleIsTheRing

LEMMA InitQueue == Ring!SpscAssumption /\ Ring!Init => Ring!Queue!Init
<1> SUFFICES ASSUME Ring!SpscAssumption, Ring!Init PROVE Ring!Queue!Init
  OBVIOUS
<1>1. Ring!Visible \in Seq(RingValues) /\ Len(Ring!Visible) = Ring!Used - Ring!Skipped
  BY InitRing, VisibleSlots DEF VisibleIsTheRing
<1>2. Ring!Used - Ring!Skipped = 0
  BY DEF Ring!Init, Ring!Used, Ring!Skipped
<1> QED  BY <1>1, <1>2 DEF Ring!Queue!Init, Ring!Init

\* Sequences are equal that have one length and the same elements.
LEMMA SameSequence ==
  ASSUME NEW S, NEW s \in Seq(S), NEW t \in Seq(S), Len(s) = Len(t),
         \A i \in 1 .. Len(s) : s[i] = t[i]
  PROVE  s = t
BY SeqEqual

LEMMA QueueStep ==
  ASSUME Ring!SpscAssumption, RingInv, RingInv', [Ring!Next]_(Ring!vars)
  PROVE  [Ring!Queue!Next]_<<Ring!Visible, ring_out>>
<1> USE DEF Ring!vars, Ring!producer, Ring!consumer
<1>0. /\ Ring!Increment(ring_head) = IF ring_head = RingCapacity - 1 THEN 0 ELSE ring_head + 1
      /\ Ring!Increment(ring_tail) = IF ring_tail = RingCapacity - 1 THEN 0 ELSE ring_tail + 1
  BY NextSlot DEF RingInv, Ring!TypeOK
<1>a. VisibleIsTheRing
  BY VisibleSlots
<1>b. VisibleIsTheRing'
  BY VisibleSlots, PTL
<1>c. /\ ring_head \in Ring!Slots /\ ring_tail \in Ring!Slots /\ RingCapacity \in Nat /\ RingCapacity >= 2
      /\ ring_value \in RingValues /\ ring_buffer \in [Ring!Slots -> RingValues]
  BY DEF RingInv, Ring!TypeOK, Ring!SpscAssumption
<1>1. CASE Ring!StartPush
  <2>1. Ring!Visible' = Ring!Visible /\ ring_out' = ring_out
    BY <1>1 DEF Ring!StartPush, Ring!Visible, Ring!Used, Ring!Skipped
  <2> QED  BY <2>1
<1>2. CASE Ring!WriteSlot
  <2>1. Ring!Used' = Ring!Used /\ Ring!Skipped' = Ring!Skipped /\ ring_tail' = ring_tail /\ ring_out' = ring_out
    BY <1>2 DEF Ring!WriteSlot, Ring!Used, Ring!Skipped
  <2>2. \A i \in 1 .. (Ring!Used - Ring!Skipped) : Around(ring_tail + Ring!Skipped + i - 1) # ring_head
    BY <1>0, <1>2, <1>c DEF Ring!WriteSlot, RingInv, Ring!SidesAreApart, Ring!IsFull, Ring!Used,
                            Ring!Skipped, Around, Ring!Slots
  <2>3. \A i \in 1 .. Len(Ring!Visible) : Ring!Visible'[i] = Ring!Visible[i]
    BY <1>2, <1>a, <1>b, <2>1, <2>2, <1>c DEF Ring!WriteSlot, VisibleIsTheRing, Around
  <2>4. Ring!Visible' = Ring!Visible
    BY <1>a, <1>b, <2>1, <2>3, SameSequence DEF VisibleIsTheRing
  <2> QED  BY <2>1, <2>4
<1>3. CASE Ring!PublishHead
  <2>1. /\ Ring!Used' = Ring!Used + 1 /\ Ring!Skipped' = Ring!Skipped /\ ring_tail' = ring_tail /\ ring_out' = ring_out
        /\ ring_buffer' = ring_buffer /\ ring_value \in RingValues /\ ring_buffer[ring_head] = ring_value
    BY <1>0, <1>3, <1>c DEF Ring!PublishHead, Ring!Used, Ring!Skipped, Ring!Slots, RingInv,
                            Ring!SidesAreApart, Ring!IsFull
  <2>2. Around(ring_tail + Ring!Used) = ring_head /\ (Ring!Skipped = 0 \/ Ring!Skipped = 1)
    BY <1>c DEF Around, Ring!Used, Ring!Skipped, Ring!Slots
  <2>3. Ring!Used - Ring!Skipped \in Nat /\ Ring!Used \in Int
    BY <1>a, <1>c DEF VisibleIsTheRing, Ring!Used, Ring!Slots
  <2>4. /\ Append(Ring!Visible, ring_value) \in Seq(RingValues)
        /\ Len(Append(Ring!Visible, ring_value)) = Ring!Used - Ring!Skipped + 1
        /\ \A i \in 1 .. (Ring!Used - Ring!Skipped) : Append(Ring!Visible, ring_value)[i] = Ring!Visible[i]
        /\ Append(Ring!Visible, ring_value)[Ring!Used - Ring!Skipped + 1] = ring_value
    BY <1>a, <2>1, <2>3, AppendProperties DEF VisibleIsTheRing
  <2>5. ASSUME NEW i \in 1 .. (Ring!Used - Ring!Skipped + 1)
        PROVE  Ring!Visible'[i] = Append(Ring!Visible, ring_value)[i]
    <3>1. Ring!Visible'[i] = ring_buffer[Around(ring_tail + Ring!Skipped + i - 1)]
      BY <1>b, <2>1, <2>2, <2>3 DEF VisibleIsTheRing, Around
    <3>2. CASE i \in 1 .. (Ring!Used - Ring!Skipped)
      BY <1>a, <2>4, <3>1, <3>2 DEF VisibleIsTheRing
    <3>3. CASE i = Ring!Used - Ring!Skipped + 1
      <4>1. ring_tail + Ring!Skipped + i - 1 = ring_tail + Ring!Used
        BY <1>c, <2>2, <2>3, <3>3 DEF Ring!Slots
      <4> QED  BY <2>1, <2>2, <2>4, <3>1, <3>3, <4>1
    <3>4. i \in 1 .. (Ring!Used - Ring!Skipped) \/ i = Ring!Used - Ring!Skipped + 1
      BY ONLY <2>3, i \in 1 .. (Ring!Used - Ring!Skipped + 1)
    <3> QED  BY <3>2, <3>3, <3>4
  <2>6. Len(Ring!Visible') = Ring!Used - Ring!Skipped + 1
    BY <1>b, <2>1, <2>2, <2>3 DEF VisibleIsTheRing
  <2>7. Ring!Visible' = Append(Ring!Visible, ring_value)
    BY <1>b, <2>4, <2>5, <2>6, SameSequence DEF VisibleIsTheRing
  <2>8. Len(Ring!Visible) < RingCapacity - 1
    BY <1>a, <1>b, <1>c, <2>1, <2>2, <2>3 DEF VisibleIsTheRing
  <2> QED  BY <2>1, <2>7, <2>8 DEF Ring!Queue!Next, Ring!Queue!Put
<1>4. CASE Ring!StartPop
  <2>1. Ring!Visible' = Ring!Visible /\ ring_out' = ring_out
    BY <1>4 DEF Ring!StartPop, Ring!Visible, Ring!Used, Ring!Skipped, RingInv, Ring!SidesAreApart
  <2> QED  BY <2>1
<1>5. CASE Ring!ReadSlot
  <2>1. /\ Ring!Used' = Ring!Used /\ Ring!Skipped = 0 /\ Ring!Skipped' = 1 /\ ring_tail' = ring_tail /\ ring_buffer' = ring_buffer
        /\ ring_out' = ring_buffer[ring_tail] /\ Ring!Used \in Nat /\ Ring!Used >= 1
    BY <1>5, <1>c DEF Ring!ReadSlot, Ring!Used, Ring!Skipped, Ring!Slots, RingInv,
                      Ring!SidesAreApart
  <2>2. Ring!Visible \in Seq(RingValues) /\ Len(Ring!Visible) = Ring!Used /\ Ring!Visible # <<>>
    BY <1>a, <2>1 DEF VisibleIsTheRing
  <2>3. Head(Ring!Visible) = ring_out'
    <3>1. Ring!Visible[1] = ring_buffer[Around(ring_tail + 0 + 1 - 1)]
      BY <1>a, <2>1 DEF VisibleIsTheRing
    <3>2. Around(ring_tail + 0 + 1 - 1) = ring_tail
      BY <1>c DEF Around, Ring!Slots
    <3> QED  BY <2>1, <2>2, <3>1, <3>2, HeadTailProperties
  <2>4. /\ Tail(Ring!Visible) \in Seq(RingValues) /\ Len(Tail(Ring!Visible)) = Ring!Used - 1
        /\ \A i \in 1 .. (Ring!Used - 1) : Tail(Ring!Visible)[i] = Ring!Visible[i + 1]
    BY <2>1, <2>2, HeadTailProperties
  <2>5. ASSUME NEW i \in 1 .. (Ring!Used - 1)
        PROVE  Ring!Visible'[i] = Tail(Ring!Visible)[i]
    <3>1. Ring!Visible'[i] = ring_buffer[Around(ring_tail + 1 + i - 1)]
      BY <1>b, <2>1 DEF VisibleIsTheRing, Around
    <3>2. Ring!Visible[i + 1] = ring_buffer[Around(ring_tail + 0 + (i + 1) - 1)]
      BY <1>a, <2>1 DEF VisibleIsTheRing
    <3>3. ring_tail + 1 + i - 1 = ring_tail + 0 + (i + 1) - 1
      BY <1>c, <2>1 DEF Ring!Slots
    <3> QED  BY <2>4, <3>1, <3>2, <3>3
  <2>6. Ring!Visible' = Tail(Ring!Visible)
    BY <1>b, <2>1, <2>4, <2>5, SameSequence DEF VisibleIsTheRing
  <2> QED  BY <2>2, <2>3, <2>6 DEF Ring!Queue!Next, Ring!Queue!Take
<1>6. CASE Ring!FreeSlot
  <2>1. /\ Ring!Used' = Ring!Used - 1 /\ Ring!Skipped = 1 /\ Ring!Skipped' = 0 /\ ring_buffer' = ring_buffer /\ ring_out' = ring_out
        /\ ring_tail' = Around(ring_tail + 1) /\ Ring!Used \in Nat /\ Ring!Used >= 1
    BY <1>0, <1>6, <1>c DEF Ring!FreeSlot, Ring!Used, Ring!Skipped, Ring!Slots, RingInv,
                            Ring!SidesAreApart, Around
  <2>2. ASSUME NEW i \in 1 .. (Ring!Used - 1)
        PROVE  Ring!Visible'[i] = Ring!Visible[i]
    <3>1. Ring!Visible'[i] = ring_buffer[Around(ring_tail' + 0 + i - 1)]
      BY <1>b, <2>1 DEF VisibleIsTheRing, Around
    <3>2. Ring!Visible[i] = ring_buffer[Around(ring_tail + 1 + i - 1)]
      BY <1>a, <2>1 DEF VisibleIsTheRing
    <3>3. Around(ring_tail' + 0 + i - 1) = Around(ring_tail + 1 + i - 1)
      BY <1>c, <1>a, <2>1 DEF Ring!Slots, Around, VisibleIsTheRing
    <3> QED  BY <3>1, <3>2, <3>3
  <2>3. Ring!Visible' = Ring!Visible
    BY <1>a, <1>b, <2>1, <2>2, SameSequence DEF VisibleIsTheRing
  <2> QED  BY <2>1, <2>3
<1>7. CASE UNCHANGED Ring!vars
  BY <1>7 DEF Ring!Visible, Ring!Used, Ring!Skipped
<1> QED  BY <1>1, <1>2, <1>3, <1>4, <1>5, <1>6, <1>7 DEF Ring!Next

\* The ring implements a bounded queue of one value less than it has slots: values
\* come out in the order in which they went in, each once, although the value is
\* copied out of its slot before the slot is given back.
LEMMA RingImplementsQueue == Ring!SpscAssumption => (Ring!Spec => Ring!RingIsAQueue)
<1> SUFFICES ASSUME Ring!SpscAssumption PROVE Ring!Spec => Ring!Queue!Spec
  BY DEF Ring!RingIsAQueue
<1>1. Ring!Init => RingInv
  BY InitRing
<1>2. RingInv /\ [Ring!Next]_(Ring!vars) => RingInv'
  BY RingStep
<1>3. Ring!Init => Ring!Queue!Init
  BY InitQueue
<1>4. RingInv /\ RingInv' /\ [Ring!Next]_(Ring!vars) => [Ring!Queue!Next]_<<Ring!Visible, ring_out>>
  BY QueueStep
<1> QED  BY <1>1, <1>2, <1>3, <1>4, PTL DEF Ring!Spec, Ring!Queue!Spec
-----------------------------------------------------------------------------
\* The sets of the instance are the sets of this module.
LEMMA PoolSets ==
  /\ \A S : Pool!IsFiniteSet(S) <=> IsFiniteSet(S)
  /\ \A S : Pool!Cardinality(S) = Cardinality(S)
BY DEF Pool!IsFiniteSet, IsFiniteSet, Pool!Cardinality, Cardinality

LEMMA PoolIsFinite == Pool!PoolAssumption => IsFiniteSet(PoolThreads)
BY PoolSets DEF Pool!PoolAssumption

Places == {"idle", "creating", "waiting", "woken", "using", "notifying"}

Count(f, P) == Cardinality({u \in PoolThreads : f[u] \in P})

LEMMA CountType ==
  ASSUME IsFiniteSet(PoolThreads), NEW f, NEW P
  PROVE  Count(f, P) \in Nat
<1>1. {u \in PoolThreads : f[u] \in P} \in SUBSET PoolThreads
  OBVIOUS
<1> QED  BY <1>1, FS_Subset, FS_CardinalityType DEF Count

\* A thread that moves counts where it is, and no longer where it was.
LEMMA CountMoved ==
  ASSUME IsFiniteSet(PoolThreads), NEW f, NEW g, NEW t \in PoolThreads, NEW P,
         \A u \in PoolThreads \ {t} : g[u] = f[u]
  PROVE  Count(g, P) = Count(f, P) + (IF g[t] \in P THEN 1 ELSE 0) - (IF f[t] \in P THEN 1 ELSE 0)
<1> DEFINE S == {u \in PoolThreads : f[u] \in P}
<1> DEFINE T == {u \in PoolThreads : g[u] \in P}
<1>1. IsFiniteSet(S) /\ Cardinality(S) \in Nat
  BY FS_Subset, FS_CardinalityType, S \in SUBSET PoolThreads
<1>2. T = IF g[t] \in P THEN S \cup {t} ELSE S \ {t}
  OBVIOUS
<1>3. t \in S <=> f[t] \in P
  OBVIOUS
<1>4. Count(g, P) = Cardinality(T) /\ Count(f, P) = Cardinality(S)
  BY DEF Count
<1>5. /\ Cardinality(S \cup {t}) = IF t \in S THEN Cardinality(S) ELSE Cardinality(S) + 1
      /\ Cardinality(S \ {t}) = IF t \in S THEN Cardinality(S) - 1 ELSE Cardinality(S)
  BY <1>1, FS_AddElement, FS_RemoveElement
<1> HIDE DEF S, T
<1>6. CASE g[t] \in P
  BY <1>1, <1>2, <1>3, <1>4, <1>5, <1>6
<1>7. CASE g[t] \notin P
  BY <1>1, <1>2, <1>3, <1>4, <1>5, <1>7
<1> QED  BY <1>6, <1>7

\* When one thread leaves a group and another enters it, the count is the same.
LEMMA TwoMoved ==
  ASSUME IsFiniteSet(PoolThreads), NEW f, NEW h, NEW g, NEW t \in PoolThreads, NEW w \in PoolThreads, NEW P,
         \A u \in PoolThreads \ {t} : h[u] = f[u], \A u \in PoolThreads \ {w} : g[u] = h[u],
         f[t] \in P, h[t] \notin P, h[w] \notin P, g[w] \in P
  PROVE  Count(g, P) = Count(f, P)
<1>1. Count(f, P) \in Nat /\ Count(h, P) \in Nat /\ Count(g, P) \in Nat
  BY CountType
<1>2. Count(h, P) = Count(f, P) + 0 - 1
  <2>1. Count(h, P) = Count(f, P) + (IF h[t] \in P THEN 1 ELSE 0) - (IF f[t] \in P THEN 1 ELSE 0)
    BY CountMoved
  <2> QED  BY <2>1
<1>3. Count(g, P) = Count(h, P) + 1 - 0
  <2>1. Count(g, P) = Count(h, P) + (IF g[w] \in P THEN 1 ELSE 0) - (IF h[w] \in P THEN 1 ELSE 0)
    BY CountMoved
  <2> QED  BY <2>1
<1> QED  BY <1>1, <1>2, <1>3

(***************************************************************************)
(* The parts of ConnectionsAreOwned: who owns what, and how many there are.*)
(***************************************************************************)
Owned ==
  /\ \A t \in Pool!At({"using"}) : pool_held[t] # 0
  /\ \A t, u \in Pool!At({"using"}) : pool_held[t] = pool_held[u] => t = u
  /\ \A i, j \in DOMAIN pool_pool : pool_pool[i] = pool_pool[j] => i = j
  /\ \A t \in Pool!At({"using"}), i \in DOMAIN pool_pool : pool_held[t] # pool_pool[i]

SlotsCounted == pool_total = Len(pool_pool) + Count(pool_at, {"using", "creating"}) + pool_lost

Announced == Pool!At({"waiting"}) # {} => Len(pool_pool) <= Count(pool_at, {"woken", "notifying"})


PoolInv == Pool!TypeOK /\ Owned /\ SlotsCounted /\ Announced

LEMMA InitPool == Pool!PoolAssumption /\ Pool!Init => PoolInv
<1> SUFFICES ASSUME Pool!PoolAssumption, Pool!Init PROVE PoolInv
  OBVIOUS
<1>1. Pool!TypeOK
  BY DEF Pool!PoolAssumption, Pool!Init, Pool!TypeOK
<1>2. Owned
  BY DEF Pool!Init, Owned, Pool!At
<1>3. Count(pool_at, {"using", "creating"}) = 0
  <2>1. {u \in PoolThreads : pool_at[u] \in {"using", "creating"}} = {}
    BY DEF Pool!Init
  <2> QED  BY <2>1, FS_EmptySet DEF Count
<1>4. SlotsCounted
  BY <1>3 DEF Pool!Init, SlotsCounted
<1>5. Announced
  BY DEF Pool!Init, Announced, Pool!At
<1> QED  BY <1>1, <1>2, <1>4, <1>5 DEF PoolInv

LEMMA TypeStep ==
  ASSUME Pool!PoolAssumption, Pool!TypeOK, Owned, NEW t \in PoolThreads,
         Pool!Acquire(t) \/ Pool!Step(t) \/ Pool!HandlerThrows(t) \/ Pool!SpuriousWakeup(t)
  PROVE  Pool!TypeOK'
<1> USE DEF Pool!PoolAssumption, Pool!TypeOK
<1>0. ASSUME pool_pool # <<>>, Pool!Take(t), pool_opened' = pool_opened
      PROVE  /\ pool_pool' \in Seq(1 .. pool_opened) /\ pool_held' \in [PoolThreads -> 0 .. pool_opened]
             /\ pool_at' \in [PoolThreads -> Places]
  <2>1. Head(pool_pool) \in 1 .. pool_opened /\ Tail(pool_pool) \in Seq(1 .. pool_opened)
    BY <1>0, HeadTailProperties
  <2> QED  BY <1>0, <2>1 DEF Pool!Take, Places
<1>1. CASE Pool!Acquire(t)
  <2>1. /\ pool_queries' \in [PoolThreads -> 0 .. PoolQueries]
        /\ pool_opened' = pool_opened /\ pool_lost' = pool_lost
    BY <1>1 DEF Pool!Acquire
  <2>2. CASE pool_pool # <<>> /\ Pool!Take(t)
    BY <1>0, <2>1, <2>2 DEF Pool!Take, Places
  <2>3. ASSUME pool_total < PoolSize, pool_total' = pool_total + 1, pool_at' = [pool_at EXCEPT ![t] = "creating"],
               UNCHANGED <<pool_pool, pool_held>>
        PROVE  Pool!TypeOK'
    BY <2>1, <2>3
  <2>4. ASSUME pool_at' = [pool_at EXCEPT ![t] = "waiting"], UNCHANGED <<pool_pool, pool_total, pool_held>>
        PROVE  Pool!TypeOK'
    BY <2>1, <2>4
  <2> QED  BY <1>1, <2>2, <2>3, <2>4 DEF Pool!Acquire
<1>2. CASE Pool!Create(t)
  <2>1. pool_opened' \in Nat /\ pool_opened' >= pool_opened /\ pool_lost' \in Nat /\ 0 .. pool_opened \subseteq 0 .. pool_opened'
    BY <1>2 DEF Pool!Create
  <2>2. pool_pool' \in Seq(1 .. pool_opened')
    BY <1>2, <2>1, SeqMonotonic DEF Pool!Create
  <2>3. pool_held' \in [PoolThreads -> 0 .. pool_opened']
    <3>1. pool_held \in [PoolThreads -> 0 .. pool_opened']
      BY <2>1
    <3>2. pool_held' = pool_held \/ (pool_opened' = pool_opened + 1 /\ pool_held' = [pool_held EXCEPT ![t] = pool_opened'])
      BY <1>2 DEF Pool!Create
    <3> QED  BY <2>1, <3>1, <3>2, SMTT(20)
  <2>4. /\ pool_at' \in [PoolThreads -> {"idle", "creating", "waiting", "woken", "using", "notifying"}]
        /\ pool_total' \in 0 .. PoolSize /\ pool_queries' \in [PoolThreads -> 0 .. PoolQueries]
    BY <1>2 DEF Pool!Create
  <2> QED  BY <2>1, <2>2, <2>3, <2>4
<1>3. CASE Pool!Retest(t)
  <2>1. CASE pool_pool # <<>>
    BY <1>0, <1>3, <2>1 DEF Pool!Retest, Pool!Take, Places
  <2>2. CASE pool_pool = <<>>
    BY <1>3, <2>2 DEF Pool!Retest
  <2> QED  BY <2>1, <2>2
<1>4. CASE Pool!Release(t)
  <2>1. pool_held[t] \in 1 .. pool_opened
    BY <1>4 DEF Pool!Release, Owned, Pool!At
  <2>2. pool_pool' \in Seq(1 .. pool_opened)
    BY <1>4, <2>1, AppendProperties DEF Pool!Release
  <2> QED  BY <1>4, <2>2 DEF Pool!Release
<1>5. CASE Pool!NotifyOne(t)
  BY <1>5 DEF Pool!NotifyOne
<1>6. CASE Pool!HandlerThrows(t)
  BY <1>6 DEF Pool!HandlerThrows
<1>7. CASE Pool!SpuriousWakeup(t)
  BY <1>7 DEF Pool!SpuriousWakeup
<1> QED  BY <1>1, <1>2, <1>3, <1>4, <1>5, <1>6, <1>7 DEF Pool!Step

LEMMA OwnedStep ==
  ASSUME Pool!PoolAssumption, Pool!TypeOK, Owned, NEW t \in PoolThreads,
         Pool!Acquire(t) \/ Pool!Step(t) \/ Pool!HandlerThrows(t) \/ Pool!SpuriousWakeup(t)
  PROVE  Owned'
<1> USE DEF Pool!TypeOK, Owned, Pool!At
\* The connection that is taken was in the pool once, and the rest still is.
<1>0. ASSUME pool_pool # <<>>, Pool!Take(t), pool_at[t] # "using" PROVE Owned'
  <2>1. /\ pool_pool \in Seq(1 .. pool_opened) /\ Len(Tail(pool_pool)) = Len(pool_pool) - 1 /\ Head(pool_pool) = pool_pool[1]
        /\ \A i \in 1 .. Len(pool_pool) - 1 : Tail(pool_pool)[i] = pool_pool[i + 1]
        /\ Tail(pool_pool) \in Seq(1 .. pool_opened)
    BY <1>0, HeadTailProperties
  <2>2. /\ 1 \in DOMAIN pool_pool /\ Len(pool_pool) \in Nat /\ DOMAIN Tail(pool_pool) = 1 .. Len(pool_pool) - 1
        /\ pool_pool[1] # 0
        /\ \A i \in DOMAIN Tail(pool_pool) : i + 1 \in DOMAIN pool_pool /\ i + 1 # 1
    BY <1>0, <2>1
  <2>3. \A u \in PoolThreads : pool_at'[u] = "using" =>
          \/ u = t /\ pool_held'[u] = pool_pool[1]
          \/ u # t /\ pool_at[u] = "using" /\ pool_held'[u] = pool_held[u]
    BY <1>0, <2>1 DEF Pool!Take
  <2>4. pool_pool' = Tail(pool_pool) /\ \A i \in DOMAIN pool_pool' : pool_pool'[i] = pool_pool[i + 1]
    BY <1>0, <2>1, <2>2 DEF Pool!Take
  <2>5. \A i, j \in DOMAIN pool_pool' : pool_pool'[i] = pool_pool'[j] => i = j
    BY <2>1, <2>2, <2>4
  <2>6. \A u \in PoolThreads, i \in DOMAIN pool_pool' : pool_at'[u] = "using" => pool_held'[u] # pool_pool'[i]
    BY <2>2, <2>3, <2>4
  <2>7. \A u, w \in PoolThreads :
          pool_at'[u] = "using" /\ pool_at'[w] = "using" /\ pool_held'[u] = pool_held'[w] => u = w
    BY <2>2, <2>3
  <2>8. \A u \in PoolThreads : pool_at'[u] = "using" => pool_held'[u] # 0
    BY <2>2, <2>3
  <2> QED  BY <2>5, <2>6, <2>7, <2>8
<1>1. CASE Pool!Acquire(t)
  BY <1>0, <1>1 DEF Pool!Acquire
<1>2. CASE Pool!Create(t)
  <2>1. pool_opened + 1 # 0 /\ \A i \in DOMAIN pool_pool : pool_pool[i] # pool_opened + 1
    OBVIOUS
  <2>2. \A u \in PoolThreads : pool_held[u] # pool_opened + 1
    OBVIOUS
  <2>3. pool_pool' = pool_pool
    BY <1>2 DEF Pool!Create
  <2>4. ASSUME pool_held' = [pool_held EXCEPT ![t] = pool_opened + 1], pool_at' = [pool_at EXCEPT ![t] = "using"]
        PROVE  Owned'
    <3>1. \A u \in PoolThreads :
            /\ u = t => pool_held'[u] = pool_opened + 1
            /\ u # t => pool_held'[u] = pool_held[u] /\ pool_at'[u] = pool_at[u]
      BY <2>4
    <3>2. pool_opened + 1 # 0
      BY <2>1
    <3> QED  BY ONLY <2>1, <2>2, <2>3, <3>1, <3>2, Owned DEF Owned, Pool!At
  <2>5. ASSUME pool_held' = pool_held, pool_at' = [pool_at EXCEPT ![t] = "idle"]
        PROVE  Owned'
    BY <2>3, <2>5
  <2> QED  BY <1>2, <2>4, <2>5 DEF Pool!Create
<1>3. CASE Pool!Retest(t)
  BY <1>0, <1>3 DEF Pool!Retest
<1>4. CASE Pool!Release(t)
  <2>1. /\ DOMAIN pool_pool' = 1 .. (Len(pool_pool) + 1) /\ pool_pool'[Len(pool_pool) + 1] = pool_held[t]
        /\ \A i \in DOMAIN pool_pool : pool_pool'[i] = pool_pool[i]
        /\ DOMAIN pool_pool = 1 .. Len(pool_pool) /\ Len(pool_pool) \in Nat
    BY <1>4, AppendProperties DEF Pool!Release
  <2>2. /\ pool_at[t] = "using" /\ pool_at' = [pool_at EXCEPT ![t] = "notifying"]
        /\ pool_held' = [pool_held EXCEPT ![t] = 0]
    BY <1>4 DEF Pool!Release
  <2>3. \A u \in PoolThreads : pool_at'[u] = "using" => u # t /\ pool_at[u] = "using" /\ pool_held'[u] = pool_held[u]
    BY <2>2
  <2>4. \A i \in DOMAIN pool_pool' : i \in DOMAIN pool_pool \/ i = Len(pool_pool) + 1
    BY <2>1
  <2>5. \A i, j \in DOMAIN pool_pool' : pool_pool'[i] = pool_pool'[j] => i = j
    BY <2>1, <2>2, <2>4
  <2>6. ASSUME NEW u \in PoolThreads, NEW i \in DOMAIN pool_pool', pool_at'[u] = "using"
        PROVE  pool_held'[u] # pool_pool'[i]
    <3>1. u # t /\ pool_at[u] = "using" /\ pool_held'[u] = pool_held[u]
      BY <2>3, <2>6
    <3>2. CASE i \in DOMAIN pool_pool
      BY <2>1, <3>1, <3>2
    <3>3. CASE i = Len(pool_pool) + 1
      BY <2>1, <2>2, <3>1, <3>3
    <3> QED  BY <2>4, <3>2, <3>3
  <2> QED  BY <2>3, <2>5, <2>6
<1>5. CASE Pool!NotifyOne(t)
  BY <1>5, ZenonT(40) DEF Pool!NotifyOne
<1>6. CASE Pool!HandlerThrows(t)
  BY <1>6 DEF Pool!HandlerThrows
<1>7. CASE Pool!SpuriousWakeup(t)
  BY <1>7 DEF Pool!SpuriousWakeup
<1> QED  BY <1>1, <1>2, <1>3, <1>4, <1>5, <1>6, <1>7 DEF Pool!Step

ThreadMoves(t, x) == pool_at' = [pool_at EXCEPT ![t] = x]

\* What a move from one place to another does to the counts.
LEMMA ThreadMoved ==
  ASSUME Pool!PoolAssumption, Pool!TypeOK, NEW t \in PoolThreads, NEW x,
         ThreadMoves(t, x), NEW P
  PROVE  Count(pool_at', P)
           = Count(pool_at, P) + (IF x \in P THEN 1 ELSE 0) - (IF pool_at[t] \in P THEN 1 ELSE 0)
<1>1. IsFiniteSet(PoolThreads) /\ pool_at'[t] = x /\ \A u \in PoolThreads \ {t} : pool_at'[u] = pool_at[u]
  BY PoolIsFinite DEF Pool!TypeOK, ThreadMoves
<1>2. Count(pool_at', P)
        = Count(pool_at, P) + (IF pool_at'[t] \in P THEN 1 ELSE 0) - (IF pool_at[t] \in P THEN 1 ELSE 0)
  BY ONLY <1>1, CountMoved, t \in PoolThreads, ZenonT(60)
<1> QED  BY <1>1, <1>2

LEMMA CountedStep ==
  ASSUME Pool!PoolAssumption, Pool!TypeOK, SlotsCounted, NEW t \in PoolThreads,
         Pool!Acquire(t) \/ Pool!Step(t) \/ Pool!HandlerThrows(t) \/ Pool!SpuriousWakeup(t)
  PROVE  SlotsCounted'
<1> DEFINE Own == {"using", "creating"}
<1> USE DEF SlotsCounted
<1>0. Len(pool_pool) \in Nat /\ Count(pool_at, Own) \in Nat /\ pool_lost \in Nat /\ pool_total \in Nat
  BY CountType, PoolIsFinite DEF Pool!TypeOK
<1>t. ASSUME pool_pool # <<>>, Pool!Take(t), pool_at[t] \notin Own, pool_lost' = pool_lost PROVE SlotsCounted'
  <2>1. Len(pool_pool') = Len(pool_pool) - 1
    BY <1>t, HeadTailProperties DEF Pool!Take, Pool!TypeOK
  <2>2. Count(pool_at', Own) = Count(pool_at, Own) + 1
    <3>1. ThreadMoves(t, "using") /\ pool_at[t] \notin Own
      BY <1>t DEF ThreadMoves, Pool!Take
    <3> QED  BY <1>0, <3>1, ThreadMoved
  <2> QED  BY <1>0, <1>t, <2>1, <2>2 DEF Pool!Take
<1>1. CASE Pool!Acquire(t)
  <2>1. pool_at[t] = "idle" /\ pool_lost' = pool_lost
    BY <1>1 DEF Pool!Acquire
  <2>2. ASSUME pool_total' = pool_total + 1, pool_at' = [pool_at EXCEPT ![t] = "creating"], pool_pool' = pool_pool
        PROVE  SlotsCounted'
    <3>1. Count(pool_at', Own) = Count(pool_at, Own) + 1
      <4>1. ThreadMoves(t, "creating") /\ pool_at[t] = "idle"
        BY <2>1, <2>2 DEF ThreadMoves
      <4> QED  BY <1>0, <4>1, ThreadMoved
    <3> QED  BY <1>0, <2>1, <2>2, <3>1
  <2>3. ASSUME pool_at' = [pool_at EXCEPT ![t] = "waiting"], pool_total' = pool_total, pool_pool' = pool_pool
        PROVE  SlotsCounted'
    <3>1. Count(pool_at', Own) = Count(pool_at, Own)
      <4>1. ThreadMoves(t, "waiting") /\ pool_at[t] = "idle"
        BY <2>1, <2>3 DEF ThreadMoves
      <4> QED  BY <1>0, <4>1, ThreadMoved
    <3> QED  BY <1>0, <2>1, <2>3, <3>1
  <2> QED  BY <1>1, <1>t, <2>1, <2>2, <2>3 DEF Pool!Acquire
<1>2. CASE Pool!Create(t)
  <2>1. pool_at[t] = "creating" /\ pool_total' = pool_total /\ pool_pool' = pool_pool
    BY <1>2 DEF Pool!Create
  <2>2. ASSUME pool_at' = [pool_at EXCEPT ![t] = "using"], pool_lost' = pool_lost PROVE SlotsCounted'
    <3>1. Count(pool_at', Own) = Count(pool_at, Own)
      <4>1. ThreadMoves(t, "using") /\ pool_at[t] = "creating"
        BY <2>1, <2>2 DEF ThreadMoves
      <4> QED  BY <1>0, <4>1, ThreadMoved
    <3> QED  BY <2>1, <2>2, <3>1
  <2>3. ASSUME pool_at' = [pool_at EXCEPT ![t] = "idle"], pool_lost' = pool_lost + 1 PROVE SlotsCounted'
    <3>1. Count(pool_at', Own) = Count(pool_at, Own) - 1
      <4>1. ThreadMoves(t, "idle") /\ pool_at[t] = "creating"
        BY <2>1, <2>3 DEF ThreadMoves
      <4> QED  BY <1>0, <4>1, ThreadMoved
    <3> QED  BY <1>0, <2>1, <2>3, <3>1
  <2> QED  BY <1>2, <2>2, <2>3 DEF Pool!Create
<1>3. CASE Pool!Retest(t)
  <2>1. pool_at[t] = "woken" /\ pool_lost' = pool_lost
    BY <1>3 DEF Pool!Retest
  <2>2. ASSUME pool_at' = [pool_at EXCEPT ![t] = "waiting"], UNCHANGED <<pool_pool, pool_total>> PROVE SlotsCounted'
    <3>1. Count(pool_at', Own) = Count(pool_at, Own)
      <4>1. ThreadMoves(t, "waiting") /\ pool_at[t] = "woken"
        BY <2>1, <2>2 DEF ThreadMoves
      <4> QED  BY <1>0, <4>1, ThreadMoved
    <3> QED  BY <2>1, <2>2, <3>1
  <2> QED  BY <1>3, <1>t, <2>1, <2>2 DEF Pool!Retest
<1>4. CASE Pool!Release(t)
  <2>1. Len(pool_pool') = Len(pool_pool) + 1
    BY <1>4, AppendProperties DEF Pool!Release, Pool!TypeOK
  <2>2. Count(pool_at', Own) = Count(pool_at, Own) - 1
    <3>1. ThreadMoves(t, "notifying") /\ pool_at[t] = "using"
      BY <1>4 DEF ThreadMoves, Pool!Release
    <3> QED  BY <1>0, <3>1, ThreadMoved
  <2> QED  BY <1>0, <1>4, <2>1, <2>2 DEF Pool!Release
<1>5. CASE Pool!NotifyOne(t)
  <2>1. pool_at[t] = "notifying" /\ UNCHANGED <<pool_pool, pool_total, pool_lost>>
    BY <1>5 DEF Pool!NotifyOne
  <2>2. Count(pool_at', Own) = Count(pool_at, Own)
    <3>1. {u \in PoolThreads : pool_at'[u] \in Own} = {u \in PoolThreads : pool_at[u] \in Own}
      BY <1>5 DEF Pool!NotifyOne, Pool!TypeOK
    <3> QED  BY <3>1 DEF Count
  <2> QED  BY <2>1, <2>2
<1>6. CASE Pool!HandlerThrows(t)
  <2>1. Count(pool_at', Own) = Count(pool_at, Own) - 1
    <3>1. ThreadMoves(t, "idle") /\ pool_at[t] = "using"
      BY <1>6 DEF ThreadMoves, Pool!HandlerThrows
    <3> QED  BY <1>0, <3>1, ThreadMoved
  <2> QED  BY <1>0, <1>6, <2>1 DEF Pool!HandlerThrows
<1>7. CASE Pool!SpuriousWakeup(t)
  <2>1. Count(pool_at', Own) = Count(pool_at, Own)
    <3>1. ThreadMoves(t, "woken") /\ pool_at[t] = "waiting"
      BY <1>7 DEF ThreadMoves, Pool!SpuriousWakeup
    <3> QED  BY <1>0, <3>1, ThreadMoved
  <2> QED  BY <1>7, <2>1 DEF Pool!SpuriousWakeup
<1> QED  BY <1>1, <1>2, <1>3, <1>4, <1>5, <1>6, <1>7 DEF Pool!Step

LEMMA AnnouncedStep ==
  ASSUME Pool!PoolAssumption, Pool!TypeOK, Announced, NEW t \in PoolThreads,
         Pool!Acquire(t) \/ Pool!Step(t) \/ Pool!HandlerThrows(t) \/ Pool!SpuriousWakeup(t)
  PROVE  Announced'
<1> DEFINE Up == {"woken", "notifying"}
<1> USE DEF Announced
<1>0. Len(pool_pool) \in Nat /\ Count(pool_at, Up) \in Nat
  BY CountType, PoolIsFinite DEF Pool!TypeOK
\* Nobody begins to wait.
<1>w. ASSUME NEW x, ThreadMoves(t, x), x # "waiting" PROVE Pool!At({"waiting"})' # {} => Pool!At({"waiting"}) # {}
  <2>1. \A u \in PoolThreads : pool_at'[u] = "waiting" => pool_at[u] = "waiting"
    BY <1>w DEF ThreadMoves, Pool!TypeOK
  <2> QED  BY <2>1 DEF Pool!At
<1>t. ASSUME pool_pool # <<>>, Pool!Take(t), pool_at[t] \in {"idle", "woken"} PROVE Announced'
  <2>1. Len(pool_pool') = Len(pool_pool) - 1 /\ ThreadMoves(t, "using")
    BY <1>t, HeadTailProperties DEF Pool!Take, Pool!TypeOK, ThreadMoves
  <2>2. Count(pool_at', Up) >= Count(pool_at, Up) - 1
    BY <1>0, <2>1, ThreadMoved
  <2>3. Count(pool_at', Up) \in Int /\ (Pool!At({"waiting"})' # {} => Pool!At({"waiting"}) # {})
    BY <1>0, <1>w, <2>1, ThreadMoved
  <2> QED  BY <1>0, <2>1, <2>2, <2>3
<1>e. ASSUME pool_pool = <<>>, pool_pool' = <<>>, NEW x, ThreadMoves(t, x) PROVE Announced'
  <2>1. Count(pool_at', Up) \in Nat
    BY CountType, PoolIsFinite
  <2>2. Len(pool_pool') = 0
    BY <1>e
  <2> QED  BY <2>1, <2>2
\* What leaves the pool as it is and no announcement out.
<1>s. ASSUME NEW x, ThreadMoves(t, x), x # "waiting", pool_pool' = pool_pool, pool_at[t] \notin Up PROVE Announced'
  <2>1. Count(pool_at', Up) >= Count(pool_at, Up) /\ Count(pool_at', Up) \in Int
    BY <1>0, <1>s, ThreadMoved
  <2> QED  BY <1>0, <1>s, <1>w, <2>1
<1>1. CASE Pool!Acquire(t)
  <2>1. pool_at[t] = "idle"
    BY <1>1 DEF Pool!Acquire
  <2> QED  BY <1>1, <1>t, <1>e, <2>1 DEF Pool!Acquire, ThreadMoves
<1>2. CASE Pool!Create(t)
  <2>1. pool_at[t] \notin Up /\ pool_pool' = pool_pool /\ (ThreadMoves(t, "using") \/ ThreadMoves(t, "idle"))
    BY <1>2 DEF Pool!Create, ThreadMoves
  <2> QED  BY <1>s, <2>1
<1>3. CASE Pool!Retest(t)
  <2>1. pool_at[t] = "woken"
    BY <1>3 DEF Pool!Retest
  <2> QED  BY <1>3, <1>t, <1>e, <2>1 DEF Pool!Retest, ThreadMoves
<1>4. CASE Pool!Release(t)
  <2>1. Len(pool_pool') = Len(pool_pool) + 1
    BY <1>4, AppendProperties DEF Pool!Release, Pool!TypeOK
  <2>2. pool_at[t] = "using" /\ ThreadMoves(t, "notifying")
    BY <1>4 DEF Pool!Release, ThreadMoves
  <2>3. Count(pool_at', Up) = Count(pool_at, Up) + 1 /\ (Pool!At({"waiting"})' # {} => Pool!At({"waiting"}) # {})
    BY <1>0, <1>w, <2>2, ThreadMoved
  <2> QED  BY <1>0, <2>1, <2>3
\* Of two threads, the one that wakes another is replaced by it.
<1>5. CASE Pool!NotifyOne(t)
  <2>1. pool_at[t] = "notifying" /\ pool_pool' = pool_pool
    BY <1>5 DEF Pool!NotifyOne
  <2>2. CASE Pool!At({"waiting"}) = {}
    <3>1. ThreadMoves(t, "idle")
      BY <1>5, <2>2 DEF Pool!NotifyOne, Pool!At, ThreadMoves
    <3> QED  BY <1>w, <2>2, <3>1
  <2>3. CASE Pool!At({"waiting"}) # {}
    <3>1. PICK w \in PoolThreads : pool_at[w] = "waiting" /\ pool_at' = [pool_at EXCEPT ![t] = "idle", ![w] = "woken"]
      BY <1>5, <2>3 DEF Pool!NotifyOne, Pool!At
    <3> DEFINE half == [pool_at EXCEPT ![t] = "idle"]
    <3>2. /\ \A u \in PoolThreads \ {t} : half[u] = pool_at[u]
          /\ \A u \in PoolThreads \ {w} : pool_at'[u] = half[u]
          /\ half[t] \notin Up /\ pool_at[t] \in Up /\ pool_at'[w] \in Up /\ half[w] \notin Up
      BY <2>1, <3>1 DEF Pool!TypeOK
    <3> HIDE DEF half
    <3>3. IsFiniteSet(PoolThreads) /\ w \in PoolThreads
      BY <3>1, PoolIsFinite
    <3>6. Count(pool_at', Up) = Count(pool_at, Up)
      BY ONLY <3>2, <3>3, TwoMoved, t \in PoolThreads
    <3> QED  BY <1>0, <2>1, <2>3, <3>6
  <2> QED  BY <2>2, <2>3
<1>6. CASE Pool!HandlerThrows(t)
  <2>1. pool_at[t] \notin Up /\ pool_pool' = pool_pool /\ ThreadMoves(t, "idle")
    BY <1>6 DEF Pool!HandlerThrows, ThreadMoves
  <2> QED  BY <1>s, <2>1
<1>7. CASE Pool!SpuriousWakeup(t)
  <2>1. pool_at[t] \notin Up /\ pool_pool' = pool_pool /\ ThreadMoves(t, "woken")
    BY <1>7 DEF Pool!SpuriousWakeup, ThreadMoves
  <2> QED  BY <1>s, <2>1
<1> QED  BY <1>1, <1>2, <1>3, <1>4, <1>5, <1>6, <1>7 DEF Pool!Step

LEMMA PoolStep == Pool!PoolAssumption /\ PoolInv /\ [Pool!Next]_(Pool!vars) => PoolInv'
<1> SUFFICES ASSUME Pool!PoolAssumption, PoolInv, [Pool!Next]_(Pool!vars) PROVE PoolInv'
  OBVIOUS
<1>1. ASSUME NEW t \in PoolThreads, Pool!Acquire(t) \/ Pool!Step(t) \/ Pool!HandlerThrows(t) \/ Pool!SpuriousWakeup(t)
      PROVE  PoolInv'
  BY <1>1, TypeStep, OwnedStep, CountedStep, AnnouncedStep DEF PoolInv
<1>2. CASE UNCHANGED Pool!vars
  BY <1>2 DEF Pool!vars, PoolInv, Pool!TypeOK, Owned, SlotsCounted, Announced, Pool!At, Count
<1> QED  BY <1>1, <1>2 DEF Pool!Next

LEMMA PoolIsKept == Pool!PoolAssumption => (Pool!Spec => []PoolInv)
<1> SUFFICES ASSUME Pool!PoolAssumption PROVE Pool!Spec => []PoolInv
  OBVIOUS
<1>1. Pool!Init => PoolInv
  BY InitPool
<1>2. PoolInv /\ [Pool!Next]_(Pool!vars) => PoolInv'
  BY PoolStep
<1> QED  BY <1>1, <1>2, PTL DEF Pool!Spec

\* No connection is used by two queries or lies in the pool while it is used, and
\* total_ counts the pool, the connections in use or being made, and those lost.
LEMMA PoolConnectionsAreOwned == Pool!PoolAssumption => (Pool!Spec => []Pool!ConnectionsAreOwned)
<1>1. PoolInv => Pool!ConnectionsAreOwned
  <2>1. Count(pool_at, {"using", "creating"}) = Cardinality(Pool!At({"using", "creating"}))
    BY DEF Count, Pool!At
  <2> QED  BY <2>1, PoolSets DEF PoolInv, Owned, SlotsCounted, Pool!ConnectionsAreOwned
<1> QED  BY <1>1, PoolIsKept, PTL

\* Nobody sleeps beside a free connection that was not announced, although the
\* notification comes after the lock was given back.
LEMMA PoolFreeIsAnnounced == Pool!PoolAssumption => (Pool!Spec => []Pool!FreeIsAnnounced)
<1>1. PoolInv => Pool!FreeIsAnnounced
  <2>1. Count(pool_at, {"woken", "notifying"}) = Cardinality(Pool!At({"woken", "notifying"}))
    BY DEF Count, Pool!At
  <2> QED  BY <2>1, PoolSets DEF PoolInv, Announced, Pool!FreeIsAnnounced
<1> QED  BY <1>1, PoolIsKept, PTL
-----------------------------------------------------------------------------
\* The sets of the instance are the sets of this module.
LEMMA PluginSets ==
  /\ \A S : Plugins!IsFiniteSet(S) <=> IsFiniteSet(S)
  /\ \A S : Plugins!Cardinality(S) = Cardinality(S)
BY DEF Plugins!IsFiniteSet, IsFiniteSet, Plugins!Cardinality, Cardinality

\* Whose record is of library l, and who has it open or is about to close it.
Records(l) == {n \in DOMAIN plugins_dynamic : plugins_dynamic[n] = l}
Holders(l) == {t \in PluginThreads : plugins_doing[t].op \in {"load", "close"} /\ plugins_doing[t].library = l}

\* The tables; a library's factory is entered under its own plugin only.
Tables ==
  /\ IsFiniteSet(DOMAIN plugins_dynamic)
  /\ \A n \in DOMAIN plugins_dynamic : plugins_dynamic[n] \in Libraries /\ PluginOf[plugins_dynamic[n]].name = n
  /\ \A p \in DOMAIN plugins_factories : plugins_factories[p] # Plugins!Builtin =>
       /\ plugins_factories[p] \in Libraries /\ p = PluginOf[plugins_factories[p]]
       /\ p.name \in DOMAIN plugins_dynamic /\ plugins_dynamic[p.name] = plugins_factories[p]
  /\ \A n \in DOMAIN plugins_dynamic : PluginOf[plugins_dynamic[n]] \in DOMAIN plugins_factories

Opens ==
  /\ plugins_opens \in [Libraries -> Int]
  /\ plugins_doing \in [PluginThreads -> Plugins!Doing]

RegistryInv == Opens /\ Tables /\ Plugins!LibrariesAreReleased

LEMMA ReleasedByCount ==
  Plugins!LibrariesAreReleased <=>
    \A l \in Libraries : plugins_opens[l] = Cardinality(Records(l)) + Cardinality(Holders(l))
BY PluginSets DEF Plugins!LibrariesAreReleased, Records, Holders

LEMMA Finite ==
  ASSUME Plugins!PluginAssumption, Tables, NEW l
  PROVE  /\ IsFiniteSet(Records(l)) /\ Cardinality(Records(l)) \in Nat
         /\ IsFiniteSet(Holders(l)) /\ Cardinality(Holders(l)) \in Nat
<1>1. Records(l) \in SUBSET DOMAIN plugins_dynamic /\ Holders(l) \in SUBSET PluginThreads
  BY DEF Records, Holders
<1> QED  BY <1>1, PluginSets, FS_Subset, FS_CardinalityType DEF Tables, Plugins!PluginAssumption

\* What a thread that begins and ends to hold a library changes in the count.
LEMMA Grown ==
  ASSUME NEW S, IsFiniteSet(S), NEW x, x \notin S
  PROVE  IsFiniteSet(S \cup {x}) /\ Cardinality(S \cup {x}) = Cardinality(S) + 1
BY FS_AddElement

LEMMA Shrunk ==
  ASSUME NEW S, IsFiniteSet(S), NEW x \in S
  PROVE  IsFiniteSet(S \ {x}) /\ Cardinality(S \ {x}) = Cardinality(S) - 1
BY FS_RemoveElement

\* Thread t is now at what.
LoaderMoves(t, what) == plugins_doing' = [plugins_doing EXCEPT ![t] = what]

LEMMA HoldersMoved ==
  ASSUME Opens, NEW t \in PluginThreads, NEW what, LoaderMoves(t, what), NEW l
  PROVE  Holders(l)' = IF what.op \in {"load", "close"} /\ what.library = l
                         THEN Holders(l) \cup {t} ELSE Holders(l) \ {t}
BY DEF Opens, LoaderMoves, Holders

\* The count of every library when one library's holders or records change.
LEMMA Recounted ==
  ASSUME Plugins!PluginAssumption, RegistryInv, NEW l \in Libraries,
         \A m \in Libraries \ {l} : plugins_opens'[m] = plugins_opens[m]
                                    /\ Records(m)' = Records(m) /\ Holders(m)' = Holders(m),
         plugins_opens'[l] = Cardinality(Records(l)') + Cardinality(Holders(l)')
  PROVE  Plugins!LibrariesAreReleased'
<1>1. ASSUME NEW m \in Libraries
      PROVE  plugins_opens'[m] = Cardinality(Records(m)') + Cardinality(Holders(m)')
  <2>1. CASE m = l
    BY <2>1
  <2>2. CASE m # l
    BY <2>2, ReleasedByCount DEF RegistryInv
  <2> QED  BY <2>1, <2>2
<1>2. Plugins!LibrariesAreReleased' <=>
        \A m \in Libraries : plugins_opens'[m] = Cardinality(Records(m)') + Cardinality(Holders(m)')
  BY PluginSets DEF Plugins!LibrariesAreReleased, Records, Holders
<1> QED  BY <1>1, <1>2

\* A thread maps a library, or gives one back that it held.
LEMMA HoldStep ==
  ASSUME Plugins!PluginAssumption, RegistryInv, NEW t \in PluginThreads, NEW l \in Libraries, NEW what \in Plugins!Doing,
         LoaderMoves(t, what), UNCHANGED <<plugins_factories, plugins_dynamic>>,
         \/ /\ plugins_doing[t] = Plugins!Idle /\ what.op = "load" /\ what.library = l
            /\ plugins_opens' = [plugins_opens EXCEPT ![l] = @ + 1]
         \/ /\ plugins_doing[t].op \in {"load", "close"} /\ plugins_doing[t].library = l /\ what = Plugins!Idle
            /\ plugins_opens' = [plugins_opens EXCEPT ![l] = @ - 1]
  PROVE  RegistryInv'
<1> USE DEF RegistryInv
<1>1. Opens'
  BY DEF Opens, LoaderMoves
<1>2. Tables'
  BY DEF Tables
<1>3. \A m : Records(m)' = Records(m)
  BY DEF Records
<1>4. \A m : Holders(m)' = IF what.op \in {"load", "close"} /\ what.library = m
                             THEN Holders(m) \cup {t} ELSE Holders(m) \ {t}
  BY HoldersMoved
<1>5. \A m \in Libraries \ {l} : plugins_opens'[m] = plugins_opens[m] /\ t \notin Holders(m)
                                 /\ ~(what.op \in {"load", "close"} /\ what.library = m)
  BY DEF Opens, Holders, Plugins!Idle
<1>6. plugins_opens[l] = Cardinality(Records(l)) + Cardinality(Holders(l))
  BY ReleasedByCount
<1>7. plugins_opens'[l] = Cardinality(Records(l)) + Cardinality(Holders(l)')
  <2>1. CASE plugins_doing[t] = Plugins!Idle /\ what.op = "load" /\ what.library = l
             /\ plugins_opens' = [plugins_opens EXCEPT ![l] = @ + 1]
    <3>1. t \notin Holders(l) /\ Holders(l)' = Holders(l) \cup {t}
      BY <1>4, <2>1 DEF Holders, Plugins!Idle
    <3>2. plugins_opens'[l] = plugins_opens[l] + 1
      BY <2>1 DEF Opens
    <3>3. Cardinality(Holders(l)') = Cardinality(Holders(l)) + 1
      BY <3>1, Finite, Grown
    <3> QED  BY <1>6, <3>2, <3>3, Finite
  <2>2. CASE plugins_doing[t].op \in {"load", "close"} /\ plugins_doing[t].library = l /\ what = Plugins!Idle
             /\ plugins_opens' = [plugins_opens EXCEPT ![l] = @ - 1]
    <3>1. t \in Holders(l) /\ Holders(l)' = Holders(l) \ {t}
      BY <1>4, <2>2 DEF Holders, Plugins!Idle
    <3>2. plugins_opens'[l] = plugins_opens[l] - 1
      BY <2>2 DEF Opens
    <3>3. Cardinality(Holders(l)') = Cardinality(Holders(l)) - 1
      BY <3>1, Finite, Shrunk
    <3> QED  BY <1>6, <3>2, <3>3, Finite
  <2> QED  BY <2>1, <2>2
<1>8. \A m \in Libraries \ {l} : Holders(m)' = Holders(m)
  BY <1>4, <1>5
<1>9. plugins_opens'[l] = Cardinality(Records(l)') + Cardinality(Holders(l)')
  BY <1>3, <1>7
<1>10. Plugins!LibrariesAreReleased'
  BY <1>3, <1>5, <1>8, <1>9, Recounted
<1> QED  BY <1>1, <1>2, <1>10

\* The plugin's library passes from the call to the record.
LEMMA EnterStep ==
  ASSUME Plugins!PluginAssumption, RegistryInv, NEW t \in PluginThreads, Plugins!Enter(t)
  PROVE  RegistryInv'
<1> USE DEF RegistryInv
<1>1. PICK l \in Libraries : l = plugins_doing[t].library /\ plugins_doing[t].op = "load"
  BY DEF Plugins!Enter, Opens, Plugins!Doing, Plugins!Idle
<1> DEFINE p == PluginOf[l]
           what == [op |-> "probe", library |-> l]
<1>2. /\ p.name \notin DOMAIN plugins_dynamic
      /\ plugins_dynamic' = Plugins!With(plugins_dynamic, p.name, l) /\ plugins_factories' = Plugins!With(plugins_factories, p, l)
      /\ plugins_opens' = plugins_opens /\ LoaderMoves(t, what)
  BY <1>1 DEF Plugins!Enter, LoaderMoves
<1>3. what \in Plugins!Doing /\ what.op = "probe"
  BY <1>1 DEF Plugins!Doing
<1> HIDE DEF what, p
<1>4. Opens'
  BY <1>2, <1>3 DEF Opens, LoaderMoves
<1>5. /\ DOMAIN plugins_dynamic' = DOMAIN plugins_dynamic \cup {p.name} /\ plugins_dynamic'[p.name] = l
      /\ \A n \in DOMAIN plugins_dynamic : plugins_dynamic'[n] = plugins_dynamic[n]
      /\ DOMAIN plugins_factories' = DOMAIN plugins_factories \cup {p} /\ plugins_factories'[p] = l
      /\ \A q \in DOMAIN plugins_factories : q # p => plugins_factories'[q] = plugins_factories[q]
  BY <1>2 DEF Plugins!With
<1>6. Tables'
  <2>1. IsFiniteSet(DOMAIN plugins_dynamic')
    BY <1>5, FS_AddElement DEF Tables
  <2>2. \A n \in DOMAIN plugins_dynamic' : /\ plugins_dynamic'[n] \in Libraries
                                   /\ PluginOf[plugins_dynamic'[n]].name = n
                                   /\ PluginOf[plugins_dynamic'[n]] \in DOMAIN plugins_factories'
    BY <1>1, <1>5 DEF Tables, p
  <2>3. \A q \in DOMAIN plugins_factories' : plugins_factories'[q] # Plugins!Builtin =>
          /\ plugins_factories'[q] \in Libraries /\ q = PluginOf[plugins_factories'[q]]
          /\ q.name \in DOMAIN plugins_dynamic' /\ plugins_dynamic'[q.name] = plugins_factories'[q]
    BY <1>1, <1>5 DEF Tables, p
  <2> QED  BY <2>1, <2>2, <2>3 DEF Tables
<1>7. Records(l)' = Records(l) \cup {p.name} /\ p.name \notin Records(l)
      /\ \A m \in Libraries \ {l} : Records(m)' = Records(m)
  BY <1>2, <1>5 DEF Records
<1>8. \A m : Holders(m)' = Holders(m) \ {t}
  BY <1>2, <1>3, HoldersMoved
<1>9. t \in Holders(l) /\ \A m \in Libraries \ {l} : t \notin Holders(m)
  BY <1>1 DEF Holders
<1>10. /\ Cardinality(Records(l)') = Cardinality(Records(l)) + 1
       /\ Cardinality(Holders(l)') = Cardinality(Holders(l)) - 1
  BY <1>7, <1>8, <1>9, Finite, Grown, Shrunk
<1>11. plugins_opens'[l] = Cardinality(Records(l)') + Cardinality(Holders(l)')
  <2>1. plugins_opens[l] = Cardinality(Records(l)) + Cardinality(Holders(l))
    BY <1>1, ReleasedByCount
  <2> QED  BY <1>2, <1>10, <2>1, Finite
<1>12. Plugins!LibrariesAreReleased'
  <2>1. \A m \in Libraries \ {l} : Holders(m)' = Holders(m)
    BY <1>8, <1>9
  <2>2. \A m \in Libraries \ {l} : plugins_opens'[m] = plugins_opens[m]
    BY <1>2 DEF LoaderMoves
  <2> QED  BY <1>1, <1>7, <1>11, <2>1, <2>2, Recounted
<1> QED  BY <1>4, <1>6, <1>12

\* And back to the call that is going to close it.
LEMMA UnloadStep ==
  ASSUME Plugins!PluginAssumption, RegistryInv, NEW t \in PluginThreads, NEW name, Plugins!Unload(t, name)
  PROVE  RegistryInv'
<1> USE DEF RegistryInv
<1>1. PICK l \in Libraries : /\ l = plugins_dynamic[name] /\ name \in DOMAIN plugins_dynamic
                              /\ PluginOf[l].name = name /\ plugins_doing[t] = Plugins!Idle
  BY DEF Plugins!Unload, Tables
<1> DEFINE p == PluginOf[l]
           what == [op |-> "close", library |-> l]
<1>2. /\ plugins_dynamic' = Plugins!Without(plugins_dynamic, name) /\ plugins_factories' = Plugins!Without(plugins_factories, p)
      /\ plugins_opens' = plugins_opens /\ LoaderMoves(t, what)
  BY <1>1 DEF Plugins!Unload, LoaderMoves, Plugins!Forgotten
<1>3. what \in Plugins!Doing /\ what.op = "close" /\ what.library = l
  BY <1>1 DEF Plugins!Doing
<1> HIDE DEF what, p
<1>4. Opens'
  BY <1>2, <1>3 DEF Opens, LoaderMoves
<1>5. /\ DOMAIN plugins_dynamic' = DOMAIN plugins_dynamic \ {name}
      /\ \A n \in DOMAIN plugins_dynamic' : plugins_dynamic'[n] = plugins_dynamic[n]
      /\ DOMAIN plugins_factories' = DOMAIN plugins_factories \ {p}
      /\ \A q \in DOMAIN plugins_factories' : plugins_factories'[q] = plugins_factories[q]
  BY <1>2 DEF Plugins!Without, Plugins!Restrict
<1>6. Tables'
  <2>1. IsFiniteSet(DOMAIN plugins_dynamic')
    BY <1>5, FS_RemoveElement DEF Tables
  <2>2. \A n \in DOMAIN plugins_dynamic' : /\ plugins_dynamic'[n] \in Libraries
                                   /\ PluginOf[plugins_dynamic'[n]].name = n
                                   /\ PluginOf[plugins_dynamic'[n]] \in DOMAIN plugins_factories'
    BY <1>1, <1>5 DEF Tables, p
  <2>3. \A q \in DOMAIN plugins_factories' : plugins_factories'[q] # Plugins!Builtin =>
          /\ plugins_factories'[q] \in Libraries /\ q = PluginOf[plugins_factories'[q]]
          /\ q.name \in DOMAIN plugins_dynamic' /\ plugins_dynamic'[q.name] = plugins_factories'[q]
    <3> SUFFICES ASSUME NEW q \in DOMAIN plugins_factories, q # p, plugins_factories[q] # Plugins!Builtin
                 PROVE  /\ plugins_factories[q] \in Libraries /\ q = PluginOf[plugins_factories[q]]
                        /\ q.name \in DOMAIN plugins_dynamic /\ plugins_dynamic[q.name] = plugins_factories[q]
                        /\ q.name # name
      BY <1>5
    <3>1. /\ plugins_factories[q] \in Libraries /\ q = PluginOf[plugins_factories[q]]
          /\ q.name \in DOMAIN plugins_dynamic /\ plugins_dynamic[q.name] = plugins_factories[q]
      BY DEF Tables
    <3> QED  BY <1>1, <3>1 DEF p
  <2> QED  BY <2>1, <2>2, <2>3 DEF Tables
<1>7. Records(l)' = Records(l) \ {name} /\ name \in Records(l)
      /\ \A m \in Libraries \ {l} : Records(m)' = Records(m)
  BY <1>1, <1>5 DEF Records
<1>8. \A m : Holders(m)' = IF m = l THEN Holders(m) \cup {t} ELSE Holders(m) \ {t}
  BY <1>2, <1>3, HoldersMoved
<1>9. \A m : t \notin Holders(m)
  BY <1>1 DEF Holders, Plugins!Idle
<1>10. /\ Cardinality(Records(l)') = Cardinality(Records(l)) - 1
       /\ Cardinality(Holders(l)') = Cardinality(Holders(l)) + 1
  BY <1>7, <1>8, <1>9, Finite, Grown, Shrunk
<1>11. plugins_opens'[l] = Cardinality(Records(l)') + Cardinality(Holders(l)')
  <2>1. plugins_opens[l] = Cardinality(Records(l)) + Cardinality(Holders(l))
    BY <1>1, ReleasedByCount
  <2> QED  BY <1>2, <1>10, <2>1, Finite
<1>12. Plugins!LibrariesAreReleased'
  <2>1. \A m \in Libraries \ {l} : plugins_opens'[m] = plugins_opens[m]
                                   /\ Records(m)' = Records(m) /\ Holders(m)' = Holders(m)
    BY <1>2, <1>7, <1>8, <1>9
  <2> QED  BY <1>1, <1>11, <2>1, Recounted
<1> QED  BY <1>4, <1>6, <1>12

\* What leaves the tables and the holders as they are.
LEMMA RegisterStep ==
  ASSUME Plugins!PluginAssumption, RegistryInv, NEW p, Plugins!Register(p)
  PROVE  RegistryInv'
<1> USE DEF RegistryInv
<1>1. /\ DOMAIN plugins_factories' = DOMAIN plugins_factories \cup {p} /\ plugins_factories'[p] = Plugins!Builtin
      /\ \A q \in DOMAIN plugins_factories : q # p /\ plugins_factories'[q] = plugins_factories[q]
  BY DEF Plugins!Register, Plugins!With
<1>2. Tables'
  BY <1>1 DEF Tables, Plugins!Register
<1>3. Opens' /\ Plugins!LibrariesAreReleased'
  BY DEF Plugins!Register, Opens, Plugins!LibrariesAreReleased
<1> QED  BY <1>2, <1>3

LEMMA EndProbeStep ==
  ASSUME Plugins!PluginAssumption, RegistryInv, NEW t \in PluginThreads, Plugins!EndProbe(t)
  PROVE  RegistryInv'
<1> USE DEF RegistryInv
<1>1. LoaderMoves(t, Plugins!Idle) /\ plugins_doing[t].op = "probe" /\ UNCHANGED <<plugins_factories, plugins_dynamic, plugins_opens>>
  BY DEF Plugins!EndProbe, LoaderMoves
<1>2. Opens' /\ Tables'
  BY <1>1 DEF Opens, Tables, LoaderMoves, Plugins!Doing
<1>3. \A l : Holders(l)' = Holders(l) \ {t}
  BY <1>1, HoldersMoved DEF Plugins!Idle
<1>4. \A l : Holders(l)' = Holders(l) /\ Records(l)' = Records(l)
  BY <1>1, <1>3 DEF Holders, Records
<1>5. Plugins!LibrariesAreReleased' <=>
        \A l \in Libraries : plugins_opens'[l] = Cardinality(Records(l)') + Cardinality(Holders(l)')
  BY PluginSets DEF Plugins!LibrariesAreReleased, Records, Holders
<1> QED  BY <1>1, <1>2, <1>4, <1>5, ReleasedByCount

LEMMA RegistryStep == Plugins!PluginAssumption /\ RegistryInv /\ [Plugins!Next]_(Plugins!vars) => RegistryInv'
<1> SUFFICES ASSUME Plugins!PluginAssumption, RegistryInv, [Plugins!Next]_(Plugins!vars) PROVE RegistryInv'
  OBVIOUS
<1>1. ASSUME NEW p \in Builtins, Plugins!Register(p) PROVE RegistryInv'
  BY <1>1, RegisterStep
<1>2. ASSUME NEW t \in PluginThreads, NEW l \in Libraries, Plugins!Open(t, l) PROVE RegistryInv'
  <2> DEFINE what == [op |-> "load", library |-> l]
  <2>1. what \in Plugins!Doing /\ what.op = "load" /\ what.library = l
    BY DEF Plugins!Doing
  <2>2. /\ LoaderMoves(t, what) /\ plugins_doing[t] = Plugins!Idle /\ UNCHANGED <<plugins_factories, plugins_dynamic>>
        /\ plugins_opens' = [plugins_opens EXCEPT ![l] = @ + 1]
    BY <1>2 DEF Plugins!Open, LoaderMoves
  <2> HIDE DEF what
  <2> QED  BY <2>1, <2>2, HoldStep
<1>3. ASSUME NEW t \in PluginThreads, Plugins!Unusable(t) \/ Plugins!Refuse(t) \/ Plugins!Close(t) PROVE RegistryInv'
  <2>1. PICK l \in Libraries : l = plugins_doing[t].library
    BY <1>3 DEF Plugins!Unusable, Plugins!Refuse, Plugins!Close, RegistryInv, Opens,
                Plugins!Doing, Plugins!Idle
  <2>2. /\ LoaderMoves(t, Plugins!Idle) /\ plugins_doing[t].op \in {"load", "close"}
        /\ UNCHANGED <<plugins_factories, plugins_dynamic>> /\ plugins_opens' = [plugins_opens EXCEPT ![l] = @ - 1]
    BY <1>3, <2>1 DEF Plugins!Unusable, Plugins!Refuse, Plugins!Close, LoaderMoves
  <2>3. Plugins!Idle \in Plugins!Doing
    BY DEF Plugins!Doing
  <2> QED  BY <2>1, <2>2, <2>3, HoldStep
<1>4. ASSUME NEW t \in PluginThreads, Plugins!Enter(t) \/ Plugins!EndProbe(t) PROVE RegistryInv'
  BY <1>4, EnterStep, EndProbeStep
<1>5. ASSUME NEW t \in PluginThreads, NEW name, Plugins!Unload(t, name) PROVE RegistryInv'
  BY <1>5, UnloadStep
<1>6. CASE UNCHANGED Plugins!vars
  BY <1>6 DEF Plugins!vars, RegistryInv, Opens, Tables, Plugins!LibrariesAreReleased
<1> QED  BY <1>1, <1>2, <1>3, <1>4, <1>5, <1>6 DEF Plugins!Next

LEMMA InitRegistry == Plugins!PluginAssumption /\ Plugins!Init => RegistryInv
<1> SUFFICES ASSUME Plugins!PluginAssumption, Plugins!Init PROVE RegistryInv
  OBVIOUS
<1>1. DOMAIN plugins_factories = {} /\ DOMAIN plugins_dynamic = {} /\ plugins_dynamic = <<>>
      /\ \A t \in PluginThreads : plugins_doing[t] = Plugins!Idle
  BY DEF Plugins!Init
<1>2. Opens
  BY DEF Plugins!Init, Opens, Plugins!Doing
<1>3. Tables
  BY <1>1, FS_EmptySet DEF Tables
<1>4. ASSUME NEW l \in Libraries
      PROVE  plugins_opens[l] = Cardinality(Records(l)) + Cardinality(Holders(l))
  <2>1. Records(l) = {} /\ Holders(l) = {}
    BY <1>1 DEF Records, Holders, Plugins!Idle
  <2> QED  BY <2>1, FS_EmptySet DEF Plugins!Init
<1> QED  BY <1>2, <1>3, <1>4, ReleasedByCount DEF RegistryInv

LEMMA RegistryIsKept == Plugins!PluginAssumption => (Plugins!Spec => []RegistryInv)
<1> SUFFICES ASSUME Plugins!PluginAssumption PROVE Plugins!Spec => []RegistryInv
  OBVIOUS
<1>1. Plugins!Init => RegistryInv
  BY InitRegistry
<1>2. RegistryInv /\ [Plugins!Next]_(Plugins!vars) => RegistryInv'
  BY RegistryStep
<1> QED  BY <1>1, <1>2, PTL DEF Plugins!Spec

\* What has a record is mapped: it is counted.
LEMMA RecordedIsMapped ==
  ASSUME Plugins!PluginAssumption, RegistryInv
  PROVE  Plugins!FactoriesAreMapped
<1>1. ASSUME NEW p \in DOMAIN plugins_factories, plugins_factories[p] # Plugins!Builtin
      PROVE  /\ p.name \in DOMAIN plugins_dynamic /\ plugins_dynamic[p.name] = plugins_factories[p]
             /\ plugins_opens[plugins_factories[p]] > 0
  <2>1. /\ p.name \in DOMAIN plugins_dynamic /\ plugins_dynamic[p.name] = plugins_factories[p]
        /\ plugins_factories[p] \in Libraries
    BY <1>1 DEF RegistryInv, Tables
  <2>2. Records(plugins_factories[p]) # {}
    BY <2>1 DEF Records
  <2>3. Cardinality(Records(plugins_factories[p])) # 0
    BY <2>2, FS_EmptySet, Finite DEF RegistryInv
  <2>4. /\ Cardinality(Records(plugins_factories[p])) \in Nat
        /\ Cardinality(Holders(plugins_factories[p])) \in Nat
    BY Finite DEF RegistryInv
  <2>5. plugins_opens[plugins_factories[p]]
          = Cardinality(Records(plugins_factories[p])) + Cardinality(Holders(plugins_factories[p]))
    BY <2>1, ReleasedByCount DEF RegistryInv
  <2> QED  BY <2>1, <2>3, <2>4, <2>5
<1> QED  BY <1>1 DEF Plugins!FactoriesAreMapped, RegistryInv, Tables

\* A library is mapped exactly as often as a record or a call needs it, with any
\* number of threads that load and unload.
LEMMA PluginLibrariesAreReleased == Plugins!PluginAssumption => (Plugins!Spec => []Plugins!LibrariesAreReleased)
<1> SUFFICES ASSUME Plugins!PluginAssumption PROVE Plugins!Spec => []Plugins!LibrariesAreReleased
  OBVIOUS
<1>1. RegistryInv => Plugins!LibrariesAreReleased
  BY DEF RegistryInv
<1> QED  BY <1>1, RegistryIsKept, PTL

\* A factory that came with a library never outlives the mapping of its code.
LEMMA PluginFactoriesAreMapped == Plugins!PluginAssumption => (Plugins!Spec => []Plugins!FactoriesAreMapped)
<1> SUFFICES ASSUME Plugins!PluginAssumption PROVE Plugins!Spec => []Plugins!FactoriesAreMapped
  OBVIOUS
<1>1. RegistryInv => Plugins!FactoriesAreMapped
  BY RecordedIsMapped
<1> QED  BY <1>1, RegistryIsKept, PTL
-----------------------------------------------------------------------------
(***************************************************************************)
(* The list of the producers.                                              *)
(***************************************************************************)
ListTypes ==
  /\ list_next \in Seq(Nat) /\ Len(list_next) = list_tail
  /\ list_tail \in 1..ListNodes /\ list_head \in 1..list_tail
  /\ list_made \in [ListProducers -> Nat] /\ list_prev \in [ListProducers -> Nat]
  /\ \A n \in list_freed : n \in 1..(list_head - 1)

\* A producer between its exchange and its link has the node after the one it
\* was given, and no other producer has that one.
Interrupted ==
  /\ \A p \in ListProducers : list_made[p] # 0 =>
       list_made[p] \in 2..list_tail /\ list_prev[p] = list_made[p] - 1 /\ list_prev[p] >= list_head /\ list_next[list_prev[p]] = 0
  /\ \A p, q \in ListProducers : list_made[p] # 0 /\ list_made[p] = list_made[q] => p = q

Linked ==
  /\ list_next[list_tail] = 0
  /\ \A n \in list_head..(list_tail - 1) :
       \/ list_next[n] = n + 1
       \/ list_next[n] = 0 /\ \E p \in ListProducers : list_made[p] = n + 1

ListInv == ListTypes /\ Interrupted /\ Linked

LEMMA InitList == List!MpscAssumption /\ List!Init => ListInv
<1>. SUFFICES ASSUME List!MpscAssumption, List!Init PROVE ListInv
  OBVIOUS
<1>1. list_next \in Seq(Nat) /\ Len(list_next) = 1 /\ list_next[1] = 0
  BY DEF List!Init
<1>. QED BY <1>1 DEF List!Init, List!MpscAssumption, ListInv, ListTypes, Interrupted, Linked

LEMMA ExchangeStep ==
  ASSUME List!MpscAssumption, ListInv, NEW p \in ListProducers, List!Exchange(p)
  PROVE  ListInv'
<1>. USE DEF ListInv, ListTypes
<1>1. /\ list_next' \in Seq(Nat) /\ Len(list_next') = list_tail + 1 /\ list_tail' = list_tail + 1
      /\ list_next'[list_tail + 1] = 0 /\ \A n \in 1..list_tail : list_next'[n] = list_next[n]
  BY AppendProperties DEF List!Exchange
<1>2. /\ list_made' = [list_made EXCEPT ![p] = list_tail + 1] /\ list_prev' = [list_prev EXCEPT ![p] = list_tail]
      /\ list_head' = list_head /\ list_freed' = list_freed /\ list_tail + 1 \in 1..ListNodes /\ list_made[p] = 0
  BY DEF List!Exchange, List!MpscAssumption
<1>3. ListTypes'
  BY <1>1, <1>2
<1>4. /\ list_made'[p] = list_tail + 1 /\ list_prev'[p] = list_tail
      /\ \A q \in ListProducers \ {p} : list_made'[q] = list_made[q] /\ list_prev'[q] = list_prev[q]
  BY <1>2
<1>5. Interrupted'
  <2>1. ASSUME NEW q \in ListProducers, list_made'[q] # 0
        PROVE  /\ list_made'[q] \in 2..list_tail' /\ list_prev'[q] = list_made'[q] - 1 /\ list_prev'[q] >= list_head'
               /\ list_next'[list_prev'[q]] = 0
    <3>1. CASE q = p
      BY <1>1, <1>2, <1>4, <3>1 DEF Linked
    <3>2. CASE q # p
      BY <1>1, <1>2, <1>4, <2>1, <3>2 DEF Interrupted
    <3>. QED BY <3>1, <3>2
  <2>2. ASSUME NEW q \in ListProducers, NEW r \in ListProducers, list_made'[q] # 0, list_made'[q] = list_made'[r]
        PROVE  q = r
    <3>1. ASSUME NEW o \in ListProducers
          PROVE  list_made[o] # list_tail + 1
      <4>1. list_tail \in Int /\ list_tail >= 1
        OBVIOUS
      <4>2. list_made[o] = 0 \/ list_made[o] \in 2..list_tail
        BY DEF Interrupted
      <4>. HIDE DEF ListInv, ListTypes
      <4>. QED BY <4>1, <4>2
    <3>2. CASE q = p \/ r = p
      BY <1>4, <2>2, <3>1, <3>2
    <3>3. CASE q # p /\ r # p
      <4>1. list_made[q] # 0 /\ list_made[q] = list_made[r]
        BY <1>4, <2>2, <3>3
      <4>. QED BY <4>1 DEF Interrupted
    <3>. QED BY <3>2, <3>3
  <2>. QED BY <2>1, <2>2 DEF Interrupted
<1>6. Linked'
  <2>1. ASSUME NEW n \in list_head..list_tail
        PROVE  list_next'[n] = n + 1 \/ (list_next'[n] = 0 /\ \E q \in ListProducers : list_made'[q] = n + 1)
    <3>1. CASE n = list_tail
      BY <1>1, <1>4, <3>1 DEF Linked
    <3>2. CASE n # list_tail
      <4>1. n \in list_head..(list_tail - 1) /\ list_next'[n] = list_next[n]
        BY <1>1, <3>2
      <4>2. \A q \in ListProducers : list_made[q] = n + 1 => list_made'[q] = n + 1
        BY <1>2, <1>4
      <4>. QED BY <4>1, <4>2 DEF Linked
    <3>. QED BY <3>1, <3>2
  <2>. QED BY <1>1, <1>2, <2>1 DEF Linked
<1>. QED BY <1>3, <1>5, <1>6

LEMMA LinkStep ==
  ASSUME ListInv, NEW p \in ListProducers, List!Link(p)
  PROVE  ListInv'
<1>. USE DEF ListInv, ListTypes
<1>1. /\ list_made[p] # 0 /\ list_made[p] \in 2..list_tail /\ list_prev[p] = list_made[p] - 1 /\ list_prev[p] >= list_head
  BY DEF List!Link, Interrupted
<1>2. /\ list_next' = [list_next EXCEPT ![list_prev[p]] = list_made[p]] /\ list_made' = [list_made EXCEPT ![p] = 0]
      /\ UNCHANGED <<list_head, list_tail, list_prev, list_freed>>
  BY DEF List!Link, List!Predecessor
<1>3. /\ list_next' \in Seq(Nat) /\ Len(list_next') = list_tail
      /\ list_next'[list_prev[p]] = list_made[p] /\ \A n \in 1..list_tail : n # list_prev[p] => list_next'[n] = list_next[n]
  <2>1. list_prev[p] \in 1..Len(list_next) /\ list_made[p] \in Nat
    BY <1>1
  <2>. QED BY <1>2, <2>1, ExceptSeq
<1>4. ListTypes'
  BY <1>2, <1>3
<1>5. Interrupted'
  <2>1. \A q \in ListProducers : list_made'[q] # 0 => q # p /\ list_made'[q] = list_made[q] /\ list_prev'[q] = list_prev[q]
    BY <1>2
  <2>2. ASSUME NEW q \in ListProducers, list_made'[q] # 0
        PROVE  list_next'[list_prev'[q]] = 0
    <3>1. list_made[q] # list_made[p] /\ list_prev[q] = list_made[q] - 1 /\ list_made[q] \in 2..list_tail /\ list_next[list_prev[q]] = 0
      BY <1>1, <2>1, <2>2 DEF Interrupted
    <3>2. list_prev[q] # list_prev[p] /\ list_prev[q] \in 1..list_tail
      BY <1>1, <3>1
    <3>. QED BY <1>3, <2>1, <2>2, <3>1, <3>2
  <2>. QED BY <1>2, <2>1, <2>2 DEF Interrupted
<1>6. Linked'
  <2>1. ASSUME NEW n \in list_head..(list_tail - 1)
        PROVE  list_next'[n] = n + 1 \/ (list_next'[n] = 0 /\ \E q \in ListProducers : list_made'[q] = n + 1)
    <3>1. CASE n = list_prev[p]
      <4>1. list_made[p] = n + 1
        BY <1>1, <3>1
      <4>2. list_next'[n] = list_made[p]
        BY <1>3, <3>1
      <4>. QED BY <4>1, <4>2
    <3>2. CASE n # list_prev[p]
      <4>1. list_next'[n] = list_next[n]
        BY <1>3, <3>2
      <4>2. \A q \in ListProducers : list_made[q] = n + 1 => list_made'[q] = n + 1
        BY <1>1, <1>2, <3>2
      <4>. QED BY <4>1, <4>2 DEF Linked
    <3>. QED BY <3>1, <3>2
  <2>2. list_next'[list_tail] = 0
    <3>1. list_tail # list_prev[p] /\ list_tail \in 1..list_tail
      BY <1>1
    <3>. QED BY <1>3, <3>1 DEF Linked
  <2>. QED BY <1>2, <2>1, <2>2 DEF Linked
<1>. QED BY <1>4, <1>5, <1>6

\* What is given out is the next one.
LEMMA PopTakesTheNext ==
  ASSUME ListInv, List!Pop
  PROVE  /\ list_head < list_tail /\ list_head' = list_head + 1 /\ list_popped' = list_head + 1
         /\ UNCHANGED <<list_next, list_tail, list_made, list_prev>>
<1>1. list_next[list_head] # 0
  BY DEF List!Pop, List!HasNext
<1>2. list_head # list_tail
  BY <1>1 DEF ListInv, Linked
<1>3. list_head \in list_head..(list_tail - 1)
  BY <1>2 DEF ListInv, ListTypes
<1>. QED BY <1>1, <1>3 DEF List!Pop, ListInv, ListTypes, Linked

LEMMA PopStep ==
  ASSUME ListInv, List!Pop
  PROVE  ListInv'
<1>. USE DEF ListInv, ListTypes
<1>1. /\ list_head < list_tail /\ list_head' = list_head + 1 /\ UNCHANGED <<list_next, list_tail, list_made, list_prev>>
      /\ list_freed' = list_freed \cup {list_head} /\ list_next[list_head] # 0
  BY PopTakesTheNext DEF List!Pop, List!HasNext
<1>2. ListTypes'
  BY <1>1
<1>3. Interrupted'
  <2>1. ASSUME NEW p \in ListProducers, list_made[p] # 0
        PROVE  list_prev[p] >= list_head + 1
    <3>1. list_prev[p] >= list_head /\ list_prev[p] # list_head /\ list_prev[p] \in Nat
      BY <1>1, <2>1 DEF Interrupted
    <3>. QED BY <3>1
  <2>. QED BY <1>1, <2>1 DEF Interrupted
<1>4. Linked'
  BY <1>1 DEF Linked
<1>. QED BY <1>2, <1>3, <1>4

LEMMA ListIsKept == List!MpscAssumption => (List!Spec => []ListInv)
<1>. SUFFICES ASSUME List!MpscAssumption PROVE List!Spec => []ListInv
  OBVIOUS
<1>1. List!Init => ListInv
  BY InitList
<1>2. ListInv /\ [List!Next]_(List!vars) => ListInv'
  <2>. SUFFICES ASSUME ListInv, [List!Next]_(List!vars) PROVE ListInv'
    OBVIOUS
  <2>1. CASE UNCHANGED List!vars
    BY <2>1 DEF List!vars, ListInv, ListTypes, Interrupted, Linked
  <2>. QED BY <2>1, ExchangeStep, LinkStep, PopStep DEF List!Next, List!Push
<1>. QED BY <1>1, <1>2, PTL DEF List!Spec

LEMMA ListLinksAreKept == ListInv => List!LinksAreKept
<1>. SUFFICES ASSUME ListInv PROVE List!LinksAreKept
  OBVIOUS
<1>1. \A p \in ListProducers : list_made[p] # 0 => list_prev[p] >= list_head /\ list_prev[p] \notin list_freed
  BY DEF ListInv, ListTypes, Interrupted
<1>2. ASSUME NEW n \in list_head..(list_tail - 1)
      PROVE  \/ list_next[n] = n + 1
             \/ list_next[n] = 0 /\ \E p \in ListProducers : list_made[p] = n + 1 /\ list_prev[p] = n
  BY DEF ListInv, ListTypes, Interrupted, Linked
<1>. QED BY <1>1, <1>2 DEF List!LinksAreKept

(***************************************************************************)
(* The refinement: an exchange puts, pop() takes.                          *)
(***************************************************************************)
Listed == [i \in 1..(list_tail - list_head) |-> list_head + i]

LEMMA ListedIsASequence == ListInv => Listed \in Seq(Nat) /\ Len(Listed) = list_tail - list_head
<1>. SUFFICES ASSUME ListInv PROVE Listed \in Seq(Nat) /\ Len(Listed) = list_tail - list_head
  OBVIOUS
<1>1. list_tail - list_head \in Nat /\ \A i \in 1..(list_tail - list_head) : list_head + i \in Nat
  BY DEF ListInv, ListTypes
<1>. QED BY <1>1 DEF Listed

LEMMA ListPuts ==
  ASSUME List!MpscAssumption, ListInv, ListInv', NEW p \in ListProducers, List!Exchange(p)
  PROVE  \E value \in 1..ListNodes : List!Queue!Put(value)
<1>1. /\ list_tail' = list_tail + 1 /\ list_head' = list_head /\ list_popped' = list_popped /\ list_tail + 1 \in 1..ListNodes
      /\ list_head \in 1..list_tail /\ list_tail \in Nat /\ ListNodes \in Nat
  BY DEF List!Exchange, ListInv, ListTypes, List!MpscAssumption
<1>2. /\ Append(Listed, list_tail + 1) \in Seq(Nat)
      /\ Len(Append(Listed, list_tail + 1)) = list_tail + 1 - list_head
      /\ \A i \in 1..(list_tail - list_head) : Append(Listed, list_tail + 1)[i] = Listed[i]
      /\ Append(Listed, list_tail + 1)[list_tail - list_head + 1] = list_tail + 1
  BY <1>1, ListedIsASequence, AppendProperties
<1>3. Listed' \in Seq(Nat) /\ Len(Listed') = list_tail + 1 - list_head
  <2>1. (Listed \in Seq(Nat) /\ Len(Listed) = list_tail - list_head)'
    BY ListedIsASequence, PTL
  <2>. QED BY <1>1, <2>1
<1>4. ASSUME NEW i \in 1..(list_tail + 1 - list_head)
      PROVE  Listed'[i] = Append(Listed, list_tail + 1)[i]
  <2>1. Listed'[i] = list_head + i
    BY <1>1 DEF Listed
  <2>2. CASE i \in 1..(list_tail - list_head)
    <3>1. Listed[i] = list_head + i
      BY <2>2 DEF Listed
    <3>. QED BY <1>2, <2>1, <2>2, <3>1
  <2>3. CASE i = list_tail - list_head + 1
    BY <1>1, <1>2, <2>1, <2>3
  <2>4. i \in 1..(list_tail - list_head) \/ i = list_tail - list_head + 1
    BY <1>1
  <2>. QED BY <2>2, <2>3, <2>4
<1>5. Listed' = Append(Listed, list_tail + 1)
  BY <1>2, <1>3, <1>4, SeqEqual
<1>6. Len(Listed) < ListNodes
  BY <1>1, ListedIsASequence
<1>. QED BY <1>1, <1>5, <1>6 DEF List!Queue!Put, Listed

LEMMA ListTakes ==
  ASSUME ListInv, ListInv', List!Pop
  PROVE  List!Queue!Take
<1>1. /\ list_tail' = list_tail /\ list_head' = list_head + 1 /\ list_popped' = list_head + 1 /\ list_head < list_tail
      /\ list_head \in Nat /\ list_tail \in Nat
  BY PopTakesTheNext DEF ListInv, ListTypes
<1>2. /\ Listed # <<>> /\ Head(Listed) = Listed[1]
      /\ Tail(Listed) \in Seq(Nat) /\ Len(Tail(Listed)) = list_tail - list_head - 1
      /\ \A i \in 1..(list_tail - list_head - 1) : Tail(Listed)[i] = Listed[i + 1]
  BY <1>1, ListedIsASequence, HeadTailProperties
<1>3. Listed' \in Seq(Nat) /\ Len(Listed') = list_tail - list_head - 1
  <2>1. (Listed \in Seq(Nat) /\ Len(Listed) = list_tail - list_head)'
    BY ListedIsASequence, PTL
  <2>. QED BY <1>1, <2>1
<1>4. ASSUME NEW i \in 1..(list_tail - list_head - 1)
      PROVE  Listed'[i] = Tail(Listed)[i]
  <2>1. Listed'[i] = list_head + 1 + i
    BY <1>1 DEF Listed
  <2>2. Listed[i + 1] = list_head + (i + 1)
    BY <1>1 DEF Listed
  <2>. QED BY <1>1, <1>2, <2>1, <2>2
<1>5. Listed' = Tail(Listed)
  BY <1>2, <1>3, <1>4, SeqEqual
<1>6. Listed[1] = list_head + 1
  BY <1>1 DEF Listed
<1>. QED BY <1>1, <1>2, <1>5, <1>6 DEF List!Queue!Take, Listed

LEMMA ListImplementsQueue == List!MpscAssumption => (List!Spec => List!ListIsAQueue)
<1>. SUFFICES ASSUME List!MpscAssumption PROVE List!Spec => List!Queue!Spec
  BY DEF List!ListIsAQueue
<1>1. List!Init => List!Queue!Init
  <2>. SUFFICES ASSUME List!Init PROVE List!Queue!Init
    OBVIOUS
  <2>1. ListInv /\ list_tail = list_head
    BY InitList DEF List!Init
  <2>2. Listed \in Seq(Nat) /\ Len(Listed) = 0
    BY <2>1, ListedIsASequence DEF ListInv, ListTypes
  <2>3. Listed = <<>>
    BY <2>2, EmptySeq
  <2>. QED BY <2>3 DEF List!Init, List!Queue!Init, Listed, List!MpscAssumption
<1>2. ListInv /\ ListInv' /\ [List!Next]_(List!vars) =>
        [List!Queue!Next]_<<[i \in 1..(list_tail - list_head) |-> list_head + i], list_popped>>
  <2>. SUFFICES ASSUME ListInv, ListInv', [List!Next]_(List!vars)
                PROVE  [List!Queue!Next]_<<[i \in 1..(list_tail - list_head) |-> list_head + i], list_popped>>
    OBVIOUS
  <2>1. CASE UNCHANGED List!vars
    BY <2>1 DEF List!vars
  <2>2. ASSUME NEW p \in ListProducers, List!Link(p)
        PROVE  UNCHANGED <<[i \in 1..(list_tail - list_head) |-> list_head + i], list_popped>>
    BY <2>2 DEF List!Link
  <2>. QED BY <2>1, <2>2, ListPuts, ListTakes DEF List!Next, List!Push, List!Queue!Next
<1>. QED BY <1>1, <1>2, ListIsKept, PTL DEF List!Spec, List!Queue!Spec
-----------------------------------------------------------------------------
(***************************************************************************)
(* The loop of the live engine.                                            *)
(***************************************************************************)
Flags == {feed_running, feed_trading, feed_ready, feed_alerted, feed_connected, feed_up} \subseteq BOOLEAN

Ranges ==
  /\ feed_owner \in {"free", "starting", "stopping"}
  /\ feed_loop \in {"off", "heartbeat", "reconnect", "drain"}
  /\ feed_owner = "starting" => feed_running
  /\ feed_owner = "stopping" => ~feed_running
  /\ feed_running => feed_loop # "off"
  /\ feed_owner = "free" /\ feed_running => feed_ready
  /\ feed_queue \in 0..FeedCapacity /\ feed_bus \in 0..FeedPublished
  /\ feed_silence \in 0..FeedTimeout
  /\ feed_attempts \in 0..FeedAttempts
  /\ feed_backoff \in Nat /\ feed_retryIn \in Nat

LoopInv == Flags /\ Ranges /\ Updates!BackoffIsBounded

LEMMA LoopHasItsTypes == LoopInv => Updates!TypeOK
BY DEF LoopInv, Flags, Ranges, Updates!TypeOK

LEMMA FlagsStep == Flags /\ [Updates!Next]_(Updates!vars) => Flags'
BY DEF Flags, Updates!Next, Updates!Owner, Updates!Start, Updates!MakePortfolio, Updates!Stop,
       Updates!FinishStop, Updates!SwitchTrading, Updates!EventLoop,
   Updates!CheckHeartbeat, Updates!SkipReconnect, Updates!Reconnect, Updates!FailToReconnect, Updates!HandleUpdate, Updates!EndRound, Updates!Outside,
   Updates!Publish, Updates!Push, Updates!LoseConnection, Updates!BrokerChanges, Updates!Tick, Updates!vars, Updates!engine

LEMMA LoopConstants ==
  Updates!LiveFeedAssumption =>
    /\ FirstBackoff \in Nat /\ LastBackoff \in Nat /\ FeedAttempts \in Nat /\ FeedPublished \in Nat
    /\ FeedCapacity \in Nat \ {0} /\ FeedTimeout \in Nat \ {0}
BY DEF Updates!LiveFeedAssumption

LEMMA InitLoop == Updates!LiveFeedAssumption /\ Updates!Init => LoopInv
<1> SUFFICES ASSUME Updates!LiveFeedAssumption, Updates!Init PROVE LoopInv
  OBVIOUS
<1>1. Flags
  BY DEF Updates!Init, Flags
<1>2. Ranges /\ Updates!BackoffIsBounded
  BY LoopConstants DEF Updates!Init, Ranges, Updates!BackoffIsBounded
<1> QED  BY <1>1, <1>2 DEF LoopInv

\* However often the wait was doubled before, it is one of three bounds.
LEMMA NextBackoffIsBounded ==
  ASSUME Updates!LiveFeedAssumption, NEW w \in Nat
  PROVE  /\ Updates!NextBackoff(w) \in Nat
         /\ Updates!NextBackoff(w) <= LastBackoff \/ Updates!NextBackoff(w) <= FirstBackoff \/ Updates!NextBackoff(w) = 1
BY LoopConstants DEF Updates!NextBackoff

LEMMA LoopStep == Updates!LiveFeedAssumption /\ LoopInv /\ [Updates!Next]_(Updates!vars) => LoopInv'
<1> SUFFICES ASSUME Updates!LiveFeedAssumption, Flags, Ranges, Updates!BackoffIsBounded, [Updates!Next]_(Updates!vars)
             PROVE  Ranges' /\ Updates!BackoffIsBounded'
  BY FlagsStep DEF LoopInv
<1>1. CASE Updates!Owner
  <2> USE DEF Ranges, Updates!BackoffIsBounded, Updates!engine, Updates!data, Updates!retry
  <2>1. CASE Updates!Start
    BY <2>1, LoopConstants DEF Updates!Start
  <2>2. CASE Updates!MakePortfolio
    BY <2>2, LoopConstants DEF Updates!MakePortfolio
  <2>3. CASE Updates!Stop
    BY <2>3, LoopConstants DEF Updates!Stop
  <2>4. CASE Updates!FinishStop
    BY <2>4, LoopConstants DEF Updates!FinishStop
  <2>5. CASE Updates!SwitchTrading
    BY <2>5, LoopConstants DEF Updates!SwitchTrading
  <2> QED  BY <1>1, <2>1, <2>2, <2>3, <2>4, <2>5 DEF Updates!Owner
<1>2. CASE Updates!CheckHeartbeat \/ Updates!SkipReconnect \/ Updates!HandleUpdate \/ Updates!EndRound
  <2> USE DEF Ranges, Updates!BackoffIsBounded, Updates!engine, Updates!data, Updates!retry
  <2>1. CASE Updates!CheckHeartbeat
    BY <2>1, LoopConstants DEF Updates!CheckHeartbeat
  <2>2. CASE Updates!SkipReconnect
    BY <2>2, LoopConstants DEF Updates!SkipReconnect
  <2>3. CASE Updates!HandleUpdate
    BY <2>3, LoopConstants DEF Updates!HandleUpdate
  <2>4. CASE Updates!EndRound
    BY <2>4, LoopConstants DEF Updates!EndRound
  <2> QED  BY <1>2, <2>1, <2>2, <2>3, <2>4
<1>3. CASE Updates!Reconnect
  BY <1>3, LoopConstants DEF Ranges, Updates!BackoffIsBounded, Updates!Reconnect, Updates!engine,
                             Updates!data
<1>4. CASE Updates!FailToReconnect
  <2>1. /\ Updates!NextBackoff(feed_backoff) \in Nat
        /\ Updates!NextBackoff(feed_backoff) <= LastBackoff \/ Updates!NextBackoff(feed_backoff) <= FirstBackoff \/ Updates!NextBackoff(feed_backoff) = 1
    BY NextBackoffIsBounded DEF Ranges
  <2>2. Updates!BackoffIsBounded'
    BY <1>4, <2>1 DEF Updates!BackoffIsBounded, Updates!FailToReconnect
  <2>3. Ranges'
    BY <1>4, <2>1, LoopConstants DEF Ranges, Updates!FailToReconnect, Updates!engine, Updates!data
  <2> QED  BY <2>2, <2>3
<1>5. CASE Updates!Outside
  BY <1>5, LoopConstants DEF Ranges, Updates!BackoffIsBounded, Updates!Outside, Updates!Publish,
                             Updates!Push,
     Updates!LoseConnection, Updates!BrokerChanges, Updates!engine, Updates!data, Updates!retry
<1>6. CASE Updates!Tick
  BY <1>6, LoopConstants DEF Ranges, Updates!BackoffIsBounded, Updates!Tick, Updates!engine,
                             Updates!data
<1>7. CASE UNCHANGED Updates!vars
  BY <1>7, LoopConstants DEF Ranges, Updates!BackoffIsBounded, Updates!vars, Updates!engine,
                             Updates!data, Updates!retry
<1> QED  BY <1>1, <1>2, <1>3, <1>4, <1>5, <1>6, <1>7 DEF Updates!Next, Updates!EventLoop

LEMMA LoopIsKept == Updates!LiveFeedAssumption => (Updates!Spec => []LoopInv)
<1> SUFFICES ASSUME Updates!LiveFeedAssumption PROVE Updates!Spec => []LoopInv
  OBVIOUS
<1>1. Updates!Init => LoopInv
  BY InitLoop
<1>2. LoopInv /\ [Updates!Next]_(Updates!vars) => LoopInv'
  BY LoopStep
<1> QED  BY <1>1, <1>2, PTL DEF Updates!Spec
-----------------------------------------------------------------------------
(***************************************************************************)
(* The feed over a WebSocket.                                              *)
(***************************************************************************)
FeedInv == Stream!TypeOK /\ Stream!ServedAsSubscribed

LEMMA InitFeed == Stream!Init => FeedInv
<1> SUFFICES ASSUME Stream!Init PROVE FeedInv
  OBVIOUS
<1>1. stream_feed = [connected |-> TRUE, subscriptions |-> {}]
  BY DEF Stream!Init, Stream!Feed
<1>2. stream_feed.connected = TRUE /\ stream_feed \in [connected : BOOLEAN, subscriptions : SUBSET StreamSymbols]
  BY <1>1
<1>3. {stream_starting, stream_connected, stream_alerted, stream_silent, stream_cut, stream_up, stream_failed} \subseteq BOOLEAN
  BY DEF Stream!Init
<1>4. stream_symbols \subseteq StreamSymbols /\ stream_served \subseteq StreamSymbols /\ stream_connected /\ ~stream_cut
  BY DEF Stream!Init
<1>5. Stream!TypeOK
  BY <1>2, <1>3, <1>4 DEF Stream!TypeOK
<1>6. stream_served = {}
  BY DEF Stream!Init
<1>7. stream_feed.subscriptions = {}
  BY <1>1
<1> QED  BY <1>5, <1>6, <1>7 DEF FeedInv, Stream!ServedAsSubscribed

\* Subscriptions reach the server with the connection that carries them: whoever
\* makes one sends all of them on it, and what is lost leaves cut behind.
LEMMA FeedStep == FeedInv /\ [Stream!Next]_(Stream!vars) => FeedInv'
<1> SUFFICES ASSUME FeedInv, [Stream!Next]_(Stream!vars) PROVE FeedInv'
  OBVIOUS
<1> USE DEF FeedInv, Stream!TypeOK, Stream!ServedAsSubscribed
<1>1. CASE Stream!Subscribe
  BY <1>1 DEF Stream!Subscribe
<1>2. CASE Stream!CheckHeartbeat
  BY <1>2 DEF Stream!CheckHeartbeat
<1>3. CASE Stream!Reconnect
  BY <1>3 DEF Stream!Reconnect, Stream!Feed
<1>4. CASE Stream!FailToReconnect
  BY <1>4 DEF Stream!FailToReconnect, Stream!Feed
<1>5. CASE Stream!PollReconnects
  BY <1>5 DEF Stream!PollReconnects, Stream!Resubscribed
<1>6. CASE Stream!PollFindsCut
  BY <1>6 DEF Stream!PollFindsCut
<1>7. CASE Stream!PollReads
  BY <1>7 DEF Stream!PollReads
<1>8. CASE Stream!BecomeSilent
  BY <1>8 DEF Stream!BecomeSilent
<1>9. CASE Stream!ServerChanges
  BY <1>9 DEF Stream!ServerChanges
<1>10. CASE Stream!LoseConnection
  BY <1>10 DEF Stream!LoseConnection
<1>11. CASE UNCHANGED Stream!vars
  BY <1>11 DEF Stream!vars
<1> QED
  BY <1>1, <1>2, <1>3, <1>4, <1>5, <1>6, <1>7, <1>8, <1>9, <1>10, <1>11 DEF Stream!Next,
                                                                            Stream!EventLoop,
                                                                            Stream!Poll

LEMMA FeedIsServed == Stream!Spec => []FeedInv
BY InitFeed, FeedStep, PTL DEF Stream!Spec
-----------------------------------------------------------------------------
(***************************************************************************)
(* The session with the gateway.                                           *)
(***************************************************************************)
\* Where the engine is tells what the adapter is in: a call that came back has
\* left a session that is ready or none.
CallerKnows ==
  /\ ib_caller = "idle" /\ ib_connected => ib_ready
  /\ ib_caller = "waiting" => ib_connected /\ ib_reader # "none"
  /\ ib_caller = "joining" => ~ib_connected

\* The reader sets the flag after the number.
Numbered == ib_connected /\ (ib_ready \/ ib_reader = "numbered") => ib_next_id >= 0

\* As long as no order came between the two answers, the orders have the numbers
\* that the gateway counts.
CountedAsSent ==
  /\ \A i \in DOMAIN ib_placed : ib_placed[i] = i
  /\ ib_socket => /\ ib_next_id >= 0 => ib_next_id = Ib!NextValidId
               /\ \A k \in DOMAIN ib_inbox : ib_inbox[k] = Ib!NextValidId

SessionFlags == {ib_connected, ib_ready, ib_socket, ib_has_reader, ib_signal, ib_lost, ib_hasty, ib_up} \subseteq BOOLEAN

SessionRanges ==
  /\ ib_caller \in {"idle", "waiting", "joining"}
  /\ ib_next_id \in Int
  /\ ib_reading \in {"off", "on", "ending"}
  /\ ib_inbox \in Seq(Nat) /\ ib_placed \in Seq(Nat)
  /\ ib_reader \in {"none", "waiting", "handling", "numbered", "over"}
  /\ ib_submitting \subseteq Submitters
  /\ ib_connects \in 0 .. GatewayConnects
  /\ ib_caller = "idle" => (ib_reader = "none" <=> ~ib_connected)

SessionInv ==
  /\ SessionFlags
  /\ SessionRanges
  /\ CallerKnows
  /\ Numbered
  /\ ~ib_hasty => CountedAsSent

LEMMA SessionHasItsTypes == SessionInv => Ib!TypeOK
BY DEF SessionInv, SessionFlags, SessionRanges, Ib!TypeOK

LEMMA SessionConstants == Ib!SessionAssumption => GatewayConnects \in Nat /\ GatewayOrders \in Nat
BY DEF Ib!SessionAssumption

LEMMA InitSession == Ib!SessionAssumption /\ Ib!Init => SessionInv
<1> SUFFICES ASSUME Ib!SessionAssumption, Ib!Init PROVE SessionInv
  OBVIOUS
<1>1. SessionFlags
  BY DEF Ib!Init, SessionFlags
<1>2. SessionRanges
  BY SessionConstants DEF Ib!Init, SessionRanges
<1> QED  BY <1>1, <1>2 DEF Ib!Init, SessionInv, CallerKnows, Numbered, CountedAsSent

LEMMA SessionFlagsStep == SessionFlags /\ [Ib!Next]_(Ib!vars) => SessionFlags'
<1> SUFFICES ASSUME SessionFlags, [Ib!Next]_(Ib!vars) PROVE SessionFlags'
  OBVIOUS
<1> USE DEF SessionFlags, Ib!session, Ib!client, Ib!orders
<1>1. CASE Ib!Caller
  BY <1>1 DEF Ib!Caller, Ib!Connect, Ib!ReadyAtConnect, Ib!ConnectFails, Ib!ConnectReturns,
              Ib!Disconnect, Ib!ClosesClient, Ib!Join
<1>2. CASE Ib!Reader
  BY <1>2 DEF Ib!Reader, Ib!WakeReader, Ib!HandleId, Ib!SetReady, Ib!EndHandling
<1>3. CASE Ib!Library \/ Ib!LoseConnection \/ Ib!GatewayChanges
  BY <1>3 DEF Ib!Library, Ib!Arrive, Ib!EndReading, Ib!LoseConnection, Ib!GatewayChanges
<1>4. CASE \E s \in Submitters : Ib!Submitter(s)
  BY <1>4 DEF Ib!Submitter, Ib!FindReady, Ib!PlaceOrder
<1>5. CASE UNCHANGED Ib!vars
  BY <1>5 DEF Ib!vars
<1> QED  BY <1>1, <1>2, <1>3, <1>4, <1>5 DEF Ib!Next

LEMMA ConnectStep == Ib!SessionAssumption /\ SessionInv /\ Ib!Connect => SessionRanges' /\ CallerKnows' /\ Numbered' /\ (~ib_hasty' => CountedAsSent')
<1> SUFFICES ASSUME Ib!SessionAssumption, SessionInv, Ib!Connect
             PROVE  SessionRanges' /\ CallerKnows' /\ Numbered' /\ (~ib_hasty' => CountedAsSent')
  OBVIOUS
<1>1. Ib!NextValidId \in Nat /\ Ib!NextValidId' = Ib!NextValidId
  BY DEF SessionInv, SessionRanges, Ib!Connect, Ib!NextValidId, Ib!orders
<1>2. CallerKnows' /\ Numbered'
  BY DEF Ib!Connect, CallerKnows, Numbered, Ib!ReadyAtConnect
<1>3. ib_inbox' \in Seq(Nat) /\ (ib_socket' => \A k \in DOMAIN ib_inbox' : ib_inbox'[k] = Ib!NextValidId)
  BY <1>1 DEF Ib!Connect
<1>4. SessionRanges'
  BY <1>2, <1>3, SessionConstants DEF SessionInv, SessionRanges, Ib!Connect, Ib!orders
<1>5. ~ib_hasty' => CountedAsSent'
  BY <1>1, <1>3 DEF SessionInv, Ib!Connect, CountedAsSent, Ib!orders
<1> QED  BY <1>2, <1>4, <1>5

LEMMA CallerStep ==
  SessionInv /\ (Ib!ConnectFails \/ Ib!ConnectReturns \/ Ib!Disconnect \/ Ib!Join)
    => SessionRanges' /\ CallerKnows' /\ Numbered' /\ (~ib_hasty' => CountedAsSent')
<1> SUFFICES ASSUME SessionInv, Ib!ConnectFails \/ Ib!ConnectReturns \/ Ib!Disconnect \/ Ib!Join
             PROVE  SessionRanges' /\ CallerKnows' /\ Numbered' /\ (~ib_hasty' => CountedAsSent')
  OBVIOUS
<1> USE DEF SessionInv, SessionRanges, CallerKnows, Numbered, CountedAsSent, Ib!NextValidId,
            Ib!session, Ib!client, Ib!orders
<1>1. CASE Ib!ConnectFails
  BY <1>1 DEF Ib!ConnectFails, Ib!MayConnect
<1>2. CASE Ib!ConnectReturns
  BY <1>2 DEF Ib!ConnectReturns
<1>3. CASE Ib!Disconnect
  BY <1>3 DEF Ib!Disconnect, Ib!ClosesClient
<1>4. CASE Ib!Join
  BY <1>4 DEF Ib!Join
<1> QED  BY <1>1, <1>2, <1>3, <1>4

LEMMA ReaderStep ==
  SessionInv /\ Ib!Reader => SessionRanges' /\ CallerKnows' /\ Numbered' /\ (~ib_hasty' => CountedAsSent')
<1> SUFFICES ASSUME SessionInv, Ib!Reader
             PROVE  SessionRanges' /\ CallerKnows' /\ Numbered' /\ (~ib_hasty' => CountedAsSent')
  OBVIOUS
<1> USE DEF SessionInv, SessionRanges, CallerKnows, Numbered, CountedAsSent, Ib!NextValidId,
            Ib!session, Ib!client, Ib!orders
<1>1. CASE Ib!WakeReader
  BY <1>1 DEF Ib!WakeReader
<1>2. CASE Ib!HandleId
  <2>1. Head(ib_inbox) \in Nat /\ Tail(ib_inbox) \in Seq(Nat) /\ Head(ib_inbox) = ib_inbox[1] /\ 1 \in DOMAIN ib_inbox
    BY <1>2 DEF Ib!HandleId
  <2>2. \A k \in DOMAIN Tail(ib_inbox) : k + 1 \in DOMAIN ib_inbox /\ Tail(ib_inbox)[k] = ib_inbox[k + 1]
    BY <1>2 DEF Ib!HandleId
  <2> QED  BY <1>2, <2>1, <2>2 DEF Ib!HandleId
<1>3. CASE Ib!SetReady
  BY <1>3 DEF Ib!SetReady
<1>4. CASE Ib!EndHandling
  BY <1>4 DEF Ib!EndHandling
<1> QED  BY <1>1, <1>2, <1>3, <1>4 DEF Ib!Reader

LEMMA NetworkStep ==
  SessionInv /\ (Ib!Library \/ Ib!LoseConnection \/ Ib!GatewayChanges)
    => SessionRanges' /\ CallerKnows' /\ Numbered' /\ (~ib_hasty' => CountedAsSent')
BY DEF SessionInv, SessionRanges, CallerKnows, Numbered, CountedAsSent, Ib!NextValidId,
       Ib!Library, Ib!Arrive,
   Ib!EndReading, Ib!LoseConnection, Ib!GatewayChanges, Ib!session, Ib!client, Ib!orders

LEMMA SubmitterStep ==
  ASSUME SessionInv, NEW s \in Submitters, Ib!Submitter(s)
  PROVE  SessionRanges' /\ CallerKnows' /\ Numbered' /\ (~ib_hasty' => CountedAsSent')
<1> USE DEF SessionInv, SessionRanges, CallerKnows, Numbered, Ib!session, Ib!client
<1>1. CASE Ib!FindReady(s)
  BY <1>1 DEF Ib!FindReady, CountedAsSent, Ib!NextValidId
<1>2. CASE Ib!PlaceOrder(s)
  <2>1. CASE ib_next_id < 0
    BY <1>2, <2>1 DEF Ib!PlaceOrder, CountedAsSent, Ib!NextValidId
  <2>2. CASE ib_next_id >= 0
    <3>0. ~(ib_next_id < 0)
      BY <2>2
    <3>a. /\ ib_next_id' = Ib!Taken
          /\ ib_placed' = IF ib_socket THEN Append(ib_placed, ib_next_id) ELSE ib_placed
          /\ ib_hasty' = (ib_hasty \/ ib_inbox # <<>>)
          /\ ib_inbox' = ib_inbox /\ ib_socket' = ib_socket
      BY <1>2, <3>0, Zenon DEF Ib!PlaceOrder
    <3>1. ib_placed' \in Seq(Nat) /\ ib_next_id' = ib_next_id + 1
      BY <2>2, <3>a DEF Ib!Taken
    <3>2. ASSUME ~ib_hasty' PROVE CountedAsSent'
      <4>1. ~ib_hasty /\ ib_inbox = <<>> /\ ib_inbox' = <<>> /\ ib_socket' = ib_socket
        BY <3>a, <3>2, Zenon
      <4>2. CASE ib_socket
        <5>1. ib_placed' = Append(ib_placed, Len(ib_placed) + 1) /\ ib_next_id' = Len(ib_placed) + 2
          BY <1>2, <2>2, <4>1, <4>2, <3>1 DEF Ib!PlaceOrder, CountedAsSent, Ib!NextValidId
        <5>2. \A i \in DOMAIN ib_placed : ib_placed[i] = i
          BY <4>1 DEF CountedAsSent
        <5> QED  BY <5>1, <5>2, <4>1 DEF CountedAsSent, Ib!NextValidId
      <4>3. CASE ~ib_socket
        BY <1>2, <2>2, <4>1, <4>3 DEF Ib!PlaceOrder, CountedAsSent
      <4> QED  BY <4>2, <4>3
    <3> QED  BY <1>2, <2>2, <3>1, <3>2 DEF Ib!PlaceOrder
  <2> QED  BY <2>1, <2>2
<1> QED  BY <1>1, <1>2 DEF Ib!Submitter

LEMMA SessionIsKept == Ib!SessionAssumption => (Ib!Spec => []SessionInv)
<1> SUFFICES ASSUME Ib!SessionAssumption PROVE Ib!Spec => []SessionInv
  OBVIOUS
<1>1. Ib!Init => SessionInv
  BY InitSession
<1>2. SessionInv /\ [Ib!Next]_(Ib!vars) => SessionInv'
  <2> SUFFICES ASSUME SessionInv, [Ib!Next]_(Ib!vars)
               PROVE  SessionRanges' /\ CallerKnows' /\ Numbered' /\ (~ib_hasty' => CountedAsSent')
    BY SessionFlagsStep DEF SessionInv
  <2>1. CASE UNCHANGED Ib!vars
    BY <2>1 DEF SessionInv, SessionRanges, CallerKnows, Numbered, CountedAsSent, Ib!NextValidId,
                Ib!vars, Ib!session,
       Ib!client, Ib!orders
  <2> QED
    BY <2>1, ConnectStep, CallerStep, ReaderStep, NetworkStep, SubmitterStep DEF Ib!Next,
                                                                                 Ib!Caller
<1> QED  BY <1>1, <1>2, PTL DEF Ib!Spec

LEMMA SessionNumbersItsOrders == SessionInv => Ib!ReadyIsNumbered /\ Ib!OrdersHaveOwnNumbers
BY DEF SessionInv, SessionRanges, Numbered, CountedAsSent, Ib!ReadyIsNumbered,
       Ib!OrdersHaveOwnNumbers
-----------------------------------------------------------------------------
(***************************************************************************)
(* The replay journal.                                                     *)
(***************************************************************************)
Piece(n) == [event : 0 .. n, kind : {"text", "half", "newline"}]

JournalTypes ==
  /\ journal_file \in Seq(Piece(journal_number))
  /\ journal_flushed \in 0 .. Len(journal_file)
  /\ journal_stream \in {"closed", "open", "bad"}
  /\ journal_writing \in [JournalThreads -> 0 .. journal_number]
  /\ journal_number \in Nat /\ journal_number \in 0 .. JournalEvents
  /\ journal_reported \subseteq 1 .. journal_number
  /\ journal_failures \in 0 .. JournalFailures
  /\ journal_disturbed \in BOOLEAN

LinesLost == {e \in journal_reported : \A i \in 1 .. journal_flushed : journal_file[i] # Journal!Text(e)}

\* What a thread is about to report is in the file as long as the stream takes it,
\* and every refusal of the disk has cost one reported event at most.
JournalKept ==
  /\ journal_stream = "closed" => \A t \in JournalThreads : journal_writing[t] = 0
  /\ journal_stream = "open" =>
       \A t \in JournalThreads : journal_writing[t] # 0 => \E i \in DOMAIN journal_file : journal_file[i] = Journal!Text(journal_writing[t])
  /\ Cardinality(LinesLost) <= journal_failures

\* Calls that do not overlap leave whole lines in order, but for the last one while
\* it is written, and nothing that is not on the disk.
JournalTidy ==
  /\ journal_stream # "bad"
  /\ \A t, u \in JournalThreads : journal_writing[t] # 0 /\ journal_writing[u] # 0 => t = u
  /\ (\A t \in JournalThreads : journal_writing[t] = 0) =>
       /\ journal_flushed = Len(journal_file)
       /\ journal_file # <<>> => journal_file[Len(journal_file)] = Journal!Newline
  /\ Journal!Readable
  /\ \A i, j \in Journal!Events : i < j => journal_file[i].event < journal_file[j].event

JournalInv == JournalTypes /\ JournalKept /\ (~journal_disturbed => JournalTidy)

LEMMA PiecesOfTheJournal ==
  ASSUME NEW n \in Nat, NEW e \in 0 .. n
  PROVE  /\ Journal!Text(e) \in Piece(n) /\ Journal!Half(e) \in Piece(n) /\ Journal!Newline \in Piece(n)
         /\ Journal!Text(e).kind = "text" /\ Journal!Text(e).event = e /\ Journal!Newline.kind = "newline"
         /\ Journal!Text(e) # Journal!Newline
BY DEF Journal!Text, Journal!Half, Journal!Newline, Piece

\* A tear leaves what was on the disk.
LEMMA TornKeepsTheFlushed ==
  ASSUME NEW n \in Nat, NEW pieces \in Seq(Piece(n)), journal_flushed \in 0 .. Len(pieces),
         NEW f \in Journal!Torn(pieces)
  PROVE  /\ f \in Seq(Piece(n)) /\ journal_flushed <= Len(f)
         /\ \A i \in 1 .. journal_flushed : f[i] = pieces[i]
         /\ journal_flushed = Len(pieces) => f = pieces
<1>1. CASE \E k \in journal_flushed .. Len(pieces) : f = SubSeq(pieces, 1, k)
  <2>1. PICK k \in journal_flushed .. Len(pieces) : f = SubSeq(pieces, 1, k)
    BY <1>1
  <2>2. /\ SubSeq(pieces, 1, k) \in Seq(Piece(n)) /\ Len(SubSeq(pieces, 1, k)) = k
        /\ \A i \in 1 .. k : SubSeq(pieces, 1, k)[i] = pieces[i]
    BY SubSeqProperties
  <2>3. k = Len(pieces) => SubSeq(pieces, 1, k) = pieces
    BY <2>2, SeqEqual
  <2> QED  BY <2>1, <2>2, <2>3
<1>2. CASE \E k \in {m \in journal_flushed .. Len(pieces) - 1 : pieces[m + 1].kind = "text"} :
             f = Append(SubSeq(pieces, 1, k), Journal!Half(pieces[k + 1].event))
  <2>1. PICK k \in journal_flushed .. Len(pieces) - 1 : f = Append(SubSeq(pieces, 1, k), Journal!Half(pieces[k + 1].event))
    BY <1>2
  <2>2. /\ SubSeq(pieces, 1, k) \in Seq(Piece(n)) /\ Len(SubSeq(pieces, 1, k)) = k
        /\ \A i \in 1 .. k : SubSeq(pieces, 1, k)[i] = pieces[i]
    BY SubSeqProperties
  <2>3. k + 1 \in 1 .. Len(pieces) /\ pieces[k + 1] \in Piece(n)
    OBVIOUS
  <2>4. pieces[k + 1].event \in 0 .. n
    BY <2>3 DEF Piece
  <2>5. Journal!Half(pieces[k + 1].event) \in Piece(n)
    BY <2>4, PiecesOfTheJournal
  <2> QED  BY <2>1, <2>2, <2>5, AppendProperties
<1> QED  BY <1>1, <1>2 DEF Journal!Torn

LEMMA LostIsFinite ==
  ASSUME JournalTypes
  PROVE  IsFiniteSet(LinesLost) /\ Cardinality(LinesLost) \in Nat
<1>1. LinesLost \subseteq 1 .. journal_number /\ journal_number \in Nat
  BY DEF LinesLost, JournalTypes
<1>2. IsFiniteSet(1 .. journal_number)
  BY <1>1, FS_Interval
<1> QED  BY <1>1, <1>2, FS_Subset, FS_CardinalityType

\* Losing nothing, or at most one more.
LEMMA FewerLost ==
  ASSUME JournalTypes, NEW S, NEW x, S \subseteq LinesLost \cup {x}
  PROVE  /\ Cardinality(S) \in Nat
         /\ Cardinality(S) <= Cardinality(LinesLost) + 1
         /\ S \subseteq LinesLost => Cardinality(S) <= Cardinality(LinesLost)
<1>1. IsFiniteSet(LinesLost) /\ Cardinality(LinesLost) \in Nat
  BY LostIsFinite
<1>2. /\ IsFiniteSet(LinesLost \cup {x})
      /\ Cardinality(LinesLost \cup {x}) = Cardinality(LinesLost) \/ Cardinality(LinesLost \cup {x}) = Cardinality(LinesLost) + 1
  BY <1>1, FS_AddElement
<1>3. IsFiniteSet(S) /\ Cardinality(S) <= Cardinality(LinesLost \cup {x})
  BY <1>2, FS_Subset
<1>4. S \subseteq LinesLost => Cardinality(S) <= Cardinality(LinesLost)
  BY <1>1, FS_Subset
<1> QED  BY <1>1, <1>2, <1>3, <1>4, FS_CardinalityType

LEMMA WriteTextStep ==
  ASSUME Journal!JournalAssumption, JournalInv, NEW t \in JournalThreads, Journal!WriteText(t) PROVE JournalInv'
<1> DEFINE e == journal_number + 1
<1>1. /\ journal_number' = e /\ e \in 1 .. JournalEvents /\ journal_stream' = "open" /\ journal_stream # "bad"
      /\ journal_file' = Append(journal_file, Journal!Text(e)) /\ journal_writing' = [journal_writing EXCEPT ![t] = e]
      /\ journal_flushed' = journal_flushed /\ journal_reported' = journal_reported /\ journal_failures' = journal_failures /\ journal_writing[t] = 0
      /\ journal_number \in Nat /\ JournalEvents \in Nat
  BY DEF Journal!WriteText, JournalInv, JournalTypes, Journal!JournalAssumption
<1>2. journal_disturbed' = (journal_disturbed \/ \E u \in JournalThreads : journal_writing[u] # 0)
  BY Zenon DEF Journal!WriteText
<1>3. journal_file \in Seq(Piece(e)) /\ Journal!Text(e) \in Piece(e)
  <2>1. \A i \in 1 .. Len(journal_file) : journal_file[i] \in Piece(journal_number)
    BY DEF JournalInv, JournalTypes
  <2>2. \A i \in 1 .. Len(journal_file) : journal_file[i] \in Piece(e)
    BY <2>1, <1>1 DEF Piece
  <2>3. journal_file \in Seq(Piece(e))
    BY <2>2, SeqDef DEF JournalInv, JournalTypes
  <2> QED  BY <1>1, <2>3, PiecesOfTheJournal
<1>4. /\ journal_file' \in Seq(Piece(e)) /\ Len(journal_file') = Len(journal_file) + 1
      /\ \A i \in 1 .. Len(journal_file) : journal_file'[i] = journal_file[i]
      /\ journal_file'[Len(journal_file) + 1] = Journal!Text(e)
  BY <1>1, <1>3, AppendProperties
<1>5. JournalTypes'
  BY <1>1, <1>2, <1>4 DEF JournalInv, JournalTypes
<1>6. JournalKept'
  <2>1. LinesLost' = LinesLost
    BY <1>1, <1>4 DEF LinesLost, JournalInv, JournalTypes
  <2>2. ASSUME NEW u \in JournalThreads, journal_writing'[u] # 0
        PROVE  \E i \in DOMAIN journal_file' : journal_file'[i] = Journal!Text(journal_writing'[u])
    <3>1. CASE u = t
      <4>1. journal_writing'[u] = e
        BY <3>1, <1>1 DEF JournalInv, JournalTypes
      <4> QED  BY <4>1, <1>4
    <3>2. CASE u # t
      <4>1. journal_writing'[u] = journal_writing[u] /\ journal_stream = "open"
        BY <3>2, <2>2, <1>1 DEF JournalInv, JournalTypes, JournalKept
      <4>2. PICK i \in DOMAIN journal_file : journal_file[i] = Journal!Text(journal_writing[u])
        BY <4>1, <2>2 DEF JournalInv, JournalKept
      <4> QED  BY <4>1, <4>2, <1>4
    <3> QED  BY <3>1, <3>2
  <2> QED  BY <1>1, <2>1, <2>2 DEF JournalKept, JournalInv
<1>7. ASSUME ~journal_disturbed' PROVE JournalTidy'
  <2>1. ~journal_disturbed /\ \A u \in JournalThreads : journal_writing[u] = 0
    BY <1>2, <1>7
  <2>2. JournalTidy
    BY <2>1 DEF JournalInv
  <2>3. \A u \in JournalThreads : journal_writing'[u] # 0 => u = t
    BY <1>1, <2>1 DEF JournalInv, JournalTypes
  <2>4. journal_writing'[t] # 0
    BY <1>1 DEF JournalInv, JournalTypes
  <2>5. Journal!Readable'
    <3>1. journal_file # <<>> => journal_file[Len(journal_file)].kind = "newline"
      BY <2>1, <2>2, PiecesOfTheJournal DEF JournalTidy
    <3>2. \A i \in DOMAIN journal_file : journal_file[i].kind # "half" /\ (journal_file[i].kind = "text" /\ i < Len(journal_file) => journal_file[i + 1] = Journal!Newline)
      BY <2>2 DEF JournalTidy, Journal!Readable
    <3>3. Journal!Text(e).kind = "text"
      BY DEF Journal!Text
    <3> QED  BY <1>4, <3>1, <3>2, <3>3, SMTT(30) DEF Journal!Readable, JournalInv, JournalTypes
  <2>6. \A i, j \in Journal!Events' : i < j => journal_file'[i].event < journal_file'[j].event
    <3>1. Journal!Text(e).event = e
      BY DEF Journal!Text
    <3>2. \A i \in 1 .. Len(journal_file) : journal_file[i].event \in 0 .. journal_number
      <4>1. \A i \in 1 .. Len(journal_file) : journal_file[i] \in Piece(journal_number)
        BY DEF JournalInv, JournalTypes
      <4> QED  BY <4>1 DEF Piece
    <3>3. \A i, j \in Journal!Events : i < j => journal_file[i].event < journal_file[j].event
      BY <2>2 DEF JournalTidy
    <3>4. Journal!Events' \subseteq Journal!Events \cup {Len(journal_file) + 1} /\ Journal!Events \subseteq 1 .. Len(journal_file)
      BY <1>4, SMTT(30) DEF Journal!Events, JournalInv, JournalTypes
    <3> QED  BY <1>1, <1>4, <3>1, <3>2, <3>3, <3>4
  <2> QED  BY <1>1, <2>3, <2>4, <2>5, <2>6 DEF JournalTidy
<1> QED  BY <1>5, <1>6, <1>7 DEF JournalInv

LEMMA EndLineStep ==
  ASSUME Journal!JournalAssumption, JournalInv, NEW t \in JournalThreads, Journal!EndLine(t) PROVE JournalInv'
<1>1. /\ journal_writing[t] # 0 /\ journal_stream = "open" /\ journal_stream' = "open" /\ journal_number' = journal_number
      /\ journal_file' = Append(journal_file, Journal!Newline) /\ journal_flushed' = Len(journal_file) + 1
      /\ journal_writing' = [journal_writing EXCEPT ![t] = 0] /\ journal_reported' = journal_reported \cup {journal_writing[t]}
      /\ journal_failures' = journal_failures
      /\ journal_number \in Nat
  BY DEF Journal!EndLine, JournalInv, JournalTypes, Journal!JournalAssumption
<1>2. journal_disturbed' = journal_disturbed
  BY Zenon DEF Journal!EndLine
<1>3. /\ journal_file' \in Seq(Piece(journal_number)) /\ Len(journal_file') = Len(journal_file) + 1
      /\ \A i \in 1 .. Len(journal_file) : journal_file'[i] = journal_file[i]
      /\ journal_file'[Len(journal_file) + 1] = Journal!Newline
  <2>1. Journal!Newline \in Piece(journal_number)
    BY <1>1, PiecesOfTheJournal
  <2> QED  BY <1>1, <2>1, AppendProperties DEF JournalInv, JournalTypes
<1>4. journal_writing[t] \in 1 .. journal_number
  BY <1>1 DEF JournalInv, JournalTypes
<1>5. JournalTypes'
  <2>0. journal_reported \subseteq 1 .. journal_number /\ Len(journal_file) \in Nat
    BY DEF JournalInv, JournalTypes
  <2>a. journal_reported' \subseteq 1 .. journal_number
    BY <1>1, <1>4, <2>0, Zenon
  <2>b. journal_flushed' \in 0 .. Len(journal_file')
    BY <1>1, <1>3, <2>0
  <2>1. journal_reported' \subseteq 1 .. journal_number /\ journal_flushed' \in 0 .. Len(journal_file')
    BY <2>a, <2>b
  <2>2. journal_writing' \in [JournalThreads -> 0 .. journal_number]
    BY <1>1 DEF JournalInv, JournalTypes
  <2> QED  BY <1>1, <1>2, <1>3, <2>1, <2>2 DEF JournalInv, JournalTypes
<1>6. PICK k \in DOMAIN journal_file : journal_file[k] = Journal!Text(journal_writing[t])
  BY <1>1 DEF JournalInv, JournalKept
<1>7. JournalKept'
  <2>1. ASSUME NEW e \in LinesLost' PROVE e \in LinesLost
    <3>1. e \in journal_reported \cup {journal_writing[t]} /\ \A i \in 1 .. Len(journal_file) : journal_file[i] # Journal!Text(e)
      BY <1>1, <1>3, <2>1 DEF LinesLost, JournalInv, JournalTypes
    <3>2. e # journal_writing[t]
      BY <1>6, <3>1 DEF JournalInv, JournalTypes
    <3> QED  BY <3>1, <3>2 DEF LinesLost, JournalInv, JournalTypes
  <2>2. Cardinality(LinesLost') <= journal_failures'
    <3>1. Cardinality(LinesLost') \in Nat /\ Cardinality(LinesLost') <= Cardinality(LinesLost)
      BY <2>1, FewerLost DEF JournalInv
    <3> QED  BY <1>1, <3>1, LostIsFinite DEF JournalInv, JournalKept, JournalTypes
  <2>3. ASSUME NEW u \in JournalThreads, journal_writing'[u] # 0
        PROVE  \E i \in DOMAIN journal_file' : journal_file'[i] = Journal!Text(journal_writing'[u])
    <3>1. journal_writing'[u] = journal_writing[u]
      BY <2>3, <1>1 DEF JournalInv, JournalTypes
    <3>2. PICK i \in DOMAIN journal_file : journal_file[i] = Journal!Text(journal_writing[u])
      BY <3>1, <2>3, <1>1 DEF JournalInv, JournalKept
    <3> QED  BY <3>1, <3>2, <1>3
  <2> QED  BY <1>1, <2>2, <2>3 DEF JournalKept
<1>8. ASSUME ~journal_disturbed' PROVE JournalTidy'
  <2>1. JournalTidy
    BY <1>2, <1>8 DEF JournalInv
  <2>2. \A u \in JournalThreads : journal_writing'[u] = 0
    BY <2>1, <1>1 DEF JournalTidy, JournalInv, JournalTypes
  <2>3. Journal!Newline.kind = "newline"
    BY DEF Journal!Newline
  <2>4. Journal!Readable'
    <3>1. \A i \in 1 .. Len(journal_file) : journal_file[i].kind # "half" /\ (journal_file[i].kind = "text" /\ i < Len(journal_file) => journal_file[i + 1] = Journal!Newline)
      BY <2>1 DEF JournalTidy, Journal!Readable, JournalInv, JournalTypes
    <3>2. DOMAIN journal_file' = 1 .. Len(journal_file) + 1 /\ Len(journal_file) \in Nat
      BY <1>3 DEF JournalInv, JournalTypes
    <3> QED  BY <1>3, <2>3, <3>1, <3>2 DEF Journal!Readable
  <2>5. \A i, j \in Journal!Events' : i < j => journal_file'[i].event < journal_file'[j].event
    <3>1. Journal!Events' = Journal!Events /\ Journal!Events \subseteq 1 .. Len(journal_file)
      BY <1>3, <2>3, SMTT(30) DEF Journal!Events, JournalInv, JournalTypes
    <3> QED  BY <3>1, <1>3, <2>1 DEF JournalTidy
  <2> QED  BY <1>1, <1>3, <2>2, <2>4, <2>5 DEF JournalTidy
<1> QED  BY <1>5, <1>7, <1>8 DEF JournalInv

LEMMA DiskRefusesStep ==
  ASSUME Journal!JournalAssumption, JournalInv, NEW t \in JournalThreads, Journal!DiskRefuses(t) PROVE JournalInv'
<1>1. /\ journal_writing[t] # 0 /\ journal_stream = "open" /\ journal_stream' = "bad" /\ journal_number' = journal_number
      /\ journal_file' \in Journal!Torn(Append(journal_file, Journal!Newline)) /\ journal_flushed' = Len(journal_file')
      /\ journal_writing' = [journal_writing EXCEPT ![t] = 0] /\ journal_reported' = journal_reported \cup {journal_writing[t]}
      /\ journal_failures' = journal_failures + 1 /\ journal_failures < JournalFailures /\ JournalFailures \in Nat
      /\ journal_number \in Nat
  BY DEF Journal!DiskRefuses, JournalInv, JournalTypes, Journal!JournalAssumption
<1>2. journal_disturbed' = TRUE
  BY Zenon DEF Journal!DiskRefuses
<1>3. /\ Append(journal_file, Journal!Newline) \in Seq(Piece(journal_number)) /\ Len(Append(journal_file, Journal!Newline)) = Len(journal_file) + 1
      /\ \A i \in 1 .. Len(journal_file) : Append(journal_file, Journal!Newline)[i] = journal_file[i]
  <2>1. Journal!Newline \in Piece(journal_number)
    BY <1>1, PiecesOfTheJournal
  <2> QED  BY <2>1, AppendProperties DEF JournalInv, JournalTypes
<1>4. journal_flushed \in 0 .. Len(journal_file) /\ journal_flushed \in 0 .. Len(Append(journal_file, Journal!Newline)) /\ journal_file \in Seq(Piece(journal_number))
  BY <1>3 DEF JournalInv, JournalTypes
<1>5. /\ journal_file' \in Seq(Piece(journal_number)) /\ journal_flushed <= Len(journal_file')
      /\ \A i \in 1 .. journal_flushed : journal_file'[i] = Append(journal_file, Journal!Newline)[i]
  <2>1. PICK p \in Seq(Piece(journal_number)) : p = Append(journal_file, Journal!Newline)
    BY <1>3
  <2>2. journal_flushed \in 0 .. Len(p) /\ journal_file' \in Journal!Torn(p) /\ journal_number \in Nat
    BY <1>1, <1>4, <2>1
  <2>3. journal_file' \in Seq(Piece(journal_number)) /\ journal_flushed <= Len(journal_file') /\ \A i \in 1 .. journal_flushed : journal_file'[i] = p[i]
    BY <2>2, TornKeepsTheFlushed
  <2> QED  BY <2>1, <2>3
<1>6. \A i \in 1 .. journal_flushed : journal_file'[i] = journal_file[i]
  BY <1>3, <1>4, <1>5
<1>7. journal_writing[t] \in 1 .. journal_number
  BY <1>1 DEF JournalInv, JournalTypes
<1>8. JournalTypes'
  <2>0. journal_reported \subseteq 1 .. journal_number /\ Len(journal_file') \in Nat /\ journal_failures \in Nat
    BY <1>1, <1>5 DEF JournalInv, JournalTypes
  <2>1. journal_reported' \subseteq 1 .. journal_number /\ journal_flushed' \in 0 .. Len(journal_file') /\ journal_failures' \in 0 .. JournalFailures
    <3>1. journal_reported' \subseteq 1 .. journal_number
      BY <1>1, <1>7, <2>0, Zenon
    <3>2. journal_flushed' \in 0 .. Len(journal_file')
      BY <1>1, <2>0
    <3>3. journal_failures' \in 0 .. JournalFailures
      BY <1>1, <2>0
    <3> QED  BY <3>1, <3>2, <3>3
  <2>2. journal_writing' \in [JournalThreads -> 0 .. journal_number]
    BY <1>1 DEF JournalInv, JournalTypes
  <2> QED  BY <1>1, <1>2, <1>5, <2>1, <2>2 DEF JournalInv, JournalTypes
<1>9. JournalKept'
  <2>1. LinesLost' \subseteq LinesLost \cup {journal_writing[t]}
    BY <1>1, <1>4, <1>5, <1>6 DEF LinesLost
  <2>2. Cardinality(LinesLost') \in Nat /\ Cardinality(LinesLost') <= Cardinality(LinesLost) + 1
    BY <2>1, FewerLost DEF JournalInv
  <2> QED  BY <1>1, <2>2, LostIsFinite DEF JournalInv, JournalKept, JournalTypes
<1> QED  BY <1>2, <1>8, <1>9 DEF JournalInv

LEMMA CrashStep == Journal!JournalAssumption /\ JournalInv /\ Journal!Crash => JournalInv'
<1> SUFFICES ASSUME Journal!JournalAssumption, JournalInv, Journal!Crash PROVE JournalInv'
  OBVIOUS
<1>1. /\ journal_stream' = "closed" /\ journal_number' = journal_number /\ journal_reported' = journal_reported
      /\ journal_file' \in Journal!Torn(journal_file) /\ journal_flushed' = Len(journal_file')
      /\ journal_writing' = [t \in JournalThreads |-> 0]
      /\ journal_failures' = journal_failures + 1 /\ journal_failures < JournalFailures /\ JournalFailures \in Nat
      /\ journal_number \in Nat /\ journal_file \in Seq(Piece(journal_number)) /\ journal_flushed \in 0 .. Len(journal_file)
  BY DEF Journal!Crash, JournalInv, JournalTypes, Journal!JournalAssumption
<1>2. journal_disturbed' = (journal_disturbed \/ \E t \in JournalThreads : journal_writing[t] # 0)
  BY Zenon DEF Journal!Crash
<1>3. /\ journal_file' \in Seq(Piece(journal_number)) /\ journal_flushed <= Len(journal_file')
      /\ \A i \in 1 .. journal_flushed : journal_file'[i] = journal_file[i]
      /\ journal_flushed = Len(journal_file) => journal_file' = journal_file
  BY <1>1, TornKeepsTheFlushed
<1>4. JournalTypes'
  BY <1>1, <1>2, <1>3 DEF JournalInv, JournalTypes
<1>5. JournalKept'
  <2>1. LinesLost' \subseteq LinesLost
    BY <1>1, <1>3 DEF LinesLost
  <2>2. Cardinality(LinesLost') \in Nat /\ Cardinality(LinesLost') <= Cardinality(LinesLost)
    BY <2>1, FewerLost DEF JournalInv
  <2> QED  BY <1>1, <2>2, LostIsFinite DEF JournalInv, JournalKept, JournalTypes
<1>6. ASSUME ~journal_disturbed' PROVE JournalTidy'
  <2>1. JournalTidy /\ \A t \in JournalThreads : journal_writing[t] = 0
    BY <1>2, <1>6 DEF JournalInv
  <2>2. journal_file' = journal_file
    BY <2>1, <1>3 DEF JournalTidy
  <2> QED  BY <1>1, <2>1, <2>2 DEF JournalTidy, Journal!Readable, Journal!Events
<1> QED  BY <1>4, <1>5, <1>6 DEF JournalInv

LEMMA RefusedStep ==
  ASSUME Journal!JournalAssumption, JournalInv, NEW t \in JournalThreads, Journal!Refuse(t) \/ Journal!EndRefused(t) PROVE JournalInv'
<1>1. /\ journal_file' = journal_file /\ journal_flushed' = journal_flushed /\ journal_stream' = journal_stream /\ journal_stream = "bad"
      /\ journal_reported' = journal_reported /\ journal_failures' = journal_failures
      /\ journal_number' \in 0 .. JournalEvents /\ journal_number' >= journal_number
      /\ \A u \in JournalThreads : journal_writing'[u] \in 0 .. journal_number
      /\ journal_writing' \in [JournalThreads -> 0 .. journal_number]
  BY DEF Journal!Refuse, Journal!EndRefused, JournalInv, JournalTypes, Journal!JournalAssumption
<1>2. journal_disturbed' = journal_disturbed
  BY Zenon DEF Journal!Refuse, Journal!EndRefused
<1>3. journal_disturbed
  BY <1>1 DEF JournalInv, JournalTidy
<1>4. journal_file \in Seq(Piece(journal_number'))
  <2>1. \A i \in 1 .. Len(journal_file) : journal_file[i] \in Piece(journal_number)
    BY DEF JournalInv, JournalTypes
  <2>2. \A i \in 1 .. Len(journal_file) : journal_file[i] \in Piece(journal_number')
    BY <2>1, <1>1 DEF Piece, JournalInv, JournalTypes
  <2> QED  BY <2>2, SeqDef DEF JournalInv, JournalTypes
<1>5. LinesLost' = LinesLost
  BY <1>1 DEF LinesLost
<1>6. journal_writing' \in [JournalThreads -> 0 .. journal_number'] /\ journal_reported \subseteq 1 .. journal_number'
  BY <1>1 DEF JournalInv, JournalTypes
<1>7. JournalTypes'
  BY <1>1, <1>2, <1>4, <1>6 DEF JournalInv, JournalTypes
<1>8. JournalKept'
  BY <1>1, <1>5 DEF JournalInv, JournalKept
<1> QED  BY <1>2, <1>3, <1>7, <1>8 DEF JournalInv

LEMMA InitJournal == Journal!JournalAssumption /\ Journal!Init => JournalInv
<1> SUFFICES ASSUME Journal!JournalAssumption, Journal!Init PROVE JournalInv
  OBVIOUS
<1>1. LinesLost = {}
  BY DEF Journal!Init, LinesLost
<1>2. Cardinality(LinesLost) = 0
  BY <1>1, FS_EmptySet
<1>3. JournalEvents \in Nat /\ JournalFailures \in Nat
  BY DEF Journal!JournalAssumption
<1>4. journal_file = <<>> /\ Len(journal_file) = 0 /\ journal_file \in Seq(Piece(journal_number)) /\ journal_flushed = 0 /\ journal_number = 0
  BY DEF Journal!Init
<1>5. JournalTypes
  <2>1. /\ journal_stream \in {"closed", "open", "bad"} /\ journal_writing \in [JournalThreads -> 0 .. journal_number]
        /\ journal_reported \subseteq 1 .. journal_number /\ journal_failures \in 0 .. JournalFailures /\ journal_disturbed \in BOOLEAN
    <3>1. journal_writing \in [JournalThreads -> 0 .. journal_number]
      BY <1>4 DEF Journal!Init
    <3>2. journal_disturbed \in BOOLEAN
      BY DEF Journal!Init
    <3>3. journal_stream \in {"closed", "open", "bad"} /\ journal_reported \subseteq 1 .. journal_number
      BY DEF Journal!Init
    <3>4. journal_failures \in 0 .. JournalFailures
      BY <1>3 DEF Journal!Init
    <3> QED  BY <3>1, <3>2, <3>3, <3>4
  <2> QED  BY <1>3, <1>4, <2>1 DEF JournalTypes
<1>6. JournalKept
  BY <1>2 DEF Journal!Init, JournalKept
<1>7. JournalTidy
  BY <1>4 DEF Journal!Init, JournalTidy, Journal!Readable, Journal!Events
<1> QED  BY <1>5, <1>6, <1>7 DEF JournalInv

LEMMA JournalIsKept == Journal!JournalAssumption => (Journal!Spec => []JournalInv)
<1> SUFFICES ASSUME Journal!JournalAssumption PROVE Journal!Spec => []JournalInv
  OBVIOUS
<1>1. Journal!Init => JournalInv
  BY InitJournal
<1>2. JournalInv /\ [Journal!Next]_(Journal!vars) => JournalInv'
  <2>1. JournalInv /\ UNCHANGED Journal!vars => JournalInv'
    BY DEF JournalInv, JournalTypes, JournalKept, LinesLost, JournalTidy, Journal!Readable,
           Journal!Events, Journal!vars
  <2> QED
    BY <2>1, CrashStep, WriteTextStep, EndLineStep, DiskRefusesStep, RefusedStep DEF Journal!Next
<1> QED  BY <1>1, <1>2, PTL DEF Journal!Spec

\* The cardinality of the instance is that of this module.
LEMMA JournalSets == \A S : Journal!Cardinality(S) = Cardinality(S)
BY DEF Journal!Cardinality, Cardinality

LEMMA JournalHolds == JournalInv => Journal!UndisturbedJournalIsRead /\ Journal!ReportedIsWritten
BY JournalSets DEF JournalInv, JournalKept, LinesLost, JournalTidy, Journal!UndisturbedJournalIsRead,
       Journal!ReportedIsWritten
-----------------------------------------------------------------------------
(***************************************************************************)
(* The engine on a stream.                                                 *)
(***************************************************************************)
AllMessages == OwnMessages \cup ForeignMessages

Posts == [message : AllMessages, origin : {"", "mq"}]

QueueTypes ==
  /\ mq_batch \in Seq(Nat) /\ mq_handed \in Seq(Nat)
  /\ mq_bus \in Seq(Posts)
  /\ mq_handled \in [AllMessages -> Nat]
  /\ mq_stream \in Seq(AllMessages)
  /\ mq_cursor \in -1 .. Len(mq_stream)

\* What was handed out comes before what is about to be, and both before what the
\* group has not given to anybody.
HandedInOrder ==
  /\ \A i, j \in DOMAIN mq_batch : i < j => mq_batch[i] < mq_batch[j]
  /\ \A i, j \in DOMAIN mq_handed : i < j => mq_handed[i] < mq_handed[j]
  /\ \A i \in DOMAIN mq_batch : mq_batch[i] \in mq_unacked /\ mq_batch[i] \in 1 .. mq_cursor
  /\ \A i \in DOMAIN mq_batch, j \in DOMAIN mq_handed : mq_handed[j] < mq_batch[i]
  /\ \A j \in DOMAIN mq_handed : mq_handed[j] \in 1 .. mq_cursor

\* How often a message was handled before its echo.
RoundsBefore(m) == IF m \in OwnMessages THEN 1 ELSE 0

\* A message is on the bus at most once from the broker and once from the stream,
\* it is not in the stream before it was handled, nor as an echo on the bus before
\* its entry was handed out.
BusDistinct ==
  \A i, j \in DOMAIN mq_bus :
    mq_bus[i].message = mq_bus[j].message /\ mq_bus[i].origin = mq_bus[j].origin => i = j

FreshOnBus ==
  \A i \in DOMAIN mq_bus : mq_bus[i].origin = "" =>
    /\ mq_bus[i].message \in OwnMessages /\ mq_handled[mq_bus[i].message] = 0
    /\ \A e \in DOMAIN mq_stream : mq_stream[e] # mq_bus[i].message

EchoOnBus ==
  \A i \in DOMAIN mq_bus : mq_bus[i].origin = "mq" =>
    /\ \E j \in DOMAIN mq_handed : mq_stream[mq_handed[j]] = mq_bus[i].message
    /\ mq_handled[mq_bus[i].message] = RoundsBefore(mq_bus[i].message)

FewTimes == \A m \in AllMessages : mq_handled[m] <= RoundsBefore(m) + 1

Unhanded ==
  \A e \in DOMAIN mq_stream :
    (\A j \in DOMAIN mq_handed : mq_handed[j] # e) => mq_handled[mq_stream[e]] = RoundsBefore(mq_stream[e])

StreamDistinct == \A e, f \in DOMAIN mq_stream : mq_stream[e] = mq_stream[f] => e = f

WrittenHandled == \A e \in DOMAIN mq_stream : mq_handled[mq_stream[e]] >= RoundsBefore(mq_stream[e])

HandledWritten == \A m \in ForeignMessages : mq_handled[m] # 0 => \E e \in DOMAIN mq_stream : mq_stream[e] = m

OnceRound ==
  /\ BusDistinct /\ FreshOnBus /\ EchoOnBus /\ FewTimes
  /\ Unhanded /\ StreamDistinct /\ WrittenHandled /\ HandledWritten

RoundInv == QueueTypes /\ HandedInOrder /\ OnceRound

\* A sequence that got longer.
Longer(s, t, x) ==
  /\ DOMAIN t = DOMAIN s \cup {Len(s) + 1} /\ Len(s) + 1 \notin DOMAIN s
  /\ Len(t) = Len(s) + 1 /\ Len(s) \in Nat /\ DOMAIN s = 1 .. Len(s)
  /\ t[Len(s) + 1] = x
  /\ \A i \in DOMAIN s : t[i] = s[i]

LEMMA Appended ==
  ASSUME NEW S, NEW s \in Seq(S), NEW x \in S
  PROVE  Append(s, x) \in Seq(S) /\ Longer(s, Append(s, x), x)
<1>1. /\ Append(s, x) \in Seq(S) /\ Len(Append(s, x)) = Len(s) + 1 /\ Len(s) \in Nat
      /\ DOMAIN s = 1 .. Len(s) /\ DOMAIN Append(s, x) = 1 .. (Len(s) + 1)
      /\ \A i \in 1 .. Len(s) : Append(s, x)[i] = s[i]
      /\ Append(s, x)[Len(s) + 1] = x
  BY AppendProperties
<1> QED  BY <1>1 DEF Longer

LEMMA LeastOfTwo ==
  ASSUME NEW a \in Int, NEW b \in Int
  PROVE  Mq!Min({a, b}) = IF a <= b THEN a ELSE b
<1>1. CASE a <= b
  <2>1. a \in {a, b} /\ \A y \in {a, b} : a <= y
    BY <1>1
  <2>2. \A x \in {a, b} : (\A y \in {a, b} : x <= y) => x = a
    BY <1>1
  <2> QED  BY <1>1, <2>1, <2>2 DEF Mq!Min
<1>2. CASE ~(a <= b)
  <2>1. b \in {a, b} /\ \A y \in {a, b} : b <= y
    BY <1>2
  <2>2. \A x \in {a, b} : (\A y \in {a, b} : x <= y) => x = b
    BY <1>2
  <2> QED  BY <1>2, <2>1, <2>2 DEF Mq!Min
<1> QED  BY <1>1, <1>2

\* What is unread begins behind the cursor and has no holes.
LEMMA UnreadEntries ==
  ASSUME Mq!QueueAssumption, QueueTypes, mq_cursor # -1, Mq!Unread # <<>>
  PROVE  \E n \in 1 .. (Len(mq_stream) - mq_cursor) : Mq!Unread = [i \in 1 .. n |-> mq_cursor + i]
<1> DEFINE n == Mq!Min({ReadCount, Len(mq_stream) + 1 - (mq_cursor + 1)})
<1>1. mq_cursor \in Nat /\ mq_cursor <= Len(mq_stream) /\ Len(mq_stream) \in Nat /\ ReadCount \in Nat \ {0}
  BY DEF QueueTypes, Mq!QueueAssumption
<1>2. n = IF ReadCount <= Len(mq_stream) - mq_cursor THEN ReadCount ELSE Len(mq_stream) - mq_cursor
  <2>1. Len(mq_stream) + 1 - (mq_cursor + 1) = Len(mq_stream) - mq_cursor
    BY <1>1
  <2> QED  BY <1>1, <2>1, LeastOfTwo
<1>3. Mq!Unread = [i \in 1 .. n |-> mq_cursor + 1 + i - 1]
  BY DEF Mq!Unread, Mq!EntriesFrom
<1> HIDE DEF n
<1>4. Mq!Unread = [i \in 1 .. n |-> mq_cursor + i]
  BY <1>1, <1>2, <1>3
<1>5. n # 0
  BY <1>4
<1>6. n \in 1 .. (Len(mq_stream) - mq_cursor)
  BY <1>1, <1>2, <1>5
<1> QED  BY <1>4, <1>6

\* Nothing happens to bus, stream and what was handed out.
BusIsQuiet == UNCHANGED <<mq_bus, mq_handled, mq_stream, mq_handed>>

LEMMA QuietStep == OnceRound /\ BusIsQuiet => OnceRound'
<1> SUFFICES ASSUME OnceRound, BusIsQuiet PROVE OnceRound'
  OBVIOUS
<1>1. mq_bus' = mq_bus /\ mq_handled' = mq_handled /\ mq_stream' = mq_stream /\ mq_handed' = mq_handed
  BY DEF BusIsQuiet
<1>2. BusDistinct' /\ FreshOnBus' /\ EchoOnBus'
  BY <1>1 DEF OnceRound, BusDistinct, FreshOnBus, EchoOnBus, RoundsBefore
<1>3. FewTimes' /\ Unhanded'
  BY <1>1 DEF OnceRound, FewTimes, Unhanded, RoundsBefore
<1>4. StreamDistinct' /\ WrittenHandled' /\ HandledWritten'
  BY <1>1 DEF OnceRound, StreamDistinct, WrittenHandled, HandledWritten, RoundsBefore
<1> QED  BY <1>2, <1>3, <1>4 DEF OnceRound

LEMMA StreamLinkStep ==
  ASSUME RoundInv, Mq!Refused \/ Mq!Accepted, BusIsQuiet, UNCHANGED <<mq_batch, mq_unacked>>
  PROVE  RoundInv'
<1>1. mq_cursor' = mq_cursor \/ (mq_cursor = -1 /\ mq_cursor' = Len(mq_stream))
  BY DEF Mq!Refused, Mq!Accepted
<1>2. mq_cursor = -1 => mq_batch = <<>> /\ mq_handed = <<>>
  <2> SUFFICES ASSUME mq_cursor = -1 PROVE mq_batch = <<>> /\ mq_handed = <<>>
    OBVIOUS
  <2>1. mq_batch \in Seq(Nat) /\ mq_handed \in Seq(Nat)
    BY DEF RoundInv, QueueTypes
  <2>2. /\ \A i \in DOMAIN mq_batch : mq_batch[i] \in 1 .. mq_cursor
        /\ \A j \in DOMAIN mq_handed : mq_handed[j] \in 1 .. mq_cursor
    BY DEF RoundInv, HandedInOrder
  <2>3. \A x : x \notin 1 .. mq_cursor
    OBVIOUS
  <2>4. DOMAIN mq_batch = {} /\ DOMAIN mq_handed = {}
    BY <2>2, <2>3, Zenon
  <2> QED  BY <2>1, <2>4
<1>3. QueueTypes' /\ HandedInOrder'
  BY <1>1, <1>2 DEF RoundInv, QueueTypes, HandedInOrder, BusIsQuiet
<1> QED  BY <1>3, QuietStep DEF RoundInv

LEMMA ReadStep == Mq!QueueAssumption /\ RoundInv /\ Mq!Read => RoundInv'
<1> SUFFICES ASSUME Mq!QueueAssumption, RoundInv, Mq!Read PROVE RoundInv'
  OBVIOUS
<1>1. BusIsQuiet /\ mq_batch = <<>>
  BY DEF Mq!Read, BusIsQuiet
<1>2. CASE UNCHANGED <<mq_cursor, mq_unacked, mq_batch>>
  BY <1>1, <1>2, QuietStep DEF RoundInv, QueueTypes, HandedInOrder, BusIsQuiet
<1>3. CASE /\ mq_cursor # -1 /\ Mq!Unread # <<>>
           /\ mq_cursor' = Mq!Unread[Len(Mq!Unread)]
           /\ mq_unacked' = mq_unacked \cup {Mq!Unread[i] : i \in DOMAIN Mq!Unread}
           /\ mq_batch' = Mq!Unread \/ mq_batch' = mq_batch
  <2>1. PICK n \in 1 .. (Len(mq_stream) - mq_cursor) : Mq!Unread = [i \in 1 .. n |-> mq_cursor + i]
    BY <1>3, UnreadEntries DEF RoundInv
  <2>2. mq_cursor \in Nat /\ Len(mq_stream) \in Nat /\ mq_cursor <= Len(mq_stream) /\ n \in Nat
    BY <1>3 DEF RoundInv, QueueTypes
  <2>3. Mq!Unread \in Seq(Nat) /\ Len(Mq!Unread) = n /\ DOMAIN Mq!Unread = 1 .. n
    BY <2>1, <2>2
  <2>4. mq_cursor' = mq_cursor + n
    BY <1>3, <2>1, <2>2, <2>3
  <2>5. QueueTypes'
    <3>1. mq_batch' \in Seq(Nat)
      BY <1>3, <2>3 DEF RoundInv, QueueTypes
    <3>2. mq_cursor' \in -1 .. Len(mq_stream)
      BY <2>2, <2>4
    <3> QED  BY <1>1, <3>1, <3>2 DEF RoundInv, QueueTypes, BusIsQuiet
  <2>6. \A i \in 1 .. n : Mq!Unread[i] = mq_cursor + i /\ Mq!Unread[i] \in mq_unacked'
    BY <1>3, <2>1, <2>3
  <2>7. \A j \in DOMAIN mq_handed : mq_handed[j] \in 1 .. mq_cursor
    BY DEF RoundInv, HandedInOrder
  <2>8. HandedInOrder'
    <3>1. CASE mq_batch' = Mq!Unread
      BY <1>1, <2>2, <2>3, <2>4, <2>6, <2>7, <3>1 DEF RoundInv, HandedInOrder, BusIsQuiet
    <3>2. CASE mq_batch' = mq_batch
      BY <1>1, <2>2, <2>4, <2>7, <3>2 DEF RoundInv, HandedInOrder, BusIsQuiet
    <3> QED  BY <1>3, <3>1, <3>2
  <2> QED  BY <1>1, <2>5, <2>8, QuietStep DEF RoundInv
<1> QED  BY <1>2, <1>3 DEF Mq!Read

LEMMA ProcessStep == RoundInv /\ Mq!Process => RoundInv'
<1> SUFFICES ASSUME RoundInv, Mq!Process PROVE RoundInv'
  OBVIOUS
<1> DEFINE e == Head(mq_batch)
           m == mq_stream[e]
           new == [message |-> m, origin |-> "mq"]
<1>1. /\ mq_batch # <<>> /\ mq_bus' = Append(mq_bus, new)
      /\ mq_handed' = Append(mq_handed, e) /\ mq_batch' = Tail(mq_batch)
      /\ mq_handled' = mq_handled /\ mq_stream' = mq_stream /\ mq_cursor' = mq_cursor
  BY DEF Mq!Process, Mq!Incoming
<1>2. mq_unacked \ {e} \subseteq mq_unacked'
  BY DEF Mq!Process
<1>3. /\ mq_batch \in Seq(Nat) /\ mq_handed \in Seq(Nat) /\ mq_bus \in Seq(Posts)
      /\ mq_stream \in Seq(AllMessages) /\ mq_cursor <= Len(mq_stream)
  BY DEF RoundInv, QueueTypes
<1>4. /\ e = mq_batch[1] /\ 1 \in DOMAIN mq_batch /\ Tail(mq_batch) \in Seq(Nat)
      /\ \A i \in DOMAIN Tail(mq_batch) : i + 1 \in DOMAIN mq_batch /\ Tail(mq_batch)[i] = mq_batch[i + 1] /\ i \in Nat \ {0}
  BY <1>1, <1>3
<1>5. e \in 1 .. mq_cursor /\ \A j \in DOMAIN mq_handed : mq_handed[j] < e
  BY <1>4 DEF RoundInv, HandedInOrder
<1>6. e \in DOMAIN mq_stream /\ e \in Nat /\ m \in AllMessages
  BY <1>3, <1>5 DEF RoundInv, QueueTypes
<1>7. mq_handed' \in Seq(Nat) /\ Longer(mq_handed, mq_handed', e)
  BY <1>1, <1>3, <1>6, Appended
<1>8. new \in Posts /\ new.message = m /\ new.origin = "mq"
  BY <1>6 DEF Posts
<1> HIDE DEF e, m, new
<1>9. mq_bus' \in Seq(Posts) /\ Longer(mq_bus, mq_bus', new)
  BY <1>1, <1>3, <1>8, Appended
<1>10. QueueTypes'
  BY <1>1, <1>4, <1>7, <1>9 DEF RoundInv, QueueTypes
<1>11. HandedInOrder'
  <2>1. \A i \in DOMAIN Tail(mq_batch) : Tail(mq_batch)[i] > e /\ Tail(mq_batch)[i] \in mq_unacked /\ Tail(mq_batch)[i] \in 1 .. mq_cursor
    BY <1>4, <1>6 DEF RoundInv, HandedInOrder
  <2>2. \A i, j \in DOMAIN Tail(mq_batch) : i < j => Tail(mq_batch)[i] < Tail(mq_batch)[j]
    BY <1>4 DEF RoundInv, HandedInOrder
  <2>3. \A j \in DOMAIN mq_handed : mq_handed[j] \in 1 .. mq_cursor
    BY DEF RoundInv, HandedInOrder
  <2>4. \A j \in DOMAIN mq_handed' : mq_handed'[j] \in 1 .. e /\ mq_handed'[j] \in 1 .. mq_cursor
    BY <1>5, <1>6, <1>7, <2>3 DEF Longer
  <2>5. \A i, j \in DOMAIN mq_handed' : i < j => mq_handed'[i] < mq_handed'[j]
    BY <1>5, <1>7 DEF RoundInv, HandedInOrder, Longer
  <2>6. \A i \in DOMAIN mq_batch' : mq_batch'[i] \in mq_unacked' /\ mq_batch'[i] \in 1 .. mq_cursor'
    BY <1>1, <1>2, <1>6, <2>1
  <2>7. \A i \in DOMAIN mq_batch', j \in DOMAIN mq_handed' : mq_handed'[j] < mq_batch'[i]
    BY <1>1, <1>6, <2>1, <2>4
  <2> QED  BY <1>1, <2>2, <2>4, <2>5, <2>6, <2>7 DEF HandedInOrder
<1>12. \A i \in DOMAIN mq_bus : ~(mq_bus[i].origin = "mq" /\ mq_bus[i].message = m)
  <2> SUFFICES ASSUME NEW i \in DOMAIN mq_bus, mq_bus[i].origin = "mq", mq_bus[i].message = m PROVE FALSE
    OBVIOUS
  <2>1. PICK j \in DOMAIN mq_handed : mq_stream[mq_handed[j]] = m
    BY DEF RoundInv, OnceRound, EchoOnBus
  <2>2. mq_handed[j] \in 1 .. mq_cursor /\ mq_handed[j] < e
    BY <1>5 DEF RoundInv, HandedInOrder
  <2>3. mq_handed[j] \in DOMAIN mq_stream
    BY <1>3, <2>2 DEF RoundInv, QueueTypes
  <2>4. mq_handed[j] = e
    BY <1>6, <2>1, <2>3 DEF RoundInv, OnceRound, StreamDistinct, m
  <2> QED  BY <2>2, <2>4, <1>6
<1>13. OnceRound'
  <2>1. \A i, j \in DOMAIN mq_bus' :
          mq_bus'[i].message = mq_bus'[j].message /\ mq_bus'[i].origin = mq_bus'[j].origin => i = j
    BY <1>8, <1>9, <1>12 DEF RoundInv, OnceRound, BusDistinct, Longer
  <2>2. ASSUME NEW i \in DOMAIN mq_bus', mq_bus'[i].origin = ""
        PROVE  /\ mq_bus'[i].message \in OwnMessages /\ mq_handled'[mq_bus'[i].message] = 0
               /\ \A x \in DOMAIN mq_stream' : mq_stream'[x] # mq_bus'[i].message
    <3>1. i \in DOMAIN mq_bus /\ mq_bus'[i] = mq_bus[i]
      BY <1>8, <1>9, <2>2 DEF Longer
    <3> QED  BY <1>1, <2>2, <3>1 DEF RoundInv, OnceRound, FreshOnBus
  <2>3. ASSUME NEW i \in DOMAIN mq_bus', mq_bus'[i].origin = "mq"
        PROVE  /\ \E j \in DOMAIN mq_handed' : mq_stream'[mq_handed'[j]] = mq_bus'[i].message
               /\ mq_handled'[mq_bus'[i].message] = RoundsBefore(mq_bus'[i].message)
    <3>1. CASE i \in DOMAIN mq_bus
      <4>1. mq_bus'[i] = mq_bus[i] /\ mq_bus[i].origin = "mq"
        BY <1>9, <2>3, <3>1 DEF Longer
      <4>2. PICK j \in DOMAIN mq_handed : mq_stream[mq_handed[j]] = mq_bus[i].message
        BY <3>1, <4>1 DEF RoundInv, OnceRound, EchoOnBus
      <4>3. mq_handled[mq_bus[i].message] = RoundsBefore(mq_bus[i].message)
        BY <3>1, <4>1 DEF RoundInv, OnceRound, EchoOnBus
      <4>4. j \in DOMAIN mq_handed' /\ mq_handed'[j] = mq_handed[j]
        BY <1>7 DEF Longer
      <4> QED  BY <1>1, <4>1, <4>2, <4>3, <4>4
    <3>2. CASE i = Len(mq_bus) + 1
      <4>1. mq_bus'[i].message = m
        BY <3>2, <1>8, <1>9 DEF Longer
      <4>2. \A j \in DOMAIN mq_handed : mq_handed[j] # e
        BY <1>5, <1>6
      <4>3. mq_handled[m] = RoundsBefore(m)
        BY <1>6, <4>2 DEF RoundInv, OnceRound, Unhanded, m
      <4>4. Len(mq_handed) + 1 \in DOMAIN mq_handed' /\ mq_handed'[Len(mq_handed) + 1] = e
        BY <1>7 DEF Longer
      <4> QED  BY <1>1, <4>1, <4>3, <4>4 DEF m
    <3> QED  BY <1>9, <3>1, <3>2 DEF Longer
  <2>4. ASSUME NEW x \in DOMAIN mq_stream', \A j \in DOMAIN mq_handed' : mq_handed'[j] # x
        PROVE  mq_handled'[mq_stream'[x]] = RoundsBefore(mq_stream'[x])
    <3>1. \A j \in DOMAIN mq_handed : mq_handed[j] # x
      BY <1>7, <2>4 DEF Longer
    <3> QED  BY <1>1, <3>1 DEF RoundInv, OnceRound, Unhanded
  <2>5. /\ \A x \in AllMessages : mq_handled'[x] <= RoundsBefore(x) + 1
        /\ \A x, y \in DOMAIN mq_stream' : mq_stream'[x] = mq_stream'[y] => x = y
        /\ \A x \in DOMAIN mq_stream' : mq_handled'[mq_stream'[x]] >= RoundsBefore(mq_stream'[x])
        /\ \A x \in ForeignMessages : mq_handled'[x] # 0 => \E y \in DOMAIN mq_stream' : mq_stream'[y] = x
    BY <1>1 DEF RoundInv, OnceRound, FewTimes, StreamDistinct, WrittenHandled, HandledWritten
  <2> QED  BY <2>1, <2>2, <2>3, <2>4, <2>5
    DEF OnceRound, BusDistinct, FreshOnBus, EchoOnBus, FewTimes, Unhanded, StreamDistinct,
        WrittenHandled, HandledWritten
<1> QED  BY <1>10, <1>11, <1>13 DEF RoundInv

LEMMA FromBrokerStep ==
  ASSUME RoundInv, NEW m \in OwnMessages, Mq!FromBroker(m) PROVE RoundInv'
<1> DEFINE new == [message |-> m, origin |-> ""]
<1>1. /\ mq_handled[m] = 0 /\ \A i \in DOMAIN mq_bus : mq_bus[i].message # m
      /\ mq_bus' = Append(mq_bus, new)
      /\ mq_batch' = mq_batch /\ mq_handled' = mq_handled /\ mq_stream' = mq_stream /\ mq_cursor' = mq_cursor
      /\ mq_unacked' = mq_unacked /\ mq_handed' = mq_handed
  BY DEF Mq!FromBroker, Mq!adapter, Mq!server
<1>2. new \in Posts /\ new.message = m /\ new.origin = ""
  <2>1. m \in AllMessages
    BY DEF AllMessages
  <2> QED  BY <2>1 DEF Posts
<1> HIDE DEF new
<1>3. mq_bus' \in Seq(Posts) /\ Longer(mq_bus, mq_bus', new)
  BY <1>1, <1>2, Appended DEF RoundInv, QueueTypes
<1>4. QueueTypes'
  BY <1>1, <1>3 DEF RoundInv, QueueTypes
<1>5. HandedInOrder'
  BY <1>1 DEF RoundInv, HandedInOrder
<1>6. ASSUME NEW e \in DOMAIN mq_stream PROVE mq_stream[e] # m
  <2>1. mq_handled[mq_stream[e]] >= RoundsBefore(mq_stream[e])
    BY DEF RoundInv, OnceRound, WrittenHandled
  <2> QED  BY <1>1, <2>1 DEF RoundsBefore
<1>7. OnceRound'
  <2>1. \A i, j \in DOMAIN mq_bus' :
          mq_bus'[i].message = mq_bus'[j].message /\ mq_bus'[i].origin = mq_bus'[j].origin => i = j
    <3>1. \A i \in DOMAIN mq_bus : mq_bus'[i] = mq_bus[i] /\ mq_bus'[i].message # m
      BY <1>1, <1>3 DEF Longer
    <3>2. \A i \in DOMAIN mq_bus' : i \in DOMAIN mq_bus \/ (i = Len(mq_bus) + 1 /\ mq_bus'[i].message = m)
      BY <1>2, <1>3 DEF Longer
    <3> QED  BY <3>1, <3>2 DEF RoundInv, OnceRound, BusDistinct
  <2>2. ASSUME NEW i \in DOMAIN mq_bus', mq_bus'[i].origin = ""
        PROVE  /\ mq_bus'[i].message \in OwnMessages /\ mq_handled'[mq_bus'[i].message] = 0
               /\ \A x \in DOMAIN mq_stream' : mq_stream'[x] # mq_bus'[i].message
    <3>1. CASE i \in DOMAIN mq_bus
      <4>1. mq_bus'[i] = mq_bus[i]
        BY <1>3, <3>1 DEF Longer
      <4> QED  BY <1>1, <2>2, <3>1, <4>1 DEF RoundInv, OnceRound, FreshOnBus
    <3>2. CASE i = Len(mq_bus) + 1
      <4>1. mq_bus'[i].message = m
        BY <3>2, <1>2, <1>3 DEF Longer
      <4> QED  BY <1>1, <1>6, <4>1
    <3> QED  BY <1>3, <3>1, <3>2 DEF Longer
  <2>3. ASSUME NEW i \in DOMAIN mq_bus', mq_bus'[i].origin = "mq"
        PROVE  /\ \E j \in DOMAIN mq_handed' : mq_stream'[mq_handed'[j]] = mq_bus'[i].message
               /\ mq_handled'[mq_bus'[i].message] = RoundsBefore(mq_bus'[i].message)
    <3>1. i \in DOMAIN mq_bus /\ mq_bus'[i] = mq_bus[i]
      BY <1>2, <1>3, <2>3 DEF Longer
    <3> QED  BY <1>1, <2>3, <3>1 DEF RoundInv, OnceRound, EchoOnBus
  <2>4. /\ \A x \in DOMAIN mq_stream' :
             (\A j \in DOMAIN mq_handed' : mq_handed'[j] # x) => mq_handled'[mq_stream'[x]] = RoundsBefore(mq_stream'[x])
        /\ \A x \in AllMessages : mq_handled'[x] <= RoundsBefore(x) + 1
        /\ \A x, y \in DOMAIN mq_stream' : mq_stream'[x] = mq_stream'[y] => x = y
        /\ \A x \in DOMAIN mq_stream' : mq_handled'[mq_stream'[x]] >= RoundsBefore(mq_stream'[x])
        /\ \A x \in ForeignMessages : mq_handled'[x] # 0 => \E y \in DOMAIN mq_stream' : mq_stream'[y] = x
    BY <1>1
      DEF RoundInv, OnceRound, Unhanded, FewTimes, StreamDistinct, WrittenHandled, HandledWritten
  <2> QED  BY <2>1, <2>2, <2>3, <2>4
    DEF OnceRound, BusDistinct, FreshOnBus, EchoOnBus, FewTimes, Unhanded, StreamDistinct,
        WrittenHandled, HandledWritten
<1> QED  BY <1>4, <1>5, <1>7 DEF RoundInv

\* A message that is written where it was not: its entry was not handed out yet.
LEMMA StreamGrows ==
  ASSUME RoundInv, NEW m \in AllMessages, mq_stream' = Append(mq_stream, m),
         \A e \in DOMAIN mq_stream : mq_stream[e] # m,
         mq_handed' = mq_handed, mq_cursor' = mq_cursor
  PROVE  /\ mq_stream' \in Seq(AllMessages) /\ Longer(mq_stream, mq_stream', m)
         /\ mq_cursor \in -1 .. Len(mq_stream')
         /\ \A j \in DOMAIN mq_handed : mq_handed[j] \in DOMAIN mq_stream /\ mq_stream'[mq_handed[j]] = mq_stream[mq_handed[j]]
         /\ \A x, y \in DOMAIN mq_stream' : mq_stream'[x] = mq_stream'[y] => x = y
<1>1. mq_stream \in Seq(AllMessages) /\ mq_cursor \in -1 .. Len(mq_stream)
  BY DEF RoundInv, QueueTypes
<1>2. mq_stream' \in Seq(AllMessages) /\ Longer(mq_stream, mq_stream', m)
  BY <1>1, Appended
<1>3. \A j \in DOMAIN mq_handed : mq_handed[j] \in DOMAIN mq_stream
  BY <1>1, <1>2 DEF RoundInv, HandedInOrder, Longer
<1>4. \A x, y \in DOMAIN mq_stream' : mq_stream'[x] = mq_stream'[y] => x = y
  BY <1>2 DEF RoundInv, OnceRound, StreamDistinct, Longer
<1> QED  BY <1>1, <1>2, <1>3, <1>4 DEF Longer

LEMMA WriteForeignStep ==
  ASSUME Mq!QueueAssumption, RoundInv, NEW m \in ForeignMessages, Mq!WriteForeign(m) PROVE RoundInv'
<1>1. /\ mq_stream' = Append(mq_stream, m) /\ \A e \in DOMAIN mq_stream : mq_stream[e] # m
      /\ mq_batch' = mq_batch /\ mq_bus' = mq_bus /\ mq_handled' = mq_handled /\ mq_cursor' = mq_cursor
      /\ mq_unacked' = mq_unacked /\ mq_handed' = mq_handed
  BY DEF Mq!WriteForeign, Mq!adapter
<1>2. m \in AllMessages /\ m \notin OwnMessages
  BY DEF AllMessages, Mq!QueueAssumption
<1>3. /\ mq_stream' \in Seq(AllMessages) /\ Longer(mq_stream, mq_stream', m)
      /\ mq_cursor \in -1 .. Len(mq_stream')
      /\ \A j \in DOMAIN mq_handed : mq_handed[j] \in DOMAIN mq_stream /\ mq_stream'[mq_handed[j]] = mq_stream[mq_handed[j]]
      /\ \A x, y \in DOMAIN mq_stream' : mq_stream'[x] = mq_stream'[y] => x = y
  BY <1>1, <1>2, StreamGrows
<1>4. QueueTypes'
  BY <1>1, <1>3 DEF RoundInv, QueueTypes
<1>5. HandedInOrder'
  BY <1>1 DEF RoundInv, HandedInOrder
<1>6. mq_handled[m] = 0 /\ RoundsBefore(m) = 0
  BY <1>1, <1>2 DEF RoundInv, OnceRound, HandledWritten, RoundsBefore
<1>7. OnceRound'
  <2>1. ASSUME NEW i \in DOMAIN mq_bus', mq_bus'[i].origin = ""
        PROVE  /\ mq_bus'[i].message \in OwnMessages /\ mq_handled'[mq_bus'[i].message] = 0
               /\ \A x \in DOMAIN mq_stream' : mq_stream'[x] # mq_bus'[i].message
    <3>1. /\ mq_bus[i].message \in OwnMessages /\ mq_handled[mq_bus[i].message] = 0
          /\ \A x \in DOMAIN mq_stream : mq_stream[x] # mq_bus[i].message
      BY <1>1, <2>1 DEF RoundInv, OnceRound, FreshOnBus
    <3>2. mq_bus[i].message # m
      BY <1>2, <3>1
    <3> QED  BY <1>1, <1>3, <3>1, <3>2 DEF Longer
  <2>2. ASSUME NEW i \in DOMAIN mq_bus', mq_bus'[i].origin = "mq"
        PROVE  /\ \E j \in DOMAIN mq_handed' : mq_stream'[mq_handed'[j]] = mq_bus'[i].message
               /\ mq_handled'[mq_bus'[i].message] = RoundsBefore(mq_bus'[i].message)
    <3>1. PICK j \in DOMAIN mq_handed : mq_stream[mq_handed[j]] = mq_bus[i].message
      BY <1>1, <2>2 DEF RoundInv, OnceRound, EchoOnBus
    <3>2. mq_handled[mq_bus[i].message] = RoundsBefore(mq_bus[i].message)
      BY <1>1, <2>2 DEF RoundInv, OnceRound, EchoOnBus
    <3> QED  BY <1>1, <1>3, <3>1, <3>2
  <2>3. ASSUME NEW x \in DOMAIN mq_stream'
        PROVE  /\ (\A j \in DOMAIN mq_handed' : mq_handed'[j] # x) => mq_handled'[mq_stream'[x]] = RoundsBefore(mq_stream'[x])
               /\ mq_handled'[mq_stream'[x]] >= RoundsBefore(mq_stream'[x])
    <3>1. CASE x \in DOMAIN mq_stream
      BY <1>1, <1>3, <3>1 DEF RoundInv, OnceRound, Unhanded, WrittenHandled, Longer
    <3>2. CASE x = Len(mq_stream) + 1
      <4>1. mq_stream'[x] = m
        BY <1>3, <3>2 DEF Longer
      <4> QED  BY <1>1, <1>6, <4>1
    <3> QED  BY <1>3, <3>1, <3>2 DEF Longer
  <2>4. ASSUME NEW x \in ForeignMessages, mq_handled'[x] # 0 PROVE \E y \in DOMAIN mq_stream' : mq_stream'[y] = x
    <3>1. PICK y \in DOMAIN mq_stream : mq_stream[y] = x
      BY <1>1, <2>4 DEF RoundInv, OnceRound, HandledWritten
    <3> QED  BY <1>3, <3>1 DEF Longer
  <2>5. /\ \A i, j \in DOMAIN mq_bus' :
             mq_bus'[i].message = mq_bus'[j].message /\ mq_bus'[i].origin = mq_bus'[j].origin => i = j
        /\ \A x \in AllMessages : mq_handled'[x] <= RoundsBefore(x) + 1
    BY <1>1 DEF RoundInv, OnceRound, BusDistinct, FewTimes
  <2> QED  BY <1>3, <2>1, <2>2, <2>3, <2>4, <2>5
    DEF OnceRound, BusDistinct, FreshOnBus, EchoOnBus, FewTimes, Unhanded, StreamDistinct,
        WrittenHandled, HandledWritten
<1> QED  BY <1>4, <1>5, <1>7 DEF RoundInv

LEMMA DispatchStep ==
  ASSUME Mq!QueueAssumption, RoundInv, Mq!Dispatch PROVE RoundInv'
<1> DEFINE msg == Head(mq_bus)
           m == msg.message
<1>1. /\ mq_bus # <<>> /\ mq_bus' = Tail(mq_bus) /\ mq_handled' = [mq_handled EXCEPT ![m] = @ + 1]
      /\ mq_batch' = mq_batch /\ mq_cursor' = mq_cursor /\ mq_unacked' = mq_unacked /\ mq_handed' = mq_handed
      /\ mq_stream' = mq_stream \/ (msg.origin # "mq" /\ mq_stream' = Append(mq_stream, m))
  BY DEF Mq!Dispatch, Mq!adapter
<1>2. /\ mq_bus \in Seq(Posts) /\ mq_handled \in [AllMessages -> Nat] /\ mq_stream \in Seq(AllMessages)
  BY DEF RoundInv, QueueTypes
<1>3. /\ msg = mq_bus[1] /\ 1 \in DOMAIN mq_bus /\ Tail(mq_bus) \in Seq(Posts)
      /\ \A i \in DOMAIN Tail(mq_bus) : i + 1 \in DOMAIN mq_bus /\ Tail(mq_bus)[i] = mq_bus[i + 1] /\ i \in Nat \ {0}
  BY <1>1, <1>2
<1>4. msg \in Posts
  BY <1>2, <1>3
<1>5. m \in AllMessages /\ msg.origin \in {"", "mq"}
  BY <1>4 DEF Posts
<1>6. \A i \in DOMAIN mq_bus' : /\ i + 1 \in DOMAIN mq_bus /\ mq_bus'[i] = mq_bus[i + 1] /\ i + 1 # 1
                             /\ ~(mq_bus'[i].message = m /\ mq_bus'[i].origin = msg.origin)
  BY <1>1, <1>3 DEF RoundInv, OnceRound, BusDistinct
<1>7. \A i, j \in DOMAIN mq_bus' :
        mq_bus'[i].message = mq_bus'[j].message /\ mq_bus'[i].origin = mq_bus'[j].origin => i = j
  BY <1>1, <1>3, <1>6 DEF RoundInv, OnceRound, BusDistinct
<1>8. mq_handled' \in [AllMessages -> Nat] /\ mq_handled'[m] = mq_handled[m] + 1
      /\ \A x \in AllMessages : x # m => mq_handled'[x] = mq_handled[x]
  <2> HIDE DEF m
  <2>1. mq_handled[m] + 1 \in Nat
    <3>1. mq_handled[m] \in Nat
      BY <1>2, <1>5
    <3> QED  BY <3>1
  <2>2. mq_handled' = [mq_handled EXCEPT ![m] = mq_handled[m] + 1]
    BY <1>1
  <2> QED  BY <1>2, <1>5, <2>1, <2>2
<1>a. /\ msg.origin = "" => m \in OwnMessages /\ mq_handled[m] = 0 /\ \A x \in DOMAIN mq_stream : mq_stream[x] # m
      /\ msg.origin = "mq" => /\ \E j \in DOMAIN mq_handed : mq_stream[mq_handed[j]] = m
                              /\ mq_handled[m] = RoundsBefore(m)
  <2>1. FreshOnBus /\ EchoOnBus /\ msg = mq_bus[1] /\ 1 \in DOMAIN mq_bus
    BY <1>3 DEF RoundInv, OnceRound
  <2> HIDE DEF msg
  <2>2. msg.origin = "" => m \in OwnMessages /\ mq_handled[m] = 0 /\ \A x \in DOMAIN mq_stream : mq_stream[x] # m
    BY <2>1 DEF FreshOnBus
  <2>3. msg.origin = "mq" => /\ \E j \in DOMAIN mq_handed : mq_stream[mq_handed[j]] = m
                             /\ mq_handled[m] = RoundsBefore(m)
    BY <2>1 DEF EchoOnBus
  <2> QED  BY <2>2, <2>3
<1>b. /\ \A i \in DOMAIN mq_bus' : mq_bus'[i].origin = "" =>
           /\ mq_bus'[i].message \in OwnMessages /\ mq_handled[mq_bus'[i].message] = 0
           /\ \A x \in DOMAIN mq_stream : mq_stream[x] # mq_bus'[i].message
      /\ \A i \in DOMAIN mq_bus' : mq_bus'[i].origin = "mq" =>
           /\ \E j \in DOMAIN mq_handed : mq_stream[mq_handed[j]] = mq_bus'[i].message
           /\ mq_handled[mq_bus'[i].message] = RoundsBefore(mq_bus'[i].message)
      /\ \A i \in DOMAIN mq_bus' : mq_bus'[i].message \in AllMessages
  <2>1. \A i \in DOMAIN mq_bus' : mq_bus'[i] \in Posts
    BY <1>2, <1>6
  <2>2. \A i \in DOMAIN mq_bus' : mq_bus'[i].message \in AllMessages
    BY <2>1 DEF Posts
  <2>3. FreshOnBus /\ EchoOnBus /\ \A i \in DOMAIN mq_bus' : i + 1 \in DOMAIN mq_bus /\ mq_bus'[i] = mq_bus[i + 1]
    BY <1>6 DEF RoundInv, OnceRound
  <2>4. \A i \in DOMAIN mq_bus' : mq_bus'[i].origin = "" =>
           /\ mq_bus'[i].message \in OwnMessages /\ mq_handled[mq_bus'[i].message] = 0
           /\ \A x \in DOMAIN mq_stream : mq_stream[x] # mq_bus'[i].message
    BY <2>3, ZenonT(60) DEF FreshOnBus
  <2>5. \A i \in DOMAIN mq_bus' : mq_bus'[i].origin = "mq" =>
           /\ \E j \in DOMAIN mq_handed : mq_stream[mq_handed[j]] = mq_bus'[i].message
           /\ mq_handled[mq_bus'[i].message] = RoundsBefore(mq_bus'[i].message)
    BY <2>3 DEF EchoOnBus
  <2> QED  BY <2>2, <2>4, <2>5
<1>c. \A j \in DOMAIN mq_handed : mq_handed[j] \in DOMAIN mq_stream
  BY <1>2 DEF RoundInv, HandedInOrder, QueueTypes
<1>d. RoundsBefore(m) \in {0, 1} /\ (m \in OwnMessages => RoundsBefore(m) = 1)
  BY DEF RoundsBefore
<1> HIDE DEF msg, m
<1>9. HandedInOrder'
  BY <1>1 DEF RoundInv, HandedInOrder
<1>10. \A x \in AllMessages : mq_handled'[x] <= RoundsBefore(x) + 1
  <2>0. mq_handled[m] \in Nat
    BY <1>2, <1>5
  <2>1. mq_handled[m] <= RoundsBefore(m)
    <3>1. CASE msg.origin = ""
      <4>1. m \in OwnMessages /\ mq_handled[m] = 0
        BY <1>a, <3>1
      <4>2. RoundsBefore(m) = 1
        BY <4>1 DEF RoundsBefore
      <4> QED  BY <4>1, <4>2
    <3>2. CASE msg.origin = "mq"
      BY <1>a, <1>d, <2>0, <3>2
    <3> QED  BY <1>5, <3>1, <3>2
  <2> SUFFICES ASSUME NEW x \in AllMessages PROVE mq_handled'[x] <= RoundsBefore(x) + 1
    OBVIOUS
  <2>2. CASE x = m
    BY <1>8, <1>d, <2>0, <2>1, <2>2
  <2>3. CASE x # m
    BY <1>8, <2>3 DEF RoundInv, OnceRound, FewTimes
  <2> QED  BY <2>2, <2>3
\* The other entries of the bus are of other messages, or of the same as echoes.
<1>11. CASE mq_stream' = mq_stream
  <2>1. QueueTypes'
    BY <1>1, <1>3, <1>8, <1>11 DEF RoundInv, QueueTypes
  <2>2. ASSUME NEW i \in DOMAIN mq_bus', mq_bus'[i].origin = ""
        PROVE  /\ mq_bus'[i].message \in OwnMessages /\ mq_handled'[mq_bus'[i].message] = 0
               /\ \A x \in DOMAIN mq_stream' : mq_stream'[x] # mq_bus'[i].message
    <3>1. mq_bus'[i].message # m
      <4>1. CASE msg.origin = ""
        BY <1>6, <2>2, <4>1
      <4>2. CASE msg.origin = "mq"
        BY <1>a, <1>b, <1>c, <2>2, <4>2
      <4> QED  BY <1>5, <4>1, <4>2
    <3> QED  BY <1>8, <1>11, <1>b, <2>2, <3>1
  <2>3. ASSUME NEW i \in DOMAIN mq_bus', mq_bus'[i].origin = "mq"
        PROVE  /\ \E j \in DOMAIN mq_handed' : mq_stream'[mq_handed'[j]] = mq_bus'[i].message
               /\ mq_handled'[mq_bus'[i].message] = RoundsBefore(mq_bus'[i].message)
    <3>1. mq_bus'[i].message # m
      <4>1. CASE msg.origin = "mq"
        BY <1>6, <2>3, <4>1
      <4>2. CASE msg.origin = ""
        BY <1>a, <1>b, <1>c, <2>3, <4>2
      <4> QED  BY <1>5, <4>1, <4>2
    <3> QED  BY <1>1, <1>8, <1>11, <1>b, <2>3, <3>1
  <2>4. ASSUME NEW x \in DOMAIN mq_stream'
        PROVE  /\ (\A j \in DOMAIN mq_handed' : mq_handed'[j] # x) => mq_handled'[mq_stream'[x]] = RoundsBefore(mq_stream'[x])
               /\ mq_handled'[mq_stream'[x]] >= RoundsBefore(mq_stream'[x])
    <3>1. x \in DOMAIN mq_stream /\ mq_stream[x] \in AllMessages /\ mq_handled[mq_stream[x]] >= RoundsBefore(mq_stream[x])
      BY <1>2, <1>11 DEF RoundInv, OnceRound, WrittenHandled
    <3>2. CASE mq_stream[x] = m
      <4>1. msg.origin = "mq"
        BY <1>5, <1>a, <3>1, <3>2
      <4>2. PICK j \in DOMAIN mq_handed : mq_stream[mq_handed[j]] = m
        BY <1>a, <4>1
      <4>3. mq_handed[j] = x
        BY <1>c, <3>1, <3>2, <4>2 DEF RoundInv, OnceRound, StreamDistinct
      <4>4. mq_handled'[m] = RoundsBefore(m) + 1
        BY <1>8, <1>a, <4>1
      <4> QED  BY <1>1, <1>11, <1>d, <3>2, <4>3, <4>4
    <3>3. CASE mq_stream[x] # m
      <4>1. mq_handled'[mq_stream[x]] = mq_handled[mq_stream[x]]
        BY <1>8, <3>1, <3>3
      <4> QED  BY <1>1, <1>11, <3>1, <4>1 DEF RoundInv, OnceRound, Unhanded
    <3> QED  BY <3>2, <3>3
  <2>5. ASSUME NEW x \in ForeignMessages, mq_handled'[x] # 0 PROVE \E y \in DOMAIN mq_stream' : mq_stream'[y] = x
    <3>1. x \in AllMessages /\ x \notin OwnMessages
      BY DEF AllMessages, Mq!QueueAssumption
    <3>2. CASE x = m
      <4>1. msg.origin = "mq"
        BY <1>5, <1>a, <3>1, <3>2
      <4> QED  BY <1>a, <1>c, <1>11, <3>2, <4>1
    <3>3. CASE x # m
      BY <1>8, <1>11, <2>5, <3>1, <3>3 DEF RoundInv, OnceRound, HandledWritten
    <3> QED  BY <3>2, <3>3
  <2>6. \A x, y \in DOMAIN mq_stream' : mq_stream'[x] = mq_stream'[y] => x = y
    BY <1>11 DEF RoundInv, OnceRound, StreamDistinct
  <2>7. OnceRound'
    BY <1>7, <1>10, <2>2, <2>3, <2>4, <2>5, <2>6
      DEF OnceRound, BusDistinct, FreshOnBus, EchoOnBus, FewTimes, Unhanded, StreamDistinct,
          WrittenHandled, HandledWritten
  <2> QED  BY <1>9, <2>1, <2>7 DEF RoundInv
<1>12. CASE msg.origin # "mq" /\ mq_stream' = Append(mq_stream, m)
  <2>1. m \in OwnMessages /\ mq_handled[m] = 0 /\ \A x \in DOMAIN mq_stream : mq_stream[x] # m
    BY <1>5, <1>12, <1>a
  <2>2. /\ mq_stream' \in Seq(AllMessages) /\ Longer(mq_stream, mq_stream', m)
        /\ mq_cursor \in -1 .. Len(mq_stream')
        /\ \A j \in DOMAIN mq_handed : mq_handed[j] \in DOMAIN mq_stream /\ mq_stream'[mq_handed[j]] = mq_stream[mq_handed[j]]
        /\ \A x, y \in DOMAIN mq_stream' : mq_stream'[x] = mq_stream'[y] => x = y
    BY <1>1, <1>5, <1>12, <2>1, StreamGrows
  <2>3. QueueTypes'
    BY <1>1, <1>3, <1>8, <2>2 DEF RoundInv, QueueTypes
  <2>4. ASSUME NEW i \in DOMAIN mq_bus' PROVE mq_bus'[i].message # m
    <3>1. CASE mq_bus'[i].origin = ""
      BY <1>5, <1>6, <1>12, <3>1
    <3>2. CASE mq_bus'[i].origin = "mq"
      BY <1>b, <1>c, <2>1, <3>2
    <3>3. mq_bus'[i].origin \in {"", "mq"}
      <4>1. mq_bus'[i] \in Posts
        BY <1>2, <1>6
      <4> QED  BY <4>1 DEF Posts
    <3> QED  BY <3>1, <3>2, <3>3
  <2>5. ASSUME NEW i \in DOMAIN mq_bus', mq_bus'[i].origin = ""
        PROVE  /\ mq_bus'[i].message \in OwnMessages /\ mq_handled'[mq_bus'[i].message] = 0
               /\ \A x \in DOMAIN mq_stream' : mq_stream'[x] # mq_bus'[i].message
    <3>1. /\ mq_bus'[i].message \in OwnMessages /\ mq_handled[mq_bus'[i].message] = 0
          /\ \A x \in DOMAIN mq_stream : mq_stream[x] # mq_bus'[i].message
          /\ mq_bus'[i].message \in AllMessages /\ mq_bus'[i].message # m
      BY <1>b, <2>4, <2>5
    <3>2. mq_handled'[mq_bus'[i].message] = 0
      BY <1>8, <3>1
    <3>3. \A x \in DOMAIN mq_stream' :
            \/ x \in DOMAIN mq_stream /\ mq_stream'[x] = mq_stream[x]
            \/ mq_stream'[x] = m
      BY <2>2 DEF Longer
    <3> QED  BY <3>1, <3>2, <3>3
  <2>6. ASSUME NEW i \in DOMAIN mq_bus', mq_bus'[i].origin = "mq"
        PROVE  /\ \E j \in DOMAIN mq_handed' : mq_stream'[mq_handed'[j]] = mq_bus'[i].message
               /\ mq_handled'[mq_bus'[i].message] = RoundsBefore(mq_bus'[i].message)
    <3>1. PICK j \in DOMAIN mq_handed : mq_stream[mq_handed[j]] = mq_bus'[i].message
      BY <1>b, <2>6
    <3>2. mq_handled'[mq_bus'[i].message] = RoundsBefore(mq_bus'[i].message)
      BY <1>8, <1>b, <2>4, <2>6
    <3> QED  BY <1>1, <2>2, <3>1, <3>2
  <2>7. ASSUME NEW x \in DOMAIN mq_stream'
        PROVE  /\ (\A j \in DOMAIN mq_handed' : mq_handed'[j] # x) => mq_handled'[mq_stream'[x]] = RoundsBefore(mq_stream'[x])
               /\ mq_handled'[mq_stream'[x]] >= RoundsBefore(mq_stream'[x])
    <3>1. CASE x \in DOMAIN mq_stream
      <4>1. mq_stream'[x] = mq_stream[x] /\ mq_stream[x] # m /\ mq_stream[x] \in AllMessages
        BY <1>2, <2>1, <2>2, <3>1 DEF Longer
      <4>2. mq_handled'[mq_stream[x]] = mq_handled[mq_stream[x]]
        BY <1>8, <4>1
      <4> QED  BY <1>1, <3>1, <4>1, <4>2 DEF RoundInv, OnceRound, Unhanded, WrittenHandled
    <3>2. CASE x = Len(mq_stream) + 1
      <4>1. mq_stream'[x] = m
        BY <2>2, <3>2 DEF Longer
      <4>2. mq_handled'[m] = 1 /\ RoundsBefore(m) = 1
        BY <1>8, <1>d, <2>1
      <4> QED  BY <4>1, <4>2
    <3> QED  BY <2>2, <3>1, <3>2 DEF Longer
  <2>8. ASSUME NEW x \in ForeignMessages, mq_handled'[x] # 0 PROVE \E y \in DOMAIN mq_stream' : mq_stream'[y] = x
    <3>1. x \in AllMessages /\ x # m
      BY <2>1 DEF AllMessages, Mq!QueueAssumption
    <3>2. PICK y \in DOMAIN mq_stream : mq_stream[y] = x
      BY <1>8, <2>8, <3>1 DEF RoundInv, OnceRound, HandledWritten
    <3> QED  BY <2>2, <3>2 DEF Longer
  <2>9. OnceRound'
    BY <1>7, <1>10, <2>2, <2>5, <2>6, <2>7, <2>8
      DEF OnceRound, BusDistinct, FreshOnBus, EchoOnBus, FewTimes, Unhanded, StreamDistinct,
          WrittenHandled, HandledWritten
  <2> QED  BY <1>9, <2>3, <2>9 DEF RoundInv
<1> QED  BY <1>1, <1>11, <1>12

LEMMA InitRound == Mq!Init => RoundInv
<1> SUFFICES ASSUME Mq!Init PROVE RoundInv
  OBVIOUS
<1>1. /\ mq_batch = <<>> /\ mq_handed = <<>> /\ mq_bus = <<>> /\ mq_stream = <<>> /\ mq_cursor = -1
      /\ mq_handled = [m \in AllMessages |-> 0]
  BY DEF Mq!Init, AllMessages
<1>2. QueueTypes
  BY <1>1 DEF QueueTypes
<1>3. HandedInOrder
  BY <1>1 DEF HandedInOrder
<1>4. \A m \in AllMessages : mq_handled[m] = 0 /\ RoundsBefore(m) \in {0, 1}
  BY <1>1 DEF RoundsBefore
<1>5. ForeignMessages \subseteq AllMessages
  BY DEF AllMessages
<1>6. OnceRound
  BY <1>1, <1>4, <1>5
    DEF OnceRound, BusDistinct, FreshOnBus, EchoOnBus, FewTimes, Unhanded, StreamDistinct,
        WrittenHandled, HandledWritten
<1> QED  BY <1>2, <1>3, <1>6 DEF RoundInv

LEMMA RoundStep == Mq!QueueAssumption /\ RoundInv /\ [Mq!Next]_(Mq!vars) => RoundInv'
<1> SUFFICES ASSUME Mq!QueueAssumption, RoundInv, [Mq!Next]_(Mq!vars) PROVE RoundInv'
  OBVIOUS
<1>1. CASE Mq!Start \/ Mq!Reconnect
  <2>1. (Mq!Refused \/ Mq!Accepted) /\ BusIsQuiet /\ UNCHANGED <<mq_batch, mq_unacked>>
    BY <1>1 DEF Mq!Start, Mq!Reconnect, BusIsQuiet
  <2> QED  BY <2>1, StreamLinkStep
<1>2. CASE Mq!Stop \/ Mq!LinkBreaks \/ Mq!ServerChanges \/ Mq!Tick \/ UNCHANGED Mq!vars
  <2>1. BusIsQuiet /\ UNCHANGED <<mq_batch, mq_unacked, mq_cursor>>
    BY <1>2 DEF Mq!Stop, Mq!LinkBreaks, Mq!ServerChanges, Mq!Tick, Mq!vars, Mq!adapter,
                Mq!server, BusIsQuiet
  <2> QED  BY <2>1, QuietStep DEF RoundInv, QueueTypes, HandedInOrder, BusIsQuiet
<1> QED
  BY <1>1, <1>2, ReadStep, ProcessStep, DispatchStep, FromBrokerStep, WriteForeignStep
  DEF Mq!Next, Mq!EventLoop

LEMMA RoundIsKept == Mq!QueueAssumption => (Mq!Spec => []RoundInv)
<1> SUFFICES ASSUME Mq!QueueAssumption PROVE Mq!Spec => []RoundInv
  OBVIOUS
<1>1. Mq!Init => RoundInv
  BY InitRound
<1>2. RoundInv /\ [Mq!Next]_(Mq!vars) => RoundInv'
  BY RoundStep
<1> QED  BY <1>1, <1>2, PTL DEF Mq!Spec

LEMMA EntriesGoRoundOnce ==
  Mq!QueueAssumption /\ RoundInv => Mq!NoMessageGoesRound /\ Mq!EntriesAreHandedInOrder
<1> SUFFICES ASSUME Mq!QueueAssumption, RoundInv PROVE Mq!NoMessageGoesRound /\ Mq!EntriesAreHandedInOrder
  OBVIOUS
<1>1. Mq!NoMessageGoesRound
  BY DEF Mq!NoMessageGoesRound, RoundInv, OnceRound, FewTimes, RoundsBefore, Mq!QueueAssumption,
         AllMessages
<1>2. Mq!EntriesAreHandedInOrder
  BY DEF Mq!EntriesAreHandedInOrder, RoundInv, HandedInOrder
<1> QED  BY <1>1, <1>2
-----------------------------------------------------------------------------
\* What one unit of weight is worth, and the weight of the first n venues.
PerWeight == router_quantity \div Router!TotalWeight
WeightOf(n) == Totals(Router!Counted)[n]

PlanTypes ==
  /\ router_quantity \in Nat /\ router_least \in Nat /\ router_remaining \in 0 .. router_quantity
  /\ router_children \in Seq(0 .. router_quantity)
  /\ Len(router_children) <= Router!Count

\* A plan is of an order that is split, and of all of it; while there is a rest, no venue
\* had less than its share or the minimum, and the rest is what is left to the others.
PlanInv ==
  /\ PlanTypes
  /\ router_children # <<>> \/ router_remaining # 0 =>
       /\ SumOf(router_children) + router_remaining = router_quantity
       /\ Router!TotalWeight > 0 /\ router_quantity = PerWeight * Router!TotalWeight
  /\ Len(router_children) = Router!Count => router_remaining = 0
  /\ router_remaining # 0 =>
       /\ router_remaining <= PerWeight * (Router!TotalWeight - WeightOf(Len(router_children)))
       /\ \A i \in DOMAIN router_children : router_children[i] >= router_least
  /\ \A i \in DOMAIN router_children :
       /\ router_children[i] <= Router!Larger(router_least, PerWeight * Router!Weight(i))
       /\ i < Len(router_children) => router_children[i] >= router_least

\* The sums of the instance are the sums of this module.
LEMMA RouterSums ==
  /\ \A s : Router!Totals(s) = Totals(s)
  /\ \A s : Router!SumOf(s) = SumOf(s)
BY DEF Router!Totals, Totals, Router!SumOf, SumOf

LEMMA Division ==
  ASSUME NEW q \in Nat, NEW t \in Nat \ {0}
  PROVE  (q * t) \div t = q /\ q \div t \in Nat
<1>1. (q * t) \div t = q
  OBVIOUS
<1>2. q \div t \in Int /\ q \div t >= 0
  OBVIOUS
<1> QED  BY <1>1, <1>2

LEMMA Venues ==
  ASSUME Router!OrderRouterAssumption
  PROVE  /\ Router!Count \in Nat \ {0} /\ Router!Count <= Len(VenueWeights)
         /\ \A i \in 1 .. Router!Count : Router!Weight(i) \in Nat
         /\ Router!Counted \in Seq(Nat) /\ Len(Router!Counted) = Router!Count
         /\ Router!TotalWeight \in Nat
<1>1. VenueWeights \in Seq(Int) /\ Len(VenueWeights) \in Nat \ {0} /\ RouteChildren \in Int
  BY DEF Router!OrderRouterAssumption
<1>2. Router!Count \in Nat \ {0} /\ Router!Count <= Len(VenueWeights)
  BY <1>1 DEF Router!Count, Router!Larger, Router!Smaller
<1>3. ASSUME NEW i \in 1 .. Router!Count PROVE Router!Weight(i) \in Nat
  <2>1. VenueWeights[i] \in Int
    BY <1>1, <1>2
  <2> QED  BY <2>1 DEF Router!Weight, Router!Larger
<1> HIDE DEF Router!Count, Router!Weight
<1>4. Router!Counted \in Seq(Nat) /\ Len(Router!Counted) = Router!Count
  BY <1>2, <1>3 DEF Router!Counted
<1>5. Router!TotalWeight \in Nat
  BY <1>4, SumOfNaturals, RouterSums DEF Router!TotalWeight
<1> QED  BY <1>2, <1>3, <1>4, <1>5

\* The weight of the venues up to i is that of the venues before and its own.
LEMMA WeightsGrow ==
  ASSUME Router!OrderRouterAssumption
  PROVE  /\ \A n \in 0 .. Router!Count : WeightOf(n) \in Int
         /\ WeightOf(0) = 0 /\ WeightOf(Router!Count) = Router!TotalWeight
         /\ \A i \in 1 .. Router!Count : WeightOf(i) = WeightOf(i - 1) + Router!Weight(i)
<1>1. Router!Counted \in Seq(Int) /\ Len(Router!Counted) = Router!Count /\ Router!Count \in Nat \ {0}
  BY Venues
<1>2. /\ Totals(Router!Counted) \in [0 .. Router!Count -> Int] /\ Totals(Router!Counted)[0] = 0
      /\ \A i \in 1 .. Router!Count : Totals(Router!Counted)[i] = Totals(Router!Counted)[i - 1] + Router!Counted[i]
  BY <1>1, TotalsOfPrefixes
<1>3. \A i \in 1 .. Router!Count : Router!Counted[i] = Router!Weight(i)
  BY DEF Router!Counted
<1>4. WeightOf(Router!Count) = Router!TotalWeight
  BY <1>1, RouterSums DEF WeightOf, Router!TotalWeight, SumOf
<1> QED  BY <1>2, <1>3, <1>4 DEF WeightOf

LEMMA RouteStep ==
  ASSUME Router!OrderRouterAssumption, PlanInv, NEW q \in RouteQuantities, NEW m \in RouteMinimums, Router!Route(q, m)
  PROVE  PlanInv'
<1>1. q \in Nat \ {0} /\ m \in Nat
  BY DEF Router!OrderRouterAssumption
<1>2. Router!TotalWeight \in Nat /\ Router!Count \in Nat \ {0} /\ WeightOf(0) = 0
  BY Venues, WeightsGrow
<1>3. /\ router_quantity' = q * Router!TotalWeight /\ router_least' = m * Router!TotalWeight /\ router_children' = <<>>
      /\ router_remaining' = IF Router!Splits(q, m) THEN router_quantity' ELSE 0
  BY DEF Router!Route
<1>4. router_quantity' \in Nat /\ router_least' \in Nat /\ router_remaining' \in 0 .. router_quantity'
  BY <1>1, <1>2, <1>3
<1>5. /\ router_children' \in Seq(0 .. router_quantity') /\ Len(router_children') = 0 /\ DOMAIN router_children' = {}
      /\ SumOf(router_children') = 0
  BY <1>3, SumOfEmpty
<1>6. ASSUME router_remaining' # 0
      PROVE  /\ router_remaining' = router_quantity' /\ Router!TotalWeight > 0 /\ PerWeight' = q
  <2>1. router_remaining' = router_quantity' /\ Router!TotalWeight > 0
    BY <1>3, <1>6 DEF Router!Splits
  <2>2. PerWeight' = (q * Router!TotalWeight) \div Router!TotalWeight
    BY <1>3 DEF PerWeight
  <2> QED  BY <1>1, <1>2, <2>1, <2>2, Division
<1>7. Router!TotalWeight' = Router!TotalWeight /\ Router!Count' = Router!Count /\ WeightOf(0)' = WeightOf(0)
  BY DEF Router!TotalWeight, Router!Count, Router!Counted, Router!Weight, WeightOf
<1>8. PlanTypes'
  BY <1>2, <1>4, <1>5, <1>7 DEF PlanTypes
<1>9. router_remaining' # 0 => router_remaining' <= PerWeight' * (Router!TotalWeight - WeightOf(0))
  BY <1>1, <1>2, <1>3, <1>6
<1>10. WeightOf(Len(router_children))' = WeightOf(0)
  BY <1>5, <1>7 DEF WeightOf, Router!Counted
<1>11. router_quantity' = q * Router!TotalWeight /\ (router_remaining' # 0 => router_quantity' = PerWeight' * Router!TotalWeight)
  BY <1>3, <1>6
<1>12. Len(router_children') # Router!Count
  BY <1>2, <1>5
<1> QED
  BY <1>2, <1>4, <1>5, <1>6, <1>7, <1>8, <1>9, <1>10, <1>11, <1>12, <1>3 DEF PlanInv

\* The child that comes next: what is left, or its share, which is not below the minimum.
LEMMA NextShare ==
  ASSUME Router!OrderRouterAssumption, PlanInv, ~Router!Done
  PROVE  LET n == Len(router_children)
             i == n + 1
             share == Router!Share(i)
         IN  /\ n \in Nat /\ i \in 1 .. Router!Count /\ router_remaining \in 1 .. router_quantity
             /\ share \in 0 .. router_remaining
             /\ share <= Router!Larger(router_least, PerWeight * Router!Weight(i))
             /\ share # router_remaining => share >= router_least /\ share >= PerWeight * Router!Weight(i) /\ i # Router!Count
             /\ i = Router!Count => share = router_remaining
<1> DEFINE n == Len(router_children)
           i == n + 1
           share == Router!Share(i)
           due == PerWeight * Router!Weight(i)
<1>1. /\ router_quantity \in Nat /\ router_least \in Nat /\ router_remaining \in 1 .. router_quantity /\ n \in Nat /\ n <= Router!Count
  BY DEF PlanInv, PlanTypes, Router!Done
<1>2. /\ Router!Count \in Nat \ {0} /\ Router!TotalWeight \in Nat \ {0}
      /\ \A x \in 1 .. Router!Count : Router!Weight(x) \in Nat
      /\ WeightOf(Router!Count) = Router!TotalWeight
      /\ \A x \in 1 .. Router!Count : WeightOf(x) = WeightOf(x - 1) + Router!Weight(x)
      /\ \A x \in 0 .. Router!Count : WeightOf(x) \in Int
  BY <1>1, Venues, WeightsGrow DEF PlanInv
<1>3. i \in 1 .. Router!Count /\ i - 1 = n
  BY <1>1, <1>2 DEF Router!Done
<1>4. PerWeight \in Nat
  BY <1>1, <1>2, Division DEF PerWeight
<1>5. Router!Weight(i) \in Nat /\ due \in Nat
  <2>1. Router!Weight(i) \in Nat
    BY <1>2, <1>3
  <2> HIDE DEF i
  <2> QED  BY <2>1, <1>4
<1>6. router_remaining <= PerWeight * (Router!TotalWeight - WeightOf(n))
  BY <1>1 DEF PlanInv
<1>7. i = Router!Count => router_remaining <= due
  <2> SUFFICES ASSUME i = Router!Count PROVE router_remaining <= due
    OBVIOUS
  <2>1. Router!TotalWeight - WeightOf(n) = Router!Weight(i)
    BY <1>1, <1>2, <1>3
  <2> QED  BY <1>6, <2>1
<1>8. share = Router!Smaller(router_remaining, Router!Larger(router_least, IF i = Router!Count THEN router_remaining ELSE due))
  BY DEF Router!Share, PerWeight
<1> HIDE DEF n, i, due, share
<1>9. /\ share \in 0 .. router_remaining /\ share <= Router!Larger(router_least, due)
      /\ share # router_remaining => share >= router_least /\ share >= due /\ i # Router!Count
      /\ i = Router!Count => share = router_remaining
  BY <1>1, <1>5, <1>7, <1>8 DEF Router!Smaller, Router!Larger
<1> QED  BY <1>1, <1>3, <1>9 DEF n, i, due, share

LEMMA ChildStep ==
  ASSUME Router!OrderRouterAssumption, PlanInv, Router!AddChild PROVE PlanInv'
<1> DEFINE n == Len(router_children)
           i == n + 1
           share == Router!Share(i)
<1>1. /\ n \in Nat /\ i \in 1 .. Router!Count /\ router_remaining \in 1 .. router_quantity
      /\ share \in 0 .. router_remaining
      /\ share <= Router!Larger(router_least, PerWeight * Router!Weight(i))
      /\ share # router_remaining => share >= router_least /\ share >= PerWeight * Router!Weight(i) /\ i # Router!Count
      /\ i = Router!Count => share = router_remaining
  BY NextShare DEF Router!AddChild
<1>2. /\ router_children' = Append(router_children, share) /\ router_remaining' = router_remaining - share
      /\ router_quantity' = router_quantity /\ router_least' = router_least
  BY DEF Router!AddChild
<1>3. /\ PerWeight' = PerWeight /\ Router!TotalWeight' = Router!TotalWeight /\ Router!Count' = Router!Count
  BY <1>2 DEF PerWeight, Router!TotalWeight, Router!Count, Router!Counted, Router!Weight
<1> HIDE DEF share
<1>4. /\ router_quantity \in Nat /\ router_least \in Nat /\ router_children \in Seq(0 .. router_quantity)
      /\ SumOf(router_children) + router_remaining = router_quantity /\ Router!TotalWeight > 0
      /\ router_quantity = PerWeight * Router!TotalWeight /\ n <= Router!Count
      /\ router_remaining <= PerWeight * (Router!TotalWeight - WeightOf(n))
  BY <1>1 DEF PlanInv, PlanTypes
<1>5. share \in 0 .. router_quantity /\ share \in Int
  BY <1>1, <1>4
<1>6. /\ router_children' \in Seq(0 .. router_quantity) /\ Len(router_children') = i /\ DOMAIN router_children' = 1 .. i
      /\ DOMAIN router_children = 1 .. n
      /\ \A j \in 1 .. n : router_children'[j] = router_children[j]
      /\ router_children'[i] = share
  BY <1>2, <1>4, <1>5, AppendProperties
<1>7. SumOf(router_children') = SumOf(router_children) + share
  <2>1. router_children \in Seq(Int)
    BY <1>4, SeqMonotonic
  <2> QED  BY <1>2, <1>5, <2>1, SumOfAppend
<1>8. SumOf(router_children) \in Int
  <2>1. router_children \in Seq(Int)
    BY <1>4, SeqMonotonic
  <2> QED  BY <2>1, SumType
<1>9. router_remaining' \in 0 .. router_quantity /\ SumOf(router_children') + router_remaining' = router_quantity
  BY <1>1, <1>2, <1>4, <1>7, <1>8
<1>10. PlanTypes'
  BY <1>1, <1>2, <1>3, <1>4, <1>6, <1>9 DEF PlanTypes
<1>11. Len(router_children') = Router!Count => router_remaining' = 0
  BY <1>1, <1>2, <1>6
<1>12. ASSUME router_remaining' # 0
       PROVE  /\ router_remaining' <= PerWeight * (Router!TotalWeight - WeightOf(i))
              /\ \A j \in DOMAIN router_children' : router_children'[j] >= router_least
  <2>1. share # router_remaining
    BY <1>1, <1>2, <1>12
  <2>2. share >= router_least /\ share >= PerWeight * Router!Weight(i)
    BY <1>1, <2>1
  <2>3. WeightOf(i) = WeightOf(n) + Router!Weight(i) /\ WeightOf(n) \in Int /\ Router!Weight(i) \in Nat
        /\ Router!TotalWeight \in Nat /\ PerWeight \in Nat
    <3>1. i - 1 = n /\ n \in 0 .. Router!Count
      BY <1>1, <1>4
    <3>2. Router!TotalWeight \in Nat \ {0} /\ Router!Weight(i) \in Nat
      BY <1>1, <1>4, Venues
    <3>3. PerWeight \in Nat
      BY <1>4, <3>2, Division DEF PerWeight
    <3> QED  BY <1>1, <3>1, <3>2, <3>3, WeightsGrow
  <2>4. PerWeight * (Router!TotalWeight - WeightOf(i))
          = PerWeight * (Router!TotalWeight - WeightOf(n)) - PerWeight * Router!Weight(i)
    BY <2>3
  <2>5. router_remaining' <= PerWeight * (Router!TotalWeight - WeightOf(i))
    BY <1>1, <1>2, <1>4, <2>2, <2>3, <2>4, SMTT(20)
  <2>6. \A j \in 1 .. n : router_children[j] >= router_least
    BY <1>1, <1>6 DEF PlanInv
  <2> QED  BY <1>6, <2>2, <2>5, <2>6
<1>13. \A j \in DOMAIN router_children' :
         /\ router_children'[j] <= Router!Larger(router_least, PerWeight * Router!Weight(j))
         /\ j < Len(router_children') => router_children'[j] >= router_least
  <2>1. \A j \in 1 .. n : router_children[j] <= Router!Larger(router_least, PerWeight * Router!Weight(j)) /\ router_children[j] >= router_least
    BY <1>1, <1>6 DEF PlanInv
  <2> QED  BY <1>1, <1>6, <2>1
<1>14. WeightOf(Len(router_children))' = WeightOf(i)
  BY <1>6 DEF WeightOf, Router!Counted
<1>15. \A j \in DOMAIN router_children' : Router!Larger(router_least, PerWeight * Router!Weight(j))' = Router!Larger(router_least, PerWeight * Router!Weight(j))
  BY <1>2, <1>3 DEF Router!Larger, Router!Weight
<1> QED
  BY <1>2, <1>3, <1>4, <1>9, <1>10, <1>11, <1>12, <1>13, <1>14, <1>15 DEF PlanInv

LEMMA PlanIsKept == Router!OrderRouterAssumption => (Router!Spec => []PlanInv)
<1> SUFFICES ASSUME Router!OrderRouterAssumption PROVE Router!Spec => []PlanInv
  OBVIOUS
<1>1. Router!Init => PlanInv
  <2> SUFFICES ASSUME Router!Init PROVE PlanInv
    OBVIOUS
  <2>1. router_quantity = 0 /\ router_least = 0 /\ router_remaining = 0 /\ router_children = <<>>
    BY DEF Router!Init
  <2>2. Router!Count \in Nat \ {0}
    BY Venues
  <2> QED  BY <2>1, <2>2 DEF PlanInv, PlanTypes
<1>2. PlanInv /\ [Router!Next]_(Router!vars) => PlanInv'
  <2> SUFFICES ASSUME PlanInv, [Router!Next]_(Router!vars) PROVE PlanInv'
    OBVIOUS
  <2>1. CASE UNCHANGED Router!vars
    BY <2>1 DEF Router!vars, PlanInv, PlanTypes, PerWeight, WeightOf, Router!Larger
  <2> QED  BY <2>1, RouteStep, ChildStep DEF Router!Next
<1> QED  BY <1>1, <1>2, PTL DEF Router!Spec

LEMMA PlansAreExact ==
  ASSUME Router!OrderRouterAssumption, PlanInv PROVE Router!ChildrenAddUp /\ Router!SharesAreKept
<1>1. Router!ChildrenAddUp
  <2> SUFFICES ASSUME Router!Done, router_children # <<>> PROVE router_remaining = 0 /\ SumOf(router_children) = router_quantity
    BY RouterSums DEF Router!ChildrenAddUp
  <2>1. router_remaining = 0
    BY DEF Router!Done, PlanInv, PlanTypes
  <2>2. SumOf(router_children) \in Int
    <3>1. router_children \in Seq(Int)
      BY SeqMonotonic DEF PlanInv, PlanTypes
    <3> QED  BY <3>1, SumType
  <2> QED  BY <2>1, <2>2 DEF PlanInv, PlanTypes
<1>2. Router!SharesAreKept
  BY DEF Router!SharesAreKept, PlanInv, PerWeight
<1> QED  BY <1>1, <1>2
-----------------------------------------------------------------------------
(* Files that are mapped, and the caches in front of them.                 *)

\* A cache without a key: the entries before and behind its place.
LEMMA WithoutKey ==
  ASSUME NEW S, NEW c \in Seq(S), NEW k
  PROVE  /\ Mapped!Without(c, k) \in Seq(S)
         /\ ~ Mapped!HasEntry(c, k) => Mapped!Without(c, k) = c
         /\ Mapped!HasEntry(c, k) =>
              /\ Mapped!Place(c, k) \in 1 .. Len(c) /\ c[Mapped!Place(c, k)].key = k
              /\ Len(Mapped!Without(c, k)) = Len(c) - 1
              /\ \A j \in 1 .. Len(c) - 1 :
                   Mapped!Without(c, k)[j] = c[IF j < Mapped!Place(c, k) THEN j ELSE j + 1]
<1>1. CASE ~ Mapped!HasEntry(c, k)
  BY <1>1 DEF Mapped!Without
<1>2. CASE Mapped!HasEntry(c, k)
  <2>. DEFINE p == Mapped!Place(c, k)
  <2>1. p \in DOMAIN c /\ c[p].key = k
    BY <1>2, Zenon DEF Mapped!HasEntry, Mapped!Place
  <2>2. p \in 1 .. Len(c)
    BY <2>1
  <2>3. Mapped!Without(c, k) = SubSeq(c, 1, p - 1) \o SubSeq(c, p + 1, Len(c))
    BY <1>2, Zenon DEF Mapped!Without
  <2>. HIDE DEF p
  <2>4. /\ SubSeq(c, 1, p - 1) \in Seq(S) /\ Len(SubSeq(c, 1, p - 1)) = p - 1
        /\ \A j \in 1 .. p - 1 : SubSeq(c, 1, p - 1)[j] = c[j]
    BY <2>2
  <2>5. /\ SubSeq(c, p + 1, Len(c)) \in Seq(S) /\ Len(SubSeq(c, p + 1, Len(c))) = Len(c) - p
        /\ \A j \in 1 .. Len(c) - p : SubSeq(c, p + 1, Len(c))[j] = c[p + j]
    BY <2>2
  <2>6. /\ Mapped!Without(c, k) \in Seq(S) /\ Len(Mapped!Without(c, k)) = Len(c) - 1
        /\ \A j \in 1 .. Len(c) - 1 :
             Mapped!Without(c, k)[j] = c[IF j < p THEN j ELSE j + 1]
    <3>. DEFINE a == SubSeq(c, 1, p - 1)
                b == SubSeq(c, p + 1, Len(c))
                w == Mapped!Without(c, k)
    <3>1. a \in Seq(S) /\ b \in Seq(S) /\ Len(a) = p - 1 /\ Len(b) = Len(c) - p /\ w = a \o b
      BY <2>3, <2>4, <2>5
    <3>2. /\ \A j \in 1 .. p - 1 : a[j] = c[j]
          /\ \A j \in 1 .. Len(c) - p : b[j] = c[p + j]
      BY <2>4, <2>5
    <3>. HIDE DEF a, b, w
    <3>3. w \in Seq(S) /\ Len(w) = Len(c) - 1
      BY <2>2, <3>1
    <3>4. ASSUME NEW j \in 1 .. Len(c) - 1
          PROVE  w[j] = c[IF j < p THEN j ELSE j + 1]
      <4>1. CASE j < p
        BY <2>2, <3>1, <3>2, <4>1
      <4>2. CASE ~ j < p
        <5>1. w[j] = b[j - (p - 1)] /\ j - (p - 1) \in 1 .. Len(c) - p
          BY <2>2, <3>1, <4>2
        <5>. QED  BY <2>2, <3>2, <4>2, <5>1
      <4>. QED  BY <4>1, <4>2
    <3>. QED  BY <3>3, <3>4 DEF w
  <2>. QED  BY <1>2, <2>1, <2>2, <2>6 DEF p
<1>. QED  BY <1>1, <1>2

\* A cache with an entry at its front: the others are those of other keys.
LEMMA WithFront ==
  ASSUME NEW S, NEW c \in Seq(S), NEW e \in S, Mapped!KeysDiffer(c)
  PROVE  LET f == Mapped!AtFront(c, e) IN
           /\ f \in Seq(S) /\ Len(f) >= 1 /\ f[1] = e
           /\ Len(f) = IF Mapped!HasEntry(c, e.key) THEN Len(c) ELSE Len(c) + 1
           /\ \A j \in 2 .. Len(f) : \E i \in 1 .. Len(c) : f[j] = c[i] /\ c[i].key # e.key
           /\ Mapped!KeysDiffer(f)
<1>. DEFINE w == Mapped!Without(c, e.key)
            f == Mapped!AtFront(c, e)
            p == Mapped!Place(c, e.key)
<1>1. w \in Seq(S)
  BY WithoutKey
<1>2. f = <<e>> \o w
  BY DEF Mapped!AtFront
<1>3. /\ f \in Seq(S) /\ Len(f) = Len(w) + 1 /\ f[1] = e
      /\ \A j \in 2 .. Len(f) : f[j] = w[j - 1]
  <2>. HIDE DEF w, f
  <2>. QED  BY <1>1, <1>2
<1>4. CASE ~ Mapped!HasEntry(c, e.key)
  <2>1. w = c
    BY <1>4, WithoutKey
  <2>2. \A i \in 1 .. Len(c) : c[i].key # e.key
    BY <1>4 DEF Mapped!HasEntry
  <2>. HIDE DEF w, f
  <2>3. \A j \in 2 .. Len(f) : j - 1 \in 1 .. Len(c) /\ f[j] = c[j - 1]
    BY <1>3, <2>1
  <2>4. ASSUME NEW i \in 1 .. Len(f), NEW j \in 1 .. Len(f), i < j
        PROVE  f[i].key # f[j].key
    <3>1. j \in 2 .. Len(f) /\ (i = 1 \/ i \in 2 .. Len(f))
      BY <1>3, <2>4
    <3>2. j - 1 \in DOMAIN c /\ f[j] = c[j - 1]
      BY <2>3, <3>1
    <3>3. CASE i = 1
      BY <1>3, <2>2, <3>2, <3>3
    <3>4. CASE i \in 2 .. Len(f)
      <4>1. i - 1 \in DOMAIN c /\ f[i] = c[i - 1] /\ i - 1 # j - 1
        BY <2>3, <2>4, <3>4
      <4>. QED  BY <3>2, <4>1 DEF Mapped!KeysDiffer
    <3>. QED  BY <3>1, <3>3, <3>4
  <2>5. Mapped!KeysDiffer(f)
    <3>1. \A i, j \in 1 .. Len(f) : i # j => i < j \/ j < i
      BY <1>3
    <3>2. DOMAIN f = 1 .. Len(f)
      BY <1>3
    <3>. QED  BY <2>4, <3>1, <3>2, Zenon DEF Mapped!KeysDiffer
  <2>6. Len(f) = Len(c) + 1 /\ Len(f) >= 1
    BY <1>3, <2>1
  <2>7. \A j \in 2 .. Len(f) : \E i \in 1 .. Len(c) : f[j] = c[i] /\ c[i].key # e.key
    BY <2>2, <2>3
  <2>. HIDE DEF f
  <2>. QED  BY <1>3, <1>4, <2>5, <2>6, <2>7 DEF f
<1>5. CASE Mapped!HasEntry(c, e.key)
  <2>1. /\ p \in 1 .. Len(c) /\ c[p].key = e.key /\ Len(w) = Len(c) - 1
        /\ \A j \in 1 .. Len(c) - 1 : w[j] = c[IF j < p THEN j ELSE j + 1]
    BY <1>5, WithoutKey
  <2>2. \A i \in 1 .. Len(c) : i # p => c[i].key # e.key
    BY <2>1 DEF Mapped!KeysDiffer
  <2>. HIDE DEF w, f, p
  <2>3. \A j \in 2 .. Len(f) : LET i == IF j - 1 < p THEN j - 1 ELSE j IN
          i \in 1 .. Len(c) /\ i # p /\ f[j] = c[i]
    BY <1>3, <2>1
  <2>4. ASSUME NEW i \in 1 .. Len(f), NEW j \in 1 .. Len(f), i < j
        PROVE  f[i].key # f[j].key
    <3>1. j \in 2 .. Len(f) /\ (i = 1 \/ i \in 2 .. Len(f))
      BY <1>3, <2>4
    <3>. DEFINE at(n) == IF n - 1 < p THEN n - 1 ELSE n
    <3>2. at(j) \in DOMAIN c /\ at(j) # p /\ f[j] = c[at(j)]
      BY <2>3, <3>1
    <3>3. CASE i = 1
      <4>. HIDE DEF at
      <4>. QED  BY <1>3, <2>2, <3>2, <3>3
    <3>4. CASE i \in 2 .. Len(f)
      <4>1. at(i) \in DOMAIN c /\ f[i] = c[at(i)]
        BY <2>3, <3>4
      <4>2. at(i) # at(j)
        BY <2>1, <2>4, <3>4
      <4>. HIDE DEF at
      <4>. QED  BY <3>2, <4>1, <4>2 DEF Mapped!KeysDiffer
    <3>. QED  BY <3>1, <3>3, <3>4
  <2>5. Mapped!KeysDiffer(f)
    <3>1. \A i, j \in 1 .. Len(f) : i # j => i < j \/ j < i
      BY <1>3
    <3>2. DOMAIN f = 1 .. Len(f)
      BY <1>3
    <3>. QED  BY <2>4, <3>1, <3>2, Zenon DEF Mapped!KeysDiffer
  <2>6. \A j \in 2 .. Len(f) : \E i \in 1 .. Len(c) : f[j] = c[i] /\ c[i].key # e.key
    BY <2>2, <2>3
  <2>. QED  BY <1>3, <1>5, <2>1, <2>5, <2>6 DEF f
<1>. QED  BY <1>4, <1>5

\* The entry at the front has taken the place of the one it had.
LEMMA FrontIsOnce ==
  ASSUME NEW S, NEW c \in Seq(S), NEW e \in S, Mapped!KeysDiffer(c)
  PROVE  /\ Mapped!AtFront(c, e) \in Seq(S) /\ Mapped!AtFront(c, e)[1] = e
         /\ Len(Mapped!AtFront(c, e))
              = IF Mapped!HasEntry(c, e.key) THEN Len(c) ELSE Len(c) + 1
BY WithFront

\* put(): what is kept is the entry and some of the others, at most so many.
LEMMA PutKeeps ==
  ASSUME NEW S, NEW c \in Seq(S), NEW e \in S, Mapped!KeysDiffer(c), NEW limit \in Nat, Len(c) <= limit
  PROVE  LET f == Mapped!PutIn(c, e, limit) IN
           /\ f \in Seq(S) /\ Len(f) <= limit
           /\ \A j \in DOMAIN f : f[j] = e \/ \E i \in 1 .. Len(c) : f[j] = c[i]
           /\ Mapped!KeysDiffer(f)
           /\ \A j \in DOMAIN f : f[j] = Mapped!AtFront(c, e)[j]
           /\ Len(f) = IF Len(Mapped!AtFront(c, e)) > limit THEN limit
                       ELSE Len(Mapped!AtFront(c, e))
<1>. DEFINE g == Mapped!AtFront(c, e)
            f == Mapped!PutIn(c, e, limit)
<1>1. /\ g \in Seq(S) /\ Len(g) >= 1 /\ g[1] = e
      /\ \A j \in 2 .. Len(g) : \E i \in 1 .. Len(c) : g[j] = c[i]
      /\ Mapped!KeysDiffer(g)
  BY WithFront
<1>2. f = IF Len(g) > limit THEN SubSeq(g, 1, limit) ELSE g
  BY DEF Mapped!PutIn, Mapped!Evicted
<1>. HIDE DEF g, f
<1>3. /\ f \in Seq(S) /\ Len(f) = (IF Len(g) > limit THEN limit ELSE Len(g)) /\ Len(f) <= Len(g)
      /\ \A j \in 1 .. Len(f) : f[j] = g[j]
  BY <1>1, <1>2
<1>4. Mapped!KeysDiffer(f)
  BY <1>1, <1>3 DEF Mapped!KeysDiffer
<1>5. \A j \in 1 .. Len(f) : j = 1 \/ j \in 2 .. Len(g)
  BY <1>1, <1>3
<1>6. \A j \in DOMAIN f : f[j] = g[j] /\ (g[j] = e \/ \E i \in 1 .. Len(c) : g[j] = c[i])
  BY <1>1, <1>3, <1>5
<1>7. Len(f) <= limit
  BY <1>1, <1>3
<1>. QED  BY <1>3, <1>4, <1>6, <1>7, Zenon DEF f, g

\* The keys in front of a cache stay those that were used last.
InFrontOf(c, u, limit) ==
  /\ Len(c) = IF Len(u) < limit THEN Len(u) ELSE limit
  /\ \A i \in DOMAIN c : c[i].key = u[i].key

LEMMA LastUsedInFront ==
  ASSUME NEW S, NEW T, NEW c \in Seq(S), NEW u \in Seq(T),
         Mapped!KeysDiffer(c), Mapped!KeysDiffer(u), NEW limit \in Nat \ {0},
         InFrontOf(c, u, limit), NEW e \in S, NEW d \in T, d.key = e.key
  PROVE  InFrontOf(Mapped!PutIn(c, e, limit), Mapped!AtFront(u, d), limit)
<1>. DEFINE f == Mapped!PutIn(c, e, limit)
            g == Mapped!AtFront(c, e)
            v == Mapped!AtFront(u, d)
            cc == Mapped!Without(c, e.key)
            uu == Mapped!Without(u, e.key)
            p == Mapped!Place(c, e.key)
            q == Mapped!Place(u, e.key)
<1>1. /\ f \in Seq(S) /\ Len(f) <= limit /\ (\A i \in DOMAIN f : f[i] = g[i])
      /\ Len(f) = IF Len(g) > limit THEN limit ELSE Len(g)
  <2>1. Len(c) <= limit
    BY DEF InFrontOf
  <2>. QED  BY <2>1, PutKeeps
<1>2. /\ g \in Seq(S) /\ g[1] = e
      /\ Len(g) = IF Mapped!HasEntry(c, e.key) THEN Len(c) ELSE Len(c) + 1
  BY FrontIsOnce, Zenon
<1>3. /\ v \in Seq(T) /\ v[1] = d
      /\ Len(v) = IF Mapped!HasEntry(u, e.key) THEN Len(u) ELSE Len(u) + 1
  BY FrontIsOnce
<1>4. /\ cc \in Seq(S)
      /\ ~ Mapped!HasEntry(c, e.key) => cc = c
      /\ Mapped!HasEntry(c, e.key) =>
           /\ p \in 1 .. Len(c) /\ c[p].key = e.key /\ Len(cc) = Len(c) - 1
           /\ \A j \in 1 .. Len(c) - 1 : cc[j] = c[IF j < p THEN j ELSE j + 1]
  BY WithoutKey
<1>5. /\ uu \in Seq(T)
      /\ ~ Mapped!HasEntry(u, e.key) => uu = u
      /\ Mapped!HasEntry(u, e.key) =>
           /\ q \in 1 .. Len(u) /\ u[q].key = e.key /\ Len(uu) = Len(u) - 1
           /\ \A j \in 1 .. Len(u) - 1 : uu[j] = u[IF j < q THEN j ELSE j + 1]
  BY WithoutKey
<1>6. g = <<e>> \o cc /\ v = <<d>> \o uu
  BY DEF Mapped!AtFront
<1>. HIDE DEF f, g, v, cc, uu, p, q
<1>7. /\ \A j \in 2 .. Len(g) : g[j] = cc[j - 1]
      /\ \A j \in 2 .. Len(v) : v[j] = uu[j - 1]
  BY <1>4, <1>5, <1>6
<1>8. DOMAIN c = 1 .. Len(c) /\ DOMAIN u = 1 .. Len(u) /\ DOMAIN f = 1 .. Len(f)
      /\ Len(c) \in Nat /\ Len(u) \in Nat /\ Len(c) <= Len(u)
      /\ Len(c) = (IF Len(u) < limit THEN Len(u) ELSE limit)
      /\ \A i \in 1 .. Len(c) : c[i].key = u[i].key
  BY <1>1 DEF InFrontOf
<1>9. SUFFICES /\ Len(f) = IF Len(v) < limit THEN Len(v) ELSE limit
               /\ \A j \in 2 .. Len(f) : g[j].key = v[j].key
  <2>1. \A j \in 1 .. Len(f) : j = 1 \/ j \in 2 .. Len(f)
    BY <1>1
  <2>2. \A j \in 1 .. Len(f) : f[j].key = v[j].key
    BY <1>1, <1>2, <1>3, <1>8, <1>9, <2>1
  <2>. QED  BY <1>8, <1>9, <2>2 DEF f, v, InFrontOf
<1>10. CASE Mapped!HasEntry(c, e.key)
  <2>1. u[p].key = e.key /\ p \in 1 .. Len(u)
    BY <1>4, <1>8, <1>10
  <2>2. Mapped!HasEntry(u, e.key)
    BY <1>8, <2>1 DEF Mapped!HasEntry
  <2>3. p = q
    BY <1>5, <1>8, <2>1, <2>2 DEF Mapped!KeysDiffer
  <2>4. Len(g) = Len(c) /\ Len(v) = Len(u) /\ Len(f) = Len(c)
    BY <1>1, <1>2, <1>3, <1>8, <1>10, <2>2
  <2>5. ASSUME NEW j \in 2 .. Len(f)
        PROVE  g[j].key = v[j].key
    <3>. DEFINE at == IF j - 1 < p THEN j - 1 ELSE j
    <3>1. g[j] = c[at] /\ v[j] = u[at] /\ at \in 1 .. Len(c)
      <4>1. j - 1 \in 1 .. Len(c) - 1 /\ j - 1 \in 1 .. Len(u) - 1 /\ (j - 1) + 1 = j
            /\ j \in 2 .. Len(g) /\ j \in 2 .. Len(v)
        BY <1>8, <2>4
      <4>2. cc[j - 1] = c[at] /\ uu[j - 1] = u[at]
        BY <1>4, <1>5, <1>10, <2>2, <2>3, <4>1
      <4>3. at \in 1 .. Len(c)
        BY <1>4, <1>10, <4>1
      <4>. QED  BY <1>7, <4>1, <4>2, <4>3
    <3>. HIDE DEF at
    <3>. QED  BY <1>8, <3>1
  <2>. QED  BY <1>8, <2>4, <2>5
<1>11. CASE ~ Mapped!HasEntry(c, e.key) /\ Mapped!HasEntry(u, e.key)
  <2>1. q > Len(c)
    <3>1. q \in 1 .. Len(u) /\ u[q].key = e.key
      BY <1>5, <1>11
    <3>2. q \notin DOMAIN c
      BY <1>8, <1>11, <3>1, Zenon DEF Mapped!HasEntry
    <3>. QED  BY <1>8, <3>1, <3>2
  <2>2. Len(c) = limit /\ Len(g) = Len(c) + 1 /\ Len(v) = Len(u) /\ Len(f) = limit
    BY <1>1, <1>2, <1>3, <1>5, <1>8, <1>11, <2>1
  <2>3. ASSUME NEW j \in 2 .. Len(f)
        PROVE  g[j].key = v[j].key
    <3>1. j - 1 \in 1 .. Len(c) /\ j - 1 \in 1 .. Len(u) - 1 /\ j - 1 < q
          /\ j \in 2 .. Len(g) /\ j \in 2 .. Len(v)
      BY <1>5, <1>8, <1>11, <2>1, <2>2
    <3>2. g[j] = c[j - 1] /\ v[j] = u[j - 1]
      BY <1>4, <1>5, <1>7, <1>11, <3>1
    <3>. QED  BY <1>8, <3>1, <3>2
  <2>. QED  BY <1>5, <1>8, <1>11, <2>1, <2>2, <2>3
<1>12. CASE ~ Mapped!HasEntry(c, e.key) /\ ~ Mapped!HasEntry(u, e.key)
  <2>1. Len(g) = Len(c) + 1 /\ Len(v) = Len(u) + 1
    BY <1>2, <1>3, <1>12
  <2>2. Len(f) = IF Len(v) < limit THEN Len(v) ELSE limit
    BY <1>1, <1>8, <2>1
  <2>3. ASSUME NEW j \in 2 .. Len(f)
        PROVE  g[j].key = v[j].key
    <3>1. j - 1 \in 1 .. Len(c) /\ j \in 2 .. Len(g) /\ j \in 2 .. Len(v)
      BY <1>1, <1>8, <2>1
    <3>2. g[j] = c[j - 1] /\ v[j] = u[j - 1]
      BY <1>4, <1>5, <1>7, <1>12, <3>1
    <3>. QED  BY <1>8, <3>1, <3>2
  <2>. QED  BY <2>2, <2>3
<1>. QED  BY <1>10, <1>11, <1>12

\* lower_bound() and upper_bound() in bars in order part them.
LEMMA BoundsPart ==
  ASSUME NEW bars \in Seq(Int), Mapped!InOrder(bars), NEW time \in Int
  PROVE  /\ Mapped!LowerBound(bars, time) \in 1 .. Len(bars) + 1
         /\ \A i \in 1 .. Len(bars) : i < Mapped!LowerBound(bars, time) <=> bars[i] < time
         /\ Mapped!UpperBound(bars, time) \in 1 .. Len(bars) + 1
         /\ \A i \in 1 .. Len(bars) : i < Mapped!UpperBound(bars, time) <=> bars[i] <= time
<1>. DEFINE Low(n) == /\ \A i \in 1 .. n - 1 : bars[i] < time
                      /\ n \in DOMAIN bars => bars[n] >= time
            High(n) == /\ \A i \in 1 .. n - 1 : bars[i] <= time
                       /\ n \in DOMAIN bars => bars[n] > time
            Bounds == 1 .. Len(bars) + 1
<1>1. \E n \in Bounds : Low(n)
  <2>. DEFINE T == {n \in Bounds : n \in DOMAIN bars => bars[n] >= time}
  <2>1. T \subseteq Nat /\ Len(bars) + 1 \in T
    OBVIOUS
  <2>2. PICK x \in T : \A y \in T : ~ (y < x)
    <3>. HIDE DEF T
    <3>. QED  BY <2>1, LeastNumber
  <2>3. Low(x)
    BY <2>2
  <2>. QED  BY <2>3
<1>2. \E n \in Bounds : High(n)
  <2>. DEFINE T == {n \in Bounds : n \in DOMAIN bars => bars[n] > time}
  <2>1. T \subseteq Nat /\ Len(bars) + 1 \in T
    OBVIOUS
  <2>2. PICK x \in T : \A y \in T : ~ (y < x)
    <3>. HIDE DEF T
    <3>. QED  BY <2>1, LeastNumber
  <2>3. High(x)
    BY <2>2
  <2>. QED  BY <2>3
<1>3. Mapped!LowerBound(bars, time) \in Bounds /\ Low(Mapped!LowerBound(bars, time))
  BY <1>1, Zenon DEF Mapped!LowerBound
<1>4. Mapped!UpperBound(bars, time) \in Bounds /\ High(Mapped!UpperBound(bars, time))
  BY <1>2, Zenon DEF Mapped!UpperBound
<1>5. ASSUME NEW n \in Bounds, NEW i \in 1 .. Len(bars), ~ i < n
      PROVE  n \in DOMAIN bars /\ bars[n] <= bars[i]
  BY <1>5 DEF Mapped!InOrder
<1>6. \A i \in 1 .. Len(bars) : i < Mapped!LowerBound(bars, time) <=> bars[i] < time
  BY <1>3, <1>5
<1>7. \A i \in 1 .. Len(bars) : i < Mapped!UpperBound(bars, time) <=> bars[i] <= time
  BY <1>4, <1>5
<1>. QED  BY <1>3, <1>4, <1>6, <1>7

\* find_range() finds the bars of the range, all of them and no others.
LEMMA RangeIsFound ==
  ASSUME NEW bars \in Seq(Int), Mapped!InOrder(bars), NEW range \in Nat \X Nat
  PROVE  /\ Mapped!FindRange(bars, range) \in Seq(Int)
         /\ Mapped!IsRangeOf(Mapped!FindRange(bars, range), bars, range)
<1>1. CASE range = <<0, 0>>
  <2>1. Mapped!FindRange(bars, range) = bars
    BY <1>1 DEF Mapped!FindRange
  <2>2. bars = SubSeq(bars, 1, Len(bars))
    OBVIOUS
  <2>3. 1 \in 1 .. Len(bars) + 1 /\ Len(bars) \in 0 .. Len(bars)
    OBVIOUS
  <2>4. \A i \in DOMAIN bars : i \in 1 .. Len(bars)
    OBVIOUS
  <2>. QED  BY <1>1, <2>1, <2>2, <2>3, <2>4, Zenon DEF Mapped!IsRangeOf
<1>2. CASE range # <<0, 0>>
  <2>. DEFINE low == Mapped!LowerBound(bars, range[1])
              high == Mapped!UpperBound(bars, range[2])
  <2>1. range[1] \in Int /\ range[2] \in Int
    OBVIOUS
  <2>2. /\ low \in 1 .. Len(bars) + 1
        /\ \A i \in 1 .. Len(bars) : i < low <=> bars[i] < range[1]
        /\ high \in 1 .. Len(bars) + 1
        /\ \A i \in 1 .. Len(bars) : i < high <=> bars[i] <= range[2]
    BY <2>1, BoundsPart, Zenon
  <2>3. Mapped!FindRange(bars, range) = SubSeq(bars, low, high - 1)
    BY <1>2 DEF Mapped!FindRange
  <2>. HIDE DEF low, high
  <2>4. SubSeq(bars, low, high - 1) \in Seq(Int) /\ high - 1 \in 0 .. Len(bars)
    BY <2>2
  <2>5. \A i \in DOMAIN bars : i \in low .. high - 1 <=> bars[i] \in range[1] .. range[2]
    BY <2>1, <2>2
  <2>. QED  BY <1>2, <2>2, <2>3, <2>4, <2>5, Zenon DEF Mapped!IsRangeOf
<1>. QED  BY <1>1, <1>2

FilesTypes ==
  /\ mapped_disk \in [FileSymbols -> [version : Nat, size : Nat]]
  /\ mapped_versions \in Seq([symbol : FileSymbols, bars : Seq(Int)])
  /\ mapped_writing \in FileSymbols \cup {"none"}
  /\ mapped_capacity \in Nat
  /\ mapped_files \in Seq([key : FileSymbols, version : Nat])
  /\ mapped_ranges \in Seq([key : FileSymbols \X FileRanges, version : Nat, bars : Seq(Int)])
  /\ mapped_used \in Seq([key : FileSymbols])

\* A file on the disk is the last version written for its symbol, of which there is
\* nothing before the first one.
DiskIsKnown ==
  \A s \in FileSymbols :
    /\ mapped_disk[s].version \in 0 .. Len(mapped_versions)
    /\ mapped_disk[s].version # 0 => mapped_versions[mapped_disk[s].version].symbol = s
    /\ mapped_disk[s].version = 0 => mapped_disk[s].size = 0
    /\ mapped_writing = s => s = "none" \/ mapped_disk[s].version # 0

VersionsInOrder ==
  \A v \in 1 .. Len(mapped_versions) : Mapped!InOrder(mapped_versions[v].bars)

\* A version of the file of a symbol; if it is the one on the disk, all bars are there.
WholeVersion(s, v) ==
  /\ v \in 1 .. Len(mapped_versions)
  /\ mapped_versions[v].symbol = s
  /\ mapped_disk[s].version = v
       => Mapped!DataEnd(mapped_versions[v].bars) <= mapped_disk[s].size

\* What is mapped is the file on the disk, which nobody replaces meanwhile.
MappedFilesAreOnDisk ==
  \A i \in 1 .. Len(mapped_files) :
    /\ mapped_files[i].version = mapped_disk[mapped_files[i].key].version
    /\ WholeVersion(mapped_files[i].key, mapped_files[i].version)

CachedAnswersAreExact ==
  \A i \in 1 .. Len(mapped_ranges) :
    /\ WholeVersion(mapped_ranges[i].key[1], mapped_ranges[i].version)
    /\ Mapped!IsRangeOf(mapped_ranges[i].bars, mapped_versions[mapped_ranges[i].version].bars,
                        mapped_ranges[i].key[2])

CachesHaveRoom ==
  /\ Len(mapped_files) <= FilesOpen /\ Len(mapped_ranges) <= mapped_capacity
  /\ Mapped!KeysDiffer(mapped_files) /\ Mapped!KeysDiffer(mapped_ranges)
  /\ Mapped!KeysDiffer(mapped_used)

AnswerIsSound ==
  mapped_answer # Mapped!NoAnswer =>
    /\ mapped_answer.whole
    /\ mapped_answer.version \in 1 .. Len(mapped_versions)
    /\ mapped_versions[mapped_answer.version].symbol = mapped_answer.symbol
    /\ Mapped!IsRangeOf(mapped_answer.bars, mapped_versions[mapped_answer.version].bars,
                        mapped_answer.range)
    /\ mapped_capacity = 0 => mapped_answer.version = mapped_answer.latest

MappedInv ==
  /\ FilesTypes /\ DiskIsKnown /\ VersionsInOrder
  /\ MappedFilesAreOnDisk /\ CachedAnswersAreExact /\ CachesHaveRoom
  /\ Mapped!LastUsedStayOpen /\ AnswerIsSound

LEMMA InitMapped == Mapped!FilesAssumption /\ Mapped!Init => MappedInv
<1>. SUFFICES ASSUME Mapped!FilesAssumption, Mapped!Init PROVE MappedInv
  OBVIOUS
<1>1. FilesTypes /\ DiskIsKnown
  BY DEF FilesTypes, DiskIsKnown, Mapped!Init, Mapped!NoFile, Mapped!FilesAssumption
<1>2. VersionsInOrder /\ MappedFilesAreOnDisk /\ CachedAnswersAreExact
  BY DEF VersionsInOrder, MappedFilesAreOnDisk, CachedAnswersAreExact, Mapped!Init
<1>3. FilesOpen \in Nat /\ mapped_capacity \in Nat
  BY DEF Mapped!Init, Mapped!FilesAssumption
<1>4. CachesHaveRoom /\ Mapped!LastUsedStayOpen
  <2>1. /\ Len(mapped_files) = 0 /\ Len(mapped_ranges) = 0 /\ Len(mapped_used) = 0
        /\ DOMAIN mapped_files = {} /\ DOMAIN mapped_ranges = {} /\ DOMAIN mapped_used = {}
    BY DEF Mapped!Init
  <2>2. FilesOpen > 0
    BY DEF Mapped!FilesAssumption
  <2>. QED  BY <1>3, <2>1, <2>2 DEF CachesHaveRoom, Mapped!KeysDiffer, Mapped!LastUsedStayOpen
<1>5. AnswerIsSound
  BY DEF AnswerIsSound, Mapped!Init
<1>. QED  BY <1>1, <1>2, <1>4, <1>5 DEF MappedInv

LEMMA EntriesHaveTypes ==
  ASSUME FilesTypes
  PROVE  /\ \A i \in 1 .. Len(mapped_files) :
              /\ i \in DOMAIN mapped_files
              /\ mapped_files[i].key \in FileSymbols /\ mapped_files[i].version \in Nat
         /\ \A i \in 1 .. Len(mapped_ranges) :
              /\ i \in DOMAIN mapped_ranges
              /\ mapped_ranges[i].key[1] \in FileSymbols /\ mapped_ranges[i].key[2] \in FileRanges
              /\ mapped_ranges[i].version \in Nat /\ mapped_ranges[i].bars \in Seq(Int)
         /\ \A v \in 1 .. Len(mapped_versions) :
              mapped_versions[v].symbol \in FileSymbols /\ mapped_versions[v].bars \in Seq(Int)
<1>. DEFINE V == [symbol : FileSymbols, bars : Seq(Int)]
            F == [key : FileSymbols, version : Nat]
            R == [key : FileSymbols \X FileRanges, version : Nat, bars : Seq(Int)]
<1>1. mapped_files \in Seq(F) /\ mapped_ranges \in Seq(R) /\ mapped_versions \in Seq(V)
  BY DEF FilesTypes
<1>. HIDE DEF F, R, V
<1>2. /\ \A i \in 1 .. Len(mapped_files) : i \in DOMAIN mapped_files /\ mapped_files[i] \in F
      /\ \A i \in 1 .. Len(mapped_ranges) : i \in DOMAIN mapped_ranges /\ mapped_ranges[i] \in R
      /\ \A v \in 1 .. Len(mapped_versions) : mapped_versions[v] \in V
  BY <1>1
<1>3. /\ \A e \in F : e.key \in FileSymbols /\ e.version \in Nat
      /\ \A e \in R : /\ e.key[1] \in FileSymbols /\ e.key[2] \in FileRanges
                     /\ e.version \in Nat /\ e.bars \in Seq(Int)
      /\ \A e \in V : e.symbol \in FileSymbols /\ e.bars \in Seq(Int)
  BY DEF F, R, V
<1>. QED  BY <1>2, <1>3

\* A new version changes nothing of the others, nor of what is mapped or cached.
LEMMA BeginWriteStep ==
  ASSUME Mapped!FilesAssumption, MappedInv, NEW s \in FileSymbols, NEW bars \in FileInputs,
         Mapped!BeginWrite(s, bars)
  PROVE  MappedInv'
<1>. USE DEF MappedInv
<1>1. PICK sorted \in Mapped!Sorted(bars) :
        mapped_versions' = Append(mapped_versions, [symbol |-> s, bars |-> sorted])
  BY DEF Mapped!BeginWrite
<1>2. /\ mapped_disk' = [mapped_disk EXCEPT ![s] = [version |-> Len(mapped_versions) + 1, size |-> 0]]
      /\ mapped_writing' = s
      /\ UNCHANGED <<mapped_files, mapped_ranges, mapped_capacity, mapped_used, mapped_answer>>
      /\ \A i \in DOMAIN mapped_files : mapped_files[i].key # s
  BY DEF Mapped!BeginWrite, Mapped!HasEntry
<1>3. sorted \in Seq(Int) /\ Mapped!InOrder(sorted)
  <2>1. bars \in Seq(Int)
    BY DEF Mapped!FilesAssumption
  <2>2. PICK p \in Mapped!Bijection(DOMAIN bars, DOMAIN bars) :
          sorted = [i \in DOMAIN bars |-> bars[p[i]]]
    BY DEF Mapped!Sorted
  <2>3. p \in [DOMAIN bars -> DOMAIN bars]
    BY <2>2 DEF Mapped!Bijection, Mapped!Injection
  <2>4. sorted \in Seq(Int)
    <3>1. DOMAIN bars = 1 .. Len(bars) /\ Len(bars) \in Nat
      BY <2>1
    <3>2. \A i \in 1 .. Len(bars) : bars[p[i]] \in Int
      BY <2>1, <2>3, <3>1
    <3>. QED  BY <2>2, <3>1, <3>2
  <2>. QED  BY <2>4 DEF Mapped!Sorted
<1>. DEFINE n == Len(mapped_versions)
<1>4. /\ n \in Nat /\ Len(mapped_versions') = n + 1
      /\ mapped_versions' \in Seq([symbol : FileSymbols, bars : Seq(Int)])
      /\ \A v \in 1 .. n : mapped_versions'[v] = mapped_versions[v]
      /\ mapped_versions'[n + 1] = [symbol |-> s, bars |-> sorted]
  BY <1>1, <1>3 DEF FilesTypes
<1>5. /\ mapped_disk'[s] = [version |-> n + 1, size |-> 0]
      /\ \A t \in FileSymbols : t # s => mapped_disk'[t] = mapped_disk[t]
      /\ mapped_disk' \in [FileSymbols -> [version : Nat, size : Nat]]
  BY <1>2, <1>4 DEF FilesTypes
<1>. HIDE DEF n
<1>6. FilesTypes'
  BY <1>2, <1>4, <1>5 DEF FilesTypes
<1>7. DiskIsKnown'
  <2>. SUFFICES ASSUME NEW t \in FileSymbols
                PROVE  /\ mapped_disk'[t].version \in 0 .. n + 1
                       /\ mapped_disk'[t].version # 0 => mapped_versions'[mapped_disk'[t].version].symbol = t
                       /\ mapped_disk'[t].version = 0 => mapped_disk'[t].size = 0
                       /\ mapped_writing' = t => t = "none" \/ mapped_disk'[t].version # 0
    BY <1>4 DEF DiskIsKnown
  <2>1. CASE t = s
    BY <1>4, <1>5, <2>1
  <2>2. CASE t # s
    <3>1. mapped_disk'[t] = mapped_disk[t] /\ mapped_writing' # t
      BY <1>2, <1>5, <2>2
    <3>2. /\ mapped_disk[t].version \in 0 .. n
          /\ mapped_disk[t].version # 0 => mapped_versions[mapped_disk[t].version].symbol = t
          /\ mapped_disk[t].version = 0 => mapped_disk[t].size = 0
      BY DEF DiskIsKnown, n
    <3>3. mapped_disk[t].version # 0 =>
            mapped_versions'[mapped_disk[t].version] = mapped_versions[mapped_disk[t].version]
      BY <1>4, <3>2
    <3>. QED  BY <1>4, <3>1, <3>2, <3>3
  <2>. QED  BY <2>1, <2>2
<1>8. VersionsInOrder'
  <2>1. \A v \in 1 .. n + 1 : v \in 1 .. n \/ v = n + 1
    BY <1>4
  <2>2. \A v \in 1 .. n : Mapped!InOrder(mapped_versions'[v].bars)
    BY <1>4 DEF VersionsInOrder, n
  <2>3. Mapped!InOrder(mapped_versions'[n + 1].bars)
    BY <1>3, <1>4
  <2>. QED  BY <1>4, <2>1, <2>2, <2>3 DEF VersionsInOrder
<1>9. \A t \in FileSymbols, v \in Nat : WholeVersion(t, v) => WholeVersion(t, v)'
  <2>. SUFFICES ASSUME NEW t \in FileSymbols, NEW v \in Nat, WholeVersion(t, v)
                PROVE  WholeVersion(t, v)'
    OBVIOUS
  <2>1. v \in 1 .. n /\ v \in 1 .. n + 1 /\ v # n + 1 /\ mapped_versions'[v] = mapped_versions[v]
    BY <1>4 DEF WholeVersion, n
  <2>2. CASE t = s
    BY <1>4, <1>5, <2>1, <2>2 DEF WholeVersion
  <2>3. CASE t # s
    BY <1>4, <1>5, <2>1, <2>3 DEF WholeVersion
  <2>. QED  BY <2>2, <2>3
<1>10. MappedFilesAreOnDisk'
  <2>. SUFFICES ASSUME NEW i \in 1 .. Len(mapped_files)
                PROVE  /\ mapped_files[i].version = mapped_disk'[mapped_files[i].key].version
                       /\ WholeVersion(mapped_files[i].key, mapped_files[i].version)'
    BY <1>2 DEF MappedFilesAreOnDisk
  <2>1. mapped_files[i].key \in FileSymbols /\ mapped_files[i].version \in Nat /\ i \in DOMAIN mapped_files
    BY EntriesHaveTypes
  <2>2. WholeVersion(mapped_files[i].key, mapped_files[i].version)
    BY DEF MappedFilesAreOnDisk
  <2>3. mapped_files[i].version = mapped_disk'[mapped_files[i].key].version
    BY <1>2, <1>5, <2>1 DEF MappedFilesAreOnDisk
  <2>4. WholeVersion(mapped_files[i].key, mapped_files[i].version)'
    BY <1>2, <1>9, <2>1, <2>2
  <2>. QED  BY <2>3, <2>4
<1>11. CachedAnswersAreExact'
  <2>. SUFFICES ASSUME NEW i \in 1 .. Len(mapped_ranges)
                PROVE  /\ WholeVersion(mapped_ranges[i].key[1], mapped_ranges[i].version)'
                       /\ Mapped!IsRangeOf(mapped_ranges[i].bars,
                            mapped_versions'[mapped_ranges[i].version].bars, mapped_ranges[i].key[2])
    BY <1>2 DEF CachedAnswersAreExact
  <2>1. mapped_ranges[i].key[1] \in FileSymbols /\ mapped_ranges[i].version \in Nat
    BY EntriesHaveTypes
  <2>2. /\ WholeVersion(mapped_ranges[i].key[1], mapped_ranges[i].version)
        /\ Mapped!IsRangeOf(mapped_ranges[i].bars,
             mapped_versions[mapped_ranges[i].version].bars, mapped_ranges[i].key[2])
    BY DEF CachedAnswersAreExact
  <2>3. mapped_versions'[mapped_ranges[i].version] = mapped_versions[mapped_ranges[i].version]
    BY <1>4, <2>2 DEF WholeVersion, n
  <2>4. WholeVersion(mapped_ranges[i].key[1], mapped_ranges[i].version)'
    BY <1>2, <1>9, <2>1, <2>2
  <2>. QED  BY <2>2, <2>3, <2>4
<1>12. CachesHaveRoom' /\ Mapped!LastUsedStayOpen'
  BY <1>2 DEF CachesHaveRoom, Mapped!LastUsedStayOpen, Mapped!KeysDiffer
<1>13. AnswerIsSound'
  <2>. SUFFICES ASSUME mapped_answer # Mapped!NoAnswer
                PROVE  /\ mapped_answer.whole
                       /\ mapped_answer.version \in 1 .. n + 1
                       /\ mapped_versions'[mapped_answer.version] = mapped_versions[mapped_answer.version]
    BY <1>2, <1>4 DEF AnswerIsSound
  <2>1. mapped_answer.version \in 1 .. n /\ mapped_answer.whole
    BY DEF AnswerIsSound, n
  <2>. QED  BY <1>4, <2>1
<1>. QED  BY <1>6, <1>7, <1>8, <1>10, <1>11, <1>12, <1>13

\* What is written of a file is added to it.
LEMMA FlushStep ==
  ASSUME Mapped!FilesAssumption, MappedInv, Mapped!Flush
  PROVE  MappedInv'
<1>. USE DEF MappedInv
<1>1. PICK size : /\ size \in mapped_disk[mapped_writing].size + 1
                       .. Mapped!Size(Mapped!BarsOf(mapped_disk[mapped_writing].version))
                  /\ mapped_disk' = [mapped_disk EXCEPT ![mapped_writing].size = size]
  BY DEF Mapped!Flush
<1>2. /\ mapped_writing \in FileSymbols
      /\ UNCHANGED <<mapped_versions, mapped_writing, mapped_files, mapped_ranges,
                     mapped_capacity, mapped_used, mapped_answer>>
  BY DEF Mapped!Flush, FilesTypes
<1>3. size \in Nat /\ size >= mapped_disk[mapped_writing].size
  BY <1>1, <1>2 DEF FilesTypes
<1>4. /\ mapped_disk' \in [FileSymbols -> [version : Nat, size : Nat]]
      /\ \A t \in FileSymbols : /\ mapped_disk'[t].version = mapped_disk[t].version
                                /\ mapped_disk'[t].size >= mapped_disk[t].size
  BY <1>1, <1>2, <1>3 DEF FilesTypes
<1>5. FilesTypes'
  BY <1>2, <1>4 DEF FilesTypes
<1>6. DiskIsKnown'
  <2>1. mapped_writing # "none"
    BY DEF Mapped!Flush
  <2>2. \A t \in FileSymbols : mapped_disk[t].version = 0 => t # mapped_writing
    BY <2>1 DEF DiskIsKnown
  <2>3. \A t \in FileSymbols : t # mapped_writing => mapped_disk'[t] = mapped_disk[t]
    BY <1>1 DEF FilesTypes
  <2>. QED  BY <1>2, <1>4, <2>2, <2>3 DEF DiskIsKnown
<1>7. \A t \in FileSymbols, v \in Nat : WholeVersion(t, v) => WholeVersion(t, v)'
  <2>. SUFFICES ASSUME NEW t \in FileSymbols, NEW v \in Nat, WholeVersion(t, v)
                PROVE  WholeVersion(t, v)'
    OBVIOUS
  <2>1. mapped_disk[t].version = v =>
          /\ Mapped!DataEnd(mapped_versions[v].bars) <= mapped_disk[t].size
          /\ Mapped!DataEnd(mapped_versions[v].bars) \in Int
    <3>1. v \in 1 .. Len(mapped_versions)
      BY DEF WholeVersion
    <3>2. mapped_versions[v].bars \in Seq(Int)
      BY <3>1, EntriesHaveTypes
    <3>3. Len(mapped_versions[v].bars) \in Int /\ FileColumns \in Int
      BY <3>2 DEF Mapped!FilesAssumption
    <3>. QED  BY <3>3 DEF WholeVersion, Mapped!DataEnd
  <2>2. mapped_disk[t].size \in Int /\ mapped_disk'[t].size \in Int
    BY <1>4 DEF FilesTypes
  <2>. QED  BY <1>2, <1>4, <2>1, <2>2 DEF WholeVersion, Mapped!DataEnd
<1>8. MappedFilesAreOnDisk'
  <2>1. \A i \in 1 .. Len(mapped_files) :
          mapped_files[i].key \in FileSymbols /\ mapped_files[i].version \in Nat
    BY EntriesHaveTypes
  <2>. QED  BY <1>2, <1>4, <1>7, <2>1 DEF MappedFilesAreOnDisk
<1>9. CachedAnswersAreExact'
  <2>1. \A i \in 1 .. Len(mapped_ranges) :
          mapped_ranges[i].key[1] \in FileSymbols /\ mapped_ranges[i].version \in Nat
    BY EntriesHaveTypes
  <2>. QED  BY <1>2, <1>7, <2>1 DEF CachedAnswersAreExact
<1>10. VersionsInOrder' /\ AnswerIsSound'
  BY <1>2 DEF VersionsInOrder, AnswerIsSound
<1>11. CachesHaveRoom' /\ Mapped!LastUsedStayOpen'
  BY <1>2 DEF CachesHaveRoom, Mapped!LastUsedStayOpen, Mapped!KeysDiffer
<1>. QED  BY <1>5, <1>6, <1>8, <1>9, <1>10, <1>11

\* An answer of a whole version is whole, and without answers that are kept it is
\* that of the file.
LEMMA AnsweredIsSound ==
  ASSUME Mapped!FilesAssumption, MappedInv, NEW s \in FileSymbols, NEW range \in FileRanges,
         NEW v \in Nat, NEW bars, WholeVersion(s, v),
         Mapped!IsRangeOf(bars, mapped_versions[v].bars, range),
         mapped_capacity = 0 => v = mapped_disk[s].version,
         mapped_answer' = Mapped!Answered(s, range, v, bars),
         UNCHANGED <<mapped_versions, mapped_capacity>>
  PROVE  AnswerIsSound'
<1>. DEFINE a == mapped_answer'
<1>1. /\ a.symbol = s /\ a.range = range /\ a.version = v /\ a.bars = bars
      /\ a.latest = mapped_disk[s].version
      /\ a.whole = (\/ Len(bars) = 0 \/ mapped_disk[s].version # v
                    \/ mapped_disk[s].size >= 1 + FileColumns * Len(mapped_versions[v].bars))
  BY DEF Mapped!Answered, Mapped!BarsOf
<1>2. mapped_disk[s].version = v =>
        mapped_disk[s].size >= 1 + FileColumns * Len(mapped_versions[v].bars)
  <2>1. v \in 1 .. Len(mapped_versions)
    BY DEF WholeVersion
  <2>2. mapped_versions[v].bars \in Seq(Int)
    BY <2>1, EntriesHaveTypes DEF MappedInv
  <2>3. Len(mapped_versions[v].bars) \in Int /\ FileColumns \in Int /\ mapped_disk[s].size \in Int
    BY <2>2 DEF Mapped!FilesAssumption, MappedInv, FilesTypes
  <2>. QED  BY <2>3 DEF WholeVersion, Mapped!DataEnd
<1>3. a.whole
  BY <1>1, <1>2
<1>. HIDE DEF a
<1>4. v \in 1 .. Len(mapped_versions) /\ mapped_versions[v].symbol = s
  BY DEF WholeVersion
<1>5. mapped_capacity = 0 => a.version = a.latest
  BY <1>1
<1>. QED  BY <1>1, <1>3, <1>4, <1>5 DEF AnswerIsSound, a

\* get_bars() from the answers: the entry goes to the front.
LEMMA AnswerFromRangesStep ==
  ASSUME Mapped!FilesAssumption, MappedInv, NEW s \in FileSymbols, NEW range \in FileRanges,
         Mapped!AnswerFromRanges(s, range)
  PROVE  MappedInv'
<1>. DEFINE k == Mapped!Key(s, range)
            hit == Mapped!Entry(mapped_ranges, k)
            R == [key : FileSymbols \X FileRanges, version : Nat, bars : Seq(Int)]
<1>. USE DEF MappedInv
<1>1. /\ Mapped!HasEntry(mapped_ranges, k)
      /\ mapped_answer' = Mapped!Answered(s, range, hit.version, hit.bars)
      /\ mapped_ranges' = Mapped!AtFront(mapped_ranges, hit)
      /\ UNCHANGED <<mapped_disk, mapped_versions, mapped_writing, mapped_files,
                     mapped_capacity, mapped_used>>
  BY DEF Mapped!AnswerFromRanges, Mapped!Touched
<1>2. mapped_ranges \in Seq(R)
  BY DEF FilesTypes
<1>. HIDE DEF R
<1>3. PICK i \in 1 .. Len(mapped_ranges) : hit = mapped_ranges[i] /\ hit.key = k /\ hit \in R
  <2>1. /\ Mapped!Place(mapped_ranges, k) \in 1 .. Len(mapped_ranges)
        /\ mapped_ranges[Mapped!Place(mapped_ranges, k)].key = k
    BY <1>1, <1>2, WithoutKey
  <2>2. hit = mapped_ranges[Mapped!Place(mapped_ranges, k)]
    BY DEF Mapped!Entry
  <2>. QED  BY <1>2, <2>1, <2>2
<1>4. k = <<s, range>>
  BY DEF Mapped!Key
<1>. HIDE DEF hit, k
<1>5. /\ WholeVersion(s, hit.version) /\ hit.version \in Nat
      /\ Mapped!IsRangeOf(hit.bars, mapped_versions[hit.version].bars, range)
  BY <1>3, <1>4, EntriesHaveTypes DEF CachedAnswersAreExact
<1>6. mapped_capacity # 0
  BY <1>3 DEF CachesHaveRoom, FilesTypes
<1>7. AnswerIsSound'
  BY <1>1, <1>5, <1>6, AnsweredIsSound
<1>8. /\ mapped_ranges' \in Seq(R) /\ Mapped!KeysDiffer(mapped_ranges')
      /\ Len(mapped_ranges') = Len(mapped_ranges)
      /\ mapped_ranges'[1] = hit
      /\ \A j \in 2 .. Len(mapped_ranges') : \E l \in 1 .. Len(mapped_ranges) :
           mapped_ranges'[j] = mapped_ranges[l]
  <2>1. Mapped!KeysDiffer(mapped_ranges)
    BY DEF CachesHaveRoom
  <2>2. Mapped!HasEntry(mapped_ranges, hit.key) /\ hit \in R
    BY <1>1, <1>3
  <2>. DEFINE f == Mapped!AtFront(mapped_ranges, hit)
  <2>3. /\ f \in Seq(R) /\ f[1] = hit /\ Len(f) = Len(mapped_ranges) /\ Mapped!KeysDiffer(f)
        /\ \A j \in 2 .. Len(f) : \E l \in 1 .. Len(mapped_ranges) : f[j] = mapped_ranges[l]
    BY <1>2, <2>1, <2>2, WithFront
  <2>4. mapped_ranges' = f
    BY <1>1
  <2>. HIDE DEF f
  <2>. QED  BY <2>3, <2>4
<1>9. CachedAnswersAreExact'
  <2>1. \A j \in 1 .. Len(mapped_ranges') : \E l \in 1 .. Len(mapped_ranges) :
          mapped_ranges'[j] = mapped_ranges[l]
    <3>1. \A j \in 1 .. Len(mapped_ranges') : j = 1 \/ j \in 2 .. Len(mapped_ranges')
      BY <1>8
    <3>. QED  BY <1>3, <1>8, <3>1
  <2>. SUFFICES ASSUME NEW j \in 1 .. Len(mapped_ranges')
                PROVE  LET e == mapped_ranges'[j] IN
                         /\ WholeVersion(e.key[1], e.version)
                         /\ Mapped!IsRangeOf(e.bars, mapped_versions[e.version].bars, e.key[2])
    BY <1>1 DEF CachedAnswersAreExact, WholeVersion
  <2>2. PICK l \in 1 .. Len(mapped_ranges) : mapped_ranges'[j] = mapped_ranges[l]
    BY <2>1
  <2>. QED  BY <2>2 DEF CachedAnswersAreExact
<1>10. FilesTypes'
  BY <1>1, <1>8 DEF FilesTypes, R
<1>11. CachesHaveRoom'
  BY <1>1, <1>8 DEF CachesHaveRoom
<1>12. VersionsInOrder' /\ DiskIsKnown' /\ MappedFilesAreOnDisk' /\ Mapped!LastUsedStayOpen'
  BY <1>1 DEF VersionsInOrder, DiskIsKnown, MappedFilesAreOnDisk, WholeVersion, Mapped!LastUsedStayOpen
<1>. QED  BY <1>7, <1>9, <1>10, <1>11, <1>12

\* get_bars() from a file: it goes to the front, or is mapped, and its bars are kept.
LEMMA AnswerFromFileStep ==
  ASSUME Mapped!FilesAssumption, MappedInv, NEW s \in FileSymbols, NEW range \in FileRanges,
         Mapped!AnswerFromFile(s, range)
  PROVE  MappedInv'
<1>. DEFINE mapped == Mapped!HasEntry(mapped_files, s)
            v == IF mapped THEN Mapped!Entry(mapped_files, s).version ELSE mapped_disk[s].version
            bars == Mapped!FindRange(Mapped!BarsOf(v), range)
            file == [key |-> s, version |-> v]
            kept == [key |-> Mapped!Key(s, range), version |-> v, bars |-> bars]
            F == [key : FileSymbols, version : Nat]
            R == [key : FileSymbols \X FileRanges, version : Nat, bars : Seq(Int)]
            U == [key : FileSymbols]
<1>. USE DEF MappedInv
<1>1. /\ mapped \/ Mapped!CanMap(s)
      /\ mapped_files' = IF mapped THEN Mapped!Touched(mapped_files, s)
                         ELSE Mapped!PutIn(mapped_files, file, FilesOpen)
      /\ mapped_used' = Mapped!AtFront(mapped_used, [key |-> s])
      /\ mapped_answer' = Mapped!Answered(s, range, v, bars)
      /\ mapped_ranges' = Mapped!PutIn(mapped_ranges, kept, mapped_capacity)
      /\ UNCHANGED <<mapped_disk, mapped_versions, mapped_writing, mapped_capacity>>
  BY DEF Mapped!AnswerFromFile
<1>2. /\ mapped_files \in Seq(F) /\ mapped_ranges \in Seq(R) /\ mapped_used \in Seq(U)
      /\ mapped_capacity \in Nat /\ FilesOpen \in Nat \ {0}
  BY DEF FilesTypes, Mapped!FilesAssumption
<1>. HIDE DEF F, R, U
<1>3. /\ Mapped!KeysDiffer(mapped_files) /\ Mapped!KeysDiffer(mapped_ranges)
      /\ Mapped!KeysDiffer(mapped_used)
      /\ Len(mapped_files) <= FilesOpen /\ Len(mapped_ranges) <= mapped_capacity
  BY DEF CachesHaveRoom
<1>4. v \in Nat /\ v = mapped_disk[s].version /\ WholeVersion(s, v)
      /\ mapped_files' = Mapped!PutIn(mapped_files, file, FilesOpen)
  <2>1. CASE mapped
    <3>. DEFINE p == Mapped!Place(mapped_files, s)
    <3>1. p \in 1 .. Len(mapped_files) /\ mapped_files[p].key = s
      BY <1>2, <2>1, WithoutKey
    <3>2. Mapped!Entry(mapped_files, s) = mapped_files[p] /\ mapped_files[p] \in F
      BY <1>2, <3>1 DEF Mapped!Entry
    <3>. HIDE DEF p
    <3>3. mapped_files[p] = file /\ v = mapped_files[p].version /\ v \in Nat
      BY <2>1, <3>1, <3>2 DEF F
    <3>4. v = mapped_disk[s].version /\ WholeVersion(s, v)
      BY <3>1, <3>3 DEF MappedFilesAreOnDisk
    <3>5. mapped_files' = Mapped!AtFront(mapped_files, file)
      BY <1>1, <2>1, <3>2, <3>3, Zenon DEF Mapped!Touched
    <3>6. Len(Mapped!AtFront(mapped_files, file)) = Len(mapped_files)
      <4>1. file \in F /\ file.key = s
        BY <3>2, <3>3
      <4>. QED  BY <1>2, <1>3, <2>1, <4>1, FrontIsOnce
    <3>7. Mapped!PutIn(mapped_files, file, FilesOpen) = Mapped!AtFront(mapped_files, file)
      BY <1>2, <1>3, <3>6 DEF Mapped!PutIn
    <3>. QED  BY <3>3, <3>4, <3>5, <3>7
  <2>2. CASE ~ mapped
    <3>1. v = mapped_disk[s].version /\ Mapped!CanMap(s)
      BY <1>1, <2>2
    <3>2. v \in Nat /\ mapped_disk[s].size > 1 /\ Mapped!DataEnd(mapped_versions[v].bars) <= mapped_disk[s].size
      BY <3>1 DEF Mapped!CanMap, Mapped!BarsOf, FilesTypes
    <3>3. v # 0
      BY <3>1, <3>2 DEF DiskIsKnown
    <3>4. v \in 1 .. Len(mapped_versions) /\ mapped_versions[v].symbol = s
      BY <3>1, <3>3 DEF DiskIsKnown
    <3>. QED  BY <1>1, <2>2, <3>1, <3>2, <3>4 DEF WholeVersion
  <2>. QED  BY <2>1, <2>2
<1>5. bars \in Seq(Int) /\ Mapped!IsRangeOf(bars, mapped_versions[v].bars, range)
  <2>1. v \in 1 .. Len(mapped_versions)
    BY <1>4 DEF WholeVersion
  <2>2. mapped_versions[v].bars \in Seq(Int) /\ Mapped!InOrder(mapped_versions[v].bars)
    BY <2>1, EntriesHaveTypes DEF VersionsInOrder
  <2>3. range \in Nat \X Nat
    BY DEF Mapped!FilesAssumption
  <2>. QED  BY <2>2, <2>3, RangeIsFound DEF Mapped!BarsOf
<1>6. kept \in R /\ file \in F /\ [key |-> s] \in U
  BY <1>4, <1>5 DEF Mapped!Key, F, R, U
<1>7. kept.key[1] = s /\ kept.key[2] = range /\ kept.version = v /\ kept.bars = bars
      /\ file.key = s /\ file.version = v /\ [key |-> s].key = file.key
  BY DEF Mapped!Key
<1>. HIDE DEF kept, file, bars, v
<1>8. AnswerIsSound'
  BY <1>1, <1>4, <1>5, AnsweredIsSound
<1>9. /\ mapped_files' \in Seq(F) /\ Len(mapped_files') <= FilesOpen /\ Mapped!KeysDiffer(mapped_files')
      /\ \A j \in DOMAIN mapped_files' : mapped_files'[j] = file
           \/ \E l \in 1 .. Len(mapped_files) : mapped_files'[j] = mapped_files[l]
  BY <1>2, <1>3, <1>4, <1>6, PutKeeps
<1>10. /\ mapped_ranges' \in Seq(R) /\ Len(mapped_ranges') <= mapped_capacity
       /\ Mapped!KeysDiffer(mapped_ranges')
       /\ \A j \in DOMAIN mapped_ranges' : mapped_ranges'[j] = kept
            \/ \E l \in 1 .. Len(mapped_ranges) : mapped_ranges'[j] = mapped_ranges[l]
  BY <1>1, <1>2, <1>3, <1>6, PutKeeps
<1>11. mapped_used' \in Seq(U) /\ Mapped!KeysDiffer(mapped_used')
  BY <1>1, <1>2, <1>3, <1>6, WithFront
<1>12. FilesTypes'
  BY <1>1, <1>9, <1>10, <1>11 DEF FilesTypes, F, R, U
<1>13. CachesHaveRoom'
  BY <1>1, <1>9, <1>10, <1>11 DEF CachesHaveRoom
<1>14. MappedFilesAreOnDisk'
  <2>1. \A j \in 1 .. Len(mapped_files') : mapped_files'[j] = file
          \/ \E l \in 1 .. Len(mapped_files) : mapped_files'[j] = mapped_files[l]
    BY <1>9
  <2>. QED  BY <1>1, <1>4, <1>7, <2>1 DEF MappedFilesAreOnDisk, WholeVersion
<1>15. CachedAnswersAreExact'
  <2>1. \A j \in 1 .. Len(mapped_ranges') : mapped_ranges'[j] = kept
          \/ \E l \in 1 .. Len(mapped_ranges) : mapped_ranges'[j] = mapped_ranges[l]
    BY <1>10
  <2>. SUFFICES ASSUME NEW j \in 1 .. Len(mapped_ranges')
                PROVE  LET e == mapped_ranges'[j] IN
                         /\ WholeVersion(e.key[1], e.version)
                         /\ Mapped!IsRangeOf(e.bars, mapped_versions[e.version].bars, e.key[2])
    BY <1>1 DEF CachedAnswersAreExact, WholeVersion
  <2>2. CASE mapped_ranges'[j] = kept
    BY <1>4, <1>5, <1>7, <2>2
  <2>3. ASSUME NEW l \in 1 .. Len(mapped_ranges), mapped_ranges'[j] = mapped_ranges[l]
        PROVE  LET e == mapped_ranges'[j] IN
                 /\ WholeVersion(e.key[1], e.version)
                 /\ Mapped!IsRangeOf(e.bars, mapped_versions[e.version].bars, e.key[2])
    BY <2>3 DEF CachedAnswersAreExact
  <2>. QED  BY <2>1, <2>2, <2>3
<1>16. Mapped!LastUsedStayOpen'
  <2>1. InFrontOf(mapped_files, mapped_used, FilesOpen)
    BY DEF Mapped!LastUsedStayOpen, InFrontOf
  <2>2. InFrontOf(mapped_files', mapped_used', FilesOpen)
    BY <1>1, <1>2, <1>3, <1>4, <1>6, <1>7, <2>1, LastUsedInFront
  <2>. QED  BY <2>2 DEF Mapped!LastUsedStayOpen, InFrontOf
<1>17. VersionsInOrder' /\ DiskIsKnown'
  BY <1>1 DEF VersionsInOrder, DiskIsKnown
<1>. QED  BY <1>8, <1>12, <1>13, <1>14, <1>15, <1>16, <1>17

LEMMA MappedIsKept == Mapped!FilesAssumption => (Mapped!Spec => []MappedInv)
<1>. SUFFICES ASSUME Mapped!FilesAssumption PROVE Mapped!Spec => []MappedInv
  OBVIOUS
<1>1. Mapped!Init => MappedInv
  BY InitMapped
<1>2. MappedInv /\ [Mapped!Next]_(Mapped!vars) => MappedInv'
  <2>. SUFFICES ASSUME MappedInv, [Mapped!Next]_(Mapped!vars) PROVE MappedInv'
    OBVIOUS
  <2>1. ASSUME NEW s \in FileSymbols, NEW bars \in FileInputs, Mapped!BeginWrite(s, bars)
        PROVE  MappedInv'
    BY <2>1, BeginWriteStep
  <2>2. CASE Mapped!Flush
    BY <2>2, FlushStep
  <2>3. ASSUME UNCHANGED <<mapped_disk, mapped_versions, mapped_files, mapped_ranges,
                           mapped_capacity, mapped_used, mapped_answer>>,
               mapped_writing' \in {mapped_writing, "none"}
        PROVE  MappedInv'
    <3>. USE <2>3 DEF MappedInv
    <3>1. FilesTypes'
      BY DEF FilesTypes
    <3>2. DiskIsKnown' /\ VersionsInOrder' /\ AnswerIsSound' /\ CachesHaveRoom' /\ Mapped!LastUsedStayOpen'
      BY DEF DiskIsKnown, VersionsInOrder, AnswerIsSound, CachesHaveRoom, Mapped!LastUsedStayOpen,
             Mapped!KeysDiffer
    <3>3. MappedFilesAreOnDisk' /\ CachedAnswersAreExact'
      BY DEF MappedFilesAreOnDisk, CachedAnswersAreExact, WholeVersion
    <3>. QED  BY <3>1, <3>2, <3>3
  <2>4. ASSUME NEW s \in FileSymbols, NEW r \in FileRanges, Mapped!AnswerFromRanges(s, r)
        PROVE  MappedInv'
    BY <2>4, AnswerFromRangesStep
  <2>5. ASSUME NEW s \in FileSymbols, NEW r \in FileRanges, Mapped!AnswerFromFile(s, r)
        PROVE  MappedInv'
    BY <2>5, AnswerFromFileStep
  <2>6. CASE Mapped!EndWrite
    BY <2>3, <2>6 DEF Mapped!EndWrite
  <2>7. CASE UNCHANGED Mapped!vars
    BY <2>3, <2>7 DEF Mapped!vars
  <2>. QED  BY <2>1, <2>2, <2>4, <2>5, <2>6, <2>7 DEF Mapped!Next
<1>. QED  BY <1>1, <1>2, PTL DEF Mapped!Spec

LEMMA MappedAnswersAreSound ==
  MappedInv => /\ Mapped!AnswersAreWhole /\ Mapped!AnswersAreExact
               /\ Mapped!UncachedAnswersAreCurrent /\ Mapped!LastUsedStayOpen
BY DEF MappedInv, AnswerIsSound, Mapped!AnswersAreWhole, Mapped!AnswersAreExact,
       Mapped!UncachedAnswersAreCurrent, Mapped!BarsOf

LEMMA MappedHasItsTypes == MappedInv => Mapped!TypeOK
BY EntriesHaveTypes DEF MappedInv, FilesTypes, DiskIsKnown, CachesHaveRoom, Mapped!TypeOK
-----------------------------------------------------------------------------
(* Rows of a file: what is accepted, and what is filled in.                *)

OutBar == [time : Nat, price : Nat \ {0}]

LEMMA WholeIntervals ==
  ASSUME NEW d \in Nat \ {0}, NEW t \in Nat \ {0}
  PROVE  LET q == (d - 1) \div t IN q \in Nat /\ q * t < d /\ d - q * t <= t
<1>. DEFINE q == (d - 1) \div t
<1>1. q \in Nat
  OBVIOUS
<1>2. q * t <= d - 1 /\ d - 1 < q * t + t
  OBVIOUS
<1>3. q * t \in Int
  BY <1>1
<1>. HIDE DEF q
<1>4. q * t < d /\ d - q * t <= t
  BY <1>2, <1>3
<1>. QED  BY <1>1, <1>4 DEF q

LEMMA OneMoreTime ==
  ASSUME NEW j \in Nat, NEW t \in Nat
  PROVE  j * t \in Nat /\ (j + 1) * t = j * t + t
OBVIOUS

\* The bars made between two: one at each interval, before the second one, which
\* follows the last of them within an interval.
LEMMA BarsBetween ==
  ASSUME Rows!ValidationAssumption, NEW b \in OutBar, NEW c \in OutBar, b.time <= c.time
  PROVE  LET m == Rows!Between(b, c) IN
           /\ m \in Seq(OutBar)
           /\ \A j \in 1 .. Len(m) :
                /\ m[j].time = b.time + j * RowInterval /\ m[j].price = b.price
                /\ b.time + j * RowInterval < c.time
           /\ b.time + Len(m) * RowInterval <= c.time
           /\ c.time - (b.time + Len(m) * RowInterval) <= RowInterval
<1>. DEFINE count == IF c.time > b.time THEN (c.time - b.time - 1) \div RowInterval ELSE 0
            m == Rows!Between(b, c)
<1>1. RowInterval \in Nat /\ RowInterval > 0 /\ b.time \in Nat /\ c.time \in Nat
      /\ b.price \in Nat \ {0}
  BY DEF Rows!ValidationAssumption, OutBar
<1>2. count \in Nat /\ b.time + count * RowInterval <= c.time
      /\ (count > 0 => b.time + count * RowInterval < c.time)
      /\ c.time - (b.time + count * RowInterval) <= RowInterval
  <2>1. CASE c.time > b.time
    <3>. DEFINE d == c.time - b.time
                q == (d - 1) \div RowInterval
    <3>1. d \in Nat \ {0}
      BY <1>1, <2>1
    <3>. HIDE DEF d
    <3>2. q \in Nat /\ q * RowInterval < d /\ d - q * RowInterval <= RowInterval
      BY <1>1, <3>1, WholeIntervals
    <3>3. count = q
      BY <2>1 DEF d
    <3>. HIDE DEF q, count
    <3>4. q * RowInterval \in Int
      BY <1>1, <3>2
    <3>. QED  BY <1>1, <3>1, <3>2, <3>3, <3>4 DEF d
  <2>2. CASE ~ c.time > b.time
    <3>1. c.time = b.time /\ count = 0
      BY <1>1, <2>2
    <3>2. 0 * RowInterval = 0
      BY <1>1
    <3>. HIDE DEF count
    <3>. QED  BY <1>1, <3>1, <3>2
  <2>. QED  BY <2>1, <2>2
<1>3. m = [i \in 1 .. count |-> [time |-> b.time + i * RowInterval, price |-> b.price]]
  BY DEF Rows!Between, Rows!Missing
<1>. HIDE DEF m, count
<1>4. \A j \in 1 .. count : j * RowInterval \in Nat /\ j * RowInterval <= count * RowInterval
  <2>. SUFFICES ASSUME NEW j \in 1 .. count
                PROVE  j * RowInterval \in Nat /\ j * RowInterval <= count * RowInterval
    OBVIOUS
  <2>1. j \in Nat /\ count - j \in Nat
    BY <1>2
  <2>2. (count - j) * RowInterval >= 0 /\ (count - j) * RowInterval = count * RowInterval - j * RowInterval
    BY <1>1, <1>2, <2>1
  <2>3. j * RowInterval \in Nat /\ count * RowInterval \in Int
    BY <1>1, <1>2, <2>1
  <2>. QED  BY <2>2, <2>3
<1>5. \A j \in 1 .. count : [time |-> b.time + j * RowInterval, price |-> b.price] \in OutBar
  BY <1>1, <1>4 DEF OutBar
<1>6. m \in Seq(OutBar) /\ Len(m) = count
  BY <1>2, <1>3, <1>5
<1>7. \A j \in 1 .. count : m[j].time = b.time + j * RowInterval /\ m[j].price = b.price
  BY <1>3
<1>8. \A j \in 1 .. count : b.time + j * RowInterval < c.time
  <2>. SUFFICES ASSUME NEW j \in 1 .. count
                PROVE  b.time + j * RowInterval < c.time
    OBVIOUS
  <2>1. j * RowInterval \in Int /\ count * RowInterval \in Int /\ j * RowInterval <= count * RowInterval
    BY <1>1, <1>2, <1>4
  <2>2. count > 0
    BY <1>2
  <2>. QED  BY <1>1, <1>2, <2>1, <2>2
<1>. QED  BY <1>2, <1>6, <1>7, <1>8 DEF m

\* A bar of a filled file is one that was there, or one made after the bar before it.
WasThere(bar, bars) == \E k \in 1 .. Len(bars) : bar = bars[k]

IsMade(u, i) ==
  /\ i > 1 /\ u[i].price = u[i - 1].price /\ u[i].time = u[i - 1].time + RowInterval
  /\ i < Len(u) /\ u[i].time < u[i + 1].time

\* What has been filled up to the n-th bar.
FilledTo(u, bars, n) ==
  /\ u \in Seq(OutBar) /\ Len(u) >= 1 /\ u[Len(u)] = bars[n]
  /\ \A i \in 1 .. Len(u) - 1 :
       u[i].time <= u[i + 1].time /\ u[i + 1].time - u[i].time <= RowInterval
  /\ \A i \in 1 .. Len(u) : WasThere(u[i], bars) \/ IsMade(u, i)

LEMMA FillOne ==
  ASSUME Rows!ValidationAssumption, NEW bars \in Seq(OutBar),
         \A i \in 1 .. Len(bars) - 1 : bars[i].time <= bars[i + 1].time,
         NEW n \in 1 .. Len(bars) - 1, NEW u, FilledTo(u, bars, n)
  PROVE  FilledTo(u \o Rows!Between(bars[n], bars[n + 1]) \o <<bars[n + 1]>>, bars, n + 1)
<1>. DEFINE b == bars[n]
            c == bars[n + 1]
            m == Rows!Between(b, c)
            w == u \o m \o <<c>>
            l == Len(u)
            q == Len(m)
<1>1. n \in 1 .. Len(bars) /\ n + 1 \in 1 .. Len(bars) /\ b \in OutBar /\ c \in OutBar /\ b.time <= c.time
  OBVIOUS
<1>2. /\ m \in Seq(OutBar)
      /\ \A j \in 1 .. q :
           /\ m[j].time = b.time + j * RowInterval /\ m[j].price = b.price
           /\ b.time + j * RowInterval < c.time
      /\ b.time + q * RowInterval <= c.time
      /\ c.time - (b.time + q * RowInterval) <= RowInterval
  <2>. HIDE DEF b, c
  <2>. QED  BY <1>1, BarsBetween
<1>3. u \in Seq(OutBar) /\ l \in Nat /\ l >= 1 /\ u[l] = b /\ q \in Nat
  BY <1>2 DEF FilledTo
<1>4. RowInterval \in Nat /\ RowInterval > 0
  BY DEF Rows!ValidationAssumption
<1>. HIDE DEF m, b, c
<1>5. /\ w \in Seq(OutBar) /\ Len(w) = l + q + 1 /\ w[l + q + 1] = c
      /\ \A i \in 1 .. l : w[i] = u[i]
      /\ \A j \in 1 .. q : w[l + j] = m[j]
  BY <1>1, <1>2, <1>3
<1>. HIDE DEF w, l, q
<1>5a. l \in Nat /\ l >= 1 /\ q \in Nat /\ Len(w) = l + q + 1
  BY <1>3, <1>5
<1>6. \A j \in 0 .. q : w[l + j].time = b.time + j * RowInterval /\ w[l + j].price = b.price
  <2>. SUFFICES ASSUME NEW j \in 0 .. q
                PROVE  w[l + j].time = b.time + j * RowInterval /\ w[l + j].price = b.price
    OBVIOUS
  <2>1. CASE j = 0
    <3>1. l + j = l /\ l \in 1 .. l /\ 0 * RowInterval = 0 /\ b.time \in Nat
      BY <1>1, <1>4, <1>5a, <2>1 DEF OutBar
    <3>2. w[l + j] = b
      BY <1>3, <1>5, <3>1
    <3>. QED  BY <2>1, <3>1, <3>2
  <2>2. CASE j # 0
    <3>1. j \in 1 .. q
      BY <1>5a, <2>2
    <3>. QED  BY <1>2, <1>5, <3>1
  <2>. QED  BY <2>1, <2>2
<1>7. b.time \in Nat /\ c.time \in Nat
      /\ \A j \in Nat : j * RowInterval \in Nat /\ (j + 1) * RowInterval = j * RowInterval + RowInterval
  <2>1. b.time \in Nat /\ c.time \in Nat
    BY <1>1 DEF OutBar
  <2>2. \A j \in Nat : j * RowInterval \in Nat /\ (j + 1) * RowInterval = j * RowInterval + RowInterval
    BY <1>4, OneMoreTime
  <2>. QED  BY <2>1, <2>2
<1>8. ASSUME NEW i \in 1 .. Len(w) - 1
      PROVE  w[i].time <= w[i + 1].time /\ w[i + 1].time - w[i].time <= RowInterval
  <2>1. CASE i < l
    <3>1. w[i] = u[i] /\ w[i + 1] = u[i + 1] /\ i \in 1 .. l - 1
      BY <1>3, <1>5, <2>1
    <3>. QED  BY <3>1 DEF FilledTo, l
  <2>2. CASE i >= l /\ i < l + q
    <3>. DEFINE j == i - l
    <3>1. j \in 0 .. q /\ j + 1 \in 0 .. q /\ i = l + j /\ i + 1 = l + (j + 1) /\ j \in Nat
      BY <1>3, <2>2
    <3>. HIDE DEF j
    <3>2. w[i].time = b.time + j * RowInterval /\ w[i + 1].time = b.time + (j + 1) * RowInterval
      BY <1>6, <3>1
    <3>3. j * RowInterval \in Nat /\ (j + 1) * RowInterval = j * RowInterval + RowInterval
      BY <1>7, <3>1
    <3>. QED  BY <1>4, <1>7, <3>2, <3>3
  <2>3. CASE i = l + q
    <3>1. w[i].time = b.time + q * RowInterval /\ w[i + 1] = c /\ q * RowInterval \in Nat
      <4>1. q \in 0 .. q /\ i + 1 = l + q + 1
        BY <1>5a, <2>3
      <4>. QED  BY <1>5, <1>6, <1>7, <1>5a, <2>3, <4>1
    <3>. QED  BY <1>2, <1>4, <1>7, <3>1
  <2>. QED  BY <1>5a, <2>1, <2>2, <2>3
<1>9. ASSUME NEW i \in 1 .. Len(w)
      PROVE  WasThere(w[i], bars) \/ IsMade(w, i)
  <2>1. CASE i <= l
    <3>1. i \in 1 .. l /\ w[i] = u[i]
      BY <1>3, <1>5, <2>1
    <3>2. CASE WasThere(u[i], bars)
      BY <3>1, <3>2
    <3>3. CASE IsMade(u, i)
      <4>1. i - 1 \in 1 .. l /\ i + 1 \in 1 .. l /\ i < Len(w)
        BY <1>3, <1>5, <3>1, <3>3 DEF IsMade, l
      <4>2. w[i - 1] = u[i - 1] /\ w[i + 1] = u[i + 1]
        BY <1>5, <4>1
      <4>. QED  BY <3>1, <3>3, <4>1, <4>2 DEF IsMade, l
    <3>. QED  BY <3>1, <3>2, <3>3 DEF FilledTo, l
  <2>2. CASE i > l /\ i <= l + q
    <3>. DEFINE j == i - l
    <3>1. j \in 1 .. q /\ j \in 0 .. q /\ j - 1 \in 0 .. q /\ i = l + j /\ i - 1 = l + (j - 1)
          /\ j - 1 \in Nat /\ (j - 1) + 1 = j /\ i > 1 /\ i < Len(w) /\ i \in 1 .. Len(w) - 1
      BY <1>5a, <2>2
    <3>. HIDE DEF j
    <3>2. /\ w[i].time = b.time + j * RowInterval /\ w[i].price = b.price
          /\ w[i - 1].time = b.time + (j - 1) * RowInterval /\ w[i - 1].price = b.price
      BY <1>6, <3>1
    <3>3. (j - 1) * RowInterval \in Nat /\ j * RowInterval = (j - 1) * RowInterval + RowInterval
      BY <1>7, <3>1
    <3>4. w[i].time = w[i - 1].time + RowInterval
      BY <1>4, <1>7, <3>2, <3>3
    <3>5. w[i].time < w[i + 1].time
      <4>1. CASE j < q
        <5>1. j + 1 \in 0 .. q /\ i + 1 = l + (j + 1) /\ j \in Nat
          BY <1>5a, <3>1, <4>1
        <5>2. w[i + 1].time = b.time + (j + 1) * RowInterval
          BY <1>6, <5>1
        <5>3. j * RowInterval \in Nat /\ (j + 1) * RowInterval = j * RowInterval + RowInterval
          BY <1>7, <5>1
        <5>. QED  BY <1>4, <1>7, <3>2, <5>2, <5>3
      <4>2. CASE j = q
        <5>1. w[i + 1] = c
          BY <1>3, <1>5, <3>1, <4>2
        <5>. QED  BY <1>2, <3>1, <3>2, <5>1
      <4>. QED  BY <1>5a, <3>1, <4>1, <4>2
    <3>. QED  BY <3>1, <3>2, <3>4, <3>5 DEF IsMade
  <2>3. CASE i = l + q + 1
    <3>1. w[i] = bars[n + 1] /\ n + 1 \in 1 .. Len(bars)
      BY <1>1, <1>5, <2>3 DEF c
    <3>. QED  BY <3>1, Zenon DEF WasThere
  <2>. QED  BY <1>5a, <2>1, <2>2, <2>3
<1>10. w[Len(w)] = bars[n + 1] /\ Len(w) >= 1
  BY <1>3, <1>5 DEF c
<1>11. FilledTo(w, bars, n + 1)
  BY <1>5, <1>8, <1>9, <1>10 DEF FilledTo
<1>. QED  BY <1>11 DEF w, m, b, c

\* A whole file, filled bar by bar.
LEMMA FilledFile ==
  ASSUME Rows!ValidationAssumption, NEW bars \in Seq(OutBar),
         \A i \in 1 .. Len(bars) - 1 : bars[i].time <= bars[i + 1].time
  PROVE  IF bars = <<>> THEN Rows!Filled(bars) = <<>>
         ELSE FilledTo(Rows!Filled(bars), bars, Len(bars))
<1>. DEFINE S == Seq(OutBar)
            N == Len(bars)
            After(n, done) ==
              IF n = 1 THEN <<bars[1]>>
              ELSE done \o Rows!Between(bars[n - 1], bars[n]) \o <<bars[n]>>
            step == [x \in (1 .. N) \X S |-> After(x[1], x[2])]
            Def(f) == f = [n \in 0 .. N |->
                            IF n = 0 THEN <<>>
                            ELSE IF n = 1 THEN <<bars[1]>>
                            ELSE f[n - 1] \o Rows!Between(bars[n - 1], bars[n]) \o <<bars[n]>>]
            f == CHOOSE g : Def(g)
<1>1. N \in Nat /\ (\A i \in 1 .. N : bars[i] \in OutBar) /\ (N = 0 <=> bars = <<>>)
  OBVIOUS
<1>2. ASSUME NEW n \in 1 .. N, NEW done \in S
      PROVE  After(n, done) \in S
  <2>1. CASE n = 1
    <3>1. <<bars[1]>> \in S
      BY <1>1, <2>1
    <3>. QED  BY <2>1, <3>1
  <2>2. CASE n # 1
    <3>1. n - 1 \in 1 .. N - 1 /\ n - 1 \in 1 .. N /\ (n - 1) + 1 = n
      BY <1>1, <2>2
    <3>2. bars[n - 1] \in OutBar /\ bars[n] \in OutBar /\ bars[n - 1].time <= bars[n].time
      BY <1>1, <3>1
    <3>3. Rows!Between(bars[n - 1], bars[n]) \in S
      BY <3>2, BarsBetween
    <3>4. <<bars[n]>> \in S
      BY <3>2
    <3>5. \A x, y, z \in S : x \o y \o z \in S
      OBVIOUS
    <3>. HIDE DEF S
    <3>. QED  BY <2>2, <3>3, <3>4, <3>5
  <2>. QED  BY <2>1, <2>2
<1>3. step \in [(1 .. N) \X S -> S]
  <2>. HIDE DEF After, S
  <2>. QED  BY <1>2
<1>4. PICK g \in [0 .. N -> S] : g[0] = <<>> /\ \A i \in 1 .. N : g[i] = step[<<i, g[i - 1]>>]
  <2>. DEFINE none == <<>>
  <2>1. none \in S
    OBVIOUS
  <2>2. none = <<>>
    OBVIOUS
  <2>3. N \in Nat
    BY <1>1
  <2>. HIDE DEF step, S, N, none
  <2>4. \E h \in [0 .. N -> S] : Follows(h, N, none, step)
    BY <1>3, <2>1, <2>3, Recursion
  <2>. QED  BY <2>2, <2>4 DEF Follows
<1>5. \A i \in 1 .. N : i - 1 \in 0 .. N /\ g[i] = After(i, g[i - 1])
  <2>. HIDE DEF After, S, N
  <2>. SUFFICES ASSUME NEW i \in 1 .. N PROVE i - 1 \in 0 .. N /\ g[i] = After(i, g[i - 1])
    OBVIOUS
  <2>1. i - 1 \in 0 .. N
    BY <1>1
  <2>2. g[i - 1] \in S
    BY <1>4, <2>1
  <2>3. g[i] = step[<<i, g[i - 1]>>]
    BY <1>4
  <2>. HIDE DEF step
  <2>4. <<i, g[i - 1]>> \in (1 .. N) \X S
    BY <2>2
  <2>5. step[<<i, g[i - 1]>>] = After(i, g[i - 1])
    BY <2>4 DEF step
  <2>. QED  BY <2>1, <2>3, <2>5
<1>6. Def(g)
  <2>. DEFINE h == [n \in 0 .. N |->
                     IF n = 0 THEN <<>>
                     ELSE IF n = 1 THEN <<bars[1]>>
                     ELSE g[n - 1] \o Rows!Between(bars[n - 1], bars[n]) \o <<bars[n]>>]
  <2>1. \A n \in 0 .. N : n = 0 \/ n \in 1 .. N
    BY <1>1
  <2>2. \A n \in 0 .. N : g[n] = h[n]
    BY <1>4, <1>5, <2>1
  <2>3. DOMAIN h = 0 .. N /\ h = [n \in 0 .. N |-> h[n]]
    OBVIOUS
  <2>4. g = [n \in 0 .. N |-> g[n]]
    BY <1>4
  <2>5. g = h
    <3>. HIDE DEF h, N
    <3>. QED  BY <2>2, <2>3, <2>4, Zenon
  <2>. QED  BY <2>5, Zenon
<1>7. Def(f)
  <2>. HIDE DEF Def
  <2>. QED  BY <1>6, Zenon DEF f
<1>8. Rows!Filled(bars) = f[N]
  BY Zenon DEF Rows!Filled
<1>9. /\ f[0] = <<>>
      /\ \A n \in 1 .. N : f[n] = IF n = 1 THEN <<bars[1]>>
           ELSE f[n - 1] \o Rows!Between(bars[n - 1], bars[n]) \o <<bars[n]>>
  <2>1. 0 \in 0 .. N /\ \A n \in 1 .. N : n \in 0 .. N /\ n # 0
    BY <1>1
  <2>. HIDE DEF f, N
  <2>. QED  BY <1>7, <2>1
<1>. HIDE DEF f, Def, After, step
<1>10. CASE N = 0
  BY <1>1, <1>8, <1>9, <1>10
<1>11. CASE N # 0
  <2>. DEFINE T == {n \in 0 .. N - 1 : FilledTo(f[n + 1], bars, n + 1)}
  <2>1. 0 \in T
    <3>1. f[1] = <<bars[1]>> /\ 1 \in 1 .. N
      BY <1>1, <1>9, <1>11
    <3>. DEFINE u == <<bars[1]>>
    <3>2. u \in Seq(OutBar) /\ Len(u) = 1 /\ u[1] = bars[1]
      BY <1>1, <3>1
    <3>3. WasThere(bars[1], bars)
      BY <3>1 DEF WasThere
    <3>4. \A i \in 1 .. Len(u) : i = 1
      BY <3>2
    <3>. HIDE DEF u
    <3>5. FilledTo(u, bars, 1)
      BY <3>2, <3>3, <3>4 DEF FilledTo
    <3>6. FilledTo(f[0 + 1], bars, 0 + 1)
      <4>1. 0 + 1 = 1 /\ f[1] = u
        BY <3>1 DEF u
      <4>. QED  BY <3>5, <4>1, Zenon
    <3>7. 0 \in 0 .. N - 1
      BY <1>1, <1>11
    <3>. HIDE DEF N
    <3>. QED  BY <3>6, <3>7
  <2>2. ASSUME NEW n \in 0 .. (N - 1) - 1, n \in T
        PROVE  n + 1 \in T
    <3>. DEFINE m == n + 1
    <3>1. m \in 1 .. N - 1 /\ m + 1 \in 1 .. N /\ m + 1 # 1 /\ (m + 1) - 1 = m /\ n + 1 \in 0 .. N - 1
      BY <1>1, <2>2
    <3>2. FilledTo(f[m], bars, m)
      BY <2>2
    <3>. HIDE DEF m
    <3>3. FilledTo(f[m] \o Rows!Between(bars[m], bars[m + 1]) \o <<bars[m + 1]>>, bars, m + 1)
      BY <3>1, <3>2, FillOne
    <3>4. f[m + 1] = f[m] \o Rows!Between(bars[m], bars[m + 1]) \o <<bars[m + 1]>>
      BY <1>9, <3>1
    <3>5. FilledTo(f[m + 1], bars, m + 1)
      BY <3>3, <3>4
    <3>. QED  BY <3>1, <3>5 DEF m
  <2>3. N - 1 \in Nat /\ (N - 1) + 1 = N
    BY <1>1, <1>11
  <2>4. 0 .. N - 1 \subseteq T
    <3>. HIDE DEF T, N
    <3>. QED  BY <2>1, <2>2, <2>3, SetInduction
  <2>5. FilledTo(f[N], bars, N)
    <3>. DEFINE k == N - 1
    <3>1. k \in 0 .. N - 1 /\ k + 1 = N
      BY <2>3
    <3>. HIDE DEF k, N
    <3>2. FilledTo(f[k + 1], bars, k + 1)
      BY <2>4, <3>1
    <3>. QED  BY <3>1, <3>2
  <2>. QED  BY <1>1, <1>8, <1>11, <2>5
<1>. QED  BY <1>10, <1>11

RowsTypes ==
  /\ rows_config \in Rows!Configs
  /\ rows_rows \in Seq(Rows!Row) /\ Len(rows_rows) <= RowsRead
  /\ rows_out \in Seq(OutBar)
  /\ rows_fill_on_gap \in BOOLEAN
  /\ rows_state \in {"reading", "done", "failed"}

\* Before a file is filled, its bars are rows of it.
OutIsRead ==
  rows_state # "done" =>
    \A i \in 1 .. Len(rows_out) : \E k \in 1 .. Len(rows_rows) : rows_out[i] = rows_rows[k]

\* What SkippedGapEndsTheData rests on: the first row that was left out came after a gap,
\* and so did all that followed it.
GapIsFinal ==
  (/\ rows_state = "reading" /\ rows_config.on_gap = "skip" /\ rows_config.on_warning # "skip"
   /\ \A i \in 1 .. Len(rows_rows) : rows_rows[i].price # 0
   /\ \A i \in 1 .. Len(rows_rows) - 1 : rows_rows[i].time <= rows_rows[i + 1].time)
  => /\ Len(rows_out) <= Len(rows_rows)
     /\ \A i \in 1 .. Len(rows_out) : rows_out[i] = rows_rows[i]
     /\ Len(rows_out) < Len(rows_rows) =>
          /\ Len(rows_out) > 0
          /\ rows_rows[Len(rows_rows)].time - rows_out[Len(rows_out)].time > RowGap

RowsInv ==
  /\ RowsTypes /\ OutIsRead /\ GapIsFinal
  /\ Rows!OutputIsInOrder /\ Rows!NoLookAhead /\ Rows!NoHoleIsLeft

LEMMA InitRows == Rows!ValidationAssumption /\ Rows!Init => RowsInv
<1>. SUFFICES ASSUME Rows!ValidationAssumption, Rows!Init PROVE RowsInv
  OBVIOUS
<1>1. rows_rows = <<>> /\ rows_out = <<>> /\ rows_state = "reading" /\ RowsRead \in Nat
  BY DEF Rows!Init, Rows!ValidationAssumption
<1>2. RowsTypes
  <2>1. rows_rows \in Seq(Rows!Row) /\ rows_out \in Seq(OutBar) /\ Len(rows_rows) <= RowsRead
    BY <1>1
  <2>. QED  BY <1>1, <2>1 DEF RowsTypes, Rows!Init
<1>3. Len(rows_rows) = 0 /\ Len(rows_out) = 0
  BY <1>1
<1>4. OutIsRead /\ GapIsFinal /\ Rows!OutputIsInOrder
  BY <1>3 DEF OutIsRead, GapIsFinal, Rows!OutputIsInOrder
<1>5. Rows!NoLookAhead /\ Rows!NoHoleIsLeft
  BY <1>1 DEF Rows!NoLookAhead, Rows!NoHoleIsLeft
<1>. QED  BY <1>2, <1>4, <1>5 DEF RowsInv

LEMMA ReadRowStep ==
  ASSUME Rows!ValidationAssumption, RowsInv, NEW row \in Rows!Row, Rows!ReadRow(row)
  PROVE  RowsInv'
<1>. DEFINE n == Len(rows_rows)
            o == Len(rows_out)
            accepted == Rows!Verdict(row) = "accept"
<1>1. /\ rows_state = "reading" /\ n < RowsRead
      /\ rows_rows' = Append(rows_rows, row)
      /\ rows_out' = IF accepted THEN Append(rows_out, row) ELSE rows_out
      /\ rows_fill_on_gap' = (rows_fill_on_gap \/ (/\ row.price # 0 /\ ~Rows!OutOfOrder(row)
                                                   /\ Rows!AfterGap(row) /\ rows_config.on_gap = "fill"))
      /\ rows_state' = (IF Rows!Verdict(row) = "fail" THEN "failed" ELSE "reading")
      /\ rows_config' = rows_config
  BY DEF Rows!ReadRow
<1>2. /\ rows_rows \in Seq(Rows!Row) /\ rows_out \in Seq(OutBar) /\ n \in Nat /\ o \in Nat
      /\ RowsRead \in Nat /\ rows_config \in Rows!Configs /\ rows_fill_on_gap \in BOOLEAN
  BY DEF RowsInv, RowsTypes, Rows!ValidationAssumption
<1>3. row.time \in Nat /\ row.price \in Nat /\ row = [time |-> row.time, price |-> row.price]
  BY DEF Rows!Row, Rows!ValidationAssumption
<1>4. accepted => row.price # 0 /\ ~ Rows!OutOfOrder(row)
  BY DEF Rows!Verdict, Rows!OnError
<1>5. accepted => row \in OutBar
  BY <1>3, <1>4 DEF OutBar
<1>6. /\ rows_rows' \in Seq(Rows!Row) /\ Len(rows_rows') = n + 1 /\ rows_rows'[n + 1] = row
      /\ \A i \in 1 .. n : rows_rows'[i] = rows_rows[i]
  BY <1>1, <1>2
<1>7. /\ accepted => /\ rows_out' \in Seq(OutBar) /\ Len(rows_out') = o + 1 /\ rows_out'[o + 1] = row
                     /\ \A i \in 1 .. o : rows_out'[i] = rows_out[i]
      /\ ~ accepted => rows_out' = rows_out
  BY <1>1, <1>2, <1>5
<1>8. o > 0 => Rows!Last(rows_out) = rows_out[o] /\ rows_out[o] \in OutBar
  BY <1>2 DEF Rows!Last
<1>9. o = 0 <=> rows_out = <<>>
  BY <1>2
<1>. HIDE DEF n, o, accepted
<1>10. RowsTypes'
  <2>1. rows_fill_on_gap' \in BOOLEAN
    BY <1>1, <1>2
  <2>2. rows_out' \in Seq(OutBar)
    BY <1>2, <1>7
  <2>3. rows_state' \in {"reading", "done", "failed"} /\ n + 1 <= RowsRead
    BY <1>1, <1>2
  <2>. QED  BY <1>1, <1>2, <1>6, <2>1, <2>2, <2>3 DEF RowsTypes
<1>11. OutIsRead'
  <2>1. \A i \in 1 .. o : \E k \in 1 .. n : rows_out[i] = rows_rows[k]
    BY <1>1 DEF RowsInv, OutIsRead, n, o
  <2>2. \A i \in 1 .. o : \E k \in 1 .. n + 1 : rows_out[i] = rows_rows'[k]
    <3>1. \A k \in 1 .. n : k \in 1 .. n + 1 /\ rows_rows[k] = rows_rows'[k]
      BY <1>2, <1>6
    <3>. QED  BY <2>1, <3>1, Zenon
  <2>3. CASE accepted
    <3>1. \A i \in 1 .. o + 1 : i \in 1 .. o \/ i = o + 1
      BY <1>2
    <3>2. n + 1 \in 1 .. n + 1
      BY <1>2
    <3>3. \A i \in 1 .. o + 1 : \E k \in 1 .. n + 1 : rows_out'[i] = rows_rows'[k]
      BY <1>6, <1>7, <2>2, <2>3, <3>1, <3>2
    <3>. QED  BY <1>6, <1>7, <2>3, <3>3 DEF OutIsRead
  <2>4. CASE ~ accepted
    BY <1>6, <1>7, <2>2, <2>4 DEF OutIsRead, o
  <2>. QED  BY <2>3, <2>4
<1>12. Rows!OutputIsInOrder'
  <2>1. \A i \in 1 .. o - 1 : rows_out[i].time <= rows_out[i + 1].time
    BY DEF RowsInv, Rows!OutputIsInOrder, o
  <2>2. CASE accepted
    <3>. SUFFICES ASSUME NEW i \in 1 .. o PROVE rows_out'[i].time <= rows_out'[i + 1].time
      BY <1>2, <1>7, <2>2 DEF Rows!OutputIsInOrder
    <3>1. CASE i = o
      <4>1. o > 0 /\ rows_out'[i] = rows_out[o] /\ rows_out'[i + 1] = row
        BY <1>2, <1>7, <2>2, <3>1
      <4>2. ~ (row.time < rows_out[o].time) /\ rows_out[o].time \in Nat
        BY <1>4, <1>8, <1>9, <2>2, <4>1 DEF Rows!OutOfOrder, OutBar
      <4>. QED  BY <1>3, <4>1, <4>2
    <3>2. CASE i # o
      <4>1. i \in 1 .. o - 1 /\ i + 1 \in 1 .. o
        BY <1>2, <3>2
      <4>. QED  BY <1>7, <2>1, <2>2, <4>1
    <3>. QED  BY <3>1, <3>2
  <2>3. CASE ~ accepted
    BY <1>7, <2>1, <2>3 DEF Rows!OutputIsInOrder, o
  <2>. QED  BY <2>2, <2>3
<1>13. GapIsFinal'
  <2>. SUFFICES ASSUME /\ rows_state' = "reading" /\ rows_config.on_gap = "skip"
                       /\ rows_config.on_warning # "skip"
                       /\ \A i \in 1 .. n + 1 : rows_rows'[i].price # 0
                       /\ \A i \in 1 .. n : rows_rows'[i].time <= rows_rows'[i + 1].time
                PROVE  LET l == Len(rows_out') IN
                       /\ l <= n + 1
                       /\ \A i \in 1 .. l : rows_out'[i] = rows_rows'[i]
                       /\ l < n + 1 => l > 0 /\ row.time - rows_out'[l].time > RowGap
    BY <1>1, <1>2, <1>6 DEF GapIsFinal
  <2>1. ASSUME NEW i \in 1 .. n PROVE rows_rows[i].price # 0
    <3>1. i \in 1 .. n + 1
      BY <1>2
    <3>2. rows_rows'[i].price # 0
      BY <3>1
    <3>. QED  BY <1>6, <3>2
  <2>2. \A i \in 1 .. n - 1 : rows_rows[i].time <= rows_rows[i + 1].time
    <3>1. \A i \in 1 .. n - 1 : i \in 1 .. n /\ i + 1 \in 1 .. n
      BY <1>2
    <3>. QED  BY <1>6, <3>1
  <2>3. /\ o <= n /\ \A i \in 1 .. o : rows_out[i] = rows_rows[i]
        /\ o < n => o > 0 /\ rows_rows[n].time - rows_out[o].time > RowGap
    BY <1>1, <2>1, <2>2 DEF RowsInv, GapIsFinal, n, o
  <2>4. row.price # 0
    BY <1>2, <1>6
  <2>5. n > 0 => rows_rows[n].time <= row.time /\ rows_rows[n].time \in Nat
    <3>1. n > 0 => n \in 1 .. n /\ rows_rows[n] \in Rows!Row
      BY <1>2 DEF n
    <3>2. \A r \in Rows!Row : r.time \in Nat
      BY DEF Rows!Row, Rows!ValidationAssumption
    <3>. QED  BY <1>2, <1>6, <3>1, <3>2
  <2>6. RowGap \in Nat
    BY DEF Rows!ValidationAssumption
  <2>7. CASE o < n
    <3>1. o > 0 /\ rows_out[o].time \in Nat /\ n > 0
      BY <1>2, <1>8, <2>3, <2>7 DEF OutBar
    <3>2. row.time - rows_out[o].time > RowGap
      BY <1>3, <2>3, <2>5, <2>6, <2>7, <3>1
    <3>3. Rows!AfterGap(row) /\ ~ Rows!OutOfOrder(row)
      <4>1. ~ (row.time < rows_out[o].time)
        BY <1>3, <2>6, <3>1, <3>2
      <4>. QED  BY <1>8, <1>9, <3>1, <3>2, <4>1 DEF Rows!AfterGap, Rows!OutOfOrder
    <3>4. ~ accepted
      BY <2>4, <3>3 DEF Rows!Verdict, accepted
    <3>5. \A i \in 1 .. o : rows_out[i] = rows_rows'[i]
      BY <1>2, <1>6, <2>3
    <3>. QED  BY <1>2, <1>7, <2>3, <3>1, <3>2, <3>4, <3>5 DEF o
  <2>8. CASE o = n
    <3>1. ~ Rows!OutOfOrder(row)
      <4>1. o > 0 => rows_out[o] = rows_rows[n] /\ o \in 1 .. o
        BY <1>2, <2>3, <2>8
      <4>. QED  BY <1>2, <1>3, <1>8, <1>9, <2>5, <2>8, <4>1 DEF Rows!OutOfOrder
    <3>2. CASE Rows!AfterGap(row)
      <4>1. o > 0 /\ row.time - rows_out[o].time > RowGap
        BY <1>2, <1>8, <1>9, <3>2 DEF Rows!AfterGap
      <4>2. ~ accepted
        BY <2>4, <3>1, <3>2 DEF Rows!Verdict, accepted
      <4>3. \A i \in 1 .. o : rows_out[i] = rows_rows'[i]
        BY <1>2, <1>6, <2>3, <2>8
      <4>. QED  BY <1>2, <1>7, <2>8, <4>1, <4>2, <4>3 DEF o
    <3>3. CASE ~ Rows!AfterGap(row)
      <4>1. Rows!Verdict(row) # "fail"
        BY <1>1
      <4>2. accepted
        BY <2>4, <3>1, <3>3, <4>1 DEF Rows!Verdict, accepted
      <4>3. \A i \in 1 .. o + 1 : i \in 1 .. o \/ i = o + 1
        BY <1>2
      <4>4. \A i \in 1 .. o + 1 : rows_out'[i] = rows_rows'[i]
        BY <1>6, <1>7, <2>3, <2>8, <4>2, <4>3
      <4>. QED  BY <1>2, <1>7, <2>8, <4>2, <4>4
    <3>. QED  BY <3>2, <3>3
  <2>. QED  BY <1>2, <2>3, <2>7, <2>8
<1>14. Rows!NoLookAhead' /\ Rows!NoHoleIsLeft'
  BY <1>1 DEF Rows!NoLookAhead, Rows!NoHoleIsLeft
<1>. QED  BY <1>10, <1>11, <1>12, <1>13, <1>14 DEF RowsInv

LEMMA FinishStep ==
  ASSUME Rows!ValidationAssumption, RowsInv, Rows!Finish
  PROVE  RowsInv'
<1>1. /\ rows_state = "reading" /\ rows_state' = "done"
      /\ rows_out' = IF rows_config.fill \/ rows_fill_on_gap THEN Rows!Filled(rows_out) ELSE rows_out
      /\ UNCHANGED <<rows_config, rows_rows, rows_fill_on_gap>>
  BY DEF Rows!Finish
<1>2. rows_out \in Seq(OutBar)
  BY DEF RowsInv, RowsTypes
<1>3. \A i \in 1 .. Len(rows_out) - 1 : rows_out[i].time <= rows_out[i + 1].time
  BY DEF RowsInv, Rows!OutputIsInOrder
<1>4. \A i \in 1 .. Len(rows_out) : rows_out[i] \in {rows_rows[k] : k \in DOMAIN rows_rows}
  <2>1. DOMAIN rows_rows = 1 .. Len(rows_rows)
    BY DEF RowsInv, RowsTypes
  <2>. QED  BY <1>1, <2>1 DEF RowsInv, OutIsRead
<1>5. RowsTypes' /\ Rows!OutputIsInOrder' /\ Rows!NoLookAhead' /\ Rows!NoHoleIsLeft'
  <2>1. CASE rows_out = <<>> /\ (rows_config.fill \/ rows_fill_on_gap)
    <3>1. rows_out' = <<>> /\ Len(rows_out') = 0 /\ DOMAIN rows_out' = {}
      <4>1. Rows!Filled(rows_out) = <<>>
        BY <1>2, <1>3, <2>1, FilledFile
      <4>2. rows_out' = <<>>
        BY <1>1, <2>1, <4>1
      <4>. QED  BY <4>2
    <3>2. RowsTypes'
      <4>1. rows_out' \in Seq(OutBar)
        BY <3>1
      <4>. QED  BY <1>1, <4>1 DEF RowsInv, RowsTypes
    <3>. QED  BY <3>1, <3>2 DEF Rows!OutputIsInOrder, Rows!NoLookAhead, Rows!NoHoleIsLeft
  <2>2. CASE rows_out # <<>> /\ (rows_config.fill \/ rows_fill_on_gap)
    <3>. DEFINE u == rows_out'
    <3>1. FilledTo(u, rows_out, Len(rows_out))
      BY <1>1, <1>2, <1>3, <2>2, FilledFile
    <3>. HIDE DEF u
    <3>2. u \in Seq(OutBar) /\ DOMAIN u = 1 .. Len(u)
      BY <3>1 DEF FilledTo
    <3>3. RowsTypes'
      BY <1>1, <3>2 DEF RowsInv, RowsTypes, u
    <3>4. Rows!OutputIsInOrder' /\ Rows!NoHoleIsLeft'
      BY <3>1 DEF FilledTo, Rows!OutputIsInOrder, Rows!NoHoleIsLeft, u
    <3>5. \A i \in 1 .. Len(u) : u[i] \in {rows_rows[k] : k \in DOMAIN rows_rows} \/ IsMade(u, i)
      BY <1>4, <3>1 DEF FilledTo, WasThere
    <3>6. Rows!NoLookAhead'
      <4>. DEFINE Read == {rows_rows[k] : k \in DOMAIN rows_rows}
      <4>1. \A i \in DOMAIN u :
              \/ u[i] \in Read
              \/ /\ i > 1 /\ u[i].price = u[i - 1].price /\ u[i].time = u[i - 1].time + RowInterval
                 /\ i < Len(u) /\ u[i].time < u[i + 1].time
        BY <3>2, <3>5, Zenon DEF IsMade
      <4>2. Read = {rows_rows'[k] : k \in DOMAIN rows_rows'}
        BY <1>1
      <4>. HIDE DEF Read
      <4>. QED  BY <4>1, <4>2, Zenon DEF Rows!NoLookAhead, u
    <3>. QED  BY <3>3, <3>4, <3>6
  <2>3. CASE ~ (rows_config.fill \/ rows_fill_on_gap)
    <3>1. rows_out' = rows_out /\ ~ rows_config'.fill /\ DOMAIN rows_out = 1 .. Len(rows_out)
      BY <1>1, <1>2, <2>3
    <3>2. RowsTypes'
      BY <1>1, <3>1 DEF RowsInv, RowsTypes
    <3>3. Rows!NoLookAhead'
      BY <1>1, <1>4, <3>1, Zenon DEF Rows!NoLookAhead
    <3>. QED  BY <1>3, <3>1, <3>2, <3>3 DEF Rows!OutputIsInOrder, Rows!NoHoleIsLeft
  <2>. QED  BY <2>1, <2>2, <2>3
<1>6. OutIsRead' /\ GapIsFinal'
  BY <1>1 DEF OutIsRead, GapIsFinal
<1>. QED  BY <1>5, <1>6 DEF RowsInv

LEMMA RowsAreKept == Rows!ValidationAssumption => (Rows!Spec => []RowsInv)
<1>. SUFFICES ASSUME Rows!ValidationAssumption PROVE Rows!Spec => []RowsInv
  OBVIOUS
<1>1. Rows!Init => RowsInv
  BY InitRows
<1>2. RowsInv /\ [Rows!Next]_(Rows!vars) => RowsInv'
  <2>. SUFFICES ASSUME RowsInv, [Rows!Next]_(Rows!vars) PROVE RowsInv'
    OBVIOUS
  <2>1. CASE Rows!Finish
    BY <2>1, FinishStep
  <2>2. ASSUME NEW row \in Rows!Row, Rows!ReadRow(row) PROVE RowsInv'
    BY <2>2, ReadRowStep
  <2>3. CASE UNCHANGED Rows!vars
    <3>1. UNCHANGED <<rows_config, rows_rows, rows_out, rows_fill_on_gap, rows_state>>
      BY <2>3 DEF Rows!vars
    <3>. QED  BY <3>1 DEF RowsInv, RowsTypes, OutIsRead, GapIsFinal, Rows!OutputIsInOrder,
                 Rows!NoLookAhead, Rows!NoHoleIsLeft
  <2>. QED  BY <2>1, <2>2, <2>3 DEF Rows!Next
<1>. QED  BY <1>1, <1>2, PTL DEF Rows!Spec

LEMMA RowsAreSound ==
  RowsInv => /\ Rows!OutputIsInOrder /\ Rows!NoLookAhead /\ Rows!NoHoleIsLeft
             /\ Rows!SkippedGapEndsTheData
<1>. SUFFICES ASSUME RowsInv PROVE Rows!SkippedGapEndsTheData
  BY DEF RowsInv
<1>. SUFFICES ASSUME rows_state = "reading" /\ rows_config.on_gap = "skip" /\ rows_config.on_warning # "skip",
                     \A i \in DOMAIN rows_rows : rows_rows[i].price # 0,
                     \A i \in 1 .. Len(rows_rows) - 1 : rows_rows[i].time <= rows_rows[i + 1].time
              PROVE  rows_out = SubSeq(rows_rows, 1, Len(rows_out))
  BY DEF Rows!SkippedGapEndsTheData
<1>1. rows_rows \in Seq(Rows!Row) /\ rows_out \in Seq(OutBar)
  BY DEF RowsInv, RowsTypes
<1>2. Len(rows_out) <= Len(rows_rows) /\ \A i \in 1 .. Len(rows_out) : rows_out[i] = rows_rows[i]
  BY <1>1 DEF RowsInv, GapIsFinal
<1>3. Len(SubSeq(rows_rows, 1, Len(rows_out))) = Len(rows_out)
      /\ \A i \in 1 .. Len(rows_out) : SubSeq(rows_rows, 1, Len(rows_out))[i] = rows_rows[i]
  BY <1>1, <1>2
<1>4. SubSeq(rows_rows, 1, Len(rows_out)) \in Seq(Rows!Row)
  BY <1>1, <1>2
<1>. QED  BY <1>1, <1>2, <1>3, <1>4
-----------------------------------------------------------------------------
(* Corporate actions: the name of an adjusted bar.                          *)

Names == SplitSymbols \cup {a.symbol : a \in ListedActions}
NamedBar == [symbol : Names, time : Nat, price : Int, volume : Int]
RenamesAt(a, time) == a.kind = "rename" /\ a.date <= time

\* An action leaves the time of a bar alone, and gives it a name if it is a change of
\* names that is not to come.
LEMMA AdjustedOnce ==
  ASSUME Splits!ActionsAssumption, NEW a \in ListedActions, NEW bar \in NamedBar
  PROVE  LET r == Splits!AdjustedBy(bar, a) IN
           /\ r \in NamedBar /\ r.time = bar.time
           /\ r.symbol = IF RenamesAt(a, bar.time) THEN a.symbol ELSE bar.symbol
<1>1. /\ a.kind \in {"split", "dividend", "rename"} /\ a.date \in Nat
      /\ a.factor[1] \in Int /\ a.factor[2] \in Nat \ {0} /\ a.amount \in Int /\ a.symbol \in Names
  BY DEF Splits!ActionsAssumption, Names
<1>2. /\ bar.symbol \in Names /\ bar.time \in Nat /\ bar.price \in Int /\ bar.volume \in Int
      /\ bar = [symbol |-> bar.symbol, time |-> bar.time, price |-> bar.price, volume |-> bar.volume]
  BY DEF NamedBar
<1>3. \A p, q \in Int : p * q \in Int
  OBVIOUS
<1>4. \A p, q \in Int : q > 0 => p \div q \in Int
  OBVIOUS
<1>5. \A p \in Int : [bar EXCEPT !.price = p] \in NamedBar
                     /\ [bar EXCEPT !.price = p].time = bar.time
                     /\ [bar EXCEPT !.price = p].symbol = bar.symbol
  BY <1>2 DEF NamedBar
<1>6. CASE ~ Splits!Precedes(bar, a)
  <2>1. a.date <= bar.time
    BY <1>1, <1>2, <1>6 DEF Splits!Precedes
  <2>2. CASE a.kind = "rename"
    <3>1. Splits!AdjustedBy(bar, a) = [bar EXCEPT !.symbol = a.symbol]
      BY <1>6, <2>2 DEF Splits!AdjustedBy
    <3>2. [bar EXCEPT !.symbol = a.symbol] \in NamedBar
      BY <1>1, <1>2 DEF NamedBar
    <3>3. [bar EXCEPT !.symbol = a.symbol].time = bar.time
          /\ [bar EXCEPT !.symbol = a.symbol].symbol = a.symbol
      BY <1>2
    <3>. QED  BY <2>1, <2>2, <3>1, <3>2, <3>3 DEF RenamesAt
  <2>3. CASE a.kind # "rename"
    BY <1>6, <2>3 DEF Splits!AdjustedBy, RenamesAt
  <2>. QED  BY <2>2, <2>3
<1>7. CASE Splits!Precedes(bar, a)
  <2>1. ~ RenamesAt(a, bar.time)
    BY <1>1, <1>2, <1>7 DEF Splits!Precedes, RenamesAt
  <2>. DEFINE f1 == a.factor[1]
              f2 == a.factor[2]
  <2>2. CASE a.kind = "split"
    <3>. DEFINE p == (bar.price * f2) \div f1
                v == (bar.volume * f1) \div f2
    <3>1. Splits!AdjustedBy(bar, a) = Splits!Split(bar, a.factor)
      BY <1>7, <2>2 DEF Splits!AdjustedBy
    <3>2. CASE f1 > 0
      <4>1. Splits!Split(bar, a.factor) = [bar EXCEPT !.price = p, !.volume = v]
        BY <1>2, <3>2 DEF Splits!Split
      <4>2. bar.price * f2 \in Int /\ bar.volume * f1 \in Int
        BY <1>1, <1>2, <1>3
      <4>3. p \in Int /\ v \in Int
        BY <1>1, <1>4, <3>2, <4>2
      <4>. HIDE DEF p, v
      <4>4. /\ [bar EXCEPT !.price = p, !.volume = v] \in NamedBar
            /\ [bar EXCEPT !.price = p, !.volume = v].time = bar.time
            /\ [bar EXCEPT !.price = p, !.volume = v].symbol = bar.symbol
        BY <1>2, <4>3 DEF NamedBar
      <4>. QED  BY <2>1, <3>1, <4>1, <4>4
    <3>3. CASE ~ f1 > 0
      BY <2>1, <3>1, <3>3 DEF Splits!Split
    <3>. QED  BY <3>2, <3>3
  <2>3. CASE a.kind = "dividend"
    <3>1. Splits!AdjustedBy(bar, a) = Splits!Dividend(bar, a)
      BY <1>7, <2>3 DEF Splits!AdjustedBy
    <3>2. CASE f1 # f2 /\ f1 > 0
      <4>. DEFINE p == (bar.price * f1) \div f2
      <4>1. Splits!Dividend(bar, a) = [bar EXCEPT !.price = p]
        BY <1>2, <3>2 DEF Splits!Dividend
      <4>2. bar.price * f1 \in Int /\ f2 \in Int /\ f2 > 0
        BY <1>1, <1>2, <1>3
      <4>3. p \in Int
        BY <1>4, <4>2
      <4>. HIDE DEF p
      <4>. QED  BY <1>5, <2>1, <3>1, <4>1, <4>3
    <3>3. CASE ~ (f1 # f2 /\ f1 > 0) /\ bar.price > a.amount
      <4>. DEFINE p == bar.price - a.amount
      <4>1. Splits!Dividend(bar, a) = [bar EXCEPT !.price = p]
        BY <1>2, <3>3 DEF Splits!Dividend
      <4>2. p \in Int
        BY <1>1, <1>2
      <4>. HIDE DEF p
      <4>. QED  BY <1>5, <2>1, <3>1, <4>1, <4>2
    <3>4. CASE ~ (f1 # f2 /\ f1 > 0) /\ ~ bar.price > a.amount
      <4>1. Splits!Dividend(bar, a) = bar
        BY <3>4 DEF Splits!Dividend
      <4>. QED  BY <2>1, <3>1, <4>1
    <3>. QED  BY <3>2, <3>3, <3>4
  <2>4. CASE a.kind = "rename"
    BY <1>7, <2>1, <2>4 DEF Splits!AdjustedBy
  <2>. QED  BY <1>1, <2>2, <2>3, <2>4
<1>. QED  BY <1>6, <1>7

\* The name a bar of symbol s bears after the first n actions: s if none of them
\* changed it by then, else the one of the last that did.
NamedBy(name, s, list, n, time) ==
  \/ name = s /\ \A j \in 1 .. n : ~ RenamesAt(list[j], time)
  \/ \E i \in 1 .. n :
       /\ RenamesAt(list[i], time) /\ name = list[i].symbol
       /\ \A j \in 1 .. n : RenamesAt(list[j], time) => j <= i

LEMMA NamedByOneMore ==
  ASSUME NEW name, NEW s, NEW list, NEW n \in Nat, NEW time, NamedBy(name, s, list, n, time)
  PROVE  NamedBy(IF RenamesAt(list[n + 1], time) THEN list[n + 1].symbol ELSE name,
                 s, list, n + 1, time)
<1>1. \A j \in 1 .. n + 1 : j \in 1 .. n \/ j = n + 1
  OBVIOUS
<1>2. n + 1 \in 1 .. n + 1 /\ \A j \in 1 .. n : j \in 1 .. n + 1
  OBVIOUS
<1>3. CASE RenamesAt(list[n + 1], time)
  <2>1. \A j \in 1 .. n + 1 : j <= n + 1
    OBVIOUS
  <2>. QED  BY <1>2, <1>3, <2>1, Zenon DEF NamedBy
<1>4. CASE ~ RenamesAt(list[n + 1], time)
  <2>1. CASE name = s /\ \A j \in 1 .. n : ~ RenamesAt(list[j], time)
    <3>1. \A j \in 1 .. n + 1 : ~ RenamesAt(list[j], time)
      BY <1>1, <1>4, <2>1, Zenon
    <3>. QED  BY <1>4, <2>1, <3>1, Zenon DEF NamedBy
  <2>2. ASSUME NEW i \in 1 .. n, RenamesAt(list[i], time), name = list[i].symbol,
               \A j \in 1 .. n : RenamesAt(list[j], time) => j <= i
        PROVE  NamedBy(name, s, list, n + 1, time)
    <3>1. \A j \in 1 .. n + 1 : RenamesAt(list[j], time) => j <= i
      BY <1>1, <1>4, <2>2, Zenon
    <3>. QED  BY <1>2, <2>2, <3>1, Zenon DEF NamedBy
  <2>3. NamedBy(name, s, list, n + 1, time)
    <3>1. (name = s /\ \A j \in 1 .. n : ~ RenamesAt(list[j], time)) => NamedBy(name, s, list, n + 1, time)
      BY <1>4, <2>1, Zenon
    <3>. QED  BY <2>2, <2>1, <1>4, Zenon DEF NamedBy
  <2>. QED  BY <1>4, <2>3
<1>. QED  BY <1>3, <1>4

\* The adjusted bar has the name that all actions together give it.
LEMMA AdjustedIsNamed ==
  ASSUME Splits!ActionsAssumption, NEW s \in SplitSymbols, NEW b \in SplitBars,
         splits_actions[s] \in Seq(ListedActions)
  PROVE  NamedBy(Splits!Adjusted(s, b).symbol, s, splits_actions[s], Len(splits_actions[s]), b.time)
<1>. DEFINE N == Len(splits_actions[s])
            list(i) == splits_actions[s][i]
            read == Splits!AsRead(s, b)
            step == [x \in (1 .. N) \X NamedBar |-> Splits!AdjustedBy(x[2], list(x[1]))]
            Def(f) == f = [n \in 0 .. N |->
                            IF n = 0 THEN Splits!AsRead(s, b)
                            ELSE Splits!AdjustedBy(f[n - 1], splits_actions[s][n])]
            f == CHOOSE g : Def(g)
<1>1. N \in Nat /\ \A i \in 1 .. N : list(i) \in ListedActions
  OBVIOUS
<1>2. read \in NamedBar /\ read.symbol = s /\ read.time = b.time
  BY DEF Splits!AsRead, Splits!ActionsAssumption, NamedBar, Names
<1>. HIDE DEF N, list, read
<1>3. step \in [(1 .. N) \X NamedBar -> NamedBar]
  <2>1. \A i \in 1 .. N, bar \in NamedBar : Splits!AdjustedBy(bar, list(i)) \in NamedBar
    BY <1>1, AdjustedOnce
  <2>. HIDE DEF NamedBar
  <2>. QED  BY <2>1
<1>. HIDE DEF step
<1>4. PICK g \in [0 .. N -> NamedBar] : Follows(g, N, read, step)
  BY <1>1, <1>2, <1>3, Recursion
<1>5. g[0] = read /\ \A i \in 1 .. N : g[i] = Splits!AdjustedBy(g[i - 1], list(i))
  <2>1. g[0] = read /\ \A i \in 1 .. N : g[i] = step[<<i, g[i - 1]>>]
    BY <1>4 DEF Follows
  <2>2. \A i \in 1 .. N : i - 1 \in 0 .. N
    BY <1>1
  <2>3. \A i \in 1 .. N : <<i, g[i - 1]>> \in (1 .. N) \X NamedBar
    BY <2>2
  <2>4. \A i \in 1 .. N : step[<<i, g[i - 1]>>] = Splits!AdjustedBy(g[i - 1], list(i))
    BY <2>3 DEF step
  <2>. QED  BY <2>1, <2>4
<1>6. Def(g)
  <2>. DEFINE h == [n \in 0 .. N |->
                     IF n = 0 THEN Splits!AsRead(s, b)
                     ELSE Splits!AdjustedBy(g[n - 1], splits_actions[s][n])]
  <2>1. \A n \in 0 .. N : n = 0 \/ n \in 1 .. N
    BY <1>1
  <2>2. \A n \in 0 .. N : g[n] = h[n]
    BY <1>1, <1>5, <2>1 DEF list, read
  <2>3. DOMAIN h = 0 .. N /\ h = [n \in 0 .. N |-> h[n]]
    OBVIOUS
  <2>4. g = [n \in 0 .. N |-> g[n]]
    OBVIOUS
  <2>5. g = h
    <3>. HIDE DEF h
    <3>. QED  BY <2>2, <2>3, <2>4, Zenon
  <2>. QED  BY <2>5, Zenon
<1>7. Def(f)
  <2>. HIDE DEF Def
  <2>. QED  BY <1>6, Zenon DEF f
<1>8. Splits!Adjusted(s, b) = f[N]
  BY Zenon DEF Splits!Adjusted, N
<1>9. f[0] = read /\ \A n \in 1 .. N : f[n] = Splits!AdjustedBy(f[n - 1], list(n))
  <2>1. 0 \in 0 .. N /\ \A n \in 1 .. N : n \in 0 .. N /\ n # 0
    BY <1>1
  <2>. HIDE DEF f
  <2>. QED  BY <1>7, <2>1 DEF list, read
<1>. HIDE DEF f, Def
<1>. DEFINE T == {n \in 0 .. N : /\ f[n] \in NamedBar /\ f[n].time = b.time
                                 /\ NamedBy(f[n].symbol, s, splits_actions[s], n, b.time)}
<1>10. 0 \in T
  <2>1. NamedBy(s, s, splits_actions[s], 0, b.time)
    BY DEF NamedBy
  <2>. QED  BY <1>1, <1>2, <1>9, <2>1
<1>11. ASSUME NEW n \in 0 .. N - 1, n \in T
       PROVE  n + 1 \in T
  <2>1. n \in Nat /\ n + 1 \in 1 .. N /\ (n + 1) - 1 = n /\ n + 1 \in 0 .. N
    BY <1>1
  <2>2. f[n] \in NamedBar /\ f[n].time = b.time /\ NamedBy(f[n].symbol, s, splits_actions[s], n, b.time)
    BY <1>11
  <2>3. f[n + 1] = Splits!AdjustedBy(f[n], list(n + 1)) /\ list(n + 1) \in ListedActions
    BY <1>1, <1>9, <2>1
  <2>4. /\ f[n + 1] \in NamedBar /\ f[n + 1].time = f[n].time
        /\ f[n + 1].symbol = IF RenamesAt(list(n + 1), f[n].time) THEN list(n + 1).symbol ELSE f[n].symbol
    BY <2>2, <2>3, AdjustedOnce
  <2>5. NamedBy(f[n + 1].symbol, s, splits_actions[s], n + 1, b.time)
    BY <2>1, <2>2, <2>4, NamedByOneMore DEF list
  <2>. QED  BY <2>1, <2>2, <2>4, <2>5
<1>12. 0 .. N \subseteq T
  <2>. HIDE DEF T
  <2>. QED  BY <1>1, <1>10, <1>11, SetInduction
<1>13. N \in T
  <2>. HIDE DEF T
  <2>. QED  BY <1>1, <1>12
<1>. QED  BY <1>8, <1>13 DEF N

\* The lists are in order of their dates, however their actions were added.
SplitsInv ==
  /\ splits_actions \in [SplitSymbols -> Seq(ListedActions)]
  /\ \A s \in SplitSymbols : \A i, j \in 1 .. Len(splits_actions[s]) :
       i < j => splits_actions[s][i].date <= splits_actions[s][j].date

LEMMA SplitsAreKept == Splits!Spec => []SplitsInv
<1>1. Splits!Init => SplitsInv
  <2>. SUFFICES ASSUME Splits!Init PROVE SplitsInv
    OBVIOUS
  <2>1. splits_actions = [s \in SplitSymbols |-> <<>>] /\ <<>> \in Seq(ListedActions)
    BY DEF Splits!Init
  <2>2. \A s \in SplitSymbols : Len(splits_actions[s]) = 0
    BY <2>1
  <2>. QED  BY <2>1, <2>2 DEF SplitsInv
<1>2. SplitsInv /\ [Splits!Next]_(Splits!vars) => SplitsInv'
  <2>. SUFFICES ASSUME SplitsInv, [Splits!Next]_(Splits!vars) PROVE SplitsInv'
    OBVIOUS
  <2>1. CASE UNCHANGED Splits!vars
    BY <2>1 DEF Splits!vars, SplitsInv
  <2>2. ASSUME NEW s \in SplitSymbols, NEW portion \in Splits!Portions,
               Splits!AddActions(s, portion)
        PROVE  SplitsInv'
    <3>. DEFINE list == splits_actions[s] \o portion
    <3>1. PICK sorted \in Splits!Sorted(list) : splits_actions' = [splits_actions EXCEPT ![s] = sorted]
      BY <2>2 DEF Splits!AddActions
    <3>2. portion \in Seq(ListedActions)
      <4>1. PICK m \in 0 .. 2 : portion \in [1 .. m -> ListedActions]
        BY DEF Splits!Portions
      <4>2. m \in Nat
        OBVIOUS
      <4>. QED  BY <4>1, <4>2
    <3>3. list \in Seq(ListedActions)
      BY <3>2 DEF SplitsInv
    <3>. HIDE DEF list
    <3>4. /\ sorted \in [DOMAIN list -> Splits!Range(list)]
          /\ \A i, j \in DOMAIN list : i < j => sorted[i].date <= sorted[j].date
      BY <3>1 DEF Splits!Sorted
    <3>5. DOMAIN list = 1 .. Len(list) /\ Len(list) \in Nat /\ \A x \in Splits!Range(list) : x \in ListedActions
      BY <3>3 DEF Splits!Range
    <3>6. sorted \in Seq(ListedActions) /\ Len(sorted) = Len(list)
      BY <3>4, <3>5
    <3>7. \A t \in SplitSymbols : splits_actions'[t] = IF t = s THEN sorted ELSE splits_actions[t]
      BY <3>1 DEF SplitsInv
    <3>8. splits_actions' \in [SplitSymbols -> Seq(ListedActions)]
      BY <3>1, <3>6 DEF SplitsInv
    <3>. QED  BY <3>4, <3>5, <3>6, <3>7, <3>8 DEF SplitsInv
  <2>. QED  BY <2>1, <2>2 DEF Splits!Next, Splits!Portions
<1>. QED  BY <1>1, <1>2, PTL DEF Splits!Spec

LEMMA SplitsAreSound ==
  Splits!ActionsAssumption /\ SplitsInv => Splits!NamesFollowTime /\ Splits!AliasesResolve
<1>. SUFFICES ASSUME Splits!ActionsAssumption, SplitsInv
              PROVE  Splits!NamesFollowTime /\ Splits!AliasesResolve
  OBVIOUS
<1>1. Splits!AliasesResolve
  BY DEF Splits!AliasesResolve, Splits!Resolved
<1>2. ASSUME NEW s \in SplitSymbols, NEW b \in SplitBars
      PROVE  LET past == {i \in DOMAIN splits_actions[s] :
                            splits_actions[s][i].kind = "rename" /\ splits_actions[s][i].date <= b.time}
             IN Splits!Adjusted(s, b).symbol
                  \in IF past = {} THEN {s}
                      ELSE {splits_actions[s][i].symbol : i \in
                              {i \in past : \A j \in past :
                                 splits_actions[s][j].date <= splits_actions[s][i].date}}
  <2>. DEFINE list == splits_actions[s]
              name == Splits!Adjusted(s, b).symbol
              past == {i \in DOMAIN list : list[i].kind = "rename" /\ list[i].date <= b.time}
  <2>1. /\ list \in Seq(ListedActions)
        /\ \A i, j \in 1 .. Len(list) : i < j => list[i].date <= list[j].date
    BY DEF SplitsInv
  <2>2. NamedBy(name, s, list, Len(list), b.time)
    BY <2>1, AdjustedIsNamed
  <2>3. DOMAIN list = 1 .. Len(list) /\ Len(list) \in Nat
        /\ \A i \in 1 .. Len(list) : list[i].date \in Nat
    BY <2>1 DEF Splits!ActionsAssumption
  <2>. HIDE DEF list, name
  <2>4. \A i \in 1 .. Len(list) : i \in past <=> RenamesAt(list[i], b.time)
    BY <2>3 DEF RenamesAt
  <2>5. past \subseteq 1 .. Len(list)
    BY <2>3
  <2>6. CASE name = s /\ \A j \in 1 .. Len(list) : ~ RenamesAt(list[j], b.time)
    <3>1. past = {}
      BY <2>4, <2>5, <2>6
    <3>. QED  BY <2>6, <3>1 DEF list, name
  <2>7. ASSUME NEW i \in 1 .. Len(list), RenamesAt(list[i], b.time), name = list[i].symbol,
               \A j \in 1 .. Len(list) : RenamesAt(list[j], b.time) => j <= i
        PROVE  past # {} /\ name \in {list[k].symbol : k \in
                              {k \in past : \A j \in past : list[j].date <= list[k].date}}
    <3>1. i \in past
      BY <2>4, <2>7
    <3>2. ASSUME NEW j \in past PROVE list[j].date <= list[i].date
      <4>1. j \in 1 .. Len(list) /\ j <= i
        BY <2>4, <2>5, <2>7
      <4>. HIDE DEF past
      <4>2. CASE j = i
        BY <2>3, <4>2
      <4>3. CASE j # i
        BY <2>1, <4>1, <4>3
      <4>. QED  BY <4>2, <4>3
    <3>. HIDE DEF past
    <3>. QED  BY <2>7, <3>1, <3>2
  <2>8. CASE \E i \in 1 .. Len(list) :
               /\ RenamesAt(list[i], b.time) /\ name = list[i].symbol
               /\ \A j \in 1 .. Len(list) : RenamesAt(list[j], b.time) => j <= i
    <3>1. past # {} /\ name \in {list[k].symbol : k \in
                              {k \in past : \A j \in past : list[j].date <= list[k].date}}
      <4>. HIDE DEF past
      <4>. QED  BY <2>7, <2>8
    <3>. QED  BY <3>1 DEF list, name
  <2>. QED  BY <2>2, <2>6, <2>8 DEF NamedBy
<1>3. Splits!NamesFollowTime
  BY <1>2, Zenon DEF Splits!NamesFollowTime
<1>. QED  BY <1>1, <1>3
-----------------------------------------------------------------------------
(***************************************************************************)
(* Merging.  The heap has the next item of every stream that is not at its *)
(* end, and what was given of a stream is what precedes that item in it.   *)
(***************************************************************************)
Readers == DOMAIN MergedStreams
MergeItems == [item : Merge!Item, stream : Readers]
WaitingStreams == {e.stream : e \in merge_heap}
OfStream(items, s, i) == {j \in 1 .. i : items[j].stream = s}

HeapFits ==
  /\ merge_read \in [Readers -> Nat]
  /\ WaitingStreams \subseteq Readers
  /\ \A e \in merge_heap :
       /\ merge_read[e.stream] \in 1 .. Len(MergedStreams[e.stream])
       /\ e = Merge!Entry(e.stream, merge_read[e.stream])
  /\ \A s \in Readers \ WaitingStreams : merge_read[s] = Len(MergedStreams[s])

GivenFits ==
  /\ merge_given \in Seq(MergeItems)
  /\ \A s \in Readers :
       Cardinality(OfStream(merge_given, s, Len(merge_given)))
         = IF s \in WaitingStreams THEN merge_read[s] - 1 ELSE merge_read[s]
  /\ \A i \in DOMAIN merge_given :
       LET s == merge_given[i].stream
       IN  merge_given[i].item = MergedStreams[s][Cardinality(OfStream(merge_given, s, i))]

GivenInTime ==
  /\ \A i, j \in DOMAIN merge_given : i < j => merge_given[i].item.time <= merge_given[j].item.time
  /\ \A i \in DOMAIN merge_given : \A e \in merge_heap : merge_given[i].item.time <= e.item.time

MergeInv == HeapFits /\ GivenFits /\ GivenInTime

\* The streams and their items.
LEMMA StreamsFit ==
  ASSUME Merge!StreamsAssumption, NEW s \in Readers
  PROVE  /\ Len(MergedStreams[s]) \in Nat
         /\ DOMAIN MergedStreams[s] = 1 .. Len(MergedStreams[s])
         /\ \A i \in 1 .. Len(MergedStreams[s]) :
              MergedStreams[s][i] \in Merge!Item /\ Merge!Entry(s, i) \in MergeItems
         /\ \A i, j \in 1 .. Len(MergedStreams[s]) :
              i < j => MergedStreams[s][i].time <= MergedStreams[s][j].time
         /\ MergedStreams[s] # <<>> <=> 1 <= Len(MergedStreams[s])
<1> DEFINE m == MergedStreams[s]
<1>1. m \in Seq(Merge!Item)
  <2>1. MergedStreams \in Seq(Seq(Merge!Item))
    BY DEF Merge!StreamsAssumption
  <2>2. DOMAIN MergedStreams = 1 .. Len(MergedStreams)
    BY <2>1
  <2> QED  BY <2>1, <2>2, ElementOfSeq DEF Readers
<1>2. \A i, j \in DOMAIN m : i < j => m[i].time <= m[j].time
  BY DEF Merge!StreamsAssumption, Readers
<1> HIDE DEF m
<1>3. /\ Len(m) \in Nat /\ DOMAIN m = 1 .. Len(m) /\ (m # <<>> <=> 1 <= Len(m))
      /\ \A i \in 1 .. Len(m) : m[i] \in Merge!Item
  BY <1>1, ElementOfSeq
<1>4. \A i \in 1 .. Len(m) : Merge!Entry(s, i) \in MergeItems
  BY <1>3 DEF Merge!Entry, MergeItems, m
<1> QED  BY <1>2, <1>3, <1>4 DEF m

\* What the merging counts.
LEMMA MergeCounts ==
  \A s, i : Merge!GivenOf(s, i) = Cardinality(OfStream(merge_given, s, i))
BY DEF Merge!GivenOf, OfStream, Merge!Cardinality, Cardinality

\* One more item given is one more of its stream.
LEMMA OneMoreGiven ==
  ASSUME NEW g \in Seq(MergeItems), NEW e \in MergeItems
  PROVE  LET n == Len(g)
             h == Append(g, e)
         IN  /\ h \in Seq(MergeItems) /\ Len(h) = n + 1 /\ n \in Nat /\ DOMAIN h = 1 .. n + 1 /\ DOMAIN g = 1 .. n
             /\ \A i \in 1 .. n : h[i] = g[i]
             /\ h[n + 1] = e
             /\ \A s, i : i \in 0 .. n => OfStream(h, s, i) = OfStream(g, s, i)
             /\ \A s : Cardinality(OfStream(h, s, n + 1))
                         = Cardinality(OfStream(g, s, n)) + IF e.stream = s THEN 1 ELSE 0
<1> DEFINE n == Len(g)
           h == Append(g, e)
<1>1. /\ h \in Seq(MergeItems) /\ Len(h) = n + 1 /\ n \in Nat /\ DOMAIN h = 1 .. n + 1 /\ DOMAIN g = 1 .. n
      /\ \A i \in 1 .. n : h[i] = g[i]
      /\ h[n + 1] = e
  OBVIOUS
<1> HIDE DEF h, n
<1>2. ASSUME NEW s, NEW i \in 0 .. n PROVE OfStream(h, s, i) = OfStream(g, s, i)
  <2>1. 1 .. i \subseteq 1 .. n
    BY <1>1
  <2> QED  BY <1>1, <2>1 DEF OfStream
<1>3. ASSUME NEW s
      PROVE  Cardinality(OfStream(h, s, n + 1)) = Cardinality(OfStream(g, s, n)) + IF e.stream = s THEN 1 ELSE 0
  <2> DEFINE S == OfStream(h, s, n)
  <2>1. S = OfStream(g, s, n)
    BY <1>1, <1>2
  <2>2. S \subseteq 1 .. n /\ IsFiniteSet(1 .. n)
    BY <1>1, FS_Interval DEF OfStream
  <2>3. IsFiniteSet(S) /\ n + 1 \notin S /\ Cardinality(S) \in Nat
    BY <1>1, <2>2, FS_Subset, FS_CardinalityType
  <2>4. OfStream(h, s, n + 1) = IF e.stream = s THEN S \cup {n + 1} ELSE S
    BY <1>1 DEF OfStream
  <2> HIDE DEF S
  <2>5. Cardinality(S \cup {n + 1}) = Cardinality(S) + 1
    BY <2>3, FS_AddElement
  <2> QED  BY <2>1, <2>3, <2>4, <2>5
<1> QED  BY <1>1, <1>2, <1>3 DEF h, n

\* The merging begins, or begins again.
LEMMA MergeStarts ==
  ASSUME Merge!StreamsAssumption, NEW heap, NEW read, Merge!Start(heap, read)
  PROVE  /\ read \in [Readers -> Nat]
         /\ {e.stream : e \in heap} = {s \in Readers : MergedStreams[s] # <<>>}
         /\ \A e \in heap : e.stream \in Readers /\ read[e.stream] = 1
                            /\ 1 <= Len(MergedStreams[e.stream]) /\ e = Merge!Entry(e.stream, 1)
         /\ \A s \in Readers : MergedStreams[s] = <<>> => read[s] = 0 /\ Len(MergedStreams[s]) = 0
<1>1. \A s, i : Merge!Entry(s, i).stream = s
  BY DEF Merge!Entry
<1>2. /\ heap = {Merge!Entry(s, 1) : s \in {t \in Readers : MergedStreams[t] # <<>>}}
      /\ read = [s \in Readers |-> IF MergedStreams[s] # <<>> THEN 1 ELSE 0]
  BY DEF Merge!Start, Readers
<1>3. {e.stream : e \in heap} = {s \in Readers : MergedStreams[s] # <<>>}
  BY <1>1, <1>2
<1>4. ASSUME NEW e \in heap
      PROVE  e.stream \in Readers /\ read[e.stream] = 1
             /\ 1 <= Len(MergedStreams[e.stream]) /\ e = Merge!Entry(e.stream, 1)
  <2>1. PICK s \in Readers : e = Merge!Entry(s, 1) /\ MergedStreams[s] # <<>>
    BY <1>2
  <2> QED  BY <1>1, <1>2, <2>1, StreamsFit
<1>5. read \in [Readers -> Nat]
  BY <1>2
<1> QED  BY <1>2, <1>3, <1>4, <1>5

\* The merging begins with the invariant,
LEMMA MergeBegins ==
  ASSUME Merge!StreamsAssumption, Merge!Start(merge_heap, merge_read), merge_given = <<>>
  PROVE  MergeInv
<1>1. /\ merge_read \in [Readers -> Nat]
      /\ WaitingStreams = {s \in Readers : MergedStreams[s] # <<>>}
      /\ \A e \in merge_heap : e.stream \in Readers /\ merge_read[e.stream] = 1
                         /\ 1 <= Len(MergedStreams[e.stream]) /\ e = Merge!Entry(e.stream, 1)
      /\ \A s \in Readers : MergedStreams[s] = <<>> => merge_read[s] = 0 /\ Len(MergedStreams[s]) = 0
  BY MergeStarts DEF WaitingStreams
<1>2. HeapFits
  <2>1. \A e \in merge_heap : Len(MergedStreams[e.stream]) \in Nat
    BY <1>1, StreamsFit
  <2> QED  BY <1>1, <2>1 DEF HeapFits
<1>3. Len(merge_given) = 0 /\ DOMAIN merge_given = {} /\ merge_given \in Seq(MergeItems) /\ 1 .. 0 = {}
  OBVIOUS
<1>4. GivenFits
  <2>1. ASSUME NEW s \in Readers
        PROVE  0 = IF s \in WaitingStreams THEN merge_read[s] - 1 ELSE merge_read[s]
    <3>1. CASE s \in WaitingStreams
      <4>1. merge_read[s] = 1
        BY <1>1, <3>1 DEF WaitingStreams
      <4> QED  BY <3>1, <4>1
    <3>2. CASE s \notin WaitingStreams
      BY <1>1, <3>2
    <3> QED  BY <3>1, <3>2
  <2>2. \A s : Cardinality(OfStream(merge_given, s, 0)) = 0
    <3>1. \A s : OfStream(merge_given, s, 0) = {}
      BY <1>3 DEF OfStream
    <3> QED  BY <3>1, FS_EmptySet
  <2> QED  BY <1>3, <2>1, <2>2 DEF GivenFits
<1>5. GivenInTime
  BY <1>3 DEF GivenInTime
<1> QED  BY <1>2, <1>4, <1>5 DEF MergeInv

\* reset()
LEMMA MergeBeginsAgain ==
  ASSUME Merge!StreamsAssumption, Merge!Start(merge_heap', merge_read'), merge_given' = <<>>
  PROVE  MergeInv'
<1>1. /\ merge_read' \in [Readers -> Nat]
      /\ WaitingStreams' = {s \in Readers : MergedStreams[s] # <<>>}
      /\ \A e \in merge_heap' : e.stream \in Readers /\ merge_read'[e.stream] = 1
                         /\ 1 <= Len(MergedStreams[e.stream]) /\ e = Merge!Entry(e.stream, 1)
      /\ \A s \in Readers : MergedStreams[s] = <<>> => merge_read'[s] = 0 /\ Len(MergedStreams[s]) = 0
  BY MergeStarts DEF WaitingStreams
<1>2. HeapFits'
  <2>1. \A e \in merge_heap' : Len(MergedStreams[e.stream]) \in Nat
    BY <1>1, StreamsFit
  <2> QED  BY <1>1, <2>1 DEF HeapFits
<1>3. Len(merge_given') = 0 /\ DOMAIN merge_given' = {} /\ merge_given' \in Seq(MergeItems) /\ 1 .. 0 = {}
  OBVIOUS
<1>4. GivenFits'
  <2>1. ASSUME NEW s \in Readers
        PROVE  0 = IF s \in WaitingStreams' THEN merge_read'[s] - 1 ELSE merge_read'[s]
    <3>1. CASE s \in WaitingStreams'
      <4>1. merge_read'[s] = 1
        BY <1>1, <3>1 DEF WaitingStreams
      <4> QED  BY <3>1, <4>1
    <3>2. CASE s \notin WaitingStreams'
      BY <1>1, <3>2
    <3> QED  BY <3>1, <3>2
  <2>2. \A s : Cardinality(OfStream(merge_given', s, 0)) = 0
    <3>1. \A s : OfStream(merge_given', s, 0) = {}
      BY <1>3 DEF OfStream
    <3> QED  BY <3>1, FS_EmptySet
  <2> QED  BY <1>3, <2>1, <2>2 DEF GivenFits
<1>5. GivenInTime'
  BY <1>3 DEF GivenInTime
<1> QED  BY <1>2, <1>4, <1>5 DEF MergeInv

\* next()
LEMMA NextKeepsMerge ==
  ASSUME Merge!StreamsAssumption, MergeInv, NEW e \in merge_heap, Merge!NextItem(e)
  PROVE  MergeInv'
<1> DEFINE s == e.stream
           k == merge_read[s]
           f == Merge!Entry(s, k + 1)
           n == Len(merge_given)
           N == Len(MergedStreams[s])
<1>1. s \in Readers /\ k \in 1 .. N /\ e = Merge!Entry(s, k) /\ s \in WaitingStreams
  BY DEF MergeInv, HeapFits, WaitingStreams
<1>2. \A d \in merge_heap : d.stream = s => d = e
  BY <1>1 DEF MergeInv, HeapFits
<1>3. /\ N \in Nat /\ e \in MergeItems /\ e.item = MergedStreams[s][k]
      /\ (k < N => /\ f \in MergeItems /\ f.stream = s /\ f.item = MergedStreams[s][k + 1]
                   /\ e.item.time <= f.item.time /\ k + 1 \in 1 .. N)
  <2>1. N \in Nat /\ \A i \in 1 .. N : Merge!Entry(s, i) \in MergeItems
    BY <1>1, StreamsFit
  <2>2. \A i : Merge!Entry(s, i).item = MergedStreams[s][i] /\ Merge!Entry(s, i).stream = s
    BY DEF Merge!Entry
  <2>3. k < N => k + 1 \in 1 .. N /\ k < k + 1
    BY <1>1, <2>1
  <2>4. k < N => MergedStreams[s][k].time <= MergedStreams[s][k + 1].time
    BY <1>1, <2>3, StreamsFit
  <2> QED  BY <1>1, <2>1, <2>2, <2>3, <2>4
<1>4. /\ merge_given' = Append(merge_given, e)
      /\ \A d \in merge_heap : ~Merge!Before(d.item, e.item)
      /\ \/ /\ k < N /\ merge_heap' = (merge_heap \ {e}) \cup {f}
            /\ merge_read' = [merge_read EXCEPT ![s] = k + 1]
         \/ ~(k < N) /\ merge_heap' = merge_heap \ {e} /\ merge_read' = merge_read
  BY DEF Merge!NextItem, Merge!IsTop, Merge!Refill, Merge!HasMore
<1>5. /\ merge_given \in Seq(MergeItems) /\ merge_read \in [Readers -> Nat]
      /\ WaitingStreams \subseteq Readers
  BY DEF MergeInv, HeapFits, GivenFits
<1> HIDE DEF f, N
<1>6. /\ merge_given' \in Seq(MergeItems) /\ Len(merge_given') = n + 1 /\ n \in Nat
      /\ DOMAIN merge_given' = 1 .. n + 1 /\ DOMAIN merge_given = 1 .. n
      /\ \A i \in 1 .. n : merge_given'[i] = merge_given[i]
      /\ merge_given'[n + 1] = e
      /\ \A t, i : i \in 0 .. n => OfStream(merge_given', t, i) = OfStream(merge_given, t, i)
      /\ \A t : Cardinality(OfStream(merge_given', t, n + 1))
                  = Cardinality(OfStream(merge_given, t, n)) + IF s = t THEN 1 ELSE 0
  BY <1>3, <1>4, <1>5, OneMoreGiven
<1>7. /\ WaitingStreams' = IF k < N THEN WaitingStreams ELSE WaitingStreams \ {s}
      /\ merge_read' \in [Readers -> Nat]
      /\ merge_read'[s] = IF k < N THEN k + 1 ELSE k
      /\ \A t \in Readers \ {s} : merge_read'[t] = merge_read[t]
      /\ \A d \in merge_heap' : (d = f /\ k < N) \/ (d \in merge_heap /\ d # e /\ d.stream # s)
  <2>1. CASE k < N
    <3>1. merge_heap' = (merge_heap \ {e}) \cup {f} /\ merge_read' = [merge_read EXCEPT ![s] = k + 1] /\ f.stream = s
      BY <1>3, <1>4, <2>1
    <3>2. k + 1 \in Nat
      BY <1>1, <1>3
    <3>3. WaitingStreams' = WaitingStreams
      BY <1>1, <1>2, <3>1 DEF WaitingStreams
    <3> HIDE DEF s, k
    <3>4. merge_read' \in [Readers -> Nat] /\ merge_read'[s] = k + 1
      BY <1>1, <1>5, <3>1, <3>2
    <3>5. \A t \in Readers \ {s} : merge_read'[t] = merge_read[t]
      BY <1>5, <3>1
    <3>6. \A d \in merge_heap' : (d = f /\ k < N) \/ (d \in merge_heap /\ d # e /\ d.stream # s)
      <4>1. ASSUME NEW d \in merge_heap' PROVE (d = f /\ k < N) \/ (d \in merge_heap /\ d # e)
        BY <2>1, <3>1
      <4>2. \A d \in merge_heap : d # e => d.stream # s
        BY <1>2
      <4> HIDE DEF f, N
      <4> QED  BY <4>1, <4>2
    <3> QED  BY <2>1, <3>3, <3>4, <3>5, <3>6
  <2>2. CASE ~(k < N)
    <3>1. merge_heap' = merge_heap \ {e} /\ merge_read' = merge_read
      BY <1>4, <2>2
    <3>2. WaitingStreams' = WaitingStreams \ {s}
      BY <1>2, <3>1 DEF WaitingStreams
    <3> QED  BY <1>2, <1>5, <2>2, <3>1, <3>2
  <2> QED  BY <2>1, <2>2
<1>8. HeapFits'
  <2>1. ASSUME NEW d \in merge_heap'
        PROVE  /\ merge_read'[d.stream] \in 1 .. Len(MergedStreams[d.stream])
               /\ d = Merge!Entry(d.stream, merge_read'[d.stream])
    <3>1. CASE d = f /\ k < N
      BY <1>3, <1>7, <3>1 DEF f, N
    <3>2. CASE d \in merge_heap /\ d.stream # s
      <4>1. d.stream \in Readers /\ merge_read'[d.stream] = merge_read[d.stream]
        BY <1>5, <1>7, <3>2 DEF WaitingStreams
      <4> QED  BY <3>2, <4>1 DEF MergeInv, HeapFits
    <3> QED  BY <1>7, <3>1, <3>2
  <2>2. ASSUME NEW t \in Readers \ WaitingStreams' PROVE merge_read'[t] = Len(MergedStreams[t])
    <3>1. CASE t = s
      <4>1. ~(k < N) /\ k = N /\ merge_read'[s] = k
        BY <1>1, <1>3, <1>7, <2>2, <3>1
      <4> QED  BY <3>1, <4>1 DEF N
    <3>2. CASE t # s
      <4>1. t \in Readers \ WaitingStreams /\ merge_read'[t] = merge_read[t]
        BY <1>7, <2>2, <3>2
      <4> QED  BY <4>1 DEF MergeInv, HeapFits
    <3> QED  BY <3>1, <3>2
  <2>3. WaitingStreams' \subseteq Readers
    BY <1>5, <1>7
  <2> QED  BY <1>7, <2>1, <2>2, <2>3 DEF HeapFits
<1>9. Cardinality(OfStream(merge_given, s, n)) = k - 1
  BY <1>1 DEF MergeInv, GivenFits
<1>10. GivenFits'
  <2>1. ASSUME NEW t \in Readers
        PROVE  Cardinality(OfStream(merge_given', t, n + 1))
                 = IF t \in WaitingStreams' THEN merge_read'[t] - 1 ELSE merge_read'[t]
    <3>1. CASE t = s
      <4>1. Cardinality(OfStream(merge_given', t, n + 1)) = k - 1 + 1 /\ k \in Int
        BY <1>1, <1>3, <1>6, <1>9, <3>1
      <4>2. CASE k < N
        <5>1. s \in WaitingStreams' /\ merge_read'[s] = k + 1
          BY <1>1, <1>7, <4>2
        <5> HIDE DEF k, s
        <5> QED  BY <3>1, <4>1, <5>1
      <4>3. CASE ~(k < N)
        <5>1. s \notin WaitingStreams' /\ merge_read'[s] = k
          BY <1>7, <4>3
        <5> HIDE DEF k, s
        <5> QED  BY <3>1, <4>1, <5>1
      <4> QED  BY <4>2, <4>3
    <3>2. CASE t # s
      <4>1. merge_read'[t] = merge_read[t] /\ (t \in WaitingStreams' <=> t \in WaitingStreams)
        BY <1>7, <3>2
      <4>2. Cardinality(OfStream(merge_given, t, n)) = IF t \in WaitingStreams THEN merge_read[t] - 1 ELSE merge_read[t]
        BY DEF MergeInv, GivenFits
      <4>3. Cardinality(OfStream(merge_given', t, n + 1)) = Cardinality(OfStream(merge_given, t, n)) + 0
        BY <1>6, <3>2
      <4>4. merge_read[t] \in Int
        BY <1>5
      <4> QED  BY <4>1, <4>2, <4>3, <4>4
    <3> QED  BY <3>1, <3>2
  <2>2. ASSUME NEW i \in DOMAIN merge_given'
        PROVE  LET t == merge_given'[i].stream
               IN  merge_given'[i].item = MergedStreams[t][Cardinality(OfStream(merge_given', t, i))]
    <3>1. CASE i = n + 1
      <4>1. Cardinality(OfStream(merge_given', s, n + 1)) = k
        BY <1>1, <1>3, <1>6, <1>9
      <4> HIDE DEF k, n
      <4> QED  BY <1>3, <1>6, <3>1, <4>1
    <3>2. CASE i \in 1 .. n
      <4>1. i \in 0 .. n /\ merge_given'[i] = merge_given[i] /\ i \in DOMAIN merge_given
        BY <1>6, <3>2
      <4>2. \A t : OfStream(merge_given', t, i) = OfStream(merge_given, t, i)
        BY <1>6, <4>1
      <4> QED  BY <4>1, <4>2 DEF MergeInv, GivenFits
    <3> QED  BY <1>6, <2>2, <3>1, <3>2
  <2> HIDE DEF n
  <2> QED  BY <1>6, <2>1, <2>2 DEF GivenFits
<1>11. \A i \in 1 .. n : merge_given[i].item.time <= e.item.time
  BY <1>6 DEF MergeInv, GivenInTime
<1>12. \A d \in merge_heap' : e.item.time <= d.item.time
  <2> SUFFICES ASSUME NEW d \in merge_heap' PROVE e.item.time <= d.item.time
    OBVIOUS
  <2>1. CASE d = f /\ k < N
    BY <1>3, <2>1
  <2>2. CASE d \in merge_heap
    <3>1. d.stream \in Readers
      BY <1>5, <2>2 DEF WaitingStreams
    <3>2. d \in MergeItems
      <4>1. merge_read[d.stream] \in 1 .. Len(MergedStreams[d.stream]) /\ d = Merge!Entry(d.stream, merge_read[d.stream])
        BY <2>2 DEF MergeInv, HeapFits
      <4> QED  BY <3>1, <4>1, StreamsFit
    <3>3. d.item.time \in Nat /\ e.item.time \in Nat
      BY <1>3, <3>2 DEF MergeItems, Merge!Item
    <3>4. ~(d.item.time < e.item.time)
      BY <1>4, <2>2 DEF Merge!Before
    <3> QED  BY <3>3, <3>4
  <2> QED  BY <1>7, <2>1, <2>2
<1>13. GivenInTime'
  <2>1. \A i \in 1 .. n : merge_given'[i].item.time \in Nat
    <3>1. \A i \in 1 .. n : merge_given[i] \in MergeItems
      BY <1>5, <1>6, ElementOfSeq
    <3> QED  BY <1>6, <3>1 DEF MergeItems, Merge!Item
  <2>2. e.item.time \in Nat /\ \A d \in merge_heap' : d.item.time \in Nat
    <3>1. e.item.time \in Nat
      BY <1>3 DEF MergeItems, Merge!Item
    <3>2. ASSUME NEW d \in merge_heap' PROVE d.item.time \in Nat
      <4>1. d.stream \in Readers /\ merge_read'[d.stream] \in 1 .. Len(MergedStreams[d.stream])
            /\ d = Merge!Entry(d.stream, merge_read'[d.stream])
        BY <1>8 DEF HeapFits, WaitingStreams
      <4>2. d \in MergeItems
        BY <4>1, StreamsFit
      <4> QED  BY <4>2 DEF MergeItems, Merge!Item
    <3> QED  BY <3>1, <3>2
  <2>3. ASSUME NEW i \in DOMAIN merge_given', NEW j \in DOMAIN merge_given', i < j
        PROVE  merge_given'[i].item.time <= merge_given'[j].item.time
    <3> HIDE DEF n
    <3>1. i \in 1 .. n /\ (j \in 1 .. n \/ j = n + 1)
      BY <1>6, <2>3
    <3>2. CASE j = n + 1
      BY <1>6, <1>11, <3>1, <3>2
    <3>3. CASE j \in 1 .. n
      <4>1. merge_given[i].item.time <= merge_given[j].item.time
        BY <1>6, <2>3, <3>1, <3>3 DEF MergeInv, GivenInTime
      <4> QED  BY <1>6, <3>1, <3>3, <4>1
    <3> QED  BY <3>1, <3>2, <3>3
  <2>4. ASSUME NEW i \in DOMAIN merge_given', NEW d \in merge_heap'
        PROVE  merge_given'[i].item.time <= d.item.time
    <3> HIDE DEF n
    <3>1. i = n + 1 \/ i \in 1 .. n
      BY <1>6
    <3>2. merge_given'[i].item.time <= e.item.time
      BY <1>6, <1>11, <2>2, <3>1
    <3>3. merge_given'[i].item.time \in Nat
      BY <1>6, <2>1, <2>2, <3>1
    <3> QED  BY <1>12, <2>2, <3>2, <3>3
  <2> QED  BY <2>3, <2>4 DEF GivenInTime
<1> QED  BY <1>8, <1>10, <1>13 DEF MergeInv

\* Every step of the merging keeps it.
LEMMA MergeIsKept ==
  ASSUME Merge!StreamsAssumption, MergeInv, Merge!Next \/ UNCHANGED mergeVars PROVE MergeInv'
<1>1. CASE UNCHANGED mergeVars
  BY <1>1 DEF mergeVars, MergeInv, HeapFits, GivenFits, GivenInTime, WaitingStreams
<1>2. CASE Merge!Reset
  <2>1. Merge!Start(merge_heap', merge_read') /\ merge_given' = <<>>
    BY <1>2 DEF Merge!Reset
  <2> QED  BY <2>1, MergeBeginsAgain
<1>3. CASE \E e \in merge_heap : Merge!NextItem(e)
  BY <1>3, NextKeepsMerge
<1> QED  BY <1>1, <1>2, <1>3 DEF Merge!Next

\* What the invariant says of the properties.
LEMMA MergeHolds ==
  ASSUME MergeInv PROVE MergeIsInOrder /\ NothingIsLost
<1>1. Merge!MergeIsInOrder
  BY DEF MergeInv, GivenInTime, Merge!MergeIsInOrder
<1>2. \A s \in Readers : (\E e \in merge_heap : e.stream = s) <=> s \in WaitingStreams
  BY DEF WaitingStreams
<1>3. Merge!NothingIsLost
  BY <1>2, MergeCounts DEF MergeInv, HeapFits, GivenFits, Readers, Merge!NothingIsLost
<1> QED  BY <1>1, <1>3 DEF MergeIsInOrder, NothingIsLost

-----------------------------------------------------------------------------
(***************************************************************************)
(* Bars.  Whatever completes them, each is made of consecutive ticks and   *)
(* begins where the one before it ended.                                   *)
(***************************************************************************)
OneBar(b, given) ==
  /\ b.first \in 1 .. b.last /\ b.last \in 1 .. Len(given)
  /\ b.tick_count = b.last - b.first + 1
  /\ \A k \in b.first .. b.last : given[k].symbol = b.symbol
  /\ bars_type = "Time" => given[b.last].time - b.start < BarThreshold
  /\ b.low * b.volume * ShareUnit <= b.dollar_volume
  /\ b.whole => b.dollar_volume <= b.high * b.volume * ShareUnit
  /\ b.low <= b.high

BarsFollow(all, given) ==
  /\ all \in Seq(Builder!Bar)
  /\ given \in Seq(Builder!Tick)
  /\ \A i \in DOMAIN all : OneBar(all[i], given)
  /\ \A i \in DOMAIN all : all[i].first = IF i = 1 THEN 1 ELSE all[i - 1].last + 1
  /\ all = <<>> => given = <<>>
  /\ all # <<>> => all[Len(all)].last = Len(given)

BarsInv ==
  /\ bars_type \in BarKinds /\ bars_now \in Nat /\ bars_has_state \in BOOLEAN
  /\ bars_bar \in Builder!Bar /\ bars_bars \in Seq(Builder!Bar)
  /\ BarsFollow(Builder!AllBars, bars_ticks)
  /\ bars_has_state /\ bars_type # "Time" /\ bars_bar.tick_count > 1 => ~Builder!IsComplete(bars_bar, bars_now)

\* Products with the price and the share.
LEMMA BarProducts ==
  ASSUME NEW a \in Nat, NEW b \in Nat, NEW c \in Nat
  PROVE  /\ a * b \in Nat /\ (a + b) * c = a * c + b * c /\ c * (a + b) = c * a + c * b
         /\ (a <= b => a * c <= b * c) /\ (a <= b => c * a <= c * b) /\ a * b * c = a * (b * c)
OBVIOUS

\* Two chains of numbers add up.
LEMMA ChainsAdd ==
  ASSUME NEW a \in Int, NEW b \in Int, NEW c \in Int, NEW x \in Int, NEW y \in Int, NEW z \in Int,
         a <= b, b <= c, x <= y, y <= z
  PROVE  a + x <= c + z
OBVIOUS

\* The whole shares of a quantity.
LEMMA WholeShares ==
  ASSUME NEW q \in Nat, NEW u \in Nat \ {0}
  PROVE  /\ q \div u \in Nat /\ (q \div u) * u <= q
         /\ q % u = 0 => (q \div u) * u = q
<1>1. /\ q \div u \in Int /\ q % u \in 0 .. (u - 1)
      /\ q = u * (q \div u) + (q % u)
  OBVIOUS
<1>2. q \div u \in Nat
  OBVIOUS
<1>3. (q \div u) * u = u * (q \div u)
  BY <1>1
<1> QED  BY <1>1, <1>2, <1>3

\* What a tick is made of.
LEMMA TicksAre ==
  ASSUME Builder!BarAssumption, NEW t \in Builder!Tick
  PROVE  /\ t.price \in Nat /\ t.quantity \in Nat /\ t.time \in Nat /\ ShareUnit \in Nat \ {0} /\ BarThreshold \in Nat \ {0}
         /\ LET v == Builder!Volume(t.quantity) IN
              /\ v \in Nat /\ t.price * v * ShareUnit <= t.price * t.quantity
              /\ t.quantity % ShareUnit = 0 => t.price * v * ShareUnit = t.price * t.quantity
<1> DEFINE v == Builder!Volume(t.quantity)
           p == t.price
           q == t.quantity
<1>1. p \in Nat /\ q \in Nat /\ t.time \in Nat /\ ShareUnit \in Nat \ {0} /\ BarThreshold \in Nat \ {0}
  BY DEF Builder!BarAssumption, Builder!Tick
<1>2. v \in Nat /\ v * ShareUnit <= q /\ (q % ShareUnit = 0 => v * ShareUnit = q)
  BY <1>1, WholeShares DEF Builder!Volume
<1> HIDE DEF v, p, q
<1>3. p * v * ShareUnit = p * (v * ShareUnit) /\ v * ShareUnit \in Nat
  BY <1>1, <1>2, BarProducts
<1>4. p * (v * ShareUnit) <= p * q
  BY <1>1, <1>2, <1>3, BarProducts
<1> QED  BY <1>1, <1>2, <1>3, <1>4 DEF p, q, v

\* The first tick of a bar
LEMMA BarBegins ==
  ASSUME Builder!BarAssumption, NEW t \in Builder!Tick, bars_ticks \in Seq(Builder!Tick)
  PROVE  /\ Builder!BarOf(t) \in Builder!Bar
         /\ OneBar(Builder!BarOf(t), Append(bars_ticks, t))
         /\ Builder!BarOf(t).first = Len(bars_ticks) + 1 /\ Builder!BarOf(t).last = Len(bars_ticks) + 1
         /\ Builder!BarOf(t).tick_count = 1
<1> DEFINE b == Builder!BarOf(t)
           n == Len(bars_ticks)
           v == Builder!Volume(t.quantity)
<1>1. /\ t.price \in Nat /\ t.quantity \in Nat /\ t.time \in Nat /\ BarThreshold \in Nat \ {0} /\ v \in Nat
      /\ t.price * v * ShareUnit <= t.price * t.quantity
      /\ t.quantity % ShareUnit = 0 => t.price * v * ShareUnit = t.price * t.quantity
      /\ t.price * t.quantity \in Nat /\ t.symbol \in TickSymbols
  BY TicksAre, BarProducts DEF Builder!Tick
<1>2. /\ b.symbol = t.symbol /\ b.start = t.time /\ b.high = t.price /\ b.low = t.price /\ b.volume = v
      /\ b.tick_count = 1 /\ b.dollar_volume = t.price * t.quantity /\ b.first = n + 1 /\ b.last = n + 1
      /\ b.whole = (t.quantity % ShareUnit = 0) /\ b.whole \in BOOLEAN
  BY DEF Builder!BarOf
<1>3. b \in Builder!Bar
  BY <1>1, <1>2 DEF Builder!BarOf, Builder!Bar
<1>4. Len(Append(bars_ticks, t)) = n + 1 /\ Append(bars_ticks, t)[n + 1] = t /\ n \in Nat
  OBVIOUS
<1> HIDE DEF b, n, v
<1>5. OneBar(b, Append(bars_ticks, t))
  <2>1. b.first \in 1 .. b.last /\ b.last \in 1 .. n + 1 /\ b.tick_count = b.last - b.first + 1
    BY <1>2, <1>4
  <2>2. \A k \in b.first .. b.last : k = n + 1
    BY <1>2, <1>4
  <2>3. t.time - b.start < BarThreshold
    BY <1>1, <1>2
  <2>4. b.low * b.volume * ShareUnit <= b.dollar_volume
    BY <1>1, <1>2
  <2>5. b.whole => b.dollar_volume <= b.high * b.volume * ShareUnit
    BY <1>1, <1>2
  <2>6. b.low <= b.high
    BY <1>1, <1>2
  <2> QED  BY <1>2, <1>4, <2>1, <2>2, <2>3, <2>4, <2>5, <2>6 DEF OneBar
<1> QED  BY <1>2, <1>3, <1>5 DEF b, n

\* and another one.
LEMMA BarGoesOn ==
  ASSUME Builder!BarAssumption, NEW t \in Builder!Tick, bars_ticks \in Seq(Builder!Tick), bars_bar \in Builder!Bar,
         OneBar(bars_bar, bars_ticks), bars_bar.last = Len(bars_ticks), t.symbol = bars_bar.symbol,
         bars_type = "Time" => t.time - bars_bar.start < BarThreshold
  PROVE  /\ Builder!Updated(t) \in Builder!Bar
         /\ OneBar(Builder!Updated(t), Append(bars_ticks, t))
         /\ Builder!Updated(t).first = bars_bar.first /\ Builder!Updated(t).last = Len(bars_ticks) + 1
<1> DEFINE b == Builder!Updated(t)
           n == Len(bars_ticks)
           v == Builder!Volume(t.quantity)
           p == t.price
           low == IF p < bars_bar.low THEN p ELSE bars_bar.low
           high == IF p > bars_bar.high THEN p ELSE bars_bar.high
           sold == bars_bar.volume
           paid == bars_bar.dollar_volume
           more == p * t.quantity
<1>1. /\ p \in Nat /\ t.quantity \in Nat /\ t.time \in Nat /\ BarThreshold \in Nat \ {0} /\ v \in Nat
      /\ ShareUnit \in Nat
      /\ p * v * ShareUnit <= more
      /\ t.quantity % ShareUnit = 0 => p * v * ShareUnit = more
      /\ more \in Nat
  BY TicksAre, BarProducts DEF Builder!Tick
<1>2. /\ bars_bar.symbol \in TickSymbols /\ bars_bar.start \in Nat /\ bars_bar.high \in Nat /\ bars_bar.low \in Nat
      /\ sold \in Nat /\ bars_bar.tick_count \in Nat /\ paid \in Nat /\ bars_bar.first \in Nat
      /\ bars_bar.last \in Nat /\ bars_bar.whole \in BOOLEAN
  BY DEF Builder!Bar
<1>3. low \in Nat /\ high \in Nat /\ low <= p /\ low <= bars_bar.low /\ p <= high /\ bars_bar.high <= high
  <2> DEFINE l == bars_bar.low
             h == bars_bar.high
  <2>1. p \in Nat /\ l \in Nat /\ h \in Nat
    BY <1>1, <1>2
  <2> HIDE DEF p, l, h
  <2>2. low \in Nat /\ high \in Nat /\ low <= p /\ low <= l /\ p <= high /\ h <= high
    BY <2>1 DEF l, h
  <2> QED  BY <2>2 DEF l, h
<1>4. /\ b.symbol = bars_bar.symbol /\ b.start = bars_bar.start /\ b.high = high /\ b.low = low
      /\ b.volume = sold + v /\ b.tick_count = bars_bar.tick_count + 1 /\ b.dollar_volume = paid + more
      /\ b.first = bars_bar.first /\ b.last = n + 1
      /\ b.whole = (bars_bar.whole /\ t.quantity % ShareUnit = 0)
  BY DEF Builder!Updated, Builder!Bar
<1>5. Len(Append(bars_ticks, t)) = n + 1 /\ Append(bars_ticks, t)[n + 1] = t /\ n \in Nat
      /\ \A k \in 1 .. n : Append(bars_ticks, t)[k] = bars_ticks[k]
  OBVIOUS
<1>6. b \in Builder!Bar
  <2> DEFINE w == bars_bar.whole /\ t.quantity % ShareUnit = 0
  <2>1. b = [bars_bar EXCEPT !.high = high, !.low = low, !.volume = sold + v,
                             !.tick_count = bars_bar.tick_count + 1, !.dollar_volume = paid + more,
                             !.last = n + 1, !.whole = w]
    BY DEF Builder!Updated, Builder!Bar
  <2>2. w \in BOOLEAN
    OBVIOUS
  <2> HIDE DEF b, n, v, p, low, high, sold, paid, more, w
  <2>3. sold + v \in Nat /\ bars_bar.tick_count + 1 \in Nat /\ paid + more \in Nat /\ n + 1 \in Nat
    BY <1>1, <1>2, <1>5
  <2>4. low \in Nat /\ high \in Nat
    BY <1>3
  <2> DEFINE x == sold + v
             c == bars_bar.tick_count + 1
             d == paid + more
             e == n + 1
  <2> HIDE DEF x, c, d, e
  <2>5. x \in Nat /\ c \in Nat /\ d \in Nat /\ e \in Nat
    BY <2>3 DEF x, c, d, e
  <2>6. [bars_bar EXCEPT !.high = high, !.low = low, !.volume = x, !.tick_count = c,
                         !.dollar_volume = d, !.last = e, !.whole = w] \in Builder!Bar
    BY <2>2, <2>4, <2>5 DEF Builder!Bar
  <2> QED  BY <2>1, <2>6 DEF x, c, d, e
<1>7. /\ bars_bar.first \in 1 .. n /\ bars_bar.last = n /\ bars_bar.tick_count = n - bars_bar.first + 1
      /\ \A k \in bars_bar.first .. n : bars_ticks[k].symbol = bars_bar.symbol
      /\ bars_bar.low * sold * ShareUnit <= paid
      /\ bars_bar.whole => paid <= bars_bar.high * sold * ShareUnit
  BY DEF OneBar
<1> HIDE DEF b, n, v, p, low, high, sold, paid, more
<1>8. OneBar(b, Append(bars_ticks, t))
  <2>1. b.first \in 1 .. b.last /\ b.last \in 1 .. n + 1 /\ b.tick_count = b.last - b.first + 1
    <3> DEFINE f == bars_bar.first
               c == bars_bar.tick_count
    <3>1. f \in 1 .. n /\ n \in Nat /\ c = n - f + 1
      BY <1>5, <1>7
    <3>2. b.first = f /\ b.last = n + 1 /\ b.tick_count = c + 1
      BY <1>4
    <3> HIDE DEF f, c
    <3> QED  BY <3>1, <3>2
  <2>2. \A k \in b.first .. b.last : Append(bars_ticks, t)[k].symbol = b.symbol
    <3> SUFFICES ASSUME NEW k \in b.first .. b.last PROVE Append(bars_ticks, t)[k].symbol = b.symbol
      OBVIOUS
    <3>1. CASE k = n + 1
      BY <1>4, <1>5, <3>1
    <3>2. CASE k # n + 1
      <4>1. k \in bars_bar.first .. n /\ k \in 1 .. n
        BY <1>2, <1>4, <1>5, <1>7, <3>2
      <4> QED  BY <1>4, <1>5, <1>7, <4>1
    <3> QED  BY <3>1, <3>2
  <2>3. bars_type = "Time" => t.time - b.start < BarThreshold
    BY <1>4
  <2>4. /\ low * (sold + v) * ShareUnit = low * sold * ShareUnit + low * v * ShareUnit
        /\ high * (sold + v) * ShareUnit = high * sold * ShareUnit + high * v * ShareUnit
    <3>1. /\ low * (sold + v) = low * sold + low * v /\ low * sold \in Nat /\ low * v \in Nat
          /\ high * (sold + v) = high * sold + high * v /\ high * sold \in Nat /\ high * v \in Nat
      BY <1>1, <1>2, <1>3, BarProducts
    <3> QED  BY <1>1, <3>1, BarProducts
  <2>5. /\ low * sold * ShareUnit <= bars_bar.low * sold * ShareUnit
        /\ bars_bar.high * sold * ShareUnit <= high * sold * ShareUnit
        /\ low * sold * ShareUnit \in Nat /\ bars_bar.low * sold * ShareUnit \in Nat
        /\ high * sold * ShareUnit \in Nat /\ bars_bar.high * sold * ShareUnit \in Nat
    <3>1. /\ low * sold \in Nat /\ bars_bar.low * sold \in Nat /\ high * sold \in Nat /\ bars_bar.high * sold \in Nat
          /\ low * sold <= bars_bar.low * sold /\ bars_bar.high * sold <= high * sold
      BY <1>2, <1>3, BarProducts
    <3> QED  BY <1>1, <3>1, BarProducts
  <2>6. /\ low * v * ShareUnit <= p * v * ShareUnit /\ p * v * ShareUnit <= high * v * ShareUnit
        /\ low * v * ShareUnit \in Nat /\ p * v * ShareUnit \in Nat /\ high * v * ShareUnit \in Nat
    <3>1. /\ low * v \in Nat /\ p * v \in Nat /\ high * v \in Nat
          /\ low * v <= p * v /\ p * v <= high * v
      BY <1>1, <1>3, BarProducts
    <3> QED  BY <1>1, <3>1, BarProducts
  <2>7. b.low * b.volume * ShareUnit <= b.dollar_volume
    <3>1. low * sold * ShareUnit + low * v * ShareUnit <= paid + more
      <4> DEFINE a == low * sold * ShareUnit
                 c == bars_bar.low * sold * ShareUnit
                 x == low * v * ShareUnit
                 y == p * v * ShareUnit
      <4>1. a \in Int /\ c \in Int /\ x \in Int /\ y \in Int /\ paid \in Int /\ more \in Int
        BY <1>1, <1>2, <2>5, <2>6
      <4>2. a <= c /\ c <= paid /\ x <= y /\ y <= more
        BY <1>1, <1>7, <2>5, <2>6
      <4> HIDE DEF a, c, x, y
      <4>3. a + x <= paid + more
        BY <4>1, <4>2, ChainsAdd
      <4> QED  BY <4>3 DEF a, x
    <3> QED  BY <1>4, <2>4, <3>1
  <2>8. b.whole => b.dollar_volume <= b.high * b.volume * ShareUnit
    <3> SUFFICES ASSUME b.whole PROVE b.dollar_volume <= b.high * b.volume * ShareUnit
      OBVIOUS
    <3>1. bars_bar.whole /\ t.quantity % ShareUnit = 0
      BY <1>4
    <3>2. paid + more <= high * sold * ShareUnit + high * v * ShareUnit
      <4> DEFINE a == bars_bar.high * sold * ShareUnit
                 c == high * sold * ShareUnit
                 x == p * v * ShareUnit
                 y == high * v * ShareUnit
      <4>1. a \in Int /\ c \in Int /\ x \in Int /\ y \in Int /\ paid \in Int /\ more \in Int
        BY <1>1, <1>2, <2>5, <2>6
      <4>2. paid <= a /\ a <= c /\ more <= x /\ x <= y
        BY <1>1, <1>7, <2>5, <2>6, <3>1
      <4> HIDE DEF a, c, x, y
      <4>3. paid + more <= c + y
        BY <4>1, <4>2, ChainsAdd
      <4> QED  BY <4>3 DEF c, y
    <3> QED  BY <1>4, <2>4, <3>2
  <2>9. b.low <= b.high
    BY <1>1, <1>3, <1>4
  <2> QED  BY <1>4, <1>5, <2>1, <2>2, <2>3, <2>7, <2>8, <2>9 DEF OneBar
<1> QED  BY <1>4, <1>6, <1>8 DEF b, n

\* A bar stays one when another tick comes.
LEMMA BarsStay ==
  ASSUME NEW given \in Seq(Builder!Tick), NEW t \in Builder!Tick, NEW b \in Builder!Bar, OneBar(b, given)
  PROVE  OneBar(b, Append(given, t))
<1>1. /\ Len(Append(given, t)) = Len(given) + 1 /\ Len(given) \in Nat
      /\ \A k \in 1 .. Len(given) : Append(given, t)[k] = given[k]
  OBVIOUS
<1>2. b.first \in 1 .. b.last /\ b.last \in 1 .. Len(given)
  BY DEF OneBar
<1>3. b.last \in 1 .. Len(given) + 1 /\ \A k \in b.first .. b.last : k \in 1 .. Len(given)
  BY <1>1, <1>2
<1> QED  BY <1>1, <1>2, <1>3 DEF OneBar

\* A new bar comes after the others
LEMMA BarFollows ==
  ASSUME NEW all, NEW given, BarsFollow(all, given), NEW t \in Builder!Tick, NEW b \in Builder!Bar,
         OneBar(b, Append(given, t)), b.first = Len(given) + 1, b.last = Len(given) + 1
  PROVE  BarsFollow(Append(all, b), Append(given, t))
<1> DEFINE new == Append(all, b)
           n == Len(all)
<1>1. all \in Seq(Builder!Bar) /\ given \in Seq(Builder!Tick)
  BY DEF BarsFollow
<1>2. /\ new \in Seq(Builder!Bar) /\ Append(given, t) \in Seq(Builder!Tick)
      /\ Len(new) = n + 1 /\ n \in Nat /\ DOMAIN new = 1 .. n + 1 /\ DOMAIN all = 1 .. n
      /\ new[n + 1] = b /\ (\A i \in 1 .. n : new[i] = all[i]) /\ new # <<>>
      /\ Len(Append(given, t)) = Len(given) + 1
  BY <1>1
<1> HIDE DEF new, n
<1>3. ASSUME NEW i \in DOMAIN new
      PROVE  OneBar(new[i], Append(given, t)) /\ new[i].first = IF i = 1 THEN 1 ELSE new[i - 1].last + 1
  <2>1. CASE i = n + 1
    <3>1. CASE n = 0
      <4>1. given = <<>> /\ Len(given) = 0
        BY <3>1, <1>1 DEF BarsFollow, n
      <4> QED  BY <1>2, <2>1, <3>1, <4>1
    <3>2. CASE n # 0
      <4>1. i - 1 = n /\ n \in 1 .. n /\ i # 1
        BY <1>2, <2>1, <3>2
      <4>2. all[n].last = Len(given)
        BY <1>1, <3>2 DEF BarsFollow, n
      <4> QED  BY <1>2, <2>1, <4>1, <4>2
    <3> QED  BY <3>1, <3>2
  <2>2. CASE i \in 1 .. n
    <3>1. OneBar(all[i], given) /\ all[i] \in Builder!Bar
      BY <1>1, <1>2, <2>2, ElementOfSeq DEF BarsFollow
    <3>2. OneBar(all[i], Append(given, t))
      BY <1>1, <3>1, BarsStay
    <3>3. i # 1 => i - 1 \in 1 .. n
      BY <1>2, <2>2
    <3>4. all[i].first = IF i = 1 THEN 1 ELSE all[i - 1].last + 1
      BY <1>2, <2>2 DEF BarsFollow
    <3> QED  BY <1>2, <2>2, <3>2, <3>3, <3>4
  <2> QED  BY <1>2, <2>1, <2>2
<1>4. new[Len(new)].last = Len(Append(given, t))
  BY <1>2
<1> QED  BY <1>2, <1>3, <1>4 DEF BarsFollow, new

\* and the last one may grow.
LEMMA LastBarGrows ==
  ASSUME NEW done \in Seq(Builder!Bar), NEW last \in Builder!Bar, NEW given,
         BarsFollow(Append(done, last), given), NEW t \in Builder!Tick, NEW b \in Builder!Bar,
         OneBar(b, Append(given, t)), b.first = last.first, b.last = Len(given) + 1
  PROVE  BarsFollow(Append(done, b), Append(given, t))
<1> DEFINE new == Append(done, b)
           all == Append(done, last)
           n == Len(done)
<1>1. all \in Seq(Builder!Bar) /\ given \in Seq(Builder!Tick)
  BY DEF BarsFollow
<1>2. /\ new \in Seq(Builder!Bar) /\ Append(given, t) \in Seq(Builder!Tick)
      /\ Len(new) = n + 1 /\ n \in Nat /\ DOMAIN new = 1 .. n + 1 /\ DOMAIN all = 1 .. n + 1
      /\ new[n + 1] = b /\ all[n + 1] = last /\ (\A i \in 1 .. n : new[i] = all[i]) /\ new # <<>>
      /\ Len(Append(given, t)) = Len(given) + 1
  BY <1>1
<1> HIDE DEF new, n, all
<1>3. ASSUME NEW i \in DOMAIN new
      PROVE  OneBar(new[i], Append(given, t)) /\ new[i].first = IF i = 1 THEN 1 ELSE new[i - 1].last + 1
  <2>1. all[i].first = IF i = 1 THEN 1 ELSE all[i - 1].last + 1
    BY <1>2 DEF BarsFollow, all
  <2>2. i # 1 => i - 1 \in 1 .. n
    BY <1>2
  <2>3. new[i].first = all[i].first
    BY <1>2
  <2>4. OneBar(new[i], Append(given, t))
    <3>1. CASE i = n + 1
      BY <1>2, <3>1
    <3>2. CASE i # n + 1
      <4>1. i \in 1 .. n /\ OneBar(all[i], given) /\ all[i] \in Builder!Bar
        BY <1>1, <1>2, <3>2, ElementOfSeq DEF BarsFollow, all
      <4> QED  BY <1>1, <1>2, <4>1, BarsStay
    <3> QED  BY <3>1, <3>2
  <2> QED  BY <1>2, <2>1, <2>2, <2>3, <2>4
<1>4. new[Len(new)].last = Len(Append(given, t))
  BY <1>2
<1> QED  BY <1>2, <1>3, <1>4 DEF BarsFollow, new

\* Every step of the builder: a tick begins a bar after the others or continues the last one
LEMMA TickKeepsBars ==
  ASSUME Builder!BarAssumption, BarsInv, NEW t \in Builder!Tick, Builder!Process(t) PROVE BarsInv'
<1> DEFINE old == Builder!AllBars
           begun == Builder!BarOf(t)
           grown == Builder!Updated(t)
<1>1. /\ bars_type \in BarKinds /\ bars_now \in Nat /\ bars_has_state \in BOOLEAN
      /\ bars_bar \in Builder!Bar /\ bars_bars \in Seq(Builder!Bar) /\ bars_ticks \in Seq(Builder!Tick)
      /\ BarsFollow(old, bars_ticks)
  BY DEF BarsInv, BarsFollow
<1>2. bars_ticks' = Append(bars_ticks, t) /\ bars_now' = t.time /\ bars_type' = bars_type /\ bars_now' \in Nat
  BY TicksAre DEF Builder!Process
<1>3. /\ begun \in Builder!Bar /\ OneBar(begun, bars_ticks') /\ begun.tick_count = 1
      /\ begun.first = Len(bars_ticks) + 1 /\ begun.last = Len(bars_ticks) + 1
  BY <1>1, <1>2, BarBegins
<1>4. BarsFollow(Append(old, begun), bars_ticks')
  BY <1>1, <1>2, <1>3, BarFollows
<1>5. bars_has_state => old = Append(bars_bars, bars_bar) /\ OneBar(bars_bar, bars_ticks) /\ bars_bar.last = Len(bars_ticks)
  <2> SUFFICES ASSUME bars_has_state
               PROVE  old = Append(bars_bars, bars_bar) /\ OneBar(bars_bar, bars_ticks) /\ bars_bar.last = Len(bars_ticks)
    OBVIOUS
  <2>1. old = Append(bars_bars, bars_bar)
    BY DEF Builder!AllBars
  <2>2. old # <<>> /\ Len(old) \in DOMAIN old /\ old[Len(old)] = bars_bar
    BY <1>1, <2>1
  <2> QED  BY <1>1, <2>1, <2>2 DEF BarsFollow
<1>6. ASSUME bars_has_state, t.symbol = bars_bar.symbol, bars_type = "Time" => t.time - bars_bar.start < BarThreshold
      PROVE  grown \in Builder!Bar /\ BarsFollow(Append(bars_bars, grown), bars_ticks')
  <2>1. grown \in Builder!Bar /\ OneBar(grown, bars_ticks') /\ grown.first = bars_bar.first /\ grown.last = Len(bars_ticks) + 1
    BY <1>1, <1>2, <1>5, <1>6, BarGoesOn
  <2> HIDE DEF grown
  <2> QED  BY <1>1, <1>2, <1>5, <1>6, <2>1, LastBarGrows
<1> HIDE DEF begun, grown
<1>7. ASSUME Len(bars_ticks') \in Nat, NEW all, BarsFollow(all, bars_ticks'), Builder!AllBars' = all
      PROVE  BarsFollow(Builder!AllBars, bars_ticks)'
  <2>1. BarsFollow(all, bars_ticks)'
    BY <1>2, <1>7 DEF BarsFollow, OneBar
  <2> QED  BY <1>7, <2>1 DEF BarsFollow, OneBar
<1>8. Len(bars_ticks') \in Nat
  BY <1>1, <1>2
<1>9. CASE Builder!StartBar(t)
  <2>1. old = bars_bars /\ bars_bars' = bars_bars /\ bars_bar' = begun /\ bars_has_state'
    BY <1>9 DEF Builder!StartBar, Builder!AllBars, begun
  <2>2. Builder!AllBars' = Append(old, begun)
    BY <2>1 DEF Builder!AllBars
  <2>3. BarsFollow(Builder!AllBars, bars_ticks)' /\ ~(bars_bar'.tick_count > 1)
    <3>1. BarsFollow(Builder!AllBars, bars_ticks)'
      BY <1>4, <1>7, <1>8, <2>1, <2>2
    <3>2. bars_bar'.tick_count = 1
      BY <1>3, <2>1, <2>2
    <3> QED  BY <3>1, <3>2
  <2>4. bars_has_state' \in BOOLEAN
    BY <1>9 DEF Builder!StartBar
  <2> QED  BY <1>1, <1>2, <1>3, <2>1, <2>3, <2>4 DEF BarsInv
<1>10. CASE Builder!ChangeSymbol(t)
  <2>1. bars_has_state /\ bars_bars' = old /\ bars_bar' = begun /\ bars_has_state' = bars_has_state
    BY <1>5, <1>10 DEF Builder!ChangeSymbol, Builder!Complete, begun
  <2>2. Builder!AllBars' = Append(old, begun) /\ old \in Seq(Builder!Bar)
    BY <1>1, <2>1 DEF Builder!AllBars, BarsFollow
  <2>3. BarsFollow(Builder!AllBars, bars_ticks)' /\ ~(bars_bar'.tick_count > 1)
    <3>1. BarsFollow(Builder!AllBars, bars_ticks)'
      BY <1>4, <1>7, <1>8, <2>1, <2>2
    <3>2. bars_bar'.tick_count = 1
      BY <1>3, <2>1, <2>2
    <3> QED  BY <3>1, <3>2
  <2> QED  BY <1>1, <1>2, <1>3, <2>1, <2>2, <2>3 DEF BarsInv
<1>11. CASE Builder!ContinueTimeBar(t)
  <2>1. CASE Builder!IsComplete(bars_bar, t.time)
    <3>1. bars_has_state /\ bars_bars' = old /\ bars_bar' = begun /\ bars_has_state' = bars_has_state
      BY <1>5, <1>11, <2>1 DEF Builder!ContinueTimeBar, Builder!Complete, begun
    <3>2. Builder!AllBars' = Append(old, begun) /\ old \in Seq(Builder!Bar)
      BY <1>1, <3>1 DEF Builder!AllBars, BarsFollow
    <3>3. BarsFollow(Builder!AllBars, bars_ticks)' /\ ~(bars_bar'.tick_count > 1)
      <4>1. BarsFollow(Builder!AllBars, bars_ticks)'
        BY <1>4, <1>7, <1>8, <3>1, <3>2
      <4>2. bars_bar'.tick_count = 1
        BY <1>3, <3>1, <3>2
      <4> QED  BY <4>1, <4>2
    <3> QED  BY <1>1, <1>2, <1>3, <3>1, <3>2, <3>3 DEF BarsInv
  <2>2. CASE ~Builder!IsComplete(bars_bar, t.time)
    <3>1. /\ bars_has_state /\ bars_bars' = bars_bars /\ bars_bar' = grown /\ bars_has_state' = bars_has_state
          /\ t.symbol = bars_bar.symbol /\ bars_type = "Time"
      BY <1>11, <2>2 DEF Builder!ContinueTimeBar, grown
    <3>2. t.time - bars_bar.start < BarThreshold
      <4>1. ~(t.time - bars_bar.start >= BarThreshold)
        BY <2>2, <3>1 DEF Builder!IsComplete
      <4> QED  BY <1>1, <4>1, TicksAre DEF Builder!Bar
    <3>3. Builder!AllBars' = Append(bars_bars, grown)
      BY <3>1 DEF Builder!AllBars
    <3> QED  BY <1>1, <1>2, <1>6, <1>7, <1>8, <3>1, <3>2, <3>3 DEF BarsInv
  <2> QED  BY <2>1, <2>2
<1>12. CASE Builder!ContinueBar(t)
  <2>1. bars_has_state /\ t.symbol = bars_bar.symbol /\ bars_type # "Time"
    BY <1>12 DEF Builder!ContinueBar
  <2>2. grown \in Builder!Bar /\ BarsFollow(Append(bars_bars, grown), bars_ticks')
    BY <1>6, <2>1
  <2>3. CASE Builder!IsComplete(grown, t.time)
    <3>1. bars_bars' = Append(bars_bars, grown) /\ bars_has_state' = FALSE /\ bars_bar' = bars_bar
      BY <1>12, <2>3 DEF Builder!ContinueBar, Builder!Complete, Builder!StateAfter, grown
    <3>2. Builder!AllBars' = Append(bars_bars, grown) /\ bars_bars' \in Seq(Builder!Bar)
      BY <1>1, <2>2, <3>1 DEF Builder!AllBars
    <3> QED  BY <1>1, <1>2, <1>7, <1>8, <2>2, <3>1, <3>2 DEF BarsInv
  <2>4. CASE ~Builder!IsComplete(grown, t.time)
    <3>1. bars_bars' = bars_bars /\ bars_has_state' = bars_has_state /\ bars_bar' = grown
      BY <1>12, <2>4 DEF Builder!ContinueBar, grown
    <3>2. Builder!AllBars' = Append(bars_bars, grown)
      BY <2>1, <3>1 DEF Builder!AllBars
    <3>3. ~Builder!IsComplete(bars_bar, bars_now)'
      BY <1>2, <2>4, <3>1 DEF Builder!IsComplete
    <3> QED  BY <1>1, <1>2, <1>7, <1>8, <2>2, <3>1, <3>2, <3>3 DEF BarsInv
  <2> QED  BY <2>3, <2>4
<1> QED  BY <1>9, <1>10, <1>11, <1>12 DEF Builder!Process

\* or the bars are flushed;
LEMMA BarsAreKept ==
  ASSUME Builder!BarAssumption, BarsInv, Builder!Next \/ UNCHANGED barsVars PROVE BarsInv'
<1>1. CASE UNCHANGED barsVars
  <2>1. UNCHANGED <<bars_type, bars_has_state, bars_bar, bars_now, bars_bars, bars_ticks>>
    BY <1>1 DEF barsVars
  <2>2. Builder!AllBars' = Builder!AllBars
    BY <2>1 DEF Builder!AllBars
  <2>3. BarsFollow(Builder!AllBars, bars_ticks)'
    BY <2>1, <2>2 DEF BarsInv, BarsFollow, OneBar
  <2>4. Builder!IsComplete(bars_bar, bars_now)' <=> Builder!IsComplete(bars_bar, bars_now)
    BY <2>1 DEF Builder!IsComplete
  <2> QED  BY <2>1, <2>3, <2>4 DEF BarsInv
<1>2. CASE Builder!Flush
  <2>1. /\ bars_has_state /\ bars_bars' = Append(bars_bars, bars_bar) /\ bars_has_state' = FALSE
        /\ UNCHANGED <<bars_type, bars_bar, bars_now, bars_ticks>>
    BY <1>2 DEF Builder!Flush, Builder!Complete, Builder!StateAfter
  <2>2. Builder!AllBars' = Builder!AllBars
    BY <2>1 DEF Builder!AllBars
  <2>3. BarsFollow(Builder!AllBars, bars_ticks)'
    BY <2>1, <2>2 DEF BarsInv, BarsFollow, OneBar
  <2>4. bars_bars' \in Seq(Builder!Bar)
    BY <2>1 DEF BarsInv
  <2> QED  BY <2>1, <2>3, <2>4 DEF BarsInv
<1>3. ASSUME NEW s \in TickSymbols, NEW p \in TickPrices, NEW q \in TickQuantities, NEW step \in TickSteps,
             Builder!Process([symbol |-> s, time |-> bars_now + step, price |-> p, quantity |-> q])
      PROVE  BarsInv'
  <2>1. step \in Nat /\ bars_now \in Nat
    BY DEF BarsInv, Builder!BarAssumption
  <2>2. [symbol |-> s, time |-> bars_now + step, price |-> p, quantity |-> q] \in Builder!Tick
    BY <2>1 DEF Builder!Tick
  <2> QED  BY <1>3, <2>2, TickKeepsBars
<1> QED  BY <1>1, <1>2, <1>3 DEF Builder!Next

\* and it begins without any.
LEMMA BarsBegin ==
  ASSUME Builder!BarAssumption, Builder!Init PROVE BarsInv
<1>1. /\ bars_type \in BarKinds /\ bars_now = 0 /\ bars_has_state = FALSE /\ bars_bars = <<>> /\ bars_ticks = <<>>
      /\ bars_bar \in Builder!Bar
  <2>1. (CHOOSE s \in TickSymbols : TRUE) \in TickSymbols
    BY DEF Builder!BarAssumption
  <2> QED  BY <2>1 DEF Builder!Init, Builder!Bar
<1>2. Builder!AllBars = <<>>
  BY <1>1 DEF Builder!AllBars
<1>3. BarsFollow(<<>>, <<>>)
  BY DEF BarsFollow
<1>4. bars_has_state \in BOOLEAN /\ ~bars_has_state
  BY <1>1
<1>5. bars_now \in Nat /\ bars_bars \in Seq(Builder!Bar)
  BY <1>1
<1>6. BarsFollow(Builder!AllBars, bars_ticks)
  BY <1>1, <1>2, <1>3
<1> QED  BY <1>1, <1>4, <1>5, <1>6 DEF BarsInv

\* What the invariant says of the properties.
LEMMA BarsHold ==
  ASSUME Builder!BarAssumption, BarsInv PROVE TicksArePartitioned /\ BarsCloseInTime /\ VwapIsAPrice
<1>1. BarsFollow(Builder!AllBars, bars_ticks)
  BY DEF BarsInv
<1>2. Builder!TicksArePartitioned
  BY <1>1 DEF BarsFollow, OneBar, Builder!TicksArePartitioned
<1>3. Builder!VwapIsAPrice
  BY <1>1 DEF BarsFollow, OneBar, Builder!VwapIsAPrice
<1>4. Builder!BarsCloseInTime
  <2> SUFFICES ASSUME NEW i \in DOMAIN Builder!AllBars
               PROVE  LET b == Builder!AllBars[i] IN
                        IF bars_type = "Time" THEN bars_ticks[b.last].time - b.start < BarThreshold
                        ELSE (bars_has_state /\ i = Len(Builder!AllBars) /\ b.tick_count > 1)
                               => ~Builder!IsComplete(b, bars_now)
    BY DEF Builder!BarsCloseInTime
  <2>1. CASE bars_type = "Time"
    BY <1>1, <2>1 DEF BarsFollow, OneBar
  <2>2. CASE bars_type # "Time"
    <3>1. bars_has_state => Builder!AllBars[Len(Builder!AllBars)] = bars_bar
      BY DEF BarsInv, Builder!AllBars
    <3> QED  BY <2>2, <3>1 DEF BarsInv
  <2> QED  BY <2>1, <2>2
<1> QED  BY <1>2, <1>3, <1>4 DEF TicksArePartitioned, BarsCloseInTime, VwapIsAPrice

\* Every step of the components keeps the streams and the bars.
LEMMA StreamSteps ==
  ASSUME Merge!StreamsAssumption, Builder!BarAssumption, MergeInv /\ BarsInv, [PartsNext]_allVars
  PROVE  (MergeInv /\ BarsInv)'
<1>1. Merge!Next \/ UNCHANGED mergeVars
  BY DEF PartsNext, Still, allVars
<1>2. Builder!Next \/ UNCHANGED barsVars
  BY DEF PartsNext, Still, allVars
<1> QED  BY <1>1, <1>2, MergeIsKept, BarsAreKept

\* Whatever the streams, the ticks, the kinds of bars and their thresholds are: the
\* merged stream is in order and complete, every tick is in one bar, no bar is longer
\* than configured, and its average price is not below its low and, of whole shares,
\* not above its high.
THEOREM StreamsStayWhole == PartsSpec => []StreamsAreWhole
<1>1. Merge!StreamsAssumption /\ Builder!BarAssumption
  BY PartsAssumption
<1>2. PartsInit => MergeInv /\ BarsInv
  BY <1>1, MergeBegins, BarsBegin DEF PartsInit, Merge!Init
<1>3. MergeInv /\ BarsInv /\ [PartsNext]_allVars => (MergeInv /\ BarsInv)'
  BY <1>1, StreamSteps
<1>4. MergeInv /\ BarsInv => StreamsAreWhole
  BY <1>1, MergeHolds, BarsHold DEF StreamsAreWhole
<1> QED  BY <1>2, <1>3, <1>4, PTL DEF PartsSpec

-----------------------------------------------------------------------------
(* The components together.  Each takes its steps or stands still, so what *)
(* holds of it alone holds of the whole.                                   *)

LEMMA RingRuns == PartsSpec => Ring!Spec
<1>1. PartsInit => Ring!Init
  BY DEF PartsInit
<1>2. [PartsNext]_allVars => [Ring!Next]_(Ring!vars)
  BY DEF PartsNext, Still, allVars, ringVars, Ring!vars, Ring!producer, Ring!consumer
<1>. QED BY <1>1, <1>2, PTL DEF PartsSpec, Ring!Spec

LEMMA PoolRuns == PartsSpec => Pool!Spec
<1>1. PartsInit => Pool!Init
  BY DEF PartsInit
<1>2. [PartsNext]_allVars => [Pool!Next]_(Pool!vars)
  BY DEF PartsNext, Still, allVars, poolVars, Pool!vars
<1>. QED BY <1>1, <1>2, PTL DEF PartsSpec, Pool!Spec

LEMMA PluginsRuns == PartsSpec => Plugins!Spec
<1>1. PartsInit => Plugins!Init
  BY DEF PartsInit
<1>2. [PartsNext]_allVars => [Plugins!Next]_(Plugins!vars)
  BY DEF PartsNext, Still, allVars, pluginsVars, Plugins!vars
<1>. QED BY <1>1, <1>2, PTL DEF PartsSpec, Plugins!Spec

LEMMA ListRuns == PartsSpec => List!Spec
<1>1. PartsInit => List!Init
  BY DEF PartsInit
<1>2. [PartsNext]_allVars => [List!Next]_(List!vars)
  BY DEF PartsNext, Still, allVars, listVars, List!vars
<1>. QED BY <1>1, <1>2, PTL DEF PartsSpec, List!Spec

LEMMA StreamRuns == PartsSpec => Stream!Spec
<1>1. PartsInit => Stream!Init
  BY DEF PartsInit
<1>2. [PartsNext]_allVars => [Stream!Next]_(Stream!vars)
  BY DEF PartsNext, Still, allVars, streamVars, Stream!vars
<1>. QED BY <1>1, <1>2, PTL DEF PartsSpec, Stream!Spec

LEMMA UpdatesRuns == PartsSpec => Updates!Spec
<1>1. PartsInit => Updates!Init
  BY DEF PartsInit
<1>2. [PartsNext]_allVars => [Updates!Next]_(Updates!vars)
  BY DEF PartsNext, Still, allVars, feedVars, Updates!vars, Updates!engine, Updates!data, Updates!retry
<1>. QED BY <1>1, <1>2, PTL DEF PartsSpec, Updates!Spec

LEMMA IbRuns == PartsSpec => Ib!Spec
<1>1. PartsInit => Ib!Init
  BY DEF PartsInit
<1>2. [PartsNext]_allVars => [Ib!Next]_(Ib!vars)
  BY DEF PartsNext, Still, allVars, ibVars, Ib!vars, Ib!client, Ib!session, Ib!orders
<1>. QED BY <1>1, <1>2, PTL DEF PartsSpec, Ib!Spec

LEMMA JournalRuns == PartsSpec => Journal!Spec
<1>1. PartsInit => Journal!Init
  BY DEF PartsInit
<1>2. [PartsNext]_allVars => [Journal!Next]_(Journal!vars)
  BY DEF PartsNext, Still, allVars, journalVars, Journal!vars
<1>. QED BY <1>1, <1>2, PTL DEF PartsSpec, Journal!Spec

LEMMA MqRuns == PartsSpec => Mq!Spec
<1>1. PartsInit => Mq!Init
  BY DEF PartsInit
<1>2. [PartsNext]_allVars => [Mq!Next]_(Mq!vars)
  BY DEF PartsNext, Still, allVars, mqVars, Mq!vars, Mq!adapter, Mq!server
<1>. QED BY <1>1, <1>2, PTL DEF PartsSpec, Mq!Spec

LEMMA RouterRuns == PartsSpec => Router!Spec
<1>1. PartsInit => Router!Init
  BY DEF PartsInit
<1>2. [PartsNext]_allVars => [Router!Next]_(Router!vars)
  BY DEF PartsNext, Still, allVars, routerVars, Router!vars
<1>. QED BY <1>1, <1>2, PTL DEF PartsSpec, Router!Spec

LEMMA MappedRuns == PartsSpec => Mapped!Spec
<1>1. PartsInit => Mapped!Init
  BY DEF PartsInit
<1>2. [PartsNext]_allVars => [Mapped!Next]_(Mapped!vars)
  BY DEF PartsNext, Still, allVars, mappedVars, Mapped!vars
<1>. QED BY <1>1, <1>2, PTL DEF PartsSpec, Mapped!Spec

LEMMA RowsRuns == PartsSpec => Rows!Spec
<1>1. PartsInit => Rows!Init
  BY DEF PartsInit
<1>2. [PartsNext]_allVars => [Rows!Next]_(Rows!vars)
  BY DEF PartsNext, Still, allVars, rowsVars, Rows!vars
<1>. QED BY <1>1, <1>2, PTL DEF PartsSpec, Rows!Spec

LEMMA SplitsRuns == PartsSpec => Splits!Spec
<1>1. PartsInit => Splits!Init
  BY DEF PartsInit
<1>2. [PartsNext]_allVars => [Splits!Next]_(Splits!vars)
  BY DEF PartsNext, Still, allVars, splitsVars, Splits!vars
<1>. QED BY <1>1, <1>2, PTL DEF PartsSpec, Splits!Spec

\* No connection is used by two queries or lies in the pool while it is used,
\* total_ counts the pool, the connections in use or being made and those lost,
\* and nobody sleeps beside a free connection that was not announced, although
\* the notification comes after the lock was given back.
THEOREM PoolStaysSound == PartsSpec => []PoolIsSound
<1>1. Pool!PoolAssumption
  BY PartsAssumption
<1>2. Pool!ConnectionsAreOwned /\ Pool!FreeIsAnnounced => PoolIsSound
  BY DEF PoolIsSound, ConnectionsAreOwned, FreeIsAnnounced
<1>. QED BY <1>1, <1>2, PoolRuns, PoolConnectionsAreOwned, PoolFreeIsAnnounced, PTL

\* A factory that came with a library never outlives the mapping of its code, and
\* a library is mapped exactly as often as a record or a call needs it, with any
\* number of threads that load and unload.
THEOREM PluginsStayMapped == PartsSpec => []LibrariesAreKept
<1>1. Plugins!PluginAssumption
  BY PartsAssumption
<1>2. Plugins!FactoriesAreMapped /\ Plugins!LibrariesAreReleased => LibrariesAreKept
  BY DEF LibrariesAreKept, FactoriesAreMapped, LibrariesAreReleased
<1>. QED BY <1>1, <1>2, PluginsRuns, PluginFactoriesAreMapped, PluginLibrariesAreReleased, PTL

\* Producer and consumer of the ring are never in one slot, and a producer of the
\* list that was interrupted between exchange and link still finds the node it has
\* to link to, not freed meanwhile, for any number of slots, producers and nodes.
THEOREM QueuesStayApart == PartsSpec => []QueueSidesStayApart
<1>1. Ring!SpscAssumption /\ List!MpscAssumption
  BY PartsAssumption
<1>2. RingInv /\ ListInv => QueueSidesStayApart
  BY ListLinksAreKept DEF QueueSidesStayApart, SidesAreApart, LinksAreKept, RingInv
<1>. QED BY <1>1, <1>2, RingRuns, ListRuns, RingIsSafe, ListIsKept, PTL

\* Each queue implements the abstract one: the ring a queue of one value less than
\* it has slots, the list one in the order in which the producers took the tail,
\* whatever they have linked of it.
THEOREM QueuesStayQueues == PartsSpec => QueuesAreQueues
<1>1. Ring!SpscAssumption /\ List!MpscAssumption
  BY PartsAssumption
<1>2. PartsSpec => RingIsAQueue
  BY <1>1, RingRuns, RingImplementsQueue, PTL DEF RingIsAQueue
<1>3. PartsSpec => ListIsAQueue
  BY <1>1, ListRuns, ListImplementsQueue, PTL DEF ListIsAQueue
<1>. QED BY <1>2, <1>3, PTL DEF QueuesAreQueues

\* Between two attempts to reconnect the wait stays within its bounds, and on an
\* open connection the server sends what the feed believes it is subscribed to,
\* for any backoff and any symbols.
THEOREM FeedsStayServed == PartsSpec => []FeedsAreServed
<1>1. Updates!LiveFeedAssumption
  BY PartsAssumption
<1>2. LoopInv /\ FeedInv => FeedsAreServed
  BY DEF FeedsAreServed, BackoffIsBounded, ServedAsSubscribed, LoopInv, FeedInv
<1>. QED BY <1>1, <1>2, UpdatesRuns, StreamRuns, LoopIsKept, FeedIsServed, PTL

\* An adapter that is ready has a number for the next order, and no two orders have
\* one number, whichever threads submit them, unless one was placed between the two
\* answers of the gateway, for any number of threads, connections and orders.
THEOREM OrdersStayNumbered == PartsSpec => []OrdersAreNumbered
<1>1. Ib!SessionAssumption
  BY PartsAssumption
<1>2. SessionInv => OrdersAreNumbered
  BY SessionNumbersItsOrders DEF OrdersAreNumbered, ReadyIsNumbered, OrdersHaveOwnNumbers
<1>. QED BY <1>1, <1>2, IbRuns, SessionIsKept, PTL

\* Unless two threads were in append() at once or one was interrupted, the journal is
\* read without an error, and at any time what was reported as written is in the file
\* but for what a failure took, for any number of threads, events and failures.
THEOREM JournalStaysReadable == PartsSpec => []JournalIsReadable
<1>1. Journal!JournalAssumption
  BY PartsAssumption
<1>2. JournalInv => JournalIsReadable
  BY JournalHolds DEF JournalIsReadable, UndisturbedJournalIsRead, ReportedIsWritten
<1>. QED BY <1>1, <1>2, JournalRuns, JournalIsKept, PTL

\* An engine that reads the stream it writes to sees a message of its broker no more
\* than twice and one of another writer once, and is given every entry at most once and
\* in order, however often links break, for any messages and any COUNT.
THEOREM EntriesGoOnceRound == PartsSpec => []EntriesGoOnce
<1>1. Mq!QueueAssumption
  BY PartsAssumption
<1>2. RoundInv => EntriesGoOnce
  BY <1>1, EntriesGoRoundOnce DEF EntriesGoOnce, NoMessageGoesRound, EntriesAreHandedInOrder
<1>. QED BY <1>1, <1>2, MqRuns, RoundIsKept, PTL

\* The children of a finished plan add up to the order, and the minimum given to one
\* venue is taken from the last ones, for any weights, quantities and limits.
THEOREM SplitsStayExact == PartsSpec => []SplitIsExact
<1>1. Router!OrderRouterAssumption
  BY PartsAssumption
<1>2. PlanInv => SplitIsExact
  BY <1>1, PlansAreExact DEF SplitIsExact, ChildrenAddUp, SharesAreKept
<1>. QED BY <1>1, <1>2, RouterRuns, PlanIsKept, PTL

\* What get_bars() of mapped files answers, from its caches or not, while files are
\* written, after a crash or on a full disk, are all bars of the range of one version
\* of the symbol's file; without kept answers that is the version there is, and the
\* files kept open are those used last.
THEOREM AnswersStaySound == PartsSpec => []AnswersAreSound
<1>1. Mapped!FilesAssumption
  BY PartsAssumption
<1>2. MappedInv => AnswersAreSound
  BY MappedAnswersAreSound DEF AnswersAreSound, AnswersAreWhole, AnswersAreExact,
     UncachedAnswersAreCurrent, LastUsedStayOpen
<1>. QED  BY <1>1, <1>2, MappedIsKept, MappedRuns, PTL

\* What is made of data before it is used, for any rows, actions and configuration:
\* bars stay in order of time, one that was made up shows the price before it and
\* stands where no row was accepted, a filled file has no hole, and with on_gap = skip
\* nothing after a gap is left; an adjusted bar bears the name its symbol had at its
\* time, however the actions were added, and a new name leads back to its symbol.
THEOREM DataStaysSound == PartsSpec => []DataIsSound
<1>1. Rows!ValidationAssumption /\ Splits!ActionsAssumption
  BY PartsAssumption
<1>2. RowsInv /\ SplitsInv => DataIsSound
  BY <1>1, RowsAreSound, SplitsAreSound DEF DataIsSound, OutputIsInOrder, NoLookAhead,
     NoHoleIsLeft, SkippedGapEndsTheData, NamesFollowTime, AliasesResolve
<1>3. PartsSpec => []RowsInv
  BY <1>1, RowsAreKept, RowsRuns, PTL
<1>4. PartsSpec => []SplitsInv
  BY SplitsAreKept, SplitsRuns, PTL
<1>. QED  BY <1>2, <1>3, <1>4, PTL
=============================================================================
