---------------------------- MODULE EventBusProofs ----------------------------
(***************************************************************************)
(* Proofs about EventBus, for every set of messages, subscriptions, topics *)
(* and any number of restarts.                                             *)
(***************************************************************************)
EXTENDS EventBus, SequenceTheorems, TLAPS

(***************************************************************************)
(* The type invariant is not inductive: Take reads the front of the queue, *)
(* which is a message only if the queue is not empty.  That needs the      *)
(* answer of the wait's predicate to be still true when it is used, which  *)
(* needs running_ not to be set again under the dispatcher's feet, which   *)
(* needs the protocol of the owner: only stop() clears running_, and it    *)
(* returns after the thread is gone.                                       *)
(***************************************************************************)
\* Where the owner and the dispatcher are, relative to running_.
OwnerProtocol ==
  /\ running => owner = "idle" /\ dpc \notin {"none", "exited"}
  /\ owner = "idle" /\ ~running => dpc = "none"
  /\ owner = "drain" => dpc = "none"

\* The inductive invariant.
BusInv ==
  /\ TypeOK
  /\ OwnerProtocol
  /\ TakesOnlyWhatIsThere
  /\ SleepsOnlyWhenDrained

\* drain_pending() moves messages only, and leaves the queue empty only if there
\* was nothing to move.
LEMMA DrainedType ==
  ASSUME queue \in Seq(Messages), pending \in Seq(Messages)
  PROVE  /\ Drained \in Seq(Messages)
         /\ Drained # <<>> <=> queue # <<>> \/ pending # <<>>
BY ConcatEqualIffEmpty DEF Drained

\* A bus that was never started satisfies the invariant.
LEMMA BusInvInit == Init => BusInv
<1>. SUFFICES ASSUME Init PROVE BusInv
  OBVIOUS
<1>1. running \in BOOLEAN
  BY DEF Init
<1>2. TypeOK
  BY <1>1, BusAssumption DEF Init, TypeOK, DispatcherAt
<1>3. OwnerProtocol /\ TakesOnlyWhatIsThere /\ SleepsOnlyWhenDrained
  BY DEF Init, OwnerProtocol, TakesOnlyWhatIsThere, SleepsOnlyWhenDrained
<1>. QED  BY <1>2, <1>3 DEF BusInv

\* The invariant is inductive: one case for each step of a thread.
LEMMA BusInvNext == BusInv /\ [Next]_vars => BusInv'
<1> SUFFICES ASSUME BusInv, [Next]_vars
             PROVE  BusInv'
  OBVIOUS
<1>. USE DEF BusInv, TypeOK, DispatcherAt, OwnerProtocol, TakesOnlyWhatIsThere,
             SleepsOnlyWhenDrained, Backlog, sharedVars, dispatchVars, subVars,
             ownerVars
<1>1. ASSUME NEW m \in Messages, Push(m)
      PROVE  BusInv'
  <2>1. pending' \in Seq(Messages) /\ queue' = queue /\ pending' # <<>>
    BY <1>1 DEF Push
  <2>2. queue' \o pending' # <<>>
    BY <2>1, ConcatEqualIffEmpty
  <2>. QED  BY <1>1, <2>1, <2>2 DEF Push
<1>2. ASSUME NEW m \in Messages, NotifyOne(m)
      PROVE  BusInv'
  BY <1>2 DEF NotifyOne, Wake
<1>3. CASE LoopTest
  BY <1>3 DEF LoopTest
<1>4. CASE TestPredicate
  BY <1>4, DrainedType DEF TestPredicate, HasWork, Drained
<1>5. CASE Block
  BY <1>5 DEF Block
<1>6. CASE Take
  <2>1. CASE ~running /\ Drained = <<>>
    BY <1>6, <2>1 DEF Take
  <2>2. CASE ~(~running /\ Drained = <<>>)
    <3>1. Drained \in Seq(Messages)
      BY DrainedType
    <3>2. Drained # <<>>
      BY <1>6, <2>2 DEF Take, Drained
    <3>3. Head(Drained) \in Messages /\ Tail(Drained) \in Seq(Messages)
      BY <3>1, <3>2, HeadTailProperties, Zenon
    <3>4. /\ dpc = "take" /\ dpc' = "collect"
          /\ pending' = <<>>
          /\ queue' = Tail(Drained)
          /\ message' = {Head(Drained)}
          /\ UNCHANGED <<running, callbacks, delivered, done, subVars, calls, ownerVars>>
      BY <1>6, <2>2, Zenon DEF Take
    <3>5. queue' \in Seq(Messages) /\ message' \in SUBSET Messages
      BY <3>3, <3>4
    <3>. HIDE DEF Drained
    <3>. QED  BY <3>4, <3>5
  <2>. QED  BY <2>1, <2>2
<1>7. CASE Collect
  BY <1>7 DEF Collect
<1>8. CASE EndCalls
  BY <1>8 DEF EndCalls
<1>9. ASSUME NEW s \in Subscribers, Call(s)
      PROVE  BusInv'
  BY <1>9 DEF Call
<1>10. CASE SpuriousWakeup
  BY <1>10 DEF SpuriousWakeup
<1>11. ASSUME NEW s \in Subscribers, Subscribe(s)
       PROVE  BusInv'
  BY <1>11 DEF Subscribe
<1>12. ASSUME NEW s \in Subscribers, Unsubscribe(s)
       PROVE  BusInv'
  BY <1>12 DEF Unsubscribe
<1>13. CASE Start
  BY <1>13, BusAssumption DEF Start
<1>14. CASE Stop
  BY <1>14 DEF Stop
<1>15. CASE Stopping
  <2>1. CASE StopNotify
    BY <2>1 DEF StopNotify, Wake
  <2>2. CASE StopJoin
    BY <2>2 DEF StopJoin
  <2>3. CASE StopDrain
    BY <2>3, DrainedType DEF StopDrain
  <2>. QED  BY <1>15, <2>1, <2>2, <2>3 DEF Stopping
<1>16. CASE UNCHANGED vars
  BY <1>16 DEF vars
<1>. QED
  BY <1>1, <1>2, <1>3, <1>4, <1>5, <1>6, <1>7, <1>8, <1>9, <1>10, <1>11,
     <1>12, <1>13, <1>14, <1>15, <1>16 DEF Next, Dispatcher

\* Hence it holds in every reachable state.
LEMMA BusInvariant == Spec => []BusInv
BY BusInvInit, BusInvNext, PTL DEF Spec

\* Every variable keeps its type: the lists hold messages only, and the
\* threads are at places of the code.
THEOREM TypeCorrect == Spec => []TypeOK
<1>1. BusInv => TypeOK
  BY DEF BusInv
<1>. QED  BY <1>1, BusInvariant, PTL

\* dispatch_loop() never reads the front of an empty queue, although it does
\* not test for it.
THEOREM TakeIsSafe == Spec => []TakesOnlyWhatIsThere
<1>1. BusInv => TakesOnlyWhatIsThere
  BY DEF BusInv
<1>. QED  BY <1>1, BusInvariant, PTL

\* The dispatcher never sleeps while messages it drained wait for dispatch.
THEOREM SleepIsSafe == Spec => []SleepsOnlyWhenDrained
<1>1. BusInv => SleepsOnlyWhenDrained
  BY DEF BusInv
<1>. QED  BY <1>1, BusInvariant, PTL

\* Types, takes and sleeps together: the dispatcher is safe at each of its places.
THEOREM BusDispatcherIsSafe == Spec => []DispatcherIsSafe
<1>1. BusInv => DispatcherIsSafe
  BY DEF BusInv, DispatcherIsSafe
<1>. QED  BY <1>1, BusInvariant, PTL

\* After stop() has returned no callback runs before the next start().
THEOREM StoppedBusIsQuiet == Spec => QuietAfterStop
<1>1. BusInv /\ [Next]_vars =>
        [owner = "idle" /\ ~running => delivered' = delivered]_vars
  <2> SUFFICES ASSUME BusInv, Next, owner = "idle", ~running
               PROVE  delivered' = delivered
    BY DEF vars
  <2>1. dpc = "none"
    BY DEF BusInv, OwnerProtocol
  <2>. QED
    BY <2>1 DEF Next, Dispatcher, Push, NotifyOne, LoopTest, TestPredicate, Block,
       SpuriousWakeup, Take, Collect, Call, EndCalls, Subscribe, Unsubscribe, Start,
       Stop, Stopping, StopNotify, StopJoin, StopDrain, dispatchVars
<1>. QED  BY <1>1, BusInvariant, PTL DEF Spec, QuietAfterStop
-----------------------------------------------------------------------------
(***************************************************************************)
(* The refinement.  That no message is handed out twice needs every        *)
(* message to be in one place: not yet published, once in the backlog, in  *)
(* hand, or dispatched; and that a callback has not run for a message      *)
(* before its turn.                                                        *)
(***************************************************************************)
IsPublished(m) == calls[m] # "new"
IsDelivered(s, m) == <<s, m>> \in delivered

\* The message in hand is there from the take to the end of its callbacks.
HandInv ==
  /\ dpc \in {"collect", "call"} => \E m \in Messages : message = {m}
  /\ dpc \notin {"collect", "call"} => message = {}
  /\ dpc # "call" => callbacks = {}
  /\ \A m \in message : IsPublished(m)
  /\ \A m \in message, s \in Subscribers :
       IsDelivered(s, m) => dpc = "call" /\ s \notin callbacks

Distinct(s) == \A i, j \in DOMAIN s : s[i] = s[j] => i = j

\* The backlog holds what was published and not taken, each message once.
BacklogInv ==
  /\ Distinct(Backlog)
  /\ \A m \in SeqRange(Backlog) :
       IsPublished(m) /\ m \notin message /\ \A s \in Subscribers : ~IsDelivered(s, m)
  /\ \A m \in Messages, s \in Subscribers : IsDelivered(s, m) => IsPublished(m)

ChannelInv == BusInv /\ HandInv /\ BacklogInv

\* A message put between two lists is added to their elements.
LEMMA InsertedMessage ==
  ASSUME NEW q \in Seq(Messages), NEW p \in Seq(Messages), NEW m \in Messages,
         Distinct(q \o p), m \notin SeqRange(q \o p)
  PROVE  /\ Distinct(q \o (<<m>> \o p))
         /\ SeqRange(q \o (<<m>> \o p)) = SeqRange(q \o p) \cup {m}
<1>. DEFINE old == q \o p
            new == q \o (<<m>> \o p)
            n == Len(q)
            k == Len(p)
<1>1. n \in Nat /\ k \in Nat
  BY LenProperties
<1>2. /\ DOMAIN old = 1..(n + k)
      /\ \A i \in 1..(n + k) : old[i] = IF i <= n THEN q[i] ELSE p[i - n]
  BY ConcatProperties, LenProperties
<1>3. <<m>> \in Seq(Messages) /\ Len(<<m>>) = 1 /\ <<m>>[1] = m
  OBVIOUS
<1>4. /\ <<m>> \o p \in Seq(Messages) /\ Len(<<m>> \o p) = 1 + k
      /\ \A i \in 1..(1 + k) : (<<m>> \o p)[i] = IF i = 1 THEN m ELSE p[i - 1]
  <2>1. /\ <<m>> \o p \in Seq(Messages) /\ Len(<<m>> \o p) = 1 + k
        /\ \A i \in 1..(1 + k) : (<<m>> \o p)[i] = IF i <= 1 THEN <<m>>[i] ELSE p[i - 1]
    BY <1>3, ConcatProperties
  <2>2. \A i \in 1..(1 + k) : i <= 1 <=> i = 1
    BY <1>1
  <2>. QED BY <1>3, <2>1, <2>2
<1>5. /\ DOMAIN new = 1..(n + k + 1)
      /\ \A i \in 1..(n + k + 1) : new[i] = IF i <= n THEN q[i] ELSE (<<m>> \o p)[i - n]
  <2>1. /\ new \in Seq(Messages) /\ Len(new) = n + (1 + k)
        /\ \A i \in 1..(n + (1 + k)) : new[i] = IF i <= n THEN q[i] ELSE (<<m>> \o p)[i - n]
    BY <1>4, ConcatProperties
  <2>2. n + (1 + k) = n + k + 1
    BY <1>1
  <2>3. DOMAIN new = 1..Len(new)
    BY <2>1, LenProperties
  <2>. QED BY <2>1, <2>2, <2>3
<1>. HIDE DEF old, new, n, k
<1>6. \A i \in 1..(n + k + 1) :
         new[i] = IF i <= n THEN old[i] ELSE IF i = n + 1 THEN m ELSE old[i - 1]
  BY <1>1, <1>2, <1>4, <1>5
<1>7. \A i \in 1..(n + k) : old[i] = IF i <= n THEN new[i] ELSE new[i + 1]
  BY <1>1, <1>6
<1>8. \A i \in 1..(n + k) : old[i] # m
  BY <1>2 DEF SeqRange, old
<1>9. \A i, j \in 1..(n + k) : old[i] = old[j] => i = j
  BY <1>2 DEF Distinct, old
<1>10. \A i, j \in 1..(n + k + 1) : new[i] = new[j] => i = j
  BY <1>1, <1>6, <1>8, <1>9
<1>11. SeqRange(new) = SeqRange(old) \cup {m}
  <2>0. /\ \A i \in 1..(n + k) : old[i] \in SeqRange(old)
        /\ \A i \in 1..(n + k + 1) : new[i] \in SeqRange(new)
    <3>1. DOMAIN old = 1..(n + k) /\ DOMAIN new = 1..(n + k + 1)
      BY <1>2, <1>5
    <3>. QED BY <3>1, Zenon DEF SeqRange
  <2>1. ASSUME NEW i \in 1..(n + k + 1) PROVE new[i] \in SeqRange(old) \cup {m}
    BY <1>1, <1>6, <2>0
  <2>2. ASSUME NEW i \in 1..(n + k) PROVE old[i] \in SeqRange(new)
    BY <1>1, <1>7, <2>0
  <2>3. m \in SeqRange(new)
    <3>1. n + 1 \in 1..(n + k + 1) /\ ~(n + 1 <= n)
      BY <1>1
    <3>2. new[n + 1] = m
      BY <1>6, <3>1
    <3>. QED BY <1>5, <3>1, <3>2 DEF SeqRange
  <2>. QED BY <1>2, <1>5, <2>1, <2>2, <2>3 DEF SeqRange
<1>. QED BY <1>5, <1>10, <1>11 DEF Distinct, old, new

\* The front of a list without duplicates is not in its tail.
LEMMA TakenMessage ==
  ASSUME NEW s \in Seq(Messages), s # <<>>, Distinct(s)
  PROVE  /\ Distinct(Tail(s))
         /\ SeqRange(Tail(s)) = SeqRange(s) \ {Head(s)}
         /\ Head(s) \in SeqRange(s)
<1>1. Len(s) \in Nat \ {0} /\ DOMAIN s = 1..Len(s) /\ Head(s) = s[1]
  BY EmptySeq, LenProperties
<1>2. /\ DOMAIN Tail(s) = 1..(Len(s) - 1)
      /\ \A i \in 1..(Len(s) - 1) : Tail(s)[i] = s[i + 1]
  BY HeadTailProperties, LenProperties
<1>. DEFINE n == Len(s)
            t == Tail(s)
<1>. HIDE DEF n, t
<1>3. n \in Nat \ {0} /\ \A i, j \in 1..n : s[i] = s[j] => i = j
  BY <1>1 DEF Distinct, n
<1>4. DOMAIN t = 1..(n - 1) /\ \A i \in 1..(n - 1) : t[i] = s[i + 1]
  BY <1>2 DEF n, t
<1>5. Distinct(t)
  BY <1>3, <1>4 DEF Distinct
<1>6. ASSUME NEW i \in 1..(n - 1) PROVE t[i] \in {s[j] : j \in 1..n} \ {s[1]}
  BY <1>3, <1>4
<1>7. ASSUME NEW i \in 1..n, i # 1 PROVE s[i] \in {t[j] : j \in 1..(n - 1)}
  <2>1. i - 1 \in 1..(n - 1) /\ (i - 1) + 1 = i
    BY <1>3, <1>7
  <2>. QED BY <1>4, <2>1
<1>8. 1 \in 1..n
  BY <1>3
<1>. QED BY <1>1, <1>4, <1>5, <1>6, <1>7, <1>8, ZenonT(40) DEF SeqRange, n, t

\* A bus that was never started has nothing in hand and no backlog.
LEMMA ChannelInvInit == Init => ChannelInv
<1>. SUFFICES ASSUME Init PROVE ChannelInv
  OBVIOUS
<1>1. BusInv
  BY BusInvInit
<1>2. HandInv
  BY DEF Init, HandInv
<1>3. Backlog = <<>>
  BY DEF Init, Backlog
<1>4. BacklogInv
  BY <1>3 DEF Init, BacklogInv, Distinct, SeqRange, IsDelivered
<1>. QED BY <1>1, <1>2, <1>4 DEF ChannelInv

\* Steps that move no message.
LEMMA ChannelInvIdle ==
  ASSUME ChannelInv, UNCHANGED <<message, callbacks, delivered>>, Backlog' = Backlog,
         \A m \in Messages : IsPublished(m) <=> IsPublished(m)',
         \/ dpc' = dpc
         \/ {dpc, dpc'} \cap {"collect", "call"} = {}
  PROVE  HandInv' /\ BacklogInv'
<1>1. message \subseteq Messages /\ SeqRange(Backlog) \subseteq Messages
  <2>1. Backlog \in Seq(Messages)
    BY DrainedType DEF ChannelInv, BusInv, TypeOK, Backlog, Drained
  <2>. QED BY <2>1 DEF ChannelInv, BusInv, TypeOK, SeqRange
<1>2. HandInv'
  BY <1>1 DEF ChannelInv, HandInv, IsDelivered
<1>3. BacklogInv'
  BY <1>1 DEF ChannelInv, BacklogInv, IsDelivered
<1>. QED BY <1>2, <1>3

\* Each step keeps every message in one place.
LEMMA ChannelInvNext == ChannelInv /\ [Next]_vars => ChannelInv'
<1>. SUFFICES ASSUME ChannelInv, [Next]_vars
              PROVE  HandInv' /\ BacklogInv'
  BY BusInvNext DEF ChannelInv
<1>0. /\ queue \in Seq(Messages) /\ pending \in Seq(Messages)
      /\ Backlog \in Seq(Messages) /\ Backlog = Drained
      /\ SeqRange(Backlog) \subseteq Messages /\ message \subseteq Messages
      /\ calls \in [Messages -> {"new", "pushed", "returned"}]
      /\ OwnerProtocol /\ HandInv /\ BacklogInv
  <2>1. Backlog \in Seq(Messages)
    BY DrainedType DEF ChannelInv, BusInv, TypeOK, Backlog, Drained
  <2>. QED BY <2>1 DEF ChannelInv, BusInv, TypeOK, SeqRange, Backlog, Drained
<1>. DEFINE Stays == /\ UNCHANGED <<message, callbacks, delivered>> /\ Backlog' = Backlog
                     /\ \A m \in Messages : IsPublished(m) <=> IsPublished(m)'
                     /\ dpc' = dpc \/ {dpc, dpc'} \cap {"collect", "call"} = {}
<1>1. ASSUME NEW m \in Messages, Push(m)
      PROVE  HandInv' /\ BacklogInv'
  <2>1. /\ ~IsPublished(m) /\ Backlog' = queue \o (<<m>> \o pending)
        /\ \A x \in Messages : IsPublished(x)' <=> IsPublished(x) \/ x = m
        /\ UNCHANGED <<dpc, message, callbacks, delivered>>
    BY <1>0, <1>1 DEF Push, IsPublished, Backlog, dispatchVars
  <2>2. Distinct(Backlog) /\ m \notin SeqRange(Backlog) /\ m \notin message
    BY <1>0, <2>1 DEF BacklogInv, HandInv
  <2>3. Distinct(Backlog') /\ SeqRange(Backlog') = SeqRange(Backlog) \cup {m}
    <3>1. Distinct(queue \o pending) /\ m \notin SeqRange(queue \o pending)
      BY <2>2 DEF Backlog
    <3>2. /\ Distinct(queue \o (<<m>> \o pending))
          /\ SeqRange(queue \o (<<m>> \o pending)) = SeqRange(queue \o pending) \cup {m}
      BY <1>0, <3>1, InsertedMessage, SMTT(30)
    <3>3. Backlog = queue \o pending
      BY DEF Backlog
    <3>. QED BY <2>1, <3>2, <3>3, Zenon
  <2>4. \A s \in Subscribers : ~IsDelivered(s, m)
    BY <1>0, <2>1 DEF BacklogInv
  <2>5. BacklogInv'
    BY <1>0, <2>1, <2>2, <2>3, <2>4 DEF BacklogInv, IsDelivered
  <2>6. HandInv'
    BY <1>0, <2>1, <2>2 DEF HandInv, IsDelivered
  <2>. QED BY <2>5, <2>6
<1>2. ASSUME NEW m \in Messages, NotifyOne(m)
      PROVE  Stays
  BY <1>0, <1>2 DEF NotifyOne, Wake, IsPublished, Backlog, sharedVars, dispatchVars
<1>3. LoopTest \/ TestPredicate \/ Block \/ SpuriousWakeup => Stays
  BY DEF LoopTest, TestPredicate, Block, SpuriousWakeup, IsPublished, Backlog, sharedVars,
       dispatchVars
<1>4. CASE Take
  <2>1. CASE ~running /\ Drained = <<>>
    <3>1. queue = <<>> /\ pending = <<>>
      BY <1>0, <2>1, DrainedType
    <3>2. Stays
      BY <1>4, <2>1, <3>1 DEF Take, IsPublished, Backlog
    <3>. QED BY <3>2, ChannelInvIdle
  <2>2. CASE ~(~running /\ Drained = <<>>)
    <3>1. Drained # <<>>
      BY <1>4, <2>2 DEF Take, ChannelInv, BusInv, TakesOnlyWhatIsThere, Backlog, Drained
    <3>. HIDE DEF Drained
    <3>2. /\ dpc = "take" /\ dpc' = "collect" /\ pending' = <<>>
          /\ message' = {Head(Backlog)} /\ queue' = Tail(Backlog)
          /\ UNCHANGED <<callbacks, delivered, calls>>
      BY <1>0, <1>4, <2>2 DEF Take
    <3>3. Backlog' = Tail(Backlog)
      BY <1>0, <3>1, <3>2, HeadTailProperties, ConcatEmptySeq DEF Backlog
    <3>4. /\ Distinct(Backlog') /\ SeqRange(Backlog') = SeqRange(Backlog) \ {Head(Backlog)}
          /\ Head(Backlog) \in SeqRange(Backlog)
      BY <1>0, <3>1, <3>3, TakenMessage DEF BacklogInv
    <3>5. BacklogInv'
      BY <1>0, <3>2, <3>4 DEF BacklogInv, IsPublished, IsDelivered
    <3>6. callbacks = {}
      BY <1>0, <3>2 DEF HandInv
    <3>7. HandInv'
      BY <1>0, <3>2, <3>4, <3>6 DEF HandInv, BacklogInv, IsPublished, IsDelivered
    <3>. QED BY <3>5, <3>7
  <2>. QED BY <2>1, <2>2
<1>5. CASE Collect
  <2>1. /\ UNCHANGED <<message, delivered, calls>> /\ Backlog' = Backlog
        /\ dpc = "collect" /\ dpc' = "call"
    BY <1>5 DEF Collect, Backlog, sharedVars
  <2>2. BacklogInv'
    BY <1>0, <2>1 DEF BacklogInv, IsPublished, IsDelivered
  <2>3. HandInv'
    BY <1>0, <2>1 DEF HandInv, IsPublished, IsDelivered
  <2>. QED BY <2>2, <2>3
<1>6. CASE EndCalls
  <2>1. /\ UNCHANGED <<callbacks, delivered, calls>> /\ Backlog' = Backlog
        /\ callbacks = {} /\ message' = {} /\ dpc' = "loop"
    BY <1>6 DEF EndCalls, Backlog, sharedVars
  <2>2. BacklogInv'
    BY <1>0, <2>1 DEF BacklogInv, IsPublished, IsDelivered
  <2>3. HandInv'
    BY <1>0, <2>1 DEF HandInv
  <2>. QED BY <2>2, <2>3
<1>7. ASSUME NEW s \in Subscribers, Call(s)
      PROVE  HandInv' /\ BacklogInv'
  <2>1. /\ UNCHANGED <<message, calls, dpc>> /\ Backlog' = Backlog /\ dpc = "call"
        /\ callbacks' = callbacks \ {s} /\ s \in callbacks
        /\ delivered' = delivered \cup {<<s, m>> : m \in message}
    BY <1>7 DEF Call, Backlog, sharedVars
  <2>2. \A m \in Messages, x \in Subscribers :
           IsDelivered(x, m)' <=> IsDelivered(x, m) \/ (x = s /\ m \in message)
    BY <2>1 DEF IsDelivered
  <2>3. BacklogInv'
    BY <1>0, <2>1, <2>2 DEF BacklogInv, HandInv, IsPublished
  <2>4. HandInv'
    BY <1>0, <2>1, <2>2 DEF HandInv, IsPublished
  <2>. QED BY <2>3, <2>4
<1>8. ASSUME NEW s \in Subscribers, Subscribe(s) \/ Unsubscribe(s)
      PROVE  Stays
  BY <1>8 DEF Subscribe, Unsubscribe, IsPublished, Backlog, sharedVars, dispatchVars
<1>9. CASE Start \/ Stop \/ StopNotify \/ StopJoin
  <2>1. Start => dpc = "none"
    BY <1>0 DEF Start, OwnerProtocol
  <2>2. Stays
    BY <1>9, <2>1 DEF Start, Stop, StopNotify, StopJoin, Wake, IsPublished, Backlog,
         sharedVars, dispatchVars
  <2>. QED BY <2>2, ChannelInvIdle
<1>10. CASE StopDrain
  <2>1. Backlog' = Backlog
    BY <1>0, <1>10, ConcatEmptySeq DEF StopDrain, Backlog
  <2>2. Stays
    BY <1>10, <2>1 DEF StopDrain, IsPublished, dispatchVars
  <2>. QED BY <2>2, ChannelInvIdle
<1>11. UNCHANGED vars => Stays
  BY DEF vars, IsPublished, Backlog
<1>12. Stays => HandInv' /\ BacklogInv'
  BY ChannelInvIdle
<1>. HIDE DEF Stays
<1>. QED
  BY <1>1, <1>2, <1>3, <1>4, <1>5, <1>6, <1>7, <1>8, <1>9, <1>10, <1>11, <1>12
     DEF Next, Dispatcher, Stopping

\* Hence every message is in one place in every reachable state.
LEMMA ChannelInvariant == Spec => []ChannelInv
BY ChannelInvInit, ChannelInvNext, PTL DEF Spec

\* The channel starts empty.
LEMMA ChannelInit == Init => Channel!Init
<1>. SUFFICES ASSUME Init PROVE Channel!Init
  OBVIOUS
<1>1. Backlog = <<>>
  BY DEF Init, Backlog
<1>2. SeqRange(Backlog) = {}
  BY <1>1 DEF SeqRange
<1>. QED BY <1>2 DEF Init, Channel!Init, Published, Waiting, InHand

\* Every step of a thread is one of the channel's, or one it does not show: a
\* push sends, the snapshot hands out, a callback delivers and the end of the
\* callbacks finishes.
LEMMA ChannelNext == ChannelInv /\ ChannelInv' /\ [Next]_vars => [Channel!Next]_(Channel!vars)
<1>. SUFFICES ASSUME ChannelInv, ChannelInv', [Next]_vars
              PROVE  Channel!Next \/ UNCHANGED <<Published, Waiting, InHand, callbacks, delivered>>
  BY DEF Channel!vars
<1>0. /\ queue \in Seq(Messages) /\ pending \in Seq(Messages) /\ Backlog = Drained
      /\ calls \in [Messages -> {"new", "pushed", "returned"}]
      /\ HandInv /\ BacklogInv
  BY DEF ChannelInv, BusInv, TypeOK, Backlog, Drained
<1>1. ASSUME NEW m \in Messages, Push(m)
      PROVE  Channel!Send(m)
  <2>1. /\ m \notin Published /\ Published' = Published \cup {m}
        /\ Backlog' = queue \o (<<m>> \o pending)
        /\ UNCHANGED <<dpc, message, callbacks, delivered>>
    BY <1>0, <1>1 DEF Push, Published, Backlog, dispatchVars
  <2>2. Distinct(queue \o pending) /\ m \notin SeqRange(queue \o pending)
    BY <1>0, <2>1 DEF BacklogInv, Backlog, Published, IsPublished
  <2>3. SeqRange(queue \o (<<m>> \o pending)) = SeqRange(queue \o pending) \cup {m}
    BY <1>0, <2>2, InsertedMessage, SMTT(30)
  <2>4. SeqRange(Backlog') = SeqRange(Backlog) \cup {m}
    BY <2>1, <2>3 DEF Backlog
  <2>5. Waiting' = Waiting \cup {m} /\ InHand' = InHand
    BY <2>1, <2>4 DEF Waiting, InHand
  <2>. QED BY <2>1, <2>5 DEF Channel!Send
<1>2. CASE Take
  <2>1. CASE ~running /\ Drained = <<>>
    <3>1. queue = <<>> /\ pending = <<>>
      BY <1>0, <2>1, DrainedType
    <3>2. Backlog' = Backlog /\ dpc = "take" /\ dpc' = "exited"
          /\ UNCHANGED <<message, callbacks, delivered, calls>>
      BY <1>2, <2>1, <3>1 DEF Take, Backlog
    <3>. QED BY <3>2 DEF Published, Waiting, InHand
  <2>2. CASE ~(~running /\ Drained = <<>>)
    <3>1. Drained # <<>>
      BY <1>2, <2>2 DEF Take, ChannelInv, BusInv, TakesOnlyWhatIsThere, Backlog, Drained
    <3>2. Backlog \in Seq(Messages)
      BY <1>0, DrainedType
    <3>. HIDE DEF Drained
    <3>3. /\ dpc = "take" /\ dpc' = "collect" /\ pending' = <<>>
          /\ message' = {Head(Backlog)} /\ queue' = Tail(Backlog)
          /\ UNCHANGED <<callbacks, delivered, calls>>
      BY <1>0, <1>2, <2>2 DEF Take
    <3>4. Backlog' = Tail(Backlog)
      BY <1>0, <3>1, <3>2, <3>3, HeadTailProperties, ConcatEmptySeq DEF Backlog
    <3>5. SeqRange(Backlog') = SeqRange(Backlog) \ {Head(Backlog)}
          /\ Head(Backlog) \in SeqRange(Backlog)
      BY <1>0, <3>1, <3>2, <3>4, TakenMessage DEF BacklogInv
    <3>. QED BY <3>3, <3>5 DEF Published, Waiting, InHand
  <2>. QED BY <2>1, <2>2
<1>3. CASE Collect
  <2>1. /\ dpc = "collect" /\ dpc' = "call" /\ Backlog' = Backlog
        /\ callbacks' \in SUBSET Subscribers
        /\ UNCHANGED <<message, delivered, calls>>
    BY <1>3 DEF Collect, Backlog, sharedVars, ChannelInv, BusInv, TypeOK
  <2>2. PICK m \in Messages : message = {m}
    BY <1>0, <2>1 DEF HandInv
  <2>3. m \notin SeqRange(Backlog)
    BY <1>0, <2>2 DEF BacklogInv
  <2>4. /\ InHand = {} /\ m \in Waiting /\ Waiting' = Waiting \ {m} /\ InHand' = {m}
        /\ Published' = Published
    BY <2>1, <2>2, <2>3 DEF Waiting, InHand, Published
  <2>5. Channel!HandOut(m)
    BY <2>1, <2>4 DEF Channel!HandOut
  <2>. QED BY <2>5 DEF Channel!Next
<1>4. ASSUME NEW s \in Subscribers, Call(s)
      PROVE  Channel!Next
  <2>1. /\ dpc = "call" /\ s \in callbacks /\ callbacks' = callbacks \ {s}
        /\ delivered' = delivered \cup {<<s, m>> : m \in message} /\ Backlog' = Backlog
        /\ UNCHANGED <<dpc, message, calls>>
    BY <1>4 DEF Call, Backlog, sharedVars
  <2>2. PICK m \in Messages : message = {m}
    BY <1>0, <2>1 DEF HandInv
  <2>3. <<s, m>> \notin delivered /\ delivered' = delivered \cup {<<s, m>>}
    BY <1>0, <2>1, <2>2 DEF HandInv, IsDelivered
  <2>4. m \in InHand /\ UNCHANGED <<Published, Waiting, InHand>>
    BY <2>1, <2>2 DEF Published, Waiting, InHand
  <2>5. Channel!Deliver(s, m)
    BY <2>1, <2>3, <2>4 DEF Channel!Deliver
  <2>. QED BY <2>5 DEF Channel!Next
<1>5. CASE EndCalls
  <2>1. /\ dpc = "call" /\ dpc' = "loop" /\ callbacks = {} /\ Backlog' = Backlog
        /\ UNCHANGED <<callbacks, delivered, calls>>
    BY <1>5 DEF EndCalls, Backlog, sharedVars
  <2>2. InHand # {} /\ InHand' = {} /\ UNCHANGED <<Published, Waiting>>
    BY <1>0, <2>1 DEF HandInv, Published, Waiting, InHand
  <2>3. Channel!Finish
    BY <2>1, <2>2 DEF Channel!Finish
  <2>. QED BY <2>3 DEF Channel!Next
<1>. DEFINE Hidden == /\ UNCHANGED <<message, callbacks, delivered>> /\ Backlog' = Backlog
                      /\ Published' = Published
                      /\ dpc' = dpc \/ {dpc, dpc'} \cap {"collect", "call"} = {}
<1>6. ASSUME NEW m \in Messages, NotifyOne(m)
      PROVE  Hidden
  BY <1>0, <1>6 DEF NotifyOne, Wake, Published, Backlog, sharedVars, dispatchVars
<1>7. LoopTest \/ TestPredicate \/ Block \/ SpuriousWakeup => Hidden
  BY DEF LoopTest, TestPredicate, Block, SpuriousWakeup, Published, Backlog, sharedVars,
       dispatchVars
<1>8. ASSUME NEW s \in Subscribers, Subscribe(s) \/ Unsubscribe(s)
      PROVE  Hidden
  BY <1>8 DEF Subscribe, Unsubscribe, Published, Backlog, sharedVars, dispatchVars
<1>9. Start \/ Stop \/ StopNotify \/ StopJoin => Hidden
  <2>1. Start => dpc = "none"
    BY DEF Start, ChannelInv, BusInv, OwnerProtocol
  <2>. QED BY <2>1 DEF Start, Stop, StopNotify, StopJoin, Wake, Published, Backlog,
                sharedVars, dispatchVars
<1>10. StopDrain => Hidden
  BY <1>0, DrainedType, ConcatEmptySeq DEF StopDrain, Backlog, Published, dispatchVars
<1>11. UNCHANGED vars => Hidden
  BY DEF vars, Published, Backlog
<1>12. Hidden => UNCHANGED <<Published, Waiting, InHand, callbacks, delivered>>
  BY DEF Waiting, InHand
<1>. HIDE DEF Hidden
<1>. QED
  BY <1>1, <1>2, <1>3, <1>4, <1>5, <1>6, <1>7, <1>8, <1>9, <1>10, <1>11, <1>12
     DEF Next, Dispatcher, Stopping, Channel!Next

\* The bus with its threads, lists and condition variable does what the
\* channel does: it hands a message out once at most, and delivers it to each
\* subscriber of the snapshot once at most.
THEOREM BusImplementsChannel == Spec => ImplementsChannel
<1>1. ChannelInv /\ [Next]_vars => [Channel!Next]_(Channel!vars)
  BY ChannelInvNext, ChannelNext
<1>. QED BY <1>1, ChannelInit, ChannelInvariant, PTL DEF Spec, ImplementsChannel, Channel!Spec
=============================================================================
