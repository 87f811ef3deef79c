------------------------------ MODULE EventBus ------------------------------
(***************************************************************************)
(* The in-process event bus of live trading (src/live/event_bus.cpp).      *)
(*                                                                         *)
(* Three kinds of threads meet here.  A publishing thread pushes a node on *)
(* the lock-free list pending_ and then notifies the condition variable,   *)
(* without queue_mutex_.  The dispatcher waits on the condition variable,  *)
(* drains pending_ into queue_, takes one message and calls a snapshot of  *)
(* its subscribers.  The owner (LiveTradingEngine) starts and stops the    *)
(* bus.  queue_mutex_ is taken by the dispatcher and, after the join, by   *)
(* stop(): the two never contend, so the mutex is not a variable; that     *)
(* publish() does not take it is what the module is about.                 *)
(***************************************************************************)
EXTENDS Naturals, Sequences

CONSTANTS
  Messages,     \* the messages; each is published by one call of publish()
  Subscribers,  \* the subscription ids; each is returned by one subscribe()
  TopicOf,      \* the topic of each message and of each subscription
  MaxStarts     \* bound: how often the owner starts the bus

ASSUME BusAssumption ==
  /\ MaxStarts \in Nat
  /\ Messages \cap Subscribers = {}
  /\ DOMAIN TopicOf = Messages \cup Subscribers

VARIABLES
  running,      \* running_
  pending,      \* pending_, the head of the list first: the newest message
  queue,        \* queue_
  dpc,          \* where the dispatcher thread is
  message,      \* the dispatcher's local message, as a set of at most one
  callbacks,    \* the dispatcher's local snapshot: callbacks still to run
  subscribers,  \* the keys of subscribers_
  subscribed,   \* every subscription id handed out so far (next_id_)
  calls,        \* where each publish() call is
  owner,        \* where the owner's start()/stop() is
  starts,       \* how often the bus was started
  delivered,    \* history: <<subscription, message>> of the callbacks run
  done          \* history: messages whose dispatch is over

vars == <<running, pending, queue, dpc, message, callbacks, subscribers,
          subscribed, calls, owner, starts, delivered, done>>

sharedVars == <<running, pending, queue>>
dispatchVars == <<message, callbacks, delivered, done>>
subVars == <<subscribers, subscribed>>
ownerVars == <<owner, starts>>

SeqRange(s) == {s[i] : i \in DOMAIN s}

DispatcherAt ==
  {"none", "loop", "test", "block", "wait", "take", "collect", "call", "exited"}

Init ==
  /\ running = FALSE
  /\ pending = <<>>
  /\ queue = <<>>
  /\ dpc = "none"
  /\ message = {}
  /\ callbacks = {}
  /\ subscribers = {}
  /\ subscribed = {}
  /\ calls = [m \in Messages |-> "new"]
  /\ owner = "idle"
  /\ starts = 0
  /\ delivered = {}
  /\ done = {}
-----------------------------------------------------------------------------
(* publish(): the CAS that links the node, then the notification.          *)

Push(m) ==
  /\ calls[m] = "new"
  /\ pending' = <<m>> \o pending
  /\ calls' = [calls EXCEPT ![m] = "pushed"]
  /\ UNCHANGED <<running, queue, dpc, dispatchVars, subVars, ownerVars>>

\* Mutant: a wait that does not test its predicate again when woken.
WakeWithoutRetest == dpc' = IF dpc = "wait" THEN "take" ELSE dpc

\* A notification wakes the dispatcher only when it is asleep: the
\* condition variable remembers nothing.
Wake == dpc' = IF dpc = "wait" THEN "test" ELSE dpc

NotifyOne(m) ==
  /\ calls[m] = "pushed"
  /\ Wake
  /\ calls' = [calls EXCEPT ![m] = "returned"]
  /\ UNCHANGED <<sharedVars, dispatchVars, subVars, ownerVars>>
-----------------------------------------------------------------------------
(* dispatch_loop().                                                        *)

\* while (running_)
LoopTest ==
  /\ dpc = "loop"
  /\ dpc' = IF running THEN "test" ELSE "exited"
  /\ UNCHANGED <<sharedVars, dispatchVars, subVars, calls, ownerVars>>

\* Mutants: the predicate without one of its disjuncts.
HasWorkForgetsQueue == pending # <<>> \/ ~running
HasWorkForgetsStop == pending # <<>> \/ queue # <<>>

\* The predicate of queue_cv_.wait, evaluated under queue_mutex_.
HasWork == pending # <<>> \/ queue # <<>> \/ ~running

TestPredicate ==
  /\ dpc = "test"
  /\ dpc' = IF HasWork THEN "take" ELSE "block"
  /\ UNCHANGED <<sharedVars, dispatchVars, subVars, calls, ownerVars>>

\* Between the test and the sleep the dispatcher holds queue_mutex_, which
\* keeps out nobody: neither publish() nor stop() locks it to notify.
Block ==
  /\ dpc = "block"
  /\ dpc' = "wait"
  /\ UNCHANGED <<sharedVars, dispatchVars, subVars, calls, ownerVars>>

SpuriousWakeup ==
  /\ dpc = "wait"
  /\ dpc' = "test"
  /\ UNCHANGED <<sharedVars, dispatchVars, subVars, calls, ownerVars>>

\* Mutant: the list itself is pushed in place of the messages in it.
DrainedAsOne == queue \o <<pending>>

\* drain_pending(): the list is taken whole and pushed from its head on.
Drained == queue \o pending

\* Mutant: the front of the queue is copied and never popped.
TakeWithoutPop ==
  /\ dpc = "take"
  /\ pending' = <<>>
  /\ queue' = Drained
  /\ IF ~running /\ Drained = <<>>
       THEN dpc' = "exited" /\ UNCHANGED message
       ELSE dpc' = "collect" /\ message' = {Head(Drained)}
  /\ UNCHANGED <<running, callbacks, delivered, done, subVars, calls, ownerVars>>

Take ==
  /\ dpc = "take"
  /\ pending' = <<>>
  /\ IF ~running /\ Drained = <<>>
       THEN /\ dpc' = "exited"
            /\ UNCHANGED <<queue, message>>
       ELSE /\ dpc' = "collect"
            /\ message' = {Head(Drained)}
            /\ queue' = Tail(Drained)
  /\ UNCHANGED <<running, callbacks, delivered, done, subVars, calls, ownerVars>>

\* The snapshot under sub_mutex_.
Collect ==
  /\ dpc = "collect"
  /\ dpc' = "call"
  /\ callbacks' = {s \in subscribers : \E m \in message : TopicOf[s] = TopicOf[m]}
  /\ UNCHANGED <<sharedVars, message, delivered, done, subVars, calls, ownerVars>>

\* One callback; subscribers_ is a hash map, so any of them may come next.
Call(s) ==
  /\ dpc = "call"
  /\ s \in callbacks
  /\ callbacks' = callbacks \ {s}
  /\ delivered' = delivered \cup {<<s, m>> : m \in message}
  /\ UNCHANGED <<sharedVars, dpc, message, done, subVars, calls, ownerVars>>

EndCalls ==
  /\ dpc = "call"
  /\ callbacks = {}
  /\ dpc' = "loop"
  /\ done' = done \cup message
  /\ message' = {}
  /\ UNCHANGED <<sharedVars, callbacks, delivered, subVars, calls, ownerVars>>

Dispatcher ==
  \/ LoopTest \/ TestPredicate \/ Block \/ Take \/ Collect \/ EndCalls
  \/ \E s \in Subscribers : Call(s)
-----------------------------------------------------------------------------
(* subscribe() and unsubscribe(), each one critical section of sub_mutex_. *)

Subscribe(s) ==
  /\ s \notin subscribed
  /\ subscribed' = subscribed \cup {s}
  /\ subscribers' = subscribers \cup {s}
  /\ UNCHANGED <<sharedVars, dpc, dispatchVars, calls, ownerVars>>

Unsubscribe(s) ==
  /\ s \in subscribers
  /\ subscribers' = subscribers \ {s}
  /\ UNCHANGED <<sharedVars, dpc, dispatchVars, subscribed, calls, ownerVars>>
-----------------------------------------------------------------------------
(* start() and stop(), called by the one owner of the bus.                 *)

Start ==
  /\ owner = "idle"
  /\ ~running
  /\ starts < MaxStarts
  /\ starts' = starts + 1
  /\ running' = TRUE
  /\ dpc' = "loop"
  /\ UNCHANGED <<pending, queue, dispatchVars, subVars, calls, owner>>

Stop ==
  /\ owner = "idle"
  /\ running
  /\ running' = FALSE
  /\ owner' = "notify"
  /\ UNCHANGED <<pending, queue, dpc, dispatchVars, subVars, calls, starts>>

StopNotify ==
  /\ owner = "notify"
  /\ Wake
  /\ owner' = "join"
  /\ UNCHANGED <<sharedVars, dispatchVars, subVars, calls, starts>>

\* Mutant: the dispatcher is detached, not joined.
StopDetach ==
  /\ owner = "join"
  /\ owner' = "drain"
  /\ UNCHANGED <<sharedVars, dpc, dispatchVars, subVars, calls, starts>>

StopJoin ==
  /\ owner = "join"
  /\ dpc = "exited"
  /\ dpc' = "none"
  /\ owner' = "drain"
  /\ UNCHANGED <<sharedVars, dispatchVars, subVars, calls, starts>>

\* Mutant: pending_ is loaded, not exchanged with an empty list.
StopDrainKeepsList ==
  /\ owner = "drain"
  /\ queue' = Drained
  /\ owner' = "idle"
  /\ UNCHANGED <<running, pending, dpc, dispatchVars, subVars, calls, starts>>

StopDrain ==
  /\ owner = "drain"
  /\ queue' = Drained
  /\ pending' = <<>>
  /\ owner' = "idle"
  /\ UNCHANGED <<running, dpc, dispatchVars, subVars, calls, starts>>

Stopping == StopNotify \/ StopJoin \/ StopDrain
-----------------------------------------------------------------------------
Next ==
  \/ \E m \in Messages : Push(m) \/ NotifyOne(m)
  \/ Dispatcher
  \/ SpuriousWakeup
  \/ \E s \in Subscribers : Subscribe(s) \/ Unsubscribe(s)
  \/ Start \/ Stop \/ Stopping

\* A thread inside a call keeps running; nobody has to publish, to start or
\* to stop, and the library owes no spurious wakeup.
Fairness ==
  /\ WF_vars(Dispatcher)
  /\ WF_vars(Stopping)
  /\ \A m \in Messages : WF_vars(NotifyOne(m))

Spec == Init /\ [][Next]_vars

FairSpec == Spec /\ Fairness
-----------------------------------------------------------------------------
(* Properties.                                                             *)

Backlog == queue \o pending

\* The lists hold messages, the threads are at places of the code, and the
\* counters are in their bounds.
TypeOK ==
  /\ running \in BOOLEAN
  /\ pending \in Seq(Messages)
  /\ queue \in Seq(Messages)
  /\ dpc \in DispatcherAt
  /\ message \in SUBSET Messages
  /\ callbacks \in SUBSET Subscribers
  /\ subscribers \in SUBSET Subscribers
  /\ subscribed \in SUBSET Subscribers
  /\ calls \in [Messages -> {"new", "pushed", "returned"}]
  /\ owner \in {"idle", "notify", "join", "drain"}
  /\ starts \in 0..MaxStarts
  /\ delivered \in SUBSET (Subscribers \X Messages)
  /\ done \in SUBSET Messages

\* dispatch_loop() reads queue_.front() without looking whether the queue is
\* empty; the predicate it waited on, evaluated earlier, has to guarantee it.
TakesOnlyWhatIsThere ==
  dpc = "take" /\ running => Backlog # <<>>

\* The dispatcher never sleeps over messages it has already drained: a burst
\* taken in one drain is dispatched without a further notification.
SleepsOnlyWhenDrained ==
  dpc \in {"block", "wait"} => queue = <<>>

\* What the dispatcher relies on at each of its places: lists of messages, a front
\* wherever it reads one, and no sleep over drained messages.
DispatcherIsSafe ==
  /\ TypeOK
  /\ TakesOnlyWhatIsThere
  /\ SleepsOnlyWhenDrained

\* Once stop() has returned no callback runs until the bus is started again,
\* whatever was published or left in the queue meanwhile.
QuietAfterStop ==
  [][owner = "idle" /\ ~running => delivered' = delivered]_vars

\* The refinement mapping: a message is in hand from the moment its
\* subscribers are collected, in the inbox before that.
Published == {m \in Messages : calls[m] # "new"}
Waiting == SeqRange(Backlog) \cup (IF dpc = "collect" THEN message ELSE {})
InHand == IF dpc = "call" THEN message ELSE {}

Channel ==
  INSTANCE MessageChannel WITH
    sent      <- Published,
    inbox     <- Waiting,
    inHand    <- InHand,
    receivers <- callbacks

\* The bus with its threads, lock-free list and condition variable does what
\* the abstract channel does: at-most-once hand-out and delivery.
ImplementsChannel == Channel!Spec

\* A drained message is dispatched, unless the bus is stopped first.  It does
\* not depend on any later publish() to wake the dispatcher.
BacklogIsDispatched ==
  \A m \in Messages : m \in SeqRange(queue) ~> (m \in done \/ ~running)

\* stop() returns whenever its notification found the dispatcher anywhere but
\* between its predicate test and its sleep.
StopHeardReturns ==
  (owner = "join" /\ dpc \notin {"block", "wait"}) ~> (owner = "idle")

\* The bus goes on: neither a backlog nor a stop() that was heard waits for ever.
BusGoesOn ==
  /\ BacklogIsDispatched
  /\ StopHeardReturns

\* docs/explanation/live-resiliency.md:31 says that stop() wakes and joins the
\* dispatcher: a stop() that was called returns.
StopReturns ==
  (owner = "notify") ~> (owner = "idle")
=============================================================================
