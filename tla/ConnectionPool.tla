--------------------------- MODULE ConnectionPool ---------------------------
(***************************************************************************)
(* The pool of database connections (src/data/postgres_client.cpp) under   *)
(* the queries of several threads: execute_query() acquires a connection,  *)
(* runs the statement, hands the rows to a handler and releases it.  The   *)
(* server accepts a connection or refuses it; a handler parses columns and *)
(* may throw.                                                              *)
(***************************************************************************)
EXTENDS Integers, Sequences, FiniteSets

CONSTANTS
  Threads,
  Size,        \* size_
  MaxQueries   \* bound: queries of one thread

PoolAssumption == IsFiniteSet(Threads) /\ {Size, MaxQueries} \subseteq Nat

VARIABLES
  pool,     \* pool_
  total,    \* total_
  at,       \* where the query of each thread is
  held,     \* per thread, its connection, 0 for none
  opened,   \* external: how many connections the server accepted
  queries,  \* per thread, how many it has begun
  lost      \* history: slots of the pool that no connection comes back to

vars == <<pool, total, at, held, opened, queries, lost>>

Init ==
  /\ pool = <<>>
  /\ total = 0
  /\ at = [t \in Threads |-> "idle"]
  /\ held = [t \in Threads |-> 0]
  /\ opened = 0
  /\ queries = [t \in Threads |-> 0]
  /\ lost = 0
-----------------------------------------------------------------------------
(* acquire()                                                               *)

Take(t) ==
  /\ pool' = Tail(pool)
  /\ held' = [held EXCEPT ![t] = Head(pool)]
  /\ at' = [at EXCEPT ![t] = "using"]
  /\ UNCHANGED total

Acquire(t) ==
  /\ at[t] = "idle" /\ queries[t] < MaxQueries
  /\ queries' = [queries EXCEPT ![t] = @ + 1]
  /\ \/ pool # <<>> /\ Take(t)
     \/ /\ pool = <<>> /\ total < Size
        /\ total' = total + 1
        /\ at' = [at EXCEPT ![t] = "creating"]
        /\ UNCHANGED <<pool, held>>
     \/ /\ pool = <<>> /\ total >= Size
        /\ at' = [at EXCEPT ![t] = "waiting"]
        /\ UNCHANGED <<pool, total, held>>
  /\ UNCHANGED <<opened, lost>>

\* create_connection(), without the lock.  Its exception leaves total_ as it is.
Create(t) ==
  /\ at[t] = "creating"
  /\ \/ /\ opened' = opened + 1
        /\ held' = [held EXCEPT ![t] = opened + 1]
        /\ at' = [at EXCEPT ![t] = "using"]
        /\ UNCHANGED lost
     \/ /\ at' = [at EXCEPT ![t] = "idle"]
        /\ lost' = lost + 1
        /\ UNCHANGED <<opened, held>>
  /\ UNCHANGED <<pool, total, queries>>

\* Mutant: a wait that does not look again.
RetestOnce(t) ==
  /\ at[t] = "woken"
  /\ IF pool # <<>> THEN Take(t)
     ELSE at' = [at EXCEPT ![t] = "using"] /\ UNCHANGED <<pool, held, total>>
  /\ UNCHANGED <<opened, queries, lost>>

\* while (pool_.empty()), after a notification or without one.
Retest(t) ==
  /\ at[t] = "woken"
  /\ IF pool # <<>> THEN Take(t)
     ELSE at' = [at EXCEPT ![t] = "waiting"] /\ UNCHANGED <<pool, held, total>>
  /\ UNCHANGED <<opened, queries, lost>>

SpuriousWakeup(t) ==
  /\ at[t] = "waiting"
  /\ at' = [at EXCEPT ![t] = "woken"]
  /\ UNCHANGED <<pool, total, held, opened, queries, lost>>
-----------------------------------------------------------------------------
(* release() and the end of execute_query()                                *)

\* Mutant: only the connection that ends the emptiness of the pool is announced.
ReleaseToOthers(t) ==
  /\ at[t] = "using"
  /\ pool' = Append(pool, held[t])
  /\ held' = [held EXCEPT ![t] = 0]
  /\ at' = [at EXCEPT ![t] = IF pool = <<>> THEN "notifying" ELSE "idle"]
  /\ UNCHANGED <<total, opened, queries, lost>>

\* The statement failed or the handler has returned.
Release(t) ==
  /\ at[t] = "using"
  /\ pool' = Append(pool, held[t])
  /\ held' = [held EXCEPT ![t] = 0]
  /\ at' = [at EXCEPT ![t] = "notifying"]
  /\ UNCHANGED <<total, opened, queries, lost>>

\* notify_one(), after the lock is given back.
NotifyOne(t) ==
  /\ at[t] = "notifying"
  /\ LET asleep == {w \in Threads : at[w] = "waiting"} IN
       IF asleep = {} THEN at' = [at EXCEPT ![t] = "idle"]
       ELSE \E w \in asleep : at' = [at EXCEPT ![t] = "idle", ![w] = "woken"]
  /\ UNCHANGED <<pool, total, held, opened, queries, lost>>

\* The exception of a handler passes by the release.
HandlerThrows(t) ==
  /\ at[t] = "using"
  /\ held' = [held EXCEPT ![t] = 0]
  /\ at' = [at EXCEPT ![t] = "idle"]
  /\ lost' = lost + 1
  /\ UNCHANGED <<pool, total, opened, queries>>
-----------------------------------------------------------------------------
Step(t) == Create(t) \/ Retest(t) \/ Release(t) \/ NotifyOne(t)

Next == \E t \in Threads : Acquire(t) \/ Step(t) \/ HandlerThrows(t) \/ SpuriousWakeup(t)

\* A query that is under way goes on; nobody has to begin one.
Fairness == \A t \in Threads : WF_vars(Step(t))

Spec == Init /\ [][Next]_vars

FairSpec == Spec /\ Fairness
-----------------------------------------------------------------------------
(* Properties.                                                             *)

At(places) == {t \in Threads : at[t] \in places}

TypeOK ==
  /\ pool \in Seq(1 .. opened)
  /\ total \in 0 .. Size
  /\ at \in [Threads -> {"idle", "creating", "waiting", "woken", "using", "notifying"}]
  /\ held \in [Threads -> 0 .. opened]
  /\ opened \in Nat /\ lost \in Nat
  /\ queries \in [Threads -> 0 .. MaxQueries]

\* Two threads never run a statement on one connection, and total_ counts what is
\* in the pool, in use or being made, and what was lost for good: a connection that
\* could not be made or whose handler threw takes its slot with it.
ConnectionsAreOwned ==
  /\ \A t \in At({"using"}) : held[t] # 0
  /\ \A t, u \in At({"using"}) : held[t] = held[u] => t = u
  /\ \A i, j \in DOMAIN pool : pool[i] = pool[j] => i = j
  /\ \A t \in At({"using"}), i \in DOMAIN pool : held[t] # pool[i]
  /\ total = Len(pool) + Cardinality(At({"using", "creating"})) + lost

\* Nobody sleeps beside a connection that is free: for each there is a thread that
\* was woken or one that is about to wake, although they are announced after the
\* lock is given back and whoever comes first takes them.
FreeIsAnnounced ==
  At({"waiting"}) # {} => Len(pool) <= Cardinality(At({"woken", "notifying"}))

\* A query ends, as long as a slot of the pool is left.
QueryEnds(t) == (at[t] # "idle") ~> (at[t] = "idle" \/ lost = Size)

QueriesEnd == \A t \in Threads : QueryEnds(t)
=============================================================================
