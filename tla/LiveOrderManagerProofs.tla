------------------------ MODULE LiveOrderManagerProofs ------------------------
(***************************************************************************)
(* Proofs about LiveOrderManager, for every set of fingerprints, numbering *)
(* of the callers, broker and number of orders, reports and losses.        *)
(***************************************************************************)
EXTENDS LiveOrderManager, SumProofs

(***************************************************************************)
(* LiveInv is inductive.  It falls into what concerns the tables of the    *)
(* live order manager, which depends on the broker only through the set of *)
(* its orders, and what concerns the broker and its reports.               *)
(***************************************************************************)
LiveTables ==
  /\ nextId \in Nat \ {0}
  /\ DOMAIN orders \subseteq 1..(nextId - 1)
  /\ orders \in [DOMAIN orders -> OrderRecord]
  /\ recent \in SUBSET Keys
  /\ doing \in Doings
  /\ OneIdPerBrokerOrder
  /\ SubmissionIsNew
  /\ \A id \in DOMAIN orders : orders[id].number \in DOMAIN broker

BrokerTables ==
  /\ broker \in Seq(BrokerOrder)
  /\ wire \in Seq(Seq(ReportRecord)) /\ Len(wire) = Len(broker)
  /\ losses \in 0..MaxLost
  /\ missed \in Seq(Int) /\ Len(missed) = Len(broker)
  /\ fresh \in SUBSET DOMAIN broker
  /\ snapshot \in SUBSET ReportRecord
  /\ \A report \in snapshot : report.number \in DOMAIN broker

\* The two parts are all of the invariant.
LEMMA LiveInvParts == LiveInv <=> LiveTables /\ BrokerTables
BY DEF LiveInv, LiveTables, BrokerTables, TypeOK, KnownToBroker

\* The sequences about the broker have one domain.
LEMMA BrokerDomains ==
  ASSUME BrokerTables
  PROVE  /\ Len(broker) \in Nat
         /\ DOMAIN broker = 1..Len(broker)
         /\ DOMAIN wire = 1..Len(broker)
         /\ DOMAIN missed = 1..Len(broker)
BY LenProperties DEF BrokerTables

\* An order of the broker may change, and keep its number.
LEMMA BrokerOrderChanges ==
  ASSUME BrokerTables, NEW b \in DOMAIN broker, NEW order \in BrokerOrder,
         broker' = [broker EXCEPT ![b] = order]
  PROVE  /\ broker' \in Seq(BrokerOrder)
         /\ Len(broker') = Len(broker)
         /\ DOMAIN broker' = DOMAIN broker
<1>1. broker \in Seq(BrokerOrder) /\ b \in 1..Len(broker)
  BY BrokerDomains DEF BrokerTables
<1>2. broker' \in Seq(BrokerOrder) /\ Len(broker') = Len(broker)
  BY <1>1, ExceptSeq
<1>. QED BY <1>2

\* A report is put on its way.
LEMMA SendKeepsType ==
  ASSUME BrokerTables, NEW b \in DOMAIN broker, NEW status \in Statuses, NEW lots \in Nat,
         Send(b, status, lots)
  PROVE  wire' \in Seq(Seq(ReportRecord)) /\ Len(wire') = Len(wire)
<1>1. b \in 1..Len(wire) /\ b \in Nat \ {0}
  BY BrokerDomains DEF BrokerTables
<1>2. wire[b] \in Seq(ReportRecord)
  BY <1>1, ElementOfSeq DEF BrokerTables
<1>3. Report(b, status, lots) \in ReportRecord
  BY <1>1 DEF Report, ReportRecord
<1>4. Append(wire[b], Report(b, status, lots)) \in Seq(ReportRecord)
  BY <1>2, <1>3, AppendProperties
<1>5. wire' = [wire EXCEPT ![b] = Append(wire[b], Report(b, status, lots))]
  BY DEF Send
<1>. QED BY <1>1, <1>4, <1>5, ExceptSeq DEF BrokerTables

\* A report leaves its way, and its lots are noted as missed or not.
LEMMA ArrivalKeepsType ==
  ASSUME BrokerTables, NEW b \in DOMAIN broker, NEW i \in DOMAIN wire[b],
         wire' = [wire EXCEPT ![b] = RemoveAt(@, i)],
         missed' \in {[missed EXCEPT ![b] = @ + wire[b][i].lots],
                      [missed EXCEPT ![b] = @ + 0]}
  PROVE  /\ wire' \in Seq(Seq(ReportRecord)) /\ Len(wire') = Len(wire)
         /\ missed' \in Seq(Int) /\ Len(missed') = Len(missed)
         /\ wire[b][i] \in ReportRecord
<1>1. b \in 1..Len(wire) /\ b \in 1..Len(missed)
  BY BrokerDomains DEF BrokerTables
<1>2. wire[b] \in Seq(ReportRecord) /\ missed[b] \in Int
  BY <1>1, ElementOfSeq DEF BrokerTables
<1>3. Len(wire[b]) \in Nat /\ DOMAIN wire[b] = 1..Len(wire[b])
  BY <1>2, LenProperties
<1>4. i \in 1..Len(wire[b])
  BY <1>3
<1>5. wire[b][i] \in ReportRecord
  BY <1>2, <1>4, ElementOfSeq
<1>6. RemoveAt(wire[b], i) \in Seq(ReportRecord)
  <2>1. SubSeq(wire[b], 1, i - 1) \in Seq(ReportRecord)
    <3>1. \A j \in 1..(i - 1) : wire[b][j] \in ReportRecord
      BY <1>2, <1>3, <1>4, ElementOfSeq
    <3>. QED BY <3>1, <1>3, <1>4, SubSeqProperties
  <2>2. SubSeq(wire[b], i + 1, Len(wire[b])) \in Seq(ReportRecord)
    <3>1. \A j \in (i + 1)..Len(wire[b]) : wire[b][j] \in ReportRecord
      BY <1>2, <1>3, <1>4, ElementOfSeq
    <3>. QED BY <3>1, <1>3, <1>4, SubSeqProperties
  <2>. QED BY <2>1, <2>2, ConcatProperties DEF RemoveAt
<1>7. wire' \in Seq(Seq(ReportRecord)) /\ Len(wire') = Len(wire)
  BY <1>1, <1>6, ExceptSeq DEF BrokerTables
<1>8. wire[b][i].lots \in Nat
  BY <1>5 DEF ReportRecord
<1>9. PICK lots \in Int : missed' = [missed EXCEPT ![b] = lots]
  <2>1. missed[b] + wire[b][i].lots \in Int /\ missed[b] + 0 \in Int
    BY <1>2, <1>8
  <2>. QED BY <2>1
<1>10. missed' \in Seq(Int) /\ Len(missed') = Len(missed)
  BY <1>1, <1>9, ExceptSeq DEF BrokerTables
<1>. QED BY <1>5, <1>7, <1>10

\* The broker takes an order: the numbers it had stay, one is added.
LEMMA PlaceKeepsType ==
  ASSUME BrokerTables, NEW quantity \in Nat \ {0}, NEW keys \in SUBSET Keys,
         Place(quantity, keys)
  PROVE  /\ broker' \in Seq(BrokerOrder)
         /\ wire' \in Seq(Seq(ReportRecord)) /\ Len(wire') = Len(broker')
         /\ missed' \in Seq(Int) /\ Len(missed') = Len(broker')
         /\ Len(broker') = Len(broker) + 1
         /\ DOMAIN broker' = DOMAIN broker \cup {Len(broker) + 1}
         /\ Len(broker) + 1 \notin DOMAIN broker
<1>1. Placed(quantity, keys) \in BrokerOrder
  BY DEF Placed, BrokerOrder
<1>2. broker' \in Seq(BrokerOrder) /\ Len(broker') = Len(broker) + 1
  BY <1>1, AppendProperties DEF Place, BrokerTables
<1>3. <<>> \in Seq(ReportRecord)
  OBVIOUS
<1>4. wire' \in Seq(Seq(ReportRecord)) /\ Len(wire') = Len(wire) + 1
  BY <1>3, AppendProperties DEF Place, BrokerTables
<1>5. missed' \in Seq(Int) /\ Len(missed') = Len(missed) + 1
  BY AppendProperties DEF Place, BrokerTables
<1>6. DOMAIN broker' = 1..(Len(broker) + 1)
  BY <1>2, LenProperties
<1>7. DOMAIN broker' = DOMAIN broker \cup {Len(broker) + 1} /\ Len(broker) + 1 \notin DOMAIN broker
  BY <1>6, BrokerDomains
<1>. QED BY <1>2, <1>4, <1>5, <1>7 DEF BrokerTables
-----------------------------------------------------------------------------
\* The tables do not notice what the broker does, nor what happens to reports,
\* as long as the broker forgets no order.
LEMMA TablesIgnoreBroker ==
  ASSUME LiveTables, UNCHANGED <<liveVars, doing>>, DOMAIN broker \subseteq DOMAIN broker'
  PROVE  LiveTables'
<1>1. orders' = orders /\ nextId' = nextId /\ recent' = recent /\ doing' = doing
  BY DEF liveVars
<1>2. doing' \in Doings'
  BY <1>1 DEF LiveTables, Doings
<1>3. OneIdPerBrokerOrder' /\ SubmissionIsNew'
  BY <1>1 DEF LiveTables, OneIdPerBrokerOrder, SubmissionIsNew, IdsOf
<1>. QED BY <1>1, <1>2, <1>3 DEF LiveTables

\* What the event loop is in the middle of, by the form of the record.
LEMMA DoingForms ==
  ASSUME doing \in Doings
  PROVE  /\ doing.op = "submit" =>
              /\ doing.id \in 1..(nextId - 1)
              /\ doing.number \in DOMAIN broker
              /\ doing.key \in Keys
         /\ doing.op = "cancel" => doing.id \in DOMAIN orders
         /\ doing = Idle => doing.op = "idle"
BY DEF Doings, Idle, Reconcile
-----------------------------------------------------------------------------
(* The broker's steps.                                                     *)

\* What of the invariant is about the broker, when only its orders and
\* reports change.
LEMMA BrokerPart ==
  ASSUME BrokerTables, UNCHANGED <<snapshot, fresh>>,
         broker' \in Seq(BrokerOrder), DOMAIN broker \subseteq DOMAIN broker',
         wire' \in Seq(Seq(ReportRecord)), Len(wire') = Len(broker'),
         missed' \in Seq(Int), Len(missed') = Len(broker'),
         losses' \in 0..MaxLost
  PROVE  BrokerTables'
BY DEF BrokerTables

\* What the reports of an order say of it: all that was executed at least, and only
\* that if each fill comes with its own lots.
Reported(order) ==
  /\ order.executed <= order.reported
  /\ Adapter # "ib" /\ ~order.acked => order.executed = 0
  /\ Adapter = "fills" => order.reported = order.executed

\* The broker changes an order and reports it.
ReportStep(b, order, status, lots) ==
  /\ order \in BrokerOrder /\ status \in Statuses /\ lots \in Nat
  /\ status \in Fills \/ lots = 0
  /\ order.key = broker[b].key /\ order.reported = broker[b].reported + lots
  /\ Reported(broker[b]) => Reported(order)
  /\ broker' = [broker EXCEPT ![b] = order]
  /\ Send(b, status, lots)
  /\ UNCHANGED <<liveVars, doing, snapshot, losses, missed, fresh>>

\* The status of an order is reported, and of one that is filled its lots again.
LEMMA AcknowledgeReports ==
  ASSUME BrokerTables, NEW b \in DOMAIN broker, Acknowledge(b)
  PROVE  \E order, status, lots : ReportStep(b, order, status, lots)
<1>. DEFINE before == broker[b]
            full == before.executed = before.quantity
            lots == IF full THEN before.executed ELSE 0
            reported == before.reported + lots
            order == [before EXCEPT !.acked = TRUE, !.reported = reported]
            status == IF full THEN "filled" ELSE "new"
<1>1. before \in BrokerOrder
  BY BrokerDomains, ElementOfSeq DEF BrokerTables
<1>2. /\ before.executed \in Nat /\ before.reported \in Nat /\ before.quantity \in Nat \ {0}
      /\ lots \in Nat /\ reported \in Nat
  BY <1>1 DEF BrokerOrder
<1>3. broker' = [broker EXCEPT ![b] = order] /\ Send(b, status, lots) /\ ~before.acked
  BY DEF Acknowledge
<1>4. status \in Statuses /\ (status \in Fills \/ lots = 0)
  BY DEF Statuses, Fills
<1>5. UNCHANGED <<liveVars, doing, snapshot, losses, missed, fresh>>
  BY DEF Acknowledge
<1>6. lots # 0 => lots = before.executed /\ before.executed = before.quantity
  OBVIOUS
<1>. HIDE DEF reported, lots, status, before
<1>7. order \in BrokerOrder
  BY <1>1, <1>2 DEF BrokerOrder
<1>8. order.key = before.key /\ order.reported = reported
  BY <1>1 DEF BrokerOrder
<1>9. order.executed = before.executed
  BY <1>1 DEF BrokerOrder
<1>10. order.acked = TRUE
  BY <1>1 DEF BrokerOrder
<1>. HIDE DEF order
<1>11. Reported(before) => Reported(order)
  BY <1>2, <1>3, <1>6, <1>8, <1>9, <1>10 DEF Reported, reported
<1>12. ReportStep(b, order, status, lots)
  BY <1>2, <1>3, <1>4, <1>5, <1>7, <1>8, <1>11 DEF ReportStep, before, reported
<1>. QED BY <1>12

\* An order ends without a fill.
LEMMA CloseReports ==
  ASSUME BrokerTables, NEW b \in DOMAIN broker, Close(b)
  PROVE  \E order, status, lots : ReportStep(b, order, status, lots)
<1>. DEFINE before == broker[b]
            order == [before EXCEPT !.working = FALSE]
<1>1. before \in BrokerOrder
  BY BrokerDomains, ElementOfSeq DEF BrokerTables
<1>0. before.reported \in Nat
  BY <1>1 DEF BrokerOrder
<1>2. PICK status \in CloseStatuses \cup {"cancelled"} : Send(b, status, 0)
  BY DEF Close
<1>3. status \in Statuses
  BY LiveOrderAssumption DEF Statuses, Closed
<1>4. broker' = [broker EXCEPT ![b] = order] /\ UNCHANGED <<liveVars, doing, snapshot, losses, missed, fresh>>
  BY DEF Close
<1>. HIDE DEF before
<1>5. order \in BrokerOrder
  BY <1>1 DEF BrokerOrder
<1>6. order.key = before.key /\ order.reported = before.reported
  BY <1>1 DEF BrokerOrder
<1>7. order.executed = before.executed /\ order.acked = before.acked
  BY <1>1 DEF BrokerOrder
<1>. HIDE DEF order
<1>8. Reported(before) => Reported(order)
  BY <1>6, <1>7 DEF Reported
<1>9. order.reported = before.reported + 0
  BY <1>0, <1>6
<1>10. ReportStep(b, order, status, 0)
  BY <1>2, <1>3, <1>4, <1>5, <1>6, <1>8, <1>9 DEF ReportStep, before
<1>. QED BY <1>10

\* Lots are executed, and reported the way of the adapter.
LEMMA ExecuteReports ==
  ASSUME BrokerTables, NEW b \in DOMAIN broker, NEW some \in 1..(broker[b].quantity - broker[b].executed),
         Execute(b, some)
  PROVE  \E order, status, lots : ReportStep(b, order, status, lots)
<1>. DEFINE before == broker[b]
            executed == before.executed + some
            working == executed # before.quantity
            lots == ReportedLots(executed, some)
            reported == before.reported + lots
            acked == Adapter # "ib"
            order == [before EXCEPT !.executed = executed, !.working = working, !.acked = acked, !.reported = reported]
            status == ReportedStatus(~working)
<1>1. before \in BrokerOrder
  BY BrokerDomains, ElementOfSeq DEF BrokerTables
<1>2. some \in Nat /\ before.executed \in Nat /\ before.reported \in Nat
  BY <1>1 DEF BrokerOrder
<1>3. executed \in Nat /\ lots \in {executed, some} /\ (Adapter = "fills" => lots = some)
  BY <1>2 DEF ReportedLots
<1>4. lots \in Nat /\ reported \in Nat
  BY <1>2, <1>3
<1>5. broker' = [broker EXCEPT ![b] = order] /\ Send(b, status, lots)
  BY DEF Execute
<1>6. status \in Statuses /\ status \in Fills
  BY DEF ReportedStatus, Statuses, Fills
<1>7. UNCHANGED <<liveVars, doing, snapshot, losses, missed, fresh>>
  BY DEF Execute
<1>8. working \in BOOLEAN /\ acked \in BOOLEAN /\ (Adapter # "ib" => acked)
  OBVIOUS
<1>. HIDE DEF reported, lots, status, executed, working, acked, before
<1>9. order \in BrokerOrder
  BY <1>1, <1>3, <1>4, <1>8 DEF BrokerOrder
<1>10. order.key = before.key
  BY <1>1 DEF BrokerOrder
<1>11. order.reported = reported
  BY <1>1 DEF BrokerOrder
<1>12. order.executed = executed
  BY <1>1 DEF BrokerOrder
<1>13. order.acked = acked
  BY <1>1 DEF BrokerOrder
<1>. HIDE DEF order
<1>14. Reported(before) => Reported(order)
  BY <1>2, <1>3, <1>4, <1>8, <1>11, <1>12, <1>13 DEF Reported, reported, executed
<1>15. ReportStep(b, order, status, lots)
  BY <1>4, <1>5, <1>6, <1>7, <1>9, <1>10, <1>11, <1>14 DEF ReportStep, before, reported
<1>. QED BY <1>15

\* The broker's steps are orders of others, reports and losses.
LEMMA BrokerSteps ==
  ASSUME BrokerTables, BrokerStep
  PROVE  \/ PlaceForeign
         \/ \E b \in DOMAIN broker : \E order, status, lots : ReportStep(b, order, status, lots)
         \/ \E b \in DOMAIN broker : \E i \in DOMAIN wire[b] : Lose(b, i)
BY AcknowledgeReports, CloseReports, ExecuteReports DEF BrokerStep

\* Each step of the broker keeps both parts.
LEMMA BrokerStepKeepsInv ==
  ASSUME LiveTables, BrokerTables, BrokerStep
  PROVE  LiveTables' /\ BrokerTables'
<1>. SUFFICES /\ UNCHANGED <<liveVars, doing, snapshot, fresh>>
              /\ broker' \in Seq(BrokerOrder) /\ DOMAIN broker \subseteq DOMAIN broker'
              /\ wire' \in Seq(Seq(ReportRecord)) /\ Len(wire') = Len(broker')
              /\ missed' \in Seq(Int) /\ Len(missed') = Len(broker')
              /\ losses' \in 0..MaxLost
  BY TablesIgnoreBroker, BrokerPart
<1>0. /\ broker \in Seq(BrokerOrder) /\ Len(wire) = Len(broker)
      /\ wire \in Seq(Seq(ReportRecord))
      /\ missed \in Seq(Int) /\ Len(missed) = Len(broker)
      /\ losses \in 0..MaxLost /\ MaxLost \in Nat
  BY LiveOrderAssumption DEF BrokerTables
<1>1. CASE PlaceForeign
  <2>1. PICK quantity \in NewQuantities : Place(quantity, {})
    BY <1>1 DEF PlaceForeign
  <2>2. quantity \in Nat \ {0} /\ {} \in SUBSET Keys
    BY LiveOrderAssumption
  <2>. QED BY <1>1, <2>1, <2>2, <1>0, PlaceKeepsType DEF PlaceForeign
<1>3. ASSUME NEW b \in DOMAIN broker, NEW order, NEW status, NEW lots, ReportStep(b, order, status, lots)
      PROVE  /\ UNCHANGED <<liveVars, doing, snapshot, fresh>>
             /\ broker' \in Seq(BrokerOrder) /\ DOMAIN broker \subseteq DOMAIN broker'
             /\ wire' \in Seq(Seq(ReportRecord)) /\ Len(wire') = Len(broker')
             /\ missed' \in Seq(Int) /\ Len(missed') = Len(broker')
             /\ losses' \in 0..MaxLost
  BY <1>0, <1>3, BrokerOrderChanges, SendKeepsType DEF ReportStep
<1>4. ASSUME NEW b \in DOMAIN broker, NEW i \in DOMAIN wire[b], Lose(b, i)
      PROVE  /\ UNCHANGED <<liveVars, doing, snapshot, fresh>>
             /\ broker' \in Seq(BrokerOrder) /\ DOMAIN broker \subseteq DOMAIN broker'
             /\ wire' \in Seq(Seq(ReportRecord)) /\ Len(wire') = Len(broker')
             /\ missed' \in Seq(Int) /\ Len(missed') = Len(broker')
             /\ losses' \in 0..MaxLost
  <2>1. /\ wire' \in Seq(Seq(ReportRecord)) /\ Len(wire') = Len(wire)
        /\ missed' \in Seq(Int) /\ Len(missed') = Len(missed)
    BY <1>4, ArrivalKeepsType DEF Lose
  <2>2. losses' \in 0..MaxLost
    BY <1>0, <1>4 DEF Lose
  <2>. QED BY <1>0, <1>4, <2>1, <2>2 DEF Lose
<1>. QED BY <1>1, <1>3, <1>4, BrokerSteps
-----------------------------------------------------------------------------
(* Submission.                                                             *)

\* The call of the broker: the order is new to the tables, and its id is free
\* or that of an order that is over.
LEMMA SubmitAcceptedKeepsInv ==
  ASSUME LiveTables, BrokerTables, NEW id \in CallerIds, NEW key \in Keys,
         SubmitAccepted(id, key)
  PROVE  LiveTables' /\ BrokerTables'
<1>1. /\ QuantityOf[key] \in Nat \ {0} /\ {key} \in SUBSET Keys /\ id \in Nat
      /\ nextId \in Nat \ {0}
  BY LiveOrderAssumption DEF LiveTables
<1>2. /\ broker' \in Seq(BrokerOrder)
      /\ wire' \in Seq(Seq(ReportRecord)) /\ Len(wire') = Len(broker')
      /\ missed' \in Seq(Int) /\ Len(missed') = Len(broker')
      /\ DOMAIN broker' = DOMAIN broker \cup {Len(broker) + 1}
      /\ Len(broker) + 1 \notin DOMAIN broker
  BY <1>1, PlaceKeepsType DEF SubmitAccepted
<1>3. BrokerTables'
  <2>1. fresh' \in SUBSET DOMAIN broker'
    BY <1>2 DEF SubmitAccepted, BrokerTables
  <2>. QED BY <1>2, <2>1 DEF SubmitAccepted, BrokerTables
<1>4. /\ nextId' \in Nat \ {0} /\ nextId <= nextId'
      /\ Numbered(id) \in 1..(nextId' - 1)
  BY <1>1 DEF SubmitAccepted, Counter, Numbered, Greater
<1>5. doing' \in Doings'
  BY <1>2, <1>4 DEF SubmitAccepted, Doings, Submission
<1>6. SubmissionIsNew'
  <2>1. IdsOf(Len(broker) + 1) = {}
    BY <1>2 DEF LiveTables, IdsOf
  <2>2. Numbered(id) \in DOMAIN orders => IsTerminal(orders[Numbered(id)].status)
    BY <1>1 DEF SubmitAccepted, MaySubmit, Numbered, LiveTables
  <2>. QED BY <2>1, <2>2 DEF SubmitAccepted, SubmissionIsNew, Submission, IdsOf
<1>7. LiveTables'
  BY <1>2, <1>4, <1>5, <1>6 DEF SubmitAccepted, LiveTables, OneIdPerBrokerOrder
<1>. QED BY <1>3, <1>7

\* An order that the broker took unnoticed changes no table here.
LEMMA SubmitUnansweredKeepsInv ==
  ASSUME LiveTables, BrokerTables, NEW id \in CallerIds, NEW key \in Keys,
         SubmitUnanswered(id, key)
  PROVE  LiveTables' /\ BrokerTables'
<1>1. /\ QuantityOf[key] \in Nat \ {0} /\ {key} \in SUBSET Keys /\ id \in Nat
      /\ nextId \in Nat \ {0}
  BY LiveOrderAssumption DEF LiveTables
<1>2. /\ broker' \in Seq(BrokerOrder)
      /\ wire' \in Seq(Seq(ReportRecord)) /\ Len(wire') = Len(broker')
      /\ missed' \in Seq(Int) /\ Len(missed') = Len(broker')
      /\ DOMAIN broker \subseteq DOMAIN broker'
  BY <1>1, PlaceKeepsType DEF SubmitUnanswered
<1>3. BrokerTables'
  BY <1>2 DEF SubmitUnanswered, BrokerTables
<1>4. nextId' \in Nat \ {0} /\ nextId <= nextId'
  BY <1>1 DEF SubmitUnanswered, Counter, Greater
<1>5. doing = Idle /\ UNCHANGED <<orders, recent, doing>>
  BY DEF SubmitUnanswered, MaySubmit
<1>6. LiveTables'
  BY <1>2, <1>4, <1>5 DEF LiveTables, Doings, OneIdPerBrokerOrder, SubmissionIsNew, Idle
<1>. QED BY <1>3, <1>6

\* A refused order uses up its number.
LEMMA SubmitRefusedKeepsInv ==
  ASSUME LiveTables, BrokerTables, NEW id \in CallerIds, NEW key \in Keys,
         SubmitRefused(id, key)
  PROVE  LiveTables' /\ BrokerTables'
<1>1. id \in Nat /\ nextId \in Nat \ {0}
  BY LiveOrderAssumption DEF LiveTables
<1>2. nextId' \in Nat \ {0} /\ nextId <= nextId'
  BY <1>1 DEF SubmitRefused, Counter, Greater
<1>3. doing' = Idle
  BY DEF SubmitRefused, MaySubmit
<1>4. LiveTables'
  BY <1>2, <1>3 DEF SubmitRefused, brokerVars, LiveTables, Doings, OneIdPerBrokerOrder,
       SubmissionIsNew, Idle
<1>5. BrokerTables'
  BY DEF SubmitRefused, brokerVars, BrokerTables
<1>. QED BY <1>4, <1>5

\* The order the broker took enters the table.
LEMMA StoreSubmittedKeepsInv ==
  ASSUME LiveTables, BrokerTables, StoreSubmitted
  PROVE  LiveTables' /\ BrokerTables'
<1>1. /\ doing.id \in 1..(nextId - 1) /\ doing.number \in DOMAIN broker /\ doing.key \in Keys
      /\ IdsOf(doing.number) = {}
  BY DoingForms DEF StoreSubmitted, LiveTables, SubmissionIsNew
<1>. DEFINE order == LiveOrder(doing.number, "pendingNew")
<1>2. order \in OrderRecord /\ order.number = doing.number
  BY <1>1, BrokerDomains DEF LiveOrder, OrderRecord, Statuses
<1>3. orders' = [x \in DOMAIN orders \cup {doing.id} |-> IF x = doing.id THEN order
                                                                        ELSE orders[x]]
  BY DEF StoreSubmitted, Put
<1>. HIDE DEF order
<1>4. DOMAIN orders' = DOMAIN orders \cup {doing.id}
  BY <1>3
<1>5. orders' \in [DOMAIN orders' -> OrderRecord]
  BY <1>2, <1>3, <1>4 DEF LiveTables
<1>6. OneIdPerBrokerOrder'
  <2>1. \A id \in DOMAIN orders : orders[id].number # doing.number
    BY <1>1 DEF IdsOf
  <2>. QED BY <1>2, <1>3, <1>4, <2>1 DEF LiveTables, OneIdPerBrokerOrder
<1>7. \A id \in DOMAIN orders' : orders'[id].number \in DOMAIN broker
  BY <1>1, <1>2, <1>3, <1>4 DEF LiveTables
<1>8. LiveTables'
  BY <1>1, <1>4, <1>5, <1>6, <1>7 DEF StoreSubmitted, brokerVars, LiveTables, Doings,
       SubmissionIsNew, Idle
<1>9. missed' \in Seq(Int) /\ Len(missed') = Len(missed)
  <2>1. CASE doing.id \in DOMAIN orders
    <3>. DEFINE n == orders[doing.id].number
    <3>1. n \in 1..Len(missed) /\ orders[doing.id].filled \in Int
      BY <2>1, BrokerDomains DEF LiveTables, BrokerTables, OrderRecord
    <3>2. missed' = [missed EXCEPT ![n] = missed[n] + orders[doing.id].filled]
      BY <2>1 DEF StoreSubmitted
    <3>3. missed[n] + orders[doing.id].filled \in Int
      BY <3>1, ElementOfSeq, SMTT(30) DEF BrokerTables
    <3>. QED BY <3>1, <3>2, <3>3, ExceptSeq DEF BrokerTables
  <2>. QED BY <2>1 DEF StoreSubmitted, BrokerTables
<1>10. BrokerTables'
  BY <1>9 DEF StoreSubmitted, brokerVars, BrokerTables
<1>. QED BY <1>8, <1>10
-----------------------------------------------------------------------------
(* Cancels, modifications and the passing of the window.                   *)

\* Cancels asked for change orders of the broker, and no number.
LEMMA AskKeepsType ==
  ASSUME BrokerTables, NEW numbers, Ask(numbers)
  PROVE  /\ broker' \in Seq(BrokerOrder)
         /\ Len(broker') = Len(broker)
         /\ DOMAIN broker' = DOMAIN broker
<1>. DEFINE Asked(b) == IF b \in numbers THEN [broker[b] EXCEPT !.asked = TRUE] ELSE broker[b]
<1>1. /\ Len(broker) \in Nat /\ DOMAIN broker = 1..Len(broker)
      /\ broker \in Seq(BrokerOrder)
  BY BrokerDomains DEF BrokerTables
<1>2. \A b \in 1..Len(broker) : Asked(b) \in BrokerOrder
  <2>1. ASSUME NEW b \in 1..Len(broker)
        PROVE  broker[b] \in BrokerOrder
    BY <1>1, ElementOfSeq
  <2>. QED BY <2>1 DEF BrokerOrder
<1>3. broker' = [b \in 1..Len(broker) |-> Asked(b)]
  BY <1>1 DEF Ask
<1>. HIDE DEF Asked
<1>4. broker' \in [1..Len(broker) -> BrokerOrder]
  BY <1>2, <1>3
<1>5. broker' \in Seq(BrokerOrder)
  BY <1>1, <1>4, SeqDef
<1>6. DOMAIN broker' = 1..Len(broker) /\ Len(broker') \in Nat /\ DOMAIN broker' = 1..Len(broker')
  BY <1>4, <1>5, LenProperties
<1>7. Len(broker') = Len(broker)
  BY <1>1, <1>6
<1>. QED BY <1>1, <1>5, <1>6, <1>7

\* The broker is asked to cancel an order.
LEMMA CancelOrderKeepsInv ==
  ASSUME LiveTables, BrokerTables, NEW id \in DOMAIN orders, CancelOrder(id)
  PROVE  LiveTables' /\ BrokerTables'
<1>1. /\ broker' \in Seq(BrokerOrder) /\ Len(broker') = Len(broker)
      /\ DOMAIN broker' = DOMAIN broker
  BY AskKeepsType DEF CancelOrder
<1>2. BrokerTables'
  BY <1>1 DEF CancelOrder, liveVars, BrokerTables
<1>3. LiveTables'
  BY <1>1 DEF CancelOrder, liveVars, LiveTables, Doings, OneIdPerBrokerOrder, SubmissionIsNew,
       Cancellation
<1>. QED BY <1>2, <1>3

\* The cancelled order waits for its end, whatever came of it meanwhile.
LEMMA FinishCancelKeepsInv ==
  ASSUME LiveTables, BrokerTables, FinishCancel
  PROVE  LiveTables' /\ BrokerTables'
<1>1. doing.id \in DOMAIN orders
  BY DoingForms DEF FinishCancel, LiveTables
<1>. DEFINE order == [orders[doing.id] EXCEPT !.status = "pendingCancel"]
<1>2. order \in OrderRecord /\ order.number = orders[doing.id].number
  BY <1>1 DEF LiveTables, OrderRecord, Statuses
<1>3. orders' = [orders EXCEPT ![doing.id] = order]
  BY DEF FinishCancel
<1>. HIDE DEF order
<1>4. /\ DOMAIN orders' = DOMAIN orders
      /\ orders' \in [DOMAIN orders -> OrderRecord]
      /\ \A id \in DOMAIN orders : orders'[id].number = orders[id].number
  BY <1>1, <1>2, <1>3 DEF LiveTables
<1>5. LiveTables'
  BY <1>4 DEF FinishCancel, brokerVars, LiveTables, Doings, OneIdPerBrokerOrder,
       SubmissionIsNew, Idle
<1>6. BrokerTables'
  BY DEF FinishCancel, brokerVars, BrokerTables
<1>. QED BY <1>5, <1>6

\* Many orders are asked to be cancelled, and no status changes.
LEMMA CancelManyKeepsInv ==
  ASSUME LiveTables, BrokerTables, CancelMany
  PROVE  LiveTables' /\ BrokerTables'
<1>1. /\ broker' \in Seq(BrokerOrder) /\ Len(broker') = Len(broker)
      /\ DOMAIN broker' = DOMAIN broker
  BY AskKeepsType DEF CancelMany
<1>2. BrokerTables'
  BY <1>1 DEF CancelMany, liveVars, BrokerTables
<1>. QED BY <1>1, <1>2, TablesIgnoreBroker DEF CancelMany

\* The broker changes the quantity of an order.
LEMMA ModifyOrderKeepsInv ==
  ASSUME LiveTables, BrokerTables, NEW id \in DOMAIN orders, NEW quantity \in NewQuantities,
         ModifyOrder(id, quantity)
  PROVE  LiveTables' /\ BrokerTables'
<1>. DEFINE b == orders[id].number
            order == [broker[b] EXCEPT !.quantity = quantity]
<1>1. b \in DOMAIN broker /\ quantity \in Nat \ {0}
  BY LiveOrderAssumption DEF LiveTables
<1>2. broker[b] \in BrokerOrder
  BY <1>1, BrokerDomains, ElementOfSeq DEF BrokerTables
<1>3. order \in BrokerOrder
  BY <1>1, <1>2 DEF BrokerOrder
<1>4. broker' = [broker EXCEPT ![b] = order]
  BY DEF ModifyOrder
<1>. HIDE DEF b, order
<1>5. /\ broker' \in Seq(BrokerOrder) /\ Len(broker') = Len(broker)
      /\ DOMAIN broker' = DOMAIN broker
  BY <1>1, <1>3, <1>4, BrokerOrderChanges
<1>6. BrokerTables'
  BY <1>5 DEF ModifyOrder, BrokerTables
<1>. QED BY <1>5, <1>6, TablesIgnoreBroker DEF ModifyOrder

\* The window of a fingerprint ends.
LEMMA ElapseKeepsInv ==
  ASSUME LiveTables, BrokerTables, NEW key \in Keys, Elapse(key)
  PROVE  LiveTables' /\ BrokerTables'
<1>1. LiveTables'
  BY DEF Elapse, brokerVars, LiveTables, Doings, OneIdPerBrokerOrder, SubmissionIsNew, IdsOf
<1>2. BrokerTables'
  BY DEF Elapse, brokerVars, BrokerTables
<1>. QED BY <1>1, <1>2
-----------------------------------------------------------------------------
(* Reports.                                                                *)

\* A report changes status and lots of an order, never whose order it is, and
\* an order that is over stays over.
LEMMA UpdatedOrder ==
  ASSUME NEW order \in OrderRecord, NEW report \in ReportRecord
  PROVE  /\ Updated(order, report) \in OrderRecord
         /\ Updated(order, report).number = order.number
         /\ IsTerminal(order.status) => IsTerminal(Updated(order, report).status)
<1>1. /\ order.status \in Statuses /\ order.filled \in Nat /\ report.status \in Statuses
      /\ report.lots \in Nat /\ "error" \in Statuses
  BY DEF OrderRecord, ReportRecord, Statuses, Closed
<1>2. CASE ~IsValidTransition(order.status, report.status)
  <2>1. Updated(order, report) = [order EXCEPT !.status = "error"]
    BY <1>2 DEF Updated
  <2>. QED BY <1>1, <2>1 DEF OrderRecord, IsTerminal, Closed
<1>3. CASE IsValidTransition(order.status, report.status)
  <2>. DEFINE filled == order.filled + IF report.status \in Fills THEN report.lots ELSE 0
  <2>1. Updated(order, report) = [order EXCEPT !.status = report.status, !.filled = filled]
    BY <1>3 DEF Updated
  <2>2. filled \in Nat
    BY <1>1
  <2>3. IsTerminal(order.status) => IsTerminal(report.status)
    BY <1>3 DEF IsValidTransition, IsTerminal, Closed, Fills
  <2>. HIDE DEF filled
  <2>. QED BY <1>1, <2>1, <2>2, <2>3 DEF OrderRecord
<1>. QED BY <1>2, <1>3

\* The tables survive the report of any order in them.
LEMMA TablesTakeReport ==
  ASSUME LiveTables, NEW id \in DOMAIN orders, NEW report \in ReportRecord,
         orders' = [orders EXCEPT ![id] = Updated(@, report)],
         UNCHANGED <<nextId, recent, doing>>, DOMAIN broker' = DOMAIN broker
  PROVE  LiveTables'
<1>. DEFINE order == Updated(orders[id], report)
<1>1. /\ order \in OrderRecord /\ order.number = orders[id].number
      /\ IsTerminal(orders[id].status) => IsTerminal(order.status)
  BY UpdatedOrder DEF LiveTables
<1>2. orders' = [orders EXCEPT ![id] = order]
  OBVIOUS
<1>. HIDE DEF order
<1>3. /\ DOMAIN orders' = DOMAIN orders
      /\ orders' \in [DOMAIN orders -> OrderRecord]
      /\ \A x \in DOMAIN orders : /\ orders'[x].number = orders[x].number
                                  /\ IsTerminal(orders[x].status) => IsTerminal(orders'[x].status)
  BY <1>1, <1>2 DEF LiveTables
<1>4. SubmissionIsNew'
  BY <1>3 DEF LiveTables, SubmissionIsNew, IdsOf
<1>5. doing' \in Doings'
  BY <1>3 DEF LiveTables, Doings
<1>. QED BY <1>3, <1>4, <1>5 DEF LiveTables, OneIdPerBrokerOrder

\* A report arrives.
LEMMA DeliverKeepsInv ==
  ASSUME LiveTables, BrokerTables, NEW b \in DOMAIN broker, NEW i \in DOMAIN wire[b],
         Deliver(b, i)
  PROVE  LiveTables' /\ BrokerTables'
<1>1. missed' \in {[missed EXCEPT ![b] = @ + wire[b][i].lots], [missed EXCEPT ![b] = @ + 0]}
  BY DEF Deliver
<1>2. /\ wire' \in Seq(Seq(ReportRecord)) /\ Len(wire') = Len(wire)
      /\ missed' \in Seq(Int) /\ Len(missed') = Len(missed)
      /\ wire[b][i] \in ReportRecord
  BY <1>1, ArrivalKeepsType DEF Deliver
<1>3. BrokerTables'
  BY <1>2 DEF Deliver, BrokerTables
<1>4. UNCHANGED <<nextId, recent, doing>> /\ DOMAIN broker' = DOMAIN broker
  BY DEF Deliver
<1>5. CASE UNCHANGED orders
  <2>1. UNCHANGED <<liveVars, doing>> /\ DOMAIN broker \subseteq DOMAIN broker'
    BY <1>4, <1>5 DEF liveVars
  <2>. QED BY <1>3, <2>1, TablesIgnoreBroker
<1>6. ASSUME NEW id \in IdsOf(b), orders' = [orders EXCEPT ![id] = Updated(@, wire[b][i])]
      PROVE  LiveTables'
  <2>1. id \in DOMAIN orders
    BY DEF IdsOf
  <2>. QED BY <1>2, <1>4, <1>6, <2>1, TablesTakeReport
<1>. QED BY <1>3, <1>5, <1>6 DEF Deliver

\* The list of the broker is fetched.
LEMMA StartReconcileKeepsInv ==
  ASSUME LiveTables, BrokerTables, StartReconcile
  PROVE  LiveTables' /\ BrokerTables'
<1>1. ASSUME NEW b \in DOMAIN broker
      PROVE  /\ broker[b].quantity \in Nat
             /\ b \in Nat \ {0}
  <2>1. b \in 1..Len(broker) /\ Len(broker) \in Nat
    BY BrokerDomains
  <2>2. broker[b] \in BrokerOrder
    BY <2>1, ElementOfSeq DEF BrokerTables
  <2>. QED BY <2>1, <2>2 DEF BrokerOrder
<1>2. \A report \in OpenOrders : report \in ReportRecord /\ report.number \in DOMAIN broker
  BY <1>1 DEF OpenOrders, Report, ReportRecord, Statuses, Fills
<1>3. BrokerTables'
  BY <1>2 DEF StartReconcile, brokerVars, BrokerTables
<1>4. LiveTables'
  BY DEF StartReconcile, liveVars, brokerVars, LiveTables, Doings, OneIdPerBrokerOrder,
       SubmissionIsNew, Reconcile
<1>. QED BY <1>3, <1>4

\* One report of the list is gone through: it is that of a known order, or an
\* order is entered under a number not given out before.
LEMMA ReconcileOneKeepsInv ==
  ASSUME LiveTables, BrokerTables, ReconcileOne
  PROVE  LiveTables' /\ BrokerTables'
<1>1. PICK report \in snapshot : /\ ReconcileKnown(report) \/ ReconcileUnknown(report)
                                 /\ snapshot' = snapshot \ {report}
  BY DEF ReconcileOne
<1>2. report \in ReportRecord /\ report.number \in DOMAIN broker
  BY DEF BrokerTables
<1>3. BrokerTables'
  <2>1. missed' \in Seq(Int) /\ Len(missed') = Len(missed)
    <3>1. CASE ReconcileKnown(report)
      <4>1. PICK id \in IdsOf(report.number) :
              /\ orders' = [orders EXCEPT ![id] = Updated(@, report)]
              /\ missed' = [missed EXCEPT ![report.number] =
                             @ + orders[id].filled - orders'[id].filled]
        BY <3>1 DEF ReconcileKnown
      <4>2. orders[id] \in OrderRecord /\ orders'[id] \in OrderRecord
        BY <1>2, <4>1, UpdatedOrder DEF IdsOf, LiveTables
      <4>3. report.number \in 1..Len(missed)
        BY <1>2, BrokerDomains DEF BrokerTables
      <4>4. missed[report.number] + orders[id].filled - orders'[id].filled \in Int
        <5>1. missed[report.number] \in Int
          BY <4>3, ElementOfSeq DEF BrokerTables
        <5>. QED BY <4>2, <5>1 DEF OrderRecord
      <4>. QED BY <4>1, <4>3, <4>4, ExceptSeq DEF BrokerTables
    <3>2. CASE ReconcileUnknown(report)
      BY <3>2 DEF ReconcileUnknown, BrokerTables
    <3>. QED BY <1>1, <3>1, <3>2
  <2>. QED BY <1>1, <2>1 DEF ReconcileOne, brokerVars, BrokerTables
<1>4. CASE ReconcileKnown(report)
  <2>1. PICK id \in IdsOf(report.number) : orders' = [orders EXCEPT ![id] = Updated(@, report)]
    BY <1>4 DEF ReconcileKnown
  <2>2. id \in DOMAIN orders
    BY DEF IdsOf
  <2>3. UNCHANGED <<nextId, recent, doing>> /\ DOMAIN broker' = DOMAIN broker
    BY <1>4 DEF ReconcileOne, ReconcileKnown, brokerVars
  <2>. QED BY <1>2, <1>3, <2>1, <2>2, <2>3, TablesTakeReport
<1>5. CASE ReconcileUnknown(report)
  <2>. DEFINE order == LiveOrder(report.number, report.status)
  <2>1. order \in OrderRecord /\ order.number = report.number
    BY <1>2 DEF LiveOrder, OrderRecord, ReportRecord
  <2>2. orders' = [x \in DOMAIN orders \cup {nextId} |-> IF x = nextId THEN order ELSE orders[x]]
    BY <1>5 DEF ReconcileUnknown, Put
  <2>. HIDE DEF order
  <2>3. nextId \in Nat \ {0} /\ nextId' = nextId + 1 /\ nextId \notin DOMAIN orders
    BY <1>5 DEF ReconcileUnknown, LiveTables
  <2>4. DOMAIN orders' = DOMAIN orders \cup {nextId}
    BY <2>2
  <2>5. orders' \in [DOMAIN orders' -> OrderRecord]
    BY <2>1, <2>2, <2>4 DEF LiveTables
  <2>6. \A id \in DOMAIN orders : orders[id].number # report.number
    BY <1>5 DEF ReconcileUnknown, IdsOf
  <2>7. OneIdPerBrokerOrder'
    BY <2>1, <2>2, <2>4, <2>6 DEF LiveTables, OneIdPerBrokerOrder
  <2>8. \A id \in DOMAIN orders' : orders'[id].number \in DOMAIN broker
    BY <1>2, <2>1, <2>2, <2>4 DEF LiveTables
  <2>9. doing = Reconcile /\ doing' = Reconcile
    BY DEF ReconcileOne, LiveTables, Doings, Idle, Reconcile
  <2>10. nextId' \in Nat \ {0} /\ DOMAIN orders' \subseteq 1..(nextId' - 1)
    BY <2>3, <2>4 DEF LiveTables
  <2>11. doing' \in Doings' /\ SubmissionIsNew'
    BY <2>9 DEF Doings, SubmissionIsNew, Reconcile
  <2>12. recent' \in SUBSET Keys /\ DOMAIN broker' = DOMAIN broker
    BY DEF ReconcileOne, brokerVars, LiveTables
  <2>. QED BY <1>3, <2>5, <2>7, <2>8, <2>10, <2>11, <2>12 DEF LiveTables
<1>. QED BY <1>1, <1>3, <1>4, <1>5

\* The list is through.
LEMMA EndReconcileKeepsInv ==
  ASSUME LiveTables, BrokerTables, EndReconcile
  PROVE  LiveTables' /\ BrokerTables'
<1>1. LiveTables'
  BY DEF EndReconcile, liveVars, brokerVars, LiveTables, Doings, OneIdPerBrokerOrder,
       SubmissionIsNew, Idle
<1>2. BrokerTables'
  BY DEF EndReconcile, liveVars, brokerVars, BrokerTables
<1>. QED BY <1>1, <1>2
-----------------------------------------------------------------------------
(* The invariant, and what follows from it.                                *)

\* At first nothing is known here, and nothing is at the broker.
LEMMA LiveInvInit == Init => LiveInv
<1>. SUFFICES ASSUME Init PROVE LiveTables /\ BrokerTables
  BY LiveInvParts
<1>1. DOMAIN orders = {} /\ nextId = 1 /\ recent = {} /\ doing = Idle
  BY DEF Init
<1>2. LiveTables
  BY <1>1 DEF LiveTables, Doings, OneIdPerBrokerOrder, SubmissionIsNew, Idle
<1>3. /\ broker = <<>> /\ wire = <<>> /\ missed = <<>> /\ fresh = {} /\ snapshot = {}
      /\ losses = 0
  BY DEF Init
<1>4. broker \in Seq(BrokerOrder) /\ wire \in Seq(Seq(ReportRecord)) /\ missed \in Seq(Int)
  BY <1>3
<1>5. MaxLost \in Nat
  BY LiveOrderAssumption
<1>6. losses \in 0..MaxLost
  BY <1>3, <1>5
<1>7. BrokerTables
  BY <1>3, <1>4, <1>6 DEF BrokerTables
<1>. QED BY <1>2, <1>7

\* Every step keeps the invariant.
LEMMA LiveInvNext == LiveInv /\ [Next]_vars => LiveInv'
<1>. SUFFICES ASSUME LiveTables, BrokerTables, [Next]_vars
              PROVE  LiveTables' /\ BrokerTables'
  BY LiveInvParts, PTL
<1>1. CASE BrokerStep
  BY <1>1, BrokerStepKeepsInv
<1>2. CASE Call
  BY <1>2, SubmitAcceptedKeepsInv, SubmitUnansweredKeepsInv, SubmitRefusedKeepsInv, CancelOrderKeepsInv,
     ModifyOrderKeepsInv, CancelManyKeepsInv DEF Call
<1>3. CASE StartReconcile
  BY <1>3, StartReconcileKeepsInv
<1>4. CASE Finish
  BY <1>4, StoreSubmittedKeepsInv, FinishCancelKeepsInv, ReconcileOneKeepsInv,
     EndReconcileKeepsInv DEF Finish
<1>5. ASSUME NEW key \in Keys, Elapse(key)
      PROVE  LiveTables' /\ BrokerTables'
  BY <1>5, ElapseKeepsInv
<1>6. ASSUME NEW b \in DOMAIN broker, Arrive(b)
      PROVE  LiveTables' /\ BrokerTables'
  BY <1>6, DeliverKeepsInv DEF Arrive
<1>7. CASE UNCHANGED vars
  <2>1. UNCHANGED <<liveVars, doing>> /\ DOMAIN broker' = DOMAIN broker
    BY <1>7 DEF vars, brokerVars
  <2>2. BrokerTables'
    BY <1>7 DEF vars, brokerVars, BrokerTables
  <2>. QED BY <2>1, <2>2, TablesIgnoreBroker
<1>. QED BY <1>1, <1>2, <1>3, <1>4, <1>5, <1>6, <1>7 DEF Next

\* LiveInv is an invariant.
LEMMA LiveInvariant == Spec => []LiveInv
BY LiveInvInit, LiveInvNext, PTL DEF Spec

\* The tables, the call under way and the reports keep their types: among
\* others, no id at or above next_order_id_ is ever in use.
THEOREM TypeCorrect == Spec => []TypeOK
<1>1. LiveInv => TypeOK
  BY DEF LiveInv
<1>. QED BY <1>1, LiveInvariant, PTL

\* submit_order() and reconcile_with_broker() never enter an order of the broker
\* under two ids, wherever reports come in between.
THEOREM BrokerOrdersHaveOneId == Spec => []OneIdPerBrokerOrder
<1>1. LiveInv => OneIdPerBrokerOrder
  BY DEF LiveInv
<1>. QED BY <1>1, LiveInvariant, PTL

\* Both together: an id means one order, and one below the counter.
THEOREM LiveIdsAreConsistent == Spec => []IdsAreConsistent
<1>1. LiveInv => IdsAreConsistent
  BY DEF LiveInv, IdsAreConsistent
<1>. QED BY <1>1, LiveInvariant, PTL

\* The ways in which the table changes: a report, the end of a submission or of
\* a cancel, and an order of the broker that reconciliation enters.
LEMMA TableChanges ==
  ASSUME LiveTables, BrokerTables, [Next]_vars
  PROVE  \/ UNCHANGED orders
         \/ \E id \in DOMAIN orders, report \in ReportRecord :
              orders' = [orders EXCEPT ![id] = Updated(@, report)]
         \/ StoreSubmitted
         \/ FinishCancel
         \/ \E order : nextId \notin DOMAIN orders /\ orders' = Put(orders, nextId, order)
<1>1. CASE ReconcileOne
  <2>1. PICK report \in snapshot : ReconcileKnown(report) \/ ReconcileUnknown(report)
    BY <1>1 DEF ReconcileOne
  <2>2. report \in ReportRecord /\ nextId \notin DOMAIN orders
    BY DEF BrokerTables, LiveTables
  <2>. QED BY <2>1, <2>2 DEF ReconcileKnown, ReconcileUnknown, IdsOf
<1>2. ASSUME NEW b \in DOMAIN broker, NEW i \in DOMAIN wire[b], Deliver(b, i)
      PROVE  \/ UNCHANGED orders
             \/ \E id \in DOMAIN orders, report \in ReportRecord :
                  orders' = [orders EXCEPT ![id] = Updated(@, report)]
  <2>1. wire[b][i] \in ReportRecord
    <3>1. b \in 1..Len(wire)
      BY BrokerDomains DEF BrokerTables
    <3>2. wire[b] \in Seq(ReportRecord)
      BY <3>1, ElementOfSeq, SMTT(30) DEF BrokerTables
    <3>. QED BY <3>2, ElementOfSeq, LenProperties
  <2>. QED BY <1>2, <2>1 DEF Deliver, IdsOf
<1>3. BrokerStep \/ Call => UNCHANGED orders
  BY DEF BrokerStep, PlaceForeign, Acknowledge, Execute, Close, Lose, Call, SubmitAccepted,
     SubmitUnanswered, SubmitRefused, CancelOrder, ModifyOrder, CancelMany, liveVars
<1>4. StartReconcile \/ EndReconcile \/ UNCHANGED vars => UNCHANGED orders
  BY DEF StartReconcile, EndReconcile, liveVars, vars
<1>5. ASSUME NEW key \in Keys, Elapse(key) PROVE UNCHANGED orders
  BY <1>5 DEF Elapse
<1>. QED BY <1>1, <1>2, <1>3, <1>4, <1>5 DEF Next, Finish, Arrive

\* The table of a finished submission and of a finished cancel.
LEMMA FinishedCalls ==
  ASSUME LiveTables
  PROVE  /\ StoreSubmitted =>
              /\ doing.number \in DOMAIN broker /\ IdsOf(doing.number) = {}
              /\ doing.id \in DOMAIN orders => IsTerminal(orders[doing.id].status)
              /\ orders' = [x \in DOMAIN orders \cup {doing.id} |->
                             IF x = doing.id THEN LiveOrder(doing.number, "pendingNew")
                                             ELSE orders[x]]
         /\ FinishCancel =>
              \E order : /\ order.number = orders[doing.id].number
                         /\ order.status = "pendingCancel"
                         /\ order.filled = orders[doing.id].filled
                         /\ doing.id \in DOMAIN orders
                         /\ orders' = [orders EXCEPT ![doing.id] = order]
<1>1. ASSUME FinishCancel
      PROVE  LET order == [orders[doing.id] EXCEPT !.status = "pendingCancel"]
             IN  /\ order.number = orders[doing.id].number
                 /\ order.status = "pendingCancel"
                 /\ order.filled = orders[doing.id].filled
                 /\ doing.id \in DOMAIN orders
                 /\ orders' = [orders EXCEPT ![doing.id] = order]
  <2>1. doing.id \in DOMAIN orders
    BY <1>1, DoingForms DEF FinishCancel, LiveTables
  <2>2. orders[doing.id] \in OrderRecord
    BY <2>1 DEF LiveTables
  <2>. QED BY <1>1, <2>1, <2>2 DEF FinishCancel, OrderRecord
<1>2. FinishCancel =>
        \E order : /\ order.number = orders[doing.id].number
                   /\ order.status = "pendingCancel"
                   /\ order.filled = orders[doing.id].filled
                   /\ doing.id \in DOMAIN orders
                   /\ orders' = [orders EXCEPT ![doing.id] = order]
  BY <1>1, Zenon
<1>. QED BY <1>2, DoingForms DEF StoreSubmitted, Put, LiveTables, SubmissionIsNew

\* An order that is not over is never replaced under its id, however callers
\* number their orders and whatever next_order_id_ gives to others.
THEOREM ActiveOrdersAreKept == Spec => ActiveOrderKeepsItsId
<1>. DEFINE Kept == \A id \in DOMAIN orders :
              ~IsTerminal(orders[id].status)
                => id \in DOMAIN orders' /\ orders'[id].number = orders[id].number
<1>1. LiveInv /\ [Next]_vars => [Kept]_vars
  <2>. SUFFICES ASSUME LiveInv, [Next]_vars PROVE Kept
    BY Zenon
  <2>1. LiveTables /\ BrokerTables
    BY LiveInvParts
  <2>2. ASSUME NEW id \in DOMAIN orders, NEW report \in ReportRecord,
               orders' = [orders EXCEPT ![id] = Updated(@, report)]
        PROVE  Kept
    <3>1. Updated(orders[id], report).number = orders[id].number
      BY <2>1, UpdatedOrder DEF LiveTables
    <3>. QED BY <2>2, <3>1
  <2>3. CASE StoreSubmitted
    BY <2>1, <2>3, FinishedCalls
  <2>4. CASE FinishCancel
    BY <2>1, <2>4, FinishedCalls
  <2>5. ASSUME NEW order, nextId \notin DOMAIN orders, orders' = Put(orders, nextId, order)
        PROVE  Kept
    BY <2>5 DEF Put
  <2>. QED BY <2>1, <2>2, <2>3, <2>4, <2>5, TableChanges
<1>. QED BY <1>1, LiveInvariant, PTL DEF Spec, ActiveOrderKeepsItsId

\* Late and repeated reports never reopen an order that is over: only a cancel of
\* it does, and a new order under its id.
THEOREM ReportsDoNotReopen == Spec => OnlyCancelReopens
<1>. DEFINE Stays == \A id \in DOMAIN orders :
              IsTerminal(orders[id].status) /\ ~IsTerminal(orders'[id].status)
                => orders'[id].status = "pendingCancel" \/ orders'[id].number # orders[id].number
<1>1. LiveInv /\ [Next]_vars => [Stays]_vars
  <2>. SUFFICES ASSUME LiveInv, [Next]_vars PROVE Stays
    BY Zenon
  <2>1. LiveTables /\ BrokerTables
    BY LiveInvParts
  <2>2. ASSUME NEW id \in DOMAIN orders, NEW report \in ReportRecord,
               orders' = [orders EXCEPT ![id] = Updated(@, report)]
        PROVE  Stays
    <3>1. IsTerminal(orders[id].status) => IsTerminal(Updated(orders[id], report).status)
      BY <2>1, UpdatedOrder DEF LiveTables
    <3>. QED BY <2>2, <3>1
  <2>3. CASE StoreSubmitted
    <3>1. \A id \in DOMAIN orders : orders[id].number # doing.number
      BY <2>1, <2>3, FinishedCalls DEF IdsOf
    <3>2. LiveOrder(doing.number, "pendingNew").number = doing.number
      BY DEF LiveOrder
    <3>. QED BY <2>1, <2>3, <3>1, <3>2, FinishedCalls
  <2>4. CASE FinishCancel
    BY <2>1, <2>4, FinishedCalls
  <2>5. ASSUME NEW order, nextId \notin DOMAIN orders, orders' = Put(orders, nextId, order)
        PROVE  Stays
    BY <2>5 DEF Put
  <2>6. CASE UNCHANGED orders
    BY <2>6
  <2>. HIDE DEF Stays
  <2>. QED BY <2>1, <2>2, <2>3, <2>4, <2>5, <2>6, TableChanges
<1>. QED BY <1>1, LiveInvariant, PTL DEF Spec, OnlyCancelReopens
-----------------------------------------------------------------------------
(***************************************************************************)
(* The duplicate-order window.  An order is within it from the call of the *)
(* broker on, but its fingerprint is noted only when that call returns: in *)
(* between it is the order being submitted, the only one.                  *)
(***************************************************************************)
IsBeingSubmitted(b, key) ==
  doing.op = "submit" /\ doing.number = b /\ doing.key = key

WindowInv ==
  /\ ~Window => fresh = {}
  /\ doing.op = "submit" => doing.key \notin recent
  /\ \A b \in fresh : \E key \in Keys :
       broker[b].key = {key} /\ (key \in recent \/ IsBeingSubmitted(b, key))
  /\ NoTwinInWindow

\* What becomes of an order at the broker.
Remains(b) ==
  /\ b \in DOMAIN broker' /\ broker'[b].key = broker[b].key
  /\ Reported(broker[b]) => Reported(broker'[b])

\* The broker never forgets an order, nor its fingerprint, and reports what it executes.
LEMMA KeysAreKept ==
  ASSUME LiveTables, BrokerTables, [Next]_vars, NEW b \in DOMAIN broker
  PROVE  Remains(b)
<1>1. /\ DOMAIN broker = 1..Len(broker) /\ Len(broker) \in Nat
      /\ broker \in Seq(BrokerOrder)
      /\ \A n \in DOMAIN broker : broker[n] \in BrokerOrder
  BY BrokerDomains, ElementOfSeq DEF BrokerTables
<1>2. ASSUME NEW quantity, NEW keys, Place(quantity, keys)
      PROVE  Remains(b)
  <2>1. b \in DOMAIN broker' /\ broker'[b] = broker[b]
    BY <1>1, <1>2 DEF Place
  <2>. QED BY <2>1 DEF Remains
<1>3. ASSUME NEW n \in DOMAIN broker, NEW order, order.key = broker[n].key,
             Reported(broker[n]) => Reported(order),
             broker' = [broker EXCEPT ![n] = order]
      PROVE  Remains(b)
  BY <1>3 DEF Remains
<1>4. broker' = broker => Remains(b)
  BY DEF Remains
<1>6. ASSUME NEW numbers, Ask(numbers)
      PROVE  Remains(b)
  <2>. DEFINE order == [broker[b] EXCEPT !.asked = TRUE]
  <2>1. /\ order.key = broker[b].key /\ order.executed = broker[b].executed
        /\ order.reported = broker[b].reported /\ order.acked = broker[b].acked
    BY <1>1 DEF BrokerOrder
  <2>2. b \in DOMAIN broker' /\ broker'[b] \in {order, broker[b]}
    BY <1>6 DEF Ask
  <2>. HIDE DEF order
  <2>. QED BY <2>1, <2>2 DEF Remains, Reported
<1>7. ASSUME NEW id \in DOMAIN orders, NEW quantity, ModifyOrder(id, quantity)
      PROVE  Remains(b)
  <2>. DEFINE n == orders[id].number
              order == [broker[n] EXCEPT !.quantity = quantity]
  <2>1. n \in DOMAIN broker
    BY DEF LiveTables
  <2>2. /\ order.key = broker[n].key /\ order.executed = broker[n].executed
        /\ order.reported = broker[n].reported /\ order.acked = broker[n].acked
    BY <1>1, <2>1 DEF BrokerOrder
  <2>3. broker' = [broker EXCEPT ![n] = order]
    BY <1>7 DEF ModifyOrder
  <2>. HIDE DEF n, order
  <2>4. Reported(broker[n]) => Reported(order)
    BY <2>2 DEF Reported
  <2>. QED BY <1>3, <2>1, <2>2, <2>3, <2>4
<1>8. CASE BrokerStep
  <2>1. CASE PlaceForeign
    BY <1>2, <2>1 DEF PlaceForeign
  <2>2. ASSUME NEW n \in DOMAIN broker, NEW i, Lose(n, i)
        PROVE  broker' = broker
    BY <2>2 DEF Lose
  <2>3. ASSUME NEW n \in DOMAIN broker, NEW order, NEW status, NEW lots, ReportStep(n, order, status, lots)
        PROVE  Remains(b)
    BY <1>3, <2>3 DEF ReportStep
  <2>. QED BY <1>4, <1>8, <2>1, <2>2, <2>3, BrokerSteps
<1>9. CASE Call
  <2>1. ASSUME NEW id, NEW key, SubmitAccepted(id, key) \/ SubmitUnanswered(id, key)
        PROVE  Remains(b)
    BY <1>2, <2>1 DEF SubmitAccepted, SubmitUnanswered
  <2>2. ASSUME NEW id, NEW key, SubmitRefused(id, key)
        PROVE  broker' = broker
    BY <2>2 DEF SubmitRefused, brokerVars
  <2>3. ASSUME NEW id, CancelOrder(id)
        PROVE  Remains(b)
    BY <1>6, <2>3 DEF CancelOrder
  <2>4. CASE CancelMany
    BY <1>6, <2>4 DEF CancelMany
  <2>. QED BY <1>4, <1>7, <1>9, <2>1, <2>2, <2>3, <2>4 DEF Call
<1>10. StartReconcile \/ Finish => broker' = broker
  BY DEF StartReconcile, Finish, StoreSubmitted, FinishCancel, ReconcileOne, EndReconcile,
       brokerVars
<1>11. (\E key \in Keys : Elapse(key)) \/ (\E n \in DOMAIN broker : Arrive(n))
         => broker' = broker
  BY DEF Elapse, Arrive, Deliver, brokerVars
<1>12. UNCHANGED vars => broker' = broker
  BY DEF vars, brokerVars
<1>. QED BY <1>4, <1>8, <1>9, <1>10, <1>11, <1>12 DEF Next

\* Orders come to the broker by submission, and from others.
LEMMA OnlyPlacesAdd ==
  ASSUME LiveTables, BrokerTables, [Next]_vars
  PROVE  \/ DOMAIN broker' = DOMAIN broker
         \/ PlaceForeign
         \/ \E id \in CallerIds : \E key \in Keys : SubmitAccepted(id, key) \/ SubmitUnanswered(id, key)
<1>1. CASE BrokerStep
  <2>1. ASSUME NEW n \in DOMAIN broker, NEW order, NEW status, NEW lots, ReportStep(n, order, status, lots)
        PROVE  DOMAIN broker' = DOMAIN broker
    BY <2>1 DEF ReportStep
  <2>2. ASSUME NEW n \in DOMAIN broker, NEW i, Lose(n, i)
        PROVE  DOMAIN broker' = DOMAIN broker
    BY <2>2 DEF Lose
  <2>. QED BY <1>1, <2>1, <2>2, BrokerSteps
<1>2. CASE Call
  BY <1>2 DEF Call, SubmitRefused, CancelOrder, CancelMany, ModifyOrder, Ask, brokerVars
<1>3. CASE StartReconcile \/ Finish \/ (\E key \in Keys : Elapse(key)) \/ (\E n \in DOMAIN broker : Arrive(n))
  BY <1>3 DEF StartReconcile, Finish, StoreSubmitted, FinishCancel, ReconcileOne, EndReconcile,
     Elapse, Arrive, Deliver, brokerVars
<1>4. CASE UNCHANGED vars
  BY <1>4 DEF vars, brokerVars
<1>. QED BY <1>1, <1>2, <1>3, <1>4 DEF Next

\* A step that neither submits nor lets the window pass keeps it.
LEMMA WindowStays ==
  ASSUME LiveTables, BrokerTables, WindowInv, [Next]_vars, UNCHANGED <<recent, fresh>>,
         \/ doing' = doing
         \/ doing.op # "submit" /\ doing'.op # "submit",
         \A n \in DOMAIN broker' : n \in DOMAIN broker \/ \A b \in fresh : broker[b].key # broker'[n].key
  PROVE  WindowInv'
<1>1. fresh \subseteq DOMAIN broker
  BY DEF BrokerTables
<1>2. \A b \in DOMAIN broker : broker'[b].key = broker[b].key
  BY KeysAreKept DEF Remains
<1>3. NoTwinInWindow'
  <2>1. ASSUME NEW b1 \in fresh, NEW b2 \in DOMAIN broker', b1 < b2
        PROVE  broker'[b1].key # broker'[b2].key
    <3>1. broker'[b1].key = broker[b1].key
      BY <1>1, <1>2
    <3>2. CASE b2 \in DOMAIN broker
      BY <1>2, <2>1, <3>1, <3>2 DEF WindowInv, NoTwinInWindow
    <3>. QED BY <3>1, <3>2
  <2>. QED BY <2>1 DEF NoTwinInWindow
<1>. QED BY <1>1, <1>2, <1>3 DEF WindowInv, IsBeingSubmitted

\* A fingerprint that is not on record, while nothing is being submitted, is that of no
\* order in the window; an order of others has none.
LEMMA NewKey ==
  ASSUME LiveTables, BrokerTables, WindowInv, [Next]_vars,
         NEW quantity, NEW keys, Place(quantity, keys),
         keys = {} \/ (doing = Idle /\ \E key \in Keys : keys = {key} /\ key \notin recent)
  PROVE  /\ DOMAIN broker' = DOMAIN broker \cup {Len(broker) + 1}
         /\ broker'[Len(broker) + 1].key = keys
         /\ \A b \in fresh : broker[b].key # keys /\ b < Len(broker) + 1
<1>1. /\ Len(broker) \in Nat /\ DOMAIN broker = 1..Len(broker) /\ fresh \subseteq DOMAIN broker
      /\ broker' = Append(broker, Placed(quantity, keys)) /\ broker \in Seq(BrokerOrder)
  BY BrokerDomains DEF BrokerTables, Place
<1>2. DOMAIN broker' = 1..(Len(broker) + 1) /\ broker'[Len(broker) + 1] = Placed(quantity, keys)
  BY <1>1
<1>3. DOMAIN broker' = DOMAIN broker \cup {Len(broker) + 1}
  BY <1>1, <1>2
<1>4. \A b \in fresh : b < Len(broker) + 1
  BY <1>1
<1>5. \A b \in fresh : broker[b].key # keys
  BY DEF WindowInv, IsBeingSubmitted, Idle
<1>6. broker'[Len(broker) + 1].key = keys
  BY <1>2 DEF Placed
<1>. QED BY <1>3, <1>4, <1>5, <1>6

LEMMA WindowInvNext ==
  ASSUME LiveTables, BrokerTables, WindowInv, [Next]_vars
  PROVE  WindowInv'
<1>0. fresh \subseteq DOMAIN broker /\ doing \in Doings
  BY DEF BrokerTables, LiveTables
<1>1. ASSUME NEW id \in CallerIds, NEW key \in Keys, SubmitAccepted(id, key)
      PROVE  WindowInv'
  <2>. DEFINE new == Len(broker) + 1
  <2>1. /\ doing = Idle /\ key \notin recent /\ recent' = recent
        /\ fresh' = fresh \cup (IF Window THEN {new} ELSE {})
        /\ doing'.op = "submit" /\ doing'.number = new /\ doing'.key = key
        /\ Place(QuantityOf[key], {key})
    BY <1>1 DEF SubmitAccepted, MaySubmit, Submission
  <2>2. /\ DOMAIN broker' = DOMAIN broker \cup {new} /\ broker'[new].key = {key}
        /\ \A b \in fresh : broker[b].key # {key} /\ b < new
    BY <2>1, NewKey
  <2>3. new \in Nat /\ \A n \in DOMAIN broker : n < new /\ n \in Nat
    BY BrokerDomains
  <2>4. \A b \in DOMAIN broker : broker'[b].key = broker[b].key
    BY KeysAreKept DEF Remains
  <2>5. \A b \in fresh : \E k \in Keys : k \in recent /\ broker[b].key = {k}
    BY <2>1 DEF WindowInv, IsBeingSubmitted, Idle
  <2>. HIDE DEF new
  <2>6. NoTwinInWindow'
    <3>1. ASSUME NEW b1 \in fresh', NEW b2 \in DOMAIN broker', b1 < b2
          PROVE  broker'[b1].key # broker'[b2].key
      <4>1. CASE b1 \notin fresh
        <5>1. b1 = new
          BY <2>1, <4>1
        <5>. QED BY <2>2, <2>3, <3>1, <5>1
      <4>2. CASE b1 \in fresh
        <5>1. broker'[b1].key = broker[b1].key
          BY <1>0, <2>4, <4>2
        <5>2. CASE b2 = new
          BY <2>2, <4>2, <5>1, <5>2
        <5>3. CASE b2 \in DOMAIN broker
          BY <2>4, <3>1, <4>2, <5>1, <5>3 DEF WindowInv, NoTwinInWindow
        <5>. QED BY <2>2, <5>2, <5>3
      <4>. QED BY <4>1, <4>2
    <3>. QED BY <3>1 DEF NoTwinInWindow
  <2>7. \A b \in fresh' : \E k \in Keys : broker'[b].key = {k} /\ (k \in recent' \/ IsBeingSubmitted(b, k)')
    BY <1>0, <2>1, <2>2, <2>4, <2>5 DEF IsBeingSubmitted
  <2>. QED BY <2>1, <2>6, <2>7 DEF WindowInv
<1>2. CASE StoreSubmitted
  <2>1. /\ doing.op = "submit" /\ doing'.op = "idle"
        /\ recent' = recent \cup (IF Window THEN {doing.key} ELSE {})
        /\ fresh' = fresh /\ broker' = broker
    BY <1>2 DEF StoreSubmitted, Idle, brokerVars
  <2>2. CASE Window
    BY <2>1, <2>2 DEF WindowInv, NoTwinInWindow, IsBeingSubmitted
  <2>3. CASE ~Window
    BY <2>1, <2>3 DEF WindowInv, NoTwinInWindow, IsBeingSubmitted
  <2>. QED BY <2>2, <2>3
<1>3. ASSUME NEW key \in Keys, Elapse(key)
      PROVE  WindowInv'
  <2>1. /\ doing.op = "submit" => doing.key # key
        /\ recent' = recent \ {key} /\ doing' = doing /\ broker' = broker
        /\ fresh' = {b \in fresh : broker[b].key # {key}}
    BY <1>3 DEF Elapse, brokerVars
  <2>. QED BY <2>1 DEF WindowInv, NoTwinInWindow, IsBeingSubmitted
<1>4. CASE BrokerStep \/ (\E b \in DOMAIN broker : Arrive(b)) \/ UNCHANGED vars
  <2>1. UNCHANGED <<recent, fresh>> /\ doing' = doing
    BY <1>4 DEF BrokerStep, PlaceForeign, Acknowledge, Execute, Close, Lose, Arrive, Deliver,
         vars, liveVars
  <2>2. CASE PlaceForeign
    <3>1. PICK quantity : Place(quantity, {})
      BY <2>2 DEF PlaceForeign
    <3>2. \A n \in DOMAIN broker' : n \in DOMAIN broker \/ \A b \in fresh : broker[b].key # broker'[n].key
      BY <3>1, NewKey
    <3>. QED BY <2>1, <3>2, WindowStays
  <2>3. CASE ~PlaceForeign
    <3>1. DOMAIN broker' = DOMAIN broker
      <4>1. CASE BrokerStep
        BY <2>3, <4>1, BrokerSteps DEF ReportStep, Lose
      <4>2. CASE ~BrokerStep
        BY <1>4, <4>2 DEF Arrive, Deliver, vars, brokerVars
      <4>. QED BY <4>1, <4>2
    <3>. QED BY <2>1, <3>1, WindowStays
  <2>. QED BY <2>2, <2>3
<1>5. ASSUME NEW id \in CallerIds, NEW key \in Keys, SubmitUnanswered(id, key) \/ SubmitRefused(id, key)
      PROVE  WindowInv'
  <2>1. UNCHANGED <<recent, fresh>> /\ doing' = doing
    BY <1>5 DEF SubmitRefused, SubmitUnanswered
  <2>2. CASE SubmitUnanswered(id, key)
    <3>1. Place(QuantityOf[key], {key}) /\ doing = Idle /\ key \notin recent
      BY <2>2 DEF SubmitUnanswered, MaySubmit
    <3>2. \A n \in DOMAIN broker' : n \in DOMAIN broker \/ \A b \in fresh : broker[b].key # broker'[n].key
      BY <3>1, NewKey
    <3>. QED BY <2>1, <3>2, WindowStays
  <2>3. CASE SubmitRefused(id, key)
    <3>1. DOMAIN broker' = DOMAIN broker
      BY <2>3 DEF SubmitRefused, brokerVars
    <3>. QED BY <2>1, <3>1, WindowStays
  <2>. QED BY <1>5, <2>2, <2>3
<1>6. ASSUME NEW id \in DOMAIN orders, CancelOrder(id)
      PROVE  WindowInv'
  <2>1. /\ UNCHANGED <<recent, fresh>> /\ doing.op # "submit" /\ doing'.op # "submit"
        /\ DOMAIN broker' = DOMAIN broker
    BY <1>6 DEF CancelOrder, Ask, Cancellation, Idle, liveVars
  <2>. QED BY <2>1, WindowStays
<1>7. ASSUME NEW id \in DOMAIN orders, NEW quantity \in NewQuantities, ModifyOrder(id, quantity)
      PROVE  WindowInv'
  <2>1. /\ UNCHANGED <<recent, fresh>> /\ doing' = doing
        /\ DOMAIN broker' = DOMAIN broker
    BY <1>7 DEF ModifyOrder, liveVars
  <2>. QED BY <2>1, WindowStays
<1>8. CASE CancelMany
  <2>1. /\ UNCHANGED <<recent, fresh>> /\ doing' = doing
        /\ DOMAIN broker' = DOMAIN broker
    BY <1>8 DEF CancelMany, Ask, liveVars
  <2>. QED BY <2>1, WindowStays
<1>9. CASE StartReconcile \/ FinishCancel \/ ReconcileOne \/ EndReconcile
  <2>1. /\ UNCHANGED <<recent, fresh>> /\ doing.op # "submit" /\ doing'.op # "submit"
        /\ DOMAIN broker' = DOMAIN broker
    BY <1>9 DEF StartReconcile, FinishCancel, ReconcileOne, EndReconcile, Idle, Reconcile,
         liveVars, brokerVars
  <2>. QED BY <2>1, WindowStays
<1>. QED BY <1>1, <1>2, <1>3, <1>4, <1>5, <1>6, <1>7, <1>8, <1>9 DEF Next, Call, Finish

LEMMA WindowInvariant == Spec => []WindowInv
<1>1. Init => WindowInv
  BY DEF Init, WindowInv, NoTwinInWindow, Idle
<1>2. LiveInv /\ WindowInv /\ [Next]_vars => WindowInv'
  BY LiveInvParts, WindowInvNext
<1>. QED BY <1>1, <1>2, LiveInvariant, PTL DEF Spec

\* Within the duplicate-order window of an order that the broker answered it gets no
\* other one with the fingerprint, although submit_order() notes it only after the
\* broker has taken the order, and whatever becomes of the answers to other calls.
THEOREM WindowHasNoTwins == Spec => []NoTwinInWindow
<1>1. WindowInv => NoTwinInWindow
  BY DEF WindowInv
<1>. QED BY <1>1, WindowInvariant, PTL
-----------------------------------------------------------------------------
(***************************************************************************)
(* Counting lots.  What was reported of an order and is in no report under *)
(* way and not missed is due: the order has counted it, and of an order    *)
(* that is not known, nothing is due.                                      *)
(***************************************************************************)
Due(b) == broker[b].reported - Lots(b) - missed[b]

OnlyFillsCarryLots ==
  \A b \in DOMAIN broker : \A i \in DOMAIN wire[b] :
    wire[b][i].status \in Fills \/ wire[b][i].lots = 0

LotsInv ==
  /\ OnlyFillsCarryLots
  /\ \A b \in DOMAIN broker : \A id \in IdsOf(b) : orders[id].filled = Due(b)
  /\ \A b \in DOMAIN broker : IdsOf(b) = {} => Due(b) = 0

\* The lots of some reports are a sequence of numbers.
LEMMA LotsAreNumbers ==
  ASSUME NEW reports \in Seq(ReportRecord)
  PROVE  /\ [i \in DOMAIN reports |-> reports[i].lots] \in Seq(Int)
         /\ Len([i \in DOMAIN reports |-> reports[i].lots]) = Len(reports)
         /\ LotsOf(reports) \in Int
<1>. DEFINE lots == [i \in 1..Len(reports) |-> reports[i].lots]
<1>1. /\ Len(reports) \in Nat /\ DOMAIN reports = 1..Len(reports)
      /\ \A i \in 1..Len(reports) : reports[i] \in ReportRecord
  BY LenProperties, ElementOfSeq
<1>2. lots \in [1..Len(reports) -> Int]
  BY <1>1 DEF ReportRecord
<1>3. lots \in Seq(Int)
  BY <1>1, <1>2, SeqDef
<1>4. DOMAIN lots = 1..Len(reports) /\ DOMAIN lots = 1..Len(lots) /\ Len(lots) \in Nat
  BY <1>3, LenProperties
<1>5. Len(lots) = Len(reports)
  BY <1>1, <1>4
<1>6. [i \in DOMAIN reports |-> reports[i].lots] = lots
  BY <1>1
<1>. HIDE DEF lots
<1>. QED BY <1>3, <1>5, <1>6, SumType DEF LotsOf

\* There are no lots in no report.
LEMMA LotsOfNone == LotsOf(<<>>) = 0
<1>1. [i \in DOMAIN <<>> |-> <<>>[i].lots] = <<>>
  OBVIOUS
<1>. QED BY <1>1, SumOfEmpty DEF LotsOf

\* A report that is sent adds its lots.
LEMMA LotsOfSent ==
  ASSUME NEW reports \in Seq(ReportRecord), NEW report \in ReportRecord
  PROVE  LotsOf(Append(reports, report)) = LotsOf(reports) + report.lots
<1>. DEFINE lots == [i \in DOMAIN reports |-> reports[i].lots]
            all == Append(reports, report)
            more == [i \in DOMAIN all |-> all[i].lots]
<1>1. lots \in Seq(Int) /\ Len(lots) = Len(reports) /\ Len(reports) \in Nat
  BY LotsAreNumbers, LenProperties
<1>2. all \in Seq(ReportRecord)
  BY AppendProperties
<1>3. more \in Seq(Int) /\ Len(more) = Len(all)
  <2>. HIDE DEF all
  <2>. QED BY <1>2, LotsAreNumbers
<1>4. report.lots \in Int
  BY DEF ReportRecord
<1>5. Append(lots, report.lots) \in Seq(Int) /\ Len(Append(lots, report.lots)) = Len(lots) + 1
  BY <1>1, <1>4, AppendProperties
<1>6. Len(all) = Len(reports) + 1
  BY AppendProperties
<1>7. ASSUME NEW i \in 1..Len(more)
      PROVE  more[i] = Append(lots, report.lots)[i]
  <2>1. i \in 1..(Len(reports) + 1) /\ i \in DOMAIN all
    BY <1>1, <1>2, <1>3, <1>6, LenProperties
  <2>2. more[i] = all[i].lots
    BY <2>1
  <2>3. CASE i = Len(reports) + 1
    <3>1. all[i] = report
      BY <2>3, AppendProperties
    <3>2. Append(lots, report.lots)[i] = report.lots
      BY <1>1, <1>4, <2>3, AppendProperties
    <3>. QED BY <2>2, <3>1, <3>2
  <2>4. CASE i # Len(reports) + 1
    <3>1. i \in 1..Len(reports) /\ i \in DOMAIN reports
      BY <1>1, <2>1, <2>4, LenProperties
    <3>2. all[i] = reports[i]
      BY <3>1, AppendProperties
    <3>3. Append(lots, report.lots)[i] = lots[i]
      BY <1>1, <1>4, <3>1, AppendProperties
    <3>4. lots[i] = reports[i].lots
      BY <3>1
    <3>. QED BY <2>2, <3>2, <3>3, <3>4
  <2>. QED BY <2>3, <2>4
<1>. HIDE DEF lots, all, more
<1>8. more = Append(lots, report.lots)
  BY <1>1, <1>3, <1>5, <1>6, <1>7, SeqEqual
<1>9. SumOf(more) = SumOf(lots) + report.lots
  BY <1>1, <1>4, <1>8, SumOfAppend
<1>. QED BY <1>9 DEF LotsOf, lots, more, all

\* What is left of some reports when one is taken.
LEMMA RemovedReport ==
  ASSUME NEW reports \in Seq(ReportRecord), NEW i \in DOMAIN reports
  PROVE  LET rest == RemoveAt(reports, i)
         IN  /\ rest \in Seq(ReportRecord) /\ Len(rest) = Len(reports) - 1
             /\ \A j \in 1..Len(rest) : rest[j] = IF j < i THEN reports[j] ELSE reports[j + 1]
<1>. DEFINE rest == RemoveAt(reports, i)
            before == SubSeq(reports, 1, i - 1)
            after == SubSeq(reports, i + 1, Len(reports))
<1>0. /\ Len(reports) \in Nat /\ i \in 1..Len(reports)
      /\ \A j \in 1..Len(reports) : reports[j] \in ReportRecord
  BY LenProperties, ElementOfSeq
<1>1. /\ before \in Seq(ReportRecord) /\ Len(before) = i - 1
      /\ \A j \in 1..(i - 1) : before[j] = reports[j]
  <2>1. \A j \in 1..(i - 1) : reports[j] \in ReportRecord
    BY <1>0
  <2>. QED BY <1>0, <2>1, SubSeqProperties
<1>2. /\ after \in Seq(ReportRecord) /\ Len(after) = Len(reports) - i
      /\ \A j \in 1..(Len(reports) - i) : after[j] = reports[i + j]
  <2>1. \A j \in (i + 1)..Len(reports) : reports[j] \in ReportRecord
    BY <1>0
  <2>. QED BY <1>0, <2>1, SubSeqProperties
<1>3. rest = before \o after
  BY DEF RemoveAt
<1>. HIDE DEF before, after, rest
<1>4. /\ rest \in Seq(ReportRecord) /\ Len(rest) = Len(before) + Len(after)
      /\ \A j \in 1..(Len(before) + Len(after)) :
           rest[j] = IF j <= Len(before) THEN before[j] ELSE after[j - Len(before)]
  BY <1>1, <1>2, <1>3, ConcatProperties
<1>5. Len(rest) = Len(reports) - 1
  BY <1>0, <1>1, <1>2, <1>4
<1>6. ASSUME NEW j \in 1..Len(rest)
      PROVE  rest[j] = IF j < i THEN reports[j] ELSE reports[j + 1]
  <2>1. CASE j < i
    BY <1>0, <1>1, <1>2, <1>4, <1>5, <2>1
  <2>2. CASE ~(j < i)
    <3>1. j - (i - 1) \in 1..(Len(reports) - i) /\ i + (j - (i - 1)) = j + 1
      BY <1>0, <1>5, <2>2
    <3>2. rest[j] = after[j - (i - 1)]
      BY <1>0, <1>1, <1>2, <1>4, <1>5, <2>2
    <3>. QED BY <1>2, <2>2, <3>1, <3>2
  <2>. QED BY <2>1, <2>2
<1>. QED BY <1>1, <1>2, <1>4, <1>5, <1>6 DEF rest

\* Each of them was there before.
LEMMA RemovedElements ==
  ASSUME NEW reports \in Seq(ReportRecord), NEW i \in DOMAIN reports
  PROVE  \A j \in DOMAIN RemoveAt(reports, i) :
           \E k \in DOMAIN reports : RemoveAt(reports, i)[j] = reports[k]
<1>. DEFINE rest == RemoveAt(reports, i)
<1>1. /\ rest \in Seq(ReportRecord) /\ Len(rest) = Len(reports) - 1
      /\ \A j \in 1..Len(rest) : rest[j] = IF j < i THEN reports[j] ELSE reports[j + 1]
  BY RemovedReport
<1>. HIDE DEF rest
<1>2. ASSUME NEW j \in DOMAIN rest
      PROVE  \E k \in DOMAIN reports : rest[j] = reports[k]
  <2>1. /\ j \in 1..Len(rest) /\ j \in DOMAIN reports /\ j + 1 \in DOMAIN reports
    BY <1>1, LenProperties
  <2>. QED BY <1>1, <2>1
<1>. QED BY <1>2 DEF rest

\* A report that arrives or is lost takes its lots along.
LEMMA LotsOfRemoved ==
  ASSUME NEW reports \in Seq(ReportRecord), NEW i \in DOMAIN reports
  PROVE  LotsOf(RemoveAt(reports, i)) = LotsOf(reports) - reports[i].lots
<1>. DEFINE rest == RemoveAt(reports, i)
            lots == [j \in DOMAIN reports |-> reports[j].lots]
            less == [j \in DOMAIN rest |-> rest[j].lots]
<1>1. /\ Len(reports) \in Nat /\ i \in 1..Len(reports)
      /\ DOMAIN reports = 1..Len(reports)
      /\ \A j \in 1..Len(reports) : reports[j] \in ReportRecord
  BY LenProperties, ElementOfSeq
<1>2. /\ rest \in Seq(ReportRecord) /\ Len(rest) = Len(reports) - 1
      /\ \A j \in 1..Len(rest) : rest[j] = IF j < i THEN reports[j] ELSE reports[j + 1]
  BY RemovedReport
<1>. HIDE DEF rest
<1>3. lots \in Seq(Int) /\ Len(lots) = Len(reports)
  BY LotsAreNumbers
<1>4. less \in Seq(Int) /\ Len(less) = Len(rest)
  BY <1>2, LotsAreNumbers
<1>5. ASSUME NEW j \in 1..Len(less)
      PROVE  less[j] = IF j < i THEN lots[j] ELSE lots[j + 1]
  <2>1. j \in DOMAIN rest /\ j \in DOMAIN reports /\ j + 1 \in DOMAIN reports
    BY <1>1, <1>2, <1>4, LenProperties
  <2>2. less[j] = rest[j].lots /\ lots[j] = reports[j].lots /\ lots[j + 1] = reports[j + 1].lots
    BY <2>1
  <2>. QED BY <1>2, <1>4, <2>2
<1>6. lots[i] = reports[i].lots
  OBVIOUS
<1>. HIDE DEF lots, less
<1>7. SumOf(less) = SumOf(lots) - lots[i]
  <2>1. i \in 1..Len(lots) /\ Len(less) = Len(lots) - 1
    BY <1>1, <1>2, <1>3, <1>4
  <2>2. \A j \in 1..Len(less) : less[j] = IF j < i THEN lots[j] ELSE lots[j + 1]
    BY <1>5
  <2>. QED BY <1>3, <1>4, <2>1, <2>2, SumOfRemoved, Zenon
<1>. QED BY <1>6, <1>7 DEF LotsOf, lots, less, rest
\* The numbers that are due, and the lists they come from.
LEMMA DueIsANumber ==
  ASSUME BrokerTables, NEW b \in DOMAIN broker
  PROVE  /\ wire[b] \in Seq(ReportRecord) /\ broker[b] \in BrokerOrder
         /\ broker[b].reported \in Int /\ Lots(b) \in Int /\ missed[b] \in Int
<1>1. /\ b \in 1..Len(wire) /\ b \in 1..Len(broker) /\ b \in 1..Len(missed)
      /\ DOMAIN wire = DOMAIN broker
  BY BrokerDomains DEF BrokerTables
<1>2. wire[b] \in Seq(ReportRecord)
  BY <1>1, ElementOfSeq DEF BrokerTables
<1>3. broker[b] \in BrokerOrder /\ missed[b] \in Int
  BY <1>1, ElementOfSeq DEF BrokerTables
<1>4. Lots(b) \in Int
  BY <1>2, LotsAreNumbers DEF Lots
<1>5. broker[b].reported \in Int
  BY <1>3 DEF BrokerOrder
<1>. QED BY <1>2, <1>3, <1>4, <1>5

\* The table stays as it is and nothing new is due.
LEMMA SameDueSameCount ==
  ASSUME LiveTables, LotsInv, UNCHANGED orders,
         \A b \in DOMAIN broker : Due(b)' = Due(b),
         \A b \in DOMAIN broker' : b \in DOMAIN broker \/ Due(b)' = 0,
         OnlyFillsCarryLots'
  PROVE  LotsInv'
<1>1. \A b : IdsOf(b)' = IdsOf(b)
  BY DEF IdsOf
<1>2. ASSUME NEW b \in DOMAIN broker', NEW id \in IdsOf(b)
      PROVE  orders'[id].filled = Due(b)'
  <2>1. b \in DOMAIN broker
    BY DEF LiveTables, IdsOf
  <2>. QED BY <2>1 DEF LotsInv
<1>3. ASSUME NEW b \in DOMAIN broker', IdsOf(b) = {}
      PROVE  Due(b)' = 0
  BY <1>3 DEF LotsInv
<1>. QED BY <1>1, <1>2, <1>3, Zenon DEF LotsInv

\* Nothing is due of an order that the broker takes.
LEMMA PlaceKeepsCount ==
  ASSUME LiveTables, BrokerTables, LotsInv, UNCHANGED orders,
         NEW quantity, NEW keys, Place(quantity, keys)
  PROVE  LotsInv'
<1>1. /\ Len(broker) \in Nat /\ Len(wire) = Len(broker) /\ Len(missed) = Len(broker)
      /\ DOMAIN broker = 1..Len(broker)
      /\ broker \in Seq(BrokerOrder) /\ wire \in Seq(Seq(ReportRecord)) /\ missed \in Seq(Int)
  BY BrokerDomains DEF BrokerTables
<1>. DEFINE new == Len(broker) + 1
<1>2. /\ DOMAIN broker' = 1..new
      /\ \A b \in DOMAIN broker :
           broker'[b] = broker[b] /\ wire'[b] = wire[b] /\ missed'[b] = missed[b]
      /\ broker'[new] = Placed(quantity, keys) /\ wire'[new] = <<>> /\ missed'[new] = 0
  BY <1>1 DEF Place
<1>3. \A b \in DOMAIN broker : Due(b)' = Due(b)
  BY <1>2 DEF Due, Lots
<1>4. ASSUME NEW n, n = new
      PROVE  Due(n)' = 0
  <2>1. broker'[n].reported = 0 /\ LotsOf(wire'[n]) = 0 /\ missed'[n] = 0
    BY <1>2, <1>4, LotsOfNone DEF Placed
  <2>. QED BY <2>1 DEF Due, Lots
<1>5. \A b \in DOMAIN broker' : b \in DOMAIN broker \/ b = new
  BY <1>1, <1>2
<1>6. OnlyFillsCarryLots'
  <2>. HIDE DEF new
  <2>1. ASSUME NEW b \in DOMAIN broker', NEW i \in DOMAIN wire'[b]
        PROVE  wire'[b][i].status \in Fills \/ wire'[b][i].lots = 0
    <3>1. CASE b = new
      BY <1>2, <2>1, <3>1
    <3>2. CASE b \in DOMAIN broker
      BY <1>2, <2>1, <3>2 DEF LotsInv, OnlyFillsCarryLots
    <3>. QED BY <1>5, <3>1, <3>2
  <2>. QED BY <2>1 DEF OnlyFillsCarryLots
<1>. HIDE DEF new
<1>. QED BY <1>3, <1>4, <1>5, <1>6, SameDueSameCount

\* The broker executes lots, or none, and reports them.
LEMMA SendKeepsCount ==
  ASSUME LiveTables, BrokerTables, LotsInv, UNCHANGED <<orders, missed>>,
         NEW b \in DOMAIN broker, NEW order, NEW status \in Statuses, NEW lots \in Nat,
         order.reported = broker[b].reported + lots, status \in Fills \/ lots = 0,
         broker' = [broker EXCEPT ![b] = order], Send(b, status, lots)
  PROVE  LotsInv'
<1>. DEFINE report == Report(b, status, lots)
<1>1. /\ wire[b] \in Seq(ReportRecord) /\ broker[b].reported \in Int
      /\ Lots(b) \in Int /\ missed[b] \in Int
      /\ DOMAIN wire = DOMAIN broker /\ b \in Nat \ {0}
  BY DueIsANumber, BrokerDomains
<1>2. report \in ReportRecord /\ report.lots = lots /\ report.status = status
  BY <1>1 DEF Report, ReportRecord
<1>3. wire' = [wire EXCEPT ![b] = Append(wire[b], report)]
  BY DEF Send
<1>. HIDE DEF report
<1>4. LotsOf(wire'[b]) = LotsOf(wire[b]) + lots
  BY <1>1, <1>2, <1>3, LotsOfSent
<1>5. \A n \in DOMAIN broker : Due(n)' = Due(n)
  <2>1. Due(b)' = Due(b)
    BY <1>1, <1>4 DEF Due, Lots
  <2>2. \A n \in DOMAIN broker : n # b => Due(n)' = Due(n)
    BY <1>1, <1>3 DEF Due, Lots
  <2>. QED BY <2>1, <2>2
<1>6. OnlyFillsCarryLots'
  <2>1. ASSUME NEW n \in DOMAIN broker, NEW i \in DOMAIN wire'[n]
        PROVE  wire'[n][i].status \in Fills \/ wire'[n][i].lots = 0
    <3>1. CASE n # b
      BY <1>1, <1>3, <2>1, <3>1 DEF LotsInv, OnlyFillsCarryLots
    <3>2. CASE n = b /\ i \in DOMAIN wire[b]
      <4>1. wire'[n][i] = wire[b][i]
        BY <1>1, <1>3, <3>2, LenProperties
      <4>. QED BY <3>2, <4>1 DEF LotsInv, OnlyFillsCarryLots
    <3>3. CASE n = b /\ i \notin DOMAIN wire[b]
      <4>1. wire'[n][i] = report
        BY <1>1, <1>2, <1>3, <2>1, <3>3, LenProperties
      <4>. QED BY <1>2, <4>1
    <3>. QED BY <3>1, <3>2, <3>3
  <2>. QED BY <2>1 DEF OnlyFillsCarryLots
<1>. QED BY <1>5, <1>6, SameDueSameCount

\* A report leaves: its lots are due, unless they are missed.
LEMMA DueOfArrival ==
  ASSUME LiveTables, BrokerTables, LotsInv, NEW b \in DOMAIN broker, NEW i \in DOMAIN wire[b],
         NEW lots \in Int, UNCHANGED broker,
         wire' = [wire EXCEPT ![b] = RemoveAt(@, i)], missed' = [missed EXCEPT ![b] = @ + lots]
  PROVE  /\ Due(b)' = Due(b) + wire[b][i].lots - lots
         /\ \A n \in DOMAIN broker : n # b => Due(n)' = Due(n)
         /\ OnlyFillsCarryLots'
         /\ wire[b][i] \in ReportRecord
<1>1. /\ wire[b] \in Seq(ReportRecord) /\ broker[b].reported \in Int
      /\ Lots(b) \in Int /\ missed[b] \in Int
      /\ DOMAIN wire = DOMAIN broker /\ DOMAIN missed = DOMAIN broker
  BY DueIsANumber, BrokerDomains
<1>2. /\ wire'[b] = RemoveAt(wire[b], i) /\ missed'[b] = missed[b] + lots
      /\ \A n \in DOMAIN broker : n # b => wire'[n] = wire[n] /\ missed'[n] = missed[n]
  BY <1>1
<1>3. wire[b][i] \in ReportRecord
  BY <1>1, ElementOfSeq, LenProperties
<1>4. Due(b)' = Due(b) + wire[b][i].lots - lots
  <2>1. LotsOf(wire'[b]) = LotsOf(wire[b]) - wire[b][i].lots
    BY <1>1, <1>2, LotsOfRemoved
  <2>. QED BY <1>1, <1>2, <1>3, <2>1, SMTT(30) DEF Due, Lots, ReportRecord
<1>5. \A n \in DOMAIN broker : n # b => Due(n)' = Due(n)
  BY <1>2 DEF Due, Lots
<1>6. OnlyFillsCarryLots'
  <2>1. \A j \in DOMAIN wire'[b] : \E k \in DOMAIN wire[b] : wire'[b][j] = wire[b][k]
    BY <1>1, <1>2, RemovedElements
  <2>. QED BY <1>2, <2>1 DEF LotsInv, OnlyFillsCarryLots
<1>. QED BY <1>3, <1>4, <1>5, <1>6
\* Quantities, cancels and calls of other kinds change nothing that is due.
LEMMA OthersKeepCount ==
  ASSUME LiveTables, LotsInv, UNCHANGED <<orders, wire, missed>>, DOMAIN broker' = DOMAIN broker,
         \A b \in DOMAIN broker : broker'[b].reported = broker[b].reported
  PROVE  LotsInv'
<1>1. \A b \in DOMAIN broker : Due(b)' = Due(b)
  BY DEF Due, Lots
<1>2. OnlyFillsCarryLots'
  BY DEF LotsInv, OnlyFillsCarryLots
<1>. QED BY <1>1, <1>2, SameDueSameCount

\* One order of the table changes, and counts what is due of it.
LEMMA ChangedOrderCounts ==
  ASSUME LiveTables, LotsInv, NEW b \in DOMAIN broker, NEW id \in IdsOf(b), NEW order,
         order.number = b, order.filled = Due(b)',
         orders' = [orders EXCEPT ![id] = order], DOMAIN broker' = DOMAIN broker,
         \A n \in DOMAIN broker : n # b => Due(n)' = Due(n),
         OnlyFillsCarryLots'
  PROVE  LotsInv'
<1>1. /\ id \in DOMAIN orders /\ DOMAIN orders' = DOMAIN orders
      /\ \A x \in DOMAIN orders : orders'[x].number = orders[x].number
      /\ \A x \in DOMAIN orders : x # id => orders'[x] = orders[x] /\ orders[x].number # b
      /\ orders'[id] = order
  BY DEF LiveTables, OneIdPerBrokerOrder, IdsOf
<1>2. \A n : IdsOf(n)' = IdsOf(n)
  BY <1>1 DEF IdsOf
<1>3. ASSUME NEW n \in DOMAIN broker, NEW x \in IdsOf(n)
      PROVE  orders'[x].filled = Due(n)'
  <2>1. CASE n = b
    <3>1. x = id
      BY <1>1, <2>1 DEF IdsOf
    <3>. QED BY <1>1, <2>1, <3>1
  <2>2. CASE n # b
    <3>1. x # id /\ orders'[x] = orders[x]
      BY <1>1, <2>2 DEF IdsOf
    <3>. QED BY <2>2, <3>1 DEF LotsInv
  <2>. QED BY <2>1, <2>2
<1>4. ASSUME NEW n \in DOMAIN broker, IdsOf(n) = {}
      PROVE  Due(n)' = 0
  <2>1. n # b
    BY <1>4
  <2>. QED BY <1>4, <2>1 DEF LotsInv
<1>. QED BY <1>2, <1>3, <1>4, Zenon DEF LotsInv

\* An order that was not known is entered, and what an order replaced by it had
\* counted is missed.
LEMMA EnteredOrderCounts ==
  ASSUME LiveTables, LotsInv, NEW id, NEW order, order.number \in DOMAIN broker,
         IdsOf(order.number) = {}, order.filled = 0,
         orders' = [x \in DOMAIN orders \cup {id} |-> IF x = id THEN order ELSE orders[x]],
         DOMAIN broker' = DOMAIN broker,
         \A n \in DOMAIN broker :
           Due(n)' = IF id \in DOMAIN orders /\ n = orders[id].number THEN 0 ELSE Due(n),
         OnlyFillsCarryLots'
  PROVE  LotsInv'
<1>1. /\ DOMAIN orders' = DOMAIN orders \cup {id}
      /\ \A x \in DOMAIN orders : x # id => orders'[x] = orders[x]
      /\ \A x \in DOMAIN orders : orders[x].number # order.number
      /\ orders'[id] = order
  BY DEF IdsOf
<1>2. ASSUME NEW n \in DOMAIN broker, NEW x \in IdsOf(n)'
      PROVE  orders'[x].filled = Due(n)'
  <2>1. CASE x = id
    <3>1. n = order.number
      BY <1>1, <2>1 DEF IdsOf
    <3>2. Due(n)' = 0
      BY <1>1, <3>1 DEF LotsInv
    <3>. QED BY <1>1, <2>1, <3>2
  <2>2. CASE x # id
    <3>1. x \in DOMAIN orders /\ orders[x].number = n /\ orders'[x] = orders[x]
      BY <1>1, <2>2 DEF IdsOf
    <3>2. id \in DOMAIN orders => n # orders[id].number
      BY <2>2, <3>1 DEF LiveTables, OneIdPerBrokerOrder
    <3>3. Due(n)' = Due(n)
      BY <3>2
    <3>. QED BY <3>1, <3>3 DEF LotsInv, IdsOf
  <2>. QED BY <2>1, <2>2
<1>3. ASSUME NEW n \in DOMAIN broker, IdsOf(n)' = {}
      PROVE  Due(n)' = 0
  <2>1. CASE id \in DOMAIN orders /\ n = orders[id].number
    BY <2>1
  <2>2. CASE ~(id \in DOMAIN orders /\ n = orders[id].number)
    <3>1. IdsOf(n) = {}
      BY <1>1, <1>3, <2>2 DEF IdsOf
    <3>. QED BY <2>2, <3>1 DEF LotsInv
  <2>. QED BY <2>1, <2>2
<1>. QED BY <1>2, <1>3, Zenon DEF LotsInv

\* What a report adds to the lots of an order.
LEMMA UpdatedLots ==
  ASSUME NEW order \in OrderRecord, NEW report \in ReportRecord
  PROVE  Updated(order, report).filled =
           order.filled + IF IsValidTransition(order.status, report.status)
                             /\ report.status \in Fills
                            THEN report.lots ELSE 0
<1>1. order.filled \in Nat /\ report.lots \in Nat
  BY DEF OrderRecord, ReportRecord
<1>2. CASE ~IsValidTransition(order.status, report.status)
  <2>1. Updated(order, report) = [order EXCEPT !.status = "error"]
    BY <1>2 DEF Updated
  <2>. QED BY <1>1, <1>2, <2>1 DEF OrderRecord
<1>3. CASE IsValidTransition(order.status, report.status)
  <2>. DEFINE filled == order.filled + IF report.status \in Fills THEN report.lots ELSE 0
  <2>1. Updated(order, report) = [order EXCEPT !.status = report.status, !.filled = filled]
    BY <1>3 DEF Updated
  <2>2. Updated(order, report).filled = filled
    <3>. HIDE DEF filled
    <3>. QED BY <2>1 DEF OrderRecord
  <2>. QED BY <1>3, <2>2
<1>. QED BY <1>2, <1>3

\* The broker's steps.
LEMMA BrokerStepKeepsCount ==
  ASSUME LiveTables, BrokerTables, LotsInv, BrokerStep
  PROVE  LotsInv'
<1>1. CASE PlaceForeign
  BY <1>1, PlaceKeepsCount DEF PlaceForeign, liveVars
<1>2. ASSUME NEW b \in DOMAIN broker, NEW order, NEW status, NEW lots, ReportStep(b, order, status, lots)
      PROVE  LotsInv'
  <2>1. /\ UNCHANGED <<orders, missed>> /\ broker' = [broker EXCEPT ![b] = order] /\ Send(b, status, lots)
        /\ order.reported = broker[b].reported + lots /\ (status \in Fills \/ lots = 0)
        /\ status \in Statuses /\ lots \in Nat
    BY <1>2 DEF ReportStep, liveVars
  <2>. QED BY <2>1, SendKeepsCount
<1>5. ASSUME NEW b \in DOMAIN broker, NEW i \in DOMAIN wire[b], Lose(b, i)
      PROVE  LotsInv'
  <2>. DEFINE lots == wire[b][i].lots
  <2>1. lots \in Int /\ Due(b) \in Int
    <3>1. wire[b][i] \in ReportRecord
      BY DueIsANumber, ElementOfSeq, LenProperties
    <3>. QED BY <3>1, DueIsANumber DEF ReportRecord, Due
  <2>2. /\ UNCHANGED <<orders, broker>> /\ wire' = [wire EXCEPT ![b] = RemoveAt(@, i)]
        /\ missed' = [missed EXCEPT ![b] = @ + lots]
    BY <1>5 DEF Lose, liveVars
  <2>. HIDE DEF lots
  <2>3. /\ Due(b)' = Due(b) + wire[b][i].lots - lots
        /\ \A n \in DOMAIN broker : n # b => Due(n)' = Due(n)
        /\ OnlyFillsCarryLots'
    BY <2>1, <2>2, DueOfArrival
  <2>4. Due(b)' = Due(b)
    BY <2>1, <2>3 DEF lots
  <2>. QED BY <2>2, <2>3, <2>4, SameDueSameCount
<1>. QED BY <1>1, <1>2, <1>5, BrokerSteps

\* A report arrives: its lots are counted, or missed.
LEMMA DeliverKeepsCount ==
  ASSUME LiveTables, BrokerTables, LotsInv, NEW b \in DOMAIN broker, NEW i \in DOMAIN wire[b],
         Deliver(b, i)
  PROVE  LotsInv'
<1>. DEFINE report == wire[b][i]
<1>1. /\ UNCHANGED broker /\ wire' = [wire EXCEPT ![b] = RemoveAt(@, i)]
      /\ report \in ReportRecord /\ Due(b) \in Int
      /\ report.status \in Fills \/ report.lots = 0
  BY DueIsANumber, ElementOfSeq, LenProperties DEF Deliver, Due, LotsInv, OnlyFillsCarryLots
<1>2. report.lots \in Int
  BY <1>1 DEF ReportRecord
<1>3. CASE IdsOf(b) = {} /\ missed' = [missed EXCEPT ![b] = @ + report.lots] /\ UNCHANGED orders
  <2>1. /\ Due(b)' = Due(b) + report.lots - report.lots
        /\ \A n \in DOMAIN broker : n # b => Due(n)' = Due(n)
        /\ OnlyFillsCarryLots'
    <3>. HIDE DEF report
    <3>1. \A lots \in Int : lots = report.lots =>
            missed' = [missed EXCEPT ![b] = @ + lots]
      BY <1>3
    <3>. QED BY <1>1, <1>2, <1>3, <3>1, DueOfArrival DEF report
  <2>2. Due(b)' = Due(b)
    BY <1>1, <1>2, <2>1
  <2>. QED BY <1>1, <1>3, <2>1, <2>2, SameDueSameCount
<1>4. ASSUME NEW id \in IdsOf(b), NEW lots,
             lots = IF IsValidTransition(orders[id].status, report.status) THEN 0 ELSE report.lots,
             orders' = [orders EXCEPT ![id] = Updated(@, report)],
             missed' = [missed EXCEPT ![b] = @ + lots]
      PROVE  LotsInv'
  <2>. DEFINE order == Updated(orders[id], report)
  <2>1. id \in DOMAIN orders /\ orders[id].number = b /\ orders[id] \in OrderRecord
    BY DEF IdsOf, LiveTables
  <2>2. lots \in Int
    BY <1>2, <1>4
  <2>3. /\ Due(b)' = Due(b) + report.lots - lots
        /\ \A n \in DOMAIN broker : n # b => Due(n)' = Due(n)
        /\ OnlyFillsCarryLots'
    BY <1>1, <1>4, <2>2, DueOfArrival
  <2>4. order.filled = orders[id].filled + report.lots - lots
    <3>1. /\ orders[id].filled \in Int
          /\ order.filled = orders[id].filled +
               IF IsValidTransition(orders[id].status, report.status) /\ report.status \in Fills
                 THEN report.lots ELSE 0
      BY <1>1, <2>1, UpdatedLots DEF OrderRecord
    <3>. HIDE DEF report, order
    <3>. QED BY <1>1, <1>2, <1>4, <3>1
  <2>5. order.number = b
    BY <1>1, <2>1, UpdatedOrder
  <2>6. orders' = [orders EXCEPT ![id] = order]
    BY <1>4
  <2>7. orders[id].filled = Due(b)
    BY DEF LotsInv
  <2>8. order.filled = Due(b)'
    <3>. HIDE DEF order
    <3>. QED BY <2>3, <2>4, <2>7
  <2>. HIDE DEF order
  <2>. QED BY <1>1, <2>3, <2>5, <2>6, <2>8, ChangedOrderCounts
<1>. QED BY <1>3, <1>4 DEF Deliver
\* The order of a finished submission is entered.
LEMMA StoreSubmittedKeepsCount ==
  ASSUME LiveTables, BrokerTables, LotsInv, StoreSubmitted
  PROVE  LotsInv'
<1>1. /\ doing.number \in DOMAIN broker /\ IdsOf(doing.number) = {}
      /\ orders' = [x \in DOMAIN orders \cup {doing.id} |->
                     IF x = doing.id THEN LiveOrder(doing.number, "pendingNew") ELSE orders[x]]
      /\ broker' = broker /\ wire' = wire
      /\ missed' = IF doing.id \in DOMAIN orders
                     THEN [missed EXCEPT ![orders[doing.id].number] =
                             @ + orders[doing.id].filled]
                     ELSE missed
  BY FinishedCalls DEF StoreSubmitted, brokerVars
<1>2. PICK id, order : id = doing.id /\ order = LiveOrder(doing.number, "pendingNew")
  OBVIOUS
<1>3. order.number = doing.number /\ order.filled = 0
  BY <1>2 DEF LiveOrder
<1>4. ASSUME NEW n \in DOMAIN broker
      PROVE  Due(n)' = IF id \in DOMAIN orders /\ n = orders[id].number THEN 0 ELSE Due(n)
  <2>1. /\ broker[n].reported \in Int /\ Lots(n) \in Int /\ missed[n] \in Int
        /\ DOMAIN missed = DOMAIN broker
    BY DueIsANumber, BrokerDomains
  <2>2. CASE id \in DOMAIN orders /\ n = orders[id].number
    <3>1. missed'[n] = missed[n] + orders[id].filled
      BY <1>1, <1>2, <2>1, <2>2
    <3>2. orders[id].filled = Due(n) /\ orders[id].filled \in Int
      BY <2>2 DEF LotsInv, IdsOf, LiveTables, OrderRecord
    <3>. QED BY <1>1, <2>1, <2>2, <3>1, <3>2 DEF Due, Lots
  <2>3. CASE ~(id \in DOMAIN orders /\ n = orders[id].number)
    <3>1. missed'[n] = missed[n]
      BY <1>1, <1>2, <2>1, <2>3
    <3>. QED BY <1>1, <2>3, <3>1 DEF Due, Lots
  <2>. QED BY <2>2, <2>3
<1>5. OnlyFillsCarryLots'
  BY <1>1 DEF LotsInv, OnlyFillsCarryLots
<1>6. orders' = [x \in DOMAIN orders \cup {id} |-> IF x = id THEN order ELSE orders[x]]
  BY <1>1, <1>2
<1>. QED BY <1>1, <1>3, <1>4, <1>5, <1>6, EnteredOrderCounts

\* A cancel leaves the lots of its order alone.
LEMMA FinishCancelKeepsCount ==
  ASSUME LiveTables, BrokerTables, LotsInv, FinishCancel
  PROVE  LotsInv'
<1>1. PICK order : /\ order.number = orders[doing.id].number
                   /\ order.filled = orders[doing.id].filled
                   /\ doing.id \in DOMAIN orders
                   /\ orders' = [orders EXCEPT ![doing.id] = order]
  BY FinishedCalls
<1>2. PICK id, b : id = doing.id /\ b = orders[doing.id].number
  OBVIOUS
<1>3. id \in IdsOf(b) /\ b \in DOMAIN broker /\ order.number = b
  BY <1>1, <1>2 DEF IdsOf, LiveTables
<1>4. UNCHANGED <<broker, wire, missed>>
  BY DEF FinishCancel, brokerVars
<1>5. \A n : Due(n)' = Due(n)
  BY <1>4 DEF Due, Lots
<1>6. order.filled = Due(b)'
  BY <1>1, <1>2, <1>3, <1>5 DEF LotsInv
<1>7. OnlyFillsCarryLots'
  BY <1>4 DEF LotsInv, OnlyFillsCarryLots
<1>8. orders' = [orders EXCEPT ![id] = order]
  BY <1>1, <1>2
<1>. QED BY <1>3, <1>4, <1>5, <1>6, <1>7, <1>8, ChangedOrderCounts

\* Reconciliation counts lots of a known order again, or enters one of which
\* nothing is due.
LEMMA ReconcileOneKeepsCount ==
  ASSUME LiveTables, BrokerTables, LotsInv, ReconcileOne
  PROVE  LotsInv'
<1>1. PICK report \in snapshot : ReconcileKnown(report) \/ ReconcileUnknown(report)
  BY DEF ReconcileOne
<1>2. /\ report \in ReportRecord /\ report.number \in DOMAIN broker
      /\ UNCHANGED <<broker, wire>> /\ OnlyFillsCarryLots'
  BY DEF ReconcileOne, brokerVars, BrokerTables, LotsInv, OnlyFillsCarryLots
<1>3. CASE ReconcileKnown(report)
  <2>1. PICK id \in IdsOf(report.number), b \in {report.number} :
          /\ b = report.number
          /\ orders' = [orders EXCEPT ![id] = Updated(@, report)]
          /\ missed' = [missed EXCEPT ![b] = @ + orders[id].filled - orders'[id].filled]
    BY <1>3 DEF ReconcileKnown
  <2>2. /\ id \in DOMAIN orders /\ orders[id] \in OrderRecord /\ orders[id].number = b
        /\ b \in DOMAIN broker /\ id \in IdsOf(b)
    BY <1>2, <2>1 DEF IdsOf, LiveTables
  <2>3. PICK order : order = Updated(orders[id], report)
    OBVIOUS
  <2>4. order \in OrderRecord /\ order.number = b
    BY <1>2, <2>2, <2>3, UpdatedOrder
  <2>5. orders' = [orders EXCEPT ![id] = order] /\ orders'[id] = order
    BY <2>1, <2>2, <2>3
  <2>6. /\ broker[b].reported \in Int /\ Lots(b) \in Int /\ missed[b] \in Int
        /\ DOMAIN missed = DOMAIN broker
    BY <2>2, DueIsANumber, BrokerDomains
  <2>7. /\ missed'[b] = missed[b] + orders[id].filled - order.filled
        /\ \A n \in DOMAIN broker : n # b => missed'[n] = missed[n]
    BY <2>1, <2>2, <2>5, <2>6
  <2>8. order.filled = Due(b)'
    <3>1. orders[id].filled \in Int /\ order.filled \in Int
      BY <2>2, <2>4 DEF OrderRecord
    <3>2. orders[id].filled = Due(b)
      BY <2>2 DEF LotsInv
    <3>. QED BY <1>2, <2>6, <2>7, <3>1, <3>2 DEF Due, Lots
  <2>9. \A n \in DOMAIN broker : n # b => Due(n)' = Due(n)
    BY <1>2, <2>7 DEF Due, Lots
  <2>. QED BY <1>2, <2>2, <2>4, <2>5, <2>8, <2>9, ChangedOrderCounts
<1>4. CASE ReconcileUnknown(report)
  <2>1. PICK id, order :
          /\ id = nextId /\ order = LiveOrder(report.number, report.status)
          /\ orders' = [x \in DOMAIN orders \cup {id} |-> IF x = id THEN order ELSE orders[x]]
          /\ missed' = missed /\ IdsOf(report.number) = {}
    BY <1>4 DEF ReconcileUnknown, Put
  <2>2. order.number = report.number /\ order.filled = 0
    BY <2>1 DEF LiveOrder
  <2>3. id \notin DOMAIN orders
    BY <2>1 DEF LiveTables
  <2>4. \A n \in DOMAIN broker : Due(n)' = Due(n)
    BY <1>2, <2>1 DEF Due, Lots
  <2>5. \A n \in DOMAIN broker :
          Due(n)' = IF id \in DOMAIN orders /\ n = orders[id].number THEN 0 ELSE Due(n)
    BY <2>3, <2>4
  <2>. QED BY <1>2, <2>1, <2>2, <2>5, EnteredOrderCounts
<1>. QED BY <1>1, <1>3, <1>4

\* The calls of the event loop up to the point where they reach the broker.
LEMMA CallKeepsCount ==
  ASSUME LiveTables, BrokerTables, LotsInv, Call
  PROVE  LotsInv'
<1>1. ASSUME NEW id \in CallerIds, NEW key \in Keys, SubmitAccepted(id, key)
      PROVE  LotsInv'
  BY <1>1, PlaceKeepsCount DEF SubmitAccepted
<1>7. ASSUME NEW id \in CallerIds, NEW key \in Keys, SubmitUnanswered(id, key)
      PROVE  LotsInv'
  BY <1>7, PlaceKeepsCount DEF SubmitUnanswered
<1>2. ASSUME NEW id \in CallerIds, NEW key \in Keys, SubmitRefused(id, key)
      PROVE  LotsInv'
  BY <1>2, OthersKeepCount DEF SubmitRefused, brokerVars
<1>3. ASSUME NEW numbers, Ask(numbers), UNCHANGED <<orders, wire, missed>>
      PROVE  LotsInv'
  <2>1. DOMAIN broker' = DOMAIN broker
    BY <1>3 DEF Ask
  <2>2. \A b \in DOMAIN broker : broker'[b].reported = broker[b].reported
    <3>1. \A b \in DOMAIN broker : broker[b] \in BrokerOrder
      BY DueIsANumber
    <3>. QED BY <1>3, <3>1 DEF Ask, BrokerOrder
  <2>. QED BY <1>3, <2>1, <2>2, OthersKeepCount
<1>4. ASSUME NEW id \in DOMAIN orders, CancelOrder(id)
      PROVE  LotsInv'
  BY <1>3, <1>4 DEF CancelOrder, liveVars
<1>5. CASE CancelMany
  BY <1>3, <1>5 DEF CancelMany, liveVars
<1>6. ASSUME NEW id \in DOMAIN orders, NEW quantity \in NewQuantities, ModifyOrder(id, quantity)
      PROVE  LotsInv'
  <2>1. PICK n : n = orders[id].number
    OBVIOUS
  <2>2. n \in DOMAIN broker /\ broker[n] \in BrokerOrder
    BY <2>1, DueIsANumber DEF LiveTables
  <2>3. /\ broker' = [broker EXCEPT ![n].quantity = quantity]
        /\ UNCHANGED <<orders, wire, missed>>
    BY <1>6, <2>1 DEF ModifyOrder, liveVars
  <2>4. \A b \in DOMAIN broker : broker'[b].reported = broker[b].reported
    BY <2>2, <2>3 DEF BrokerOrder
  <2>. QED BY <2>3, <2>4, OthersKeepCount
<1>. QED BY <1>1, <1>2, <1>4, <1>5, <1>6, <1>7 DEF Call

LEMMA LotsInvNext ==
  ASSUME LiveTables, BrokerTables, LotsInv, [Next]_vars
  PROVE  LotsInv'
<1>1. ASSUME UNCHANGED <<orders, broker, wire, missed>>
      PROVE  LotsInv'
  BY <1>1, OthersKeepCount
<1>2. CASE StartReconcile \/ EndReconcile \/ (\E key \in Keys : Elapse(key)) \/ UNCHANGED vars
  <2>1. UNCHANGED <<orders, broker, wire, missed>>
    BY <1>2 DEF StartReconcile, EndReconcile, Elapse, vars, liveVars, brokerVars
  <2>. QED BY <1>1, <2>1
<1>. QED BY <1>2, BrokerStepKeepsCount, CallKeepsCount, StoreSubmittedKeepsCount,
            FinishCancelKeepsCount, ReconcileOneKeepsCount, DeliverKeepsCount
         DEF Next, Finish, Arrive

LEMMA LotsInvariant == Spec => []LotsInv
<1>1. Init => LotsInv
  BY DEF Init, LotsInv, OnlyFillsCarryLots
<1>2. LiveInv /\ LotsInv /\ [Next]_vars => LotsInv'
  BY LiveInvParts, LotsInvNext
<1>. QED BY <1>1, <1>2, LiveInvariant, PTL DEF Spec

\* At least what the broker executes is reported, and no more by an adapter that reports
\* each fill by its own lots.
ReportedInv == \A b \in DOMAIN broker : Reported(broker[b])

LEMMA ReportedInvariant == Spec => []ReportedInv
<1>1. Init => ReportedInv
  BY DEF Init, ReportedInv
<1>2. LiveInv /\ ReportedInv /\ [Next]_vars => ReportedInv'
  <2>. SUFFICES ASSUME LiveTables, BrokerTables, ReportedInv, [Next]_vars, NEW b \in DOMAIN broker'
                PROVE  Reported(broker'[b])
    BY LiveInvParts DEF ReportedInv
  <2>1. CASE b \in DOMAIN broker
    BY <2>1, KeysAreKept DEF Remains, ReportedInv
  <2>2. CASE b \notin DOMAIN broker
    <3>1. PICK quantity, keys : Place(quantity, keys)
      <4>1. \/ PlaceForeign
            \/ \E id \in CallerIds : \E key \in Keys : SubmitAccepted(id, key) \/ SubmitUnanswered(id, key)
        BY <2>2, OnlyPlacesAdd
      <4>. QED BY <4>1 DEF PlaceForeign, SubmitAccepted, SubmitUnanswered
    <3>2. /\ Len(broker) \in Nat /\ DOMAIN broker = 1..Len(broker) /\ broker \in Seq(BrokerOrder)
          /\ broker' = Append(broker, Placed(quantity, keys))
      BY <3>1, BrokerDomains DEF BrokerTables, Place
    <3>3. broker'[b] = Placed(quantity, keys)
      BY <2>2, <3>2
    <3>. QED BY <3>3 DEF Placed, Reported
  <2>. QED BY <2>1, <2>2
<1>. QED BY <1>1, <1>2, LiveInvariant, PTL DEF Spec

\* Every reported lot is in its order, in a report under way or among the missed,
\* through delayed, reordered and lost reports, reused ids and reconciliation, and
\* nothing is executed that is not reported.
THEOREM ReportedLotsAreCountedOnce == Spec => []LotsAreCountedOnce
<1>1. LiveInv /\ LotsInv /\ ReportedInv => LotsAreCountedOnce
  <2>. SUFFICES ASSUME LiveTables, BrokerTables, LotsInv, ReportedInv PROVE LotsAreCountedOnce
    BY LiveInvParts
  <2>1. ASSUME NEW id \in DOMAIN orders, NEW b, b = orders[id].number
        PROVE  orders[id].filled + Lots(b) + missed[b] = broker[b].reported
    <3>1. b \in DOMAIN broker /\ id \in IdsOf(b)
      BY <2>1 DEF LiveTables, IdsOf
    <3>2. orders[id].filled = Due(b)
      BY <3>1 DEF LotsInv
    <3>. QED BY <3>1, <3>2, DueIsANumber DEF Due
  <2>. QED BY <2>1 DEF LotsAreCountedOnce, ReportedInv, Reported
<1>. QED BY <1>1, LiveInvariant, LotsInvariant, ReportedInvariant, PTL

\* If the adapter keeps to the documents and reports each fill by its own lots, every
\* executed lot is counted once: what FilledIsExecuted sees is the adapters' doing, and
\* reconciliation's.
THEOREM DocumentedFillsAreCountedOnce == Spec => []ExecutedLotsAreCounted
<1>1. LiveInv /\ LotsAreCountedOnce /\ ReportedInv => ExecutedLotsAreCounted
  <2>. SUFFICES ASSUME LiveTables, LotsAreCountedOnce, ReportedInv, Adapter = "fills", NEW id \in DOMAIN orders
                PROVE  LET b == orders[id].number
                       IN  orders[id].filled + Lots(b) + missed[b] = broker[b].executed
    BY LiveInvParts DEF ExecutedLotsAreCounted
  <2>1. orders[id].number \in DOMAIN broker
    BY DEF LiveTables
  <2>. QED BY <2>1 DEF LotsAreCountedOnce, ReportedInv, Reported
<1>. QED BY <1>1, LiveInvariant, ReportedLotsAreCountedOnce, ReportedInvariant, PTL
=============================================================================
