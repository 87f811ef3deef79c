-------------------------- MODULE LiveEngineProofs --------------------------
(***************************************************************************)
(* Proofs about LiveEngine, for every set of quantities, both kinds of     *)
(* adapter and every number of orders, lives and foreign orders.           *)
(***************************************************************************)
EXTENDS LiveEngine, FiniteSetTheorems, SumProofs

\* A sequence, whatever is in it.
IsASequence(s) == Len(s) \in Nat /\ s = [i \in 1..Len(s) |-> s[i]]

(***************************************************************************)
(* EngineInv is inductive.  MapsFollowTheTable needs that the restored     *)
(* entries of the journal have ids of their own, and that a submission     *)
(* under way and a report being handled name rows of the table, also while *)
(* the other thread changes it.                                            *)
(***************************************************************************)
Shape ==
  /\ built \in BOOLEAN /\ running \in BOOLEAN /\ (running => built)
  /\ ~built => doing = Idle /\ handling = Idle
  /\ life \in Nat
  /\ IsASequence(sorders) /\ IsASequence(broker)

\* The orders at the broker name the life and the order they come from.
Sources ==
  \A b \in DOMAIN broker :
    /\ "by" \in DOMAIN broker[b]
    /\ broker[b].by # <<>> => broker[b].by[1] \in Nat /\ broker[b].by[1] <= life

\* The table of the live order manager.
Table ==
  /\ nextId \in Nat \ {0}
  /\ live = [id \in DOMAIN live |-> LiveOrder(live[id].number, live[id].status)]
  /\ \A id \in DOMAIN live : id \in 1..(nextId - 1) /\ live[id].number \in DOMAIN broker

\* A submission between two of its steps.
SubmissionNamesRow ==
  /\ doing = Idle \/ /\ doing = Call(doing.op, doing.id, doing.number)
                     /\ doing.op # "idle" /\ doing.id \in Nat \ {0}
  /\ doing.op = "accepted" =>
       /\ doing.id \notin DOMAIN live /\ doing.id < nextId
       /\ doing.number \in DOMAIN broker /\ IdsOf(doing.number) = {}
  /\ doing.op \in {"stored", "written"} =>
       doing.id \in DOMAIN live /\ live[doing.id].number = doing.number

\* A report between two of its steps.
ReportNamesRow ==
  /\ handling = Idle
     \/ /\ handling = Handle(handling.op, handling.id, handling.number, handling.status)
        /\ handling.op \in {"write", "write and fill", "fill"}
        /\ handling.number \in DOMAIN broker
  /\ handling.op \in {"write", "write and fill"} =>
       handling.id \in DOMAIN live /\ live[handling.id].number = handling.number

\* What would be restored is in the table, as long as there is one.
JournalNamesRows ==
  /\ \A b \in DOMAIN journal : b \in DOMAIN broker /\ journal[b].id \in Nat \ {0}
  /\ built => \A b \in DOMAIN journal :
       ~IsTerminal(journal[b].status) =>
         journal[b].id \in DOMAIN live /\ live[journal[b].id].number = b

\* An order sent in this life has its id in the table and no other, or is about
\* to get it.
SentAsItself ==
  built => \A b \in DOMAIN broker :
    broker[b].by # <<>> /\ broker[b].by[1] = life =>
      \/ IdsOf(b) = {broker[b].by[2]}
      \/ doing.op = "accepted" /\ doing.number = b /\ doing.id = broker[b].by[2]

Credits ==
  /\ \A c \in credited : c.life \in Nat /\ c.life <= life /\ c.number \in DOMAIN broker
  /\ FillsFindTheirOrder

EngineInv ==
  /\ Shape /\ Sources /\ Table /\ SubmissionNamesRow /\ ReportNamesRow
  /\ MapsFollowTheTable /\ RestorableIdsAreUnique /\ JournalNamesRows
  /\ SentAsItself /\ Credits
-----------------------------------------------------------------------------
(* Sequences.                                                              *)

LEMMA SequenceDomain ==
  ASSUME NEW s, IsASequence(s)
  PROVE  Len(s) \in Nat /\ DOMAIN s = 1..Len(s)
BY DEF IsASequence

LEMMA SeqIsASequence ==
  ASSUME NEW S, NEW s \in Seq(S)
  PROVE  IsASequence(s)
<1>1. PICK n \in Nat : s \in [1..n -> S]
  BY SeqDef
<1>2. Len(s) \in Nat /\ DOMAIN s = 1..Len(s)
  BY LenProperties
<1> QED  BY <1>1, <1>2 DEF IsASequence

LEMMA EmptySequence == IsASequence(<<>>)
<1>1. <<>> = [i \in 1..0 |-> <<>>[i]]
  OBVIOUS
<1> QED  BY <1>1 DEF IsASequence

\* What is made of a sequence element by element is a sequence.
LEMMA SequenceOfSameLength ==
  ASSUME NEW s, IsASequence(s), NEW r, r = [i \in DOMAIN s |-> r[i]]
  PROVE  IsASequence(r) /\ DOMAIN r = DOMAIN s
<1>1. Len(s) \in Nat /\ DOMAIN s = 1..Len(s)
  BY SequenceDomain
<1>2. DOMAIN r = 1..Len(s) /\ r = [i \in 1..Len(s) |-> r[i]]
  BY <1>1
<1>3. r \in Seq({r[i] : i \in 1..Len(s)})
  BY <1>1, <1>2, SeqDef
<1>4. Len(r) = Len(s)
  BY <1>1, <1>2, <1>3, LenProperties
<1> QED  BY <1>1, <1>2, <1>4 DEF IsASequence

LEMMA AppendedSequence ==
  ASSUME NEW s, IsASequence(s), NEW e
  PROVE  /\ IsASequence(Append(s, e))
         /\ DOMAIN Append(s, e) = DOMAIN s \cup {Len(s) + 1}
         /\ Len(s) + 1 \notin DOMAIN s
         /\ \A i \in DOMAIN s : Append(s, e)[i] = s[i]
         /\ Append(s, e)[Len(s) + 1] = e
<1> DEFINE S == {s[i] : i \in 1..Len(s)} \cup {e}
<1>1. Len(s) \in Nat /\ DOMAIN s = 1..Len(s)
  BY SequenceDomain
<1>2. s \in Seq(S) /\ e \in S
  BY <1>1, SeqDef DEF IsASequence
<1> HIDE DEF S
<1>3. Append(s, e) \in Seq(S)
  BY <1>2, AppendProperties
<1>4. /\ Len(Append(s, e)) = Len(s) + 1
      /\ \A i \in 1..Len(s) : Append(s, e)[i] = s[i]
      /\ Append(s, e)[Len(s) + 1] = e
  BY <1>2, AppendProperties
<1>5. IsASequence(Append(s, e))
  BY <1>3, SeqIsASequence
<1> QED  BY <1>1, <1>4, <1>5, SequenceDomain
-----------------------------------------------------------------------------
(* The steps that change neither the maps nor the journal.                 *)

\* The broker's orders are the same ones and come from the same calls.
SameSources ==
  /\ IsASequence(broker')
  /\ DOMAIN broker' = DOMAIN broker
  /\ \A b \in DOMAIN broker : "by" \in DOMAIN broker'[b] /\ broker'[b].by = broker[b].by

\* A submission is where it was, or at a step at which nothing of it is in the
\* maps or everything.
SubmissionMoves ==
  \/ doing' = doing
  \/ /\ doing.op # "accepted"
     /\ doing'.op \notin {"accepted", "stored", "written"}
     /\ doing' = Idle \/ /\ doing' = Call(doing'.op, doing'.id, doing'.number)
                         /\ doing'.op # "idle" /\ doing'.id \in Nat \ {0} /\ built

LEMMA BrokerUnchanged ==
  ASSUME Shape, Sources, broker' = broker
  PROVE  SameSources
BY DEF Shape, Sources, SameSources

LEMMA QuietStep ==
  ASSUME EngineInv, SameSources, SubmissionMoves, IsASequence(sorders'),
         running' \in BOOLEAN, running' => built,
         UNCHANGED <<built, maps, handling, journal, life, credited>>
  PROVE  EngineInv'
<1> USE DEF EngineInv
<1>1. Shape'
  BY DEF Shape, SameSources, SubmissionMoves, maps, Call, Idle
<1>2. Sources'
  BY DEF Sources, SameSources
<1>3. Table'
  BY DEF Table, SameSources, maps
<1>4. SubmissionNamesRow'
  BY DEF SubmissionNamesRow, SubmissionMoves, SameSources, maps, IdsOf
<1>5. ReportNamesRow'
  BY DEF ReportNamesRow, SameSources, maps
<1>6. MapsFollowTheTable' /\ RestorableIdsAreUnique'
  BY DEF MapsFollowTheTable, RestorableIdsAreUnique, maps
<1>7. JournalNamesRows'
  BY DEF JournalNamesRows, SameSources, maps
<1>8. SentAsItself'
  BY DEF SentAsItself, SameSources, SubmissionMoves, maps, IdsOf
<1>9. Credits'
  BY DEF Credits, FillsFindTheirOrder, SameSources
<1> QED  BY <1>1, <1>2, <1>3, <1>4, <1>5, <1>6, <1>7, <1>8, <1>9

\* StrategySubmits, CloseAllPositions and BreachLimit, as far as the order goes.
LEMMA SubmitMoves ==
  ASSUME Shape, NEW quantity, SubmitOrder(quantity)
  PROVE  /\ SubmissionMoves /\ IsASequence(sorders') /\ running /\ running' = running
         /\ UNCHANGED <<built, maps, handling, journal, life, credited>>
<1>1. IsASequence(sorders')
  BY AppendedSequence DEF SubmitOrder, Shape
<1>2. Len(sorders) \in Nat
  BY DEF Shape, IsASequence
<1>3. doing.op # "accepted"
  BY DEF SubmitOrder, LoopIsFree, Idle
<1>4. doing' = Call("created", Len(sorders) + 1, 0) /\ running /\ built
  BY DEF SubmitOrder, Shape
<1>5. SubmissionMoves
  BY <1>2, <1>3, <1>4 DEF SubmissionMoves, Call
<1> QED  BY <1>1, <1>5 DEF SubmitOrder

LEMMA CancelAllKeepsSources ==
  ASSUME Shape, Sources, CancelAllOrders
  PROVE  SameSources
<1>1. PICK ids \in SUBSET {id \in DOMAIN live : IsOpen(live[id].status)} :
        broker' = [b \in DOMAIN broker |->
                     IF \E id \in ids : live[id].number = b
                       THEN [broker[b] EXCEPT !.asked = TRUE] ELSE broker[b]]
  BY DEF CancelAllOrders
<1>2. IsASequence(broker') /\ DOMAIN broker' = DOMAIN broker
  BY <1>1, SequenceOfSameLength DEF Shape
<1>3. ASSUME NEW b \in DOMAIN broker
      PROVE  "by" \in DOMAIN broker'[b] /\ broker'[b].by = broker[b].by
  BY <1>1, <1>3 DEF Sources
<1> QED  BY <1>2, <1>3 DEF SameSources

LEMMA BrokerChangesKeepSources ==
  ASSUME Shape, Sources, NEW b \in DOMAIN broker, Execute(b) \/ Cancel(b)
  PROVE  SameSources
<1>1. IsASequence(broker') /\ DOMAIN broker' = DOMAIN broker
  BY SequenceOfSameLength DEF Execute, Cancel, Shape
<1>2. ASSUME NEW c \in DOMAIN broker
      PROVE  "by" \in DOMAIN broker'[c] /\ broker'[c].by = broker[c].by
  BY <1>2 DEF Execute, Cancel, Sources
<1> QED  BY <1>1, <1>2 DEF SameSources

\* The calls that only change a row of sorders, or nothing of the engine.
LEMMA SubmissionQuiet ==
  ASSUME EngineInv, CheckTrading \/ Refuse \/ SkipTaken \/ MakePending
  PROVE  EngineInv'
<1>1. SameSources
  BY BrokerUnchanged DEF EngineInv, CheckTrading, Refuse, SkipTaken, MakePending, outside
<1>2. IsASequence(sorders')
  BY SequenceOfSameLength
     DEF EngineInv, Shape, CheckTrading, Refuse, SkipTaken, MakePending, memory
<1>3. doing.op \in {"created", "checked", "submitted"} /\ doing # Idle /\ built
  BY DEF CheckTrading, Refuse, SkipTaken, MakePending, EngineInv, Shape, Idle
<1>4. doing = Call(doing.op, doing.id, doing.number) /\ doing.id \in Nat \ {0}
  BY <1>3 DEF EngineInv, SubmissionNamesRow
<1>5. SubmissionMoves
  <2>1. CASE MakePending
    BY <1>3, <2>1 DEF MakePending, SubmissionMoves, Idle
  <2>2. CASE CheckTrading \/ Refuse \/ SkipTaken
    <3>1. PICK op \in {"checked", "submitted"} : doing' = [doing EXCEPT !.op = op]
      BY <2>2 DEF CheckTrading, Refuse, SkipTaken
    <3>2. doing' = Call(op, doing.id, doing.number)
      BY <1>4, <3>1 DEF Call
    <3> QED  BY <1>3, <1>4, <3>2 DEF SubmissionMoves, Call
  <2> QED  BY <2>1, <2>2
<1>6. running' = running /\ UNCHANGED <<built, maps, handling, journal, life, credited>>
  BY DEF CheckTrading, Refuse, SkipTaken, MakePending, memory, maps, outside
<1> QED  BY <1>1, <1>2, <1>5, <1>6, QuietStep DEF EngineInv, Shape
-----------------------------------------------------------------------------
(* The steps of a submission that change the maps or the journal.          *)

LEMMA PlacedOrder ==
  ASSUME Shape, Sources, NEW quantity, NEW by, Place(quantity, by),
         by = <<>> \/ (\E id : by = <<life, id>>), life' = life
  PROVE  /\ IsASequence(broker') /\ Sources'
         /\ DOMAIN broker' = DOMAIN broker \cup {Len(broker) + 1}
         /\ Len(broker) + 1 \notin DOMAIN broker
         /\ \A b \in DOMAIN broker : broker'[b] = broker[b]
         /\ broker'[Len(broker) + 1].by = by
<1>1. /\ IsASequence(broker')
      /\ DOMAIN broker' = DOMAIN broker \cup {Len(broker) + 1}
      /\ Len(broker) + 1 \notin DOMAIN broker
      /\ \A b \in DOMAIN broker : broker'[b] = broker[b]
  BY AppendedSequence DEF Place, Shape
<1>2. broker'[Len(broker) + 1] = [quantity |-> quantity, by |-> by, working |-> TRUE,
                                  asked |-> FALSE, executed |-> FALSE]
  BY AppendedSequence DEF Place, Shape
<1>3. Sources'
  <2>1. "by" \in DOMAIN broker'[Len(broker) + 1] /\ broker'[Len(broker) + 1].by = by
    BY <1>2
  <2>2. by # <<>> => by[1] \in Nat /\ by[1] <= life
    BY DEF Shape
  <2> QED  BY <1>1, <2>1, <2>2 DEF Sources
<1> QED  BY <1>1, <1>2, <1>3

\* An order that nobody here sent changes nothing that the engine knows.
LEMMA ForeignStep ==
  ASSUME EngineInv, PlaceForeign,
         UNCHANGED <<memory, doing, handling, journal, life, credited>>
  PROVE  EngineInv'
<1> USE DEF EngineInv
<1>1. PICK quantity : Place(quantity, <<>>)
  BY DEF PlaceForeign
<1>2. /\ IsASequence(broker') /\ Sources'
      /\ DOMAIN broker' = DOMAIN broker \cup {Len(broker) + 1}
      /\ Len(broker) + 1 \notin DOMAIN broker
      /\ \A b \in DOMAIN broker : broker'[b] = broker[b]
      /\ broker'[Len(broker) + 1].by = <<>>
  BY <1>1, PlacedOrder
<1>3. Shape'
  BY <1>2 DEF Shape, memory
<1>4. Table' /\ SubmissionNamesRow' /\ ReportNamesRow'
  BY <1>2 DEF Table, SubmissionNamesRow, ReportNamesRow, memory, IdsOf
<1>5. MapsFollowTheTable' /\ RestorableIdsAreUnique' /\ JournalNamesRows'
  BY <1>2 DEF MapsFollowTheTable, RestorableIdsAreUnique, JournalNamesRows, memory
<1>6. SentAsItself'
  BY <1>2 DEF SentAsItself, memory, IdsOf
<1>7. Credits'
  BY <1>2 DEF Credits, FillsFindTheirOrder
<1> QED  BY <1>2, <1>3, <1>4, <1>5, <1>6, <1>7

LEMMA AcceptStep ==
  ASSUME EngineInv, Accept
  PROVE  EngineInv'
<1> USE DEF EngineInv
<1>0. /\ doing = Call("checked", doing.id, doing.number) /\ doing.id \in Nat \ {0}
      /\ built /\ doing.op = "checked"
  BY DEF Accept, SubmissionNamesRow, Shape, Idle
<1>1. /\ IsASequence(broker') /\ Sources'
      /\ DOMAIN broker' = DOMAIN broker \cup {Len(broker) + 1}
      /\ Len(broker) + 1 \notin DOMAIN broker
      /\ \A b \in DOMAIN broker : broker'[b] = broker[b]
      /\ broker'[Len(broker) + 1].by = <<life, doing.id>>
  BY PlacedOrder DEF Accept
<1>2. doing' = Call("accepted", doing.id, Len(broker) + 1)
  BY <1>0 DEF Accept, Call
<1>3. /\ nextId \in Nat \ {0} /\ nextId' \in Nat \ {0}
      /\ nextId <= nextId' /\ doing.id < nextId'
  BY <1>0 DEF Accept, Greater, Table
<1>4. /\ UNCHANGED <<built, running, live, brokerOf, idOf, sorders, handling, journal, life,
                     credited>>
      /\ doing.id \notin DOMAIN live
  BY DEF Accept, IsTaken, MapsFollowTheTable
<1>5. IdsOf(Len(broker) + 1) = {}
  BY <1>1 DEF IdsOf, Table
<1>6. Shape'
  BY <1>0, <1>1, <1>4 DEF Shape
<1>7. Table'
  <2>1. \A id \in DOMAIN live : id \in 1..(nextId - 1) /\ live[id].number \in DOMAIN broker
    BY DEF Table
  <2>2. \A id \in DOMAIN live : id \in 1..(nextId' - 1)
    BY <1>3, <2>1
  <2> QED  BY <1>1, <1>3, <1>4, <2>1, <2>2 DEF Table
<1>8. SubmissionNamesRow'
  <2>1. doing'.number = Len(broker) + 1 /\ doing'.id = doing.id /\ doing'.op = "accepted"
    BY <1>2 DEF Call
  <2>2. IdsOf(doing.number)' = {}
    BY <1>4, <1>5, <2>1 DEF IdsOf
  <2> QED  BY <1>0, <1>1, <1>2, <1>3, <1>4, <2>1, <2>2 DEF SubmissionNamesRow
<1>9. ReportNamesRow'
  BY <1>1, <1>4 DEF ReportNamesRow
<1>10. MapsFollowTheTable' /\ RestorableIdsAreUnique' /\ JournalNamesRows'
  BY <1>1, <1>4 DEF MapsFollowTheTable, RestorableIdsAreUnique, JournalNamesRows
<1>11. SentAsItself'
  <2> SUFFICES ASSUME built', NEW b \in DOMAIN broker', broker'[b].by # <<>>,
                      broker'[b].by[1] = life
               PROVE  \/ IdsOf(b)' = {broker'[b].by[2]}
                      \/ /\ doing'.op = "accepted" /\ doing'.number = b
                         /\ doing'.id = broker'[b].by[2]
    BY <1>4 DEF SentAsItself
  <2>1. CASE b = Len(broker) + 1
    <3>1. broker'[b].by[2] = doing.id
      BY <1>1, <2>1
    <3> QED  BY <1>2, <2>1, <3>1 DEF Call
  <2>2. CASE b \in DOMAIN broker
    <3>1. IdsOf(b) = {broker[b].by[2]}
      BY <1>0, <1>1, <2>2 DEF SentAsItself
    <3> QED  BY <1>1, <1>4, <2>2, <3>1 DEF IdsOf
  <2> QED  BY <1>1, <2>1, <2>2
<1>12. Credits'
  BY <1>1, <1>4 DEF Credits, FillsFindTheirOrder
<1> QED  BY <1>1, <1>6, <1>7, <1>8, <1>9, <1>10, <1>11, <1>12

LEMMA StoreStep ==
  ASSUME EngineInv, Store
  PROVE  EngineInv'
<1> USE DEF EngineInv
<1>0. /\ doing = Call("accepted", doing.id, doing.number) /\ doing.id \in Nat \ {0}
      /\ built /\ doing.op = "accepted"
      /\ doing.id \notin DOMAIN live /\ doing.id < nextId
      /\ doing.number \in DOMAIN broker /\ IdsOf(doing.number) = {}
  BY DEF Store, SubmissionNamesRow, Shape, Idle
<1>1. doing' = Call("stored", doing.id, doing.number)
  BY <1>0 DEF Store, Call
<1>2. /\ DOMAIN live' = DOMAIN live \cup {doing.id}
      /\ \A id \in DOMAIN live : live'[id] = live[id]
      /\ live'[doing.id] = LiveOrder(doing.number, "pendingNew")
      /\ live' = [id \in DOMAIN live' |-> live'[id]]
  BY <1>0 DEF Store, Put
<1>3. /\ DOMAIN brokerOf' = DOMAIN brokerOf \cup {doing.id}
      /\ \A id \in DOMAIN brokerOf : id # doing.id => brokerOf'[id] = brokerOf[id]
      /\ brokerOf'[doing.id] = doing.number
  BY DEF Store, CallBack, Put
<1>4. /\ DOMAIN idOf' = DOMAIN idOf \cup {doing.number}
      /\ \A b \in DOMAIN idOf : b # doing.number => idOf'[b] = idOf[b]
      /\ idOf'[doing.number] = doing.id
  BY DEF Store, CallBack, Put, IsTerminal, Closed
<1>5. UNCHANGED <<built, running, nextId, sorders, broker, handling, journal, life, credited>>
  BY DEF Store, outside
<1>6. live'[doing.id].number = doing.number
  BY <1>2 DEF LiveOrder
<1>7. Shape' /\ Sources'
  BY <1>0, <1>5 DEF Shape, Sources
<1>8. Table'
  <2>1. \A id \in DOMAIN live' : live'[id] = LiveOrder(live'[id].number, live'[id].status)
    BY <1>2 DEF Table, LiveOrder
  <2>2. \A id \in DOMAIN live' : id \in 1..(nextId' - 1) /\ live'[id].number \in DOMAIN broker'
    BY <1>0, <1>2, <1>5, <1>6 DEF Table
  <2>3. live' = [id \in DOMAIN live' |-> LiveOrder(live'[id].number, live'[id].status)]
    BY <1>2, <2>1
  <2> QED  BY <1>5, <2>2, <2>3 DEF Table
<1>9. SubmissionNamesRow'
  BY <1>0, <1>1, <1>2, <1>6 DEF SubmissionNamesRow, Call
<1>10. ReportNamesRow'
  BY <1>2, <1>5 DEF ReportNamesRow
<1>11. MapsFollowTheTable'
  BY <1>0, <1>2, <1>3, <1>4, <1>6 DEF MapsFollowTheTable
<1>12. RestorableIdsAreUnique' /\ JournalNamesRows'
  BY <1>2, <1>5 DEF RestorableIdsAreUnique, JournalNamesRows
<1>13. SentAsItself'
  <2> SUFFICES ASSUME NEW b \in DOMAIN broker, broker[b].by # <<>>, broker[b].by[1] = life
               PROVE  IdsOf(b)' = {broker[b].by[2]}
    BY <1>5 DEF SentAsItself
  <2>1. CASE b = doing.number
    <3>1. broker[b].by[2] = doing.id
      BY <1>0, <2>1 DEF SentAsItself
    <3> QED  BY <1>0, <1>2, <1>6, <2>1, <3>1 DEF IdsOf
  <2>2. CASE b # doing.number
    <3>1. IdsOf(b) = {broker[b].by[2]}
      BY <1>0, <2>2 DEF SentAsItself
    <3> QED  BY <1>2, <1>6, <2>2, <3>1 DEF IdsOf
  <2> QED  BY <2>1, <2>2
<1>14. Credits'
  BY <1>5 DEF Credits, FillsFindTheirOrder
<1> QED  BY <1>7, <1>8, <1>9, <1>10, <1>11, <1>12, <1>13, <1>14

\* What a journal entry that names a row of the table leaves true.
LEMMA JournalStep ==
  ASSUME EngineInv, built, NEW b \in DOMAIN broker, NEW id \in DOMAIN live, NEW status,
         live[id].number = b, journal' = Put(journal, b, Entry(id, status)),
         UNCHANGED <<built, live, broker>>
  PROVE  RestorableIdsAreUnique' /\ JournalNamesRows'
<1>1. /\ DOMAIN journal' = DOMAIN journal \cup {b}
      /\ \A c \in DOMAIN journal : c # b => journal'[c] = journal[c]
      /\ journal'[b] = Entry(id, status)
  BY DEF Put
<1>2. journal'[b].id = id /\ id \in Nat \ {0}
  BY <1>1 DEF Entry, EngineInv, Table
<1>3. JournalNamesRows'
  BY <1>1, <1>2 DEF EngineInv, JournalNamesRows
<1>4. RestorableIdsAreUnique'
  BY <1>3 DEF JournalNamesRows, RestorableIdsAreUnique
<1> QED  BY <1>3, <1>4

LEMMA WriteStep ==
  ASSUME EngineInv, Write
  PROVE  EngineInv'
<1> USE DEF EngineInv
<1>0. /\ doing = Call("stored", doing.id, doing.number) /\ doing.id \in Nat \ {0}
      /\ built /\ doing.op = "stored"
      /\ doing.id \in DOMAIN live /\ live[doing.id].number = doing.number
      /\ doing.number \in DOMAIN broker
  BY DEF Write, SubmissionNamesRow, Shape, Idle, Table
<1>1. doing' = Call("written", doing.id, doing.number)
  BY <1>0 DEF Write, Call
<1>2. UNCHANGED <<memory, handling, broker, life, credited>>
  BY DEF Write
<1>3. RestorableIdsAreUnique' /\ JournalNamesRows'
  BY <1>0, <1>2, JournalStep DEF Write, Written, memory
<1>4. Shape' /\ Sources' /\ Table' /\ ReportNamesRow' /\ MapsFollowTheTable'
  BY <1>0, <1>2 DEF Shape, Sources, Table, ReportNamesRow, MapsFollowTheTable, memory
<1>5. SubmissionNamesRow'
  BY <1>0, <1>1, <1>2 DEF SubmissionNamesRow, Call, memory
<1>6. SentAsItself'
  BY <1>0, <1>2 DEF SentAsItself, IdsOf, memory
<1>7. Credits'
  BY <1>2 DEF Credits, FillsFindTheirOrder
<1> QED  BY <1>3, <1>4, <1>5, <1>6, <1>7

LEMMA EnterStep ==
  ASSUME EngineInv, Enter
  PROVE  EngineInv'
<1> USE DEF EngineInv
<1>0. /\ doing = Call("written", doing.id, doing.number) /\ doing.id \in Nat \ {0}
      /\ built /\ doing.op = "written"
      /\ doing.id \in DOMAIN live /\ live[doing.id].number = doing.number
  BY DEF Enter, SubmissionNamesRow, Shape, Idle
<1>1. doing' = Call("submitted", doing.id, doing.number)
  BY <1>0 DEF Enter, Call
<1>2. UNCHANGED <<built, running, live, nextId, sorders, broker, handling, journal, life,
                  credited>>
  BY DEF Enter, outside
<1>3. Shape' /\ Sources' /\ Table' /\ ReportNamesRow' /\ RestorableIdsAreUnique'
      /\ JournalNamesRows'
  BY <1>0, <1>2 DEF Shape, Sources, Table, ReportNamesRow, RestorableIdsAreUnique,
                    JournalNamesRows
<1>4. MapsFollowTheTable'
  BY <1>0, <1>2 DEF MapsFollowTheTable, Enter, Put
<1>5. SubmissionNamesRow'
  BY <1>0, <1>1 DEF SubmissionNamesRow, Call
<1>6. SentAsItself'
  BY <1>0, <1>2 DEF SentAsItself, IdsOf
<1>7. Credits'
  BY <1>2 DEF Credits, FillsFindTheirOrder
<1> QED  BY <1>3, <1>4, <1>5, <1>6, <1>7
-----------------------------------------------------------------------------
(* Reports and reconciliation.                                             *)

\* A row that changes its status only, and the callback about it.
LEMMA RowUpdated ==
  ASSUME EngineInv, NEW id \in DOMAIN live, NEW b, NEW status,
         live[id].number = b,
         \/ live' = [live EXCEPT ![id] = Updated(@, status)]
         \/ live' = Put(live, id, Updated(live[id], status)),
         CallBack(id, b, live'[id].status),
         UNCHANGED <<broker>>, nextId' \in Nat, nextId <= nextId'
  PROVE  /\ Table' /\ MapsFollowTheTable'
         /\ DOMAIN live' = DOMAIN live
         /\ \A i \in DOMAIN live : live'[i].number = live[i].number
<1> USE DEF EngineInv
<1>1. /\ DOMAIN live' = DOMAIN live
      /\ live' = [i \in DOMAIN live |-> live'[i]]
      /\ \A i \in DOMAIN live : i # id => live'[i] = live[i]
      /\ live'[id] = Updated(live[id], status)
  BY DEF Put, Table
<1>2. live[id] = LiveOrder(live[id].number, live[id].status)
  BY DEF Table
<1>3. \E st : live'[id] = LiveOrder(b, st)
  <2>1. PICK st : Updated(live[id], status) = [live[id] EXCEPT !.status = st]
    BY DEF Updated
  <2>2. [LiveOrder(b, live[id].status) EXCEPT !.status = st] = LiveOrder(b, st)
    BY DEF LiveOrder
  <2> QED  BY <1>1, <1>2, <2>1, <2>2
<1>4. live'[id] = LiveOrder(live'[id].number, live'[id].status) /\ live'[id].number = b
  BY <1>3 DEF LiveOrder
<1>5. \A i \in DOMAIN live : live'[i].number = live[i].number
  BY <1>1, <1>4
<1>6. Table'
  <2>1. \A i \in DOMAIN live : live'[i] = LiveOrder(live'[i].number, live'[i].status)
    BY <1>1, <1>4 DEF Table, LiveOrder
  <2>2. live' = [i \in DOMAIN live' |-> LiveOrder(live'[i].number, live'[i].status)]
    BY <1>1, <2>1
  <2>3. \A i \in DOMAIN live : i \in 1..(nextId - 1) /\ live[i].number \in DOMAIN broker
        /\ nextId \in Nat \ {0}
    BY DEF Table
  <2>4. \A i \in DOMAIN live : i \in 1..(nextId' - 1) /\ nextId' \in Nat \ {0}
    BY <2>3
  <2>5. nextId' \in Nat \ {0}
    BY DEF Table
  <2> QED  BY <1>1, <1>5, <2>2, <2>3, <2>4, <2>5 DEF Table
<1>7. MapsFollowTheTable'
  <2>1. DOMAIN brokerOf' = DOMAIN live' /\ \A i \in DOMAIN live' : brokerOf'[i] = live'[i].number
    BY <1>1, <1>4, <1>5 DEF CallBack, Put, MapsFollowTheTable
  <2>2. CASE IsTerminal(live'[id].status)
    <3>1. DOMAIN idOf' = DOMAIN idOf \ {b} /\ \A c \in DOMAIN idOf' : idOf'[c] = idOf[c]
      BY <2>2 DEF CallBack, Without
    <3> QED  BY <1>1, <1>5, <2>1, <3>1 DEF MapsFollowTheTable
  <2>3. CASE ~IsTerminal(live'[id].status)
    <3>1. /\ DOMAIN idOf' = DOMAIN idOf \cup {b}
          /\ \A c \in DOMAIN idOf' : idOf'[c] = IF c = b THEN id ELSE idOf[c]
      BY <2>3 DEF CallBack, Put
    <3> QED  BY <1>1, <1>4, <1>5, <2>1, <3>1 DEF MapsFollowTheTable
  <2> QED  BY <2>2, <2>3
<1> QED  BY <1>1, <1>5, <1>6, <1>7

\* What is left to show when the table keeps its rows and the orders they are of.
LEMMA RowsKept ==
  ASSUME EngineInv, built, Table', MapsFollowTheTable',
         DOMAIN live' = DOMAIN live,
         \A i \in DOMAIN live : live'[i].number = live[i].number,
         nextId <= nextId', RestorableIdsAreUnique', JournalNamesRows',
         UNCHANGED <<built, running, sorders, doing, broker, life, credited>>, ReportNamesRow'
  PROVE  EngineInv'
<1> USE DEF EngineInv
<1>1. \A b : IdsOf(b)' = IdsOf(b)
  BY DEF IdsOf
<1>2. Shape' /\ Sources'
  BY DEF Shape, Sources
<1>3. SubmissionNamesRow'
  <2>1. doing.id \in Nat \ {0} /\ doing.id < nextId => doing.id < nextId'
    BY DEF Table
  <2>2. doing.op = "accepted" => doing.id \in Nat \ {0}
    BY DEF SubmissionNamesRow, Idle
  <2>3. IdsOf(doing.number)' = IdsOf(doing.number)
    BY DEF IdsOf
  <2> QED  BY <2>1, <2>2, <2>3 DEF SubmissionNamesRow
<1>4. SentAsItself'
  BY <1>1 DEF SentAsItself
<1>5. Credits'
  BY DEF Credits, FillsFindTheirOrder
<1> QED  BY <1>2, <1>3, <1>4, <1>5

LEMMA DeliverStep ==
  ASSUME EngineInv, NEW b \in DOMAIN broker, NEW i, Deliver(b, i)
  PROVE  EngineInv'
<1> USE DEF EngineInv
<1>0. /\ built /\ handling = Idle
      /\ UNCHANGED <<built, running, sorders, nextId, doing, journal, broker, life, credited>>
  BY DEF Deliver, Shape
<1>1. CASE /\ IdsOf(b) = {}
           /\ handling' = IF wire[b][i] = "filled" THEN Handle("fill", 0, b, wire[b][i]) ELSE Idle
           /\ UNCHANGED <<live, brokerOf, idOf>>
  <2>1. Table' /\ MapsFollowTheTable' /\ RestorableIdsAreUnique' /\ JournalNamesRows'
    BY <1>0, <1>1 DEF Table, MapsFollowTheTable, RestorableIdsAreUnique, JournalNamesRows
  <2>2. ReportNamesRow'
    BY <1>0, <1>1 DEF ReportNamesRow, Handle, Idle
  <2>3. nextId <= nextId'
    BY <1>0 DEF Table
  <2> QED  BY <1>0, <1>1, <2>1, <2>2, <2>3, RowsKept
<1>2. ASSUME NEW id \in IdsOf(b),
             live' = [live EXCEPT ![id] = Updated(@, wire[b][i])],
             CallBack(id, b, live'[id].status),
             handling' = Handle(IF wire[b][i] = "filled" THEN "write and fill" ELSE "write",
                                id, b, live'[id].status)
      PROVE  EngineInv'
  <2>1. id \in DOMAIN live /\ live[id].number = b
    BY DEF IdsOf
  <2>2. nextId' \in Nat /\ nextId <= nextId'
    BY <1>0 DEF Table
  <2>3. /\ Table' /\ MapsFollowTheTable'
        /\ DOMAIN live' = DOMAIN live
        /\ \A j \in DOMAIN live : live'[j].number = live[j].number
    BY <1>0, <1>2, <2>1, <2>2, RowUpdated
  <2>4. RestorableIdsAreUnique' /\ JournalNamesRows'
    BY <1>0, <2>3 DEF RestorableIdsAreUnique, JournalNamesRows
  <2>5. ReportNamesRow'
    BY <1>0, <1>2, <2>1, <2>3 DEF ReportNamesRow, Handle
  <2> QED  BY <1>0, <2>2, <2>3, <2>4, <2>5, RowsKept
<1> QED  BY <1>1, <1>2 DEF Deliver

LEMMA WriteUpdateStep ==
  ASSUME EngineInv, WriteUpdate
  PROVE  EngineInv'
<1> USE DEF EngineInv
<1>0. /\ handling = Handle(handling.op, handling.id, handling.number, handling.status)
      /\ handling.id \in DOMAIN live /\ live[handling.id].number = handling.number
      /\ handling.number \in DOMAIN broker /\ built
      /\ handling.op \in {"write", "write and fill"}
  <2>1. handling.op \in {"write", "write and fill"}
    BY DEF WriteUpdate
  <2>2. handling # Idle
    <3>1. Idle.op = "idle"
      BY DEF Idle
    <3> QED  BY ONLY <2>1, <3>1
  <2>3. built
    BY <2>2 DEF Shape
  <2>4. /\ handling = Handle(handling.op, handling.id, handling.number, handling.status)
        /\ handling.number \in DOMAIN broker
    BY <2>2 DEF ReportNamesRow
  <2>5. handling.id \in DOMAIN live /\ live[handling.id].number = handling.number
    BY <2>1 DEF ReportNamesRow
  <2> QED  BY <2>1, <2>3, <2>4, <2>5
<1>1. UNCHANGED <<built, running, live, nextId, brokerOf, idOf, sorders, doing, broker, life,
                  credited>>
  BY DEF WriteUpdate, memory
<1>2. Table' /\ MapsFollowTheTable' /\ DOMAIN live' = DOMAIN live
      /\ \A j \in DOMAIN live : live'[j].number = live[j].number
  BY <1>1 DEF Table, MapsFollowTheTable
<1>3. RestorableIdsAreUnique' /\ JournalNamesRows'
  BY <1>0, <1>1, JournalStep DEF WriteUpdate
<1>4. ReportNamesRow'
  <2>1. CASE handling.op = "write"
    BY <2>1 DEF WriteUpdate, ReportNamesRow, Idle
  <2>2. CASE handling.op # "write"
    <3>1. handling' = Handle("fill", handling.id, handling.number, handling.status)
      BY <1>0, <2>2 DEF WriteUpdate, Handle
    <3> QED  BY <1>0, <1>1, <3>1 DEF ReportNamesRow, Handle
  <2> QED  BY <2>1, <2>2
<1>5. nextId <= nextId'
  BY <1>1 DEF Table
<1> QED  BY <1>0, <1>1, <1>2, <1>3, <1>4, <1>5, RowsKept

\* A fill is booked on an order that the table has under the broker's number.
LEMMA FillNamesRow ==
  ASSUME EngineInv, NEW b
  PROVE  OrderOfFill(b) = 0 \/ OrderOfFill(b) \in IdsOf(b)
BY DEF EngineInv, OrderOfFill, MapsFollowTheTable, IdsOf

LEMMA BookFillStep ==
  ASSUME EngineInv, BookFill
  PROVE  EngineInv'
<1> USE DEF EngineInv
<1> DEFINE b == handling.number
           id == OrderOfFill(b)
           credit == [number |-> b, life |-> life, id |-> id]
<1>0. /\ b \in DOMAIN broker /\ handling.op = "fill" /\ built
      /\ handling' = Idle
  BY DEF BookFill, ReportNamesRow, Shape, Idle
<1>1. UNCHANGED <<built, running, live, nextId, brokerOf, doing, journal, broker, life>>
  BY DEF BookFill, outside
<1>2. id = 0 \/ id \in IdsOf(b)
  BY FillNamesRow
<1>3. IF id # 0 THEN idOf' = Put(idOf, b, id) ELSE idOf' = idOf
  BY DEF BookFill
<1>4. IsASequence(sorders')
  BY SequenceOfSameLength DEF BookFill, Shape
<1>5. DOMAIN sorders = 1..Len(sorders) /\ Len(sorders) \in Nat
  BY SequenceDomain DEF Shape
<1>6. credited' = credited \/ (id \in DOMAIN sorders /\ credited' = credited \cup {credit})
  BY DEF BookFill
<1> HIDE DEF id
<1>7. Shape' /\ Sources' /\ Table' /\ RestorableIdsAreUnique' /\ JournalNamesRows'
  BY <1>0, <1>1, <1>4 DEF Shape, Sources, Table, RestorableIdsAreUnique, JournalNamesRows
<1>8. SubmissionNamesRow' /\ ReportNamesRow' /\ SentAsItself'
  BY <1>0, <1>1 DEF SubmissionNamesRow, ReportNamesRow, Idle, SentAsItself, IdsOf
<1>9. MapsFollowTheTable'
  <2>1. CASE id = 0
    BY <1>1, <1>3, <2>1 DEF MapsFollowTheTable
  <2>2. CASE id # 0
    <3>1. id \in DOMAIN live /\ live[id].number = b
      BY <1>2, <2>2 DEF IdsOf
    <3>2. /\ DOMAIN idOf' = DOMAIN idOf \cup {b}
          /\ \A c \in DOMAIN idOf' : idOf'[c] = IF c = b THEN id ELSE idOf[c]
      BY <1>3, <2>2 DEF Put
    <3> QED  BY <1>1, <3>1, <3>2 DEF MapsFollowTheTable
  <2> QED  BY <2>1, <2>2
<1>10. Credits'
  <2>1. \A c \in credited : /\ c.life \in Nat /\ c.life <= life /\ c.number \in DOMAIN broker
                            /\ broker[c.number].by # <<>> /\ broker[c.number].by[1] = c.life
                               => broker[c.number].by[2] = c.id
    BY DEF Credits, FillsFindTheirOrder
  <2>2. ASSUME id \in DOMAIN sorders
        PROVE  /\ credit.life \in Nat /\ credit.life <= life /\ credit.number \in DOMAIN broker
               /\ broker[credit.number].by # <<>> /\ broker[credit.number].by[1] = credit.life
                  => broker[credit.number].by[2] = credit.id
    <3>1. id \in IdsOf(b)
      BY <1>2, <1>5, <2>2
    <3>2. ASSUME broker[b].by # <<>>, broker[b].by[1] = life
          PROVE  broker[b].by[2] = id
      <4>1. ~(doing.op = "accepted" /\ doing.number = b)
        BY <3>1 DEF SubmissionNamesRow
      <4>2. IdsOf(b) = {broker[b].by[2]}
        BY <1>0, <3>2, <4>1 DEF SentAsItself
      <4> QED  BY <3>1, <4>2
    <3>3. credit.life = life /\ credit.number = b /\ credit.id = id /\ life \in Nat
      BY DEF Shape
    <3> HIDE DEF credit, b
    <3> QED  BY <1>0, <3>2, <3>3
  <2> HIDE DEF credit
  <2>3. \A c \in credited' : /\ c.life \in Nat /\ c.life <= life /\ c.number \in DOMAIN broker
                             /\ broker[c.number].by # <<>> /\ broker[c.number].by[1] = c.life
                                => broker[c.number].by[2] = c.id
    BY <1>6, <2>1, <2>2
  <2> QED  BY <1>1, <2>3 DEF Credits, FillsFindTheirOrder
<1> QED  BY <1>7, <1>8, <1>9, <1>10

LEMMA ReconcileStep ==
  ASSUME EngineInv, NEW b \in DOMAIN broker, ReconcileOrder(b)
  PROVE  EngineInv'
<1> USE DEF EngineInv
<1>0. /\ built /\ doing = Idle
      /\ UNCHANGED <<built, running, sorders, doing, handling, broker, life, credited>>
  BY DEF ReconcileOrder, Shape, LoopIsFree
<1>1. PICK id \in ReconciledIds(b) :
        /\ live' = Put(live, id, IF IdsOf(b) = {} THEN LiveOrder(b, "new")
                                 ELSE Updated(live[id], "new"))
        /\ nextId' = Greater(nextId, id + 1)
        /\ CallBack(id, b, live'[id].status)
        /\ journal' = Put(journal, b, Entry(id, live'[id].status))
  BY DEF ReconcileOrder
<1>2. nextId \in Nat \ {0} /\ id \in Nat \ {0}
  BY DEF Table, ReconciledIds, IdsOf
<1>3. nextId' \in Nat \ {0} /\ nextId <= nextId' /\ id < nextId'
  BY <1>1, <1>2 DEF Greater
\* The broker's order has a row.
<1>4. CASE IdsOf(b) # {}
  <2>1. id \in DOMAIN live /\ live[id].number = b
    BY <1>4 DEF ReconciledIds, IdsOf
  <2>2. /\ Table' /\ MapsFollowTheTable'
        /\ DOMAIN live' = DOMAIN live
        /\ \A j \in DOMAIN live : live'[j].number = live[j].number
    BY <1>0, <1>1, <1>3, <1>4, <2>1, RowUpdated
  <2>3. RestorableIdsAreUnique' /\ JournalNamesRows'
    <3>1. /\ DOMAIN journal' = DOMAIN journal \cup {b}
          /\ \A c \in DOMAIN journal : c # b => journal'[c] = journal[c]
          /\ journal'[b].id = id
      BY <1>1 DEF Put, Entry
    <3>2. JournalNamesRows'
      BY <1>0, <1>2, <2>1, <2>2, <3>1 DEF JournalNamesRows
    <3>3. RestorableIdsAreUnique'
      BY <1>0, <3>2 DEF JournalNamesRows, RestorableIdsAreUnique
    <3> QED  BY <3>2, <3>3
  <2>4. ReportNamesRow'
    BY <1>0, <2>2 DEF ReportNamesRow
  <2> QED  BY <1>0, <1>3, <2>2, <2>3, <2>4, RowsKept
\* It gets one.
<1>5. CASE IdsOf(b) = {}
  <2>1. id = nextId /\ id \notin DOMAIN live
    BY <1>2, <1>5 DEF ReconciledIds, Table
  <2>2. /\ DOMAIN live' = DOMAIN live \cup {id}
        /\ \A i \in DOMAIN live : live'[i] = live[i]
        /\ live'[id] = LiveOrder(b, "new")
        /\ live' = [i \in DOMAIN live' |-> live'[i]]
    BY <1>1, <1>5, <2>1 DEF Put
  <2>3. live'[id].number = b /\ live'[id].status = "new" /\ ~IsTerminal("new")
    BY <2>2 DEF LiveOrder, IsTerminal, Closed
  <2>4. Table'
    <3>1. \A i \in DOMAIN live' : live'[i] = LiveOrder(live'[i].number, live'[i].status)
      BY <2>2, <2>3 DEF Table, LiveOrder
    <3>2. \A i \in DOMAIN live' : i \in 1..(nextId' - 1) /\ live'[i].number \in DOMAIN broker'
      <4>1. \A i \in DOMAIN live : i \in 1..(nextId - 1) /\ live[i].number \in DOMAIN broker
        BY DEF Table
      <4>2. \A i \in DOMAIN live' : i \in 1..(nextId' - 1)
        BY <1>2, <1>3, <2>2, <4>1
      <4> QED  BY <1>0, <2>2, <2>3, <4>1, <4>2
    <3>3. live' = [i \in DOMAIN live' |-> LiveOrder(live'[i].number, live'[i].status)]
      BY <2>2, <3>1
    <3> QED  BY <1>3, <3>2, <3>3 DEF Table
  <2>5. MapsFollowTheTable'
    <3>1. /\ DOMAIN brokerOf' = DOMAIN brokerOf \cup {id} /\ brokerOf'[id] = b
          /\ \A i \in DOMAIN brokerOf : i # id => brokerOf'[i] = brokerOf[i]
      BY <1>1 DEF CallBack, Put
    <3>2. /\ DOMAIN idOf' = DOMAIN idOf \cup {b}
          /\ \A c \in DOMAIN idOf' : idOf'[c] = IF c = b THEN id ELSE idOf[c]
      BY <1>1, <2>3 DEF CallBack, Put
    <3> QED  BY <2>1, <2>2, <2>3, <3>1, <3>2 DEF MapsFollowTheTable
  <2>6. RestorableIdsAreUnique' /\ JournalNamesRows'
    <3>1. /\ DOMAIN journal' = DOMAIN journal \cup {b}
          /\ \A c \in DOMAIN journal : c # b => journal'[c] = journal[c]
          /\ journal'[b].id = id
      BY <1>1 DEF Put, Entry
    <3>2. JournalNamesRows'
      BY <1>0, <1>2, <2>2, <2>3, <3>1 DEF JournalNamesRows
    <3>3. RestorableIdsAreUnique'
      BY <1>0, <3>2 DEF JournalNamesRows, RestorableIdsAreUnique
    <3> QED  BY <3>2, <3>3
  <2>7. SubmissionNamesRow' /\ ReportNamesRow'
    BY <1>0, <2>2 DEF SubmissionNamesRow, ReportNamesRow, Idle
  <2>8. SentAsItself'
    <3> SUFFICES ASSUME NEW c \in DOMAIN broker, broker[c].by # <<>>, broker[c].by[1] = life
                 PROVE  IdsOf(c)' = {broker[c].by[2]}
      BY <1>0 DEF SentAsItself
    <3>1. IdsOf(c) = {broker[c].by[2]}
      BY <1>0 DEF SentAsItself, Idle
    <3>2. c # b
      BY <1>5, <3>1
    <3> QED  BY <2>2, <2>3, <3>1, <3>2 DEF IdsOf
  <2>9. Shape' /\ Sources' /\ Credits'
    BY <1>0 DEF Shape, Sources, Credits, FillsFindTheirOrder
  <2> QED  BY <2>4, <2>5, <2>6, <2>7, <2>8, <2>9
<1> QED  BY <1>4, <1>5
-----------------------------------------------------------------------------
(* Life and death of the program.                                          *)

LEMMA CrashStep ==
  ASSUME EngineInv, Crash
  PROVE  EngineInv'
<1> USE DEF EngineInv
<1>1. /\ ~built' /\ built' = FALSE /\ running' = FALSE /\ doing' = Idle /\ handling' = Idle
      /\ live' = Nothing /\ brokerOf' = Nothing /\ idOf' = Nothing /\ nextId' = 1
      /\ sorders' = <<>>
      /\ UNCHANGED <<journal, broker, life, credited>>
  BY DEF Crash
<1>2. DOMAIN live' = {} /\ DOMAIN brokerOf' = {} /\ DOMAIN idOf' = {}
      /\ live' = [id \in {} |-> LiveOrder(live'[id].number, live'[id].status)]
  BY <1>1 DEF Nothing
<1>3. Shape' /\ Sources' /\ Credits'
  BY <1>1, EmptySequence DEF Shape, Sources, Credits, FillsFindTheirOrder
<1>4. Table' /\ MapsFollowTheTable'
  BY <1>1, <1>2 DEF Table, MapsFollowTheTable
<1>5. SubmissionNamesRow' /\ ReportNamesRow' /\ SentAsItself'
  BY <1>1 DEF SubmissionNamesRow, ReportNamesRow, SentAsItself, Idle
<1>6. RestorableIdsAreUnique' /\ JournalNamesRows'
  BY <1>1 DEF RestorableIdsAreUnique, JournalNamesRows
<1> QED  BY <1>3, <1>4, <1>5, <1>6

LEMMA IdBelowCounter ==
  ASSUME NEW n \in Nat, NEW id \in Nat, id # 0, id < n
  PROVE  id \in 1..(n - 1)
OBVIOUS

LEMMA ConstructStep ==
  ASSUME EngineInv, Construct
  PROVE  EngineInv'
<1> USE DEF EngineInv
<1> DEFINE kept == {b \in DOMAIN journal : ~IsTerminal(journal[b].status)}
           ids == {journal[b].id : b \in kept}
<1>1. /\ ~built /\ built' = TRUE /\ life' = life + 1
      /\ idOf' = [b \in kept |-> journal[b].id]
      /\ nextId' \in Counters(ids)
      /\ UNCHANGED <<running, sorders, doing, handling, journal, broker, credited>>
  BY DEF Construct, outside
<1>2. PICK last \in [ids -> kept] :
        /\ \A id \in ids : journal[last[id]].id = id
        /\ brokerOf' = last
        /\ live' = [id \in ids |-> LiveOrder(last[id], journal[last[id]].status)]
  BY DEF Construct
<1>3. /\ \A b \in kept : b \in DOMAIN journal /\ b \in DOMAIN broker
                         /\ journal[b].id \in Nat \ {0} /\ journal[b].id \in ids
      /\ \A b, c \in kept : journal[b].id = journal[c].id => b = c
      /\ ids \subseteq Nat \ {0}
  BY DEF RestorableIdsAreUnique, JournalNamesRows
<1>4. \A b \in kept : last[journal[b].id] = b
  BY <1>2, <1>3
<1>k. \A b \in DOMAIN journal : ~IsTerminal(journal[b].status) => b \in kept
  OBVIOUS
<1> HIDE DEF kept, ids
<1>5. doing = Idle /\ handling = Idle /\ life \in Nat
  BY <1>1 DEF Shape
<1>6. /\ DOMAIN live' = ids
      /\ \A id \in ids : live'[id].number = last[id] /\ last[id] \in kept
      /\ live' = [id \in DOMAIN live' |-> LiveOrder(live'[id].number, live'[id].status)]
  BY <1>2 DEF LiveOrder
<1>7. nextId' \in Nat \ {0} /\ \A id \in ids : id \in 1..(nextId' - 1)
  <2>1. nextId' \in {id + 1 : id \in ids \cup {0}} /\ \A id \in ids : id < nextId'
    BY <1>1 DEF Counters
  <2>2. nextId' \in Nat \ {0}
    BY <1>3, <2>1
  <2>3. ASSUME NEW id \in ids PROVE id \in 1..(nextId' - 1)
    <3>1. id \in Nat /\ id # 0 /\ id < nextId' /\ nextId' \in Nat
      BY <1>3, <2>1, <2>2
    <3> QED  BY ONLY <3>1, IdBelowCounter
  <2> QED  BY <2>2, <2>3
<1>8. Shape' /\ Sources'
  BY <1>1, <1>5 DEF Shape, Sources
<1>9. Table'
  BY <1>1, <1>3, <1>6, <1>7 DEF Table
<1>10. MapsFollowTheTable'
  BY <1>1, <1>2, <1>3, <1>4, <1>6, ZenonT(40) DEF MapsFollowTheTable
<1>11. RestorableIdsAreUnique' /\ JournalNamesRows'
  <2>1. JournalNamesRows'
    BY <1>1, <1>3, <1>4, <1>6, <1>k DEF JournalNamesRows
  <2> QED  BY <1>1, <2>1 DEF RestorableIdsAreUnique
<1>12. SubmissionNamesRow' /\ ReportNamesRow'
  BY <1>1, <1>5 DEF SubmissionNamesRow, ReportNamesRow, Idle
\* No order of the broker comes from the life that begins.
<1>13. SentAsItself'
  BY <1>1, <1>5 DEF SentAsItself, Sources
<1>14. Credits'
  BY <1>1, <1>5 DEF Credits, FillsFindTheirOrder
<1> QED  BY <1>8, <1>9, <1>10, <1>11, <1>12, <1>13, <1>14
-----------------------------------------------------------------------------
LEMMA InitEngine == Init => EngineInv
<1> SUFFICES ASSUME Init PROVE EngineInv
  OBVIOUS
<1>1. /\ built = FALSE /\ running = FALSE /\ doing = Idle /\ handling = Idle /\ life = 0
      /\ nextId = 1 /\ sorders = <<>> /\ broker = <<>> /\ credited = {}
      /\ DOMAIN live = {} /\ DOMAIN brokerOf = {} /\ DOMAIN idOf = {} /\ DOMAIN journal = {}
      /\ live = [id \in {} |-> LiveOrder(live[id].number, live[id].status)]
  BY DEF Init, Nothing
<1>2. DOMAIN broker = {}
  BY <1>1
<1>3. Shape
  BY <1>1, EmptySequence DEF Shape
<1>s. Sources /\ Table
  BY <1>1, <1>2 DEF Sources, Table
<1>4. SubmissionNamesRow /\ ReportNamesRow /\ SentAsItself
  BY <1>1 DEF SubmissionNamesRow, ReportNamesRow, SentAsItself, Idle
<1>5. MapsFollowTheTable /\ RestorableIdsAreUnique /\ JournalNamesRows /\ Credits
  BY <1>1 DEF MapsFollowTheTable, RestorableIdsAreUnique, JournalNamesRows, Credits,
              FillsFindTheirOrder
<1> QED  BY <1>3, <1>s, <1>4, <1>5 DEF EngineInv

\* The steps of QuietStep that are no step of a submission.
LEMMA OtherQuietStep ==
  ASSUME EngineInv,
         \/ Start \/ Stop \/ StrategySubmits \/ CloseAllPositions \/ BreachLimit
         \/ \E id \in DOMAIN sorders : StrategyCancels(id)
         \/ FailClosed \/ SwitchTrading \/ RefreshPositions
         \/ UNCHANGED vars
  PROVE  EngineInv'
<1> USE DEF EngineInv
<1>1. CASE StrategySubmits \/ CloseAllPositions \/ BreachLimit
  <2>1. \E quantity : SubmitOrder(quantity)
    BY <1>1 DEF StrategySubmits, CloseAllPositions, BreachLimit
  <2>2. SameSources
    BY <1>1, BrokerUnchanged, CancelAllKeepsSources
       DEF StrategySubmits, CloseAllPositions, BreachLimit
  <2> QED  BY <2>1, <2>2, SubmitMoves, QuietStep DEF Shape
<1>2. CASE FailClosed
  <2>1. SameSources
    BY <1>2, CancelAllKeepsSources DEF FailClosed
  <2>2. /\ UNCHANGED <<built, running, sorders, maps, doing, handling, journal, life, credited>>
    BY <1>2 DEF FailClosed
  <2> QED  BY <2>1, <2>2, QuietStep DEF Shape, SubmissionMoves
<1>3. CASE \E id \in DOMAIN sorders : StrategyCancels(id)
  <2>1. PICK id \in DOMAIN sorders : StrategyCancels(id)
    BY <1>3
  <2>2. IsASequence(sorders')
    BY <2>1, SequenceOfSameLength DEF StrategyCancels, Shape
  <2>3. UNCHANGED <<built, running, maps, doing, handling, journal, broker, life, credited>>
    BY <2>1 DEF StrategyCancels, outside
  <2> QED  BY <2>2, <2>3, BrokerUnchanged, QuietStep DEF Shape, SubmissionMoves
<1>4. CASE Start \/ Stop \/ SwitchTrading \/ RefreshPositions \/ UNCHANGED vars
  <2>1. UNCHANGED <<built, sorders, maps, doing, handling, journal, broker, life, credited>>
    BY <1>4 DEF Start, Stop, SwitchTrading, RefreshPositions, vars, memory, maps, outside
  <2>2. running' \in BOOLEAN /\ (running' => built)
    <3>1. \/ running' = TRUE /\ built
          \/ running' = FALSE
          \/ running' = running
      BY <1>4 DEF Start, Stop, SwitchTrading, RefreshPositions, vars, memory, maps, outside
    <3>2. running \in BOOLEAN /\ (running => built)
      BY DEF Shape
    <3>3. CASE running' = TRUE /\ built
      BY ONLY <3>3
    <3>4. CASE running' = FALSE
      BY ONLY <3>4
    <3>5. CASE running' = running
      BY ONLY <3>2, <3>5
    <3> QED  BY ONLY <3>1, <3>3, <3>4, <3>5
  <2> QED  BY <2>1, <2>2, BrokerUnchanged, QuietStep DEF Shape, SubmissionMoves
<1> QED  BY <1>1, <1>2, <1>3, <1>4

LEMMA EngineStep == EngineInv /\ [Next]_vars => EngineInv'
<1> SUFFICES ASSUME EngineInv, [Next]_vars PROVE EngineInv'
  OBVIOUS
<1>1. CASE BrokerStep
  <2>1. UNCHANGED <<memory, doing, handling, journal, life, credited>>
    BY <1>1 DEF BrokerStep
  <2>2. CASE PlaceForeign
    BY <2>1, <2>2, ForeignStep
  <2>3. CASE \E b \in DOMAIN broker : Execute(b) \/ Cancel(b)
    <3>1. SameSources
      BY <2>3, BrokerChangesKeepSources DEF EngineInv
    <3> QED  BY <2>1, <3>1, QuietStep DEF EngineInv, Shape, SubmissionMoves, memory, maps
  <2> QED  BY <1>1, <2>2, <2>3 DEF BrokerStep
<1>2. CASE Construct \/ Crash
  BY <1>2, ConstructStep, CrashStep
<1>3. CASE \/ Start \/ Stop \/ StrategySubmits \/ CloseAllPositions \/ BreachLimit
           \/ \E id \in DOMAIN sorders : StrategyCancels(id)
           \/ FailClosed \/ SwitchTrading \/ RefreshPositions
           \/ UNCHANGED vars
  BY <1>3, OtherQuietStep
<1>4. CASE Submission
  BY <1>4, SubmissionQuiet, AcceptStep, StoreStep, WriteStep, EnterStep DEF Submission
<1>5. CASE Arrive \/ Handling
  BY <1>5, DeliverStep, WriteUpdateStep, BookFillStep DEF Arrive, Handling
<1>6. CASE \E b \in DOMAIN broker : ReconcileOrder(b)
  BY <1>6, ReconcileStep
<1> QED  BY <1>1, <1>2, <1>3, <1>4, <1>5, <1>6 DEF Next, Step, Refreshing

LEMMA EngineIsKept == Spec => []EngineInv
<1>1. Init => EngineInv
  BY InitEngine
<1>2. EngineInv /\ [Next]_vars => EngineInv'
  BY EngineStep
<1> QED  BY <1>1, <1>2, PTL DEF Spec

\* The maps of the engine and the table of the live order manager name each
\* other's orders, although both threads change them in steps of their own.
THEOREM EngineMapsFollow == Spec => []MapsFollowTheTable
<1>1. EngineInv => MapsFollowTheTable
  BY DEF EngineInv
<1> QED  BY <1>1, EngineIsKept, PTL

\* No two orders that a restart restores have one id, after any number of lives.
THEOREM EngineRestoresAll == Spec => []RestorableIdsAreUnique
<1>1. EngineInv => RestorableIdsAreUnique
  BY DEF EngineInv
<1> QED  BY <1>1, EngineIsKept, PTL

\* A fill of an order sent in this life is booked on the order of the strategy
\* that was sent, and on no other.
THEOREM EngineBooksOnTheRightOrder == Spec => []FillsFindTheirOrder
<1>1. EngineInv => FillsFindTheirOrder
  BY DEF EngineInv, Credits
<1> QED  BY <1>1, EngineIsKept, PTL

\* Ids mean one order each, in the maps, in the journal and in the books.
THEOREM EngineIdsAreConsistent == Spec => []IdsAreConsistent
<1>1. MapsFollowTheTable /\ RestorableIdsAreUnique /\ FillsFindTheirOrder => IdsAreConsistent
  BY DEF IdsAreConsistent
<1> QED  BY <1>1, EngineMapsFollow, EngineRestoresAll, EngineBooksOnTheRightOrder, PTL
-----------------------------------------------------------------------------
(***************************************************************************)
(* The types, as far as EngineInv does not give them.                      *)
(***************************************************************************)
BrokerOrder ==
  [quantity : Int \ {0}, by : Seq(Nat), working : BOOLEAN, asked : BOOLEAN, executed : BOOLEAN]
Reported == {"filled", "cancelled"}

StrategyTypes ==
  /\ adapter \in Adapters /\ trading \in BOOLEAN /\ life \in 0..MaxUpsets
  /\ sorders \in Seq(StrategyOrder)
  /\ position \in Int

BrokerTypes ==
  /\ broker \in Seq(BrokerOrder)
  /\ wire \in Seq(Seq(Reported)) /\ Len(wire) = Len(broker)

TableTypes ==
  /\ \A id \in DOMAIN live : live[id].status \in Statuses
  /\ brokerOf = [id \in DOMAIN brokerOf |-> brokerOf[id]]
  /\ idOf = [b \in DOMAIN idOf |-> idOf[b]]
  /\ journal \in [DOMAIN journal -> [id : Nat \ {0}, status : Statuses]]

CallTypes == doing \in Submissions /\ handling \in Handlings

Types == StrategyTypes /\ BrokerTypes /\ TableTypes /\ CallTypes

\* With what EngineInv says these are the types.
LEMMA TypesAreTypeOK == EngineInv /\ Types => TypeOK
<1>. SUFFICES ASSUME EngineInv, Types PROVE TypeOK
  OBVIOUS
<1>. USE DEF EngineInv, Types, StrategyTypes, BrokerTypes, TableTypes, CallTypes
<1>1. {built, running, trading} \subseteq BOOLEAN /\ (running => built)
  BY DEF Shape
<1>2. \A id \in DOMAIN live : /\ id \in 1..(nextId - 1)
                             /\ live[id].number \in DOMAIN broker
                             /\ live[id] = [number |-> live[id].number, status |-> live[id].status]
  BY DEF Table, LiveOrder
<1>3. live \in [DOMAIN live -> [number : DOMAIN broker, status : Statuses]]
  <2>1. live = [id \in DOMAIN live |-> live[id]]
    BY DEF Table
  <2>. QED BY <1>2, <2>1
<1>4. /\ brokerOf \in [DOMAIN brokerOf -> DOMAIN broker]
      /\ DOMAIN brokerOf \subseteq 1..(nextId - 1)
  BY <1>2 DEF MapsFollowTheTable
<1>5. idOf \in [DOMAIN idOf -> 1..(nextId - 1)] /\ DOMAIN idOf \subseteq DOMAIN broker
  BY <1>2 DEF MapsFollowTheTable
<1>6. DOMAIN journal \subseteq DOMAIN broker
  BY DEF JournalNamesRows
<1>7. nextId \in Nat \ {0} /\ DOMAIN live \subseteq 1..(nextId - 1)
  BY <1>2 DEF Table
<1>. QED BY <1>1, <1>3, <1>4, <1>5, <1>6, <1>7 DEF TypeOK, Reported
-----------------------------------------------------------------------------
(* The broker.                                                             *)

LEMMA BrokerLists ==
  ASSUME BrokerTypes
  PROVE  /\ Len(broker) \in Nat /\ DOMAIN broker = 1..Len(broker) /\ DOMAIN wire = 1..Len(broker)
         /\ \A b \in DOMAIN broker : broker[b] \in BrokerOrder /\ wire[b] \in Seq(Reported)
<1>1. Len(broker) \in Nat /\ DOMAIN broker = 1..Len(broker) /\ DOMAIN wire = 1..Len(broker)
  BY LenProperties DEF BrokerTypes
<1>2. \A b \in DOMAIN broker : broker[b] \in BrokerOrder
  BY <1>1, ElementOfSeq DEF BrokerTypes
<1>3. \A b \in DOMAIN broker : wire[b] \in Seq(Reported)
  BY <1>1, ElementOfSeq DEF BrokerTypes
<1>. QED BY <1>1, <1>2, <1>3

\* The position that the broker reports is a number.
LEMMA PositionIsANumber ==
  ASSUME BrokerTypes
  PROVE  BrokerPosition \in Int
<1>. DEFINE lots == [b \in 1..Len(broker) |-> IF broker[b].executed THEN broker[b].quantity ELSE 0]
<1>1. lots \in [1..Len(broker) -> Int]
  BY BrokerLists DEF BrokerOrder
<1>2. lots \in Seq(Int)
  BY <1>1, BrokerLists, SeqDef
<1>3. BrokerPosition = SumOf(lots)
  BY BrokerLists DEF BrokerPosition
<1>. HIDE DEF lots
<1>. QED BY <1>2, <1>3, SumType

\* The lists stay lists when something is put in a place of them.
LEMMA PlaceTypes ==
  ASSUME BrokerTypes, NEW quantity \in Int \ {0}, NEW by \in Seq(Nat), Place(quantity, by)
  PROVE  BrokerTypes'
<1>. DEFINE order == [quantity |-> quantity, by |-> by, working |-> TRUE, asked |-> FALSE,
                      executed |-> FALSE]
<1>1. order \in BrokerOrder
  BY DEF BrokerOrder
<1>2. broker' = Append(broker, order) /\ wire' = Append(wire, <<>>) /\ <<>> \in Seq(Reported)
  BY DEF Place
<1>. HIDE DEF order
<1>3. broker' \in Seq(BrokerOrder) /\ Len(broker') = Len(broker) + 1
  BY <1>1, <1>2, AppendProperties DEF BrokerTypes
<1>4. wire' \in Seq(Seq(Reported)) /\ Len(wire') = Len(wire) + 1
  BY <1>2, AppendProperties DEF BrokerTypes
<1>. QED BY <1>3, <1>4 DEF BrokerTypes

LEMMA SendTypes ==
  ASSUME BrokerTypes, NEW b \in DOMAIN broker, NEW order \in BrokerOrder,
         NEW status \in Reported, broker' = [broker EXCEPT ![b] = order], Send(b, status)
  PROVE  BrokerTypes'
<1>1. b \in 1..Len(broker) /\ b \in 1..Len(wire) /\ wire[b] \in Seq(Reported)
  BY BrokerLists DEF BrokerTypes
<1>2. broker' \in Seq(BrokerOrder) /\ Len(broker') = Len(broker)
  BY <1>1, ExceptSeq DEF BrokerTypes
<1>3. wire' \in Seq(Seq(Reported)) /\ Len(wire') = Len(wire)
  <2>1. Append(wire[b], status) \in Seq(Reported)
    BY <1>1, AppendProperties
  <2>2. wire' = wire \/ wire' = [wire EXCEPT ![b] = Append(wire[b], status)]
    BY DEF Send
  <2>3. [wire EXCEPT ![b] = Append(wire[b], status)] \in Seq(Seq(Reported))
        /\ Len([wire EXCEPT ![b] = Append(wire[b], status)]) = Len(wire)
    BY <1>1, <2>1, ExceptSeq DEF BrokerTypes
  <2>. QED BY <2>2, <2>3 DEF BrokerTypes
<1>. QED BY <1>2, <1>3 DEF BrokerTypes

LEMMA CancelAllTypes ==
  ASSUME BrokerTypes, CancelAllOrders, UNCHANGED wire
  PROVE  BrokerTypes'
<1>1. PICK ids \in SUBSET {id \in DOMAIN live : IsOpen(live[id].status)} :
        broker' = [b \in DOMAIN broker |->
                     IF \E id \in ids : live[id].number = b
                       THEN [broker[b] EXCEPT !.asked = TRUE] ELSE broker[b]]
  BY DEF CancelAllOrders
<1>2. \A b \in DOMAIN broker : broker'[b] \in BrokerOrder
  BY <1>1, BrokerLists DEF BrokerOrder
<1>3. broker' \in [1..Len(broker) -> BrokerOrder]
  BY <1>1, <1>2, BrokerLists
<1>4. broker' \in Seq(BrokerOrder)
  BY <1>3, BrokerLists, SeqDef
<1>5. DOMAIN broker' = 1..Len(broker) /\ DOMAIN broker' = 1..Len(broker') /\ Len(broker') \in Nat
  BY <1>3, <1>4, LenProperties
<1>6. Len(broker') = Len(broker)
  BY <1>5, BrokerLists
<1>. QED BY <1>4, <1>6 DEF BrokerTypes

LEMMA ClearTypes ==
  ASSUME BrokerTypes, UNCHANGED broker, wire' = [b \in DOMAIN wire |-> <<>>]
  PROVE  BrokerTypes'
<1>1. wire' \in [1..Len(broker) -> Seq(Reported)]
  <2>1. <<>> \in Seq(Reported)
    OBVIOUS
  <2>. QED BY <2>1, BrokerLists
<1>2. wire' \in Seq(Seq(Reported))
  BY <1>1, BrokerLists, SeqDef
<1>3. DOMAIN wire' = 1..Len(broker) /\ DOMAIN wire' = 1..Len(wire') /\ Len(wire') \in Nat
  BY <1>1, <1>2, LenProperties
<1>4. Len(wire') = Len(broker)
  BY <1>3, BrokerLists
<1>. QED BY <1>2, <1>4 DEF BrokerTypes

\* A list without one of its elements.
LEMMA RemovedType ==
  ASSUME NEW S, NEW s \in Seq(S), NEW i \in DOMAIN s
  PROVE  RemoveAt(s, i) \in Seq(S)
<1>1. /\ Len(s) \in Nat /\ i \in 1..Len(s)
      /\ \A j \in 1..Len(s) : s[j] \in S
  BY LenProperties, ElementOfSeq
<1>2. SubSeq(s, 1, i - 1) \in Seq(S)
  <2>1. \A j \in 1..(i - 1) : s[j] \in S
    BY <1>1
  <2>. QED BY <1>1, <2>1, SubSeqProperties
<1>3. SubSeq(s, i + 1, Len(s)) \in Seq(S)
  <2>1. \A j \in (i + 1)..Len(s) : s[j] \in S
    BY <1>1
  <2>. QED BY <1>1, <2>1, SubSeqProperties
<1>. QED BY <1>2, <1>3, ConcatProperties DEF RemoveAt

LEMMA DeliverTypes ==
  ASSUME BrokerTypes, NEW b \in DOMAIN broker, NEW i \in DOMAIN wire[b], Deliver(b, i)
  PROVE  BrokerTypes' /\ wire[b][i] \in Reported
<1>1. b \in 1..Len(wire) /\ wire[b] \in Seq(Reported)
  BY BrokerLists DEF BrokerTypes
<1>2. wire[b][i] \in Reported
  BY <1>1, ElementOfSeq, LenProperties
<1>3. RemoveAt(wire[b], i) \in Seq(Reported)
  BY <1>1, RemovedType
<1>4. wire' = [wire EXCEPT ![b] = RemoveAt(wire[b], i)] /\ broker' = broker
  BY DEF Deliver
<1>5. wire' \in Seq(Seq(Reported)) /\ Len(wire') = Len(wire)
  BY <1>1, <1>3, <1>4, ExceptSeq DEF BrokerTypes
<1>. QED BY <1>2, <1>4, <1>5 DEF BrokerTypes
\* Every step keeps what is known of the broker.
LEMMA BrokerTypesNext ==
  ASSUME EngineInv, Types, [Next]_vars
  PROVE  BrokerTypes'
<1>. USE DEF Types
<1>1. CASE BrokerStep
  <2>1. CASE PlaceForeign
    <3>1. PICK quantity \in Quantities : Place(quantity, <<>>)
      BY <2>1 DEF PlaceForeign
    <3>2. quantity \in Int \ {0} /\ <<>> \in Seq(Nat)
      BY LiveEngineAssumption
    <3>. QED BY <3>1, <3>2, PlaceTypes
  <2>2. ASSUME NEW b \in DOMAIN broker, Execute(b)
        PROVE  BrokerTypes'
    <3>. DEFINE order == [broker[b] EXCEPT !.working = FALSE, !.executed = TRUE]
    <3>1. order \in BrokerOrder
      BY BrokerLists DEF BrokerOrder
    <3>2. broker' = [broker EXCEPT ![b] = order] /\ Send(b, "filled") /\ "filled" \in Reported
      BY <2>2 DEF Execute, Reported
    <3>. HIDE DEF order
    <3>. QED BY <3>1, <3>2, SendTypes
  <2>3. ASSUME NEW b \in DOMAIN broker, Cancel(b)
        PROVE  BrokerTypes'
    <3>. DEFINE order == [broker[b] EXCEPT !.working = FALSE]
    <3>1. order \in BrokerOrder
      BY BrokerLists DEF BrokerOrder
    <3>2. broker' = [broker EXCEPT ![b] = order] /\ Send(b, "cancelled")
          /\ "cancelled" \in Reported
      BY <2>3 DEF Cancel, Reported
    <3>. HIDE DEF order
    <3>. QED BY <3>1, <3>2, SendTypes
  <2>. QED BY <1>1, <2>1, <2>2, <2>3 DEF BrokerStep
<1>2. CASE Accept
  <2>1. PICK quantity, by : /\ quantity = sorders[doing.id].quantity /\ by = <<life, doing.id>>
                            /\ Place(quantity, by)
    BY <1>2 DEF Accept
  <2>2. doing.id \in DOMAIN sorders
    BY <1>2 DEF Accept, CallTypes, Submissions, Idle
  <2>3. sorders[doing.id] \in StrategyOrder /\ doing.id \in Nat
    BY <2>2, ElementOfSeq, LenProperties DEF StrategyTypes
  <2>4. quantity \in Int \ {0} /\ by \in Seq(Nat)
    BY <2>1, <2>3 DEF StrategyOrder, EngineInv, Shape
  <2>. QED BY <2>1, <2>4, PlaceTypes
<1>3. CASE FailClosed \/ BreachLimit
  BY <1>3, CancelAllTypes DEF FailClosed, BreachLimit, SubmitOrder
<1>4. CASE Stop \/ Crash
  BY <1>4, ClearTypes DEF Stop, Crash
<1>5. CASE Arrive
  BY <1>5, DeliverTypes DEF Arrive
<1>6. ASSUME UNCHANGED <<broker, wire>>
      PROVE  BrokerTypes'
  BY <1>6 DEF BrokerTypes
<1>7. CASE Construct \/ Start \/ UNCHANGED vars
  BY <1>6, <1>7 DEF Construct, Start, outside, vars
<1>8. CASE StrategySubmits \/ CloseAllPositions \/ SwitchTrading \/ RefreshPositions
  BY <1>6, <1>8 DEF StrategySubmits, CloseAllPositions, SubmitOrder, SwitchTrading,
                    RefreshPositions, outside
<1>9. CASE \/ \E id \in DOMAIN sorders : StrategyCancels(id)
           \/ \E b \in DOMAIN broker : ReconcileOrder(b)
  BY <1>6, <1>9 DEF StrategyCancels, ReconcileOrder, outside
<1>10. CASE \/ CheckTrading \/ Refuse \/ SkipTaken \/ Store \/ Write \/ Enter \/ MakePending
            \/ Handling
  BY <1>6, <1>10 DEF CheckTrading, Refuse, SkipTaken, Store, Write, Enter, MakePending, Handling,
                     WriteUpdate, BookFill, outside
<1>. QED BY <1>1, <1>2, <1>3, <1>4, <1>5, <1>7, <1>8, <1>9, <1>10
         DEF Next, Step, Submission, Refreshing
-----------------------------------------------------------------------------
(* The orders of the strategy, the position and the lives.                 *)

LEMMA StrategyRow ==
  ASSUME Types, NEW id \in DOMAIN sorders
  PROVE  sorders[id] \in StrategyOrder /\ id \in 1..Len(sorders)
BY ElementOfSeq, LenProperties DEF Types, StrategyTypes

\* One row of the strategy's orders changes.
LEMMA ChangedRow ==
  ASSUME Types, NEW id \in DOMAIN sorders, NEW order \in StrategyOrder,
         sorders' = [sorders EXCEPT ![id] = order]
  PROVE  sorders' \in Seq(StrategyOrder)
BY StrategyRow, ExceptSeq DEF Types, StrategyTypes

LEMMA ChangedStatus ==
  ASSUME Types, NEW id \in DOMAIN sorders,
         NEW status \in {"Created", "Pending", "PartiallyFilled", "Filled", "Cancelled", "Rejected"},
         sorders' = [sorders EXCEPT ![id].status = status]
  PROVE  sorders' \in Seq(StrategyOrder)
<1>. DEFINE order == [sorders[id] EXCEPT !.status = status]
<1>1. order \in StrategyOrder
  BY StrategyRow DEF StrategyOrder
<1>2. sorders' = [sorders EXCEPT ![id] = order]
  OBVIOUS
<1>. HIDE DEF order
<1>. QED BY <1>1, <1>2, ChangedRow

\* A new order of the strategy.
LEMMA SubmittedRow ==
  ASSUME Types, NEW quantity \in Int \ {0}, SubmitOrder(quantity)
  PROVE  /\ sorders' \in Seq(StrategyOrder)
         /\ UNCHANGED <<position, life>>
<1>1. NewOrder(quantity) \in StrategyOrder
  BY DEF NewOrder, StrategyOrder
<1>2. sorders' = Append(sorders, NewOrder(quantity))
  BY DEF SubmitOrder
<1>3. sorders' \in Seq(StrategyOrder)
  BY <1>1, <1>2, AppendProperties DEF Types, StrategyTypes
<1>. QED BY <1>3 DEF SubmitOrder

LEMMA FilledRow ==
  ASSUME NEW order \in StrategyOrder, NEW lots \in Int
  PROVE  Filled(order, lots) \in StrategyOrder
<1>1. /\ order.filled \in Nat /\ order.quantity \in Int \ {0}
      /\ order = [status |-> order.status, quantity |-> order.quantity, filled |-> order.filled]
  BY DEF StrategyOrder
<1>2. PICK filled \in Nat, status \in {"Filled", "PartiallyFilled"} :
        Filled(order, lots) = [order EXCEPT !.filled = filled, !.status = status]
  <2>. DEFINE filled == order.filled + IF lots < 0 THEN -lots ELSE lots
  <2>1. filled \in Nat
    BY <1>1
  <2>2. \E status \in {"Filled", "PartiallyFilled"} :
          Filled(order, lots) = [order EXCEPT !.filled = filled, !.status = status]
    BY DEF Filled
  <2>. HIDE DEF filled
  <2>. QED BY <2>1, <2>2
<1>. QED BY <1>1, <1>2 DEF StrategyOrder

\* Every start of the program is an upset, of which there are not too many.
LEMMA UpsetsAreBounded ==
  ASSUME EngineInv, Types, Construct
  PROVE  life' \in 0..MaxUpsets
<1>. DEFINE foreign == {b \in DOMAIN broker : broker[b].by = <<>>}
<1>1. IsFiniteSet(1..Len(broker))
  BY BrokerLists, FS_Interval DEF Types
<1>2. foreign \subseteq 1..Len(broker)
  BY BrokerLists DEF Types
<1>. HIDE DEF foreign
<1>3. IsFiniteSet(foreign)
  BY <1>1, <1>2, FS_Subset
<1>4. Cardinality(foreign) \in Nat
  BY <1>3, FS_CardinalityType
<1>5. life + Cardinality(foreign) < MaxUpsets /\ life' = life + 1
  BY DEF Construct, Upsets, foreign
<1>6. life \in Nat /\ MaxUpsets \in Nat
  BY LiveEngineAssumption DEF Types, StrategyTypes
<1>. QED BY <1>4, <1>5, <1>6

LEMMA StrategyTypesNext ==
  ASSUME EngineInv, Types, [Next]_vars
  PROVE  StrategyTypes'
<1>0. /\ adapter \in Adapters /\ adapter' = adapter
      /\ trading \in BOOLEAN /\ life \in 0..MaxUpsets
      /\ sorders \in Seq(StrategyOrder) /\ position \in Int
  BY DEF Types, StrategyTypes, Next, Configured, vars
<1>1. trading' \in BOOLEAN
  <2>1. CASE \/ trading' = trading \/ trading' = FALSE \/ trading' = TRUE \/ trading' = ~trading
    BY <1>0, <2>1
  <2>2. CASE BrokerStep \/ Construct \/ Start \/ Stop \/ Crash \/ UNCHANGED vars
    BY <2>1, <2>2 DEF BrokerStep, Construct, Start, Stop, Crash, memory, vars
  <2>3. CASE \/ StrategySubmits \/ CloseAllPositions \/ BreachLimit \/ FailClosed \/ SwitchTrading
             \/ \E id \in DOMAIN sorders : StrategyCancels(id)
    BY <2>1, <2>3 DEF StrategySubmits, CloseAllPositions, BreachLimit, FailClosed, SwitchTrading,
                      StrategyCancels
  <2>4. CASE Submission
    BY <2>1, <2>4 DEF Submission, CheckTrading, Refuse, SkipTaken, Accept, Store, Write, Enter,
                      MakePending, memory
  <2>5. CASE Arrive \/ Handling \/ Refreshing
    BY <2>1, <2>5 DEF Arrive, Deliver, Handling, WriteUpdate, BookFill, Refreshing,
                      RefreshPositions, ReconcileOrder, memory
  <2>. QED BY <2>2, <2>3, <2>4, <2>5 DEF Next, Step
<1>2. ASSUME sorders' \in Seq(StrategyOrder), position' \in Int, life' \in 0..MaxUpsets
      PROVE  StrategyTypes'
  BY <1>0, <1>1, <1>2 DEF StrategyTypes
<1>. USE DEF Types
<1>3. ASSUME UNCHANGED <<sorders, position, life>>
      PROVE  StrategyTypes'
  BY <1>0, <1>2, <1>3
<1>4. ASSUME NEW quantity \in Int \ {0}, SubmitOrder(quantity)
      PROVE  StrategyTypes'
  BY <1>0, <1>2, <1>4, SubmittedRow
<1>5. CASE StrategySubmits
  BY <1>4, <1>5, LiveEngineAssumption DEF StrategySubmits
<1>6. CASE CloseAllPositions \/ BreachLimit
  <2>1. SubmitOrder(-position) /\ -position \in Int \ {0}
    BY <1>0, <1>6 DEF CloseAllPositions, BreachLimit
  <2>2. PICK quantity \in Int \ {0} : SubmitOrder(quantity)
    BY <2>1
  <2>. QED BY <1>4, <2>2
<1>7. CASE Refuse \/ MakePending \/ \E id \in DOMAIN sorders : StrategyCancels(id)
  <2>1. doing.op \in {"checked", "submitted"} => doing.id \in DOMAIN sorders
    BY DEF CallTypes, Submissions, Idle
  <2>2. /\ \E id \in DOMAIN sorders,
              status \in {"Created", "Pending", "PartiallyFilled", "Filled", "Cancelled",
                          "Rejected"} : sorders' = [sorders EXCEPT ![id].status = status]
        /\ UNCHANGED <<position, life>>
    BY <1>7, <2>1, LiveEngineAssumption DEF Refuse, MakePending, StrategyCancels
  <2>. QED BY <1>0, <1>2, <2>2, ChangedStatus
<1>8. CASE BookFill
  <2>. DEFINE b == handling.number
  <2>1. b \in DOMAIN broker
    BY <1>8 DEF BookFill, EngineInv, ReportNamesRow, Idle
  <2>2. PICK lots \in Int : lots = broker[b].quantity
    BY <2>1, BrokerLists DEF BrokerOrder
  <2>3. position' = position + lots /\ life' = life
    BY <1>8, <2>2 DEF BookFill
  <2>4. \/ sorders' = sorders
        \/ \E id \in DOMAIN sorders : sorders' = [sorders EXCEPT ![id] = Filled(sorders[id], lots)]
    BY <1>8, <2>2 DEF BookFill
  <2>5. sorders' \in Seq(StrategyOrder)
    BY <1>0, <2>4, StrategyRow, FilledRow, ChangedRow
  <2>. QED BY <1>0, <1>2, <2>3, <2>5
<1>9. CASE Start \/ RefreshPositions
  BY <1>0, <1>2, <1>9, PositionIsANumber DEF Start, RefreshPositions
<1>10. CASE Crash
  <2>1. <<>> \in Seq(StrategyOrder)
    OBVIOUS
  <2>. QED BY <1>0, <1>2, <1>10, <2>1 DEF Crash
<1>11. CASE Construct
  BY <1>0, <1>2, <1>11, UpsetsAreBounded DEF Construct
<1>12. CASE \/ BrokerStep \/ Stop \/ FailClosed \/ SwitchTrading \/ Arrive \/ WriteUpdate
            \/ UNCHANGED vars
  BY <1>3, <1>12 DEF BrokerStep, Stop, FailClosed, SwitchTrading, Arrive, Deliver, WriteUpdate,
                     memory, vars
<1>13. CASE CheckTrading \/ SkipTaken \/ Accept \/ Store \/ Write \/ Enter
  BY <1>3, <1>13 DEF CheckTrading, SkipTaken, Accept, Store, Write, Enter, memory
<1>14. CASE \E b \in DOMAIN broker : ReconcileOrder(b)
  BY <1>3, <1>14 DEF ReconcileOrder
<1>. QED BY <1>5, <1>6, <1>7, <1>8, <1>9, <1>10, <1>11, <1>12, <1>13, <1>14
         DEF Next, Step, Submission, Handling, Refreshing
-----------------------------------------------------------------------------
(* The tables and the journal.                                             *)

LEMMA JournalType ==
  ASSUME Types, NEW b, NEW id \in Nat \ {0}, NEW status \in Statuses,
         journal' = Put(journal, b, Entry(id, status))
  PROVE  journal' \in [DOMAIN journal' -> [id : Nat \ {0}, status : Statuses]]
<1>1. Entry(id, status) \in [id : Nat \ {0}, status : Statuses]
  BY DEF Entry
<1>. QED BY <1>1 DEF Put, Types, TableTypes

\* Whatever a report says, the row it changes has a status.
LEMMA UpdatedStatus ==
  ASSUME EngineInv, Types, NEW id \in DOMAIN live, NEW status \in Statuses
  PROVE  /\ Updated(live[id], status).status \in Statuses
         /\ Updated(live[id], status).number = live[id].number
<1>1. /\ live[id] = [number |-> live[id].number, status |-> live[id].status]
      /\ live[id].status \in Statuses /\ "error" \in Statuses
  BY DEF EngineInv, Table, LiveOrder, Types, TableTypes, Statuses, Closed
<1>2. PICK new \in Statuses : Updated(live[id], status) = [live[id] EXCEPT !.status = new]
  BY <1>1 DEF Updated
<1>. QED BY <1>1, <1>2

\* What the reports leave in the table and in the maps.
LEMMA DeliverTables ==
  ASSUME EngineInv, Types, NEW b \in DOMAIN broker, NEW i \in DOMAIN wire[b], Deliver(b, i)
  PROVE  /\ \A id \in DOMAIN live' : live'[id].status \in Statuses
         /\ brokerOf' = [id \in DOMAIN brokerOf' |-> brokerOf'[id]]
         /\ idOf' = [n \in DOMAIN idOf' |-> idOf'[n]]
         /\ journal' = journal
         /\ handling' \in Handlings'
<1>1. wire[b][i] \in Statuses
  BY DeliverTypes DEF Types, Reported, Statuses, Fills, Closed
<1>2. UNCHANGED <<journal, broker>>
  BY DEF Deliver
<1>3. CASE /\ handling' = IF wire[b][i] = "filled" THEN Handle("fill", 0, b, wire[b][i]) ELSE Idle
           /\ UNCHANGED <<live, brokerOf, idOf>>
  BY <1>1, <1>2, <1>3 DEF Types, TableTypes, Handlings, Handle
<1>4. ASSUME NEW id \in IdsOf(b),
             live' = [live EXCEPT ![id] = Updated(@, wire[b][i])],
             CallBack(id, b, live'[id].status),
             handling' = Handle(IF wire[b][i] = "filled" THEN "write and fill" ELSE "write",
                                id, b, live'[id].status)
      PROVE  /\ \A n \in DOMAIN live' : live'[n].status \in Statuses
             /\ brokerOf' = [n \in DOMAIN brokerOf' |-> brokerOf'[n]]
             /\ idOf' = [n \in DOMAIN idOf' |-> idOf'[n]]
             /\ handling' \in Handlings'
  <2>1. id \in DOMAIN live /\ id \in Nat
    BY DEF IdsOf, EngineInv, Table
  <2>2. live'[id].status \in Statuses /\ \A n \in DOMAIN live : n # id => live'[n] = live[n]
    BY <1>1, <1>4, <2>1, UpdatedStatus
  <2>3. \A n \in DOMAIN live' : live'[n].status \in Statuses
    BY <1>4, <2>2 DEF Types, TableTypes
  <2>4. /\ brokerOf' = [n \in DOMAIN brokerOf' |-> brokerOf'[n]]
        /\ idOf' = [n \in DOMAIN idOf' |-> idOf'[n]]
    BY <1>4 DEF CallBack, Put, Without
  <2>5. handling' \in Handlings'
    BY <1>2, <1>4, <2>1, <2>2 DEF Handle, Handlings
  <2>. QED BY <2>3, <2>4, <2>5
<1>. QED BY <1>2, <1>3, <1>4 DEF Deliver

\* An order that works at the broker is reconciled.
LEMMA ReconcileTables ==
  ASSUME EngineInv, Types, NEW b \in DOMAIN broker, ReconcileOrder(b)
  PROVE  TableTypes'
<1>1. PICK id \in ReconciledIds(b) :
        /\ live' = Put(live, id, IF IdsOf(b) = {} THEN LiveOrder(b, "new")
                                 ELSE Updated(live[id], "new"))
        /\ CallBack(id, b, live'[id].status)
        /\ journal' = Put(journal, b, Entry(id, live'[id].status))
  BY DEF ReconcileOrder
<1>2. id \in Nat \ {0} /\ (IdsOf(b) # {} => id \in DOMAIN live)
  BY DEF ReconciledIds, IdsOf, EngineInv, Table
<1>3. "new" \in Statuses
  BY DEF Statuses
<1>4. live'[id].status \in Statuses
  <2>1. live'[id] = IF IdsOf(b) = {} THEN LiveOrder(b, "new") ELSE Updated(live[id], "new")
    BY <1>1 DEF Put
  <2>2. LiveOrder(b, "new").status \in Statuses
    BY <1>3 DEF LiveOrder
  <2>. QED BY <1>2, <1>3, <2>1, <2>2, UpdatedStatus
<1>5. \A n \in DOMAIN live' : live'[n].status \in Statuses
  BY <1>1, <1>4 DEF Put, Types, TableTypes
<1>6. journal' \in [DOMAIN journal' -> [id : Nat \ {0}, status : Statuses]]
  BY <1>1, <1>2, <1>4, JournalType
<1>7. /\ brokerOf' = [n \in DOMAIN brokerOf' |-> brokerOf'[n]]
      /\ idOf' = [n \in DOMAIN idOf' |-> idOf'[n]]
  BY <1>1 DEF CallBack, Put, Without
<1>. QED BY <1>5, <1>6, <1>7 DEF TableTypes

\* A report about to be written in the journal is one under way.
LEMMA WritingIsHandling ==
  ASSUME Types, handling.op \in {"write", "write and fill"}
  PROVE  handling \in [op : {"write", "write and fill", "fill"}, id : Nat,
                       number : DOMAIN broker, status : Statuses]
<1>1. Idle.op = "idle"
  BY DEF Idle
<1>2. handling # Idle
  <2>1. "idle" \notin {"write", "write and fill"}
    OBVIOUS
  <2>. QED BY <1>1, <2>1
<1>3. handling \in Handlings
  BY DEF Types, CallTypes
<1>. QED BY <1>2, <1>3 DEF Handlings

LEMMA TableTypesNext ==
  ASSUME EngineInv, Types, [Next]_vars
  PROVE  TableTypes'
<1>. USE DEF Types
<1>1. ASSUME UNCHANGED <<live, brokerOf, idOf, journal>>
      PROVE  TableTypes'
  BY <1>1 DEF TableTypes
<1>2. CASE Store
  <2>1. "pendingNew" \in Statuses /\ LiveOrder(doing.number, "pendingNew").status = "pendingNew"
    BY DEF Statuses, LiveOrder
  <2>2. \A id \in DOMAIN live' : live'[id].status \in Statuses
    BY <1>2, <2>1 DEF Store, Put, TableTypes
  <2>3. /\ brokerOf' = [n \in DOMAIN brokerOf' |-> brokerOf'[n]]
        /\ idOf' = [n \in DOMAIN idOf' |-> idOf'[n]]
    BY <1>2 DEF Store, CallBack, Put, Without
  <2>4. journal' = journal
    BY <1>2 DEF Store, outside
  <2>. QED BY <2>2, <2>3, <2>4 DEF TableTypes
<1>3. CASE Enter
  BY <1>3 DEF Enter, Put, TableTypes, outside
<1>4. CASE Write \/ WriteUpdate
  <2>1. PICK id \in Nat \ {0}, status \in Statuses, b \in {doing.number, handling.number} :
          journal' = Put(journal, b, Entry(id, status))
    <3>1. CASE Write
      <4>1. doing.id \in Nat \ {0} /\ "pendingNew" \in Statuses
        BY <3>1 DEF Write, EngineInv, SubmissionNamesRow, Idle, Statuses
      <4>. QED BY <3>1, <4>1 DEF Write, Written
    <3>2. CASE WriteUpdate
      <4>1. handling.op \in {"write", "write and fill"} /\ handling \in Handlings
        BY <3>2 DEF WriteUpdate, CallTypes
      <4>2. handling.id \in Nat \ {0}
        <5>1. handling.id \in DOMAIN live
          BY <4>1 DEF EngineInv, ReportNamesRow
        <5>2. DOMAIN live \subseteq Nat \ {0}
          BY DEF EngineInv, Table
        <5>. QED BY <5>1, <5>2
      <4>3. handling.status \in Statuses
        BY <4>1, WritingIsHandling
      <4>. QED BY <3>2, <4>2, <4>3 DEF WriteUpdate
    <3>. QED BY <1>4, <3>1, <3>2
  <2>2. journal' \in [DOMAIN journal' -> [id : Nat \ {0}, status : Statuses]]
    BY <2>1, JournalType
  <2>3. UNCHANGED <<live, brokerOf, idOf>>
    BY <1>4 DEF Write, WriteUpdate, memory
  <2>. QED BY <2>2, <2>3 DEF TableTypes
<1>5. CASE BookFill
  BY <1>5 DEF BookFill, Put, TableTypes, outside
<1>6. CASE Arrive
  BY <1>6, DeliverTables DEF Arrive, TableTypes
<1>7. CASE Crash
  BY <1>7 DEF Crash, Nothing, TableTypes
<1>8. CASE Construct
  <2>. DEFINE kept == {b \in DOMAIN journal : ~IsTerminal(journal[b].status)}
              ids == {journal[b].id : b \in kept}
  <2>1. PICK last \in [ids -> kept] :
          /\ brokerOf' = last
          /\ live' = [id \in ids |-> LiveOrder(last[id], journal[last[id]].status)]
          /\ idOf' = [b \in kept |-> journal[b].id]
    BY <1>8 DEF Construct
  <2>2. \A b \in kept : journal[b].status \in Statuses
    BY <2>1 DEF TableTypes
  <2>3. \A id \in DOMAIN live' : live'[id].status \in Statuses
    BY <2>1, <2>2 DEF LiveOrder
  <2>4. journal' = journal
    BY <1>8 DEF Construct, outside
  <2>5. brokerOf' = [id \in DOMAIN brokerOf' |-> brokerOf'[id]]
        /\ idOf' = [b \in DOMAIN idOf' |-> idOf'[b]]
    BY <2>1
  <2>. QED BY <2>3, <2>4, <2>5 DEF TableTypes
<1>9. CASE \E b \in DOMAIN broker : ReconcileOrder(b)
  BY <1>9, ReconcileTables
<1>10. CASE BrokerStep \/ Start \/ Stop \/ FailClosed \/ SwitchTrading \/ RefreshPositions
            \/ UNCHANGED vars
  BY <1>1, <1>10 DEF BrokerStep, Start, Stop, FailClosed, SwitchTrading, RefreshPositions, memory,
                     maps, outside, vars
<1>11. CASE StrategySubmits \/ CloseAllPositions \/ BreachLimit
            \/ \E id \in DOMAIN sorders : StrategyCancels(id)
  BY <1>1, <1>11 DEF StrategySubmits, CloseAllPositions, BreachLimit, SubmitOrder, StrategyCancels,
                     maps, outside
<1>12. CASE CheckTrading \/ Refuse \/ SkipTaken \/ Accept \/ MakePending
  BY <1>1, <1>12 DEF CheckTrading, Refuse, SkipTaken, Accept, MakePending, memory, maps, outside
<1>. QED BY <1>2, <1>3, <1>4, <1>5, <1>6, <1>7, <1>8, <1>9, <1>10, <1>11, <1>12
         DEF Next, Step, Submission, Handling, Refreshing
-----------------------------------------------------------------------------
(* The calls under way.                                                    *)

\* Neither the strategy nor the broker forgets an order, unless the program dies.
LEMMA OrdersStay ==
  ASSUME EngineInv, Types, [Next]_vars
  PROVE  /\ DOMAIN broker \subseteq DOMAIN broker'
         /\ Crash \/ DOMAIN sorders \subseteq DOMAIN sorders'
<1>. USE DEF Types
<1>1. /\ DOMAIN broker = 1..Len(broker) /\ Len(broker) \in Nat
      /\ DOMAIN sorders = 1..Len(sorders) /\ Len(sorders) \in Nat
  BY BrokerLists, LenProperties DEF StrategyTypes
<1>2. ASSUME NEW quantity, NEW by, Place(quantity, by)
      PROVE  DOMAIN broker \subseteq DOMAIN broker'
  BY <1>1, <1>2 DEF Place, BrokerTypes
<1>3. ASSUME NEW quantity, SubmitOrder(quantity)
      PROVE  DOMAIN sorders \subseteq DOMAIN sorders'
  BY <1>1, <1>3 DEF SubmitOrder, StrategyTypes
<1>4. BrokerStep =>
        DOMAIN broker \subseteq DOMAIN broker' /\ DOMAIN sorders \subseteq DOMAIN sorders'
  BY <1>2 DEF BrokerStep, PlaceForeign, Execute, Cancel, memory
<1>5. StrategySubmits \/ CloseAllPositions \/ BreachLimit \/ FailClosed =>
        DOMAIN broker \subseteq DOMAIN broker' /\ DOMAIN sorders \subseteq DOMAIN sorders'
  BY <1>3 DEF StrategySubmits, CloseAllPositions, BreachLimit, FailClosed, CancelAllOrders
<1>6. Submission =>
        DOMAIN broker \subseteq DOMAIN broker' /\ DOMAIN sorders \subseteq DOMAIN sorders'
  BY <1>2 DEF Submission, CheckTrading, Refuse, SkipTaken, Accept, Store, Write, Enter,
              MakePending, memory, outside
<1>7. Construct \/ Start \/ Stop \/ SwitchTrading \/ RefreshPositions \/ Arrive \/ UNCHANGED vars =>
        DOMAIN broker \subseteq DOMAIN broker' /\ DOMAIN sorders \subseteq DOMAIN sorders'
  BY DEF Construct, Start, Stop, SwitchTrading, RefreshPositions, Arrive, Deliver, vars, memory,
         outside
<1>8. Handling \/ (\E b \in DOMAIN broker : ReconcileOrder(b))
      \/ (\E id \in DOMAIN sorders : StrategyCancels(id)) =>
        DOMAIN broker \subseteq DOMAIN broker' /\ DOMAIN sorders \subseteq DOMAIN sorders'
  BY DEF Handling, WriteUpdate, BookFill, ReconcileOrder, StrategyCancels, memory, outside
<1>9. Crash => DOMAIN broker \subseteq DOMAIN broker'
  BY DEF Crash
<1>. QED BY <1>4, <1>5, <1>6, <1>7, <1>8, <1>9 DEF Next, Step, Refreshing

LEMMA CallTypesNext ==
  ASSUME EngineInv, Types, [Next]_vars
  PROVE  CallTypes'
<1>. USE DEF Types
<1>1. /\ DOMAIN broker \subseteq DOMAIN broker'
      /\ Crash \/ DOMAIN sorders \subseteq DOMAIN sorders'
      /\ doing \in Submissions /\ handling \in Handlings
  BY OrdersStay DEF CallTypes
<1>2. CASE Crash
  BY <1>2 DEF Crash, CallTypes, Submissions, Handlings
<1>3. ASSUME DOMAIN sorders \subseteq DOMAIN sorders', UNCHANGED doing
      PROVE  doing' \in Submissions'
  BY <1>1, <1>3 DEF Submissions
<1>4. ASSUME UNCHANGED handling
      PROVE  handling' \in Handlings'
  BY <1>1, <1>4 DEF Handlings
<1>5. CASE Submission /\ DOMAIN sorders \subseteq DOMAIN sorders'
  <2>1. handling' = handling
    BY <1>5 DEF Submission, CheckTrading, Refuse, SkipTaken, Accept, Store, Write, Enter,
                MakePending
  <2>2. CASE MakePending
    BY <1>4, <2>1, <2>2 DEF MakePending, CallTypes, Submissions
  <2>3. CASE CheckTrading \/ Refuse \/ SkipTaken
    <3>1. /\ doing = Call(doing.op, doing.id, 0) /\ doing.id \in DOMAIN sorders
      BY <1>1, <2>3 DEF CheckTrading, Refuse, SkipTaken, Submissions, Idle, Call
    <3>2. PICK op \in {"checked", "submitted"} : doing' = [doing EXCEPT !.op = op]
      BY <2>3 DEF CheckTrading, Refuse, SkipTaken
    <3>3. doing' = Call(op, doing.id, 0)
      BY <3>1, <3>2 DEF Call
    <3>. QED BY <1>4, <1>5, <2>1, <3>1, <3>3 DEF CallTypes, Submissions, Call
  <2>4. CASE Accept
    <3>1. /\ doing = Call(doing.op, doing.id, 0) /\ doing.id \in DOMAIN sorders
      BY <1>1, <2>4 DEF Accept, Submissions, Idle, Call
    <3>2. doing' = Call("accepted", doing.id, Len(broker) + 1)
      BY <2>4, <3>1 DEF Accept, Call
    <3>3. Len(broker) + 1 \in DOMAIN broker'
      BY <2>4, BrokerLists DEF Accept, Place, BrokerTypes
    <3>. QED BY <1>4, <1>5, <2>1, <3>1, <3>2, <3>3 DEF CallTypes, Submissions, Call
  <2>5. CASE Store \/ Write \/ Enter
    <3>1. /\ doing = Call(doing.op, doing.id, doing.number) /\ doing.id \in DOMAIN sorders
          /\ doing.number \in DOMAIN broker
      BY <1>1, <2>5 DEF Store, Write, Enter, Submissions, Idle, Call
    <3>2. PICK op \in {"stored", "written", "submitted"} : doing' = [doing EXCEPT !.op = op]
      BY <2>5 DEF Store, Write, Enter
    <3>3. doing' = Call(op, doing.id, doing.number)
      BY <3>1, <3>2 DEF Call
    <3>4. doing.id \in DOMAIN sorders' /\ doing.number \in DOMAIN broker'
      BY <1>1, <1>5, <3>1
    <3>. QED BY <1>4, <2>1, <3>2, <3>3, <3>4 DEF CallTypes, Submissions, Call
  <2>. QED BY <1>5, <2>2, <2>3, <2>4, <2>5 DEF Submission
<1>6. CASE StrategySubmits \/ CloseAllPositions \/ BreachLimit
  <2>1. PICK quantity : SubmitOrder(quantity)
    BY <1>6 DEF StrategySubmits, CloseAllPositions, BreachLimit
  <2>2. Len(sorders) + 1 \in DOMAIN sorders'
    BY <2>1, LenProperties DEF SubmitOrder, StrategyTypes
  <2>. QED BY <1>4, <2>1, <2>2 DEF SubmitOrder, CallTypes, Submissions, Call
<1>7. CASE Arrive /\ DOMAIN sorders \subseteq DOMAIN sorders'
  BY <1>3, <1>7, DeliverTables DEF Arrive, Deliver, CallTypes
<1>8. CASE Handling /\ DOMAIN sorders \subseteq DOMAIN sorders'
  <2>1. doing' = doing
    BY <1>8 DEF Handling, WriteUpdate, BookFill
  <2>2. handling' \in Handlings'
    <3>1. CASE handling' = Idle
      BY <3>1 DEF Handlings
    <3>2. CASE WriteUpdate /\ handling' = [handling EXCEPT !.op = "fill"]
      <4>1. /\ handling = Handle(handling.op, handling.id, handling.number, handling.status)
            /\ handling.id \in Nat /\ handling.number \in DOMAIN broker
            /\ handling.status \in Statuses
        <5>1. handling.op \in {"write", "write and fill"}
          BY <3>2 DEF WriteUpdate
        <5>. QED BY <5>1, WritingIsHandling DEF Handle
      <4>2. handling' = Handle("fill", handling.id, handling.number, handling.status)
        BY <3>2, <4>1 DEF Handle
      <4>. QED BY <1>1, <4>1, <4>2 DEF Handlings, Handle
    <3>. QED BY <1>8, <3>1, <3>2 DEF Handling, WriteUpdate, BookFill
  <2>. QED BY <1>3, <1>8, <2>1, <2>2 DEF CallTypes
<1>9. CASE UNCHANGED <<doing, handling>> /\ DOMAIN sorders \subseteq DOMAIN sorders'
  BY <1>3, <1>4, <1>9 DEF CallTypes
<1>10. \/ BrokerStep \/ Construct \/ Start \/ Stop \/ FailClosed \/ SwitchTrading
       \/ RefreshPositions \/ UNCHANGED vars \/ (\E b \in DOMAIN broker : ReconcileOrder(b))
       \/ (\E id \in DOMAIN sorders : StrategyCancels(id))
       => UNCHANGED <<doing, handling>>
  BY DEF BrokerStep, Construct, Start, Stop, FailClosed, SwitchTrading, RefreshPositions,
         ReconcileOrder, StrategyCancels, vars
<1>. QED BY <1>1, <1>2, <1>5, <1>6, <1>7, <1>8, <1>9, <1>10 DEF Next, Step, Refreshing

LEMMA InitTypes == Init => Types
<1>. SUFFICES ASSUME Init PROVE Types
  OBVIOUS
<1>1. StrategyTypes
  <2>1. <<>> \in Seq(StrategyOrder) /\ FALSE \in BOOLEAN /\ 0 \in Int
    OBVIOUS
  <2>2. 0 \in 0..MaxUpsets
    BY LiveEngineAssumption
  <2>3. /\ adapter \in Adapters /\ trading = FALSE /\ life = 0 /\ sorders = <<>>
        /\ position = 0
    BY DEF Init
  <2>. QED BY <2>1, <2>2, <2>3 DEF StrategyTypes
<1>2. BrokerTypes
  <2>1. <<>> \in Seq(BrokerOrder) /\ <<>> \in Seq(Seq(Reported))
    OBVIOUS
  <2>. QED BY <2>1 DEF Init, BrokerTypes
<1>3. TableTypes /\ CallTypes
  BY DEF Init, Nothing, TableTypes, CallTypes, Submissions, Handlings
<1>. QED BY <1>1, <1>2, <1>3 DEF Types

LEMMA TypesAreKept == Spec => []Types
<1>1. EngineInv /\ Types /\ [Next]_vars => Types'
  <2>. SUFFICES ASSUME EngineInv, Types, [Next]_vars PROVE Types'
    OBVIOUS
  <2>. QED BY BrokerTypesNext, StrategyTypesNext, TableTypesNext, CallTypesNext DEF Types
<1>. QED BY <1>1, InitTypes, EngineIsKept, PTL DEF Spec

\* Every table of the engine, its journal and the calls under way have their
\* types in every life: numbers name orders of the broker, ids lie below the
\* counter, and a call names an order of the strategy.
THEOREM EngineTypes == Spec => []TypeOK
BY TypesAreTypeOK, TypesAreKept, EngineIsKept, PTL
-----------------------------------------------------------------------------
(* The journal and the table.  With a polled adapter the event loop does   *)
(* one thing at a time, so a row that is not yet written as it stands is   *)
(* that of the one call under way.                                         *)

InJournal(id) ==
  /\ live[id].number \in DOMAIN journal
  /\ journal[live[id].number] = Entry(id, live[id].status)

OneRowPerNumber ==
  \A id1, id2 \in DOMAIN live : live[id1].number = live[id2].number => id1 = id2

OneCallAtATime ==
  /\ doing = Idle \/ handling = Idle
  /\ doing.op = "stored" => live[doing.id].status = "pendingNew"
  /\ handling.op \in {"write", "write and fill"} => live[handling.id].status = handling.status

JournalInv ==
  /\ OneRowPerNumber
  /\ adapter = "polled" => OneCallAtATime
  /\ JournalMatchesTable

LEMMA IdleIsNoCall ==
  /\ Idle.op = "idle"
  /\ doing.op \in {"created", "checked", "accepted", "stored", "written", "submitted"} =>
       doing # Idle
  /\ handling.op \in {"write", "write and fill", "fill"} => handling # Idle
<1>1. Idle.op = "idle"
  BY DEF Idle
<1>2. /\ "idle" \notin {"created", "checked", "accepted", "stored", "written", "submitted"}
      /\ "idle" \notin {"write", "write and fill", "fill"}
  OBVIOUS
<1>. QED BY <1>1, <1>2

\* Nothing that the journal is about changes.
LEMMA QuietForJournal ==
  ASSUME JournalInv, UNCHANGED <<adapter, live, journal, handling>>,
         \/ doing' = doing
         \/ doing.op # "stored" /\ doing'.op # "stored" /\ (adapter = "polled" => handling = Idle)
  PROVE  JournalInv'
<1>1. OneRowPerNumber'
  BY DEF JournalInv, OneRowPerNumber
<1>2. ASSUME adapter = "polled" PROVE OneCallAtATime'
  BY <1>2 DEF JournalInv, OneCallAtATime
<1>3. JournalMatchesTable'
  BY DEF JournalInv, JournalMatchesTable
<1>. QED BY <1>1, <1>2, <1>3 DEF JournalInv

\* The row of one order, and the journal's entry for it, are written together or
\* one after the other.
LEMMA SubmissionJournal ==
  ASSUME EngineInv, JournalInv, Submission, Configured
  PROVE  JournalInv'
<1>1. handling' = handling /\ adapter' = adapter /\ doing # Idle
  BY IdleIsNoCall DEF Submission, CheckTrading, Refuse, SkipTaken, Accept, Store, Write, Enter,
                      MakePending, Configured
<1>2. adapter = "polled" => handling = Idle /\ handling.op = "idle"
  BY <1>1, IdleIsNoCall DEF JournalInv, OneCallAtATime
<1>3. CASE CheckTrading \/ Refuse \/ SkipTaken \/ Accept \/ Enter \/ MakePending
  <2>1. doing.op # "stored"
    BY <1>3 DEF CheckTrading, Refuse, SkipTaken, Accept, Enter, MakePending
  <2>2. doing'.op # "stored"
    <3>1. CASE MakePending
      BY <3>1, IdleIsNoCall DEF MakePending
    <3>2. doing = Call(doing.op, doing.id, doing.number)
      BY <1>1 DEF EngineInv, SubmissionNamesRow
    <3>3. CASE Accept
      BY <3>2, <3>3 DEF Accept, Call
    <3>4. CASE CheckTrading \/ Refuse \/ SkipTaken \/ Enter
      <4>1. PICK op \in {"checked", "submitted"} : doing' = [doing EXCEPT !.op = op]
        BY <3>4 DEF CheckTrading, Refuse, SkipTaken, Enter
      <4>2. doing' = Call(op, doing.id, doing.number)
        BY <3>2, <4>1 DEF Call
      <4>. QED BY <4>2 DEF Call
    <3>. QED BY <1>3, <3>1, <3>3, <3>4
  <2>3. UNCHANGED <<live, journal>>
    BY <1>3 DEF CheckTrading, Refuse, SkipTaken, Accept, Enter, MakePending, memory, maps, outside
  <2>. QED BY <1>1, <1>2, <2>1, <2>2, <2>3, QuietForJournal
<1>4. CASE Store
  <2>1. /\ doing.op = "accepted" /\ doing = Call(doing.op, doing.id, doing.number)
        /\ doing.id \notin DOMAIN live /\ IdsOf(doing.number) = {}
    BY <1>1, <1>4 DEF Store, EngineInv, SubmissionNamesRow
  <2>2. /\ DOMAIN live' = DOMAIN live \cup {doing.id}
        /\ live'[doing.id] = LiveOrder(doing.number, "pendingNew")
        /\ \A id \in DOMAIN live : live'[id] = live[id]
        /\ journal' = journal
    BY <1>4, <2>1 DEF Store, Put, outside
  <2>3. doing' = Call("stored", doing.id, doing.number)
    BY <1>4, <2>1 DEF Store, Call
  <2>4. doing'.op = "stored" /\ doing'.id = doing.id
    BY <2>3 DEF Call
  <2>5. OneRowPerNumber'
    BY <2>1, <2>2 DEF JournalInv, OneRowPerNumber, IdsOf, LiveOrder
  <2>6. adapter = "polled" => OneCallAtATime'
    <3>1. live'[doing'.id].status = "pendingNew"
      BY <2>2, <2>4 DEF LiveOrder
    <3>2. adapter = "polled" =>
            handling' = Idle /\ handling'.op \notin {"write", "write and fill"}
      BY <1>1, <1>2, IdleIsNoCall
    <3>. QED BY <3>1, <3>2 DEF OneCallAtATime
  <2>7. JournalMatchesTable'
    BY <1>1, <1>2, <2>1, <2>2, <2>4 DEF JournalInv, JournalMatchesTable
  <2>. QED BY <1>1, <2>5, <2>6, <2>7 DEF JournalInv
<1>5. CASE Write
  <2>1. /\ doing.op = "stored" /\ doing = Call(doing.op, doing.id, doing.number)
        /\ doing.id \in DOMAIN live /\ live[doing.id].number = doing.number
    BY <1>1, <1>5 DEF Write, EngineInv, SubmissionNamesRow
  <2>2. /\ journal' = Put(journal, doing.number, Entry(doing.id, "pendingNew"))
        /\ live' = live
    BY <1>5 DEF Write, Written, memory, maps
  <2>3. doing' = Call("written", doing.id, doing.number)
    BY <1>5, <2>1 DEF Write, Call
  <2>4. doing'.op = "written"
    BY <2>3 DEF Call
  <2>5. adapter = "polled" => OneCallAtATime'
    <3>1. doing'.op # "stored"
      BY <2>4
    <3>2. adapter = "polled" =>
            handling' = Idle /\ handling'.op \notin {"write", "write and fill"}
      BY <1>1, <1>2, IdleIsNoCall
    <3>. QED BY <3>1, <3>2 DEF OneCallAtATime
  <2>6. ASSUME adapter = "polled", NEW id \in DOMAIN live
        PROVE  InJournal(id)'
    <3>1. CASE id = doing.id
      <4>1. live[id].number = doing.number /\ live[id].status = "pendingNew"
        BY <2>1, <2>6, <3>1 DEF JournalInv, OneCallAtATime
      <4>. QED BY <2>2, <3>1, <4>1 DEF InJournal, Put
    <3>2. CASE id # doing.id
      <4>1. live[id].number # doing.number
        BY <2>1, <3>2 DEF JournalInv, OneRowPerNumber
      <4>2. InJournal(id)
        BY <1>2, <2>6, <3>2 DEF JournalInv, JournalMatchesTable, InJournal
      <4>. QED BY <2>2, <4>1, <4>2 DEF InJournal, Put
    <3>. QED BY <3>1, <3>2
  <2>7. JournalMatchesTable'
    BY <1>1, <2>2, <2>6 DEF JournalMatchesTable, InJournal
  <2>. QED BY <1>1, <2>2, <2>5, <2>7 DEF JournalInv, OneRowPerNumber
<1>. QED BY <1>3, <1>4, <1>5 DEF Submission

\* A report is taken, written in the journal and booked while no submission is
\* under way.
LEMMA DeliverJournal ==
  ASSUME EngineInv, Types, JournalInv, Configured,
         NEW b \in DOMAIN broker, NEW i \in DOMAIN wire[b], Deliver(b, i)
  PROVE  JournalInv'
<1>1. /\ handling = Idle /\ doing' = doing /\ adapter' = adapter /\ journal' = journal
      /\ adapter = "polled" => doing = Idle /\ doing.op = "idle"
      /\ handling.op = "idle"
  BY IdleIsNoCall DEF Deliver, Configured
<1>2. adapter = "polled" => \A id \in DOMAIN live : InJournal(id)
  BY <1>1 DEF JournalInv, JournalMatchesTable, InJournal
<1>3. CASE /\ IdsOf(b) = {}
           /\ handling' = IF wire[b][i] = "filled" THEN Handle("fill", 0, b, wire[b][i]) ELSE Idle
           /\ UNCHANGED <<live, brokerOf, idOf>>
  <2>1. handling'.op \in {"fill", "idle"}
    BY <1>3, IdleIsNoCall DEF Handle
  <2>2. adapter = "polled" => OneCallAtATime'
    BY <1>1, <2>1 DEF OneCallAtATime
  <2>3. JournalMatchesTable'
    BY <1>1, <1>2, <1>3 DEF JournalMatchesTable, InJournal
  <2>. QED BY <1>1, <1>3, <2>2, <2>3 DEF JournalInv, OneRowPerNumber
<1>4. ASSUME NEW id \in IdsOf(b),
             live' = [live EXCEPT ![id] = Updated(@, wire[b][i])],
             handling' = Handle(IF wire[b][i] = "filled" THEN "write and fill" ELSE "write",
                                id, b, live'[id].status)
      PROVE  JournalInv'
  <2>1. id \in DOMAIN live
    BY DEF IdsOf
  <2>2. wire[b][i] \in Statuses
    BY DeliverTypes DEF Types, Reported, Statuses, Fills, Closed
  <2>3. /\ live'[id].number = live[id].number
        /\ \A n \in DOMAIN live : n # id => live'[n] = live[n]
        /\ DOMAIN live' = DOMAIN live
    BY <1>4, <2>1, <2>2, UpdatedStatus
  <2>4. /\ handling'.op \in {"write", "write and fill"}
        /\ handling'.id = id /\ handling'.status = live'[id].status
    BY <1>4 DEF Handle
  <2>5. OneRowPerNumber'
    <3>1. \A n \in DOMAIN live : live'[n].number = live[n].number
      BY <2>3
    <3>. QED BY <2>3, <3>1 DEF JournalInv, OneRowPerNumber
  <2>6. adapter = "polled" => OneCallAtATime'
    BY <1>1, <2>4 DEF OneCallAtATime
  <2>7. JournalMatchesTable'
    BY <1>1, <1>2, <2>3, <2>4 DEF JournalMatchesTable, InJournal
  <2>. QED BY <1>1, <2>5, <2>6, <2>7 DEF JournalInv
<1>. QED BY <1>3, <1>4 DEF Deliver

LEMMA HandlingJournal ==
  ASSUME EngineInv, Types, JournalInv, Configured, Handling
  PROVE  JournalInv'
<1>1. handling # Idle /\ doing' = doing /\ adapter' = adapter
  BY IdleIsNoCall DEF Handling, WriteUpdate, BookFill, Configured
<1>2. adapter = "polled" => doing = Idle /\ doing.op = "idle"
  BY <1>1, IdleIsNoCall DEF JournalInv, OneCallAtATime
<1>3. live' = live
  BY DEF Handling, WriteUpdate, BookFill, memory, maps
<1>4. OneRowPerNumber'
  BY <1>3 DEF JournalInv, OneRowPerNumber
<1>5. CASE BookFill
  <2>1. handling' = Idle /\ handling'.op = "idle" /\ journal' = journal
    BY <1>5, IdleIsNoCall DEF BookFill, outside
  <2>2. handling.op = "fill"
    BY <1>5 DEF BookFill
  <2>3. adapter = "polled" => OneCallAtATime'
    BY <1>1, <1>2, <2>1 DEF OneCallAtATime
  <2>4. JournalMatchesTable'
    BY <1>1, <1>2, <1>3, <2>1, <2>2 DEF JournalInv, JournalMatchesTable
  <2>. QED BY <1>1, <1>4, <2>3, <2>4 DEF JournalInv
<1>6. CASE WriteUpdate
  <2>1. /\ handling.op \in {"write", "write and fill"}
        /\ journal' = Put(journal, handling.number, Entry(handling.id, handling.status))
    BY <1>6 DEF WriteUpdate
  <2>2. handling.id \in DOMAIN live /\ live[handling.id].number = handling.number
    BY <2>1 DEF EngineInv, ReportNamesRow
  <2>3. handling'.op \in {"idle", "fill"}
    <3>1. handling = Handle(handling.op, handling.id, handling.number, handling.status)
      BY <1>1 DEF EngineInv, ReportNamesRow
    <3>2. CASE handling' = Idle
      BY <3>2, IdleIsNoCall
    <3>3. CASE handling' = [handling EXCEPT !.op = "fill"]
      BY <3>1, <3>3 DEF Handle
    <3>. QED BY <1>6, <3>2, <3>3 DEF WriteUpdate
  <2>4. adapter = "polled" => OneCallAtATime'
    BY <1>1, <1>2, <2>3 DEF OneCallAtATime
  <2>5. ASSUME adapter = "polled", NEW id \in DOMAIN live
        PROVE  InJournal(id)'
    <3>1. CASE id = handling.id
      <4>1. live[id].number = handling.number /\ live[id].status = handling.status
        BY <2>1, <2>2, <2>5, <3>1 DEF JournalInv, OneCallAtATime
      <4>. QED BY <1>3, <2>1, <3>1, <4>1 DEF InJournal, Put
    <3>2. CASE id # handling.id
      <4>1. live[id].number # handling.number
        BY <2>2, <3>2 DEF JournalInv, OneRowPerNumber
      <4>2. InJournal(id)
        BY <1>2, <2>5, <3>2 DEF JournalInv, JournalMatchesTable, InJournal
      <4>. QED BY <1>3, <2>1, <4>1, <4>2 DEF InJournal, Put
    <3>. QED BY <3>1, <3>2
  <2>6. JournalMatchesTable'
    BY <1>1, <1>3, <2>5 DEF JournalMatchesTable, InJournal
  <2>. QED BY <1>1, <1>4, <2>4, <2>6 DEF JournalInv
<1>. QED BY <1>5, <1>6 DEF Handling

\* Reconciliation changes the row and writes it in one step of the event loop.
LEMMA ReconcileJournal ==
  ASSUME EngineInv, Types, JournalInv, Configured, NEW b \in DOMAIN broker, ReconcileOrder(b)
  PROVE  JournalInv'
<1>1. /\ UNCHANGED <<adapter, doing, handling>> /\ doing = Idle /\ doing.op = "idle"
      /\ adapter = "polled" => handling = Idle /\ handling.op = "idle"
  BY IdleIsNoCall DEF ReconcileOrder, LoopIsFree, Configured
<1>2. PICK id \in ReconciledIds(b) :
        /\ live' = Put(live, id, IF IdsOf(b) = {} THEN LiveOrder(b, "new")
                                 ELSE Updated(live[id], "new"))
        /\ journal' = Put(journal, b, Entry(id, live'[id].status))
  BY DEF ReconcileOrder
<1>3. /\ live'[id].number = b
      /\ \A n \in DOMAIN live : n # id => live'[n] = live[n] /\ live[n].number # b
      /\ DOMAIN live' = DOMAIN live \cup {id}
  <2>1. /\ live'[id] = IF IdsOf(b) = {} THEN LiveOrder(b, "new") ELSE Updated(live[id], "new")
        /\ \A n \in DOMAIN live : n # id => live'[n] = live[n]
        /\ DOMAIN live' = DOMAIN live \cup {id}
    BY <1>2 DEF Put
  <2>2. CASE IdsOf(b) = {}
    BY <2>1, <2>2 DEF LiveOrder, IdsOf
  <2>3. CASE IdsOf(b) # {}
    <3>1. id \in DOMAIN live /\ live[id].number = b
      BY <2>3 DEF ReconciledIds, IdsOf
    <3>2. "new" \in Statuses
      BY DEF Statuses
    <3>3. live'[id].number = b
      BY <2>1, <2>3, <3>1, <3>2, UpdatedStatus
    <3>4. \A n \in DOMAIN live : n # id => live[n].number # b
      BY <3>1 DEF JournalInv, OneRowPerNumber
    <3>. QED BY <2>1, <3>3, <3>4
  <2>. QED BY <2>2, <2>3
<1>4. OneRowPerNumber'
  BY <1>3 DEF JournalInv, OneRowPerNumber
<1>5. adapter = "polled" => OneCallAtATime'
  BY <1>1 DEF OneCallAtATime
<1>6. ASSUME adapter = "polled", NEW n \in DOMAIN live'
      PROVE  InJournal(n)'
  <2>1. CASE n = id
    BY <1>2, <1>3, <2>1 DEF InJournal, Put
  <2>2. CASE n # id
    <3>1. n \in DOMAIN live /\ live'[n] = live[n] /\ live[n].number # b
      BY <1>3, <2>2
    <3>2. InJournal(n)
      BY <1>1, <1>6, <3>1 DEF JournalInv, JournalMatchesTable, InJournal
    <3>. QED BY <1>2, <3>1, <3>2 DEF InJournal, Put
  <2>. QED BY <2>1, <2>2
<1>7. JournalMatchesTable'
  BY <1>1, <1>6 DEF JournalMatchesTable, InJournal
<1>. QED BY <1>1, <1>4, <1>5, <1>7 DEF JournalInv

\* What is restored is what the journal has.
LEMMA ConstructJournal ==
  ASSUME EngineInv, Types, JournalInv, Configured, Construct
  PROVE  JournalInv'
<1>. DEFINE kept == {b \in DOMAIN journal : ~IsTerminal(journal[b].status)}
            ids == {journal[b].id : b \in kept}
<1>1. PICK last \in [ids -> kept] :
        /\ \A id \in ids : journal[last[id]].id = id
        /\ live' = [id \in ids |-> LiveOrder(last[id], journal[last[id]].status)]
  BY DEF Construct
<1>2. /\ UNCHANGED <<adapter, doing, handling, journal>>
      /\ doing = Idle /\ handling = Idle
      /\ doing.op = "idle" /\ handling.op = "idle"
  BY IdleIsNoCall DEF Construct, Configured, outside, EngineInv, Shape
<1>3. \A id \in ids : live'[id].number = last[id] /\ live'[id].status = journal[last[id]].status
  BY <1>1 DEF LiveOrder
<1>4. OneRowPerNumber'
  <2>1. DOMAIN live' = ids
    BY <1>1
  <2>. HIDE DEF ids, kept
  <2>2. ASSUME NEW id1 \in ids, NEW id2 \in ids, live'[id1].number = live'[id2].number
        PROVE  id1 = id2
    <3>1. last[id1] = last[id2]
      BY <1>3, <2>2
    <3>. QED BY <1>1, <3>1
  <2>. QED BY <2>1, <2>2 DEF OneRowPerNumber
<1>5. OneCallAtATime'
  BY <1>2 DEF OneCallAtATime
<1>6. ASSUME NEW id \in ids
      PROVE  InJournal(id)'
  <2>1. last[id] \in DOMAIN journal
    BY <1>1
  <2>2. journal[last[id]] \in [id : Nat \ {0}, status : Statuses]
    BY <2>1 DEF Types, TableTypes
  <2>3. journal[last[id]] = Entry(id, journal[last[id]].status)
    BY <1>1, <2>2 DEF Entry
  <2>. QED BY <1>2, <1>3, <2>1, <2>3 DEF InJournal
<1>7. DOMAIN live' = ids
  BY <1>1
<1>8. JournalMatchesTable'
  BY <1>6, <1>7 DEF JournalMatchesTable, InJournal
<1>. QED BY <1>4, <1>5, <1>8 DEF JournalInv

LEMMA JournalNext ==
  ASSUME EngineInv, Types, JournalInv, [Next]_vars
  PROVE  JournalInv'
<1>1. CASE UNCHANGED vars
  BY <1>1, QuietForJournal DEF vars, memory, maps, outside
<1>2. CASE (\/ BrokerStep \/ Start \/ Stop \/ FailClosed \/ SwitchTrading \/ RefreshPositions
            \/ \E id \in DOMAIN sorders : StrategyCancels(id)) /\ Configured
  BY <1>2, QuietForJournal
     DEF BrokerStep, Start, Stop, FailClosed, SwitchTrading, RefreshPositions, StrategyCancels,
         Configured, memory, maps, outside
<1>3. CASE (StrategySubmits \/ CloseAllPositions \/ BreachLimit) /\ Configured
  <2>1. PICK quantity : SubmitOrder(quantity)
    BY <1>3 DEF StrategySubmits, CloseAllPositions, BreachLimit
  <2>2. /\ doing.op = "idle" /\ doing'.op = "created"
        /\ adapter = "polled" => handling = Idle
        /\ UNCHANGED <<live, journal, handling>>
    BY <2>1, IdleIsNoCall DEF SubmitOrder, LoopIsFree, Call, maps
  <2>. QED BY <1>3, <2>2, QuietForJournal DEF Configured
<1>4. CASE Crash /\ Configured
  <2>1. /\ DOMAIN live' = {} /\ doing' = Idle /\ handling' = Idle
        /\ doing'.op = "idle" /\ handling'.op = "idle"
    BY <1>4, IdleIsNoCall DEF Crash, Nothing
  <2>. QED BY <2>1 DEF JournalInv, OneRowPerNumber, OneCallAtATime, JournalMatchesTable
<1>. QED BY <1>1, <1>2, <1>3, <1>4, SubmissionJournal, DeliverJournal, HandlingJournal,
            ReconcileJournal, ConstructJournal
         DEF Next, Step, Arrive, Refreshing

LEMMA JournalIsKept == Spec => []JournalInv
<1>1. Init => JournalInv
  <2>. SUFFICES ASSUME Init PROVE JournalInv
    OBVIOUS
  <2>1. /\ DOMAIN live = {} /\ doing = Idle /\ handling = Idle
        /\ doing.op = "idle" /\ handling.op = "idle"
    BY IdleIsNoCall DEF Init, Nothing
  <2>. QED BY <2>1 DEF JournalInv, OneRowPerNumber, OneCallAtATime, JournalMatchesTable
<1>2. EngineInv /\ Types /\ JournalInv /\ [Next]_vars => JournalInv'
  BY JournalNext
<1>. QED BY <1>1, <1>2, TypesAreKept, EngineIsKept, PTL DEF Spec

\* With an adapter whose reports the event loop fetches, a crash at any moment
\* loses no more than the call under way: what the journal has of every other
\* order is what the table had.  The table has its types as well.
THEOREM EngineTablesAreConsistent == Spec => []TablesAreConsistent
<1>1. TypeOK /\ JournalInv => TablesAreConsistent
  BY DEF JournalInv, TablesAreConsistent
<1>. QED BY <1>1, EngineTypes, JournalIsKept, PTL
=============================================================================
