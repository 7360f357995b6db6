--------------------------- MODULE WebhookProofs ---------------------------
(***************************************************************************)
(* Theorems about Webhook: for any events, endpoints and bounds, no event  *)
(* is dropped but by the database, a dead letter is dead, what is marked   *)
(* replayed was taken, nothing is delivered more often than failures and   *)
(* replays explain, and the metrics agree with the table.                  *)
(***************************************************************************)
EXTENDS Webhook, FiniteSetTheorems, TLAPS

LEMMA DeliveriesFinite == IsFiniteSet(Deliveries)
  BY FiniteAssumption, FS_Product DEF Deliveries

LEMMA SubsetsCounted ==
  ASSUME NEW S \in SUBSET Deliveries
  PROVE  IsFiniteSet(S) /\ Cardinality(S) \in Nat
  BY DeliveriesFinite, FS_Subset, FS_CardinalityType

LEMMA RowsCounted == IsFiniteSet(Rows) /\ Cardinality(Rows) \in Nat
  BY SubsetsCounted DEF Rows

\* The steps of a goroutine that has given up.
Bury(d) ==
  CountFailure(d) \/ Deadletter(d) \/ CountDeadletter(d) \/ DeadletterFails(d) \/ DeadletterLost(d)

\* The steps that add a row.
AddsRow(d) == Deadletter(d) \/ DeadletterLost(d)

LEMMA BuryStep ==
  ASSUME SenderType, NEW d \in Deliveries, Bury(d)
  PROVE  /\ UNCHANGED <<attempts, got, replayed, replay, crashes>>
         /\ at[d] \in {"dying", "counted", "inserted"}
         /\ at'[d] \in {"counted", "inserted", "over"}
         /\ \A e \in Deliveries : e # d => at'[e] = at[e]
         /\ SenderType'
  BY DEF Bury, CountFailure, Deadletter, CountDeadletter, DeadletterFails, DeadletterLost,
     InsertRow, Fault, SenderType, Running, table, metrics

LEMMA InitInv == Init => IInv
<1> SUFFICES ASSUME Init PROVE IInv
  OBVIOUS
<1>1. TypeOK
  BY LimitsAssumption DEF Init, TypeOK, SenderType, TableType, ReplayType, BoundsType
<1>2. Rows = {} /\ Dropped = {}
  BY DEF Init, Rows, Dropped
<1>3. RowsAreDead /\ ChancesLeft /\ PageIsRows /\ ReplayedWasTaken
  BY <1>2, LimitsAssumption DEF Init, RowsAreDead, ChancesLeft, PageIsRows, ReplayedWasTaken
<1>4. Inserted = {} /\ Between = {}
  BY DEF Init, Inserted, Between
<1>5. NoneDropped /\ MetricsTellRows /\ InsertedAreRows
  BY <1>2, <1>4, FS_EmptySet DEF Init, NoneDropped, MetricsTellRows, InsertedAreRows
<1> QED
  BY <1>1, <1>3, <1>5 DEF IInv

-----------------------------------------------------------------------------
LEMMA StepType ==
  ASSUME IInv, [Next]_vars
  PROVE  TypeOK'
<1> USE DEF IInv, TypeOK
<1>1. ASSUME NEW e \in Events, Notify(e)
      PROVE  TypeOK'
  BY <1>1 DEF Notify, SenderType, Running, TableType, ReplayType, BoundsType, table, metrics,
     replay
<1>2. ASSUME NEW d \in Deliveries, Missed(d)
      PROVE  SenderType' \/ got' \notin [Deliveries -> Nat]
  <2>1. attempts[d] + 1 \in 0..Attempts
    BY <1>2, LimitsAssumption DEF Missed, ChancesLeft, SenderType
  <2> QED
    BY <1>2, <2>1 DEF Missed, SenderType, Running
<1>3. ASSUME NEW d \in Deliveries,
             Delivered(d) \/ Refused(d) \/ AnswerLost(d)
      PROVE  TypeOK'
  <2>1. got' \in [Deliveries -> Nat]
    BY <1>3 DEF Delivered, Refused, AnswerLost, SenderType
  <2>2. SenderType'
    <3>1. CASE Delivered(d)
      <4>1. attempts[d] + 1 \in 0..Attempts
        BY <3>1, LimitsAssumption DEF Delivered, ChancesLeft, SenderType
      <4> QED
        BY <2>1, <3>1, <4>1 DEF Delivered, SenderType, Running
    <3> QED
      BY <1>2, <1>3, <2>1, <3>1 DEF Refused, AnswerLost
  <2>3. TableType' /\ ReplayType' /\ crashes' = crashes /\ faults' \in 0..MaxFaults
    BY <1>3, LimitsAssumption DEF Delivered, Refused, AnswerLost, Missed, Fault, TableType,
       ReplayType, BoundsType, table, metrics, replay
  <2> QED
    BY <2>2, <2>3 DEF BoundsType
<1>4. ASSUME NEW d \in Deliveries, Bury(d)
      PROVE  TypeOK'
  <2>1. Cardinality(Rows) + 1 \in Nat
    BY RowsCounted
  <2>2. SenderType' /\ ReplayType' /\ crashes' = crashes
    BY <1>4, BuryStep DEF ReplayType, replay
  <2>3. TableType' /\ faults' \in 0..MaxFaults
    BY <1>4, <2>1, LimitsAssumption DEF Bury, CountFailure, Deadletter, CountDeadletter,
       DeadletterFails, DeadletterLost, InsertRow, Fault, TableType, BoundsType, table, metrics
  <2> QED
    BY <2>2, <2>3 DEF BoundsType
<1>5. ASSUME NEW h \in Handlers,
             StartReplay(h) \/ Mark(h) \/ MarkFails(h) \/ FinishReplay(h)
      PROVE  TypeOK'
  <2>1. OldestUnreplayed \in SUBSET Deliveries
    BY DEF OldestUnreplayed, Unreplayed, Rows
  <2>2. Mark(h) => hand[h] \in Deliveries
    BY DEF Mark, PageIsRows, Rows
  <2> QED
    BY <1>5, <2>1, <2>2, LimitsAssumption DEF StartReplay, Mark, MarkFails, FinishReplay,
       Fault, SenderType, TableType, ReplayType, BoundsType, sender, table, metrics
<1>6. ASSUME NEW h \in Handlers, NEW d \in Deliveries,
             ReplayDelivered(h, d) \/ ReplayRefused(h, d) \/ ReplayAnswerLost(h, d)
      PROVE  TypeOK'
  BY <1>6, LimitsAssumption DEF ReplayDelivered, ReplayRefused, ReplayAnswerLost,
     ReplayMissed, Fault, SenderType, TableType, ReplayType, BoundsType, sender, table, metrics
<1>7. CASE Crash
  BY <1>7, LimitsAssumption DEF Crash, SenderType, TableType, ReplayType, BoundsType, table
<1>8. CASE UNCHANGED vars
  BY <1>8 DEF vars, sender, table, metrics, replay, SenderType, TableType, ReplayType,
     BoundsType
<1> QED
  BY <1>1, <1>3, <1>4, <1>5, <1>6, <1>7, <1>8 DEF Next, Send, ReplayStep, Failure, Bury

-----------------------------------------------------------------------------
\* Rows never disappear; a step that adds one inserts that of a delivery whose
\* goroutine has used up its attempts.
LEMMA RowsGrow ==
  ASSUME IInv, [Next]_vars
  PROVE  \/ \E d \in Deliveries : AddsRow(d) /\ Rows' = Rows \cup {d} /\ d \notin Rows
         \/ UNCHANGED id /\ Rows' = Rows
<1> USE DEF IInv, TypeOK
<1>1. ASSUME NEW d \in Deliveries, AddsRow(d)
      PROVE  Rows' = Rows \cup {d} /\ d \notin Rows
  <2>1. d \notin Rows
    BY <1>1 DEF AddsRow, Deadletter, DeadletterLost, InsertRow, RowsAreDead
  <2>2. Cardinality(Rows) + 1 > 0
    BY RowsCounted
  <2>3. \A e \in Deliveries : id'[e] = IF e = d THEN Cardinality(Rows) + 1 ELSE id[e]
    BY <1>1 DEF AddsRow, Deadletter, DeadletterLost, InsertRow, TableType
  <2> QED
    BY <2>1, <2>2, <2>3 DEF Rows
<1>2. CASE \A d \in Deliveries : ~ AddsRow(d)
  BY <1>2 DEF AddsRow, Rows, Next, Send, ReplayStep, Failure, Notify, Delivered, Refused,
     AnswerLost, Missed, CountFailure, CountDeadletter, DeadletterFails, StartReplay,
     ReplayDelivered, ReplayRefused, ReplayAnswerLost, ReplayMissed, Mark, MarkFails,
     FinishReplay, Crash, table, vars
<1> QED
  BY <1>1, <1>2

LEMMA StepSender ==
  ASSUME IInv, [Next]_vars
  PROVE  RowsAreDead' /\ ChancesLeft'
<1> USE DEF IInv, TypeOK
<1>0. Rows \subseteq Deliveries
  BY DEF Rows
<1>1. ASSUME NEW e \in Events, Notify(e)
      PROVE  RowsAreDead' /\ ChancesLeft'
  <2>1. Rows' = Rows
    BY <1>1 DEF Notify, Rows, table
  <2>2. \A d \in Deliveries : d[1] = e => at[d] = "none"
    BY <1>1 DEF Notify, Deliveries
  <2>3. RowsAreDead'
    BY <1>0, <1>1, <2>1, <2>2 DEF Notify, RowsAreDead
  <2>4. ChancesLeft'
    BY <1>1, <2>2 DEF Notify, ChancesLeft
  <2> QED
    BY <2>3, <2>4
<1>2. ASSUME NEW d \in Deliveries, Delivered(d) \/ Refused(d) \/ AnswerLost(d)
      PROVE  RowsAreDead' /\ ChancesLeft'
  <2>1. Rows' = Rows /\ at[d] = "trying" /\ d \notin Rows
    BY <1>2 DEF Delivered, Refused, AnswerLost, Missed, Rows, RowsAreDead, table
  <2>2. \A e \in Deliveries : e # d => at'[e] = at[e] /\ attempts'[e] = attempts[e]
    BY <1>2 DEF Delivered, Refused, AnswerLost, Missed, SenderType
  <2>3. attempts'[d] = attempts[d] + 1
    BY <1>2 DEF Delivered, Refused, AnswerLost, Missed, SenderType
  <2>4. at'[d] = "over" \/ at'[d] = IF attempts[d] + 1 < Attempts THEN "trying" ELSE "dying"
    BY <1>2 DEF Delivered, Refused, AnswerLost, Missed, SenderType
  <2>5. attempts[d] \in Nat /\ attempts[d] < Attempts
    BY <2>1 DEF ChancesLeft, SenderType
  <2>6. RowsAreDead'
    BY <2>1, <2>2 DEF RowsAreDead, Rows
  <2>7. ChancesLeft'
    <3>1. \/ at'[d] = "over"
          \/ at'[d] = "trying" /\ attempts'[d] < Attempts
          \/ at'[d] = "dying" /\ attempts'[d] = Attempts
      BY <2>3, <2>4, <2>5, LimitsAssumption
    <3> QED
      BY <2>2, <3>1 DEF ChancesLeft
  <2> QED
    BY <2>6, <2>7
<1>3. ASSUME NEW d \in Deliveries, Bury(d)
      PROVE  RowsAreDead' /\ ChancesLeft'
  <2>1. \/ Rows' \subseteq Rows /\ (d \in Rows => at'[d] = "over")
        \/ Rows' \subseteq Rows \cup {d} /\ at'[d] \in {"inserted", "over"}
    BY <1>3 DEF Bury, CountFailure, Deadletter, CountDeadletter, DeadletterFails,
       DeadletterLost, InsertRow, Rows, RowsAreDead, SenderType, TableType, table, metrics
  <2>2. at[d] \in {"dying", "counted", "inserted"} /\ at'[d] \in {"counted", "inserted", "over"}
        /\ attempts' = attempts /\ \A e \in Deliveries : e # d => at'[e] = at[e]
    BY <1>3, BuryStep
  <2>3. attempts[d] = Attempts
    BY <2>2 DEF ChancesLeft
  <2>4. RowsAreDead'
    BY <1>0, <2>1, <2>2, <2>3 DEF RowsAreDead
  <2>5. ChancesLeft'
    BY <2>2, <2>3 DEF ChancesLeft
  <2> QED
    BY <2>4, <2>5
<1>4. CASE Crash
  <2>1. /\ Rows' = Rows
        /\ attempts' = attempts
        /\ \A d \in Deliveries :
             at'[d] = IF at[d] \in Running THEN "lost" ELSE at[d]
    BY <1>4 DEF Crash, Rows, table
  <2>2. RowsAreDead'
    BY <1>0, <2>1 DEF RowsAreDead, Running
  <2>3. ChancesLeft'
    BY <2>1 DEF ChancesLeft, Running
  <2> QED
    BY <2>2, <2>3
<1>5. CASE UNCHANGED <<at, attempts, id>>
  <2>1. Rows' = Rows
    BY <1>5 DEF Rows
  <2> QED
    BY <1>5, <2>1 DEF RowsAreDead, ChancesLeft
<1>6. ASSUME NEW h \in Handlers,
             \/ StartReplay(h) \/ Mark(h) \/ MarkFails(h) \/ FinishReplay(h)
             \/ \E d \in Deliveries :
                  ReplayDelivered(h, d) \/ ReplayRefused(h, d) \/ ReplayAnswerLost(h, d)
      PROVE  UNCHANGED <<at, attempts, id>>
  BY <1>6 DEF StartReplay, Mark, MarkFails, FinishReplay, ReplayDelivered, ReplayRefused,
     ReplayAnswerLost, ReplayMissed, sender, table
<1>7. CASE UNCHANGED vars
  BY <1>5, <1>7 DEF vars, sender, table
<1> QED
  BY <1>1, <1>2, <1>3, <1>4, <1>5, <1>6, <1>7 DEF Next, Send, ReplayStep, Failure, Bury

LEMMA StepInserted ==
  ASSUME IInv, [Next]_vars
  PROVE  InsertedAreRows'
<1> USE DEF IInv, TypeOK, InsertedAreRows, Inserted
<1>1. Rows \subseteq Rows'
  BY RowsGrow
<1>2. ASSUME NEW d \in Deliveries, Deadletter(d)
      PROVE  d \in Rows' /\ \A e \in Deliveries : at'[e] = "inserted" => at[e] = "inserted" \/ e = d
  <2>1. id'[d] = Cardinality(Rows) + 1
    BY <1>2 DEF Deadletter, InsertRow, TableType
  <2>2. d \in Rows'
    BY <2>1, RowsCounted DEF Rows
  <2> QED
    BY <1>2, <2>2 DEF Deadletter, SenderType
<1>3. CASE \A d \in Deliveries : at'[d] = "inserted" => at[d] = "inserted"
  BY <1>1, <1>3
<1>4. \/ \E d \in Deliveries : Deadletter(d)
      \/ \A d \in Deliveries : at'[d] = "inserted" => at[d] = "inserted"
  BY DEF Next, Send, ReplayStep, Failure, Notify, Delivered, Refused, AnswerLost, Missed,
     CountFailure, CountDeadletter, DeadletterFails, DeadletterLost, StartReplay,
     ReplayDelivered, ReplayRefused, ReplayAnswerLost, ReplayMissed, Mark, MarkFails,
     FinishReplay, Crash, vars, sender, SenderType
<1> QED
  BY <1>1, <1>2, <1>3, <1>4

-----------------------------------------------------------------------------
\* No step takes an event back from an endpoint.
LEMMA GotGrows ==
  ASSUME IInv, [Next]_vars, NEW d \in Deliveries
  PROVE  got'[d] >= got[d] /\ got[d] \in Nat /\ got'[d] \in Nat
<1>1. \/ got' = got \/ \E e \in Deliveries : got' = [got EXCEPT ![e] = @ + 1]
  BY DEF Next, Send, ReplayStep, Failure, Notify, Delivered, Refused, AnswerLost,
     CountFailure, Deadletter, CountDeadletter, DeadletterFails, DeadletterLost, InsertRow,
     StartReplay, ReplayDelivered, ReplayRefused,
     ReplayAnswerLost, Mark, MarkFails, FinishReplay, Crash, vars
<1> QED
  BY <1>1 DEF IInv, TypeOK, SenderType

LEMMA StepReplay ==
  ASSUME IInv, [Next]_vars
  PROVE  PageIsRows' /\ ReplayedWasTaken'
<1> USE DEF IInv, TypeOK
<1>1. Rows \subseteq Rows' /\ Rows \subseteq Deliveries
  BY RowsGrow DEF Rows
<1>2. \A d \in Deliveries : got[d] > 0 => got'[d] > 0
  <2> SUFFICES ASSUME NEW d \in Deliveries, got[d] > 0 PROVE got'[d] > 0
    OBVIOUS
  <2>1. got'[d] >= got[d] /\ got[d] \in Nat /\ got'[d] \in Nat
    BY GotGrows
  <2> QED
    BY <2>1
<1>3. ASSUME UNCHANGED <<rp, page, hand, replayed>>
      PROVE  PageIsRows' /\ ReplayedWasTaken'
  BY <1>1, <1>2, <1>3 DEF PageIsRows, ReplayedWasTaken, TableType
<1>4. ASSUME NEW h \in Handlers, StartReplay(h) \/ FinishReplay(h)
      PROVE  PageIsRows' /\ ReplayedWasTaken'
  <2>1. OldestUnreplayed \subseteq Rows
    BY DEF OldestUnreplayed, Unreplayed
  <2>2. replayed' = replayed
    BY <1>4 DEF StartReplay, FinishReplay, table
  <2>3. \A g \in Handlers : page'[g] \subseteq Rows
                            /\ (rp'[g] = "mark" => rp[g] = "mark" /\ hand'[g] = hand[g])
    BY <1>4, <2>1 DEF StartReplay, FinishReplay, PageIsRows, ReplayType
  <2> QED
    BY <1>1, <1>2, <2>2, <2>3 DEF PageIsRows, ReplayedWasTaken, TableType
<1>5. ASSUME NEW h \in Handlers, NEW d \in Deliveries, ReplayDelivered(h, d)
      PROVE  PageIsRows' /\ ReplayedWasTaken'
  <2>1. d \in Rows /\ replayed' = replayed
    BY <1>5 DEF ReplayDelivered, NextRow, PageIsRows, table
  <2>2. got'[d] > 0
    BY <1>5 DEF ReplayDelivered, SenderType
  <2>3. \A g \in Handlers :
          /\ page'[g] \subseteq Rows
          /\ rp'[g] = "mark" => IF g = h THEN hand'[g] = d
                                ELSE rp[g] = "mark" /\ hand'[g] = hand[g]
    BY <1>5 DEF ReplayDelivered, PageIsRows, ReplayType
  <2> QED
    BY <1>1, <1>2, <2>1, <2>2, <2>3 DEF PageIsRows, ReplayedWasTaken, TableType
<1>6. ASSUME NEW h \in Handlers, NEW d \in Deliveries,
             ReplayRefused(h, d) \/ ReplayAnswerLost(h, d)
      PROVE  PageIsRows' /\ ReplayedWasTaken'
  <2>1. UNCHANGED <<rp, hand, replayed>> /\ \A g \in Handlers : page'[g] \subseteq page[g]
    BY <1>6 DEF ReplayRefused, ReplayAnswerLost, ReplayMissed, ReplayType, table
  <2> QED
    BY <1>1, <1>2, <2>1 DEF PageIsRows, ReplayedWasTaken, TableType
<1>7. ASSUME NEW h \in Handlers, Mark(h) \/ MarkFails(h)
      PROVE  PageIsRows' /\ ReplayedWasTaken'
  <2>1. hand[h] \in Rows /\ got[hand[h]] > 0
    BY <1>7 DEF Mark, MarkFails, PageIsRows
  <2>2. replayed' \subseteq replayed \cup {hand[h]}
    BY <1>7 DEF Mark, MarkFails, table
  <2>3. page' = page /\ \A g \in Handlers :
          rp'[g] = "mark" => rp[g] = "mark" /\ hand'[g] = hand[g]
    BY <1>7 DEF Mark, MarkFails, ReplayType
  <2> QED
    BY <1>1, <1>2, <2>1, <2>2, <2>3 DEF PageIsRows, ReplayedWasTaken, TableType
<1>8. CASE Crash
  BY <1>1, <1>2, <1>8 DEF Crash, PageIsRows, ReplayedWasTaken, TableType, table
<1>9. ASSUME NEW d \in Deliveries,
             Delivered(d) \/ Refused(d) \/ AnswerLost(d) \/ Bury(d)
      PROVE  UNCHANGED <<rp, page, hand, replayed>>
  BY <1>9, BuryStep DEF Delivered, Refused, AnswerLost, Missed, table, replay
<1>10. ASSUME \/ UNCHANGED vars \/ \E e \in Events : Notify(e)
       PROVE  UNCHANGED <<rp, page, hand, replayed>>
  BY <1>10 DEF vars, Notify, table, replay
<1> QED
  BY <1>3, <1>4, <1>5, <1>6, <1>7, <1>8, <1>9, <1>10
     DEF Next, Send, ReplayStep, Failure, Bury

-----------------------------------------------------------------------------
\* A fault is counted; nothing else changes the counter.
LEMMA FaultsGrow ==
  ASSUME IInv, [Next]_vars
  PROVE  /\ faults' = faults \/ Fault
         /\ faults \in Nat /\ faults' \in Nat /\ faults <= faults'
<1>1. faults' = faults \/ Fault
  BY DEF Next, Send, ReplayStep, Failure, Notify, Delivered, Refused, AnswerLost,
     CountFailure, Deadletter, CountDeadletter, DeadletterFails, DeadletterLost, InsertRow,
     StartReplay, ReplayDelivered, ReplayRefused,
     ReplayAnswerLost, Mark, MarkFails, FinishReplay, Crash, vars
<1>2. faults \in Nat
  BY LimitsAssumption DEF IInv, TypeOK, BoundsType
<1> QED
  BY <1>1, <1>2 DEF Fault

\* How many deliveries are in a place of their goroutine when one comes or goes.
LEMMA OneMoreOrLess ==
  ASSUME NEW S \in SUBSET Deliveries, NEW d \in Deliveries
  PROVE  /\ d \notin S => Cardinality(S \cup {d}) = Cardinality(S) + 1
         /\ d \in S => Cardinality(S \ {d}) = Cardinality(S) - 1
         /\ Cardinality(S) \in Nat
  BY SubsetsCounted, FS_AddElement, FS_RemoveElement

LEMMA StepMetrics ==
  ASSUME IInv, [Next]_vars
  PROVE  MetricsTellRows'
<1> USE DEF IInv, TypeOK
<1>1. /\ Cardinality(Rows) \in Nat /\ deadletters \in Nat /\ failures \in Nat
      /\ faults \in Nat /\ faults' \in Nat /\ faults <= faults'
      /\ crashes \in Nat
  BY RowsCounted, FaultsGrow, LimitsAssumption DEF TableType, BoundsType
<1>2. /\ Inserted \in SUBSET Deliveries /\ Between \in SUBSET Deliveries
      /\ Cardinality(Inserted) \in Nat /\ Cardinality(Between) \in Nat
  BY SubsetsCounted DEF Inserted, Between
<1>3. ASSUME NEW d \in Deliveries, Bury(d)
      PROVE  /\ Inserted' = IF at'[d] = "inserted" THEN Inserted \cup {d} ELSE Inserted \ {d}
             /\ Between' = IF at'[d] = "over" THEN Between \ {d} ELSE Between \cup {d}
             /\ crashes' = crashes
  BY <1>3, BuryStep DEF Inserted, Between
<1>4. ASSUME NEW d \in Deliveries, CountFailure(d)
      PROVE  MetricsTellRows'
  <2>1. /\ Rows' = Rows /\ UNCHANGED <<deadletters, faults>> /\ failures' = failures + 1
        /\ at[d] = "dying" /\ at'[d] = "counted" /\ Bury(d)
    BY <1>4 DEF CountFailure, Rows, SenderType, table, Bury
  <2>2. Inserted' = Inserted /\ Between' = Between \cup {d} /\ d \notin Between
    BY <1>3, <2>1 DEF Inserted, Between
  <2>3. Cardinality(Between') = Cardinality(Between) + 1
    BY <1>2, <2>2, OneMoreOrLess
  <2> QED
    BY <1>1, <1>2, <1>3, <2>1, <2>2, <2>3 DEF MetricsTellRows
<1>5. ASSUME NEW d \in Deliveries, AddsRow(d)
      PROVE  Cardinality(Rows') = Cardinality(Rows) + 1
  <2>1. Rows' = Rows \cup {d} /\ d \notin Rows
    <3>1. Rows' # Rows
      <4>1. id'[d] = Cardinality(Rows) + 1 /\ d \notin Rows
        BY <1>5 DEF AddsRow, Deadletter, DeadletterLost, InsertRow, RowsAreDead, TableType
      <4> QED
        BY <1>1, <4>1 DEF Rows
    <3>2. \A e \in Deliveries : e # d => id'[e] = id[e]
      BY <1>5 DEF AddsRow, Deadletter, DeadletterLost, InsertRow, TableType
    <3> QED
      BY <3>1, <3>2, RowsGrow DEF Rows
  <2> QED
    BY <2>1, RowsCounted, FS_AddElement
<1>6. ASSUME NEW d \in Deliveries, Deadletter(d)
      PROVE  MetricsTellRows'
  <2>1. /\ UNCHANGED <<deadletters, failures, faults>> /\ Bury(d) /\ AddsRow(d)
        /\ at[d] = "counted" /\ at'[d] = "inserted"
    BY <1>6 DEF Deadletter, InsertRow, metrics, SenderType, Bury, AddsRow
  <2>2. Inserted' = Inserted \cup {d} /\ d \notin Inserted /\ Between' = Between
    BY <1>3, <2>1 DEF Inserted, Between
  <2>3. Cardinality(Inserted') = Cardinality(Inserted) + 1
    BY <1>2, <2>2, OneMoreOrLess
  <2> QED
    BY <1>1, <1>2, <1>3, <1>5, <2>1, <2>2, <2>3 DEF MetricsTellRows
<1>7. ASSUME NEW d \in Deliveries, CountDeadletter(d)
      PROVE  MetricsTellRows'
  <2>1. /\ Rows' = Rows /\ UNCHANGED <<failures, faults>> /\ deadletters' = deadletters + 1
        /\ at[d] = "inserted" /\ at'[d] = "over" /\ Bury(d)
    BY <1>7 DEF CountDeadletter, Rows, SenderType, table, Bury
  <2>2. /\ Inserted' = Inserted \ {d} /\ d \in Inserted
        /\ Between' = Between \ {d} /\ d \in Between
    BY <1>3, <2>1 DEF Inserted, Between
  <2>3. /\ Cardinality(Inserted') = Cardinality(Inserted) - 1
        /\ Cardinality(Between') = Cardinality(Between) - 1
    BY <1>2, <2>2, OneMoreOrLess
  <2> QED
    BY <1>1, <1>2, <1>3, <2>1, <2>2, <2>3 DEF MetricsTellRows
<1>8. ASSUME NEW d \in Deliveries, DeadletterFails(d) \/ DeadletterLost(d)
      PROVE  MetricsTellRows'
  <2>1. /\ UNCHANGED <<deadletters, failures>> /\ faults' = faults + 1
        /\ at[d] = "counted" /\ at'[d] = "over" /\ Bury(d)
    BY <1>8 DEF DeadletterFails, DeadletterLost, InsertRow, Fault, metrics, SenderType, Bury
  <2>2. Inserted' = Inserted /\ Between' = Between \ {d} /\ d \in Between
    BY <1>3, <2>1 DEF Inserted, Between
  <2>3. Cardinality(Between') = Cardinality(Between) - 1
    BY <1>2, <2>2, OneMoreOrLess
  <2>4. Cardinality(Rows') = Cardinality(Rows) \/ Cardinality(Rows') = Cardinality(Rows) + 1
    <3>1. CASE DeadletterFails(d)
      BY <3>1 DEF DeadletterFails, Rows, table
    <3> QED
      BY <1>5, <1>8, <3>1 DEF AddsRow
  <2> QED
    BY <1>1, <1>2, <1>3, <2>1, <2>2, <2>3, <2>4 DEF MetricsTellRows
<1>9. CASE Crash
  <2>1. /\ Rows' = Rows /\ deadletters' = 0 /\ failures' = 0 /\ crashes' = crashes + 1
        /\ Inserted' = {} /\ Between' = {}
    BY <1>9 DEF Crash, Rows, table, Inserted, Between, Running
  <2> QED
    BY <1>1, <2>1, FS_EmptySet DEF MetricsTellRows
<1>10. ASSUME Rows' = Rows, Inserted' = Inserted, Between' = Between,
              UNCHANGED <<metrics, crashes>>
       PROVE  MetricsTellRows'
  BY <1>1, <1>2, <1>10 DEF MetricsTellRows, metrics
<1>11. ASSUME \/ \E e \in Events : Notify(e)
              \/ \E d \in Deliveries : Delivered(d) \/ Refused(d) \/ AnswerLost(d)
              \/ UNCHANGED <<id, at, metrics, crashes>>
       PROVE  /\ Rows' = Rows /\ Inserted' = Inserted /\ Between' = Between
              /\ UNCHANGED <<metrics, crashes>>
  <2>1. CASE \E e \in Events : Notify(e)
    <3>1. PICK e \in Events : Notify(e)
      BY <2>1
    <3>2. \A d \in Deliveries : d[1] = e => at[d] = "none"
      BY <3>1 DEF Notify, Deliveries
    <3> QED
      BY <3>1, <3>2 DEF Notify, Rows, Inserted, Between, table
  <2>2. CASE \E d \in Deliveries : Delivered(d) \/ Refused(d) \/ AnswerLost(d)
    BY <2>2 DEF Delivered, Refused, AnswerLost, Missed, Rows, Inserted, Between, table, SenderType
  <2>3. CASE UNCHANGED <<id, at, metrics, crashes>>
    BY <2>3 DEF Rows, Inserted, Between
  <2> QED
    BY <1>11, <2>1, <2>2, <2>3
<1>12. \/ \E d \in Deliveries : Bury(d)
       \/ \E d \in Deliveries : Delivered(d) \/ Refused(d) \/ AnswerLost(d)
       \/ \E e \in Events : Notify(e)
       \/ Crash
       \/ UNCHANGED <<id, at, metrics, crashes>>
  BY DEF Next, Send, Bury, ReplayStep, Failure, StartReplay, ReplayDelivered, ReplayRefused,
     ReplayAnswerLost, ReplayMissed, Mark, MarkFails, FinishReplay, vars, table, sender
<1> QED
  BY <1>4, <1>6, <1>7, <1>8, <1>9, <1>10, <1>11, <1>12 DEF Bury

LEMMA StepDropped ==
  ASSUME IInv, [Next]_vars
  PROVE  NoneDropped'
<1> USE DEF IInv, TypeOK
<1>1. /\ Cardinality(Dropped) \in Nat /\ Cardinality(Dropped') \in Nat
      /\ IsFiniteSet(Dropped) /\ Dropped' \subseteq Deliveries
  BY SubsetsCounted DEF Dropped
<1>2. faults \in Nat /\ faults' \in Nat /\ faults <= faults'
  BY FaultsGrow
<1>3. Rows \subseteq Rows'
  BY RowsGrow
<1>4. \A d \in Deliveries : got'[d] = 0 => got[d] = 0
  <2> SUFFICES ASSUME NEW d \in Deliveries, got'[d] = 0 PROVE got[d] = 0
    OBVIOUS
  <2> QED
    BY GotGrows
<1>5. ASSUME Dropped' \subseteq Dropped
      PROVE  NoneDropped'
  <2>1. Cardinality(Dropped') <= Cardinality(Dropped)
    BY <1>1, <1>5, FS_Subset
  <2> QED
    BY <1>1, <1>2, <2>1 DEF NoneDropped
<1>6. ASSUME NEW d \in Deliveries, DeadletterFails(d)
      PROVE  NoneDropped'
  <2>1. Dropped' \subseteq Dropped \cup {d}
    BY <1>3, <1>6 DEF DeadletterFails, Dropped, SenderType
  <2>2. /\ IsFiniteSet(Dropped \cup {d})
        /\ Cardinality(Dropped \cup {d}) <= Cardinality(Dropped) + 1
    <3>1. /\ IsFiniteSet(Dropped \cup {d})
          /\ \/ Cardinality(Dropped \cup {d}) = Cardinality(Dropped)
             \/ Cardinality(Dropped \cup {d}) = Cardinality(Dropped) + 1
      BY <1>1, FS_AddElement, Zenon
    <3> QED
      BY <1>1, <3>1
  <2>3. /\ Cardinality(Dropped') <= Cardinality(Dropped \cup {d})
        /\ Cardinality(Dropped \cup {d}) \in Nat
    BY <2>1, <2>2, FS_Subset, FS_CardinalityType
  <2>4. faults' = faults + 1
    BY <1>6 DEF DeadletterFails, Fault
  <2> QED
    BY <1>1, <1>2, <2>2, <2>3, <2>4 DEF NoneDropped
<1>7. ASSUME NEW d \in Deliveries, CountFailure(d) \/ AddsRow(d) \/ CountDeadletter(d)
      PROVE  Dropped' \subseteq Dropped
  <2>1. at'[d] = "over" => d \in Rows'
    <3>1. CASE AddsRow(d)
      <4>1. id'[d] = Cardinality(Rows) + 1
        BY <3>1 DEF AddsRow, Deadletter, DeadletterLost, InsertRow, TableType
      <4> QED
        BY <4>1, RowsCounted DEF Rows
    <3>2. CASE CountFailure(d)
      BY <3>2 DEF CountFailure, SenderType
    <3>3. CASE CountDeadletter(d)
      BY <1>3, <3>3 DEF CountDeadletter, InsertedAreRows, Inserted
    <3> QED
      BY <1>7, <3>1, <3>2, <3>3
  <2>2. \A e \in Deliveries : e # d => at'[e] = at[e]
    BY <1>7, BuryStep DEF AddsRow, Bury
  <2> QED
    BY <1>3, <1>4, <2>1, <2>2 DEF Dropped
<1>8. ASSUME NEW d \in Deliveries, Delivered(d) \/ Refused(d) \/ AnswerLost(d)
      PROVE  Dropped' \subseteq Dropped
  <2>1. at'[d] = "over" => got'[d] # 0
    <3>1. CASE Delivered(d)
      BY <3>1 DEF Delivered, SenderType
    <3>2. CASE Missed(d)
      BY <3>2 DEF Missed, SenderType
    <3> QED
      BY <1>8, <3>1, <3>2 DEF Refused, AnswerLost
  <2>2. \A e \in Deliveries : e # d => at'[e] = at[e]
    BY <1>8 DEF Delivered, Refused, AnswerLost, Missed, SenderType
  <2> QED
    BY <1>3, <1>4, <2>1, <2>2 DEF Dropped
<1>9. ASSUME \A d \in Deliveries : at'[d] = "over" => at[d] = "over"
      PROVE  Dropped' \subseteq Dropped
  BY <1>3, <1>4, <1>9 DEF Dropped
<1>10. ASSUME \/ \E e \in Events : Notify(e)
              \/ Crash
              \/ UNCHANGED at
       PROVE  \A d \in Deliveries : at'[d] = "over" => at[d] = "over"
  BY <1>10 DEF Notify, Crash, Running
<1>11. \/ \E d \in Deliveries : \/ Delivered(d) \/ Refused(d) \/ AnswerLost(d)
                              \/ DeadletterFails(d)
                              \/ CountFailure(d) \/ AddsRow(d) \/ CountDeadletter(d)
       \/ \E e \in Events : Notify(e)
       \/ Crash
       \/ UNCHANGED at
  BY DEF Next, Send, ReplayStep, Failure, AddsRow, StartReplay, ReplayDelivered,
     ReplayRefused, ReplayAnswerLost, ReplayMissed, Mark, MarkFails, FinishReplay, vars, sender
<1> QED
  BY <1>5, <1>6, <1>7, <1>8, <1>9, <1>10, <1>11

-----------------------------------------------------------------------------
(* How often an event reaches its endpoint while nothing fails.            *)

Calm == faults = 0 /\ crashes = 0

\* Where a goroutine is until it delivers or inserts the dead letter.
Early == {"none", "trying", "dying", "counted"}

\* The requests that delivered a row and have not marked it, and those that
\* have it on their page.
Busy(d) == {h \in Handlers : hand[h] = d}
Waiting(d) == {h \in Handlers : d \in page[h]}

\* A row that is not marked was delivered by requests that are about to mark
\* it; once it is marked only the requests that had read it before can deliver
\* it again, each once.
ReplaysCounted ==
  /\ \A d \in Deliveries :
       /\ d \notin Rows => got[d] <= 1
       /\ at[d] \in Early => got[d] = 0
       /\ d \in Rows \ replayed => got[d] <= Cardinality(Busy(d))
       /\ d \in replayed => got[d] + Cardinality(Waiting(d)) <= Cardinality(Handlers)
  /\ \A h \in Handlers :
       /\ hand[h] # None <=> rp[h] = "mark"
       /\ hand[h] \notin page[h]

CalmInv == Calm => ReplaysCounted

LEMMA HandlersCounted ==
  ASSUME NEW S \in SUBSET Handlers
  PROVE  /\ IsFiniteSet(S) /\ Cardinality(S) \in Nat /\ Cardinality(Handlers) \in Nat
         /\ Cardinality(S) <= Cardinality(Handlers)
  BY FiniteAssumption, FS_Subset, FS_CardinalityType

LEMMA CalmBefore ==
  ASSUME IInv, [Next]_vars, Calm'
  PROVE  Calm /\ ~Failure
<1>1. faults \in Nat /\ faults' \in Nat /\ crashes \in Nat /\ faults <= faults'
  BY FaultsGrow, LimitsAssumption DEF IInv, TypeOK, BoundsType
<1>2. crashes' = crashes \/ crashes' = crashes + 1
  BY DEF Next, Send, ReplayStep, Failure, Notify, Delivered, Refused, AnswerLost, Missed,
     CountFailure, Deadletter, CountDeadletter, DeadletterFails, DeadletterLost, InsertRow,
     StartReplay, ReplayDelivered, ReplayRefused, ReplayAnswerLost, ReplayMissed, Mark, MarkFails,
     FinishReplay, Crash, vars
<1>3. Calm
  BY <1>1, <1>2 DEF Calm
<1>4. Failure => faults' = faults + 1 \/ crashes' = crashes + 1
  BY DEF Failure, AnswerLost, DeadletterFails, DeadletterLost, MarkFails, ReplayAnswerLost,
     Crash, Fault
<1> QED
  BY <1>1, <1>3, <1>4 DEF Calm

\* A step of the senders: no row is marked and no request moves.
LEMMA SenderCounted ==
  ASSUME IInv, ReplaysCounted, [Next]_vars, UNCHANGED <<replayed, rp, page, hand>>,
         \A d \in Deliveries :
           \/ got'[d] = got[d] /\ (at'[d] \in Early
                                   => at[d] \in Early)
           \/ got[d] = 0 /\ got'[d] = 1 /\ at'[d] = "over" /\ d \notin Rows'
  PROVE  ReplaysCounted'
<1> USE DEF IInv, TypeOK, Early
<1>1. ASSUME NEW d \in Deliveries
      PROVE  /\ Busy(d)' = Busy(d) /\ Waiting(d)' = Waiting(d)
             /\ got[d] \in Nat /\ Cardinality(Busy(d)) \in Nat
  <2>1. Busy(d) \in SUBSET Handlers
    BY DEF Busy
  <2> QED
    BY <2>1, HandlersCounted DEF Busy, Waiting, SenderType
<1>2. Rows \subseteq Rows' /\ \A d \in Rows' \ Rows : at[d] = "counted"
  BY RowsGrow DEF AddsRow, Deadletter, DeadletterLost, InsertRow
<1>3. ASSUME NEW d \in Deliveries
      PROVE  /\ d \notin Rows' => got'[d] <= 1
             /\ at'[d] \in Early => got'[d] = 0
             /\ d \in Rows' \ replayed' => got'[d] <= Cardinality(Busy(d)')
             /\ d \in replayed' => got'[d] + Cardinality(Waiting(d)') <= Cardinality(Handlers)
  <2>1. CASE got'[d] = got[d] /\ d \in Rows
    BY <1>1, <1>2, <2>1 DEF ReplaysCounted
  <2>2. CASE got'[d] = got[d] /\ d \notin Rows
    <3>1. d \notin replayed
      BY <2>2 DEF ReplayedWasTaken
    <3> QED
      BY <1>1, <1>2, <2>2, <3>1 DEF ReplaysCounted
  <2>3. CASE got'[d] # got[d]
    <3>1. got'[d] = 1 /\ at'[d] = "over" /\ d \notin Rows'
      BY <2>3
    <3>2. d \notin replayed
      BY <1>2, <3>1 DEF ReplayedWasTaken
    <3> QED
      BY <3>1, <3>2
  <2> QED
    BY <2>1, <2>2, <2>3
<1> QED
  BY <1>3 DEF ReplaysCounted

\* A step of the requests: what has to be shown of each delivery.
LEMMA ReplayCounted ==
  ASSUME IInv, ReplaysCounted, UNCHANGED <<at, id>>,
         \A d \in Deliveries : d \notin Rows => got'[d] = got[d] /\ d \notin replayed',
         \A d \in Rows \ replayed' : got'[d] <= Cardinality(Busy(d)'),
         \A d \in replayed' :
           got'[d] + Cardinality(Waiting(d)') <= Cardinality(Handlers),
         \A h \in Handlers :
           /\ hand'[h] # None <=> rp'[h] = "mark"
           /\ hand'[h] \notin page'[h]
  PROVE  ReplaysCounted'
<1>1. Rows' = Rows
  BY DEF Rows
<1>2. \A d \in Rows : at[d] \notin Early
  BY DEF IInv, RowsAreDead, Early
<1>3. \A d \in Deliveries :
        /\ d \notin Rows' => got'[d] <= 1
        /\ at'[d] \in Early => got'[d] = 0
  BY <1>1, <1>2 DEF ReplaysCounted
<1> QED
  BY <1>1, <1>3 DEF ReplaysCounted

\* Handing a delivery to one more request, or taking it off a page.
LEMMA OneMoreHandler ==
  ASSUME NEW S \in SUBSET Handlers, NEW h \in Handlers
  PROVE  /\ h \notin S => Cardinality(S \cup {h}) = Cardinality(S) + 1
         /\ h \in S => Cardinality(S \ {h}) = Cardinality(S) - 1
  BY HandlersCounted, FS_AddElement, FS_RemoveElement

LEMMA StartCounted ==
  ASSUME IInv, ReplaysCounted, NEW h \in Handlers,
         StartReplay(h) \/ FinishReplay(h) \/ \E d \in Deliveries : ReplayRefused(h, d)
  PROVE  ReplaysCounted'
<1> USE DEF IInv, TypeOK, ReplayType, TableType
<1>1. UNCHANGED <<at, id, got, replayed, hand>>
  BY DEF StartReplay, FinishReplay, ReplayRefused, ReplayMissed, sender, table
<1>2. /\ \A g \in Handlers : page'[g] \cap replayed \subseteq page[g]
      /\ \A g \in Handlers : g # h => page'[g] = page[g]
      /\ page'[h] \subseteq page[h] \/ hand[h] = None
      /\ \A g \in Handlers : rp'[g] = "mark" <=> rp[g] = "mark"
  <2>1. CASE StartReplay(h)
    BY <2>1 DEF StartReplay, OldestUnreplayed, Unreplayed, ReplaysCounted
  <2>2. CASE FinishReplay(h)
    BY <2>2 DEF FinishReplay
  <2>3. CASE \E d \in Deliveries : ReplayRefused(h, d)
    BY <2>3 DEF ReplayRefused, ReplayMissed
  <2> QED
    BY <2>1, <2>2, <2>3
<1>3. \A d \in Deliveries : d \notin Rows => d \notin replayed
  BY DEF ReplayedWasTaken
<1>4. \A d \in Rows \ replayed' : got'[d] <= Cardinality(Busy(d)')
  BY <1>1 DEF ReplaysCounted, Busy, Rows
<1>5. ASSUME NEW d \in replayed
      PROVE  got[d] + Cardinality(Waiting(d)') <= Cardinality(Handlers)
  <2>1. Waiting(d)' \in SUBSET Waiting(d) /\ Waiting(d) \in SUBSET Handlers
    BY <1>2, <1>5 DEF Waiting
  <2>2. IsFiniteSet(Waiting(d)) /\ Cardinality(Waiting(d)) \in Nat
    BY <2>1, HandlersCounted
  <2>3. /\ Cardinality(Waiting(d)') <= Cardinality(Waiting(d)) /\ Cardinality(Waiting(d)') \in Nat
        /\ Cardinality(Handlers) \in Nat
    BY <2>1, <2>2, FS_Subset, HandlersCounted
  <2> QED
    BY <1>5, <2>2, <2>3 DEF ReplaysCounted, SenderType
<1>6. \A g \in Handlers :
        /\ hand'[g] # None <=> rp'[g] = "mark"
        /\ hand'[g] \notin page'[g]
  <2> SUFFICES ASSUME NEW g \in Handlers
               PROVE  /\ hand'[g] # None <=> rp'[g] = "mark"
                      /\ hand'[g] \notin page'[g]
    OBVIOUS
  <2>1. page'[g] \subseteq page[g] \/ page'[g] \subseteq Deliveries
    <3>1. CASE StartReplay(h)
      BY <3>1 DEF StartReplay, OldestUnreplayed, Unreplayed, Rows
    <3>2. CASE FinishReplay(h) \/ \E d \in Deliveries : ReplayRefused(h, d)
      BY <3>2 DEF FinishReplay, ReplayRefused, ReplayMissed
    <3> QED
      BY <3>1, <3>2
  <2>2. None \notin page'[g]
    BY <2>1, EndpointsAssumption
  <2> QED
    BY <1>1, <1>2, <2>2 DEF ReplaysCounted
<1> QED
  BY <1>1, <1>3, <1>4, <1>5, <1>6, ReplayCounted

LEMMA DeliveredCounted ==
  ASSUME IInv, ReplaysCounted, NEW h \in Handlers, NEW d \in Deliveries, ReplayDelivered(h, d)
  PROVE  ReplaysCounted'
<1> USE DEF IInv, TypeOK, ReplayType, TableType, SenderType
<1>1. /\ UNCHANGED <<at, id, replayed>> /\ d \in page[h] /\ d \in Rows
      /\ rp[h] = "deliver" /\ hand[h] = None /\ got'[d] = got[d] + 1
      /\ hand' = [hand EXCEPT ![h] = d] /\ page' = [page EXCEPT ![h] = @ \ {d}]
      /\ rp' = [rp EXCEPT ![h] = "mark"]
      /\ \A e \in Deliveries : e # d => got'[e] = got[e]
  BY DEF ReplayDelivered, NextRow, PageIsRows, ReplaysCounted, sender, table
<1>2. ASSUME NEW e \in Deliveries
      PROVE  /\ Busy(e) \in SUBSET Handlers /\ Cardinality(Busy(e)) \in Nat
             /\ Waiting(e) \in SUBSET Handlers /\ Cardinality(Waiting(e)) \in Nat
             /\ got[e] \in Nat /\ Cardinality(Handlers) \in Nat
  <2>1. Busy(e) \in SUBSET Handlers /\ Waiting(e) \in SUBSET Handlers
    BY DEF Busy, Waiting
  <2> QED
    BY <2>1, HandlersCounted
<1>3. /\ Busy(d)' = Busy(d) \cup {h} /\ h \notin Busy(d)
      /\ Waiting(d)' = Waiting(d) \ {h} /\ h \in Waiting(d)
  BY <1>1, EndpointsAssumption DEF Busy, Waiting
<1>4. \A e \in Deliveries : e # d => Busy(e)' = Busy(e) /\ Waiting(e)' = Waiting(e)
  BY <1>1, EndpointsAssumption DEF Busy, Waiting
<1>5. /\ Cardinality(Busy(d)') = Cardinality(Busy(d)) + 1
      /\ Cardinality(Waiting(d)') = Cardinality(Waiting(d)) - 1
  BY <1>2, <1>3, OneMoreHandler
<1>6. \A e \in Rows \ replayed : got'[e] <= Cardinality(Busy(e)')
  <2> SUFFICES ASSUME NEW e \in Rows \ replayed PROVE got'[e] <= Cardinality(Busy(e)')
    OBVIOUS
  <2>1. e \in Deliveries /\ got[e] <= Cardinality(Busy(e))
    BY DEF Rows, ReplaysCounted
  <2> QED
    BY <1>1, <1>2, <1>4, <1>5, <2>1
<1>7. \A e \in replayed : got'[e] + Cardinality(Waiting(e)') <= Cardinality(Handlers)
  <2> SUFFICES ASSUME NEW e \in replayed
               PROVE  got'[e] + Cardinality(Waiting(e)') <= Cardinality(Handlers)
    OBVIOUS
  <2>1. e \in Deliveries /\ got[e] + Cardinality(Waiting(e)) <= Cardinality(Handlers)
    BY DEF ReplaysCounted
  <2> QED
    BY <1>1, <1>2, <1>4, <1>5, <2>1
<1>8. \A g \in Handlers :
        /\ hand'[g] # None <=> rp'[g] = "mark"
        /\ hand'[g] \notin page'[g]
  BY <1>1, EndpointsAssumption DEF ReplaysCounted
<1>9. \A e \in Deliveries : e \notin Rows => got'[e] = got[e] /\ e \notin replayed
  BY <1>1 DEF ReplayedWasTaken
<1> QED
  BY <1>1, <1>6, <1>7, <1>8, <1>9, ReplayCounted

LEMMA MarkCounted ==
  ASSUME IInv, ReplaysCounted, NEW h \in Handlers, Mark(h)
  PROVE  ReplaysCounted'
<1> USE DEF IInv, TypeOK, ReplayType, TableType, SenderType
<1>1. PICK d \in Deliveries : d = hand[h] /\ d \in Rows
  BY DEF Mark, PageIsRows, Rows
<1>2. /\ UNCHANGED <<at, id, got, page>> /\ replayed' = replayed \cup {d}
      /\ rp[h] = "mark" /\ rp' = [rp EXCEPT ![h] = "deliver"]
      /\ hand' = [hand EXCEPT ![h] = None]
  BY <1>1 DEF Mark, sender
<1>3. ASSUME NEW e \in Deliveries
      PROVE  /\ Busy(e) \in SUBSET Handlers /\ Cardinality(Busy(e)) \in Nat
             /\ Waiting(e) \in SUBSET Handlers /\ Cardinality(Waiting(e)) \in Nat
             /\ got[e] \in Nat /\ Cardinality(Handlers) \in Nat /\ Waiting(e)' = Waiting(e)
  <2>1. Busy(e) \in SUBSET Handlers /\ Waiting(e) \in SUBSET Handlers
    BY DEF Busy, Waiting
  <2> QED
    BY <1>2, <2>1, HandlersCounted DEF Waiting
<1>4. \A e \in Deliveries : e # d => Busy(e)' = Busy(e)
  BY <1>1, <1>2, EndpointsAssumption DEF Busy
<1>5. \A e \in Rows \ replayed' : got'[e] <= Cardinality(Busy(e)')
  <2> SUFFICES ASSUME NEW e \in Rows \ replayed' PROVE got[e] <= Cardinality(Busy(e)')
    BY <1>2
  <2>1. e \in Deliveries /\ e # d /\ e \notin replayed
    BY <1>2 DEF Rows
  <2> QED
    BY <1>4, <2>1 DEF ReplaysCounted
<1>6. ASSUME d \notin replayed
      PROVE  got[d] + Cardinality(Waiting(d)) <= Cardinality(Handlers)
  <2>1. got[d] <= Cardinality(Busy(d))
    BY <1>1, <1>6 DEF ReplaysCounted
  <2>2. Waiting(d) \cap Busy(d) = {}
    BY DEF Waiting, Busy, ReplaysCounted
  <2>3. Cardinality(Waiting(d) \cup Busy(d)) = Cardinality(Waiting(d)) + Cardinality(Busy(d))
    <3>1. IsFiniteSet(Waiting(d)) /\ IsFiniteSet(Busy(d))
      BY <1>3, HandlersCounted
    <3>2. Cardinality(Waiting(d) \cup Busy(d)) =
            Cardinality(Waiting(d)) + Cardinality(Busy(d)) - Cardinality(Waiting(d) \cap Busy(d))
      BY <3>1, FS_Union
    <3>3. Cardinality(Waiting(d) \cap Busy(d)) = 0
      BY <2>2, FS_EmptySet
    <3> QED
      BY <1>3, <3>2, <3>3
  <2>4. Cardinality(Waiting(d) \cup Busy(d)) <= Cardinality(Handlers)
    <3>1. Waiting(d) \cup Busy(d) \in SUBSET Handlers
      BY <1>3
    <3> QED
      BY <3>1, HandlersCounted
  <2> QED
    BY <1>3, <2>1, <2>3, <2>4
<1>7. \A e \in replayed' : got'[e] + Cardinality(Waiting(e)') <= Cardinality(Handlers)
  <2> SUFFICES ASSUME NEW e \in replayed'
               PROVE  got[e] + Cardinality(Waiting(e)) <= Cardinality(Handlers)
    BY <1>2, <1>3
  <2>1. CASE e \in replayed
    BY <2>1 DEF ReplaysCounted
  <2>2. CASE e \notin replayed
    BY <1>2, <1>6, <2>2
  <2> QED
    BY <2>1, <2>2
<1>8. \A g \in Handlers :
        /\ hand'[g] # None <=> rp'[g] = "mark"
        /\ hand'[g] \notin page'[g]
  BY <1>2, EndpointsAssumption DEF ReplaysCounted
<1>9. \A e \in Deliveries : e \notin Rows => got'[e] = got[e] /\ e \notin replayed'
  BY <1>1, <1>2 DEF ReplayedWasTaken
<1> QED
  BY <1>2, <1>5, <1>7, <1>8, <1>9, ReplayCounted

LEMMA StepCounted ==
  ASSUME IInv, CalmInv, [Next]_vars
  PROVE  CalmInv'
<1> USE DEF IInv, TypeOK, SenderType, Early
<1> SUFFICES ASSUME Calm' PROVE ReplaysCounted'
  BY DEF CalmInv
<1>1. ReplaysCounted /\ ~Failure
  BY CalmBefore DEF CalmInv
<1>2. ASSUME NEW e \in Events, Notify(e)
      PROVE  ReplaysCounted'
  <2>1. \A d \in Deliveries : d[1] = e => at[d] = "none"
    BY <1>2 DEF Notify, Deliveries
  <2>2. UNCHANGED <<replayed, rp, page, hand, got>>
    BY <1>2 DEF Notify, table, replay
  <2>3. \A d \in Deliveries : at'[d] \in Early
                              => at[d] \in Early
    BY <1>2, <2>1 DEF Notify
  <2> QED
    BY <1>1, <2>2, <2>3, SenderCounted
<1>3. ASSUME NEW d \in Deliveries, Delivered(d)
      PROVE  ReplaysCounted'
  <2>1. UNCHANGED <<replayed, rp, page, hand, id>> /\ at[d] = "trying" /\ at'[d] = "over"
    BY <1>3 DEF Delivered, table, replay
  <2>2. got[d] = 0 /\ got'[d] = 1 /\ d \notin Rows'
    BY <1>1, <1>3, <2>1 DEF Delivered, ReplaysCounted, RowsAreDead, Rows
  <2>3. \A e \in Deliveries : e # d => got'[e] = got[e] /\ at'[e] = at[e]
    BY <1>3 DEF Delivered
  <2> QED
    BY <1>1, <2>1, <2>2, <2>3, SenderCounted
<1>4. ASSUME NEW d \in Deliveries,
             Refused(d) \/ CountFailure(d) \/ Deadletter(d) \/ CountDeadletter(d)
      PROVE  ReplaysCounted'
  <2>1. UNCHANGED <<replayed, rp, page, hand, got>>
    BY <1>4, BuryStep DEF Refused, Missed, Bury, table, replay
  <2>2. \A e \in Deliveries : at'[e] \in Early
                              => at[e] \in Early
    BY <1>4 DEF Refused, Missed, CountFailure, Deadletter, InsertRow, CountDeadletter, Early
  <2> QED
    BY <1>1, <2>1, <2>2, SenderCounted
<1>5. CASE UNCHANGED vars
  BY <1>1, <1>5, SenderCounted DEF vars, sender, table, replay
<1> QED
  BY <1>1, <1>2, <1>3, <1>4, <1>5, StartCounted, DeliveredCounted, MarkCounted
     DEF Next, Send, ReplayStep

-----------------------------------------------------------------------------
(* The theorems.                                                           *)

\* IInv holds in every reachable state.
THEOREM Invariance == Spec => []IInv
<1>1. IInv /\ [Next]_vars => IInv'
  BY StepType, StepSender, StepInserted, StepReplay, StepMetrics, StepDropped DEF IInv
<1> QED
  BY <1>1, InitInv, PTL DEF Spec

\* Every variable stays in its type.
THEOREM TypeCorrect == Spec => []TypeOK
  BY Invariance, PTL DEF IInv

\* An event whose goroutine has returned reached its endpoint or has a row,
\* but for at most one event per fault.
THEOREM NothingDropped == Spec => []NoneDropped
  BY Invariance, PTL DEF IInv

\* A dead letter has used up its attempts and its goroutine is over.
THEOREM DeadLettersAreDead == Spec => []RowsAreDead
  BY Invariance, PTL DEF IInv

\* A row with replayed_at was taken by its endpoint.
THEOREM ReplayIsSound == Spec => []ReplayedWasTaken
  BY Invariance, PTL DEF IInv

\* The two failure metrics differ by the goroutines between them and one more per
\* fault, and without a restart the dead-letter metric is the number of rows, but
\* for those about to be counted and one per fault.
THEOREM MetricsAgree == Spec => []MetricsTellRows
  BY Invariance, PTL DEF IInv

\* While nothing fails an event reaches its endpoint once, or, when it became
\* a dead letter, at most once for each replay request that can run at a time.
THEOREM NoneDeliveredTooOften == Spec => []NoExtraDelivery
<1>1. Init => CalmInv
  <2> SUFFICES ASSUME Init PROVE ReplaysCounted
    BY DEF CalmInv
  <2>1. Rows = {}
    BY DEF Init, Rows
  <2> QED
    BY <2>1 DEF Init, ReplaysCounted
<1>2. IInv /\ CalmInv /\ [Next]_vars => CalmInv'
  BY StepCounted
<1>3. IInv /\ CalmInv => NoExtraDelivery
  <2> SUFFICES ASSUME IInv, CalmInv, faults + crashes = 0, NEW d \in Deliveries
               PROVE  got[d] <= IF d \in Rows THEN Cardinality(Handlers) ELSE 1
    BY DEF NoExtraDelivery
  <2>1. faults \in Nat /\ crashes \in Nat /\ got[d] \in Nat
    BY LimitsAssumption DEF IInv, TypeOK, BoundsType, SenderType
  <2>2. ReplaysCounted
    BY <2>1 DEF CalmInv, Calm
  <2>3. Busy(d) \in SUBSET Handlers /\ Waiting(d) \in SUBSET Handlers
    BY DEF Busy, Waiting
  <2>4. /\ Cardinality(Busy(d)) \in Nat /\ Cardinality(Waiting(d)) \in Nat
        /\ Cardinality(Handlers) \in Nat /\ Cardinality(Busy(d)) <= Cardinality(Handlers)
    BY <2>3, HandlersCounted
  <2> QED
    BY <2>1, <2>2, <2>4 DEF ReplaysCounted
<1> QED
  BY <1>1, <1>2, <1>3, Invariance, PTL DEF Spec
=============================================================================
