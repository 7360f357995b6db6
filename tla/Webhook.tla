------------------------------ MODULE Webhook ------------------------------
(***************************************************************************)
(* Webhook delivery (webhook.Notifier), its dead letters and their replay. *)
(*                                                                         *)
(* NotifyEvent starts one send goroutine per endpoint.  It makes up to     *)
(* three attempts, and when all have failed it counts the failure, puts a  *)
(* row into webhook_deadletter and counts that.  Nobody waits for these    *)
(* goroutines: they die with the process.  POST /api/v1/webhooks/replay    *)
(* tries once each row that has no replayed_at, oldest first, at most      *)
(* Limit of them; several such requests may run at a time.                 *)
(*                                                                         *)
(* A delivery is one event for one endpoint.                               *)
(***************************************************************************)
EXTENDS Naturals, FiniteSets

CONSTANTS
  Events,       \* events handed to NotifyEvent
  Endpoints,    \* PARSER_WEBHOOK_URLS
  Gone,         \* endpoints that refuse everything
  Handlers,     \* replay requests that can run at a time
  Attempts,     \* attempts of a send goroutine, 3 in the code
  Limit,        \* rows one replay request takes, 500 in the code
  None,         \* no row in hand
  MaxFaults,    \* bound: failing database statements and lost answers
  MaxCrashes    \* bound: process ends, by a crash or a shutdown

Deliveries == Events \X Endpoints

ASSUME EndpointsAssumption == Gone \subseteq Endpoints /\ None \notin Deliveries
ASSUME FiniteAssumption ==
  IsFiniteSet(Events) /\ IsFiniteSet(Endpoints) /\ IsFiniteSet(Handlers)
ASSUME LimitsAssumption ==
  Attempts \in Nat \ {0} /\ Limit \in Nat \ {0} /\ MaxFaults \in Nat /\ MaxCrashes \in Nat

VARIABLES
  at,         \* where the goroutine of each delivery is
  attempts,   \* attempts it has made
  got,        \* times the endpoint took the event
  id,         \* id of its webhook_deadletter row, 0 when there is none
  replayed,   \* deliveries whose row has replayed_at
  failures,   \* metric webhook_failures_total since the process started
  deadletters,\* metric webhook_deadletters_total since the process started
  rp,         \* where each replay request is
  page,       \* rows it has read and not tried yet
  hand,       \* row delivered and still to be marked
  faults, crashes   \* spent bounds

sender == <<at, attempts>>
table == <<id, replayed>>
metrics == <<failures, deadletters>>
replay == <<rp, page, hand>>
vars == <<sender, got, table, metrics, replay, faults, crashes>>

Rows == {d \in Deliveries : id[d] > 0}
Unreplayed == Rows \ replayed
Running == {"trying", "dying", "counted", "inserted"}
Fault == faults < MaxFaults /\ faults' = faults + 1

Init ==
  /\ at = [d \in Deliveries |-> "none"]
  /\ attempts = [d \in Deliveries |-> 0]
  /\ got = [d \in Deliveries |-> 0]
  /\ id = [d \in Deliveries |-> 0] /\ replayed = {}
  /\ failures = 0 /\ deadletters = 0
  /\ rp = [h \in Handlers |-> "idle"]
  /\ page = [h \in Handlers |-> {}]
  /\ hand = [h \in Handlers |-> None]
  /\ faults = 0 /\ crashes = 0

-----------------------------------------------------------------------------
(* The send goroutines.                                                    *)

Notify(e) ==
  /\ \A p \in Endpoints : at[<<e, p>>] = "none"
  /\ at' = [d \in Deliveries |-> IF d[1] = e THEN "trying" ELSE at[d]]
  /\ UNCHANGED <<attempts, got, table, metrics, replay, faults, crashes>>

\* The endpoint takes the event and the goroutine returns.
Delivered(d) ==
  /\ at[d] = "trying" /\ d[2] \notin Gone
  /\ at' = [at EXCEPT ![d] = "over"]
  /\ attempts' = [attempts EXCEPT ![d] = @ + 1]
  /\ got' = [got EXCEPT ![d] = @ + 1]
  /\ UNCHANGED <<table, metrics, replay, faults, crashes>>

\* Mutants of Missed: an attempt too many; no second attempt; no last one.
MissedOneMore(d) ==
  /\ at[d] = "trying"
  /\ attempts' = [attempts EXCEPT ![d] = @ + 1]
  /\ at' = [at EXCEPT ![d] = IF attempts[d] < Attempts THEN "trying" ELSE "dying"]
  /\ UNCHANGED <<table, metrics, replay, crashes>>
MissedForGood(d) ==
  /\ at[d] = "trying"
  /\ attempts' = [attempts EXCEPT ![d] = @ + 1]
  /\ at' = [at EXCEPT ![d] = "dying"]
  /\ UNCHANGED <<table, metrics, replay, crashes>>
MissedNeverMind(d) ==
  /\ at[d] = "trying"
  /\ UNCHANGED <<sender, table, metrics, replay, crashes>>

\* A failed attempt; the goroutine sleeps and tries again or gives up.
Missed(d) ==
  /\ at[d] = "trying"
  /\ attempts' = [attempts EXCEPT ![d] = @ + 1]
  /\ at' = [at EXCEPT ![d] = IF attempts[d] + 1 < Attempts THEN "trying" ELSE "dying"]
  /\ UNCHANGED <<table, metrics, replay, crashes>>

\* The endpoint cannot be reached or answers with another status than 2xx.
Refused(d) == Missed(d) /\ UNCHANGED <<got, faults>>

\* The endpoint takes the event but its answer does not arrive in 15 s.
AnswerLost(d) ==
  /\ d[2] \notin Gone
  /\ Fault
  /\ Missed(d)
  /\ got' = [got EXCEPT ![d] = @ + 1]

\* After the last attempt the failure is counted.
CountFailure(d) ==
  /\ at[d] = "dying"
  /\ at' = [at EXCEPT ![d] = "counted"]
  /\ failures' = failures + 1
  /\ UNCHANGED <<attempts, got, table, deadletters, replay, faults, crashes>>

\* The insert of the dead letter, a statement of its own.
InsertRow(d) ==
  /\ at[d] = "counted"
  /\ id' = [id EXCEPT ![d] = Cardinality(Rows) + 1]
  /\ UNCHANGED <<attempts, got, replayed, metrics, replay, crashes>>

\* Mutant of Deadletter: the goroutine returns without the insert.
DeadletterForgotten(d) ==
  /\ at[d] = "counted"
  /\ at' = [at EXCEPT ![d] = "over"]
  /\ UNCHANGED <<attempts, got, table, metrics, replay, faults, crashes>>

Deadletter(d) ==
  /\ InsertRow(d)
  /\ at' = [at EXCEPT ![d] = "inserted"]
  /\ UNCHANGED faults

\* The inserted dead letter is counted and the goroutine returns.
CountDeadletter(d) ==
  /\ at[d] = "inserted"
  /\ at' = [at EXCEPT ![d] = "over"]
  /\ deadletters' = deadletters + 1
  /\ UNCHANGED <<attempts, got, table, failures, replay, faults, crashes>>

\* Mutant of DeadletterFails: the metric counts the row that is missing.
DeadletterMiscounted(d) ==
  /\ at[d] = "counted"
  /\ Fault
  /\ at' = [at EXCEPT ![d] = "over"]
  /\ deadletters' = deadletters + 1
  /\ UNCHANGED <<attempts, got, table, failures, replay, crashes>>

\* The insert fails: it is logged and the event is gone.
DeadletterFails(d) ==
  /\ at[d] = "counted"
  /\ Fault
  /\ at' = [at EXCEPT ![d] = "over"]
  /\ UNCHANGED <<attempts, got, table, metrics, replay, crashes>>

\* The row is inserted but the answer does not arrive in 10 s: the goroutine
\* returns as if there were none.
DeadletterLost(d) ==
  /\ Fault
  /\ InsertRow(d)
  /\ at' = [at EXCEPT ![d] = "over"]

-----------------------------------------------------------------------------
(* POST /api/v1/webhooks/replay.                                           *)

\* Mutant of OldestUnreplayed: replayed_at is not looked at.
OldestRows ==
  {d \in Rows : Cardinality({e \in Rows : id[e] < id[d]}) < Limit}

\* WHERE replayed_at IS NULL ORDER BY id LIMIT
OldestUnreplayed ==
  {d \in Unreplayed : Cardinality({e \in Unreplayed : id[e] < id[d]}) < Limit}

StartReplay(h) ==
  /\ rp[h] = "idle"
  /\ rp' = [rp EXCEPT ![h] = "deliver"]
  /\ page' = [page EXCEPT ![h] = OldestUnreplayed]
  /\ UNCHANGED <<sender, got, table, metrics, hand, faults, crashes>>

NextRow(h, d) == d \in page[h] /\ \A e \in page[h] : id[d] <= id[e]

ReplayDelivered(h, d) ==
  /\ rp[h] = "deliver" /\ NextRow(h, d) /\ d[2] \notin Gone
  /\ rp' = [rp EXCEPT ![h] = "mark"]
  /\ page' = [page EXCEPT ![h] = @ \ {d}]
  /\ hand' = [hand EXCEPT ![h] = d]
  /\ got' = [got EXCEPT ![d] = @ + 1]
  /\ UNCHANGED <<sender, table, metrics, faults, crashes>>

\* Mutant of ReplayMissed: the loop ends.
ReplayStopsAtMissed(h, d) ==
  /\ rp[h] = "deliver" /\ NextRow(h, d)
  /\ page' = [page EXCEPT ![h] = {}]
  /\ UNCHANGED <<sender, table, metrics, rp, hand, crashes>>

\* A failed delivery is counted and the loop goes on.
ReplayMissed(h, d) ==
  /\ rp[h] = "deliver" /\ NextRow(h, d)
  /\ page' = [page EXCEPT ![h] = @ \ {d}]
  /\ UNCHANGED <<sender, table, metrics, rp, hand, crashes>>

ReplayRefused(h, d) == ReplayMissed(h, d) /\ UNCHANGED <<got, faults>>

ReplayAnswerLost(h, d) ==
  /\ d[2] \notin Gone
  /\ Fault
  /\ ReplayMissed(h, d)
  /\ got' = [got EXCEPT ![d] = @ + 1]

Mark(h) ==
  /\ rp[h] = "mark"
  /\ replayed' = replayed \cup {hand[h]}
  /\ rp' = [rp EXCEPT ![h] = "deliver"]
  /\ hand' = [hand EXCEPT ![h] = None]
  /\ UNCHANGED <<sender, got, id, metrics, page, faults, crashes>>

\* The UPDATE fails: it is logged and the row stays unreplayed.
MarkFails(h) ==
  /\ rp[h] = "mark"
  /\ Fault
  /\ rp' = [rp EXCEPT ![h] = "deliver"]
  /\ hand' = [hand EXCEPT ![h] = None]
  /\ UNCHANGED <<sender, got, table, metrics, page, crashes>>

FinishReplay(h) ==
  /\ rp[h] = "deliver" /\ page[h] = {}
  /\ rp' = [rp EXCEPT ![h] = "idle"]
  /\ UNCHANGED <<sender, got, table, metrics, page, hand, faults, crashes>>

-----------------------------------------------------------------------------
\* The process ends (a shutdown does not wait for the send goroutines
\* either) and starts again; the table stays.
Crash ==
  /\ crashes < MaxCrashes /\ crashes' = crashes + 1
  /\ at' = [d \in Deliveries |-> IF at[d] \in Running THEN "lost" ELSE at[d]]
  /\ failures' = 0 /\ deadletters' = 0
  /\ rp' = [h \in Handlers |-> "idle"]
  /\ page' = [h \in Handlers |-> {}]
  /\ hand' = [h \in Handlers |-> None]
  /\ UNCHANGED <<attempts, got, table, faults>>

Send(d) ==
  \/ Delivered(d) \/ Refused(d)
  \/ CountFailure(d) \/ Deadletter(d) \/ CountDeadletter(d)

ReplayStep(h) ==
  \/ StartReplay(h) \/ Mark(h) \/ FinishReplay(h)
  \/ \E d \in Deliveries : ReplayDelivered(h, d) \/ ReplayRefused(h, d)

Failure ==
  \/ \E d \in Deliveries : AnswerLost(d) \/ DeadletterFails(d) \/ DeadletterLost(d)
  \/ \E h \in Handlers : MarkFails(h)
  \/ \E h \in Handlers, d \in Deliveries : ReplayAnswerLost(h, d)
  \/ Crash

Next ==
  \/ \E e \in Events : Notify(e)
  \/ \E d \in Deliveries : Send(d)
  \/ \E h \in Handlers : ReplayStep(h)
  \/ Failure

\* A send goroutine and a replay request run on; the operator repeats the
\* replay request; an endpoint that is not gone takes an event it is asked to
\* take again and again.
Fairness ==
  /\ \A d \in Deliveries : WF_vars(Send(d))
  /\ \A h \in Handlers : WF_vars(ReplayStep(h))
  /\ \A d \in Deliveries : SF_vars(\E h \in Handlers : ReplayDelivered(h, d))

Spec == Init /\ [][Next]_vars
FairSpec == Spec /\ Fairness
-----------------------------------------------------------------------------
(* Properties.                                                             *)

SenderType ==
  /\ at \in [Deliveries -> Running \cup {"none", "over", "lost"}]
  /\ attempts \in [Deliveries -> 0..Attempts]
  /\ got \in [Deliveries -> Nat]

TableType ==
  /\ id \in [Deliveries -> Nat] /\ replayed \subseteq Deliveries
  /\ failures \in Nat /\ deadletters \in Nat

ReplayType ==
  /\ rp \in [Handlers -> {"idle", "deliver", "mark"}]
  /\ page \in [Handlers -> SUBSET Deliveries]
  /\ hand \in [Handlers -> Deliveries \cup {None}]

BoundsType == faults \in 0..MaxFaults /\ crashes \in 0..MaxCrashes

\* Every variable stays in its type.
TypeOK == SenderType /\ TableType /\ ReplayType /\ BoundsType

\* "After the final retry to an endpoint fails, the event is best-effort
\* inserted into webhook_deadletter" (README.md:418): an event whose goroutine
\* has returned reached the endpoint or has a row; only a row the database
\* refused is missing, and each costs a fault.
Dropped == {d \in Deliveries : at[d] = "over" /\ got[d] = 0 /\ d \notin Rows}
NoneDropped == Cardinality(Dropped) <= faults

\* A dead letter means three failed attempts.  Its goroutine makes no more of
\* them, so that a replay never races with an attempt of the same delivery.
RowsAreDead ==
  \A d \in Rows : at[d] \in {"inserted", "over", "lost"} /\ attempts[d] = Attempts

\* "marks replayed_at on success" (README.md:421): a marked row is in the
\* table and its endpoint took it.
ReplayedWasTaken == \A d \in replayed : d \in Rows /\ got[d] > 0

\* The metrics tell what the table holds, although failure, row and dead letter
\* are counted in three steps: a counted dead letter has a row; a row not counted
\* is one whose goroutine is about to do it or one whose insert was not answered
\* (after a restart, one of an earlier process); a failure without a dead letter
\* is one whose goroutine is between the two counters or one that cost a fault.
Inserted == {d \in Deliveries : at[d] = "inserted"}
Between == {d \in Deliveries : at[d] \in {"counted", "inserted"}}
MetricsTellRows ==
  /\ deadletters + Cardinality(Inserted) <= Cardinality(Rows)
  /\ crashes = 0 => Cardinality(Rows) <= deadletters + Cardinality(Inserted) + faults
  /\ deadletters + Cardinality(Between) <= failures
  /\ failures <= deadletters + Cardinality(Between) + faults

\* An event reaches an endpoint once, unless something failed or replay
\* requests overlapped; each request then adds one delivery at most.
NoExtraDelivery ==
  faults + crashes = 0 => \A d \in Deliveries :
    got[d] <= IF d \in Rows THEN Cardinality(Handlers) ELSE 1

\* A send goroutine comes to an end.
EverySendEnds ==
  \A d \in Deliveries : at[d] = "trying" ~> at[d] \in {"over", "lost"}

\* "Re-deliver un-replayed webhook_deadletter rows" (README.md:330): asked
\* again and again, replay delivers each row whose endpoint works.
RowsAreReplayed ==
  \A d \in Deliveries : d[2] \notin Gone => (d \in Rows ~> d \in replayed)

-----------------------------------------------------------------------------
(* The inductive invariant of the safety properties.                       *)

\* The goroutine gives up with its attempts used up, not before and not after.
ChancesLeft ==
  \A d \in Deliveries :
    /\ at[d] \in {"none", "trying"} => attempts[d] < Attempts
    /\ at[d] \in {"dying", "counted", "inserted"} => attempts[d] = Attempts

\* A goroutine about to count its dead letter has a row.
InsertedAreRows == Inserted \subseteq Rows

\* A replay request works on rows of the table and marks what was taken.
PageIsRows ==
  \A h \in Handlers :
    /\ page[h] \subseteq Rows
    /\ rp[h] = "mark" => hand[h] \in Rows /\ got[hand[h]] > 0

IInv ==
  /\ TypeOK
  /\ RowsAreDead /\ InsertedAreRows /\ ChancesLeft /\ PageIsRows /\ ReplayedWasTaken
  /\ NoneDropped /\ MetricsTellRows
=============================================================================
