------------------------------- MODULE Rollup -------------------------------
(***************************************************************************)
(* The day buckets of dmarc_agg_daily: the rollup observer adds every new  *)
(* report to its bucket, the anomaly check of the intel observer reads the *)
(* bucket right after, and -backfill-rollups, a process of its own beside  *)
(* the running parser, rebuilds the table in one transaction.              *)
(*                                                                         *)
(* A bucket stands for a (day, domain) pair.  Of its sums the model keeps  *)
(* the reports, the messages and the aligned messages; the other four are  *)
(* added up in the same way.                                               *)
(***************************************************************************)
EXTENDS Integers, FiniteSets, FiniteSetsExt

CONSTANTS
  Reports,       \* new reports, each stored and emitted by a worker of its own
  Buckets,
  BucketOf,      \* report -> the bucket of its begin day and domain
  Total,         \* report -> its messages
  Aligned,       \* report -> those that pass DKIM or SPF alignment
  Threshold,     \* unaligned messages of a day that are an anomaly
  MaxFaults, MaxCrashes, MaxBackfills   \* bounds

ASSUME RollupAssumption ==
  /\ IsFiniteSet(Reports)
  /\ BucketOf \in [Reports -> Buckets]
  /\ Total \in [Reports -> Nat] /\ Aligned \in [Reports -> Nat]
  /\ \A r \in Reports : Aligned[r] <= Total[r]
  /\ {Threshold, MaxFaults, MaxCrashes, MaxBackfills} \subseteq Nat

VARIABLES
  pc,         \* where the worker of each report is
  stored,     \* committed reports
  agg,        \* committed buckets; no reports: there is no row
  marked,     \* buckets whose anomaly rule is in alert_state
  backfill,   \* "idle", "cleared" or "rebuilt"
  locked,     \* bucket rows the backfill holds
  snapshot,   \* reports its INSERT ... SELECT saw
  told,       \* history: domain.anomaly events per bucket
  lost,       \* history: stored reports that never got into their bucket
  twice,      \* history: reports rebuilt into a bucket before their upsert
  excused,    \* history: buckets where an observer failed or was cut short
  faults, crashes, backfills

rebuild == <<backfill, locked, snapshot>>
history == <<told, lost, twice, excused>>
bounds == <<faults, crashes, backfills>>
vars == <<pc, stored, agg, marked, rebuild, history, bounds>>

In(b, S) == {r \in S : BucketOf[r] = b}

Sums(S) == [reports |-> Cardinality(S),
            total   |-> MapThenSumSet(LAMBDA r : Total[r], S),
            aligned |-> MapThenSumSet(LAMBDA r : Aligned[r], S)]

\* Mutant of Plus: messages that pass both DKIM and SPF are added twice.
PlusBoth(x, y) == [reports |-> x.reports + y.reports,
                   total   |-> x.total + y.total,
                   aligned |-> x.aligned + 2 * y.aligned]

Plus(x, y) == [reports |-> x.reports + y.reports,
               total   |-> x.total + y.total,
               aligned |-> x.aligned + y.aligned]

Row(b) == agg[b].reports > 0

Init ==
  /\ pc = [r \in Reports |-> "new"]
  /\ stored = {}
  /\ agg = [b \in Buckets |-> Sums({})]
  /\ marked = {}
  /\ backfill = "idle" /\ locked = {} /\ snapshot = {}
  /\ told = [b \in Buckets |-> 0] /\ lost = {} /\ twice = {} /\ excused = {}
  /\ faults = 0 /\ crashes = 0 /\ backfills = 0

Fault == faults < MaxFaults /\ faults' = faults + 1

Step(r, from, to) == pc[r] = from /\ pc' = [pc EXCEPT ![r] = to]
-----------------------------------------------------------------------------
(* The observers of a new report.                                          *)

Store(r) ==
  /\ Step(r, "new", "rollup")
  /\ stored' = stored \cup {r}
  /\ UNCHANGED <<agg, marked, rebuild, history, bounds>>

\* Mutant of Unlocked: the upsert does not wait.
UnlockedAlways(b) == TRUE

\* The upsert waits for a row that an open transaction deleted or inserted.
Unlocked(b) == b \notin locked

\* Mutant of Upsert: the bucket is set to the report's numbers.
UpsertReplaces(r) ==
  /\ Step(r, "rollup", "suppressed")
  /\ Unlocked(BucketOf[r])
  /\ agg' = [agg EXCEPT ![BucketOf[r]] = Sums({r})]
  /\ UNCHANGED <<stored, marked, rebuild, history, bounds>>

Upsert(r) ==
  /\ Step(r, "rollup", "suppressed")
  /\ Unlocked(BucketOf[r])
  /\ agg' = [agg EXCEPT ![BucketOf[r]] = Plus(@, Sums({r}))]
  /\ UNCHANGED <<stored, marked, rebuild, history, bounds>>

\* The error is logged and the next observer runs.
UpsertFails(r) ==
  /\ Step(r, "rollup", "suppressed")
  /\ Fault
  /\ lost' = IF r \in twice THEN lost ELSE lost \cup {r}
  /\ twice' = twice \ {r}
  /\ excused' = excused \cup {BucketOf[r]}
  /\ UNCHANGED <<stored, agg, marked, rebuild, told, crashes, backfills>>

\* checkAnomaly: the rule of this day and domain has fired before.
Suppress(r) ==
  /\ \/ BucketOf[r] \in marked /\ Step(r, "suppressed", "done")
     \/ BucketOf[r] \notin marked /\ Step(r, "suppressed", "stats")
  /\ UNCHANGED <<stored, agg, marked, rebuild, history, bounds>>

Fails(b) == agg[b].total - agg[b].aligned

\* The statistics read committed rows and wait for nobody.
Stats(r) ==
  /\ \/ Fails(BucketOf[r]) < Threshold /\ Step(r, "stats", "done")
     \/ Fails(BucketOf[r]) >= Threshold /\ Step(r, "stats", "mark")
  /\ UNCHANGED <<stored, agg, marked, rebuild, history, bounds>>

\* Mutant of Mark: the event goes out only when the mark failed.
MarkAndStop(r) ==
  /\ Step(r, "mark", "done")
  /\ marked' = marked \cup {BucketOf[r]}
  /\ UNCHANGED <<stored, agg, rebuild, history, bounds>>

Mark(r) ==
  /\ Step(r, "mark", "notify")
  /\ marked' = marked \cup {BucketOf[r]}
  /\ UNCHANGED <<stored, agg, rebuild, history, bounds>>

\* A mark that fails is logged, and the event goes out.
MarkFails(r) ==
  /\ Step(r, "mark", "notify")
  /\ Fault
  /\ UNCHANGED <<stored, agg, marked, rebuild, history, crashes, backfills>>

Notify(r) ==
  /\ Step(r, "notify", "done")
  /\ told' = [told EXCEPT ![BucketOf[r]] = @ + 1]
  /\ UNCHANGED <<stored, agg, marked, rebuild, lost, twice, excused, bounds>>

\* The suppression row or the statistics cannot be read.
CheckFails(r) ==
  /\ Step(r, "suppressed", "done") \/ Step(r, "stats", "done")
  /\ Fault
  /\ excused' = excused \cup {BucketOf[r]}
  /\ UNCHANGED <<stored, agg, marked, rebuild, told, lost, twice, crashes, backfills>>

AtWork == {r \in Reports : pc[r] \notin {"new", "done"}}

\* The parser dies; what its workers had in hand is never emitted again.
Crash ==
  /\ crashes < MaxCrashes /\ crashes' = crashes + 1
  /\ pc' = [r \in Reports |-> IF pc[r] = "new" THEN "new" ELSE "done"]
  /\ lost' = lost \cup {r \in AtWork \ twice : pc[r] = "rollup"}
  /\ twice' = twice \ {r \in AtWork : pc[r] = "rollup"}
  /\ excused' = excused \cup {BucketOf[r] : r \in AtWork}
  /\ UNCHANGED <<stored, agg, marked, rebuild, told, faults, backfills>>
-----------------------------------------------------------------------------
(* -backfill-rollups.                                                      *)

\* DELETE locks the rows there are.
Clear ==
  /\ backfill = "idle"
  /\ backfills < MaxBackfills /\ backfills' = backfills + 1
  /\ backfill' = "cleared"
  /\ locked' = {b \in Buckets : Row(b)}
  /\ UNCHANGED <<pc, stored, agg, marked, snapshot, history, faults, crashes>>

\* A bucket that came into being after the DELETE is a duplicate key.
Clash == \E b \in Buckets \ locked : Row(b) /\ In(b, stored) # {}

Rebuild ==
  /\ backfill = "cleared" /\ ~Clash
  /\ backfill' = "rebuilt"
  /\ snapshot' = stored
  /\ locked' = locked \cup {BucketOf[r] : r \in stored}
  /\ UNCHANGED <<pc, stored, agg, marked, history, bounds>>

Rebuilt(b) ==
  IF In(b, snapshot) = {} /\ b \notin locked THEN agg[b] ELSE Sums(In(b, snapshot))

CommitRebuild ==
  /\ backfill = "rebuilt"
  /\ backfill' = "idle" /\ locked' = {} /\ snapshot' = {}
  /\ agg' = [b \in Buckets |-> Rebuilt(b)]
  /\ lost' = lost \ snapshot
  /\ twice' = {r \in snapshot : pc[r] = "rollup"}
  /\ UNCHANGED <<pc, stored, marked, told, excused, bounds>>

\* Mutant of RollBack: the transaction of a failed rebuild stays open.
RollBackNever ==
  /\ backfill # "idle"
  /\ \/ backfill = "cleared" /\ Clash /\ UNCHANGED faults
     \/ Fault
  /\ backfill' = "idle" /\ snapshot' = {}
  /\ UNCHANGED <<pc, stored, agg, marked, locked, history, crashes, backfills>>

\* A clash, an error or the end of the process: everything is as before.
RollBack ==
  /\ backfill # "idle"
  /\ \/ backfill = "cleared" /\ Clash /\ UNCHANGED faults
     \/ Fault
  /\ backfill' = "idle" /\ locked' = {} /\ snapshot' = {}
  /\ UNCHANGED <<pc, stored, agg, marked, history, crashes, backfills>>
-----------------------------------------------------------------------------
Observe(r) == Upsert(r) \/ Suppress(r) \/ Stats(r) \/ Mark(r) \/ Notify(r)

Failure ==
  \/ \E r \in Reports : UpsertFails(r) \/ MarkFails(r) \/ CheckFails(r)
  \/ Crash

Backfill == Rebuild \/ CommitRebuild \/ RollBack

Next ==
  \/ \E r \in Reports : Store(r) \/ Observe(r)
  \/ Clear \/ Backfill
  \/ Failure

\* Workers and a backfill that has begun run on.
Fairness == WF_vars(Backfill) /\ \A r \in Reports : WF_vars(Observe(r))

Spec == Init /\ [][Next]_vars
FairSpec == Spec /\ Fairness
-----------------------------------------------------------------------------
\* Types, and no bucket with more aligned messages than messages.
TypeOK ==
  /\ pc \in [Reports -> {"new", "rollup", "suppressed", "stats", "mark", "notify", "done"}]
  /\ stored \subseteq Reports
  /\ agg \in [Buckets -> [reports : Nat, total : Nat, aligned : Nat]]
  /\ \A b \in Buckets : agg[b].aligned <= agg[b].total
  /\ marked \subseteq Buckets
  /\ backfill \in {"idle", "cleared", "rebuilt"}
  /\ locked \subseteq Buckets /\ snapshot \subseteq stored
  /\ told \in [Buckets -> Nat] /\ excused \subseteq Buckets
  /\ lost \subseteq stored /\ twice \subseteq stored
  /\ faults \in 0..MaxFaults /\ crashes \in 0..MaxCrashes /\ backfills \in 0..MaxBackfills

Pending(r) == pc[r] = "rollup"

\* A bucket holds each stored report of its day and domain once, apart from
\* those still to be added, those lost to a failure and not rebuilt since, and
\* those a backfill saw before their upsert, which it holds twice after it
\* (rollup.go:30).
BucketsAddUp ==
  \A b \in Buckets :
    LET once  == {r \in In(b, stored) : r \notin lost /\ (Pending(r) => r \in twice)}
        again == {r \in In(b, twice) : ~Pending(r)}
    IN  agg[b] = Plus(Sums(once), Sums(again))

\* "in a single transaction, so readers never observe an empty table"
\* (rollup.go:100): once there is a bucket there is always one.
NeverEmpty == [][(\E b \in Buckets : Row(b)) => (\E b \in Buckets : Row(b)')]_vars

\* "safe to re-run" (README.md:468): a rebuild leaves exactly the sums of the
\* reports it saw, whatever was lost or counted twice before, and takes back no
\* upsert of a report it did not see.
RebuildRepairs ==
  [][CommitRebuild => \A b \in Buckets : In(b, snapshot) # {} =>
       /\ agg'[b] = Sums(In(b, snapshot))
       /\ \A r \in In(b, stored) \ snapshot : Pending(r) \/ r \in lost]_vars

\* The check runs after the rollup (main.go:110), so whoever brings a day over
\* the threshold sees it: when all work is done, such a day was told.
AnomalyTold ==
  AtWork = {} => \A b \in Buckets \ excused :
                   Row(b) /\ Fails(b) >= Threshold => told[b] > 0

\* Every stored report gets through its observers, backfill or not.
EveryReportObserved == \A r \in Reports : pc[r] = "rollup" ~> pc[r] = "done"

\* "Duplicates never reach observers, so buckets are never double-counted"
\* (rollup.go:43).
NeverDoubleCounted ==
  \A b \in Buckets : agg[b].reports <= Cardinality(In(b, stored))

\* "fires domain.anomaly at most once per (domain, day)" (observer.go:82).
AnomalyOnce == \A b \in Buckets : told[b] <= 1
=============================================================================
