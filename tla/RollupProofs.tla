---------------------------- MODULE RollupProofs ----------------------------
(***************************************************************************)
(* Theorems about Rollup, for any reports, numbers and days: what a bucket *)
(* holds while upserts, failures, crashes and rebuilds interleave, and     *)
(* that a day over the threshold is told of.                               *)
(***************************************************************************)
EXTENDS Rollup, SumTheorems

-----------------------------------------------------------------------------
(* Sums of reports.                                                        *)

Triples == [reports : Nat, total : Nat, aligned : Nat]

LEMMA Constants ==
  /\ IsFiniteSet(Reports) /\ \A S \in SUBSET Reports : IsFiniteSet(S)
  /\ \A r \in Reports : BucketOf[r] \in Buckets
  /\ \A r \in Reports : Total[r] \in Nat /\ Aligned[r] \in Nat /\ Aligned[r] <= Total[r]
  /\ Threshold \in Nat /\ MaxFaults \in Nat /\ MaxCrashes \in Nat /\ MaxBackfills \in Nat
  BY RollupAssumption, FS_Subset DEF RollupAssumption

LEMMA SumsAre ==
  ASSUME NEW S
  PROVE  Sums(S) = [reports |-> Cardinality(S), total |-> Weigh(Total, S),
                    aligned |-> Weigh(Aligned, S)]
  BY DEF Sums, Weigh

LEMMA SumsUnion ==
  ASSUME NEW S \in SUBSET Reports, NEW T \in SUBSET Reports, S \cap T = {}
  PROVE  Sums(S \cup T) = Plus(Sums(S), Sums(T))
<1>1. IsFiniteSet(S) /\ IsFiniteSet(T) /\ S \cup T \subseteq Reports
  BY Constants
<1>2. Cardinality(S \cup T) = Cardinality(S) + Cardinality(T)
  <2>1. Cardinality(S \cup T) = Cardinality(S) + Cardinality(T) - Cardinality(S \cap T)
    BY <1>1, FS_Union
  <2>2. Cardinality(S) \in Nat /\ Cardinality(T) \in Nat /\ Cardinality(S \cap T) = 0
    BY <1>1, FS_CardinalityType, FS_EmptySet
  <2> QED
    BY <2>1, <2>2
<1>3. Weigh(Total, S \cup T) = Weigh(Total, S) + Weigh(Total, T)
  BY <1>1, Constants, SumUnion
<1>4. Weigh(Aligned, S \cup T) = Weigh(Aligned, S) + Weigh(Aligned, T)
  BY <1>1, Constants, SumUnion
<1> QED
  BY <1>2, <1>3, <1>4, SumsAre DEF Plus

LEMMA SumsType ==
  ASSUME NEW S \in SUBSET Reports
  PROVE  /\ Sums(S) \in Triples /\ Sums(S).aligned <= Sums(S).total
         /\ S # {} => Sums(S).reports > 0
         /\ S = {} => Sums(S) = [reports |-> 0, total |-> 0, aligned |-> 0]
<1>1. IsFiniteSet(S) /\ Cardinality(S) \in Nat
  BY Constants, FS_CardinalityType
<1>2. Weigh(Total, S) \in Nat /\ Weigh(Aligned, S) \in Nat
  BY <1>1, Constants, SumIsNat
<1>3. Weigh(Aligned, S) <= Weigh(Total, S)
  BY <1>1, Constants, SumAtMost
<1>4. S # {} => Cardinality(S) > 0
  BY <1>1, FS_EmptySet
<1>5. S = {} => Cardinality(S) = 0 /\ Weigh(Total, S) = 0 /\ Weigh(Aligned, S) = 0
  BY FS_EmptySet, SumEmpty
<1> QED
  BY <1>1, <1>2, <1>3, <1>4, <1>5, SumsAre DEF Triples

LEMMA PlusFacts ==
  ASSUME NEW x \in Triples, NEW y \in Triples
  PROVE  /\ Plus(x, y) \in Triples
         /\ Plus(x, Sums({})) = x
         /\ \A z \in Triples : /\ Plus(Plus(x, y), z) = Plus(Plus(x, z), y)
                               /\ Plus(Plus(x, y), z) = Plus(x, Plus(y, z))
         /\ x.aligned <= x.total /\ y.aligned <= y.total
              => Plus(x, y).aligned <= Plus(x, y).total
<1>1. Sums({}) = [reports |-> 0, total |-> 0, aligned |-> 0]
  BY SumsType
<1> QED
  BY <1>1 DEF Plus, Triples

LEMMA SumsAdd ==
  ASSUME NEW S \in SUBSET Reports, NEW r \in Reports, r \notin S
  PROVE  Sums(S \cup {r}) = Plus(Sums(S), Sums({r}))
  BY SumsUnion

\* More reports, no fewer unaligned messages.
LEMMA SumsGrow ==
  ASSUME NEW S \in SUBSET Reports, NEW T \in SUBSET S
  PROVE  Sums(T).total - Sums(T).aligned <= Sums(S).total - Sums(S).aligned
<1> DEFINE R == S \ T
<1>1. R \in SUBSET Reports /\ T \in SUBSET Reports /\ T \cap R = {} /\ S = T \cup R
  OBVIOUS
<1>2. Sums(T) \in Triples /\ Sums(R) \in Triples /\ Sums(R).aligned <= Sums(R).total
  BY <1>1, SumsType
<1>3. Sums(S) = Plus(Sums(T), Sums(R))
  BY <1>1, SumsUnion
<1> QED
  BY <1>2, <1>3 DEF Plus, Triples

-----------------------------------------------------------------------------
(* The inductive invariant.                                                *)

StoredIsStarted == \A r \in Reports : r \in stored <=> pc[r] # "new"
PendingNotLost == \A r \in Reports : Pending(r) => r \notin lost

\* A row that a rebuild has locked is that of a report it sees.
LocksHaveReports ==
  \A b \in locked : In(b, IF backfill = "rebuilt" THEN snapshot ELSE stored) # {}

\* What is stored after the snapshot of a rebuild waits for its locks.
SnapshotIsLocked ==
  backfill = "rebuilt" =>
    /\ twice \subseteq snapshot
    /\ \A r \in snapshot : BucketOf[r] \in locked
    /\ \A r \in stored \ snapshot : BucketOf[r] \in locked => Pending(r) \/ r \in lost

Once(b) == {r \in In(b, stored) : r \notin lost /\ (Pending(r) => r \in twice)}
Again(b) == {r \in In(b, twice) : ~Pending(r)}

RollupInv ==
  /\ TypeOK /\ StoredIsStarted /\ PendingNotLost /\ LocksHaveReports /\ SnapshotIsLocked
  /\ BucketsAddUp

LEMMA AddUp == BucketsAddUp <=> \A b \in Buckets : agg[b] = Plus(Sums(Once(b)), Sums(Again(b)))
  BY DEF BucketsAddUp, Once, Again

LEMMA Subsets ==
  ASSUME TypeOK, NEW b
  PROVE  /\ Once(b) \in SUBSET Reports /\ Again(b) \in SUBSET Reports
         /\ In(b, stored) \in SUBSET Reports /\ In(b, snapshot) \in SUBSET Reports
  BY DEF TypeOK, Once, Again, In

\* A step that changes no bucket and moves no report between the two sets.
LEMMA BucketsRest ==
  ASSUME RollupInv, UNCHANGED agg,
         \A b \in Buckets : Once(b)' = Once(b) /\ Again(b)' = Again(b)
  PROVE  BucketsAddUp'
<1>1. \A b \in Buckets : agg[b] = Plus(Sums(Once(b)), Sums(Again(b)))
  BY AddUp DEF RollupInv
<1>2. \A b \in Buckets : agg'[b] = Plus(Sums(Once(b)'), Sums(Again(b)'))
  BY <1>1
<1> QED
  BY <1>2 DEF BucketsAddUp, Once, Again

LEMMA InitRollup == Init => RollupInv
<1> SUFFICES ASSUME Init PROVE RollupInv
  OBVIOUS
<1>1. TypeOK
  <2>1. Sums({}) \in Triples /\ Sums({}).aligned <= Sums({}).total
    BY SumsType
  <2> QED
    BY <2>1, Constants DEF Init, TypeOK, Triples
<1>2. StoredIsStarted /\ PendingNotLost /\ LocksHaveReports /\ SnapshotIsLocked
  BY DEF Init, StoredIsStarted, PendingNotLost, LocksHaveReports, SnapshotIsLocked
<1>3. \A b \in Buckets : Once(b) = {} /\ Again(b) = {} /\ agg[b] = Sums({})
  BY DEF Init, Once, Again, In
<1>4. BucketsAddUp
  <2>1. Sums({}) \in Triples
    BY SumsType
  <2> QED
    BY <1>3, <2>1, PlusFacts, AddUp
<1> QED
  BY <1>1, <1>2, <1>4 DEF RollupInv

-----------------------------------------------------------------------------
(* The observers.                                                          *)

LEMMA StepKeeps ==
  ASSUME TypeOK, NEW r \in Reports, NEW from, NEW to, Step(r, from, to),
         to \in {"rollup", "suppressed", "stats", "mark", "notify", "done"}
  PROVE  /\ pc' \in [Reports ->
                      {"new", "rollup", "suppressed", "stats", "mark", "notify", "done"}]
         /\ pc[r] = from /\ pc'[r] = to
         /\ \A q \in Reports : q # r => pc'[q] = pc[q]
  BY DEF Step, TypeOK

LEMMA StoreKeeps ==
  ASSUME RollupInv, NEW r \in Reports, Store(r)
  PROVE  RollupInv'
<1> USE DEF RollupInv
<1>1. /\ pc' \in [Reports -> {"new", "rollup", "suppressed", "stats", "mark", "notify", "done"}]
      /\ pc[r] = "new" /\ pc'[r] = "rollup" /\ \A q \in Reports : q # r => pc'[q] = pc[q]
  BY StepKeeps DEF Store
<1>2. /\ stored' = stored \cup {r} /\ r \notin stored /\ r \notin twice /\ r \notin lost
      /\ r \notin snapshot
      /\ UNCHANGED <<agg, marked, backfill, locked, snapshot, told, lost, twice, excused,
                     faults, crashes, backfills>>
  BY <1>1 DEF Store, StoredIsStarted, TypeOK, rebuild, history, bounds
<1>3. TypeOK'
  BY <1>1, <1>2 DEF TypeOK
<1>4. StoredIsStarted' /\ PendingNotLost'
  BY <1>1, <1>2 DEF StoredIsStarted, PendingNotLost, Pending
<1>5. LocksHaveReports'
  BY <1>2 DEF LocksHaveReports, In
<1>6. SnapshotIsLocked'
  BY <1>1, <1>2 DEF SnapshotIsLocked, Pending, TypeOK
<1>7. ASSUME NEW b \in Buckets PROVE Once(b)' = Once(b) /\ Again(b)' = Again(b)
  BY <1>1, <1>2 DEF Once, Again, In, Pending, TypeOK
<1>8. BucketsAddUp'
  BY <1>2, <1>7, BucketsRest
<1> QED
  BY <1>3, <1>4, <1>5, <1>6, <1>8

LEMMA UpsertKeeps ==
  ASSUME RollupInv, NEW r \in Reports, Upsert(r)
  PROVE  RollupInv'
<1> USE DEF RollupInv
<1> DEFINE c == BucketOf[r]
<1>1. /\ pc' \in [Reports -> {"new", "rollup", "suppressed", "stats", "mark", "notify", "done"}]
      /\ pc[r] = "rollup" /\ pc'[r] = "suppressed"
      /\ \A q \in Reports : q # r => pc'[q] = pc[q]
  BY StepKeeps DEF Upsert
<1>2. /\ r \in stored /\ r \notin lost /\ c \in Buckets /\ c \notin locked
      /\ agg' = [agg EXCEPT ![c] = Plus(@, Sums({r}))]
      /\ UNCHANGED <<stored, marked, backfill, locked, snapshot, told, lost, twice, excused,
                     faults, crashes, backfills>>
  BY <1>1, Constants
  DEF Upsert, Unlocked, StoredIsStarted, PendingNotLost, Pending, rebuild, history, bounds
<1>3. Sums({r}) \in Triples /\ Sums({r}).aligned <= Sums({r}).total
  BY SumsType
<1>4. /\ agg \in [Buckets -> Triples] /\ \A b \in Buckets : agg[b].aligned <= agg[b].total
      /\ agg'[c] = Plus(agg[c], Sums({r})) /\ \A b \in Buckets : b # c => agg'[b] = agg[b]
  BY <1>2 DEF TypeOK, Triples
<1>5. Plus(agg[c], Sums({r})) \in Triples
      /\ Plus(agg[c], Sums({r})).aligned <= Plus(agg[c], Sums({r})).total
  BY <1>2, <1>3, <1>4, PlusFacts
<1>6. /\ agg' \in [Buckets -> Triples] /\ \A b \in Buckets : agg'[b].aligned <= agg'[b].total
  BY <1>2, <1>4, <1>5
<1>7. TypeOK'
  BY <1>1, <1>2, <1>6 DEF TypeOK, Triples
<1>8. StoredIsStarted' /\ PendingNotLost'
  BY <1>1, <1>2 DEF StoredIsStarted, PendingNotLost, Pending
<1>9. LocksHaveReports'
  BY <1>2 DEF LocksHaveReports, In
<1>10. SnapshotIsLocked'
  BY <1>1, <1>2 DEF SnapshotIsLocked, Pending, TypeOK
<1>11. ASSUME NEW b \in Buckets PROVE agg'[b] = Plus(Sums(Once(b)'), Sums(Again(b)'))
  <2>0. agg[b] = Plus(Sums(Once(b)), Sums(Again(b)))
    BY AddUp
  <2>1. Once(b) \in SUBSET Reports /\ Again(b) \in SUBSET Reports
        /\ Sums(Once(b)) \in Triples /\ Sums(Again(b)) \in Triples
    BY Subsets, SumsType
  <2>2. CASE b # c
    <3>1. Once(b)' = Once(b) /\ Again(b)' = Again(b)
      BY <1>1, <1>2, <2>2 DEF Once, Again, In, Pending, TypeOK
    <3> QED
      BY <1>4, <2>0, <2>2, <3>1
  <2>3. CASE b = c /\ r \notin twice
    <3>1. Once(b)' = Once(b) \cup {r} /\ Again(b)' = Again(b) /\ r \notin Once(b)
      BY <1>1, <1>2, <2>3 DEF Once, Again, In, Pending, TypeOK
    <3>2. Sums(Once(b) \cup {r}) = Plus(Sums(Once(b)), Sums({r}))
      BY <2>1, <3>1, SumsAdd
    <3>3. agg'[b] = Plus(Plus(Sums(Once(b)), Sums(Again(b))), Sums({r}))
      BY <1>4, <2>0, <2>3
    <3>4. agg'[b] = Plus(Plus(Sums(Once(b)), Sums({r})), Sums(Again(b)))
      BY <1>3, <2>1, <3>3, PlusFacts
    <3> QED
      BY <3>1, <3>2, <3>4
  <2>4. CASE b = c /\ r \in twice
    <3>1. Again(b)' = Again(b) \cup {r} /\ Once(b)' = Once(b) /\ r \notin Again(b)
      BY <1>1, <1>2, <2>4 DEF Once, Again, In, Pending, TypeOK
    <3>2. Sums(Again(b) \cup {r}) = Plus(Sums(Again(b)), Sums({r}))
      BY <2>1, <3>1, SumsAdd
    <3>3. agg'[b] = Plus(Plus(Sums(Once(b)), Sums(Again(b))), Sums({r}))
      BY <1>4, <2>0, <2>4
    <3>4. agg'[b] = Plus(Sums(Once(b)), Plus(Sums(Again(b)), Sums({r})))
      BY <1>3, <2>1, <3>3, PlusFacts
    <3> QED
      BY <3>1, <3>2, <3>4
  <2> QED
    BY <2>2, <2>3, <2>4
<1>12. BucketsAddUp'
  BY <1>11 DEF BucketsAddUp, Once, Again
<1> QED
  BY <1>7, <1>8, <1>9, <1>10, <1>12

\* The report is over with the upsert, without it.
LEMMA UpsertFailsKeeps ==
  ASSUME RollupInv, NEW r \in Reports, UpsertFails(r)
  PROVE  RollupInv'
<1> USE DEF RollupInv
<1>1. /\ pc' \in [Reports -> {"new", "rollup", "suppressed", "stats", "mark", "notify", "done"}]
      /\ pc[r] = "rollup" /\ pc'[r] = "suppressed"
      /\ \A q \in Reports : q # r => pc'[q] = pc[q]
  BY StepKeeps DEF UpsertFails
<1>2. /\ r \in stored /\ r \notin lost /\ BucketOf[r] \in Buckets
      /\ lost' = IF r \in twice THEN lost ELSE lost \cup {r}
      /\ twice' = twice \ {r} /\ excused' = excused \cup {BucketOf[r]}
      /\ faults < MaxFaults /\ faults' = faults + 1
      /\ UNCHANGED <<stored, agg, marked, backfill, locked, snapshot, told, crashes, backfills>>
  BY <1>1, Constants
  DEF UpsertFails, Fault, StoredIsStarted, PendingNotLost, Pending, rebuild
<1>3. TypeOK'
  BY <1>1, <1>2, Constants DEF TypeOK
<1>4. StoredIsStarted' /\ PendingNotLost'
  BY <1>1, <1>2 DEF StoredIsStarted, PendingNotLost, Pending
<1>5. LocksHaveReports'
  BY <1>2 DEF LocksHaveReports, In
<1>6. SnapshotIsLocked'
  BY <1>1, <1>2 DEF SnapshotIsLocked, Pending, TypeOK
<1>7. ASSUME NEW b \in Buckets PROVE Once(b)' = Once(b) /\ Again(b)' = Again(b)
  BY <1>1, <1>2 DEF Once, Again, In, Pending, TypeOK
<1>8. BucketsAddUp'
  BY <1>2, <1>7, BucketsRest
<1> QED
  BY <1>3, <1>4, <1>5, <1>6, <1>8

\* The steps of the anomaly check, and those that stand still.
LEMMA CheckKeeps ==
  ASSUME RollupInv, NEW r \in Reports,
         \/ Suppress(r) \/ Stats(r) \/ Mark(r) \/ MarkFails(r) \/ Notify(r) \/ CheckFails(r)
  PROVE  RollupInv'
<1> USE DEF RollupInv
<1>1. /\ pc' \in [Reports -> {"new", "rollup", "suppressed", "stats", "mark", "notify", "done"}]
      /\ pc[r] \notin {"new", "rollup"} /\ pc'[r] \notin {"new", "rollup"}
      /\ \A q \in Reports : q # r => pc'[q] = pc[q]
  <2>1. PICK from \in {"suppressed", "stats", "mark", "notify"},
             to \in {"done", "stats", "mark", "notify"} : Step(r, from, to)
    BY DEF Suppress, Stats, Mark, MarkFails, Notify, CheckFails
  <2> QED
    BY <2>1, StepKeeps
<1>2. UNCHANGED <<stored, agg, backfill, locked, snapshot, lost, twice, crashes, backfills>>
  BY DEF Suppress, Stats, Mark, MarkFails, Notify, CheckFails, rebuild, history, bounds
<1>3. /\ marked' \subseteq Buckets /\ told' \in [Buckets -> Nat] /\ excused' \subseteq Buckets
      /\ faults' \in 0..MaxFaults
  <2>1. BucketOf[r] \in Buckets /\ MaxFaults \in Nat
    BY Constants
  <2>2. CASE Suppress(r) \/ Stats(r)
    BY <2>1, <2>2 DEF Suppress, Stats, history, bounds, TypeOK
  <2>3. CASE Mark(r) \/ MarkFails(r)
    BY <2>1, <2>3 DEF Mark, MarkFails, Fault, history, bounds, TypeOK
  <2>4. CASE Notify(r)
    <3>1. told' = [told EXCEPT ![BucketOf[r]] = @ + 1] /\ UNCHANGED <<marked, excused, faults>>
      BY <2>4 DEF Notify, bounds
    <3> QED
      BY <2>1, <3>1 DEF TypeOK
  <2>5. CASE CheckFails(r)
    BY <2>1, <2>5 DEF CheckFails, Fault, TypeOK
  <2> QED
    BY <2>2, <2>3, <2>4, <2>5
<1>4. TypeOK'
  BY <1>1, <1>2, <1>3 DEF TypeOK
<1>5. StoredIsStarted' /\ PendingNotLost'
  BY <1>1, <1>2 DEF StoredIsStarted, PendingNotLost, Pending
<1>6. LocksHaveReports'
  BY <1>2 DEF LocksHaveReports, In
<1>7. SnapshotIsLocked'
  BY <1>1, <1>2 DEF SnapshotIsLocked, Pending, TypeOK
<1>8. ASSUME NEW b \in Buckets PROVE Once(b)' = Once(b) /\ Again(b)' = Again(b)
  BY <1>1, <1>2 DEF Once, Again, In, Pending, TypeOK
<1>9. BucketsAddUp'
  BY <1>2, <1>8, BucketsRest
<1> QED
  BY <1>4, <1>5, <1>6, <1>7, <1>9

LEMMA CrashKeeps == RollupInv /\ Crash => RollupInv'
<1> SUFFICES ASSUME RollupInv, Crash PROVE RollupInv'
  OBVIOUS
<1> USE DEF RollupInv
<1>1. /\ crashes < MaxCrashes /\ crashes' = crashes + 1
      /\ pc' = [r \in Reports |-> IF pc[r] = "new" THEN "new" ELSE "done"]
      /\ lost' = lost \cup {r \in AtWork \ twice : pc[r] = "rollup"}
      /\ twice' = twice \ {r \in AtWork : pc[r] = "rollup"}
      /\ excused' = excused \cup {BucketOf[r] : r \in AtWork}
      /\ UNCHANGED <<stored, agg, marked, backfill, locked, snapshot, told, faults, backfills>>
  BY DEF Crash, rebuild
<1>2. \A r \in Reports : /\ r \in AtWork /\ pc[r] = "rollup" <=> Pending(r)
                         /\ pc'[r] = "new" <=> pc[r] = "new"
                         /\ ~Pending(r)'
  BY <1>1 DEF AtWork, Pending
<1>3. {BucketOf[r] : r \in AtWork} \subseteq Buckets
  BY Constants DEF AtWork
<1>4. lost' \subseteq stored /\ twice' \subseteq stored
  <2>1. {r \in AtWork \ twice : pc[r] = "rollup"} \subseteq stored
    BY DEF AtWork, StoredIsStarted
  <2> QED
    BY <1>1, <2>1 DEF TypeOK
<1>5. pc' \in [Reports -> {"new", "rollup", "suppressed", "stats", "mark", "notify", "done"}]
  BY <1>1
<1>6. TypeOK'
  BY <1>1, <1>3, <1>4, <1>5, Constants DEF TypeOK
<1>7. StoredIsStarted' /\ PendingNotLost'
  BY <1>1, <1>2 DEF StoredIsStarted, PendingNotLost
<1>8. LocksHaveReports'
  BY <1>1 DEF LocksHaveReports, In
<1>9. \A r \in Reports : /\ r \in lost' <=> r \in lost \/ (Pending(r) /\ r \notin twice)
                         /\ r \in twice' <=> r \in twice /\ ~Pending(r)
  BY <1>1, <1>2 DEF AtWork
<1>10. SnapshotIsLocked'
  BY <1>1, <1>2, <1>9 DEF SnapshotIsLocked, TypeOK
<1>11. ASSUME NEW b \in Buckets PROVE Once(b)' = Once(b) /\ Again(b)' = Again(b)
  BY <1>1, <1>2, <1>9 DEF Once, Again, In, TypeOK, PendingNotLost
<1>12. BucketsAddUp'
  BY <1>1, <1>11, BucketsRest
<1> QED
  BY <1>6, <1>7, <1>8, <1>10, <1>12

-----------------------------------------------------------------------------
(* The rebuild.                                                            *)

\* A row there is has reports.
LEMMA RowsHaveReports ==
  ASSUME TypeOK, BucketsAddUp, NEW b \in Buckets, Row(b)
  PROVE  In(b, stored) # {}
<1> SUFFICES ASSUME In(b, stored) = {} PROVE FALSE
  OBVIOUS
<1>1. Once(b) = {} /\ Again(b) = {}
  BY DEF Once, Again, In, TypeOK
<1>2. Sums({}) \in Triples /\ Sums({}) = [reports |-> 0, total |-> 0, aligned |-> 0]
  BY SumsType
<1>3. agg[b] = Plus(Sums({}), Sums({}))
  BY <1>1, AddUp
<1>4. agg[b].reports = 0
  BY <1>2, <1>3 DEF Plus
<1> QED
  BY <1>4 DEF Row

LEMMA RebuildStarts == RollupInv /\ (Clear \/ Rebuild \/ RollBack) => RollupInv'
<1> SUFFICES ASSUME RollupInv, Clear \/ Rebuild \/ RollBack PROVE RollupInv'
  OBVIOUS
<1> USE DEF RollupInv
<1>1. UNCHANGED <<pc, stored, agg, marked, told, lost, twice, excused>>
  BY DEF Clear, Rebuild, RollBack, history
<1>2. TypeOK'
  <2>1. CASE Clear
    BY <2>1, <1>1, Constants DEF Clear, TypeOK
  <2>2. CASE Rebuild
    <3>1. {BucketOf[r] : r \in stored} \subseteq Buckets
      BY Constants DEF TypeOK
    <3> QED
      BY <2>2, <3>1, <1>1 DEF Rebuild, bounds, TypeOK
  <2>3. CASE RollBack
    BY <2>3, <1>1, Constants DEF RollBack, Fault, TypeOK
  <2> QED
    BY <2>1, <2>2, <2>3
<1>3. StoredIsStarted' /\ PendingNotLost'
  BY <1>1 DEF StoredIsStarted, PendingNotLost, Pending
<1>4. LocksHaveReports' /\ SnapshotIsLocked'
  <2>1. CASE Clear
    <3>1. backfill' = "cleared" /\ \A b \in locked' : b \in Buckets /\ Row(b)
      BY <2>1 DEF Clear
    <3>2. \A b \in locked' : In(b, stored) # {}
      BY <3>1, RowsHaveReports
    <3> QED
      BY <1>1, <3>1, <3>2 DEF LocksHaveReports, SnapshotIsLocked, In
  <2>2. CASE Rebuild
    <3>1. /\ backfill = "cleared" /\ backfill' = "rebuilt" /\ snapshot' = stored
          /\ locked' = locked \cup {BucketOf[r] : r \in stored}
      BY <2>2 DEF Rebuild
    <3>2. \A b \in locked : In(b, stored) # {}
      BY <3>1 DEF LocksHaveReports
    <3>3. \A r \in stored : r \in In(BucketOf[r], stored)
      BY DEF In
    <3>4. LocksHaveReports'
      BY <1>1, <3>1, <3>2, <3>3 DEF LocksHaveReports, In
    <3>5. SnapshotIsLocked'
      BY <1>1, <3>1 DEF SnapshotIsLocked, TypeOK
    <3> QED
      BY <3>4, <3>5
  <2>3. CASE RollBack
    BY <2>3 DEF RollBack, LocksHaveReports, SnapshotIsLocked
  <2> QED
    BY <2>1, <2>2, <2>3
<1>5. ASSUME NEW b \in Buckets PROVE Once(b)' = Once(b) /\ Again(b)' = Again(b)
  BY <1>1 DEF Once, Again, In, Pending
<1>6. BucketsAddUp'
  BY <1>1, <1>5, BucketsRest
<1> QED
  BY <1>2, <1>3, <1>4, <1>6

\* What a rebuild leaves in a bucket that it saw no report of, and in one of
\* which it saw some.
LEMMA RebuiltHolds ==
  ASSUME RollupInv, backfill = "rebuilt", NEW b \in Buckets
  PROVE  /\ In(b, snapshot) = {} => Rebuilt(b) = agg[b] /\ In(b, twice) = {} /\ b \notin locked
         /\ In(b, snapshot) # {} => /\ Rebuilt(b) = Sums(In(b, snapshot)) /\ b \in locked
                                    /\ \A r \in In(b, stored) \ snapshot : Pending(r) \/ r \in lost
<1> USE DEF RollupInv
<1>1. CASE In(b, snapshot) = {}
  <2>1. b \notin locked
    BY <1>1 DEF LocksHaveReports
  <2>2. In(b, twice) = {}
    BY <1>1 DEF SnapshotIsLocked, In
  <2> QED
    BY <1>1, <2>1, <2>2 DEF Rebuilt
<1>2. CASE In(b, snapshot) # {}
  <2>1. b \in locked
    BY <1>2 DEF SnapshotIsLocked, In
  <2>2. \A r \in In(b, stored) \ snapshot : Pending(r) \/ r \in lost
    BY <2>1 DEF SnapshotIsLocked, In
  <2> QED
    BY <1>2, <2>1, <2>2 DEF Rebuilt
<1> QED
  BY <1>1, <1>2

LEMMA CommitKeeps == RollupInv /\ CommitRebuild => RollupInv'
<1> SUFFICES ASSUME RollupInv, CommitRebuild PROVE RollupInv'
  OBVIOUS
<1> USE DEF RollupInv
<1>1. /\ backfill = "rebuilt" /\ backfill' = "idle" /\ locked' = {} /\ snapshot' = {}
      /\ agg' = [b \in Buckets |-> Rebuilt(b)]
      /\ lost' = lost \ snapshot /\ twice' = {r \in snapshot : Pending(r)}
      /\ UNCHANGED <<pc, stored, marked, told, excused, faults, crashes, backfills>>
  BY DEF CommitRebuild, Pending, bounds
<1>2. \A b \in Buckets : agg[b] = Plus(Sums(Once(b)), Sums(Again(b)))
  BY AddUp
<1>3. ASSUME NEW b \in Buckets
      PROVE  agg'[b] = Plus(Sums(Once(b)'), Sums(Again(b)'))
  <2>1. agg'[b] = Rebuilt(b)
    BY <1>1
  <2>2. Again(b)' = {}
    BY <1>1 DEF Again, In, Pending
  <2>3. CASE In(b, snapshot) = {}
    <3>1. Rebuilt(b) = agg[b] /\ In(b, twice) = {}
      BY <1>1, <2>3, RebuiltHolds
    <3>2. Once(b)' = Once(b) /\ Again(b) = {}
      BY <1>1, <2>3, <3>1 DEF Once, Again, In, Pending, TypeOK
    <3> QED
      BY <1>2, <2>1, <2>2, <3>1, <3>2
  <2>4. CASE In(b, snapshot) # {}
    <3>1. /\ Rebuilt(b) = Sums(In(b, snapshot))
          /\ \A r \in In(b, stored) \ snapshot : Pending(r) \/ r \in lost
      BY <1>1, <2>4, RebuiltHolds
    <3>2. Once(b)' = In(b, snapshot)
      BY <1>1, <3>1 DEF Once, In, Pending, TypeOK
    <3>3. Sums(In(b, snapshot)) \in Triples
      BY Subsets, SumsType
    <3>4. Plus(Sums(In(b, snapshot)), Sums({})) = Sums(In(b, snapshot))
      BY <3>3, PlusFacts
    <3> QED
      BY <2>1, <2>2, <3>1, <3>2, <3>4
  <2> QED
    BY <2>3, <2>4
<1>4. BucketsAddUp'
  BY <1>3 DEF BucketsAddUp, Once, Again
<1>5. ASSUME NEW b \in Buckets
      PROVE  agg'[b] \in Triples /\ agg'[b].aligned <= agg'[b].total
  <2>1. agg'[b] = Rebuilt(b) /\ agg[b] \in Triples /\ agg[b].aligned <= agg[b].total
    BY <1>1 DEF TypeOK, Triples
  <2>2. Sums(In(b, snapshot)) \in Triples
        /\ Sums(In(b, snapshot)).aligned <= Sums(In(b, snapshot)).total
    BY Subsets, SumsType
  <2> QED
    BY <2>1, <2>2 DEF Rebuilt
<1>6. TypeOK'
  <2>1. agg' \in [Buckets -> Triples] /\ \A b \in Buckets : agg'[b].aligned <= agg'[b].total
    BY <1>1, <1>5
  <2>2. lost' \subseteq stored /\ twice' \subseteq stored
    BY <1>1 DEF TypeOK
  <2> QED
    BY <1>1, <2>1, <2>2 DEF TypeOK, Triples
<1>7. StoredIsStarted' /\ PendingNotLost' /\ LocksHaveReports' /\ SnapshotIsLocked'
  BY <1>1 DEF StoredIsStarted, PendingNotLost, LocksHaveReports, SnapshotIsLocked, Pending
<1> QED
  BY <1>4, <1>6, <1>7

LEMMA RollupStays == RollupInv /\ [Next]_vars => RollupInv'
<1> SUFFICES ASSUME RollupInv, [Next]_vars PROVE RollupInv'
  OBVIOUS
<1>1. ASSUME NEW r \in Reports, Store(r) \/ Observe(r)
      PROVE  RollupInv'
  BY <1>1, StoreKeeps, UpsertKeeps, CheckKeeps DEF Observe
<1>2. CASE Clear \/ Backfill
  BY <1>2, RebuildStarts, CommitKeeps DEF Backfill
<1>3. CASE Failure
  BY <1>3, UpsertFailsKeeps, CheckKeeps, CrashKeeps DEF Failure
<1>4. CASE UNCHANGED vars
  <2>1. UNCHANGED <<pc, stored, agg, marked, backfill, locked, snapshot, told, lost, twice,
                    excused, faults, crashes, backfills>>
    BY <1>4 DEF vars, rebuild, history, bounds
  <2>2. BucketsAddUp'
    BY <2>1 DEF RollupInv, BucketsAddUp, In, Pending
  <2> QED
    BY <2>1, <2>2 DEF RollupInv, TypeOK, StoredIsStarted, PendingNotLost, LocksHaveReports,
                 SnapshotIsLocked, In, Pending
<1> QED
  BY <1>1, <1>2, <1>3, <1>4 DEF Next

\* The inductive invariant, whatever reports, buckets, faults and rebuilds there are.
THEOREM Invariance == Spec => []RollupInv
  BY InitRollup, RollupStays, PTL DEF Spec

\* Types, and never more aligned messages than messages in a bucket.
THEOREM TypeCorrect == Spec => []TypeOK
<1>1. RollupInv => TypeOK
  BY DEF RollupInv
<1> QED
  BY <1>1, Invariance, PTL

\* Upserts, failures, crashes and rebuilds may interleave as they like: a
\* bucket holds every stored report once, but for those on their way, those
\* lost and those a rebuild saw before their upsert.
THEOREM BucketsHoldReports == Spec => []BucketsAddUp
<1>1. RollupInv => BucketsAddUp
  BY DEF RollupInv
<1> QED
  BY <1>1, Invariance, PTL

\* A rebuild that is committed holds exactly what it saw, and every report of
\* its buckets that it did not see is still to be added, or was lost before.
THEOREM RebuildIsExact == Spec => RebuildRepairs
<1>1. RollupInv /\ [Next]_vars =>
        [CommitRebuild => \A b \in Buckets : In(b, snapshot) # {} =>
           /\ agg'[b] = Sums(In(b, snapshot))
           /\ \A r \in In(b, stored) \ snapshot : Pending(r) \/ r \in lost]_vars
  <2> SUFFICES ASSUME RollupInv, CommitRebuild, NEW b \in Buckets, In(b, snapshot) # {}
               PROVE  /\ agg'[b] = Sums(In(b, snapshot))
                      /\ \A r \in In(b, stored) \ snapshot : Pending(r) \/ r \in lost
    OBVIOUS
  <2>1. backfill = "rebuilt" /\ agg'[b] = Rebuilt(b)
    BY DEF CommitRebuild
  <2> QED
    BY <2>1, RebuiltHolds
<1> QED
  BY <1>1, Invariance, PTL DEF Spec, RebuildRepairs

\* No step of an upsert or a rebuild shows readers an empty table.
THEOREM TableNeverEmpty == Spec => NeverEmpty
<1>1. RollupInv /\ [Next]_vars => [(\E b \in Buckets : Row(b)) => (\E b \in Buckets : Row(b)')]_vars
  <2> SUFFICES ASSUME RollupInv, [Next]_vars, NEW b \in Buckets, Row(b)
               PROVE  Row(b)'
    OBVIOUS
  <2>1. agg[b] \in Triples /\ agg \in [Buckets -> Triples]
    BY DEF RollupInv, TypeOK, Triples
  <2>2. CASE UNCHANGED agg
    BY <2>2 DEF Row
  <2>3. ASSUME NEW r \in Reports, Upsert(r)
        PROVE  Row(b)'
    <3>1. Sums({r}) \in Triples
      BY SumsType
    <3>2. agg'[b] = agg[b] \/ agg'[b] = Plus(agg[b], Sums({r}))
      BY <2>1, <2>3 DEF Upsert
    <3> QED
      BY <2>1, <3>1, <3>2 DEF Row, Plus, Triples
  <2>4. CASE CommitRebuild
    <3>1. agg'[b] = Rebuilt(b) /\ backfill = "rebuilt"
      BY <2>4 DEF CommitRebuild
    <3>2. CASE In(b, snapshot) = {}
      BY <3>1, <3>2, RebuiltHolds DEF Row
    <3>3. CASE In(b, snapshot) # {}
      <4>1. In(b, snapshot) \in SUBSET Reports
        BY Subsets DEF RollupInv
      <4>2. Sums(In(b, snapshot)).reports > 0
        BY <3>3, <4>1, SumsType
      <4> QED
        BY <3>1, <3>3, <4>2, RebuiltHolds DEF Row
    <3> QED
      BY <3>2, <3>3
  <2> QED
    BY <2>2, <2>3, <2>4
    DEF Next, Store, Observe, Suppress, Stats, Mark, Notify, Clear, Backfill, Rebuild, RollBack,
        Failure, UpsertFails, MarkFails, CheckFails, Crash, vars
<1> QED
  BY <1>1, Invariance, PTL DEF Spec, NeverEmpty

-----------------------------------------------------------------------------
(* A day over the threshold.                                               *)

LostIsExcused == \A r \in lost : BucketOf[r] \in excused

\* A mark was written by someone who tells of it.
MarkedIsTold ==
  \A b \in marked \ excused :
    told[b] > 0 \/ \E r \in Reports : BucketOf[r] = b /\ pc[r] = "notify"

Over(b) == Row(b) /\ Fails(b) >= Threshold

\* Someone is still to look at such a day, or it was told.
AnomalyIsSeen ==
  \A b \in Buckets \ excused :
    Over(b) => told[b] > 0 \/ \E r \in AtWork : BucketOf[r] = b

AnomalyInv == LostIsExcused /\ MarkedIsTold /\ AnomalyIsSeen

\* A rebuild that brings a day over the threshold saw a report that is still
\* to be looked at.
LEMMA RebuildRaises ==
  ASSUME RollupInv, LostIsExcused, backfill = "rebuilt", NEW b \in Buckets \ excused,
         Rebuilt(b).reports > 0, Rebuilt(b).total - Rebuilt(b).aligned >= Threshold, ~Over(b)
  PROVE  \E r \in AtWork : BucketOf[r] = b
<1> SUFFICES ASSUME \A r \in AtWork : BucketOf[r] # b PROVE FALSE
  OBVIOUS
<1> DEFINE snap == In(b, snapshot)
<1>1. snap # {} /\ Rebuilt(b) = Sums(snap)
  BY RebuiltHolds DEF Over, Row, Fails
<1>2. snap \in SUBSET Once(b)
  <2> SUFFICES ASSUME NEW r \in snap PROVE r \in Once(b)
    OBVIOUS
  <2>1. r \in Reports /\ r \in stored /\ BucketOf[r] = b
    BY DEF In, RollupInv, TypeOK
  <2>2. r \notin lost /\ ~Pending(r)
    BY <2>1 DEF LostIsExcused, AtWork, Pending
  <2> QED
    BY <2>1, <2>2 DEF Once, In
<1>3. Once(b) \in SUBSET Reports /\ Again(b) \in SUBSET Reports
  BY Subsets DEF RollupInv
<1> DEFINE x == Sums(Once(b))
           y == Sums(Again(b))
           z == Sums(snap)
<1>4. /\ x \in Triples /\ y \in Triples /\ z \in Triples
      /\ y.aligned <= y.total
  BY <1>2, <1>3, SumsType
<1>5. agg[b] = Plus(x, y)
  BY AddUp DEF RollupInv
<1>6. z.total - z.aligned <= x.total - x.aligned
  BY <1>2, <1>3, SumsGrow
<1> HIDE DEF x, y, z
<1>7. Fails(b) = (x.total + y.total) - (x.aligned + y.aligned)
  BY <1>5 DEF Fails, Plus
<1>8. Threshold \in Nat
  BY Constants
<1>9. agg[b].reports = x.reports + y.reports /\ x.reports > 0
  <2>1. Once(b) # {}
    BY <1>1, <1>2
  <2> QED
    BY <1>3, <1>5, <2>1, SumsType DEF x, Plus
<1> QED
  BY <1>1, <1>4, <1>6, <1>7, <1>8, <1>9 DEF z, Triples, Over, Row

\* A step of one report's check, which changes no bucket.
LEMMA CheckSeen ==
  ASSUME RollupInv, AnomalyInv, NEW r \in Reports,
         \/ Suppress(r) \/ Stats(r) \/ Mark(r) \/ MarkFails(r) \/ Notify(r) \/ CheckFails(r)
  PROVE  AnomalyInv'
<1> USE DEF RollupInv, AnomalyInv
<1> DEFINE c == BucketOf[r]
<1>1. UNCHANGED <<stored, agg, lost>> /\ c \in Buckets /\ told \in [Buckets -> Nat]
  BY Constants
  DEF Suppress, Stats, Mark, MarkFails, Notify, CheckFails, rebuild, history, bounds, TypeOK
<1>2. PICK from \in {"suppressed", "stats", "mark", "notify"},
           to \in {"done", "stats", "mark", "notify"} :
        pc[r] = from /\ pc'[r] = to /\ \A q \in Reports : q # r => pc'[q] = pc[q]
  <2>1. PICK from \in {"suppressed", "stats", "mark", "notify"},
             to \in {"done", "stats", "mark", "notify"} : Step(r, from, to)
    BY DEF Suppress, Stats, Mark, MarkFails, Notify, CheckFails
  <2> QED
    BY <2>1, StepKeeps
<1>3. LostIsExcused'
  BY <1>1 DEF LostIsExcused, Suppress, Stats, Mark, MarkFails, Notify, CheckFails, history
\* Only the bucket of the report has to be looked at.
<1>4. ASSUME NEW b \in Buckets, b # c, b \notin excused'
      PROVE  /\ b \in marked' =>
                  told'[b] > 0 \/ \E q \in Reports : BucketOf[q] = b /\ pc'[q] = "notify"
             /\ Over(b)' => told'[b] > 0 \/ \E q \in AtWork' : BucketOf[q] = b
  <2>1. Over(b)' = Over(b) /\ b \notin excused
    BY <1>1, <1>4 DEF Over, Row, Fails, Suppress, Stats, Mark, MarkFails, Notify, CheckFails,
                      history
  <2>2. told'[b] = told[b] /\ (b \in marked' <=> b \in marked)
    BY <1>1, <1>4 DEF Suppress, Stats, Mark, MarkFails, Notify, CheckFails, history
  <2>3. b \in marked => told[b] > 0 \/ \E q \in Reports : BucketOf[q] = b /\ pc'[q] = "notify"
    BY <1>2, <1>4, <2>1 DEF MarkedIsTold
  <2>4. Over(b) => told[b] > 0 \/ \E q \in AtWork' : BucketOf[q] = b
    BY <1>2, <1>4, <2>1 DEF AnomalyIsSeen, AtWork
  <2> QED
    BY <2>1, <2>2, <2>3, <2>4
<1>5. ASSUME c \notin excused'
      PROVE  /\ c \in marked' =>
                  told'[c] > 0 \/ \E q \in Reports : BucketOf[q] = c /\ pc'[q] = "notify"
             /\ Over(c)' => told'[c] > 0 \/ \E q \in AtWork' : BucketOf[q] = c
  <2>1. CASE pc'[r] = "notify"
    <3>1. r \in AtWork'
      BY <2>1 DEF AtWork
    <3> QED
      BY <2>1, <3>1
  <2>2. CASE Suppress(r)
    <3>1. UNCHANGED <<marked, told, excused>> /\ Over(c)' = Over(c)
      BY <1>1, <2>2 DEF Suppress, history, Over, Row, Fails
    <3>2. c \in marked => told[c] > 0 \/ \E q \in Reports : BucketOf[q] = c /\ pc'[q] = "notify"
      BY <1>2, <1>5, <2>2, <3>1 DEF MarkedIsTold, Suppress, Step
    <3>4. c \notin marked => r \in AtWork'
      BY <1>2, <2>2, StepKeeps DEF Suppress, AtWork
    <3>5. ASSUME NEW q \in Reports, BucketOf[q] = c, pc'[q] = "notify"
          PROVE  \E p \in AtWork' : BucketOf[p] = c
      BY <3>5 DEF AtWork
    <3> QED
      BY <3>1, <3>2, <3>4, <3>5
  <2>3. CASE Stats(r)
    <3>1. UNCHANGED <<marked, told, excused>> /\ Over(c)' = Over(c)
      BY <1>1, <2>3 DEF Stats, history, Over, Row, Fails
    <3>2. c \in marked => told[c] > 0 \/ \E q \in Reports : BucketOf[q] = c /\ pc'[q] = "notify"
      BY <1>2, <1>5, <2>3, <3>1 DEF MarkedIsTold, Stats, Step
    <3>3. Over(c) => r \in AtWork'
      <4>1. CASE Fails(c) < Threshold
        <5>1. Fails(c) \in Int /\ Threshold \in Int
          BY <1>1, Constants DEF Fails, TypeOK
        <5> QED
          BY <4>1, <5>1 DEF Over
      <4>2. CASE Step(r, "stats", "mark")
        BY <4>2, StepKeeps DEF AtWork
      <4> QED
        BY <2>3, <4>1, <4>2 DEF Stats
    <3> QED
      BY <3>1, <3>2, <3>3
  <2>4. CASE Mark(r) \/ MarkFails(r)
    <3>1. pc'[r] = "notify"
      BY <2>4, StepKeeps DEF Mark, MarkFails
    <3> QED
      BY <2>1, <3>1
  <2>5. CASE Notify(r)
    <3>1. told'[c] = told[c] + 1 /\ told[c] \in Nat
      BY <1>1, <2>5 DEF Notify
    <3> QED
      BY <3>1
  <2>6. CASE CheckFails(r)
    BY <1>5, <2>6 DEF CheckFails
  <2> QED
    BY <2>2, <2>3, <2>4, <2>5, <2>6
<1>6. marked' \subseteq Buckets
  BY CheckKeeps DEF TypeOK
<1>7. MarkedIsTold' /\ AnomalyIsSeen'
  BY <1>4, <1>5, <1>6 DEF MarkedIsTold, AnomalyIsSeen
<1> QED
  BY <1>3, <1>7

\* A report that is stored or added is still to be checked.
LEMMA AddSeen ==
  ASSUME RollupInv, AnomalyInv, NEW r \in Reports, Store(r) \/ Upsert(r)
  PROVE  AnomalyInv'
<1> USE DEF RollupInv, AnomalyInv
<1>1. UNCHANGED <<marked, told, lost, excused>> /\ BucketOf[r] \in Buckets
  BY Constants DEF Store, Upsert, history
<1>2. /\ pc[r] \in {"new", "rollup"} /\ pc'[r] \in {"rollup", "suppressed"}
      /\ \A q \in Reports : q # r => pc'[q] = pc[q]
  BY StepKeeps DEF Store, Upsert
<1>3. \A b \in Buckets : b # BucketOf[r] => agg'[b] = agg[b]
  BY DEF Store, Upsert, TypeOK
<1>4. LostIsExcused'
  BY <1>1 DEF LostIsExcused
<1>5. \A q \in Reports : pc'[q] = "notify" <=> pc[q] = "notify"
  BY <1>2
<1>6. MarkedIsTold'
  BY <1>1, <1>5 DEF MarkedIsTold
<1>7. r \in AtWork' /\ AtWork \subseteq AtWork'
  BY <1>2 DEF AtWork
<1>8. ASSUME NEW b \in Buckets \ excused, Over(b)'
      PROVE  told[b] > 0 \/ \E q \in AtWork' : BucketOf[q] = b
  <2>1. CASE b = BucketOf[r]
    BY <1>7, <2>1
  <2>2. CASE b # BucketOf[r]
    <3>1. Over(b)' = Over(b)
      BY <1>3, <2>2 DEF Over, Row, Fails
    <3> QED
      BY <1>7, <1>8, <3>1 DEF AnomalyIsSeen
  <2> QED
    BY <2>1, <2>2
<1>9. AnomalyIsSeen'
  BY <1>1, <1>8 DEF AnomalyIsSeen
<1> QED
  BY <1>4, <1>6, <1>9

\* Whoever fails or is cut short excuses its bucket.
LEMMA FailureSeen ==
  ASSUME RollupInv, AnomalyInv, NEW S \in SUBSET AtWork,
         UNCHANGED <<agg, marked, told>>, lost' \subseteq lost \cup S,
         excused' = excused \cup {BucketOf[q] : q \in S},
         \A q \in Reports \ S : pc'[q] = pc[q]
  PROVE  AnomalyInv'
<1> USE DEF RollupInv, AnomalyInv
<1>1. LostIsExcused'
  BY DEF LostIsExcused
<1>2. ASSUME NEW b \in Buckets, b \notin excused'
      PROVE  /\ b \in marked =>
                  told[b] > 0 \/ \E q \in Reports : BucketOf[q] = b /\ pc'[q] = "notify"
             /\ Over(b) => told[b] > 0 \/ \E q \in AtWork' : BucketOf[q] = b
  <2>1. b \notin excused /\ \A q \in Reports : BucketOf[q] = b => q \notin S /\ pc'[q] = pc[q]
    BY <1>2
  <2>2. \A q \in AtWork : BucketOf[q] = b => q \in AtWork'
    BY <2>1 DEF AtWork
  <2>3. b \in marked => told[b] > 0 \/ \E q \in Reports : BucketOf[q] = b /\ pc'[q] = "notify"
    BY <2>1 DEF MarkedIsTold
  <2>4. Over(b) => told[b] > 0 \/ \E q \in AtWork' : BucketOf[q] = b
    BY <2>1, <2>2 DEF AnomalyIsSeen
  <2> QED
    BY <2>3, <2>4
<1>3. \A b : Over(b)' = Over(b)
  BY DEF Over, Row, Fails
<1>4. MarkedIsTold' /\ AnomalyIsSeen'
  BY <1>2, <1>3 DEF MarkedIsTold, AnomalyIsSeen, TypeOK
<1> QED
  BY <1>1, <1>4

LEMMA BackfillSeen ==
  ASSUME RollupInv, AnomalyInv, Clear \/ Rebuild \/ RollBack \/ CommitRebuild
  PROVE  AnomalyInv'
<1> USE DEF RollupInv, AnomalyInv
<1>1. UNCHANGED <<pc, marked, told, excused>> /\ lost' \subseteq lost
  BY DEF Clear, Rebuild, RollBack, CommitRebuild, history
<1>2. LostIsExcused' /\ MarkedIsTold' /\ AtWork' = AtWork
  BY <1>1 DEF LostIsExcused, MarkedIsTold, AtWork
<1>3. ASSUME NEW b \in Buckets \ excused, Over(b)'
      PROVE  told[b] > 0 \/ \E q \in AtWork : BucketOf[q] = b
  <2>1. CASE UNCHANGED agg
    BY <1>3, <2>1 DEF AnomalyIsSeen, Over, Row, Fails
  <2>2. CASE CommitRebuild
    <3>1. backfill = "rebuilt" /\ agg'[b] = Rebuilt(b)
      BY <2>2 DEF CommitRebuild
    <3>2. Rebuilt(b).reports > 0 /\ Rebuilt(b).total - Rebuilt(b).aligned >= Threshold
      BY <1>3, <3>1 DEF Over, Row, Fails
    <3>3. CASE Over(b)
      BY <3>3 DEF AnomalyIsSeen
    <3>4. CASE ~Over(b)
      BY <3>1, <3>2, <3>4, RebuildRaises
    <3> QED
      BY <3>3, <3>4
  <2> QED
    BY <2>1, <2>2 DEF Clear, Rebuild, RollBack
<1>4. AnomalyIsSeen'
  BY <1>1, <1>2, <1>3 DEF AnomalyIsSeen
<1> QED
  BY <1>2, <1>4

LEMMA AnomalyStays == RollupInv /\ AnomalyInv /\ [Next]_vars => AnomalyInv'
<1> SUFFICES ASSUME RollupInv, AnomalyInv, [Next]_vars PROVE AnomalyInv'
  OBVIOUS
<1>1. ASSUME NEW r \in Reports, Store(r) \/ Observe(r) \/ MarkFails(r) \/ CheckFails(r)
      PROVE  AnomalyInv'
  BY <1>1, AddSeen, CheckSeen DEF Observe
<1>2. ASSUME NEW r \in Reports, UpsertFails(r) PROVE AnomalyInv'
  <2>1. /\ UNCHANGED <<agg, marked, told>> /\ lost' \subseteq lost \cup {r}
        /\ excused' = excused \cup {BucketOf[q] : q \in {r}}
    BY <1>2 DEF UpsertFails, rebuild
  <2>2. pc[r] = "rollup" /\ \A q \in Reports \ {r} : pc'[q] = pc[q]
    BY <1>2, StepKeeps DEF UpsertFails, RollupInv
  <2>3. {r} \in SUBSET AtWork
    BY <2>2 DEF AtWork
  <2> QED
    BY <2>1, <2>2, <2>3, FailureSeen
<1>3. CASE Crash
  <2>1. /\ UNCHANGED <<agg, marked, told>> /\ lost' \subseteq lost \cup AtWork
        /\ excused' = excused \cup {BucketOf[q] : q \in AtWork}
    BY <1>3 DEF Crash, rebuild
  <2>2. \A q \in Reports \ AtWork : pc'[q] = pc[q]
    BY <1>3 DEF Crash, AtWork
  <2> QED
    BY <2>1, <2>2, FailureSeen
<1>4. CASE Clear \/ Backfill
  BY <1>4, BackfillSeen DEF Backfill
<1>5. CASE UNCHANGED vars
  <2>1. UNCHANGED <<agg, marked, told, lost, excused, pc>>
    BY <1>5 DEF vars, rebuild, history
  <2> QED
    BY <2>1 DEF AnomalyInv, LostIsExcused, MarkedIsTold, AnomalyIsSeen, AtWork, Over, Row, Fails
<1> QED
  BY <1>1, <1>2, <1>3, <1>4, <1>5 DEF Next, Failure

LEMMA InitAnomaly == Init => AnomalyInv
<1> SUFFICES ASSUME Init PROVE AnomalyInv
  OBVIOUS
<1>1. lost = {} /\ marked = {}
  BY DEF Init
<1>2. ASSUME NEW b \in Buckets PROVE ~Over(b)
  <2>1. Sums({}) = [reports |-> 0, total |-> 0, aligned |-> 0]
    BY SumsType
  <2> QED
    BY <2>1 DEF Init, Over, Row
<1> QED
  BY <1>1, <1>2 DEF AnomalyInv, LostIsExcused, MarkedIsTold, AnomalyIsSeen

\* However the observers of different reports, their failures and a rebuild
\* interleave: a day over the threshold is told of by the time the work is
\* done, unless an observer of that very day failed or was cut short.
THEOREM AnomaliesAreTold == Spec => []AnomalyTold
<1>1. Init => RollupInv /\ AnomalyInv
  BY InitRollup, InitAnomaly
<1>2. RollupInv /\ AnomalyInv /\ [Next]_vars => (RollupInv /\ AnomalyInv)'
  BY RollupStays, AnomalyStays
<1>3. RollupInv /\ AnomalyInv => AnomalyTold
  BY DEF AnomalyInv, AnomalyIsSeen, AnomalyTold, Over
<1> QED
  BY <1>1, <1>2, <1>3, PTL DEF Spec

=============================================================================
