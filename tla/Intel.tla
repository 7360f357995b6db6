------------------------------- MODULE Intel --------------------------------
(***************************************************************************)
(* What the program knows about the senders of a domain: the intel         *)
(* observer of parser/internal/enrich counts every record of a stored      *)
(* report in domain_source and tells sender.new, its worker pool fills     *)
(* ip_meta from a bounded queue, a sweep looks for rows that were never    *)
(* filled, and -backfill-sources counts the reports of the past from a     *)
(* process of its own.                                                     *)
(*                                                                         *)
(* One domain is looked at, so a pair (domain, ip) is an address.  The     *)
(* serial of a report is its place in stored.                              *)
(***************************************************************************)
EXTENDS Faults, FiniteSetsExt

CONSTANTS
  Reports,       \* reports that get stored
  IPs,           \* addresses that send mail
  RecordsOf,     \* the records of a report: [ip, msgs, aligned], ip may be None
  MinMsgs,       \* NewSenderMinMsgs
  QueueSize,     \* queueSize
  Enrichers,     \* the workers of the Enricher
  SweepBatch,    \* sweepBatch
  BackfillStep,  \* backfillStep
  MaxFills       \* bound: runs of -backfill-sources

ASSUME IntelAssumption ==
  /\ IsFiniteSet(Reports)
  /\ RecordsOf \in [Reports -> Seq([ip : IPs \cup {None}, msgs : Nat, aligned : BOOLEAN])]
  /\ None \notin IPs
  /\ {QueueSize, SweepBatch, BackfillStep} \subseteq Nat \ {0}
  /\ {MinMsgs, MaxFills} \subseteq Nat

VARIABLES
  stored,    \* report: the stored reports in the order of their serials
  rest,      \* OnIngest: records of each report still to be looked at
  found,     \* OnIngest: what the upsert of the first of them answered
  msgCount,  \* domain_source: messages of each pair, 0 when there is no row
  meta,      \* ip_meta: no row, never filled, filled, or filled too long ago
  queue,     \* the channel of the Enricher
  busy,      \* the address each worker looks up
  swept,     \* sweep: addresses still to be enqueued
  fillAt, from, maxSerial, fills,   \* -backfill-sources: where it is
  told,      \* history: sender.new events of each pair
  origin,    \* domain_source: who created the row of a pair, "none" if no one
  first,     \* history: the record the observer created it for
  live,      \* history: records the observer counted
  covered    \* history: how often a fill counted each report

observer == <<rest, found>>
source == <<msgCount, origin, first>>
enricher == <<queue, busy, swept>>
fill == <<fillAt, from, maxSerial, fills, covered>>
intelVars == <<stored, observer, source, meta, enricher, fill, told, live>>

IntelInit ==
  /\ stored = <<>>
  /\ rest = [r \in Reports |-> <<>>] /\ found = [r \in Reports |-> "none"]
  /\ msgCount = [ip \in IPs |-> 0]
  /\ origin = [ip \in IPs |-> "none"] /\ first = [ip \in IPs |-> None]
  /\ meta = [ip \in IPs |-> "none"]
  /\ queue = <<>> /\ busy = [w \in Enrichers |-> None] /\ swept = {}
  /\ fillAt = "off" /\ from = 0 /\ maxSerial = 0 /\ fills = 0
  /\ covered = [r \in Reports |-> 0]
  /\ told = [ip \in IPs |-> 0] /\ live = {}

\* Mutant of Enqueued: nothing is dropped.
EnqueuedAlways(ip) == Append(queue, ip)

\* Enqueue: dropped when the channel is full.
Enqueued(ip) == IF Len(queue) < QueueSize THEN Append(queue, ip) ELSE queue
-----------------------------------------------------------------------------
(* The observer, in the goroutine that saved the report.                   *)

Serials == DOMAIN stored
Record(r) == Head(rest[r])

Place(r) == <<r, Len(RecordsOf[r]) - Len(rest[r]) + 1>>

Store(r) ==
  /\ \A s \in Serials : stored[s] # r
  /\ stored' = Append(stored, r)
  /\ rest' = [rest EXCEPT ![r] = RecordsOf[r]]
  /\ UNCHANGED <<found, source, meta, enricher, fill, told, live>> /\ Well

NextRecord(r) == rest' = [rest EXCEPT ![r] = Tail(@)]

\* recordIP: the record has no address at all.
SkipRecord(r) ==
  /\ rest[r] # <<>> /\ found[r] = "none" /\ Record(r).ip = None
  /\ NextRecord(r)
  /\ UNCHANGED <<stored, found, source, meta, enricher, fill, told, live>> /\ Well

Upserting(r) == rest[r] # <<>> /\ found[r] = "none" /\ Record(r).ip # None

UpsertSource(r) ==
  LET ip == Record(r).ip
  IN  /\ Upserting(r)
      /\ found' = [found EXCEPT ![r] = IF origin[ip] = "none" THEN "new" ELSE "known"]
      /\ msgCount' = [msgCount EXCEPT ![ip] = @ + Record(r).msgs]
      /\ origin' = [origin EXCEPT ![ip] = IF @ = "none" THEN "live" ELSE @]
      /\ first' = IF origin[ip] = "none" THEN [first EXCEPT ![ip] = Record(r)] ELSE first
      /\ live' = live \cup {Place(r)}
      /\ UNCHANGED <<stored, rest, meta, enricher, fill, told>> /\ Well

UpsertSourceFails(r) ==
  /\ Upserting(r)
  /\ Fault
  /\ NextRecord(r)
  /\ UNCHANGED <<stored, found, source, meta, enricher, fill, told, live>>

Loud(rec) == rec.msgs >= MinMsgs \/ ~rec.aligned

\* Mutant of Announces: a pair is announced whenever it sends a lot.
AnnouncesAlways(r) == Loud(Record(r))

Announces(r) == found[r] = "new" /\ Loud(Record(r))

\* The address goes to the workers, a new sender that matters to the webhook.
TellSender(r) ==
  LET ip == Record(r).ip
  IN  /\ found[r] # "none"
      /\ queue' = Enqueued(ip)
      /\ told' = IF Announces(r) THEN [told EXCEPT ![ip] = @ + 1] ELSE told
      /\ found' = [found EXCEPT ![r] = "none"]
      /\ NextRecord(r)
      /\ UNCHANGED <<stored, source, meta, busy, swept, fill, live>> /\ Well

-----------------------------------------------------------------------------
(* The worker pool and the sweep.                                          *)

\* Mutant of NeedsRefresh: any row will do.
NeedsRefreshUnknown(ip) == meta[ip] \in {"none", "stale"}

NeedsRefresh(ip) == meta[ip] # "fresh"

TakeTask(w) ==
  /\ busy[w] = None /\ queue # <<>>
  /\ queue' = Tail(queue)
  /\ busy' = IF NeedsRefresh(Head(queue)) THEN [busy EXCEPT ![w] = Head(queue)] ELSE busy
  /\ UNCHANGED <<stored, observer, source, meta, swept, fill, told, live>> /\ Well

TakeTaskFails(w) ==
  /\ busy[w] = None /\ queue # <<>>
  /\ Fault
  /\ queue' = Tail(queue)
  /\ UNCHANGED <<stored, observer, source, meta, busy, swept, fill, told, live>>

\* Lookups are best effort: what they answer, the row counts as filled.
UpsertMeta(w) ==
  /\ busy[w] # None
  /\ meta' = [meta EXCEPT ![busy[w]] = "fresh"]
  /\ busy' = [busy EXCEPT ![w] = None]
  /\ UNCHANGED <<stored, observer, source, queue, swept, fill, told, live>> /\ Well

UpsertMetaFails(w) ==
  /\ busy[w] # None
  /\ Fault
  /\ busy' = [busy EXCEPT ![w] = None]
  /\ UNCHANGED <<stored, observer, source, meta, queue, swept, fill, told, live>>

\* Thirty days have passed.
Expire(ip) ==
  /\ meta[ip] = "fresh"
  /\ meta' = [meta EXCEPT ![ip] = "stale"]
  /\ UNCHANGED <<stored, observer, source, enricher, fill, told, live>> /\ Well

Unenriched == {ip \in IPs : meta[ip] = "never"}

\* The oldest rows first: those of one seed are of one age, so any of them.
Sweep ==
  /\ swept = {} /\ Unenriched # {}
  /\ LET n == IF Cardinality(Unenriched) < SweepBatch THEN Cardinality(Unenriched) ELSE SweepBatch
     IN  swept' \in kSubset(n, Unenriched)
  /\ UNCHANGED <<stored, observer, source, meta, queue, busy, fill, told, live>> /\ Well

SweepFails ==
  /\ swept = {} /\ Unenriched # {}
  /\ Fault
  /\ UNCHANGED intelVars

SweepEnqueue(ip) ==
  /\ ip \in swept
  /\ swept' = swept \ {ip}
  /\ queue' = Enqueued(ip)
  /\ UNCHANGED <<stored, observer, source, meta, busy, fill, told, live>> /\ Well
-----------------------------------------------------------------------------
(* -backfill-sources, a process of its own.                                *)

Of(r, ip) == {i \in DOMAIN RecordsOf[r] : RecordsOf[r][i].ip = ip}
Messages(r, ip) == MapThenSumSet(LAMBDA i : RecordsOf[r][i].msgs, Of(r, ip))

StartFill ==
  /\ fillAt = "off" /\ fills < MaxFills
  /\ fillAt' = "batch" /\ fills' = fills + 1 /\ from' = 0 /\ maxSerial' = Len(stored)
  /\ UNCHANGED <<stored, observer, source, meta, enricher, covered, told, live>> /\ Well

\* Mutant of InBatch: both ends belong to the batch.
InBatchTwice(s) == s >= from /\ s <= from + BackfillStep

InBatch(s) == s > from /\ s <= from + BackfillStep

FillBatch ==
  LET batch == {stored[s] : s \in {t \in Serials : InBatch(t)}}
      seen == {ip \in IPs : \E r \in batch : Of(r, ip) # {}}
      new == {ip \in seen : origin[ip] = "none"}
  IN  /\ fillAt = "batch" /\ from < maxSerial
      /\ msgCount' = [ip \in IPs |->
           msgCount[ip] + MapThenSumSet(LAMBDA r : Messages(r, ip), batch)]
      /\ origin' = [ip \in IPs |-> IF ip \in new THEN "filled" ELSE origin[ip]]
      /\ covered' = [r \in Reports |-> IF r \in batch THEN covered[r] + 1 ELSE covered[r]]
      /\ from' = from + BackfillStep
      /\ UNCHANGED <<stored, observer, first, meta, enricher, fillAt, maxSerial, fills, told,
                     live>>
      /\ Well

\* The skeleton rows the sweep looks for.
SeedMeta ==
  /\ fillAt = "batch" /\ from >= maxSerial
  /\ fillAt' = "done"
  /\ meta' = [ip \in IPs |->
       IF meta[ip] = "none" /\ origin[ip] # "none" THEN "never" ELSE meta[ip]]
  /\ UNCHANGED <<stored, observer, source, enricher, from, maxSerial, fills, covered, told,
                 live>>
  /\ Well

\* A statement fails and the process exits: it has to be run again.
FillFails ==
  /\ fillAt = "batch"
  /\ Fault
  /\ fillAt' = "off"
  /\ UNCHANGED <<stored, observer, source, meta, enricher, from, maxSerial, fills, covered,
                 told, live>>

IntelCrash ==
  /\ Crash
  /\ rest' = [r \in Reports |-> <<>>] /\ found' = [r \in Reports |-> "none"]
  /\ queue' = <<>> /\ busy' = [w \in Enrichers |-> None] /\ swept' = {}
  /\ UNCHANGED <<stored, source, meta, fill, told, live>>
-----------------------------------------------------------------------------
Observe(r) == SkipRecord(r) \/ UpsertSource(r) \/ TellSender(r)
Enrich(w) == TakeTask(w) \/ UpsertMeta(w)
Fill == StartFill \/ FillBatch \/ SeedMeta \/ FillFails
SweepStep == Sweep \/ \E ip \in IPs : SweepEnqueue(ip)

IntelNext ==
  \/ \E r \in Reports : Store(r) \/ Observe(r) \/ UpsertSourceFails(r)
  \/ \E w \in Enrichers : Enrich(w) \/ TakeTaskFails(w) \/ UpsertMetaFails(w)
  \/ \E ip \in IPs : Expire(ip)
  \/ SweepStep \/ SweepFails \/ Fill \/ IntelCrash

IntelTypeOK ==
  /\ stored \in Seq(Reports)
  /\ rest \in [Reports -> Seq([ip : IPs \cup {None}, msgs : Nat, aligned : BOOLEAN])]
  /\ found \in [Reports -> {"none", "new", "known"}]
  /\ msgCount \in [IPs -> Nat]
  /\ origin \in [IPs -> {"none", "live", "filled"}]
  /\ meta \in [IPs -> {"none", "never", "fresh", "stale"}]
  /\ queue \in Seq(IPs) /\ Len(queue) <= QueueSize
  /\ busy \in [Enrichers -> IPs \cup {None}] /\ swept \subseteq IPs
  /\ fillAt \in {"off", "batch", "done"} /\ from \in Nat /\ maxSerial \in Nat
  /\ fills \in 0..MaxFills /\ told \in [IPs -> Nat]

\* Backfill and the observer run beside each other (backfill.go:14 "a live
\* DB"): every message of a pair is counted once by the observer that handled
\* its record and once by each fill that covered its report, and a fill that
\* ran through covered every report stored before it exactly once.
SourcesAddUp ==
  /\ \A ip \in IPs :
       msgCount[ip] =
         MapThenSumSet(LAMBDA x : RecordsOf[x[1]][x[2]].msgs,
                       {x \in live : RecordsOf[x[1]][x[2]].ip = ip})
         + MapThenSumSet(LAMBDA r : covered[r] * Messages(r, ip), Reports)
  /\ \A r \in Reports : covered[r] <= fills
  /\ fillAt = "done" => \A s \in 1..maxSerial : covered[stored[s]] >= 1

\* sender.new is told at most once per pair, whatever handlers, fills and
\* restarts do, and exactly when the record that created the pair was worth
\* it: a pair of the past is not told (store_intel.go:197), and a loud one is
\* not missed unless the process died over it.
SenderTold ==
  \A ip \in IPs :
    /\ told[ip] <= 1
    /\ told[ip] = 1 => origin[ip] = "live" /\ Loud(first[ip])
    /\ origin[ip] = "live" /\ Loud(first[ip])
         => \/ told[ip] = 1 \/ crashes > 0
            \/ \E r \in Reports : found[r] = "new" /\ Record(r).ip = ip

\* A seeded row is filled in the end, although the queue drops what does not
\* fit: the sweep comes back to it (enrich.go:31).
SeededAreEnriched == \A ip \in IPs : meta[ip] = "never" ~> meta[ip] # "never"

\* "drops when the queue is full - the sweep catches anything missed"
\* (enrich.go:63): the address of every record the observer counted is filled.
EveryIPEnriched ==
  \A ip \in IPs : origin[ip] = "live" ~> meta[ip] \in {"fresh", "stale"}
=============================================================================
