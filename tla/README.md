# Verification of dmarcparser

TLA+ models of the DMARC report ingester in `parser/`, the TLC runs that check
them and the theorems TLAPS proves about them. Paths are relative to the
repository; `main.go` is `parser/main.go`, a package name stands for its
directory under `parser/internal/`.

## Inventory

| Component | State it keeps | Operations | Talks to |
|---|---|---|---|
| poller (`poller`) | IMAP folders and `\Seen` flags (on the server), the moves of the cycle, the one-slot `kick` channel, last error and poll metrics | `Run`, `cycle`, `processMail`, `notifyFailed`, `TriggerNow` | IMAP, mailx, parsers, store, pipeline, webhook |
| store (`store`) | PostgreSQL tables; `lastInsert` in memory | `SaveReport`, `SaveTLSRPT`, `SaveForensic`, `SaveDKIMAuth`, `Upsert…`, `AlertLastFired`, `MarkAlertFired`, `InsertWebhookDeadletter`, read queries | database pool |
| pipeline (`pipeline`) | list of observers, fixed at start | `Register`, `Emit` | observers: webhook, rollup, enrich, selectors, in this order |
| API (`api`) | rate limiters per key name, the request's audit detail | `auth`, `RequireScope`, `ingest`, `triggerPoll`, `requeueFailed`, `replayWebhooks`, `export`, subscriptions, queries, `healthz` | store, pipeline, poller, IMAP, audit, webhook, digest |
| webhook (`webhook`) | in-flight send goroutines, failure metrics, `webhook_deadletter` | `NotifyEvent`, `send`, `DeliverOnce` | HTTP endpoints, store |
| audit (`audit`) | `parser_audit`, `replayed_at` of dead letters | `Middleware`, `Record`, `UnreplayedDeadletters`, `MarkDeadletterReplayed` | database |
| watchdog (`watchdog`) | rule states, spike samples, webhook failure baseline, `alert_state` | `check`, `fire` | metrics, store, alert URL, webhook |
| enrichment (`enrich`) | bounded queue, `ip_meta`, `domain_source`, `alert_state` | `Enqueue`, `worker`, `sweep`, `OnIngest`, `checkAnomaly`, `BackfillSources` | DNS, store, webhook |
| rollup (`rollup`), selectors (`selectors`) | day buckets, `dkim_auth` | `OnIngest`, `Backfill` | database |
| digest (`digest`) | `digest_subscription`, `digest_log` | `Run`, `RunNow`, `run`, subscriptions | SMTP, database |
| retention (`retention`) | none of its own: `raw_xml`, the folders and `\Deleted` flags | `runOnce`: `purgeRawXML`, `expungeMail`, `audit` | IMAP, database |
| mailx, report, tlsrpt, forensic | none | `ExtractPayloads`, `ExpandPayloadTyped`, parsing | – |
| statistics (`store_stats.go`) | none | `DomainReadiness`, `Recommend`, `ComputeHealth`, queries | database |
| config, migrate, metrics, export, `backup/backup.sh` | environment, schema, counters, –, dump files | start-up, rendering, rotation | – |

Hard behaviours: the poller and any number of upload handlers save concurrently
and only a unique index decides who was first; a mail is retried as a whole after
an error in the middle; moves are done per folder after the whole batch and can
fail half way; requeue-failed works on a second IMAP connection while a cycle
runs; a commit can succeed without its answer arriving; announcing follows the
commit with nothing persisted in between; webhook goroutines die with the
process; replay requests overlap. `PROJECT.json` lists each hazard with its line
and the properties aimed at it.

What makes the components correct:

* ingest: a report is stored once and each observer handles it at most once and
  only after it is stored; a mail ends in the folder its contents ask for and
  none gets lost; every mail is filed and every upload answered in the end;
* webhook: an event reaches its endpoint or the dead-letter table; replay
  delivers what is there, marks what it delivered and reaches every row;
* watchdog and anomaly check: an alert once per cooldown, none swallowed;
* rollup: the day bucket equals the sum over the stored reports;
* access: the audit log tells who did what with which outcome, and no name gets more
  requests in than its limiter allows;
* intel: every message counted once, a new sender told once, every address filled;
* selectors: a report that had its rows never loses them;
* digest: each subscriber once a week, and none left out; retention: only what was old
  when the purge began is purged, and what was purged is audited;
* extraction: every readable document of a mail is found, whatever else is in it;
* readiness: a domain is told to enforce only if that is safe, and better mail does
  not lower its score;
* pool: no deadlock among connections.

## Modules

| Module | Models |
|---|---|
| `ReportLedger` | abstract specification: reports stored once, told to each observer at most once (webhook first), mail filed only when its reports are stored |
| `Ingest` | poller, upload handlers, the three Save functions, `Emit`, requeue-failed, crash |
| `IngestMC` | instances *Race* and *Mixed* for TLC |
| `IngestProofs`, `MailProofs` | theorems about `Ingest`: its invariant; mails, uploads and the refinement of the ledger |
| `Webhook` | send goroutines, dead letters, replay requests, crash |
| `WebhookMC` | its instance |
| `WebhookProofs` | theorems about `Webhook` |
| `ConnPool`, `ConnPoolMC` | the pooled connections a save takes |
| `Watchdog`, `WatchdogMC` | rules, cooldown, alerts, restart |
| `WatchdogProofs` | theorems about `Watchdog` |
| `Rollup`, `RollupMC` | day buckets, anomaly check, `-backfill-rollups` |
| `SumTheorems` | lemmas about sums over finite sets |
| `RollupProofs` | theorems about `Rollup` |
| `Faults` | failing statements, commands and sends, and crashes, shared by the modules below |
| `Access` | `PARSER_API_KEYS`, auth, rate limit, scopes, audit, ingest and export as responses |
| `Intel` | intel observer, worker pool, sweep, `-backfill-sources` |
| `Selectors` | `SaveDKIMAuth` of observers and of `-backfill-selectors` |
| `Retention` | purge of raw XML and mail beside the poller |
| `Digest` | the weekly digest, its scheduler and forced runs |
| `Extract` | the walk through the parts of a mail |
| `Readiness` | recommendation and health score |
| `Services`, `ServicesMC` | the seven of them together, and their instance |
| `ServicesProofs` | theorems about `Services`: digest, retention, intel, selectors and the parts of a mail |
| `AccessProofs` | theorems about `Services`: audit log and limiter, score, recommendation, and the types of all seven |

The modules describe one process from different sides. `Services` composes the seven
below it; the others share no variables:
`Ingest` starts the observers that `Rollup` (rollup and anomaly check) and `Webhook`
(sends) look into, and `ConnPool` opens up the steps `Insert` and `Duplicate` of
`Ingest`. What one side does to another appears there as an action: `Store` in
`Rollup` and `Intel`, `ReportVisible` in `Selectors`, `FileMail` in `Retention`, `Ingest`,
`PollFails` and `EventFails` in `Watchdog`; and `SaveDoc` in `Access` is one step where
`Ingest` has several.

### Ingest

A *worker* is the poller goroutine or the handler of one upload. Both take
documents one by one and run the same steps, so `PickDoc`, `Duplicate`, `Insert`,
`Commit`, `SaveForensic`, `StoreFails`, `CommitLost`, `Emit` and `ObserverFails`
are parameterised by the worker; what the callers do differently with a store
error is `GiveUp`. The transaction of `SaveReport` and `SaveTLSRPT` is cut where
another worker can see a difference: `Insert` takes the entry of the unique index
(`claim`), `Commit` makes the row visible (`rows`). A second inserter of the same
identity waits until the first transaction ends, as `ON CONFLICT DO NOTHING` does,
and is then a duplicate or the inserter.

The cycle is `StartCycle`, then one of `TakeUnreadable`, `TakePlain`, `TakeReport`
for every fetched mail, `SkipBad` and the save steps for its documents,
`FinishMail` (outcome and `report.failed`), `MoveFolder` per folder in any order
(Go's map order), `EndCycle`. A mail whose store failed simply stays. An upload is
`Receive`, the save steps, `FinishUpload`; `RefuseBody` and `RefuseBad` are the
400 answers. requeue-failed is three steps, because the poller, a crash or a mail
client can come in between: `RequeueSearch`, `RequeueUnsee`, `RequeueMove`.

Documents are model values with a kind (`KindOf`) and an identity (`KeyOf`, `None`
when parsing fails), mails and uploads a set of documents (`Content`) or
`Unreadable`. The order of documents follows the code between kinds and is free
within a kind. `heard`, `notices` and `landed` are history variables: how often an
observer handled a report, `report.failed` went out, and a mail was moved to
`Failed`; `opened` holds the mails a client opened after a requeue had cleared their flag.

External to the repository and modelled from its use: mail delivery, a mail client
that opens mail in `Failed`, and IMAP MOVE (it acts on those mails of the set that
are still in the folder; a failing one may have moved some).

### Webhook

A *delivery* is an event for one endpoint. The sleep between attempts has no action of its
own: nothing else can observe it, and the process may end in it just as before the attempt. A
failed attempt is a refusal or a lost answer (the endpoint took the event). After the last one
come three steps between which the metrics can be read and the process can end:
`CountFailure`, the insert (`Deadletter`) and `CountDeadletter`. The insert fails
(`DeadletterFails`) or commits without an answer (`DeadletterLost`); either way the goroutine
returns and counts no dead letter. Dead letters have ids in insertion order; a replay request
reads the page of the `Limit` oldest unreplayed rows, then delivers and marks one row at a
time.

### ConnPool

A save as the pool sees it: `Begin` takes a connection, `Insert` or `Conflict` uses
it, `Lookup` needs a second one while the first is held, `Commit` and `Return` give
back what is held. An upload's context ends when its client disconnects, the
poller's does not.

### Watchdog

`check` is cut at every database access: a rule is judged, its mark looked up, the
alert sent, the mark written; a crash or an error can come at each point, and the
metrics change in between. Times are ages in ticks, counted up to the limit the
code compares them with. `WebhookFailures` occurs as `newDead`, since only whether
it grew matters; it counts failed deliveries, also those whose dead letter could
not be inserted (README.md:539 speaks of rows). Failures before the first check
after a start are in its first sample and never count, which `SpikeIsExact` says.

### Rollup

Every new report has a worker that stores it and runs the rollup observer and the
anomaly check; the backfill is a process of its own. An upsert waits for rows the
open rebuild has deleted or inserted (`locked`); reads wait for nothing. The INSERT
of the rebuild fails on a bucket that appeared after its DELETE (`Clash`). The
threshold of the anomaly check is a constant: the days before do not change.

### Services

The seven services keep apart tables and meet only in the faults and crashes of
`Faults`. A state of all of them would be a product that shows nothing new, so a
behaviour of `Services` picks a `service` at first and follows it while the others rest.
Every statement that changes the database, every mail sent and every IMAP command is
an action, with a second one for its failure; what comes between them can be another
goroutine, another process or the end of this one.

* `Access`. `LoadKeys` is `parseAPIKeys`; a request then goes through `RefuseKey` or
  `Reserve`, `CancelReservation` (the 429), `RefuseScope` and its handler, and
  `InsertRow` is the goroutine of `audit.Record`, which nobody waits for. `saw` is what
  the middleware's wrapped writer saw, which differs from `answer` where a handler
  writes nothing (`ExportFails`). `Reserve` always takes a token and `Cancel` returns
  only one that was promised last, as `golang.org/x/time/rate` does (external, from
  its use in `api.go:159`).
* `Intel`. `UpsertSource` and `TellSender` are the two halves of `recordIP`, in the
  goroutine that saved the report; `SkipRecord` is a record without an address. `Enqueued`
  drops what does not fit. `Sweep` reads
  `UnenrichedIPs`, `SweepEnqueue` offers them one at a time. `FillBatch` is one
  statement over `backfillStep` serials; `SeedMeta` writes the skeleton rows. One domain
  is looked at, so a pair is an address.
* `Selectors`. The DELETE of `SaveDKIMAuth` is two steps: it takes its snapshot
  (`DeleteSees`) and then deletes of it what is still there and waits for rows another
  transaction holds (`DeleteRows`, `Locked`), as READ COMMITTED does; `CommitRows` shows
  the inserted rows. The rows of a transaction are one value named after its writer.
* `Retention`. `PurgeOneBatch` is one UPDATE of `purgeRawXML`; `SelectAndSearch`,
  `FlagDeleted` and `Expunge` are the commands of `expungeFolder`, between which the
  poller may file mail into the folder. `Expunge` removes all that is flagged, and counts
  what the search found. `ClientFlags` is someone who deletes a filed mail in a mail client,
  which sets `\Deleted` (external); that clients also expunge or unflag mail is left out.
* `Digest`. The scheduler and a request of `POST /digest/run` are two runners of the same
  `run`: snapshot of the subscriptions, then per domain `NextDomain` (`alreadySent`), one
  `Send` per subscriber, `LogDomain`. A send that reports an error may have arrived
  (the error of QUIT). `DayEnds` is the clock: it does not wait for any run, so that a day
  may pass with runs that failed, that never came or that are still in hand. The history
  `complete` tells the days for which some run of the scheduler met no error. A hung
  `smtp.Dial` (`digest.go:164`, no timeout) is a runner that takes no more steps. The two
  readings of the clock (`digest.go:50` and `:84`) are one, so that no midnight lies between.
* `Extract`. One action per kind of part of `ExtractPayloads`; a part is its type, its
  container and the kinds of the documents in it (`DocsOf`: the places of those of a kind).
  `EndOfMail` adds what `processMail`
  makes of the result. `SkipPart` assumes that the reader gets past a malformed part; one that
  reports an error for ever (`mailx.go:62-65` only goes on) is a walk that rests.
* `Readiness`. `msgs90` and `aligned` are the sums of `dmarc_agg_daily`, `msgsOf` the failing
  messages in `rptrecord`: the code reads the two tables with different windows, and the
  module lets them disagree in any way. `ReadSources` is the query with its LIMIT, `Recommend`
  the decision; `ComputeHealth` is written in tenths of a point with the rounding of `round1`,
  rates are compared as fractions.

## Runs

| Run | Specification | Shows |
|---|---|---|
| `IngestRace` | `FairSpec`, *Race* | safety properties and the refinement `ImplementsLedger`, with a fault, a crash or lost commit, a requeue and a client that opens mail in the middle of it; every other mail filed, every upload answered, every stored report announced unless a crash intervened |
| `IngestMixed` | `Spec`, *Mixed* | filing with several documents per mail and upload, three kinds of mail without a report, a fault |
| `IngestCrashGap` | `FairSpec`, violation | a stored report that is never announced |
| `WebhookDelivery` | `FairSpec` | delivery, dead letters and replay |
| `WebhookStarved` | `FairSpec`, violation | a page of undeliverable rows hides the rows behind it |
| `ConnPoolDeadlock` | `FairSpec`, violation | concurrent duplicates wait for each other's connections |
| `WatchdogAlerts` | `FairSpec` | cooldown across restarts, no alert missing, outages repeated, no alert loop |
| `RollupSums` | `FairSpec` | what each bucket holds, rebuilds, anomalies told |
| `RollupCountedTwice` | `Spec`, violation | a rebuild and an upsert count the same report |
| `RollupAnomalyTwice` | `Spec`, violation | two checks of one day both fire |
| `Services` | `FairSpec` | each service with a mishap anywhere: audit log and limiter, `domain_source` and `sender.new` beside a fill, `dkim_auth` between two writers, purge and its audit, who gets the digest, the parts of a mail, recommendation and score |
| `IntelDropped` | `FairSpec`, violation | an address that did not fit into the queue is never filled |

Bounds. *Race* has one mail and one upload with the same aggregate report (the smallest race),
a forensic report in that mail (saved after it, so that a retry of the mail passes the stored
part again) and a second mail that fails and is requeued; one fault and one crash are enough
to interrupt each step once, and the retry after it is free of faults, so liveness is not lost
to the bound. *Mixed* adds what *Race* leaves out: an aggregate, a TLS report and a broken
document in one mail, an unreadable and an empty mail, an upload whose last document is
broken, an upload without documents. A mail client may open a mail in `Failed` at any time,
between the two commands of requeue-failed too: such a mail is then hidden from every poll,
and `opened` remembers it, so that `InboxIsUnseen` and `EveryMailFiled` excuse it and no
other.

`WebhookDelivery` has one event for two endpoints of which one is gone, since deliveries of
other events behave like those to other endpoints, three attempts as in the code, and two
replay requests, which is the least that can overlap; two faults let the insert of one row and
the delivery or the mark of another fail in one behaviour; `Limit` is 500 in the code, so it
is above the rows there are in `WebhookDelivery` and below them in `WebhookStarved`.

`ConnPoolDeadlock` has the poller and one upload on two connections; pgx's default is four or
the number of CPUs, and it takes as many savers as connections.

`WatchdogAlerts` has a cooldown of two ticks, so that a check falls inside it, a window of two
ticks and a spike of two mails; all four rules in trouble at once are out of TLC's reach, so
`Together` lists every pair. The rules share nothing but the events they cause.

`RollupSums` has two reports of one day, neither of them an anomaly alone, a report of another
day, and two rebuilds, so that one follows what the other left; it ends when all reports are
done, hence no deadlock check.

`Services` allows one mishap, `MaxMishaps` = 1: it can hit every step, and what the code does
after it is then seen undisturbed. Keys: four values of `PARSER_API_KEYS`, among them none,
two entries that share a key, and one that does not load; two uploads of one key with a report
in common and a broken document, and an export, on a limiter of one token, so that a request
is refused while another is in the handler. Intel: two reports that share an address, one of
whose records has none, on a queue of one, one worker, a sweep and a fill of one row at a
time, so that both need a second turn. Selectors: two serials in pages of one, the second of
which does not parse. Retention: two mails for the two folders and two reports in batches of
one. Digest: a domain with two subscriptions, one of which comes or goes while the digest
runs, another domain, one forced run, a digest day and the day after it, into which a run may
last. Extract: all mails of up to four parts out of eight kinds, enough for two forensic
reports with two original messages, and for each kind of part before and after each other.
Readiness: `TopLimit` and `LoudLimit` are scaled from 10 and 100 to two and one, so that a
source can be hidden by as many as fit, and the totals lie just below and at 99.5 %, at
nothing and at all; the score takes every combination of small counts, whose quotients round
both ways, with every policy. A service ends when there is nothing left to do, hence no
deadlock check.

`MaxFaults`, `MaxCrashes` and `MaxRequeues` bound the counters of the same name and occur in
guards only.

Fairness. The poller's timer is always reset (`poller.go:132`) and each handler is
a goroutine of its own, so `PollerStep` and each upload's `HandlerStep` are weakly
fair. Arrival of mail, requests, requeue steps, faults and crashes are not fair.
In `Webhook` the send goroutines and the replay requests are weakly fair, the
replay request is repeated by the operator, and an endpoint that is not gone takes
a replayed event when it is offered again and again (strong fairness; the code
cannot promise more). In `ConnPool` savers are strongly fair, since pgxpool and
PostgreSQL serve those who wait in turn; the deadlock is there all the same. In
`Watchdog` the ticker and the check are weakly fair (`watchdog.go:75`): the sends of an alert
have timeouts, while its queries run on the context of the process and are assumed to be
answered; in `Rollup` each worker and a backfill that has begun. In `Services`
the sweep, which has a ticker (`enrich.go:75`), each worker of the pool and each observer
are weakly fair. Polls, failures, ingests, the start of a backfill and the steps of
the other services are never fair.

## Findings

* `IngestCrashGap`: nothing records that a committed report has still to be
  announced; a crash or a lost commit answer at `poller.go:239-255` or
  `api.go:226-247` silences it for ever, because the retry is a duplicate.
* `WebhookStarved`: dead letters of an endpoint that no longer exists are never
  retired and fill the replay page.
* `ConnPoolDeadlock`: `SaveReport` and `SaveTLSRPT` look a duplicate up on a second
  connection while they hold the first.
* `RollupCountedTwice`: a rebuild beside the running parser takes in a report whose
  upsert is still to come.
* `RollupAnomalyTwice`: the suppression row of an anomaly is looked up before and
  written after the statistics, and nobody tests who wrote it.
* `IntelDropped`: a full queue drops an address, and the sweep only looks at addresses
  that already have a row in `ip_meta`, which is written after the lookup.

Each of these is a run of its own. Other claims the code breaks are stated in the modules next to
the property that allows for the case; a configuration with the constants of `Services.cfg` (of
`WatchdogAlerts.cfg` for the third), `SPECIFICATION Spec`, only that service in `Followed` and the
formula as its one property shows the trace:

| Formula | Claim | What the code does |
|---|---|---|
| `UnreadableFails` (`Extract`) | a part that looks like a report container but fails to read marks the mail `Failed` (README.md:217-218) | the error counts only when the mail has nothing else (`mailx.go:105`) |
| `NoLoudUnknown` (`Readiness`) | no unknown source with more than 100 failing messages (`store_stats.go:429`, README.md:465) | looks among the ten largest failing sources only (`store_stats.go:407`) |
| `NeverRefires` (`Watchdog`) | restarts do not fire a rule again within its cooldown (`watchdog.go:2-3`) | alerts before it writes the mark (`watchdog.go:166`) |
| `ScheduledOnce` (`Digest`) | restarts and many ticks are safe (`digest.go:35`) | mails before it writes `digest_log` (`digest.go:118`) |
| `EveryRequestAudited` (`Access`) | every authenticated request is audited (`audit.go:1`, README.md:497) | answers the 429 before the audit middleware (`api.go:158`) |
| `OnlyOldMailGoes` (`Retention`) | mail older than the retention is expunged (`retention.go:3-4`) | an EXPUNGE without UIDs takes whatever is flagged `\Deleted` (`retention.go:146`) |
| `WrittenOnce` (`Selectors`) | `SaveDKIMAuth` is idempotent and can be run by observer and backfill (`store_reports2.go:44`) | in READ COMMITTED the DELETE of one writer does not see the rows another has yet to commit, and no unique index refuses the second set |

`requeueFailed` moves mail "back to INBOX (unseen)" (README.md:329) in two commands
(`api_platform.go:191-198`), and a mail opened in between arrives as seen; `InboxIsUnseen` says so.

Met on the way and not shown by a run: `report.failed` is sent before a MOVE that may fail and
is then sent again; a poll error emits no `poller.degraded` by itself (README.md:414), only the
third in a row does; healthz shows "pending first poll" for ever when no poll succeeds
(`api.go:390`). An export whose query fails is answered 200 with an empty body and audited with
status 0; the row of an upload that failed names none of the reports it stored (`api.go:255`).
Keys written without a name share the name `default` and with it one limiter; two refusals at a
time may cost a token, since only the last promise is taken back. When a later batch of the purge
fails, the rows of the earlier ones are not audited. A forced digest logs the domain too, so that a
subscription added between it and the digest hour gets no mail that day (`DigestServed` speaks of
those subscribed when the day began). A domain that goes from no policy to a small percentage of
quarantine or reject loses points (`store_stats.go:206-215` weighs the policy by `pct` but not
`none`), which `HealthIsMonotone` leaves out.

## Proofs

`IngestProofs` proves, for every set of mails, uploads and documents and all bounds,
`TypeCorrect`, `ReportsAnnouncedOnce` (`AnnouncedOnce`) and `MailFiledRight`
(`FilingIsRight`), from the named assumptions of `Ingest`: sentinels are outside the
sets they mark, an unreadable mail has no documents, the tables of different kinds
are disjoint and uploads carry aggregates only.

`AnnouncedOnce` is not inductive: it must be known that an open transaction holds the
index entry of a report without a row (`OpenHoldsClaim`), that an announcer's
remaining observers have not heard of the report (`EmitIsFirst`) and that no other
worker announces the same one (`EmitIsAlone`). `FilingIsRight` needs the mails
about to be moved to fit their folder (`MovesAreRight`) and, for the mail in hand,
that each handled document is stored or broken (`MailInHand`). `IInv` is their
conjunction; TLC checked it as an invariant first. The proof has a lemma per
action group for types, for the save part, for filing and for the mail in hand;
`RowsGrow` and `FitsGrow` carry the fact that rows never disappear, which is why a
correct filing stays correct.

`MailProofs` builds on this invariant, adding one of its own for each question:

* `FailuresAreReported` (`FailureIsReported`): a mail waiting to be moved to `Failed` has a
  notice more than it has landings (`MoveIsReported`), since `notifyFailed` goes out when
  the mail is decided on; a move that fails only makes another notice.
* `WaitingMailIsVisible` (`InboxIsUnseen`): mails a requeue is about to move are unseen too, but
  for those a client opened since it cleared their flags (`WaitingIsUnseen`).
* `NoMailIsLost` (`MailNeverLost`), an action property, over all steps.
* `AnswersAreTrue` (`AnswerIsTrue`): what an upload in progress has gone through is stored
  (`UploadInHand`), and `RowsGrow` keeps it so after the answer.
* `ForensicReportsStoredOnce` (`ForensicOnceIfCalm`): no index stops a second row, so this
  rests on the poller. In a calm run a document is *spent* once the poller has saved it, a
  mail comes to a cycle only while it is undecided (`CycleIsFresh`), and there are no more
  rows than spent documents (`ForensicRowsSpent`). `OccurrenceAssumption` of `Ingest` says
  what a document is here, a part of one mail.

It also proves `IngestImplementsLedger` (`ImplementsLedger`): initial states map to
initial states, and each step of `Ingest` to a step of `ReportLedger` or to a stutter. `Commit`
of a report maps to the ledger's store, `Emit` to its tell, `MoveFolder` and the partial move
of `MoveFails` to its filing of a set of mails, `FilingIsRight` being its guard. That the
webhook is told first needs `LeaderIsTold`: who is past the first observer has told it.

`WebhookProofs` proves `TypeCorrect`, `NothingDropped` (`NoneDropped`), `DeadLettersAreDead`
(`RowsAreDead`), `ReplayIsSound` (`ReplayedWasTaken`) and `MetricsAgree` (`MetricsTellRows`)
for every finite set of deliveries and replay requests and all bounds. The invariant adds to
these properties that a send under way has attempts left (`ChancesLeft`) and that a replay
request holds ids of existing rows only (`PageIsRows`), without which marking a row could
touch one that was never delivered, and that a goroutine about to count its dead letter has a
row (`InsertedAreRows`). `MetricsAgree` compares each counter with the rows by the goroutines
that are between the steps (`Inserted`, `Between`) and the faults spent, which is why the sets
are finite. `NoneDeliveredTooOften` (`NoExtraDelivery`) needs `ReplaysCounted` for calm runs:
what an endpoint got of a dead letter is bounded by the replay requests that are past its row,
of which each counts once although any number of them may hold the same page.

`WatchdogProofs` proves `TypeCorrect`, `CooldownKept` (`OncePerCooldown`) and
`NoAlertMissing` (`FiringIsAlerted`) for every cooldown, window and spike. The key is
`MarkFollowsAlert`: a mark is never younger than its alert, because `fire` alerts first;
so a rule that the cooldown suppresses was alerted within it. `VerdictIsAlerted` carries
this through the check rule by rule and `StageIsDue` through the steps of `fire`.
`SpikeCountsTheWindow` (`SpikeIsExact`) shows that a difference of two samples is a count of
failures: sample *j* of *n* was taken before a failure exactly when at most *n - j* samples
were taken since (`SamplesTellAges`), and until the window is full the first sample is that of
the first check (`SamplesStart`).

`SumTheorems` has what the proofs need of sums over finite sets: how a sum changes when an
element is added (`SumAdd`), the set is divided (`SumUnion`) or the summands of a part of it
are raised (`SumRaisePart`), and that larger summands have a larger sum (`SumAtMost`). The
library's induction on finite sets takes an operator as a parameter, which the provers cannot
instantiate. `FiniteInduction` takes the set of the subsets for which the claim holds instead,
and is proved from a smallest counterexample; `WeighStep` unfolds the community modules' fold
by one element. Sums, unlike other folds, can so be reasoned about.

`RollupProofs` is about `Rollup`, for any finite set of reports, any buckets, numbers, threshold
and bounds:

* `BucketsHoldReports` (`BucketsAddUp`). The two sums a bucket is made of change with every
  commit, upsert, failure and rebuild; `StoredIsStarted` and `PendingNotLost` tie the history
  to where a report is. A rebuild replaces a bucket by the sum of its snapshot, which is right
  only if no report outside the snapshot was added meanwhile: those wait for the rows it holds
  (`SnapshotIsLocked`), and it holds a row only where it sees a report (`LocksHaveReports`), so
  a bucket it leaves without a row has nothing to lose.
* `RebuildIsExact` (`RebuildRepairs`), an action property, and `TableNeverEmpty` from the same
  invariant; `TypeCorrect`, where a bucket has no more aligned messages than messages.
* `AnomaliesAreTold` (`AnomalyTold`). `AnomalyIsSeen`: a day over the threshold was told of, or a
  report of that day has its check before it. An upsert raises the day of its own report, which
  is checked next; a rebuild raises a day only by reports whose upsert is still to come or was
  lost (`RebuildRaises`), and a lost one is an excuse (`LostIsExcused`). Whoever finds the mark
  of another may stay silent because the other tells (`MarkedIsTold`).

`ServicesProofs` and `AccessProofs` are about `Services`. Each theorem follows one service: its own
steps are treated action by action, those of the others leave its variables alone, and
`MishapsOnlyGrow` says of all of them that faults and crashes are never forgotten.

* `DigestMailedOnce` (`DigestOnce`), for any subscribers, days and bounds, assuming that a
  subscriber is a pair. That a mail more than the mishaps explain is not followed by
  another rests on `MailsExplained`: whoever has such a mail is in `digest_log` for that
  day or was mailed in the round the scheduler is in, and on `RoundIsFresh`: those still
  to be mailed in this round have none.
* `PurgeStaysTrue` (`PurgeIsTrue`), for any finite sets of mails and reports and any batch.
  What the search found is flagged and in its folder when the EXPUNGE comes (`FoundIsFlagged`),
  so nothing is counted that does not go, and what goes uncounted was flagged by a client, for
  mail flagged by a purge that failed is old and found again (`FlagsExplained`); `TalliesMatch`
  adds what is counted but not yet audited.
* `PurgeTakesOnlyOld` (`TakesOnlyOld`), an action property from the same invariant: of
  what the EXPUNGE finds flagged, all but a client's mail was old when the half began.
* `SenderToldOnce` (`SenderTold`), for any reports, records and addresses. A handler that
  found no row waits to tell of exactly the record the row was made for (`NewIsFirst`),
  it is the only one (`OneWaits`), and a handler works on a stored report
  (`OnlyStoredHandled`), so that no second save can replace its records.

* `SubscribersAreServed` (`DigestServed`), for any subscribers, domains, faults and forced runs,
  assuming that digest days are not next to each other, as days of a week are not: a run may
  last past midnight, and a forced one of the day before could otherwise log for this one.
  The invariant says of each runner that it holds the entitled of a domain all together
  (`WholeDomains`) and has tried them when it logs (`RoundTried`), of the log that whoever is
  entitled in a logged domain was served (`LoggedServed`), of a run of the scheduler without an
  error so far that whoever it no longer holds was served (`CleanRun`), and of the days it ended
  so (`CompleteServed`).
* `SelectorsAreKept` (`SelectorsKept`), for any reports and page size: the rows ahead of the
  backfill are on its page or behind the page's end (`PageLiesAhead`), those behind it were
  rewritten (`BehindIsKept`), and what was once written has rows (`KeptHasRows`), because a
  second writer deletes and inserts in one transaction.
* `ScoreIsMonotone` (`HealthIsMonotone`), for all counts: each component of the score is
  bounded and monotone, the policy's among the policies that are compared (`StrengthGrows`).
  The lemmas about `\div` and `Tenths` reduce quotients with a variable divisor to products,
  which the SMT solver handles one at a time.
* `AuditIsTrue` (`AuditTellsAccess`), for any key lists, finite requests and bursts, of the
  requests that pass the limiter, in three
  invariants: what the middleware saw is what the client gets, or 0 after a failed export
  (`RequestInv`); a report is a new serial of the one request that stored it, and a row names
  exactly those (`ReportInv`); and per name, rows, requests inside, requests waiting and tokens
  left are together at most the tokens there ever were (`RateInv`).
* `SourcesAddUpAlways` (`SourcesAddUp`), for any reports, records and batch size. An address has
  the sum over the records its observers passed and over the fills that passed each report
  (`MessagesAddUp`); an observer counts a record once since what it still has is the end of the
  report's records (`RestIsEnd`) and what is counted lies before it (`LiveIsBehind`), and a fill
  counts a report once since the serials behind its page are those it has not seen
  (`FillIsExact`).
* `WalkFindsAll` (`WalkIsRight`), for mails of any length. The invariant says of the parts behind
  the walk what the property says of the mail at its end: the documents found so far
  (`DocumentsSoFar`), the forensic reports (`FeedbackSoFar`), the first unreadable part
  (`ErrorSoFar`), and of original messages that one that belongs to no report had none waiting
  for it (`OriginalsSoFar`), which no later part changes. The outcome of a mail that has both
  something to find and an unreadable part is left open; `UnreadableFails` is about it.
* `AdviceIsSafe` (`EnforceIsSafe`), for any sources, volumes and limits: what the query returned
  is all failing sources or as many as fit, none smaller than one left out (`SourcesRead`), and
  the known ones among as many as fit are the ones that hide an unknown one.
* `TypesAreRight` (`TypeOK`), the types of the seven services together. Most of it follows from
  the invariants above; that a limiter never has more than its burst does not, since a request
  that is refused gives its token back. `LimiterInv`: a limiter whose last promise lies ahead
  owes exactly the tokens up to it, and the requests that wait have different promises, none
  after the last; so a token that is taken back was owed.

These theorems were preceded by runs with their invariants where they are finite to check. What
the proofs asked of the constants is in the named assumptions of the modules, which TLC
evaluates: requests have distinct ids, request bodies and pages are sequences, `None` is no
policy, digest days are a week apart. Some definitions are written the way they are to be reasoned
about: `NextPage` in `Selectors`, the bodies in `Access`, `DocsOf` and `TakeDocuments` in
`Extract`.

Every invariant and action property of a passing run is stated by a theorem, and the refinement
too. Only model-checked are the properties that need fairness, which are out of the prover's
reach: `EveryMailFiled`, `EveryUploadAnswered`, `AnnouncedUnlessCrash`, `EverySendEnds`,
`RowsAreReplayed`, `OutageIsRepeated`, `NoAlertLoop`, `EveryReportObserved` and
`SeededAreEnriched`; and `ConnPool`, whose one property is refuted. A theorem holds for the model:
that an action is the code it names is for the reader of the code to judge. The
theorems `TypeCorrect` of `Webhook`, `Watchdog` and `Rollup`, `DeadLettersAreDead`, `ReplayIsSound` and
`TableNeverEmpty` state formulas no run lists, where stronger properties imply what matters of
them.

## Plan

1. Done: `Ingest` with its ledger, `Webhook`, `ConnPool`, `Watchdog`, `Rollup`, the services
   around them, and a theorem for every safety property the runs check.
2. Left to prove: an abstract store for `dmarc_agg_daily` that `Rollup` implements while no
   rebuild runs, as the ledger is for `Ingest`; and that savers of `ConnPool` cannot block each
   other while they are fewer than the connections.
3. Left to model: healthz beside the watchdog, and the rotation of the backups.

## Not modelled

* Migrations run before anything else and are a list of idempotent statements; metrics are
  counters rendered as text.
* The read handlers and queries of the API, the audit list, statistics other than readiness
  and score, and the columns and rows of an export change no state.
* Of the configuration only `PARSER_API_KEYS` is parsed into something with a structure; the
  other variables become constants.
* DNS, Cymru and SMTP dialogues, XML, JSON and AFRF decoding, HTML of the digest: I/O and
  data. A document that does not parse is one of the kinds the models know.
* In `Access`: a handler that panics, whose audit row is lost, and `PARSER_RATE_LIMIT_RPS=0`,
  with which there is no limiter.
* A persistent reader error in `mailx`, a hung SMTP dialogue, and mail clients that expunge or
  unflag mail in the folders of the parser.
* `backup/backup.sh` is a shell script that shares no state with the parser.
