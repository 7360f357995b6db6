------------------------------ MODULE Watchdog ------------------------------
(***************************************************************************)
(* The watchdog of parser/internal/watchdog: every ten minutes it judges   *)
(* four rules and alerts on those that fire, unless the rule is still in   *)
(* the cooldown that alert_state remembers across restarts.                *)
(*                                                                         *)
(* Time is counted in ticks of the watchdog and kept as ages, each counted *)
(* up to the value the code compares it with.                              *)
(***************************************************************************)
EXTENDS Integers, Sequences, FiniteSets

CONSTANTS
  Cooldown,    \* ticks between two alerts of a rule (37: the mark follows its tick)
  Silence,     \* ticks of AlertSilence
  Window,      \* ticks of 24 hours (144, jitter of the ticker aside)
  Spike,       \* AlertFailedSpike
  Never,       \* no report was ever stored
  Together,    \* bound: the sets of rules whose trouble is looked at together
  \* bounds: mails that fail, events other than alerts that fail, database
  \* errors, crashes
  MaxFailed, MaxEvents, MaxFaults, MaxCrashes

PollLimit == 3

\* The order in which check looks at the rules.
Order == <<"silence", "poll_failures", "failed_spike", "webhook_dead">>
Rules == {Order[i] : i \in 1..4}

ASSUME WatchdogAssumption ==
  /\ {Cooldown, Window, Spike} \subseteq Nat \ {0}
  /\ {Silence, MaxFailed, MaxEvents, MaxFaults, MaxCrashes} \subseteq Nat
  /\ Never \notin Nat
  /\ Together \subseteq SUBSET Rules

VARIABLES
  ingested,    \* age of the newest report, or Never
  pollErrors,  \* metric PollConsecutiveErrors
  mailsFailed, \* metric MailsFailed
  newDead,     \* WebhookFailures has grown since the last check
  own,         \* poller.degraded events on their way
  samples,     \* failedSamples: mailsFailed at the last checks
  at, stage,   \* where check is: Order[at], 0 when it is not running
  verdict,     \* what this check found
  states,      \* what healthz shows
  lastFired,   \* alert_state: age of the mark of each rule
  alerted,     \* history: age of the last alert of each rule
  lost,        \* history: rules whose last alert could not be marked
  unknown,     \* history: rules whose mark could not be read in this check
  failedAges,  \* history: samples taken since each failure after the first check
  troubles,    \* the member of Together this behaviour looks at
  events, faults, crashes

metrics == <<ingested, pollErrors, mailsFailed, newDead, own>>
check == <<samples, at, stage, verdict, states>>
history == <<alerted, lost, unknown, failedAges>>
bounds == <<troubles, events, faults, crashes>>
vars == <<metrics, check, lastFired, history, bounds>>

Ok == [r \in Rules |-> "ok"]
Older(age, limit) == IF age < limit THEN age + 1 ELSE limit

Init ==
  /\ troubles \in Together
  /\ ingested \in IF "silence" \in troubles THEN {Never, 0} ELSE {Never}
  /\ pollErrors = 0 /\ mailsFailed = 0 /\ newDead = FALSE /\ own = 0
  /\ samples = <<>> /\ at = 0 /\ stage = "judge" /\ verdict = Ok /\ states = Ok
  /\ lastFired = [r \in Rules |-> Cooldown]
  /\ alerted = lastFired /\ lost = {} /\ unknown = {} /\ failedAges = <<>>
  /\ events = 0 /\ faults = 0 /\ crashes = 0

Fault == faults < MaxFaults /\ faults' = faults + 1
-----------------------------------------------------------------------------
(* What the watchdog watches.                                              *)

Ingest ==
  /\ "silence" \in troubles
  /\ ingested' = 0
  /\ UNCHANGED <<pollErrors, mailsFailed, newDead, own, check, lastFired, history, bounds>>

PollSucceeds ==
  /\ pollErrors' = 0
  /\ UNCHANGED <<ingested, mailsFailed, newDead, own, check, lastFired, history, bounds>>

PollFails ==
  /\ "poll_failures" \in troubles
  /\ pollErrors' = Older(pollErrors, PollLimit)
  /\ UNCHANGED <<ingested, mailsFailed, newDead, own, check, lastFired, history, bounds>>

\* Before the first check there is no sample to compare with.
MailFails ==
  /\ "failed_spike" \in troubles
  /\ mailsFailed < MaxFailed
  /\ mailsFailed' = mailsFailed + 1
  /\ failedAges' = IF samples = <<>> THEN failedAges ELSE Append(failedAges, 0)
  /\ UNCHANGED <<ingested, pollErrors, newDead, own, check, lastFired,
                 alerted, lost, unknown, bounds>>

\* An event of another component ends as a dead letter.
EventFails ==
  /\ "webhook_dead" \in troubles
  /\ events < MaxEvents /\ events' = events + 1
  /\ newDead' = TRUE
  /\ UNCHANGED <<ingested, pollErrors, mailsFailed, own, check, lastFired, history,
                 troubles, faults, crashes>>

\* The watchdog's own poller.degraded event is delivered or ends as one.
OwnEventEnds ==
  /\ own > 0 /\ own' = own - 1
  /\ newDead' \in IF "webhook_dead" \in troubles THEN {newDead, TRUE} ELSE {newDead}
  /\ UNCHANGED <<ingested, pollErrors, mailsFailed, check, lastFired, history, bounds>>
-----------------------------------------------------------------------------
(* check: ten minutes have passed, and the events of the last check have   *)
(* ended: each has three attempts, with a timeout and a pause between.     *)

Tick ==
  /\ at = 0 /\ own = 0
  /\ at' = 1
  /\ verdict' = Ok
  /\ unknown' = {}
  /\ ingested' = IF ingested = Never THEN Never ELSE Older(ingested, Silence + 1)
  /\ lastFired' = [r \in Rules |-> Older(lastFired[r], Cooldown)]
  /\ alerted' = [r \in Rules |-> Older(alerted[r], Cooldown)]
  /\ UNCHANGED <<pollErrors, mailsFailed, newDead, own, samples, stage, states, lost,
                 failedAges, bounds>>

On(rule, s) == at \in 1..4 /\ Order[at] = rule /\ stage = s

NextRule == at' = at + 1 /\ stage' = "judge"

Judge(rule, bad) ==
  /\ On(rule, "judge")
  /\ \/ bad /\ verdict' = [verdict EXCEPT ![rule] = "firing"]
            /\ stage' = "lookup" /\ UNCHANGED at
     \/ ~bad /\ NextRule /\ UNCHANGED verdict
  /\ UNCHANGED <<ingested, pollErrors, mailsFailed, own, states, lastFired,
                 alerted, lost, unknown, bounds>>

Silent == ingested # Never /\ ingested > Silence

JudgeSilence == Judge("silence", Silent) /\ UNCHANGED <<newDead, samples, failedAges>>

\* max(seen) cannot be read: the rule counts as ok.
JudgeSilenceFails ==
  /\ On("silence", "judge")
  /\ Fault
  /\ NextRule
  /\ UNCHANGED <<metrics, samples, verdict, states, lastFired, history, troubles, events, crashes>>

Failing == pollErrors >= PollLimit

JudgePoll == Judge("poll_failures", Failing) /\ UNCHANGED <<newDead, samples, failedAges>>

Last(s, n) == IF Len(s) > n THEN SubSeq(s, Len(s) - n + 1, Len(s)) ELSE s

\* Mutant of Recent: the samples are never trimmed.
RecentAll(s) == s

\* Mutant of Recent: a sample that is exactly 24 hours old goes.
RecentStrict(s) == Last(s, Window)

\* The samples that are not older than 24 hours, the newest among them.
Recent(s) == Last(s, Window + 1)

JudgeSpike ==
  LET window == Recent(Append(samples, mailsFailed))
  IN  /\ Judge("failed_spike", mailsFailed - Head(window) >= Spike)
      /\ samples' = window
      /\ failedAges' = [i \in DOMAIN failedAges |-> Older(failedAges[i], Window + 1)]
      /\ UNCHANGED newDead

\* Mutant of JudgeWebhook: the baseline stays where it is.
JudgeWebhookOldBase ==
  /\ Judge("webhook_dead", newDead)
  /\ UNCHANGED <<newDead, samples, failedAges>>

JudgeWebhook ==
  /\ Judge("webhook_dead", newDead)
  /\ newDead' = FALSE
  /\ UNCHANGED <<samples, failedAges>>

\* Mutant of Lookup: the rule is marked before its alert goes out.
LookupAndMark(r) ==
  /\ On(r, "lookup")
  /\ \/ lastFired[r] < Cooldown /\ NextRule /\ UNCHANGED lastFired
     \/ /\ lastFired[r] = Cooldown /\ stage' = "send" /\ UNCHANGED at
        /\ lastFired' = [lastFired EXCEPT ![r] = 0]
  /\ UNCHANGED <<metrics, samples, verdict, states, history, bounds>>

\* Mutant of Lookup: only a rule that was ok at the last check alerts.
LookupEdge(r) ==
  /\ On(r, "lookup")
  /\ \/ (lastFired[r] < Cooldown \/ states[r] = "firing") /\ NextRule
     \/ lastFired[r] = Cooldown /\ states[r] = "ok" /\ stage' = "send" /\ UNCHANGED at
  /\ UNCHANGED <<metrics, samples, verdict, states, lastFired, history, bounds>>

\* fire: still in the cooldown, or go on to the alert.
Lookup(r) ==
  /\ On(r, "lookup")
  /\ \/ lastFired[r] < Cooldown /\ NextRule
     \/ lastFired[r] = Cooldown /\ stage' = "send" /\ UNCHANGED at
  /\ UNCHANGED <<metrics, samples, verdict, states, lastFired, history, bounds>>

LookupFails(r) ==
  /\ On(r, "lookup")
  /\ Fault
  /\ NextRule
  /\ unknown' = unknown \cup {r}
  /\ UNCHANGED <<metrics, samples, verdict, states, lastFired, alerted, lost, failedAges,
                 troubles, events, crashes>>

\* postAlert and NotifyEvent; until the mark the alert counts as lost.
Send(r) ==
  /\ On(r, "send")
  /\ stage' = "mark"
  /\ own' = own + 1
  /\ alerted' = [alerted EXCEPT ![r] = 0]
  /\ lost' = lost \cup {r}
  /\ UNCHANGED <<ingested, pollErrors, mailsFailed, newDead, samples, at, verdict, states,
                 lastFired, unknown, failedAges, bounds>>

\* Mutant of Mark: the row is there already and is left alone.
MarkOnce(r) ==
  /\ On(r, "mark")
  /\ NextRule
  /\ lost' = lost \ {r}
  /\ UNCHANGED <<metrics, samples, verdict, states, lastFired, alerted, unknown,
                 failedAges, bounds>>

Mark(r) ==
  /\ On(r, "mark")
  /\ NextRule
  /\ lastFired' = [lastFired EXCEPT ![r] = 0]
  /\ lost' = lost \ {r}
  /\ UNCHANGED <<metrics, samples, verdict, states, alerted, unknown, failedAges, bounds>>

MarkFails(r) ==
  /\ On(r, "mark")
  /\ Fault
  /\ NextRule
  /\ UNCHANGED <<metrics, samples, verdict, states, lastFired, history, troubles, events, crashes>>

Publish ==
  /\ at = 5
  /\ at' = 0
  /\ states' = verdict
  /\ UNCHANGED <<metrics, samples, stage, verdict, lastFired, history, bounds>>
-----------------------------------------------------------------------------
\* The process dies and starts again; alert_state and the reports stay.
Crash ==
  /\ crashes < MaxCrashes /\ crashes' = crashes + 1
  /\ pollErrors' = 0 /\ mailsFailed' = 0 /\ newDead' = FALSE /\ own' = 0
  /\ samples' = <<>> /\ at' = 0 /\ stage' = "judge" /\ verdict' = Ok /\ states' = Ok
  /\ failedAges' = <<>>
  /\ UNCHANGED <<ingested, lastFired, alerted, lost, unknown, troubles, events, faults>>

Rule(r) == Lookup(r) \/ Send(r) \/ Mark(r)

Check ==
  \/ JudgeSilence \/ JudgePoll \/ JudgeSpike \/ JudgeWebhook \/ Publish
  \/ \E r \in Rules : Rule(r)

CheckFails == JudgeSilenceFails \/ \E r \in Rules : LookupFails(r) \/ MarkFails(r)

World == Ingest \/ PollSucceeds \/ PollFails \/ MailFails \/ EventFails \/ OwnEventEnds

Next == Tick \/ Check \/ CheckFails \/ World \/ Crash

\* The ticker is never stopped and a send ends after three attempts, each with
\* a timeout.  The queries of check have none: that the database answers them,
\* if with an error, is assumed.
Fairness == WF_vars(Tick) /\ WF_vars(Check) /\ WF_vars(OwnEventEnds)

Spec == Init /\ [][Next]_vars
FairSpec == Spec /\ Fairness
-----------------------------------------------------------------------------
MetricsType ==
  /\ ingested \in 0..(Silence + 1) \cup {Never}
  /\ pollErrors \in 0..PollLimit
  /\ mailsFailed \in 0..MaxFailed
  /\ newDead \in BOOLEAN
  /\ own \in Nat

CheckType ==
  /\ samples \in Seq(0..MaxFailed) /\ Len(samples) <= Window + 1
  /\ at \in 0..5
  /\ stage \in {"judge", "lookup", "send", "mark"}
  /\ verdict \in [Rules -> {"ok", "firing"}]
  /\ states \in [Rules -> {"ok", "firing"}]

AlertType ==
  /\ lastFired \in [Rules -> 0..Cooldown]
  /\ alerted \in [Rules -> 0..Cooldown]
  /\ lost \subseteq Rules /\ unknown \subseteq Rules

AgesType == failedAges \in Seq(0..(Window + 1)) /\ Len(failedAges) <= mailsFailed

BoundsType ==
  /\ troubles \in Together
  /\ events \in 0..MaxEvents /\ faults \in 0..MaxFaults /\ crashes \in 0..MaxCrashes

\* Types; the samples of failed_spike never outgrow the window.
TypeOK == MetricsType /\ CheckType /\ AlertType /\ AgesType /\ BoundsType

\* "Each rule has a 6h cooldown persisted in alert_state so restarts do not
\* re-fire" (watchdog.go:2): a rule alerts again only when its cooldown is
\* over, or when the mark of its last alert was lost.
OncePerCooldown ==
  [][\A r \in Rules : Send(r) => alerted[r] = Cooldown \/ r \in lost]_vars

\* The same without the excuse, as watchdog.go:2-3 has it.  The mark is written
\* after the alert: a crash or an error between them fires the rule again.
NeverRefires ==
  [][\A r \in Rules : Send(r) => alerted[r] = Cooldown]_vars

\* What healthz shows as firing has been alerted within the cooldown, across
\* restarts, unless alert_state could not be read (watchdog.go:147).
FiringIsAlerted ==
  at = 0 => \A r \in Rules :
              states[r] = "firing" => alerted[r] < Cooldown \/ r \in unknown

\* failed_spike counts exactly the mails that failed in the last 24 hours and
\* after the first check (watchdog.go:112).
SpikeIsExact ==
  at = 5 => (verdict["failed_spike"] = "firing" <=>
               Cardinality({i \in DOMAIN failedAges : failedAges[i] \in 1..Window}) >= Spike)

\* While nothing is ingested, or polls keep failing, the alert is repeated
\* after every cooldown.
OutageIsRepeated ==
  /\ <>[]Silent => []<>(alerted["silence"] = 0)
  /\ <>[]Failing => []<>(alerted["poll_failures"] = 0)

\* The dead letters of the watchdog's own events do not keep it alerting: when
\* nothing else is wrong any more, it falls silent.
NoAlertLoop == <>[](~Silent /\ ~Failing) => <>[](\A r \in Rules : alerted[r] # 0)
-----------------------------------------------------------------------------
(* What OncePerCooldown and FiringIsAlerted need to be inductive.          *)

\* A mark is never younger than the alert it stands for, and as old as it
\* unless it was lost.
MarkFollowsAlert ==
  \A r \in Rules : alerted[r] <= lastFired[r] /\ (r \notin lost => alerted[r] = lastFired[r])

\* An alert is about to go out only when the cooldown is over, and about to be
\* marked only when it has just gone out.
StageIsDue ==
  \A r \in Rules : /\ On(r, "send") => lastFired[r] = Cooldown
                   /\ On(r, "mark") => alerted[r] = 0

Settled(i) == i < at \/ (i = at /\ stage = "mark")

\* Only rules that were looked at fire, and those the check is done with were
\* alerted.
VerdictIsAlerted ==
  at # 0 => \A i \in 1..4 :
              verdict[Order[i]] = "firing" =>
                /\ i < at \/ (i = at /\ stage # "judge")
                /\ Settled(i) => alerted[Order[i]] < Cooldown \/ Order[i] \in unknown

\* Between checks, and when one is through, the next stage is the first.
StageIsJudge == at \in {0, 5} => stage = "judge"

IInv ==
  /\ TypeOK /\ MarkFollowsAlert /\ StageIsDue /\ StageIsJudge
  /\ VerdictIsAlerted /\ FiringIsAlerted
=============================================================================
