--------------------------- MODULE WatchdogProofs ---------------------------
(***************************************************************************)
(* Theorems about the watchdog, for every cooldown, window and bound:      *)
(* alerts keep their cooldown across restarts, no firing rule goes without *)
(* an alert, and failed_spike counts the failures of its window.           *)
(***************************************************************************)
EXTENDS Watchdog, SequenceTheorems, FiniteSetTheorems, TLAPS

LEMMA ConstantFacts ==
  /\ Cooldown \in Nat \ {0} /\ Window \in Nat \ {0} /\ Spike \in Nat \ {0}
  /\ Silence \in Nat /\ MaxFailed \in Nat /\ MaxEvents \in Nat
  /\ MaxFaults \in Nat /\ MaxCrashes \in Nat
BY WatchdogAssumption

\* The four rules are different, and looked at in their order.
LEMMA OrderFacts ==
  /\ \A i \in 1..4 : Order[i] \in Rules
  /\ \A i, j \in 1..4 : Order[i] = Order[j] => i = j
  /\ \A r \in Rules : \E i \in 1..4 : r = Order[i]
<1>1. \A i \in 1..4 : Order[i] \in Rules
  BY DEF Rules
<1>2. \A r \in Rules : \E i \in 1..4 : r = Order[i]
  BY DEF Rules
<1>3. \A i, j \in 1..4 : Order[i] = Order[j] => i = j
  BY DEF Order
<1> QED BY <1>1, <1>2, <1>3

\* Ages stay in their range and never go back.
LEMMA OlderFacts ==
  ASSUME NEW limit \in Nat, NEW age \in 0..limit
  PROVE  /\ Older(age, limit) \in 0..limit
         /\ age <= Older(age, limit)
BY DEF Older

\* The trimmed samples are samples and fit the window.
LEMMA RecentFacts ==
  ASSUME NEW s \in Seq(0..MaxFailed)
  PROVE  /\ Recent(s) \in Seq(0..MaxFailed)
         /\ Len(Recent(s)) <= Window + 1
<1>1. Window + 1 \in Nat \ {0}
  BY WatchdogAssumption
<1>2. CASE Len(s) > Window + 1
  <2> DEFINE m == Len(s) - (Window + 1) + 1
  <2>1. m \in 1..Len(s) /\ Len(s) \in Nat
    BY <1>1, <1>2
  <2>5. m \in Int /\ \A i \in m..Len(s) : s[i] \in 0..MaxFailed
    <3> HIDE DEF m
    <3>1. m \in Int
      BY <2>1
    <3>2. ASSUME NEW i \in m..Len(s) PROVE s[i] \in 0..MaxFailed
      <4>1. i \in 1..Len(s)
        BY <2>1
      <4> QED BY <4>1, ElementOfSeq
    <3> QED BY <3>1, <3>2
  <2>2. Recent(s) = SubSeq(s, m, Len(s))
    BY <1>2 DEF Recent, Last
  <2>3. Len(SubSeq(s, m, Len(s))) = Window + 1
    BY <1>1, <2>1
  <2>4. SubSeq(s, m, Len(s)) \in Seq(0..MaxFailed)
    <3> HIDE DEF m
    <3> QED BY <2>1, <2>5, SubSeqProperties
  <2> QED BY <2>2, <2>3, <2>4, <1>1
<1>3. CASE ~(Len(s) > Window + 1)
  <2>1. Recent(s) = s
    BY <1>3 DEF Recent, Last
  <2>2. Len(s) \in Nat
    OBVIOUS
  <2>3. Len(s) <= Window + 1
    BY <1>3, <1>1, <2>2
  <2> QED BY <2>1, <2>3
<1> QED BY <1>2, <1>3
-----------------------------------------------------------------------------
(* Initial states.                                                         *)

LEMMA InitInv == Init => IInv
<1> SUFFICES ASSUME Init PROVE IInv
  OBVIOUS
<1> USE ConstantFacts
<1>1. MetricsType
  <2>1. ingested \in {Never, 0}
    BY DEF Init
  <2>2. 0 \in 0..(Silence + 1) /\ 0 \in 0..PollLimit /\ 0 \in 0..MaxFailed
    BY DEF PollLimit
  <2> QED BY <2>1, <2>2 DEF Init, MetricsType
<1>2. CheckType
  BY DEF Init, CheckType, Ok
<1>3. AlertType
  BY DEF Init, AlertType
<1>4. AgesType
  BY DEF Init, AgesType
<1>5. BoundsType
  BY DEF Init, BoundsType
<1>6. MarkFollowsAlert
  BY DEF Init, MarkFollowsAlert
<1>7. StageIsDue /\ StageIsJudge /\ VerdictIsAlerted
  BY DEF Init, StageIsDue, StageIsJudge, VerdictIsAlerted, On
<1>8. FiringIsAlerted
  BY DEF Init, FiringIsAlerted, Ok
<1> QED BY <1>1, <1>2, <1>3, <1>4, <1>5, <1>6, <1>7, <1>8 DEF IInv, TypeOK
-----------------------------------------------------------------------------
(* Types.                                                                  *)

LEMMA WorldTypes ==
  ASSUME TypeOK, World
  PROVE  TypeOK'
<1> USE ConstantFacts DEF TypeOK
<1>1. CheckType' /\ AlertType'
  BY DEF World, Ingest, PollSucceeds, PollFails, MailFails, EventFails, OwnEventEnds,
         check, history, CheckType, AlertType
<1>2. MetricsType'
  <2>1. CASE Ingest
    BY <2>1 DEF Ingest, MetricsType
  <2>2. CASE PollSucceeds
    BY <2>2 DEF PollSucceeds, MetricsType, PollLimit
  <2>3. CASE PollFails
    BY <2>3 DEF PollFails, MetricsType, PollLimit, Older
  <2>4. CASE MailFails
    BY <2>4 DEF MailFails, MetricsType
  <2>5. CASE EventFails
    BY <2>5 DEF EventFails, MetricsType
  <2>6. CASE OwnEventEnds
    <3>1. newDead' \in BOOLEAN
      BY <2>6 DEF OwnEventEnds, MetricsType
    <3>2. own' \in Nat
      BY <2>6 DEF OwnEventEnds, MetricsType
    <3>3. UNCHANGED <<ingested, pollErrors, mailsFailed>>
      BY <2>6 DEF OwnEventEnds
    <3> QED BY <3>1, <3>2, <3>3 DEF MetricsType
  <2> QED BY <2>1, <2>2, <2>3, <2>4, <2>5, <2>6 DEF World
<1>3. AgesType'
  <2>1. CASE MailFails
    <3>1. CASE samples = <<>>
      BY <2>1, <3>1 DEF MailFails, AgesType, MetricsType
    <3>2. CASE samples # <<>>
      <4>1. failedAges' = Append(failedAges, 0) /\ mailsFailed' = mailsFailed + 1
        BY <2>1, <3>2 DEF MailFails
      <4>2. 0 \in 0..(Window + 1) /\ mailsFailed \in Nat
        BY DEF MetricsType
      <4>3. Append(failedAges, 0) \in Seq(0..(Window + 1))
        BY <4>2 DEF AgesType
      <4>4. Len(Append(failedAges, 0)) = Len(failedAges) + 1 /\ Len(failedAges) \in Nat
        BY DEF AgesType
      <4> QED BY <4>1, <4>2, <4>3, <4>4 DEF AgesType
    <3> QED BY <3>1, <3>2
  <2>2. CASE ~MailFails
    BY <2>2 DEF World, Ingest, PollSucceeds, PollFails, EventFails, OwnEventEnds,
                history, AgesType
  <2> QED BY <2>1, <2>2
<1>4. BoundsType'
  <2>1. CASE EventFails
    BY <2>1 DEF EventFails, BoundsType
  <2>2. CASE ~EventFails
    <3>1. UNCHANGED bounds
      BY <2>2 DEF World, Ingest, PollSucceeds, PollFails, MailFails, OwnEventEnds
    <3> QED BY <3>1 DEF bounds, BoundsType
  <2> QED BY <2>1, <2>2
<1> QED BY <1>1, <1>2, <1>3, <1>4

LEMMA TickTypes ==
  ASSUME TypeOK, Tick
  PROVE  TypeOK'
<1> USE ConstantFacts DEF TypeOK
<1>1. MetricsType'
  BY DEF Tick, MetricsType, Older
<1>2. CheckType'
  BY DEF Tick, CheckType, Ok
<1>3. AlertType'
  <2>1. \A r \in Rules : /\ Older(lastFired[r], Cooldown) \in 0..Cooldown
                         /\ Older(alerted[r], Cooldown) \in 0..Cooldown
    BY OlderFacts DEF AlertType
  <2> QED BY <2>1 DEF Tick, AlertType
<1>4. AgesType' /\ BoundsType'
  BY DEF Tick, AgesType, BoundsType, bounds
<1> QED BY <1>1, <1>2, <1>3, <1>4

\* The samples and the ages of one more check.
LEMMA SpikeTypes ==
  ASSUME TypeOK, JudgeSpike
  PROVE  /\ samples' \in Seq(0..MaxFailed) /\ Len(samples') <= Window + 1
         /\ AgesType'
<1>1. Append(samples, mailsFailed) \in Seq(0..MaxFailed)
  BY DEF TypeOK, CheckType, MetricsType
<1>2. samples' = Recent(Append(samples, mailsFailed))
  BY DEF JudgeSpike
<1>3. samples' \in Seq(0..MaxFailed) /\ Len(samples') <= Window + 1
  BY <1>1, <1>2, RecentFacts
<1>4. Window + 1 \in Nat
  BY ConstantFacts
<1>5. \A i \in DOMAIN failedAges : Older(failedAges[i], Window + 1) \in 0..(Window + 1)
  BY <1>4, OlderFacts DEF TypeOK, AgesType
<1>6. failedAges' = [i \in DOMAIN failedAges |-> Older(failedAges[i], Window + 1)]
  BY DEF JudgeSpike
<1>7. DOMAIN failedAges = 1..Len(failedAges) /\ Len(failedAges) \in Nat
  BY DEF TypeOK, AgesType
<1>8. failedAges' \in Seq(0..(Window + 1)) /\ Len(failedAges') = Len(failedAges)
  BY <1>5, <1>6, <1>7
<1>9. mailsFailed' = mailsFailed
  BY DEF JudgeSpike, Judge
<1> QED BY <1>3, <1>8, <1>9 DEF TypeOK, AgesType

LEMMA JudgeTypes ==
  ASSUME TypeOK, NEW rule \in Rules, NEW bad, Judge(rule, bad)
  PROVE  /\ at' \in 0..5 /\ stage' \in {"judge", "lookup", "send", "mark"}
         /\ verdict' \in [Rules -> {"ok", "firing"}]
         /\ states' \in [Rules -> {"ok", "firing"}]
         /\ AlertType' /\ BoundsType'
<1>1. at' \in 0..5 /\ stage' \in {"judge", "lookup", "send", "mark"}
  BY DEF Judge, On, NextRule, TypeOK, CheckType
<1>2. verdict' \in [Rules -> {"ok", "firing"}] /\ states' = states
  BY DEF Judge, TypeOK, CheckType
<1>3. AlertType' /\ BoundsType'
  BY DEF Judge, TypeOK, AlertType, BoundsType, bounds
<1> QED BY <1>1, <1>2, <1>3 DEF TypeOK, CheckType

LEMMA CheckTypes ==
  ASSUME TypeOK, Check \/ CheckFails
  PROVE  TypeOK'
<1> USE ConstantFacts DEF TypeOK
<1>1. CASE JudgeSilence \/ JudgePoll \/ JudgeWebhook
  <2>0. {"silence", "poll_failures", "webhook_dead"} \subseteq Rules
    BY DEF Rules, Order
  <2>1. \E rule \in Rules : \E bad \in {Silent, Failing, newDead} : Judge(rule, bad)
    BY <1>1, <2>0 DEF JudgeSilence, JudgePoll, JudgeWebhook
  <2>2. PICK rule \in Rules, bad \in {Silent, Failing, newDead} : Judge(rule, bad)
    BY <2>1
  <2>3. MetricsType' /\ AgesType'
    BY <1>1, <2>2 DEF JudgeSilence, JudgePoll, JudgeWebhook, Judge, MetricsType, AgesType
  <2>4. samples' = samples
    BY <1>1 DEF JudgeSilence, JudgePoll, JudgeWebhook
  <2> QED BY <2>2, <2>3, <2>4, JudgeTypes DEF CheckType
<1>2. CASE JudgeSpike
  <2>0. "failed_spike" \in Rules
    BY DEF Rules, Order
  <2>1. \E bad : Judge("failed_spike", bad)
    BY <1>2 DEF JudgeSpike
  <2>2. PICK bad : Judge("failed_spike", bad)
    BY <2>1
  <2>3. MetricsType'
    BY <1>2, <2>2 DEF JudgeSpike, Judge, MetricsType
  <2> QED BY <1>2, <2>0, <2>2, <2>3, JudgeTypes, SpikeTypes DEF CheckType
<1>3. CASE JudgeSilenceFails \/ Publish
  <2> USE <1>3 DEF JudgeSilenceFails, Publish
  <2>1. UNCHANGED <<metrics, lastFired, history>>
    OBVIOUS
  <2>2. MetricsType' /\ AlertType' /\ AgesType'
    BY <2>1 DEF metrics, history, MetricsType, AlertType, AgesType
  <2>3. CheckType'
    BY DEF On, NextRule, CheckType
  <2>4. BoundsType'
    BY DEF bounds, Fault, BoundsType
  <2> QED BY <2>2, <2>3, <2>4
<1>4. ASSUME NEW r \in Rules,
             Lookup(r) \/ LookupFails(r) \/ Send(r) \/ Mark(r) \/ MarkFails(r)
      PROVE  TypeOK'
  <2> USE <1>4 DEF Lookup, LookupFails, Send, Mark, MarkFails
  <2>1. MetricsType'
    BY DEF metrics, MetricsType
  <2>2. CheckType'
    BY DEF On, NextRule, CheckType
  <2>3. AlertType'
    BY DEF history, AlertType
  <2>4. AgesType'
    BY DEF metrics, history, AgesType
  <2>5. BoundsType'
    BY DEF bounds, Fault, BoundsType
  <2> QED BY <2>1, <2>2, <2>3, <2>4, <2>5
<1> QED BY <1>1, <1>2, <1>3, <1>4 DEF Check, CheckFails, Rule

LEMMA CrashTypes ==
  ASSUME TypeOK, Crash
  PROVE  TypeOK'
<1> USE ConstantFacts DEF TypeOK, Crash
<1>1. MetricsType'
  <2>1. newDead' \in BOOLEAN
    OBVIOUS
  <2>2. 0 \in 0..PollLimit /\ 0 \in 0..MaxFailed /\ 0 \in Nat
    BY DEF PollLimit
  <2> QED BY <2>1, <2>2 DEF MetricsType
<1>2. CheckType'
  BY DEF CheckType, Ok
<1>3. AlertType' /\ AgesType' /\ BoundsType'
  BY DEF AlertType, AgesType, BoundsType
<1> QED BY <1>1, <1>2, <1>3

LEMMA TypeStep ==
  ASSUME TypeOK, [Next]_vars
  PROVE  TypeOK'
<1>1. CASE UNCHANGED vars
  BY <1>1 DEF vars, metrics, check, history, bounds, TypeOK, MetricsType, CheckType,
              AlertType, AgesType, BoundsType
<1> QED BY <1>1, WorldTypes, TickTypes, CheckTypes, CrashTypes DEF Next
-----------------------------------------------------------------------------
(* The alerts.                                                             *)

Alerting == MarkFollowsAlert /\ StageIsDue /\ StageIsJudge /\ VerdictIsAlerted /\ FiringIsAlerted

\* Nothing that the metrics do disturbs the alerts.
LEMMA QuietStep ==
  ASSUME Alerting,
         UNCHANGED <<at, stage, verdict, states, lastFired, alerted, lost, unknown>>
  PROVE  Alerting'
BY DEF Alerting, MarkFollowsAlert, StageIsDue, StageIsJudge, VerdictIsAlerted,
       FiringIsAlerted, On, Settled

LEMMA TickStep ==
  ASSUME TypeOK, Alerting, Tick
  PROVE  Alerting'
<1>1. MarkFollowsAlert'
  <2> SUFFICES ASSUME NEW r \in Rules
               PROVE  /\ alerted'[r] <= lastFired'[r]
                      /\ r \notin lost' => alerted'[r] = lastFired'[r]
    BY DEF MarkFollowsAlert
  <2>1. /\ alerted'[r] = Older(alerted[r], Cooldown)
        /\ lastFired'[r] = Older(lastFired[r], Cooldown)
        /\ lost' = lost
    BY DEF Tick
  <2>2. /\ alerted[r] <= lastFired[r]
        /\ r \notin lost => alerted[r] = lastFired[r]
    BY DEF Alerting, MarkFollowsAlert
  <2>3. alerted[r] \in 0..Cooldown /\ lastFired[r] \in 0..Cooldown /\ Cooldown \in Nat
    BY ConstantFacts DEF TypeOK, AlertType
  <2> QED BY <2>1, <2>2, <2>3 DEF Older
<1>2. StageIsDue' /\ StageIsJudge'
  BY DEF Tick, Alerting, StageIsDue, StageIsJudge, On
<1>3. VerdictIsAlerted'
  <2>1. \A i \in 1..4 : verdict'[Order[i]] = "ok"
    BY OrderFacts DEF Tick, Ok
  <2> QED BY <2>1 DEF VerdictIsAlerted
<1>4. FiringIsAlerted'
  BY DEF Tick, FiringIsAlerted
<1> QED BY <1>1, <1>2, <1>3, <1>4 DEF Alerting

\* Judging the rule whose turn it is: it goes on to its lookup or is ok.
LEMMA JudgeStep ==
  ASSUME TypeOK, Alerting, NEW rule \in Rules, NEW bad, Judge(rule, bad)
  PROVE  Alerting'
<1>1. /\ at \in 1..4 /\ Order[at] = rule /\ stage = "judge"
      /\ UNCHANGED <<states, lastFired, alerted, lost, unknown>>
  BY DEF Judge, On
<1>2. MarkFollowsAlert'
  BY <1>1 DEF Alerting, MarkFollowsAlert
<1>3. stage' \in {"judge", "lookup"} /\ at' \in {at, at + 1} /\ at' \in 1..5
  BY <1>1 DEF Judge, NextRule
<1>4. StageIsDue'
  BY <1>3 DEF StageIsDue, On
<1>5. StageIsJudge'
  BY <1>1 DEF Judge, NextRule, StageIsJudge
<1>6. VerdictIsAlerted'
  <2> SUFFICES ASSUME NEW i \in 1..4, verdict'[Order[i]] = "firing"
               PROVE  /\ i < at' \/ (i = at' /\ stage' # "judge")
                      /\ Settled(i)' => alerted'[Order[i]] < Cooldown \/ Order[i] \in unknown'
    BY DEF VerdictIsAlerted
  <2>1. CASE i = at
    <3>1. at' = at /\ stage' = "lookup"
      <4>1. verdict[rule] # "firing"
        BY <1>1, <2>1 DEF Alerting, VerdictIsAlerted
      <4> QED BY <4>1, <1>1, <2>1 DEF Judge, NextRule
    <3> QED BY <3>1, <2>1, <1>1 DEF Settled
  <2>2. CASE i # at
    <3>1. Order[i] # rule
      BY <1>1, <2>2, OrderFacts
    <3>2. verdict[Order[i]] = "firing"
      BY <3>1, OrderFacts DEF Judge, TypeOK, CheckType
    <3>3. i < at /\ (Settled(i) => alerted[Order[i]] < Cooldown \/ Order[i] \in unknown)
      BY <3>2, <2>2, <1>1 DEF Alerting, VerdictIsAlerted
    <3>4. Settled(i) /\ i < at'
      BY <3>3, <1>1, <1>3 DEF Settled
    <3> QED BY <3>3, <3>4, <1>1
  <2> QED BY <2>1, <2>2
<1>7. FiringIsAlerted'
  BY <1>3 DEF FiringIsAlerted
<1> QED BY <1>2, <1>4, <1>5, <1>6, <1>7 DEF Alerting

\* Going on to the next rule from a rule that is settled or ok.
LEMMA NextRuleStep ==
  ASSUME TypeOK, Alerting, at \in 1..4, NextRule, UNCHANGED <<verdict, states>>,
         MarkFollowsAlert', unknown \subseteq unknown', UNCHANGED alerted,
         verdict[Order[at]] = "firing" =>
           alerted[Order[at]] < Cooldown \/ Order[at] \in unknown'
  PROVE  Alerting'
<1>1. at' = at + 1 /\ stage' = "judge" /\ at' \in 2..5
  BY DEF NextRule
<1>2. StageIsDue' /\ StageIsJudge' /\ FiringIsAlerted'
  BY <1>1 DEF StageIsDue, StageIsJudge, FiringIsAlerted, On
<1>3. VerdictIsAlerted'
  <2> SUFFICES ASSUME NEW i \in 1..4, verdict[Order[i]] = "firing"
               PROVE  /\ i < at'
                      /\ alerted[Order[i]] < Cooldown \/ Order[i] \in unknown'
    BY <1>1 DEF VerdictIsAlerted
  <2>1. i < at \/ i = at
    BY DEF Alerting, VerdictIsAlerted
  <2>2. i < at => alerted[Order[i]] < Cooldown \/ Order[i] \in unknown
    BY DEF Alerting, VerdictIsAlerted, Settled
  <2> QED BY <2>1, <2>2, <1>1
<1> QED BY <1>2, <1>3 DEF Alerting

LEMMA LookupStep ==
  ASSUME TypeOK, Alerting, NEW r \in Rules, Lookup(r) \/ LookupFails(r)
  PROVE  Alerting'
<1>1. /\ at \in 1..4 /\ Order[at] = r /\ stage = "lookup"
      /\ UNCHANGED <<verdict, states, lastFired, alerted, lost>>
      /\ unknown \subseteq unknown'
  BY DEF Lookup, LookupFails, On, history
<1>2. MarkFollowsAlert'
  BY <1>1 DEF Alerting, MarkFollowsAlert
<1>3. CASE LookupFails(r)
  <2>1. r \in unknown' /\ NextRule
    BY <1>3 DEF LookupFails
  <2> QED BY <1>1, <1>2, <2>1, NextRuleStep
<1>4. CASE Lookup(r) /\ lastFired[r] < Cooldown
  <2>1. NextRule
    <3>1. lastFired[r] # Cooldown
      BY <1>4, ConstantFacts
    <3> QED BY <1>4, <3>1 DEF Lookup
  <2>2. alerted[r] < Cooldown
    <3>1. alerted[r] <= lastFired[r]
      BY DEF Alerting, MarkFollowsAlert
    <3>2. alerted[r] \in 0..Cooldown /\ lastFired[r] \in 0..Cooldown /\ Cooldown \in Nat
      BY ConstantFacts DEF TypeOK, AlertType
    <3> QED BY <1>4, <3>1, <3>2
  <2> QED BY <1>1, <1>2, <2>1, <2>2, NextRuleStep
<1>5. CASE Lookup(r) /\ ~(lastFired[r] < Cooldown)
  <2>1. lastFired[r] = Cooldown /\ stage' = "send" /\ at' = at /\ unknown' = unknown
    BY <1>5 DEF Lookup, history
  <2>2. StageIsDue' /\ StageIsJudge' /\ FiringIsAlerted'
    BY <2>1, <1>1 DEF StageIsDue, StageIsJudge, FiringIsAlerted, On
  <2>3. VerdictIsAlerted'
    BY <2>1, <1>1 DEF Alerting, VerdictIsAlerted, Settled
  <2> QED BY <1>2, <2>2, <2>3 DEF Alerting
<1> QED BY <1>3, <1>4, <1>5

LEMMA SendStep ==
  ASSUME TypeOK, Alerting, NEW r \in Rules, Send(r)
  PROVE  Alerting'
<1>1. /\ at \in 1..4 /\ Order[at] = r /\ stage = "send" /\ stage' = "mark"
      /\ UNCHANGED <<at, verdict, states, lastFired, unknown>>
      /\ alerted' = [alerted EXCEPT ![r] = 0] /\ lost' = lost \cup {r}
  BY DEF Send, On
<1>2. /\ alerted \in [Rules -> 0..Cooldown] /\ lastFired \in [Rules -> 0..Cooldown]
      /\ Cooldown \in Nat \ {0}
  BY ConstantFacts DEF TypeOK, AlertType
<1>3. alerted'[r] = 0 /\ \A q \in Rules : q # r => alerted'[q] = alerted[q]
  BY <1>1, <1>2
<1>4. MarkFollowsAlert'
  <2>1. lastFired[r] \in Nat
    BY <1>2
  <2> QED BY <1>1, <1>3, <2>1 DEF Alerting, MarkFollowsAlert
<1>5. StageIsDue' /\ StageIsJudge' /\ FiringIsAlerted'
  BY <1>1, <1>3 DEF StageIsDue, StageIsJudge, FiringIsAlerted, On
<1>6. VerdictIsAlerted'
  <2> SUFFICES ASSUME NEW i \in 1..4, verdict[Order[i]] = "firing"
               PROVE  /\ i < at \/ i = at
                      /\ alerted'[Order[i]] < Cooldown \/ Order[i] \in unknown
    BY <1>1 DEF VerdictIsAlerted
  <2>1. /\ i < at \/ i = at
        /\ i < at => alerted[Order[i]] < Cooldown \/ Order[i] \in unknown
    BY <1>1 DEF Alerting, VerdictIsAlerted, Settled
  <2>2. Order[i] \in Rules
    BY OrderFacts
  <2>3. CASE Order[i] = r
    BY <2>1, <2>3, <1>2, <1>3
  <2>4. CASE Order[i] # r
    <3>1. i # at
      BY <1>1, <2>4
    <3> QED BY <3>1, <2>1, <2>2, <2>4, <1>3
  <2> QED BY <2>3, <2>4
<1> QED BY <1>4, <1>5, <1>6 DEF Alerting

LEMMA MarkStep ==
  ASSUME TypeOK, Alerting, NEW r \in Rules, Mark(r) \/ MarkFails(r)
  PROVE  Alerting'
<1>1. /\ at \in 1..4 /\ Order[at] = r /\ stage = "mark" /\ NextRule
      /\ UNCHANGED <<verdict, states, alerted, unknown>>
  BY DEF Mark, MarkFails, On, history
<1>2. MarkFollowsAlert'
  <2>1. CASE Mark(r)
    <3>1. alerted[r] = 0
      BY <1>1 DEF Alerting, StageIsDue, On
    <3>2. lastFired' = [lastFired EXCEPT ![r] = 0] /\ lost' = lost \ {r}
      BY <2>1 DEF Mark
    <3>3. lastFired'[r] = 0 /\ \A q \in Rules : q # r => lastFired'[q] = lastFired[q]
      BY <3>2 DEF TypeOK, AlertType
    <3> QED BY <1>1, <3>1, <3>2, <3>3 DEF Alerting, MarkFollowsAlert
  <2>2. CASE MarkFails(r)
    BY <2>2 DEF MarkFails, history, Alerting, MarkFollowsAlert
  <2> QED BY <2>1, <2>2
<1>3. verdict[Order[at]] = "firing" =>
        alerted[Order[at]] < Cooldown \/ Order[at] \in unknown'
  <2>1. alerted[r] = 0 /\ Cooldown \in Nat \ {0}
    BY <1>1, ConstantFacts DEF Alerting, StageIsDue, On
  <2> QED BY <2>1, <1>1
<1> QED BY <1>1, <1>2, <1>3, NextRuleStep

LEMMA PublishStep ==
  ASSUME TypeOK, Alerting, Publish
  PROVE  Alerting'
<1>1. /\ at = 5 /\ at' = 0 /\ stage = "judge" /\ states' = verdict
      /\ UNCHANGED <<stage, verdict, lastFired, alerted, lost, unknown>>
  BY DEF Publish, history, Alerting, StageIsJudge
<1>2. MarkFollowsAlert' /\ StageIsDue' /\ StageIsJudge' /\ VerdictIsAlerted'
  BY <1>1 DEF Alerting, MarkFollowsAlert, StageIsDue, StageIsJudge, VerdictIsAlerted, On
<1>3. FiringIsAlerted'
  <2> SUFFICES ASSUME NEW r \in Rules, verdict[r] = "firing"
               PROVE  alerted[r] < Cooldown \/ r \in unknown
    BY <1>1 DEF FiringIsAlerted
  <2>1. PICK i \in 1..4 : r = Order[i]
    BY OrderFacts
  <2>2. i < at
    BY <1>1
  <2> QED BY <1>1, <2>1, <2>2 DEF Alerting, VerdictIsAlerted, Settled
<1> QED BY <1>2, <1>3 DEF Alerting

LEMMA CrashStep ==
  ASSUME TypeOK, Alerting, Crash
  PROVE  Alerting'
<1>1. /\ at' = 0 /\ stage' = "judge" /\ states' = Ok
      /\ UNCHANGED <<lastFired, alerted, lost, unknown>>
  BY DEF Crash
<1>2. MarkFollowsAlert' /\ StageIsDue' /\ StageIsJudge' /\ VerdictIsAlerted'
  BY <1>1 DEF Alerting, MarkFollowsAlert, StageIsDue, StageIsJudge, VerdictIsAlerted, On
<1>3. FiringIsAlerted'
  BY <1>1 DEF FiringIsAlerted, Ok
<1> QED BY <1>2, <1>3 DEF Alerting
-----------------------------------------------------------------------------
(* What failed_spike counts.                                               *)

\* The failures before the first check, which no sample tells apart.
Base == mailsFailed - Len(failedAges)

\* The samples tell the age of every failure: sample j of n was taken before
\* failure i exactly when at most n - j samples were taken since.
SamplesTellAges ==
  \A j \in 1..Len(samples) : \A i \in 1..Len(failedAges) :
    failedAges[i] <= Len(samples) - j <=> samples[j] < Base + i

\* The samples start at the first check until the window is full.
SamplesStart ==
  /\ samples = <<>> => failedAges = <<>>
  /\ samples # <<>> /\ Len(samples) <= Window => samples[1] = Base
  /\ \A j \in 1..Len(samples) : Base <= samples[j] /\ samples[j] <= mailsFailed

\* The verdict compares the oldest sample with the newest.
SpikeIsJudged ==
  at > 3 \/ (at = 3 /\ stage # "judge") =>
    /\ samples # <<>>
    /\ verdict["failed_spike"] = "firing" <=> samples[Len(samples)] - samples[1] >= Spike

SpikeInv == SamplesTellAges /\ SamplesStart /\ SpikeIsJudged

\* Appending to a full window drops its oldest sample.
LEMMA RecentWindow ==
  ASSUME NEW s \in Seq(0..MaxFailed), Len(s) <= Window + 1, NEW e \in 0..MaxFailed
  PROVE  LET w == Recent(Append(s, e))
             drop == IF Len(s) = Window + 1 THEN 1 ELSE 0
         IN  /\ w \in Seq(0..MaxFailed)
             /\ Len(w) = Len(s) + 1 - drop /\ Len(w) \in Nat /\ Len(w) >= 1
             /\ w[Len(w)] = e
             /\ \A j \in 1..Len(w) : j < Len(w) => w[j] = s[j + drop]
<1> DEFINE t == Append(s, e)
<1>1. Window \in Nat \ {0} /\ Len(s) \in Nat
  BY ConstantFacts
<1>2. /\ t \in Seq(0..MaxFailed) /\ Len(t) = Len(s) + 1 /\ t[Len(s) + 1] = e
      /\ \A j \in 1..Len(s) : t[j] = s[j]
  BY <1>1, AppendProperties
<1>3. CASE Len(s) = Window + 1
  <2>1. Recent(t) = SubSeq(t, 2, Window + 2)
    BY <1>1, <1>2, <1>3 DEF Recent, Last
  <2>2. \A j \in 2..(Window + 2) : t[j] \in 0..MaxFailed
    <3> SUFFICES ASSUME NEW j \in 2..(Window + 2) PROVE t[j] \in 0..MaxFailed
      OBVIOUS
    <3> HIDE DEF t
    <3>1. j \in 1..Len(t)
      BY <1>1, <1>2, <1>3
    <3> QED
      BY <1>2, <3>1, ElementOfSeq
  <2>3. /\ SubSeq(t, 2, Window + 2) \in Seq(0..MaxFailed)
        /\ Len(SubSeq(t, 2, Window + 2)) = Window + 1
        /\ \A j \in 1..(Window + 1) : SubSeq(t, 2, Window + 2)[j] = t[j + 1]
    <3>1. /\ SubSeq(t, 2, Window + 2) \in Seq(0..MaxFailed)
          /\ Len(SubSeq(t, 2, Window + 2)) =
               IF 2 <= Window + 2 THEN (Window + 2) - 2 + 1 ELSE 0
          /\ \A j \in 1 .. (Window + 2) - 2 + 1 :
               SubSeq(t, 2, Window + 2)[j] = t[2 + j - 1]
      <4> HIDE DEF t
      <4>1. 2 \in Int /\ Window + 2 \in Int
        BY <1>1
      <4> QED
        BY <2>2, <4>1, SubSeqProperties
    <3> HIDE DEF t
    <3>2. 2 <= Window + 2 /\ (Window + 2) - 2 + 1 = Window + 1
      BY <1>1
    <3>3. ASSUME NEW j \in 1..(Window + 1)
          PROVE  SubSeq(t, 2, Window + 2)[j] = t[j + 1]
      <4>1. 2 + j - 1 = j + 1
        OBVIOUS
      <4> QED
        BY <3>1, <3>2, <3>3, <4>1
    <3> QED
      BY <3>1, <3>2, <3>3
  <2> QED
    BY <1>1, <1>2, <1>3, <2>1, <2>3
<1>4. CASE Len(s) # Window + 1
  <2>1. Recent(t) = t
    BY <1>1, <1>2, <1>4 DEF Recent, Last
  <2> QED
    BY <1>1, <1>2, <1>4, <2>1
<1> QED
  BY <1>3, <1>4

LEMMA SpikeFacts ==
  ASSUME TypeOK
  PROVE  /\ Len(samples) \in Nat /\ Len(samples) <= Window + 1 /\ Len(failedAges) \in Nat
         /\ Window \in Nat \ {0} /\ Spike \in Nat \ {0} /\ mailsFailed \in 0..MaxFailed
         /\ MaxFailed \in Nat /\ Base \in Nat /\ mailsFailed = Base + Len(failedAges)
         /\ \A j \in 1..Len(samples) : samples[j] \in 0..MaxFailed
         /\ \A i \in 1..Len(failedAges) : failedAges[i] \in 0..(Window + 1)
         /\ samples = <<>> <=> Len(samples) = 0
<1>1. /\ Len(samples) \in Nat /\ Len(failedAges) \in Nat
      /\ \A j \in 1..Len(samples) : samples[j] \in 0..MaxFailed
      /\ \A i \in 1..Len(failedAges) : failedAges[i] \in 0..(Window + 1)
      /\ samples = <<>> <=> Len(samples) = 0
  BY ElementOfSeq, LenProperties, EmptySeq DEF TypeOK, CheckType, AgesType
<1>2. mailsFailed \in 0..MaxFailed /\ Len(samples) <= Window + 1 /\ Len(failedAges) <= mailsFailed
  BY DEF TypeOK, CheckType, AgesType, MetricsType
<1> QED
  BY <1>1, <1>2, ConstantFacts DEF Base

\* Steps that neither sample nor fail a mail.
LEMMA SpikeKept ==
  ASSUME TypeOK, SpikeInv, UNCHANGED <<samples, mailsFailed, failedAges>>,
         at' > 3 \/ (at' = 3 /\ stage' # "judge") =>
           /\ at > 3 \/ (at = 3 /\ stage # "judge")
           /\ verdict'["failed_spike"] = verdict["failed_spike"]
  PROVE  SpikeInv'
<1>1. Base' = Base
  BY DEF Base
<1> QED
  BY <1>1 DEF SpikeInv, SamplesTellAges, SamplesStart, SpikeIsJudged

LEMMA MailFailsSpike ==
  ASSUME TypeOK, SpikeInv, MailFails
  PROVE  SpikeInv'
<1>1. UNCHANGED <<samples, at, stage, verdict>> /\ mailsFailed' = mailsFailed + 1
  BY DEF MailFails, check
<1>2. CASE samples = <<>>
  <2>1. failedAges' = <<>> /\ Len(samples) = 0 /\ failedAges = <<>>
    BY <1>2, SpikeFacts DEF MailFails, SpikeInv, SamplesStart
  <2> QED
    BY <1>1, <1>2, <2>1 DEF SpikeInv, SamplesTellAges, SamplesStart, SpikeIsJudged
<1>3. CASE samples # <<>>
  <2>1. /\ Len(failedAges') = Len(failedAges) + 1
        /\ failedAges'[Len(failedAges) + 1] = 0
        /\ \A i \in 1..Len(failedAges) : failedAges'[i] = failedAges[i]
    <3>1. failedAges' = Append(failedAges, 0) /\ failedAges \in Seq(0..(Window + 1))
          /\ 0 \in 0..(Window + 1)
      BY <1>3, ConstantFacts DEF MailFails, TypeOK, AgesType
    <3> QED
      BY <3>1, AppendProperties
  <2>2. Base' = Base
    BY <1>1, <2>1, SpikeFacts DEF Base
  <2>3. SamplesStart'
    BY <1>1, <1>3, <2>2, SpikeFacts DEF SpikeInv, SamplesStart
  <2>4. SamplesTellAges'
    <3> SUFFICES ASSUME NEW j \in 1..Len(samples), NEW i \in 1..Len(failedAges')
                 PROVE  failedAges'[i] <= Len(samples) - j <=> samples[j] < Base + i
      BY <1>1, <2>2 DEF SamplesTellAges
    <3>1. CASE i = Len(failedAges) + 1
      <4>1. samples[j] <= mailsFailed /\ samples[j] \in Nat /\ Len(samples) \in Nat
        BY SpikeFacts DEF SpikeInv, SamplesStart
      <4> QED
        BY <2>1, <3>1, <4>1, SpikeFacts
    <3>2. CASE i # Len(failedAges) + 1
      <4>1. i \in 1..Len(failedAges)
        BY <2>1, <3>2, SpikeFacts
      <4> QED
        BY <2>1, <4>1 DEF SpikeInv, SamplesTellAges
    <3> QED
      BY <3>1, <3>2
  <2> QED
    BY <1>1, <2>3, <2>4 DEF SpikeInv, SpikeIsJudged
<1> QED
  BY <1>2, <1>3

LEMMA JudgeSpikeSamples ==
  ASSUME TypeOK, SpikeInv, JudgeSpike
  PROVE  SamplesTellAges' /\ SamplesStart'
<1> DEFINE drop == IF Len(samples) = Window + 1 THEN 1 ELSE 0
<1>1. /\ UNCHANGED mailsFailed /\ samples' = Recent(Append(samples, mailsFailed))
      /\ failedAges' = [i \in DOMAIN failedAges |-> Older(failedAges[i], Window + 1)]
  BY DEF JudgeSpike, Judge
<1>2. /\ Len(samples') = Len(samples) + 1 - drop /\ Len(samples') \in Nat
      /\ Len(samples') >= 1 /\ samples'[Len(samples')] = mailsFailed
      /\ \A j \in 1..Len(samples') : j < Len(samples') => samples'[j] = samples[j + drop]
      /\ samples' \in Seq(0..MaxFailed)
  BY <1>1, RecentWindow DEF TypeOK, CheckType, MetricsType
<1>3. /\ Len(failedAges') = Len(failedAges)
      /\ \A i \in 1..Len(failedAges) : failedAges'[i] = Older(failedAges[i], Window + 1)
  <2>1. failedAges \in Seq(0..(Window + 1)) /\ DOMAIN failedAges = 1..Len(failedAges)
        /\ Len(failedAges) \in Nat
    BY LenProperties DEF TypeOK, AgesType
  <2> QED
    BY <1>1, <2>1
<1>4. Base' = Base
  BY <1>1, <1>3 DEF Base
<1>5. SamplesStart'
  <2>1. \A j \in 1..Len(samples') : Base <= samples'[j] /\ samples'[j] <= mailsFailed
    <3> SUFFICES ASSUME NEW j \in 1..Len(samples')
                 PROVE  Base <= samples'[j] /\ samples'[j] <= mailsFailed
      OBVIOUS
    <3>1. CASE j = Len(samples')
      BY <1>2, <3>1, SpikeFacts
    <3>2. CASE j # Len(samples')
      <4>1. drop \in {0, 1} /\ Len(samples') = Len(samples) + 1 - drop
        BY <1>2
      <4> HIDE DEF drop
      <4>2. j \in Nat /\ j >= 1 /\ j < Len(samples') /\ Len(samples) \in Nat
        BY <1>2, <3>2, SpikeFacts
      <4>3. j < Len(samples') /\ j + drop \in 1..Len(samples)
        BY <4>1, <4>2
      <4>4. samples'[j] = samples[j + drop]
        BY <1>2, <4>3
      <4>5. Base <= samples[j + drop] /\ samples[j + drop] <= mailsFailed
        BY <4>3 DEF SpikeInv, SamplesStart
      <4> QED
        BY <4>4, <4>5
    <3> QED
      BY <3>1, <3>2
  <2>2. samples' # <<>>
    BY <1>2, EmptySeq
  <2>3. ASSUME Len(samples') <= Window
        PROVE  samples'[1] = Base
    <3>1. drop = 0
      BY <1>2, <2>3, SpikeFacts
    <3>2. CASE samples = <<>>
      <4>1. failedAges = <<>> /\ Len(samples) = 0
        BY <3>2, SpikeFacts DEF SpikeInv, SamplesStart
      <4>2. Len(samples') = 1 /\ Len(failedAges) = 0
        BY <1>2, <3>1, <4>1
      <4>3. mailsFailed = Base
        BY <4>2, <1>3, <4>1, SpikeFacts
      <4> QED
        BY <1>2, <4>2, <4>3
    <3>3. CASE samples # <<>>
      <4>1. Len(samples) <= Window /\ 1 < Len(samples') /\ 1 \in 1..Len(samples')
        BY <1>2, <2>3, <3>1, <3>3, SpikeFacts
      <4>2. samples'[1] = samples[1]
        BY <1>2, <3>1, <4>1
      <4> QED
        BY <3>3, <4>1, <4>2 DEF SpikeInv, SamplesStart
    <3> QED
      BY <3>2, <3>3
  <2> QED
    BY <1>1, <1>4, <2>1, <2>2, <2>3 DEF SamplesStart
<1>6. SamplesTellAges'
  <2> SUFFICES ASSUME NEW j \in 1..Len(samples'), NEW i \in 1..Len(failedAges)
               PROVE  failedAges'[i] <= Len(samples') - j <=> samples'[j] < Base + i
    BY <1>3, <1>4 DEF SamplesTellAges
  <2>1. /\ failedAges[i] \in 0..(Window + 1) /\ Window \in Nat /\ Base \in Nat
        /\ mailsFailed = Base + Len(failedAges) /\ Len(failedAges) \in Nat
        /\ Len(samples) \in Nat /\ Len(samples) <= Window + 1
    BY SpikeFacts
  <2>2. failedAges'[i] = IF failedAges[i] < Window + 1 THEN failedAges[i] + 1 ELSE Window + 1
    BY <1>3 DEF Older
  <2>3. CASE j = Len(samples')
    <3>1. ~(failedAges'[i] <= 0)
      BY <2>1, <2>2
    <3>2. ~(mailsFailed < Base + i)
      BY <2>1
    <3> QED
      BY <1>2, <2>3, <3>1, <3>2
  <2>4. CASE j # Len(samples')
    <3>1. j < Len(samples') /\ j + drop \in 1..Len(samples) /\ drop \in {0, 1}
      BY <1>2, <2>1, <2>4
    <3>2. failedAges[i] <= Len(samples) - (j + drop) <=> samples[j + drop] < Base + i
      BY <3>1 DEF SpikeInv, SamplesTellAges
    <3>3. failedAges'[i] <= Len(samples') - j <=> failedAges[i] <= Len(samples) - (j + drop)
      BY <1>2, <2>1, <2>2, <3>1
    <3> QED
      BY <1>2, <3>1, <3>2, <3>3
  <2> QED
    BY <2>3, <2>4
<1> QED
  BY <1>5, <1>6

LEMMA JudgeSpikeStep ==
  ASSUME TypeOK, Alerting, SpikeInv, JudgeSpike
  PROVE  SpikeInv'
<1>1. at = 3 /\ stage = "judge" /\ Order[3] = "failed_spike" /\ "failed_spike" \in Rules
  <2>1. at = 3 /\ stage = "judge"
    BY DEF JudgeSpike, Judge, On, Order
  <2> QED
    BY <2>1 DEF Order, Rules
<1>2. /\ samples' # <<>> /\ Head(samples') = samples'[1]
      /\ samples'[Len(samples')] = mailsFailed /\ samples' = Recent(Append(samples, mailsFailed))
  <2>1. samples' = Recent(Append(samples, mailsFailed))
    BY DEF JudgeSpike
  <2>2. /\ samples' \in Seq(0..MaxFailed) /\ Len(samples') >= 1
        /\ samples'[Len(samples')] = mailsFailed
    BY <2>1, RecentWindow DEF TypeOK, CheckType, MetricsType
  <2>3. samples' # <<>>
    BY <2>2, EmptySeq
  <2> QED
    BY <2>1, <2>2, <2>3
<1>3. verdict["failed_spike"] # "firing"
  BY <1>1 DEF Alerting, VerdictIsAlerted
<1>4. CASE mailsFailed - Head(samples') >= Spike
  <2>1. /\ verdict' = [verdict EXCEPT !["failed_spike"] = "firing"] \/ verdict' = verdict
        /\ mailsFailed - Head(samples') >= Spike =>
             verdict' = [verdict EXCEPT !["failed_spike"] = "firing"]
    BY <1>2 DEF JudgeSpike, Judge
  <2>2. verdict'["failed_spike"] = "firing"
    BY <1>1, <1>4, <2>1 DEF TypeOK, CheckType
  <2> QED
    BY <1>2, <1>4, <2>2, JudgeSpikeSamples DEF SpikeInv, SpikeIsJudged
<1>5. CASE ~(mailsFailed - Head(samples') >= Spike)
  <2>1. verdict' = verdict
    BY <1>2, <1>5 DEF JudgeSpike, Judge
  <2> QED
    BY <1>2, <1>3, <1>5, <2>1, JudgeSpikeSamples DEF SpikeInv, SpikeIsJudged
<1> QED
  BY <1>4, <1>5

LEMMA SpikeStep ==
  ASSUME TypeOK, Alerting, SpikeInv, [Next]_vars
  PROVE  SpikeInv'
<1>0. /\ Order[1] = "silence" /\ Order[2] = "poll_failures"
      /\ Order[3] = "failed_spike" /\ Order[4] = "webhook_dead"
      /\ Rules = {"silence", "poll_failures", "failed_spike", "webhook_dead"}
  BY DEF Order, Rules
<1>1. CASE UNCHANGED vars
  BY <1>1, SpikeKept DEF vars, metrics, check, history
<1>2. CASE World
  <2>1. CASE MailFails
    BY <2>1, MailFailsSpike
  <2>2. CASE Ingest \/ PollSucceeds \/ PollFails \/ EventFails \/ OwnEventEnds
    <3>1. UNCHANGED <<samples, mailsFailed, failedAges, at, stage, verdict>>
      BY <2>2 DEF Ingest, PollSucceeds, PollFails, EventFails, OwnEventEnds, check, history
    <3> QED
      BY <3>1, SpikeKept
  <2> QED
    BY <1>2, <2>1, <2>2 DEF World
<1>3. CASE Tick \/ Publish
  <2>1. UNCHANGED <<samples, mailsFailed, failedAges>> /\ at' \in {0, 1}
    BY <1>3 DEF Tick, Publish, metrics, history
  <2> QED
    BY <2>1, SpikeKept
<1>4. CASE JudgeSilence \/ JudgePoll \/ JudgeSilenceFails
  <2>1. /\ UNCHANGED <<samples, mailsFailed, failedAges>> /\ at \in {1, 2}
        /\ at' = at \/ (at' = at + 1 /\ stage' = "judge")
    BY <1>0, <1>4
    DEF JudgeSilence, JudgePoll, JudgeSilenceFails, Judge, On, NextRule, metrics, history
  <2>2. ~(at' > 3 \/ (at' = 3 /\ stage' # "judge"))
    BY <2>1
  <2> QED
    BY <2>1, <2>2, SpikeKept
<1>5. CASE JudgeSpike
  BY <1>5, JudgeSpikeStep
<1>6. CASE JudgeWebhook
  <2>1. UNCHANGED <<samples, mailsFailed, failedAges>> /\ at = 4
    BY <1>0, <1>6 DEF JudgeWebhook, Judge, On
  <2>2. verdict' = verdict \/ verdict' = [verdict EXCEPT !["webhook_dead"] = "firing"]
    BY <1>6 DEF JudgeWebhook, Judge
  <2>3. verdict'["failed_spike"] = verdict["failed_spike"]
    BY <1>0, <2>2 DEF TypeOK, CheckType
  <2> QED
    BY <2>1, <2>3, SpikeKept
<1>7. ASSUME NEW r \in Rules,
             Rule(r) \/ LookupFails(r) \/ MarkFails(r)
      PROVE  SpikeInv'
  <2>1. /\ UNCHANGED <<samples, mailsFailed, failedAges, verdict>>
        /\ at \in 1..4 /\ stage # "judge"
        /\ at' = at \/ (at' = at + 1 /\ stage' = "judge")
    BY <1>7 DEF Rule, Lookup, Send, Mark, LookupFails, MarkFails, On, NextRule, metrics, history
  <2>2. at' > 3 \/ (at' = 3 /\ stage' # "judge") => at > 3 \/ (at = 3 /\ stage # "judge")
    BY <2>1
  <2> QED
    BY <2>1, <2>2, SpikeKept
<1>8. CASE Crash
  <2>1. samples' = <<>> /\ failedAges' = <<>> /\ at' = 0
    BY <1>8 DEF Crash
  <2>2. Len(samples') = 0
    BY <2>1, EmptySeq
  <2> QED
    BY <2>1, <2>2 DEF SpikeInv, SamplesTellAges, SamplesStart, SpikeIsJudged
<1> QED
  BY <1>1, <1>2, <1>3, <1>4, <1>5, <1>6, <1>7, <1>8 DEF Next, Check, CheckFails

\* What the samples tell is what the property counts: the failures of the
\* window are those after the oldest sample.
LEMMA SpikeCounts ==
  ASSUME TypeOK, SpikeInv, at = 5
  PROVE  SpikeIsExact
<1> DEFINE n == Len(samples)
           Counted == {i \in DOMAIN failedAges : failedAges[i] \in 1..Window}
           low == samples[1] - Base
<1>1. /\ samples # <<>> /\ n \in Nat /\ n >= 1 /\ n <= Window + 1
      /\ verdict["failed_spike"] = "firing" <=> samples[n] - samples[1] >= Spike
  BY SpikeFacts DEF SpikeInv, SpikeIsJudged
<1>2. /\ Window \in Nat \ {0} /\ Spike \in Nat \ {0} /\ Base \in Nat
      /\ Len(failedAges) \in Nat /\ mailsFailed = Base + Len(failedAges)
      /\ samples[1] \in Nat /\ samples[n] \in Nat
      /\ Base <= samples[1] /\ samples[1] <= mailsFailed
      /\ Base <= samples[n] /\ samples[n] <= mailsFailed
  <2>1. 1 \in 1..n /\ n \in 1..n
    BY <1>1
  <2> QED
    BY <2>1, SpikeFacts DEF SpikeInv, SamplesStart
<1>3. ASSUME NEW i \in 1..Len(failedAges)
      PROVE  failedAges[i] \in 1..Window <=> low < i /\ i <= samples[n] - Base
  <2>1. failedAges[i] \in 0..(Window + 1)
    BY SpikeFacts
  <2>2. failedAges[i] <= n - n <=> samples[n] < Base + i
    BY <1>1 DEF SpikeInv, SamplesTellAges
  <2>3. failedAges[i] <= n - 1 <=> samples[1] < Base + i
    BY <1>1 DEF SpikeInv, SamplesTellAges
  <2>4. failedAges[i] >= 1 <=> i <= samples[n] - Base
    BY <1>1, <1>2, <2>1, <2>2
  <2>5. CASE n = Window + 1
    BY <1>1, <1>2, <2>1, <2>3, <2>4, <2>5
  <2>6. CASE n # Window + 1
    <3>1. samples[1] = Base /\ n <= Window
      BY <1>1, <1>2, <2>6 DEF SpikeInv, SamplesStart
    <3>2. failedAges[i] <= n - 1 /\ low < i
      BY <1>2, <2>3, <3>1
    <3> QED
      BY <1>1, <1>2, <2>1, <2>4, <3>1, <3>2
  <2> QED
    BY <2>5, <2>6
<1>4. Counted = (low + 1)..(samples[n] - Base)
  <2>1. DOMAIN failedAges = 1..Len(failedAges)
    BY DEF TypeOK, AgesType
  <2>2. \A i \in (low + 1)..(samples[n] - Base) :
          i \in 1..Len(failedAges) /\ low < i /\ i <= samples[n] - Base
    BY <1>2
  <2>3. \A i \in 1..Len(failedAges) :
          low < i /\ i <= samples[n] - Base => i \in (low + 1)..(samples[n] - Base)
    BY <1>2
  <2> HIDE DEF low
  <2> QED
    BY <1>3, <2>1, <2>2, <2>3
<1>5. Cardinality(Counted) >= Spike <=> samples[n] - samples[1] >= Spike
  <2> DEFINE a == low + 1
             b == samples[n] - Base
  <2>1. a \in Int /\ b \in Int
    BY <1>2
  <2>2. Cardinality(a..b) = IF a > b THEN 0 ELSE b - a + 1
    <3> HIDE DEF a, b
    <3> QED
      BY <2>1, FS_Interval
  <2>3. b - a + 1 = samples[n] - samples[1] /\ (a > b <=> samples[n] - samples[1] <= 0)
    BY <1>2
  <2>4. Cardinality(Counted) = Cardinality(a..b)
    BY <1>4
  <2> QED
    BY <1>2, <2>2, <2>3, <2>4
<1> QED
  BY <1>1, <1>5 DEF SpikeIsExact

-----------------------------------------------------------------------------
(* The theorems.                                                           *)

LEMMA AlertingStep ==
  ASSUME TypeOK, Alerting, [Next]_vars
  PROVE  Alerting'
<1>1. CASE UNCHANGED vars \/ World
  <2>1. UNCHANGED <<at, stage, verdict, states, lastFired, alerted, lost, unknown>>
    BY <1>1 DEF vars, World, Ingest, PollSucceeds, PollFails, MailFails, EventFails,
                OwnEventEnds, check, history
  <2> QED BY <2>1, QuietStep
<1>2. CASE JudgeSilence \/ JudgePoll \/ JudgeSpike \/ JudgeWebhook
  <2>1. Rules = {"silence", "poll_failures", "failed_spike", "webhook_dead"}
    BY DEF Rules, Order
  <2>2. \E rule \in Rules : \E bad : Judge(rule, bad)
    BY <1>2, <2>1 DEF JudgeSilence, JudgePoll, JudgeSpike, JudgeWebhook
  <2> QED BY <2>2, JudgeStep
<1>3. CASE JudgeSilenceFails
  <2>1. /\ at \in 1..4 /\ stage = "judge" /\ NextRule
        /\ UNCHANGED <<verdict, states, lastFired, alerted, lost, unknown>>
    BY <1>3 DEF JudgeSilenceFails, On, history
  <2>2. verdict[Order[at]] # "firing"
    BY <2>1 DEF Alerting, VerdictIsAlerted
  <2>3. MarkFollowsAlert'
    BY <2>1 DEF Alerting, MarkFollowsAlert
  <2> QED BY <2>1, <2>2, <2>3, NextRuleStep
<1> QED BY <1>1, <1>2, <1>3, TickStep, LookupStep, SendStep, MarkStep, PublishStep, CrashStep
        DEF Next, Check, CheckFails, Rule

\* The invariant: types, and what ties marks, alerts and verdicts together.
THEOREM Invariance == Spec => []IInv
<1>1. IInv /\ [Next]_vars => IInv'
  BY TypeStep, AlertingStep DEF IInv, Alerting
<1> QED BY <1>1, InitInv, PTL DEF Spec

\* Every variable keeps its type, for any cooldown, window and bounds.
THEOREM TypeCorrect == Spec => []TypeOK
<1>1. IInv => TypeOK
  BY DEF IInv
<1> QED BY <1>1, Invariance, PTL

\* What healthz shows as firing has been alerted within the cooldown, before
\* or after a restart, unless its mark could not be read.
THEOREM NoAlertMissing == Spec => []FiringIsAlerted
<1>1. IInv => FiringIsAlerted
  BY DEF IInv
<1> QED BY <1>1, Invariance, PTL

\* failed_spike fires exactly when as many mails as configured failed in the
\* window and after the first check, for any window and any threshold.
THEOREM SpikeCountsTheWindow == Spec => []SpikeIsExact
<1>1. Init => SpikeInv
  <2> SUFFICES ASSUME Init PROVE SpikeInv
    OBVIOUS
  <2>1. samples = <<>> /\ failedAges = <<>> /\ at = 0 /\ Len(samples) = 0
    BY DEF Init
  <2> QED
    BY <2>1 DEF SpikeInv, SamplesTellAges, SamplesStart, SpikeIsJudged
<1>2. IInv /\ SpikeInv /\ [Next]_vars => SpikeInv'
  BY SpikeStep DEF IInv, Alerting
<1>3. IInv /\ SpikeInv => SpikeIsExact
  <2> SUFFICES ASSUME IInv, SpikeInv PROVE SpikeIsExact
    OBVIOUS
  <2>1. CASE at = 5
    BY <2>1, SpikeCounts DEF IInv
  <2>2. CASE at # 5
    BY <2>2 DEF SpikeIsExact
  <2> QED
    BY <2>1, <2>2
<1> QED BY <1>1, <1>2, <1>3, Invariance, PTL DEF Spec

\* A rule alerts again only after its cooldown or when its mark was lost.
THEOREM CooldownKept == Spec => OncePerCooldown
<1>1. IInv /\ [Next]_vars =>
        [\A r \in Rules : Send(r) => alerted[r] = Cooldown \/ r \in lost]_vars
  <2> SUFFICES ASSUME IInv, NEW r \in Rules, Send(r), r \notin lost
               PROVE  alerted[r] = Cooldown
    OBVIOUS
  <2>1. lastFired[r] = Cooldown
    BY DEF IInv, StageIsDue, Send
  <2> QED BY <2>1 DEF IInv, MarkFollowsAlert
<1> QED BY <1>1, Invariance, PTL DEF Spec, OncePerCooldown
=============================================================================
