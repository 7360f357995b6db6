--------------------------- MODULE ServicesProofs ---------------------------
(***************************************************************************)
(* Theorems about Services: the digest is mailed once (DigestMailedOnce),  *)
(* the purge and its audit rows are true (PurgeStaysTrue), sender.new is   *)
(* told once (SenderToldOnce), every subscriber is served                  *)
(* (SubscribersAreServed), and every readable report has its rows after a  *)
(* rebuild (SelectorsAreKept).  The messages of every sender add up        *)
(* (SourcesAddUpAlways), and the walk through a mail finds what there is   *)
(* to find (WalkFindsAll).  Each rests on an inductive invariant of one    *)
(* service, which the steps of the others leave alone but for the mishaps  *)
(* they count.                                                             *)
(***************************************************************************)
EXTENDS Services, SumTheorems, SequenceTheorems

-----------------------------------------------------------------------------
(* Mishaps only grow, whichever service is followed.                       *)

MishapsGrow == /\ faults' \in Nat /\ crashes' \in Nat
               /\ faults' >= faults /\ crashes' >= crashes

LEMMA AccessMishaps == AccessNext => Well \/ Fault \/ Crash
  BY DEF AccessNext, LoadKeys, TokensCome, AccessCrash, RefuseKey, Reserve, CancelReservation,
         RefuseScope, ReadBody, RefuseInput, SaveDoc, RefuseDoc, SaveDocFails, FinishIngest,
         Export, ExportFails, InsertRow, InsertRowFails

LEMMA IntelMishaps == IntelNext => Well \/ Fault \/ Crash
  BY DEF IntelNext, Store, Observe, SkipRecord, UpsertSource, TellSender, UpsertSourceFails, Enrich,
         TakeTask, UpsertMeta, TakeTaskFails, UpsertMetaFails, Expire, SweepStep, Sweep,
         SweepEnqueue, SweepFails, Fill, StartFill, FillBatch, SeedMeta, FillFails, IntelCrash

LEMMA SelectorsMishaps == SelectorsNext => Well \/ Fault \/ Crash
  BY DEF SelectorsNext, ReportVisible, RawAgesOut, DeleteSees, DeleteRows, CommitRows,
         SaveFails, StartRebuild, ReadPage, ReadPageFails, NextRow, SelectorsCrash

LEMMA RetentionMishaps == RetentionNext => Well \/ Fault \/ Crash
  BY DEF RetentionNext, ClientFlags, MailAges, FileMail, RawAges, PurgeStep, StartPurge,
         PurgeOneBatch, Audit, ConnectMail, SelectAndSearch, FlagDeleted, Expunge, PurgeFails,
         ExpungeFails, RetentionCrash, AuditFails

LEMMA DigestMishaps == DigestNext => Well \/ Fault \/ Crash
  BY DEF DigestNext, HourComes, DayEnds, DigestCrash, AddSubscription, DeleteSubscription,
         StartDigest, SubscriptionsFail, FinishDigest, LogDomain, LogFails, NextDomain,
         AlreadySentFails, GatherFails, Send, SendFails

LEMMA ExtractMishaps == ExtractNext \/ ReadinessNext => Well
  BY DEF ExtractNext, SkipPart, TakeFeedback, TakeOriginal, TakeDocuments, EndOfMail,
         ReadinessNext, ReadSources, Recommend

LEMMA MishapsOnlyGrow ==
  ASSUME faults \in Nat, crashes \in Nat, [Next]_vars
  PROVE  MishapsGrow
<1>1. Well \/ Fault \/ Crash
  BY AccessMishaps, IntelMishaps, SelectorsMishaps, RetentionMishaps, DigestMishaps,
     ExtractMishaps
     DEF Next, AccessStep, IntelStep, SelectorsStep, RetentionStep, DigestStep, ExtractStep,
         ReadinessStep, vars, Well
<1> QED
  BY <1>1 DEF Well, Fault, Crash, mishaps, MishapsGrow

-----------------------------------------------------------------------------
(* The digest.  A subscriber who has one mail more than there were mishaps *)
(* is logged for the day, or was mailed in the round the scheduler is in.  *)

DigestShape ==
  /\ faults \in Nat /\ crashes \in Nat
  /\ scheduled \in [Triples -> Nat]
  /\ stepOf \in [Runners -> {"idle", "domains", "send"}]
  /\ left \in [Runners -> SUBSET Subscribers] /\ to \in [Runners -> SUBSET Subscribers]
  /\ end \in [Runners -> 0..LastDay] /\ sent \in [Runners -> BOOLEAN]
  /\ DOMAIN domain = Runners
  /\ subs \subseteq Subscribers /\ day \in 0..LastDay

\* No more mails than mishaps.
Excused(p, d) == scheduled[<<p[1], p[2], d>>] <= faults + crashes

JustMailed(p, d) ==
  /\ stepOf["scheduler"] = "send" /\ domain["scheduler"] = p[1]
  /\ end["scheduler"] = d /\ sent["scheduler"] /\ p \notin to["scheduler"]

MailsExplained ==
  \A p \in Subscribers, d \in 0..LastDay :
    Excused(p, d) \/ <<p[1], d>> \in logged \/ JustMailed(p, d)

RoundIsFresh ==
  \A p \in to["scheduler"] :
    /\ stepOf["scheduler"] = "send" /\ p[1] = domain["scheduler"]
    /\ Excused(p, end["scheduler"])

DigestInv == DigestShape /\ DigestOnce /\ MailsExplained /\ RoundIsFresh

LEMMA TriplesTyped ==
  ASSUME NEW p \in Subscribers, NEW d \in 0..LastDay
  PROVE  <<p[1], p[2], d>> \in Triples
  BY DEF Triples

LEMMA TriplesDiffer ==
  ASSUME NEW p \in Subscribers, NEW q \in Subscribers, NEW d, NEW e,
         <<p[1], p[2], d>> = <<q[1], q[2], e>>
  PROVE  p = q /\ d = e
  BY DigestAssumption DEF DigestAssumption

LEMMA DigestStarts == Init => DigestInv
<1> SUFFICES ASSUME Init PROVE DigestInv
  OBVIOUS
<1>1. DigestShape
  BY DigestAssumption DEF Init, DigestInit, MishapsInit, DigestShape, DigestAssumption, Runners
<1>2. DigestOnce
  BY <1>1 DEF Init, DigestInit, MishapsInit, DigestShape, DigestOnce
<1>3. ASSUME NEW p \in Subscribers, NEW d \in 0..LastDay
      PROVE  Excused(p, d)
  <2>1. scheduled = [t \in Triples |-> 0] /\ faults = 0 /\ crashes = 0
    BY DEF Init, DigestInit, MishapsInit
  <2>2. scheduled[<<p[1], p[2], d>>] = 0
    BY <2>1, TriplesTyped
  <2> QED
    BY <2>1, <2>2 DEF Excused
<1>4. RoundIsFresh
  BY DEF Init, DigestInit, RoundIsFresh, Runners
<1> QED
  BY <1>1, <1>2, <1>3, <1>4 DEF DigestInv, MailsExplained

\* What the mails of the past were stays explained.
LEMMA StillExcused ==
  ASSUME DigestInv, MishapsGrow, UNCHANGED scheduled,
         NEW p \in Subscribers, NEW d \in 0..LastDay, Excused(p, d)
  PROVE  Excused(p, d)'
  BY TriplesTyped DEF DigestInv, DigestShape, MishapsGrow, Excused

LEMMA StillOnce == ASSUME DigestInv, MishapsGrow, UNCHANGED scheduled PROVE DigestOnce'
  BY DEF DigestInv, DigestShape, MishapsGrow, DigestOnce

\* A step that is not the scheduler's.
LEMMA SchedulerRests ==
  ASSUME DigestInv, MishapsGrow, DigestShape', UNCHANGED scheduled, logged \subseteq logged',
         stepOf'["scheduler"] = stepOf["scheduler"], to'["scheduler"] = to["scheduler"],
         end'["scheduler"] = end["scheduler"], sent'["scheduler"] = sent["scheduler"],
         domain'["scheduler"] = domain["scheduler"]
  PROVE  DigestInv'
<1> USE DEF DigestInv
<1>1. MailsExplained'
  BY StillExcused DEF MailsExplained, JustMailed
<1>2. RoundIsFresh'
  BY StillExcused DEF RoundIsFresh, DigestShape, Runners
<1> QED
  BY <1>1, <1>2, StillOnce

\* A step after which the scheduler mails nobody.
LEMMA SchedulerLeaves ==
  ASSUME DigestInv, MishapsGrow, DigestShape', UNCHANGED scheduled, logged \subseteq logged',
         to'["scheduler"] = {},
         \A p \in Subscribers, d \in 0..LastDay :
           JustMailed(p, d) => Excused(p, d)' \/ <<p[1], d>> \in logged'
  PROVE  DigestInv'
<1> USE DEF DigestInv
<1>1. MailsExplained'
  BY StillExcused DEF MailsExplained
<1>2. RoundIsFresh'
  BY DEF RoundIsFresh
<1> QED
  BY <1>1, <1>2, StillOnce

LEMMA OneMoreMishap ==
  ASSUME DigestInv, UNCHANGED scheduled, Fault \/ Crash,
         NEW p \in Subscribers, NEW d \in 0..LastDay
  PROVE  Excused(p, d)'
  BY TriplesTyped DEF DigestInv, DigestShape, DigestOnce, Fault, Crash, Excused

\* A mail of the scheduler goes out, with or without an error.
LEMMA SchedulerMails ==
  ASSUME DigestInv, NEW p \in Subscribers, Sending("scheduler", p), MishapsGrow,
         Arrives("scheduler", p) \/ UNCHANGED scheduled,
         \/ sent' = [sent EXCEPT !["scheduler"] = TRUE]
         \/ UNCHANGED sent /\ faults' + crashes' = faults + crashes + 1
  PROVE  DigestInv'
<1> USE DEF DigestInv
<1> DEFINE today == end["scheduler"]
<1>1. /\ "scheduler" \in Runners /\ today \in 0..LastDay /\ p \in to["scheduler"]
      /\ <<p[1], p[2], today>> \in Triples
  BY TriplesTyped DEF DigestShape, Sending, Runners
<1>2. DigestShape'
  <2>1. scheduled' \in [Triples -> Nat]
    BY <1>1 DEF DigestShape, Arrives, Triple
  <2> QED
    BY <1>1, <2>1 DEF DigestShape, Sending, MishapsGrow, clock
<1>3. ASSUME NEW q \in Subscribers, NEW d \in 0..LastDay, q # p \/ d # today
      PROVE  scheduled'[<<q[1], q[2], d>>] = scheduled[<<q[1], q[2], d>>]
  BY <1>1, <1>3, TriplesTyped, TriplesDiffer DEF DigestShape, Arrives, Triple
<1>4. Excused(p, today) /\ p[1] = domain["scheduler"] /\ stepOf["scheduler"] = "send"
  BY <1>1 DEF RoundIsFresh
<1>5. scheduled'[<<p[1], p[2], today>>] \in
        {scheduled[<<p[1], p[2], today>>], scheduled[<<p[1], p[2], today>>] + 1}
  BY <1>1 DEF DigestShape, Arrives, Triple
<1>6. ASSUME NEW q \in Subscribers, NEW d \in 0..LastDay, q # p \/ d # today, Excused(q, d)
      PROVE  Excused(q, d)'
  <2>1. scheduled[<<q[1], q[2], d>>] \in Nat
    BY TriplesTyped DEF DigestShape
  <2> QED
    BY <1>3, <1>6, <2>1 DEF Excused, MishapsGrow, DigestShape
<1>7. scheduled[<<p[1], p[2], today>>] \in Nat
  BY <1>1 DEF DigestShape
<1>8. DigestOnce'
  <2> SUFFICES ASSUME NEW t \in Triples PROVE scheduled'[t] <= 1 + faults' + crashes'
    BY DEF DigestOnce
  <2>1. PICK q \in Subscribers, d \in 0..LastDay : t = <<q[1], q[2], d>>
    BY DEF Triples
  <2>2. CASE q = p /\ d = today
    BY <1>4, <1>5, <1>7, <2>1, <2>2 DEF Excused, MishapsGrow, DigestShape
  <2>3. CASE q # p \/ d # today
    BY <1>3, <2>1, <2>3 DEF DigestOnce, MishapsGrow, DigestShape
  <2> QED
    BY <2>2, <2>3
<1>9. MailsExplained'
  <2> SUFFICES ASSUME NEW q \in Subscribers, NEW d \in 0..LastDay
               PROVE  Excused(q, d)' \/ <<q[1], d>> \in logged' \/ JustMailed(q, d)'
    BY DEF MailsExplained
  <2>1. CASE q = p /\ d = today
    <3>1. CASE sent' = [sent EXCEPT !["scheduler"] = TRUE]
      BY <1>1, <1>4, <2>1, <3>1 DEF JustMailed, Sending, DigestShape
    <3>2. CASE faults' + crashes' = faults + crashes + 1
      BY <1>4, <1>5, <1>7, <2>1, <3>2 DEF Excused, DigestShape
    <3> QED
      BY <3>1, <3>2
  <2>2. CASE q # p \/ d # today
    <3>1. JustMailed(q, d) => JustMailed(q, d)'
      BY <1>1 DEF JustMailed, Sending, DigestShape
    <3> QED
      BY <1>6, <2>2, <3>1 DEF MailsExplained, Sending
  <2> QED
    BY <2>1, <2>2
<1>10. RoundIsFresh'
  <2> SUFFICES ASSUME NEW q \in to'["scheduler"]
               PROVE  /\ stepOf'["scheduler"] = "send" /\ q[1] = domain'["scheduler"]
                      /\ Excused(q, end["scheduler"])'
    BY DEF RoundIsFresh, Sending
  <2>1. q \in to["scheduler"] /\ q # p /\ q \in Subscribers
    BY <1>1 DEF Sending, DigestShape
  <2> QED
    BY <1>1, <1>6, <2>1 DEF RoundIsFresh, Sending
<1> QED
  BY <1>2, <1>8, <1>9, <1>10

LEMMA DigestMoves ==
  ASSUME DigestInv, MishapsGrow, DigestNext
  PROVE  DigestInv'
<1> USE DEF DigestInv
<1> "scheduler" \in Runners
  BY DEF Runners
<1>1. stepOf["scheduler"] # "send" =>
        to["scheduler"] = {} /\ \A p \in Subscribers, d \in 0..LastDay : ~JustMailed(p, d)
  BY DEF RoundIsFresh, JustMailed
<1>2. ASSUME \/ HourComes \/ DayEnds
             \/ \E p \in Subscribers : AddSubscription(p) \/ DeleteSubscription(p)
      PROVE  DigestInv'
  <2>1. DigestShape' /\ UNCHANGED <<scheduled, logged, runState>>
    BY <1>2, DigestAssumption
       DEF HourComes, DayEnds, AddSubscription, DeleteSubscription, DigestShape, MishapsGrow,
           clock, mailed, runState, DigestAssumption
  <2> QED
    BY <2>1, SchedulerRests DEF runState
<1>3. ASSUME DigestCrash
      PROVE  DigestInv'
  <2>1. DigestShape'
    BY <1>3 DEF DigestCrash, DigestShape, MishapsGrow, clock, mailed
  <2> QED
    BY <1>3, <2>1, OneMoreMishap, SchedulerLeaves DEF DigestCrash, mailed
<1>4. ASSUME NEW x \in Runners, StartDigest(x)
      PROVE  DigestInv'
  <2>1. DigestShape' /\ UNCHANGED <<scheduled, logged, to, sent, domain>>
    BY <1>4 DEF StartDigest, DigestShape, MishapsGrow, clock, mailed
  <2>2. CASE x = "scheduler"
    BY <1>1, <1>4, <2>1, <2>2, SchedulerLeaves DEF StartDigest, Starts
  <2>3. CASE x # "scheduler"
    BY <1>4, <2>1, <2>3, SchedulerRests DEF StartDigest, DigestShape
  <2> QED
    BY <2>2, <2>3
<1>5. ASSUME NEW x \in Runners, SubscriptionsFail(x)
      PROVE  DigestInv'
  <2>1. DigestShape' /\ UNCHANGED <<scheduled, logged, runState>>
    BY <1>5 DEF SubscriptionsFail, DigestShape, MishapsGrow, clock, mailed, runState
  <2> QED
    BY <2>1, SchedulerRests DEF runState
<1>6. ASSUME NEW x \in Runners, FinishDigest(x)
      PROVE  DigestInv'
  <2>1. DigestShape' /\ UNCHANGED <<scheduled, logged, to, end, sent, domain>>
    BY <1>6 DEF FinishDigest, DigestShape, MishapsGrow, clock, mailed
  <2>2. CASE x = "scheduler"
    BY <1>1, <1>6, <2>1, <2>2, SchedulerLeaves DEF FinishDigest
  <2>3. CASE x # "scheduler"
    BY <1>6, <2>1, <2>3, SchedulerRests DEF FinishDigest, DigestShape
  <2> QED
    BY <2>2, <2>3
<1>7. ASSUME NEW x \in Runners, LogDomain(x)
      PROVE  DigestInv'
  <2>1. DigestShape' /\ UNCHANGED <<scheduled, to, end, sent, domain>> /\ logged \subseteq logged'
    BY <1>7 DEF LogDomain, DigestShape, MishapsGrow, clock, mailed
  <2>2. CASE x = "scheduler"
    BY <1>7, <2>1, <2>2, SchedulerLeaves DEF LogDomain, AllSent, JustMailed
  <2>3. CASE x # "scheduler"
    BY <1>7, <2>1, <2>3, SchedulerRests DEF LogDomain, DigestShape
  <2> QED
    BY <2>2, <2>3
<1>8. ASSUME NEW x \in Runners, LogFails(x)
      PROVE  DigestInv'
  <2>1. DigestShape' /\ UNCHANGED <<scheduled, logged, to, end, sent, domain>>
    BY <1>8 DEF LogFails, DigestShape, MishapsGrow, clock, mailed
  <2>2. CASE x = "scheduler"
    BY <1>8, <2>1, <2>2, OneMoreMishap, SchedulerLeaves DEF LogFails, AllSent
  <2>3. CASE x # "scheduler"
    BY <1>8, <2>1, <2>3, SchedulerRests DEF LogFails, DigestShape
  <2> QED
    BY <2>2, <2>3
<1>9. ASSUME NEW x \in Runners, NEW d \in Domains, NextDomain(x, d)
      PROVE  DigestInv'
  <2> ForDomain(x, d) \subseteq Subscribers /\ d \in Domains
    BY DEF DigestShape, ForDomain
  <2>1. UNCHANGED <<scheduled, logged, end>>
    BY <1>9 DEF NextDomain, mailed
  <2>2. DigestShape'
    <3>1. /\ left' \in [Runners -> SUBSET Subscribers] /\ UNCHANGED <<scheduled, end, subs, day>>
          /\ faults' \in Nat /\ crashes' \in Nat
      BY <1>9 DEF NextDomain, DigestShape, MishapsGrow, clock, mailed
    <3>2. /\ stepOf' \in [Runners -> {"idle", "domains", "send"}]
          /\ to' \in [Runners -> SUBSET Subscribers]
          /\ sent' \in [Runners -> BOOLEAN] /\ DOMAIN domain' = Runners
      <4>1. CASE AlreadySent(x, d)
        BY <1>9, <4>1 DEF NextDomain, DigestShape
      <4>2. CASE ~AlreadySent(x, d)
        <5>1. /\ stepOf' = [stepOf EXCEPT ![x] = "send"] /\ domain' = [domain EXCEPT ![x] = d]
              /\ to' = [to EXCEPT ![x] = ForDomain(x, d)] /\ sent' = [sent EXCEPT ![x] = FALSE]
          BY <1>9, <4>2 DEF NextDomain
        <5> QED
          BY <5>1 DEF DigestShape
      <4> QED
        BY <4>1, <4>2
    <3> QED
      BY <3>1, <3>2 DEF DigestShape
  <2>3. CASE x # "scheduler" \/ AlreadySent(x, d)
    BY <1>9, <2>1, <2>2, <2>3, SchedulerRests DEF NextDomain, DigestShape
  <2>4. CASE x = "scheduler" /\ ~AlreadySent(x, d)
    <3>1. ASSUME NEW p \in ForDomain(x, d)
          PROVE  p \in Subscribers /\ p[1] = d /\ Excused(p, end[x])'
      <4>1. p \in Subscribers /\ p[1] = d /\ end[x] \in 0..LastDay
        BY DEF ForDomain, DigestShape
      <4>2. Excused(p, end[x])
        BY <1>1, <1>9, <2>4, <4>1
           DEF NextDomain, AtDomain, AlreadySent, MailsExplained
      <4>3. ASSUME NEW e, e = end[x] PROVE Excused(p, e)'
        BY <2>1, <4>1, <4>2, <4>3, StillExcused
      <4> QED
        BY <2>1, <4>1, <4>3 DEF Excused
    <3>2. RoundIsFresh'
      <4> SUFFICES ASSUME NEW p \in to'["scheduler"]
                   PROVE  /\ stepOf'["scheduler"] = "send" /\ p[1] = domain'["scheduler"]
                          /\ Excused(p, end["scheduler"])'
        BY <2>1 DEF RoundIsFresh
      <4>1. /\ stepOf'["scheduler"] = "send" /\ domain'["scheduler"] = d
            /\ to'["scheduler"] = ForDomain(x, d)
        BY <1>9, <2>4 DEF NextDomain, DigestShape
      <4> QED
        BY <2>4, <3>1, <4>1
    <3>3. MailsExplained'
      <4> SUFFICES ASSUME NEW p \in Subscribers, NEW e \in 0..LastDay
                   PROVE  Excused(p, e)' \/ <<p[1], e>> \in logged'
        BY DEF MailsExplained
      <4>1. UNCHANGED logged /\ (Excused(p, e) \/ <<p[1], e>> \in logged)
        BY <1>1, <1>9, <2>4 DEF MailsExplained, NextDomain, AtDomain
      <4> QED
        BY <2>1, <4>1, StillExcused
    <3> QED
      BY <2>1, <2>2, <3>2, <3>3, StillOnce
  <2> QED
    BY <2>3, <2>4
<1>10. ASSUME NEW x \in Runners, NEW d \in Domains, AlreadySentFails(x, d)
       PROVE  DigestInv'
  <2>1. DigestShape' /\ UNCHANGED <<scheduled, logged, to, end, sent, domain>>
    BY <1>10 DEF AlreadySentFails, DigestShape, MishapsGrow, clock, mailed
  <2> QED
    BY <1>1, <1>10, <2>1, SchedulerLeaves DEF AlreadySentFails, AtDomain
<1>11. ASSUME NEW x \in Runners, NEW d \in Domains, GatherFails(x, d)
       PROVE  DigestInv'
  <2>1. DigestShape' /\ UNCHANGED <<scheduled, logged, stepOf, to, end, sent, domain>>
    BY <1>11 DEF GatherFails, DigestShape, MishapsGrow, clock, mailed
  <2> QED
    BY <2>1, SchedulerRests
<1>12. ASSUME NEW x \in Runners, NEW p \in Subscribers, Send(x, p) \/ SendFails(x, p)
       PROVE  DigestInv'
  <2>1. CASE x = "scheduler"
    <3>1. /\ Sending("scheduler", p)
          /\ Arrives("scheduler", p) \/ UNCHANGED scheduled
          /\ \/ sent' = [sent EXCEPT !["scheduler"] = TRUE]
             \/ UNCHANGED sent /\ faults' + crashes' = faults + crashes + 1
      BY <1>12, <2>1 DEF Send, SendFails, Fault, DigestShape
    <3> QED
      BY <3>1, SchedulerMails
  <2>2. CASE x # "scheduler"
    <3>1. Sending(x, p) /\ UNCHANGED scheduled /\ sent' \in {sent, [sent EXCEPT ![x] = TRUE]}
      BY <1>12, <2>2 DEF Send, SendFails, Arrives
    <3>2. DigestShape'
      BY <3>1 DEF Sending, DigestShape, MishapsGrow, clock
    <3> QED
      BY <2>2, <3>1, <3>2, SchedulerRests DEF Sending, DigestShape
  <2> QED
    BY <2>1, <2>2
<1> QED
  BY <1>2, <1>3, <1>4, <1>5, <1>6, <1>7, <1>8, <1>9, <1>10, <1>11, <1>12 DEF DigestNext

LEMMA DigestStays == DigestInv /\ [Next]_vars => DigestInv'
<1> SUFFICES ASSUME DigestInv, [Next]_vars PROVE DigestInv'
  OBVIOUS
<1>1. MishapsGrow
  BY MishapsOnlyGrow DEF DigestInv, DigestShape
<1>2. CASE DigestStep
  BY <1>1, <1>2, DigestMoves DEF DigestStep
<1>3. CASE UNCHANGED digestVars
  <2>1. DigestShape'
    BY <1>1, <1>3 DEF DigestInv, DigestShape, digestVars, clock, runState, mailed, MishapsGrow
  <2> QED
    BY <1>1, <1>3, <2>1, SchedulerRests DEF digestVars, runState, mailed
<1> QED
  BY <1>2, <1>3
     DEF Next, vars, AccessStep, IntelStep, SelectorsStep, RetentionStep, ExtractStep,
         ReadinessStep

(* The digest log keeps the scheduler from mailing a subscriber twice a    *)
(* day, however many ticks and requests there are: each mail too many is   *)
(* paid for by a crash or by a statement or send that failed.              *)
THEOREM DigestMailedOnce == Spec => []DigestOnce
<1>1. Init => DigestInv
  BY DigestStarts
<1>2. DigestInv /\ [Next]_vars => DigestInv'
  BY DigestStays
<1>3. DigestInv => DigestOnce
  BY DEF DigestInv
<1> QED
  BY <1>1, <1>2, <1>3, PTL DEF Spec

-----------------------------------------------------------------------------
(* The purge.  What is flagged in the folder in hand is what the search    *)
(* found there and what mail clients flagged, so the count of the search   *)
(* is the count of the EXPUNGE but for the latter.                         *)

RawHalf == {"raw", "audit_raw_xml"}
MailHalf == {"search", "flag", "expunge", "audit_mail"}

PurgeShape ==
  /\ faults \in Nat /\ crashes \in Nat
  /\ mailAt \in [Mails -> {"INBOX", "Processed", "Ignored", "Failed", "gone"}]
  /\ oldMail \subseteq Mails /\ foreign \subseteq Mails /\ due \subseteq Mails \cup Raws
  /\ raw \in [Raws -> {"young", "old", "null"}]
  /\ step \in {"off", "connect", "raw", "audit_raw_xml", "search", "flag", "expunge",
              "audit_mail"}
  /\ folderNo \in 1..2 /\ total \in Nat

TalliesTyped == audited \in [Halves -> Nat] /\ purged \in [Halves -> Nat]

\* What was flagged, and by whom.
FlagsExplained ==
  /\ flagged \subseteq oldMail \cup foreign /\ foreign \subseteq flagged
  /\ \A m \in flagged : mailAt[m] # "INBOX"

FoundIsFlagged ==
  /\ step \in MailHalf => flagged \subseteq due \cup foreign /\ due \subseteq oldMail
  /\ step \in {"flag", "expunge"} =>
       uids \subseteq In(Folder) \cap due /\ In(Folder) \cap flagged \subseteq uids \cup foreign
  /\ step = "expunge" => uids \subseteq flagged

\* Rows grow old behind the cutoff, but none of those due grows young.
DueIsOld ==
  /\ step \in RawHalf => due \subseteq Raws /\ \A x \in due : raw[x] # "young"
  /\ step = "audit_raw_xml" => \A x \in due : raw[x] = "null"

RawPending == IF step \in RawHalf THEN total ELSE 0
MailPending == IF step \in MailHalf THEN total ELSE 0

\* What went beside what the purge meant to take.
Beside(half) == IF half = "mail" THEN Cardinality(ClientTaken) ELSE 0

Agree(half, pending) ==
  /\ audited[half] + pending <= purged[half]
  /\ faults = 0 /\ crashes = 0 => purged[half] <= audited[half] + pending + Beside(half)

TalliesMatch == TalliesTyped /\ Agree("raw_xml", RawPending) /\ Agree("mail", MailPending)

PurgeInv == PurgeShape /\ FlagsExplained /\ FoundIsFlagged /\ DueIsOld /\ TalliesMatch

LEMMA CountedOne ==
  ASSUME NEW half \in Halves, NEW n \in Nat, NEW f \in [Halves -> Nat],
         NEW g, g = [f EXCEPT ![half] = @ + n]
  PROVE  /\ g \in [Halves -> Nat] /\ g[half] = f[half] + n
         /\ \A h \in Halves : h # half => g[h] = f[h]
  OBVIOUS

LEMMA TalliesNow ==
  ASSUME PurgeInv
  PROVE  /\ "raw_xml" \in Halves /\ "mail" \in Halves /\ "raw_xml" # "mail"
         /\ \A h \in Halves : audited[h] \in Nat /\ purged[h] \in Nat
         /\ RawPending \in Nat /\ MailPending \in Nat
  BY DEF PurgeInv, PurgeShape, TalliesMatch, TalliesTyped, RawPending, MailPending, Halves

LEMMA TakenIsFinite ==
  ASSUME PurgeShape
  PROVE  IsFiniteSet(ClientTaken) /\ Cardinality(ClientTaken) \in Nat
<1>1. ClientTaken \subseteq Mails /\ IsFiniteSet(Mails)
  BY RetentionAssumption DEF ClientTaken, PurgeShape, RetentionAssumption
<1> QED
  BY <1>1, FS_Subset, FS_CardinalityType

LEMMA TakenStaysFinite ==
  ASSUME PurgeShape'
  PROVE  IsFiniteSet(ClientTaken') /\ Cardinality(ClientTaken') \in Nat
<1>1. ClientTaken' \subseteq Mails /\ IsFiniteSet(Mails)
  BY RetentionAssumption DEF ClientTaken, PurgeShape, RetentionAssumption
<1> QED
  BY <1>1, FS_Subset, FS_CardinalityType

\* Mail that is gone stays gone.
LEMMA TakenGrows ==
  ASSUME PurgeShape, PurgeShape', foreign \subseteq foreign',
         \A m \in Mails : mailAt[m] = "gone" => mailAt'[m] = "gone"
  PROVE  Cardinality(ClientTaken) <= Cardinality(ClientTaken')
<1>1. ClientTaken \subseteq ClientTaken'
  BY DEF ClientTaken, PurgeShape
<1>2. IsFiniteSet(ClientTaken')
  BY TakenStaysFinite
<1> QED
  BY <1>1, <1>2, FS_Subset

LEMMA PurgeInvIsTrue == PurgeInv => PurgeIsTrue
<1> SUFFICES ASSUME PurgeInv PROVE PurgeIsTrue
  OBVIOUS
<1>1. RawPending \in Nat /\ MailPending \in Nat
  BY TalliesNow
<1>2. step = "off" => RawPending = 0 /\ MailPending = 0
  BY DEF RawPending, MailPending, RawHalf, MailHalf
<1>3. Cardinality(ClientTaken) \in Nat
  BY TakenIsFinite DEF PurgeInv
<1>4. /\ "raw_xml" \in Halves /\ "mail" \in Halves /\ \A h \in Halves : h = "raw_xml" \/ h = "mail"
      /\ \A h \in Halves : audited[h] \in Nat /\ purged[h] \in Nat
  BY TalliesNow DEF Halves
<1>5. Agree("raw_xml", RawPending) /\ Agree("mail", MailPending)
  BY DEF PurgeInv, TalliesMatch
<1>6. \A h \in Halves : audited[h] <= purged[h]
  BY <1>1, <1>4, <1>5 DEF Agree
<1>7. ASSUME step = "off", faults = 0, crashes = 0
      PROVE  /\ audited["raw_xml"] = purged["raw_xml"]
             /\ purged["mail"] <= audited["mail"] + Cardinality(ClientTaken)
  BY <1>2, <1>3, <1>4, <1>5, <1>7 DEF Agree, Beside
<1> QED
  BY <1>6, <1>7 DEF PurgeInv, DueIsOld, PurgeIsTrue

LEMMA PurgeStarts == Init => PurgeInv
<1> SUFFICES ASSUME Init PROVE PurgeInv
  OBVIOUS
<1>1. PurgeShape /\ FlagsExplained /\ FoundIsFlagged /\ DueIsOld
  BY DEF Init, RetentionInit, MishapsInit, PurgeShape, FlagsExplained, FoundIsFlagged, DueIsOld,
         RawHalf, MailHalf
<1>2. TalliesMatch
  <2>1. Beside("mail") \in Nat /\ Beside("raw_xml") = 0
    BY <1>1, TakenIsFinite DEF Beside
  <2> QED
    BY <2>1 DEF Init, RetentionInit, MishapsInit, TalliesMatch, TalliesTyped, Agree, RawPending,
                MailPending, RawHalf, MailHalf, Halves
<1> QED
  BY <1>1, <1>2 DEF PurgeInv

\* The mail is as it was, whatever else happened.
LEMMA MailRests ==
  ASSUME PurgeInv, UNCHANGED mailState
  PROVE  FlagsExplained'
  BY DEF PurgeInv, FlagsExplained, mailState

\* Nothing was counted or audited, and no half is over but for a mishap.
LEMMA TalliesRest ==
  ASSUME PurgeInv, PurgeShape', MishapsGrow, UNCHANGED tallies,
         foreign \subseteq foreign', \A m \in Mails : mailAt[m] = "gone" => mailAt'[m] = "gone",
         \/ RawPending' = RawPending /\ MailPending' = MailPending
         \/ RawPending' = 0 /\ MailPending' = 0 /\ faults' + crashes' > 0
  PROVE  TalliesMatch'
<1>0. /\ \A h \in Halves : audited[h] \in Nat /\ purged[h] \in Nat
      /\ RawPending \in Nat /\ MailPending \in Nat
      /\ "raw_xml" \in Halves /\ "mail" \in Halves
  BY TalliesNow
<1>1. faults \in Nat /\ crashes \in Nat
  BY DEF PurgeInv, PurgeShape
<1>2. TalliesTyped'
  BY DEF PurgeInv, TalliesMatch, TalliesTyped, tallies
<1>3. Agree("raw_xml", RawPending) /\ Agree("mail", MailPending) /\ UNCHANGED <<audited, purged>>
  BY DEF PurgeInv, TalliesMatch, tallies
<1>B. \A h \in Halves : Beside(h) \in Nat /\ Beside(h)' \in Nat /\ Beside(h) <= Beside(h)'
  <2>1. Cardinality(ClientTaken) \in Nat /\ Cardinality(ClientTaken') \in Nat
    BY TakenIsFinite, TakenStaysFinite DEF PurgeInv
  <2> QED
    BY <2>1, TakenGrows DEF PurgeInv, Beside
<1>4. CASE RawPending' = RawPending /\ MailPending' = MailPending
  BY <1>0, <1>1, <1>2, <1>3, <1>4, <1>B DEF TalliesMatch, Agree, MishapsGrow
<1>5. CASE RawPending' = 0 /\ MailPending' = 0 /\ faults' + crashes' > 0
  <2>1. ASSUME NEW h \in Halves, NEW n \in Nat, audited[h] + n <= purged[h]
        PROVE  Agree(h, 0)'
    BY <1>0, <1>3, <1>5, <2>1 DEF Agree
  <2> QED
    BY <1>0, <1>2, <1>3, <1>5, <2>1 DEF TalliesMatch, Agree
<1> QED
  BY <1>4, <1>5

\* So much was purged and not audited yet; mail may have gone beside.
LEMMA TalliesGrow ==
  ASSUME PurgeInv, Well, UNCHANGED audited, NEW n \in Nat, NEW half \in Halves, NEW k \in Nat,
         purged' = [purged EXCEPT ![half] = @ + (n + k)],
         \A h \in Halves : /\ Beside(h)' \in Nat
                           /\ Beside(h) + (IF h = half THEN k ELSE 0) <= Beside(h)',
         RawPending' = (IF half = "raw_xml" THEN RawPending + n ELSE RawPending),
         MailPending' = (IF half = "mail" THEN MailPending + n ELSE MailPending)
  PROVE  TalliesMatch'
<1> USE TalliesNow
<1>1. faults \in Nat /\ crashes \in Nat /\ half \in {"raw_xml", "mail"}
  BY DEF PurgeInv, PurgeShape, Halves
<1>2. /\ purged' \in [Halves -> Nat] /\ purged'[half] = purged[half] + (n + k)
      /\ \A h \in Halves : h # half => purged'[h] = purged[h]
  BY CountedOne DEF PurgeInv, TalliesMatch, TalliesTyped
<1>3. TalliesTyped'
  BY <1>2 DEF PurgeInv, TalliesMatch, TalliesTyped
<1>4. Agree("raw_xml", RawPending) /\ Agree("mail", MailPending)
  BY DEF PurgeInv, TalliesMatch
<1>B. \A h \in Halves : Beside(h) \in Nat
  BY TakenIsFinite DEF PurgeInv, Beside
<1>5. CASE half = "raw_xml"
  BY <1>1, <1>2, <1>3, <1>4, <1>5, <1>B DEF TalliesMatch, Agree, Well, mishaps
<1>6. CASE half = "mail"
  BY <1>1, <1>2, <1>3, <1>4, <1>6, <1>B DEF TalliesMatch, Agree, Well, mishaps
<1> QED
  BY <1>1, <1>5, <1>6

\* What was purged is audited, at the end of its half.
LEMMA TalliesAudited ==
  ASSUME PurgeInv, Well, UNCHANGED <<purged, mailState>>, NEW half \in Halves,
         audited' = [audited EXCEPT ![half] = @ + total], total \in Nat,
         RawPending = (IF half = "raw_xml" THEN total ELSE 0),
         MailPending = (IF half = "mail" THEN total ELSE 0),
         RawPending' = 0, MailPending' = 0
  PROVE  TalliesMatch'
<1>B. \A h \in Halves : Beside(h) \in Nat /\ Beside(h)' = Beside(h)
  BY TakenIsFinite DEF PurgeInv, Beside, ClientTaken, mailState
<1> USE TalliesNow
<1>1. faults \in Nat /\ crashes \in Nat /\ half \in {"raw_xml", "mail"}
  BY DEF PurgeInv, PurgeShape, Halves
<1>2. /\ audited' \in [Halves -> Nat] /\ audited'[half] = audited[half] + total
      /\ \A h \in Halves : h # half => audited'[h] = audited[h]
  BY CountedOne DEF PurgeInv, TalliesMatch, TalliesTyped
<1>3. TalliesTyped'
  BY <1>2 DEF PurgeInv, TalliesMatch, TalliesTyped
<1>4. Agree("raw_xml", RawPending) /\ Agree("mail", MailPending)
  BY DEF PurgeInv, TalliesMatch
<1>5. CASE half = "raw_xml"
  BY <1>1, <1>2, <1>3, <1>4, <1>5, <1>B DEF TalliesMatch, Agree, Well, mishaps
<1>6. CASE half = "mail"
  BY <1>1, <1>2, <1>3, <1>4, <1>6, <1>B DEF TalliesMatch, Agree, Well, mishaps
<1> QED
  BY <1>1, <1>5, <1>6

LEMMA PurgeMoves ==
  ASSUME PurgeInv, MishapsGrow, RetentionNext
  PROVE  PurgeInv'
<1> USE DEF PurgeInv, RawHalf, MailHalf
<1>0. "raw_xml" \in Halves /\ "mail" \in Halves
  BY TalliesNow
<1>1. ASSUME NEW m \in Mails, MailAges(m)
      PROVE  PurgeInv'
  <2>1. UNCHANGED <<mailAt, flagged, foreign, raw, step, due, uids, folderNo, total, tallies>>
    BY <1>1 DEF MailAges, purge
  <2>2. PurgeShape' /\ FlagsExplained' /\ FoundIsFlagged' /\ DueIsOld'
    BY <1>1, <2>1
       DEF MailAges, MishapsGrow, PurgeShape, FlagsExplained, FoundIsFlagged, DueIsOld, In, Folder
  <2> QED
    BY <2>1, <2>2, TalliesRest DEF RawPending, MailPending
<1>2. ASSUME NEW m \in Mails, NEW f \in {"Processed", "Ignored", "Failed"}, FileMail(m, f)
      PROVE  PurgeInv'
  <2>1. UNCHANGED <<flagged, oldMail, foreign, raw, step, due, uids, folderNo, total, tallies>>
    BY <1>2 DEF FileMail, purge
  <2>2. PurgeShape'
    BY <1>2, <2>1 DEF FileMail, PurgeShape, MishapsGrow
  <2>3. FlagsExplained' /\ DueIsOld'
    BY <1>2, <2>1 DEF FileMail, PurgeShape, FlagsExplained, DueIsOld
  <2>4. FoundIsFlagged'
    BY <1>2, <2>1 DEF FileMail, PurgeShape, FlagsExplained, FoundIsFlagged, In, Folder
  <2>5. \A n \in Mails : mailAt[n] = "gone" => mailAt'[n] = "gone"
    BY <1>2 DEF FileMail, PurgeShape
  <2> QED
    BY <2>1, <2>2, <2>3, <2>4, <2>5, TalliesRest DEF RawPending, MailPending
<1>C. ASSUME NEW m \in Mails, ClientFlags(m)
      PROVE  PurgeInv'
  <2>1. /\ UNCHANGED <<mailAt, oldMail, raw, step, due, uids, folderNo, total, tallies>>
        /\ flagged' = flagged \cup {m} /\ foreign' = foreign \cup {m} /\ mailAt[m] # "INBOX"
    BY <1>C DEF ClientFlags, purge, PurgedFolders, Purged
  <2>2. PurgeShape' /\ FlagsExplained' /\ FoundIsFlagged' /\ DueIsOld'
    BY <2>1 DEF MishapsGrow, PurgeShape, FlagsExplained, FoundIsFlagged, DueIsOld, In, Folder
  <2> QED
    BY <2>1, <2>2, TalliesRest DEF RawPending, MailPending
<1>3. ASSUME NEW x \in Raws, RawAges(x)
      PROVE  PurgeInv'
  <2>1. UNCHANGED <<mailState, step, due, uids, folderNo, total, tallies>>
    BY <1>3 DEF RawAges, purge
  <2>2. PurgeShape' /\ FoundIsFlagged' /\ DueIsOld'
    BY <1>3, <2>1
       DEF RawAges, mailState, MishapsGrow, PurgeShape, FoundIsFlagged, DueIsOld, In, Folder
  <2> QED
    BY <2>1, <2>2, MailRests, TalliesRest DEF RawPending, MailPending, mailState
<1>4. CASE StartPurge
  <2>1. /\ step = "off" /\ step' = "raw" /\ due' = {x \in Raws : raw[x] = "old"} /\ total' = 0
        /\ UNCHANGED <<mailState, raw, folderNo, tallies>>
    BY <1>4 DEF StartPurge
  <2>2. PurgeShape' /\ FoundIsFlagged' /\ DueIsOld'
    BY <2>1 DEF mailState, MishapsGrow, PurgeShape, FoundIsFlagged, DueIsOld
  <2> QED
    BY <2>1, <2>2, MailRests, TalliesRest DEF RawPending, MailPending, mailState
<1>5. CASE PurgeOneBatch
  <2> DEFINE behind == {x \in due : raw[x] # "null"}
  <2>1. IsFiniteSet(behind) /\ Cardinality(behind) \in Nat
    <3>1. IsFiniteSet(Mails \cup Raws)
      BY FS_Union, RetentionAssumption DEF RetentionAssumption
    <3> QED
      BY <3>1, FS_Subset, FS_CardinalityType DEF PurgeShape
  <2>2. PICK n \in Nat, batch \in SUBSET behind :
           /\ n = (IF Cardinality(behind) < PurgeBatch THEN Cardinality(behind) ELSE PurgeBatch)
           /\ Cardinality(batch) = n
           /\ step = "raw" /\ total' = total + n
           /\ raw' = [x \in Raws |-> IF x \in batch THEN "null" ELSE raw[x]]
           /\ purged' = [purged EXCEPT !["raw_xml"] = @ + n]
           /\ step' = IF n < PurgeBatch THEN "audit_raw_xml" ELSE "raw"
           /\ UNCHANGED <<mailState, due, folderNo, audited>> /\ Well
    BY <1>5, <2>1, RetentionAssumption DEF PurgeOneBatch, RetentionAssumption, kSubset
  <2>3. total \in Nat /\ total' \in Nat
    BY <2>2 DEF PurgeShape
  <2>4. PurgeShape' /\ FoundIsFlagged'
    BY <2>2, <2>3 DEF PurgeShape, FoundIsFlagged, mailState, MishapsGrow
  <2>5. DueIsOld'
    <3>1. due \subseteq Raws /\ (\A x \in due : raw[x] # "young") /\ UNCHANGED due
      BY <2>2 DEF DueIsOld
    <3>2. \A x \in due : raw'[x] # "young"
      BY <2>2, <3>1 DEF PurgeShape
    <3>3. ASSUME step' = "audit_raw_xml"
          PROVE  \A x \in due : raw'[x] = "null"
      <4>1. Cardinality(batch) = Cardinality(behind)
        BY <2>1, <2>2, <3>3, RetentionAssumption DEF RetentionAssumption
      <4>2. batch = behind
        BY <2>1, <4>1, FS_Subset
      <4> QED
        BY <2>2, <3>1, <4>2
    <3> QED
      BY <3>1, <3>2, <3>3, <2>2 DEF DueIsOld
  <2>6. RawPending' = RawPending + n /\ MailPending' = MailPending
    BY <2>2 DEF RawPending, MailPending
  <2>7. \A h \in Halves : Beside(h) \in Nat /\ Beside(h)' = Beside(h)
    BY <2>2, TakenIsFinite DEF Beside, ClientTaken, mailState
  <2>8. purged' = [purged EXCEPT !["raw_xml"] = @ + (n + 0)]
    <3>1. n + 0 = n
      OBVIOUS
    <3> QED
      BY <2>2, <3>1
  <2>9. TalliesMatch'
    BY <1>0, <2>2, <2>6, <2>7, <2>8, TalliesGrow
  <2> QED
    BY <2>2, <2>4, <2>5, <2>9, MailRests
<1>6. CASE PurgeFails \/ ExpungeFails \/ RetentionCrash
  <2>1. /\ step' \in {"off", "connect"}
        /\ Fault \/ Crash
        /\ UNCHANGED <<mailState, raw, due, folderNo, total, tallies>>
    BY <1>6 DEF PurgeFails, ExpungeFails, RetentionCrash
  <2>2. faults' + crashes' > 0
    BY <2>1 DEF Fault, Crash, PurgeShape
  <2>3. PurgeShape' /\ FoundIsFlagged' /\ DueIsOld'
    BY <2>1 DEF PurgeShape, FoundIsFlagged, DueIsOld, mailState, MishapsGrow
  <2> QED
    BY <2>1, <2>2, <2>3, MailRests, TalliesRest DEF RawPending, MailPending, mailState
<1>7. ASSUME NEW half \in Halves, NEW next \in {"off", "connect"},
             Audit(half, next) \/ AuditFails(half, next)
      PROVE  PurgeInv'
  <2>1. /\ step' \in {"off", "connect"}
        /\ UNCHANGED <<mailState, raw, due, folderNo, total, purged>>
    BY <1>7 DEF Audit, AuditFails, tallies
  <2>2. step = (IF half = "raw_xml" THEN "audit_raw_xml" ELSE "audit_mail")
    BY <1>7 DEF Audit, AuditFails, AuditOf, Halves
  <2>3. PurgeShape' /\ FoundIsFlagged' /\ DueIsOld'
    BY <2>1 DEF PurgeShape, FoundIsFlagged, DueIsOld, mailState, MishapsGrow
  <2>4. /\ RawPending = (IF half = "raw_xml" THEN total ELSE 0) /\ RawPending' = 0
        /\ MailPending = (IF half = "mail" THEN total ELSE 0) /\ MailPending' = 0
    BY <2>1, <2>2 DEF RawPending, MailPending, Halves
  <2>5. CASE Audit(half, next)
    <3>1. audited' = [audited EXCEPT ![half] = @ + total] /\ Well /\ total \in Nat
      BY <2>5 DEF Audit, PurgeShape
    <3> QED
      BY <2>1, <2>3, <2>4, <3>1, MailRests, TalliesAudited
  <2>6. CASE AuditFails(half, next)
    <3>1. UNCHANGED tallies /\ Fault
      BY <2>6 DEF AuditFails
    <3>2. faults' + crashes' > 0
      BY <3>1 DEF Fault, PurgeShape
    <3> QED
      BY <2>1, <2>3, <2>4, <3>1, <3>2, MailRests, TalliesRest DEF mailState
  <2> QED
    BY <1>7, <2>5, <2>6
<1>8. CASE ConnectMail
  <2>1. /\ step = "connect" /\ step' = "search" /\ due' = oldMail /\ folderNo' = 1 /\ total' = 0
        /\ UNCHANGED <<mailState, raw, tallies>>
    BY <1>8 DEF ConnectMail
  <2>2. PurgeShape' /\ FoundIsFlagged' /\ DueIsOld'
    BY <2>1 DEF mailState, MishapsGrow, PurgeShape, FlagsExplained, FoundIsFlagged, DueIsOld
  <2> QED
    BY <2>1, <2>2, MailRests, TalliesRest DEF RawPending, MailPending, mailState
<1>9. CASE SelectAndSearch
  <2>1. /\ step = "search" /\ uids' = Found /\ step' \in {"search", "audit_mail", "flag"}
        /\ step' = "flag" => folderNo' = folderNo
        /\ folderNo' \in 1..2
        /\ UNCHANGED <<mailState, raw, due, total, tallies>>
    <3>1. Len(Purged) = 2
      BY DEF Purged
    <3>2. folderNo \in 1..2
      BY DEF PurgeShape
    <3>3. NextFolder => step' \in {"search", "audit_mail"} /\ folderNo' \in 1..2
      BY <3>1, <3>2 DEF NextFolder
    <3> QED
      BY <1>9, <3>2, <3>3 DEF SelectAndSearch
  <2>2. PurgeShape' /\ DueIsOld'
    BY <2>1 DEF PurgeShape, DueIsOld, mailState, MishapsGrow
  <2>3. FoundIsFlagged'
    BY <2>1 DEF FoundIsFlagged, Found, In, Folder, mailState
  <2> QED
    BY <2>1, <2>2, <2>3, MailRests, TalliesRest DEF RawPending, MailPending, mailState
<1>10. CASE FlagDeleted
  <2>1. /\ step = "flag" /\ step' = "expunge" /\ flagged' = flagged \cup uids
        /\ UNCHANGED <<mailAt, oldMail, foreign, raw, due, uids, folderNo, total, tallies>>
    BY <1>10 DEF FlagDeleted
  <2>2. PurgeShape' /\ DueIsOld'
    BY <2>1 DEF PurgeShape, DueIsOld, MishapsGrow
  <2>3. Folder # "INBOX"
    BY DEF Folder, Purged, PurgeShape
  <2>4. FlagsExplained'
    BY <2>1, <2>3 DEF FlagsExplained, FoundIsFlagged, In
  <2>5. FoundIsFlagged'
    BY <2>1 DEF FoundIsFlagged, In, Folder
  <2> QED
    BY <2>1, <2>2, <2>4, <2>5, TalliesRest DEF RawPending, MailPending
<1>11. CASE Expunge
  <2> DEFINE dead == In(Folder) \cap flagged
             strays == dead \ uids
  <2>1. /\ step = "expunge" /\ dead \subseteq Mails
        /\ uids \subseteq dead /\ strays \subseteq foreign
        /\ \A m \in dead : mailAt[m] # "gone"
    <3>1. Folder # "gone"
      BY DEF Folder, Purged, PurgeShape
    <3> QED
      BY <1>11, <3>1 DEF Expunge, FoundIsFlagged, In
  <2>2. /\ IsFiniteSet(dead) /\ IsFiniteSet(uids) /\ IsFiniteSet(strays)
        /\ Cardinality(uids) \in Nat /\ Cardinality(strays) \in Nat
        /\ Cardinality(dead) = Cardinality(uids) + Cardinality(strays)
    <3>1. IsFiniteSet(dead) /\ IsFiniteSet(uids) /\ IsFiniteSet(strays)
      BY <2>1, FS_Subset, RetentionAssumption DEF RetentionAssumption
    <3>2. dead = uids \cup strays /\ uids \cap strays = {}
      BY <2>1
    <3> HIDE DEF dead, strays
    <3>3. Cardinality(uids) \in Nat /\ Cardinality(strays) \in Nat
      BY <3>1, FS_CardinalityType
    <3>4. Cardinality(uids \cup strays)
            = Cardinality(uids) + Cardinality(strays) - Cardinality(uids \cap strays)
      BY <3>1, FS_Union
    <3>5. Cardinality(uids \cap strays) = 0
      BY <3>2, FS_EmptySet
    <3> QED
      BY <3>1, <3>2, <3>3, <3>4, <3>5
  <2>3. /\ mailAt' = [m \in Mails |-> IF m \in dead THEN "gone" ELSE mailAt[m]]
        /\ total' = total + Cardinality(uids)
        /\ purged' = [purged EXCEPT !["mail"] = @ + (Cardinality(uids) + Cardinality(strays))]
        /\ UNCHANGED <<flagged, oldMail, foreign, raw, due, uids, audited>> /\ Well
    BY <1>11, <2>2 DEF Expunge
  <2>4. step' \in {"search", "audit_mail"} /\ folderNo' \in 1..2
    <3>1. Len(Purged) = 2
      BY DEF Purged
    <3> QED
      BY <1>11, <3>1 DEF Expunge, NextFolder, PurgeShape
  <2>5. total \in Nat /\ total' \in Nat
    BY <2>2, <2>3 DEF PurgeShape
  <2>6. PurgeShape'
    BY <2>3, <2>4, <2>5 DEF PurgeShape, MishapsGrow
  <2>7. FlagsExplained' /\ FoundIsFlagged' /\ DueIsOld'
    BY <2>1, <2>3, <2>4 DEF FlagsExplained, FoundIsFlagged, DueIsOld, PurgeShape
  <2>8. RawPending' = RawPending /\ MailPending' = MailPending + Cardinality(uids)
    BY <2>1, <2>3, <2>4 DEF RawPending, MailPending
  <2>9. Cardinality(ClientTaken) + Cardinality(strays) <= Cardinality(ClientTaken')
    <3>1. ClientTaken \cap strays = {} /\ ClientTaken \cup strays \subseteq ClientTaken'
      BY <2>1, <2>3 DEF ClientTaken, PurgeShape
    <3>2. IsFiniteSet(ClientTaken) /\ IsFiniteSet(ClientTaken')
      BY <2>6, TakenIsFinite, TakenStaysFinite
    <3> HIDE DEF strays
    <3>3. Cardinality(ClientTaken \cup strays) = Cardinality(ClientTaken) + Cardinality(strays)
      <4>1. Cardinality(ClientTaken) \in Nat
        BY <3>2, FS_CardinalityType
      <4>2. Cardinality(ClientTaken \cup strays)
              = Cardinality(ClientTaken) + Cardinality(strays)
                  - Cardinality(ClientTaken \cap strays)
        BY <2>2, <3>2, FS_Union
      <4>3. Cardinality(ClientTaken \cap strays) = 0
        BY <3>1, FS_EmptySet
      <4> QED
        BY <2>2, <4>1, <4>2, <4>3
    <3> QED
      BY <3>1, <3>2, <3>3, FS_Subset
  <2>10. \A h \in Halves :
           /\ Beside(h)' \in Nat
           /\ Beside(h) + (IF h = "mail" THEN Cardinality(strays) ELSE 0) <= Beside(h)'
    BY <2>6, <2>9, TakenStaysFinite DEF Beside
  <2>11. TalliesMatch'
    <3> HIDE DEF strays
    <3> QED
      BY <1>0, <2>2, <2>3, <2>8, <2>10, TalliesGrow
  <2> QED
    BY <2>6, <2>7, <2>11
<1> QED
  BY <1>0, <1>1, <1>2, <1>3, <1>C, <1>4, <1>5, <1>6, <1>7, <1>8, <1>9, <1>10, <1>11
     DEF RetentionNext, PurgeStep

LEMMA PurgeStays == PurgeInv /\ [Next]_vars => PurgeInv'
<1> SUFFICES ASSUME PurgeInv, [Next]_vars PROVE PurgeInv'
  OBVIOUS
<1>1. MishapsGrow
  BY MishapsOnlyGrow DEF PurgeInv, PurgeShape
<1>2. CASE RetentionStep
  BY <1>1, <1>2, PurgeMoves DEF RetentionStep
<1>3. CASE UNCHANGED retentionVars
  <2>1. UNCHANGED <<mailState, mailAt, flagged, oldMail, foreign, raw, step, due, uids, folderNo,
                    total, tallies>>
    BY <1>3 DEF retentionVars, mailState, purge
  <2>2. PurgeShape' /\ FoundIsFlagged' /\ DueIsOld'
    BY <1>1, <2>1 DEF PurgeInv, PurgeShape, FoundIsFlagged, DueIsOld, In, Folder, MishapsGrow
  <2> QED
    BY <1>1, <2>1, <2>2, MailRests, TalliesRest DEF PurgeInv, RawPending, MailPending
<1> QED
  BY <1>2, <1>3
     DEF Next, vars, AccessStep, IntelStep, SelectorsStep, DigestStep, ExtractStep,
         ReadinessStep

(* A purge leaves no raw_xml behind that was old when it began, and the     *)
(* audit log claims no purge that did not happen and, without a mishap,     *)
(* misses none but the mail that clients had flagged.                       *)
THEOREM PurgeStaysTrue == Spec => []PurgeIsTrue
<1>1. Init => PurgeInv
  BY PurgeStarts
<1>2. PurgeInv /\ [Next]_vars => PurgeInv'
  BY PurgeStays
<1>3. PurgeInv => PurgeIsTrue
  BY PurgeInvIsTrue
<1> QED
  BY <1>1, <1>2, <1>3, PTL DEF Spec

(* The purge takes only what was old when its half began, or mail a client  *)
(* had flagged, although reports age and the poller fills the folders       *)
(* meanwhile and a purge that failed leaves its flags behind.               *)
THEOREM PurgeTakesOnlyOld == Spec => TakesOnlyOld
<1> DEFINE RawTaken ==
             \A x \in Raws : raw[x] # "null" /\ raw'[x] = "null" => x \in due /\ raw[x] = "old"
           MailTaken ==
             \A m \in Mails : mailAt[m] # "gone" /\ mailAt'[m] = "gone" =>
               m \in foreign \/ (m \in due \cap oldMail /\ mailAt[m] \in PurgedFolders)
<1>1. ASSUME PurgeInv, [Next]_vars
      PROVE  [RawTaken /\ MailTaken]_retentionVars
  <2> USE DEF PurgeInv
  <2>1. CASE PurgeOneBatch
    <3>1. /\ step = "raw" /\ UNCHANGED mailAt
          /\ \E batch \in SUBSET {x \in due : raw[x] # "null"} :
               raw' = [x \in Raws |-> IF x \in batch THEN "null" ELSE raw[x]]
      BY <2>1 DEF PurgeOneBatch, kSubset, mailState
    <3>2. RawTaken
      BY <1>1, <3>1 DEF DueIsOld, RawHalf, PurgeShape
    <3> QED
      BY <3>1, <3>2
  <2>2. CASE Expunge
    <3>1. /\ step = "expunge" /\ UNCHANGED raw
          /\ mailAt' = [m \in Mails |->
                          IF m \in In(Folder) \cap flagged THEN "gone" ELSE mailAt[m]]
      BY <2>2 DEF Expunge
    <3>2. flagged \subseteq due \cup foreign /\ due \subseteq oldMail
      BY <1>1, <3>1 DEF FoundIsFlagged, MailHalf
    <3>3. Folder \in PurgedFolders
      BY <1>1 DEF Folder, PurgedFolders, Purged, PurgeShape
    <3>4. MailTaken
      BY <1>1, <3>1, <3>2, <3>3 DEF In, PurgeShape
    <3> QED
      BY <3>1, <3>4
  <2>3. CASE RetentionNext /\ ~PurgeOneBatch /\ ~Expunge
    <3>1. \A x \in Raws : raw'[x] = "null" => raw[x] = "null"
      BY <1>1, <2>3 DEF RetentionNext, PurgeStep, ClientFlags, MailAges, FileMail, RawAges,
                  StartPurge, PurgeFails, Audit, AuditFails, ConnectMail, SelectAndSearch,
                  FlagDeleted, ExpungeFails, RetentionCrash, PurgeShape
    <3>2. \A m \in Mails : mailAt'[m] = "gone" => mailAt[m] = "gone"
      BY <1>1, <2>3 DEF RetentionNext, PurgeStep, ClientFlags, MailAges, FileMail, RawAges,
                  StartPurge, PurgeFails, Audit, AuditFails, ConnectMail, SelectAndSearch,
                  FlagDeleted, ExpungeFails, RetentionCrash, PurgeShape, mailState
    <3> QED
      BY <3>1, <3>2
  <2> QED
    BY <1>1, <2>1, <2>2, <2>3
       DEF Next, vars, AccessStep, IntelStep, SelectorsStep, RetentionStep, DigestStep,
           ExtractStep, ReadinessStep
<1>2. Init => PurgeInv
  BY PurgeStarts
<1>3. PurgeInv /\ [Next]_vars => PurgeInv'
  BY PurgeStays
<1> QED
  BY <1>1, <1>2, <1>3, PTL DEF Spec, TakesOnlyOld

-----------------------------------------------------------------------------
(* The senders.  A record that found no row is the one its row was made    *)
(* for, and no other handler waits to tell of that row.                    *)

SenderShape ==
  /\ faults \in Nat /\ crashes \in Nat
  /\ stored \in Seq(Reports) /\ DOMAIN rest = Reports
  /\ found \in [Reports -> {"none", "new", "known"}]
  /\ told \in [IPs -> Nat] /\ DOMAIN first = IPs
  /\ origin \in [IPs -> {"none", "live", "filled"}]

IsStored(r) == \E s \in Serials : stored[s] = r

OnlyStoredHandled == \A r \in Reports : rest[r] # <<>> \/ found[r] # "none" => IsStored(r)

Waits(r, ip) == found[r] = "new" /\ Record(r).ip = ip

NewIsFirst ==
  \A r \in Reports, ip \in IPs :
    Waits(r, ip) => origin[ip] = "live" /\ first[ip] = Record(r) /\ told[ip] = 0

OneWaits == \A r \in Reports, q \in Reports, ip \in IPs : Waits(r, ip) /\ Waits(q, ip) => r = q

SenderInv == SenderShape /\ OnlyStoredHandled /\ NewIsFirst /\ OneWaits /\ SenderTold

LEMMA SenderStarts == Init => SenderInv
<1> SUFFICES ASSUME Init PROVE SenderInv
  OBVIOUS
<1>1. SenderShape /\ OnlyStoredHandled /\ NewIsFirst /\ OneWaits
  BY DEF Init, IntelInit, MishapsInit, SenderShape, OnlyStoredHandled, NewIsFirst, OneWaits,
         Waits
<1>2. SenderTold
  BY DEF Init, IntelInit, SenderTold
<1> QED
  BY <1>1, <1>2 DEF SenderInv

\* The observers rest: nothing is told or asked for, and no row of theirs changes.
LEMMA ObserversRest ==
  ASSUME SenderInv, MishapsGrow, UNCHANGED <<stored, observer, first, told>>,
         origin' \in [IPs -> {"none", "live", "filled"}],
         \A ip \in IPs : origin'[ip] = "live" <=> origin[ip] = "live"
  PROVE  SenderInv'
<1> USE DEF SenderInv, observer
<1>1. SenderShape' /\ OnlyStoredHandled'
  BY DEF SenderShape, OnlyStoredHandled, IsStored, Serials, MishapsGrow
<1>2. NewIsFirst' /\ OneWaits'
  BY DEF NewIsFirst, OneWaits, Waits, Record
<1>3. SenderTold'
  BY DEF SenderShape, SenderTold, Record, MishapsGrow
<1> QED
  BY <1>1, <1>2, <1>3

LEMMA SenderMoves ==
  ASSUME SenderInv, MishapsGrow, IntelNext
  PROVE  SenderInv'
<1> USE DEF SenderInv
<1>1. ASSUME NEW r \in Reports, Store(r)
      PROVE  SenderInv'
  <2>1. /\ ~IsStored(r) /\ stored' = Append(stored, r)
        /\ rest' = [rest EXCEPT ![r] = RecordsOf[r]]
        /\ UNCHANGED <<found, msgCount, origin, first, told>>
    BY <1>1 DEF Store, IsStored, source
  <2>2. found[r] = "none"
    BY <2>1 DEF OnlyStoredHandled
  <2>3. SenderShape'
    BY <2>1 DEF SenderShape, MishapsGrow
  <2>4. OnlyStoredHandled'
    <3>1. /\ Serials' = 1..Len(stored) + 1 /\ Serials = 1..Len(stored) /\ Len(stored) \in Nat
          /\ stored'[Len(stored) + 1] = r /\ \A s \in Serials : stored'[s] = stored[s]
      BY <2>1 DEF SenderShape, Serials
    <3>2. ASSUME NEW q \in Reports, IsStored(q) \/ q = r
          PROVE  IsStored(q)'
      BY <3>1, <3>2 DEF IsStored
    <3>3. ASSUME NEW q \in Reports, q # r
          PROVE  rest'[q] = rest[q] /\ found'[q] = found[q]
      BY <2>1, <3>3 DEF SenderShape
    <3> QED
      BY <3>2, <3>3 DEF OnlyStoredHandled
  <2>5. \A q \in Reports, ip \in IPs : Waits(q, ip)' <=> Waits(q, ip)
    BY <2>1, <2>2 DEF Waits, Record, SenderShape
  <2>6. \A q \in Reports : found[q] = "new" => Record(q)' = Record(q)
    BY <2>1, <2>2 DEF Record, SenderShape
  <2>7. NewIsFirst' /\ OneWaits'
    BY <2>1, <2>5, <2>6 DEF NewIsFirst, OneWaits, Waits
  <2>8. SenderTold'
    BY <2>1, <2>6 DEF SenderTold, SenderShape, MishapsGrow
  <2> QED
    BY <2>3, <2>4, <2>7, <2>8
<1>2. ASSUME NEW r \in Reports, UpsertSource(r)
      PROVE  SenderInv'
  <2> DEFINE addr == Record(r).ip
  <2>1. /\ rest[r] # <<>> /\ found[r] = "none"
        /\ found' = [found EXCEPT ![r] = IF origin[addr] = "none" THEN "new" ELSE "known"]
        /\ origin' = [origin EXCEPT ![addr] = IF @ = "none" THEN "live" ELSE @]
        /\ first' = IF origin[addr] = "none" THEN [first EXCEPT ![addr] = Record(r)] ELSE first
        /\ UNCHANGED <<stored, rest, told>> /\ Well
    BY <1>2 DEF UpsertSource, Upserting
  <2> HIDE DEF addr
  <2>2. SenderShape'
    BY <2>1 DEF SenderShape, MishapsGrow
  <2>3. OnlyStoredHandled'
    BY <2>1 DEF SenderShape, OnlyStoredHandled, IsStored, Serials
  <2>4. \A q \in Reports : Record(q)' = Record(q)
    BY <2>1 DEF Record
  <2>5. ASSUME NEW q \in Reports, NEW ip \in IPs, q # r
        PROVE  Waits(q, ip)' <=> Waits(q, ip)
    BY <2>1, <2>4, <2>5 DEF Waits, SenderShape
  <2>6. ASSUME NEW ip \in IPs
        PROVE  Waits(r, ip)' <=> addr = ip /\ origin[ip] = "none"
    BY <2>1, <2>4 DEF Waits, SenderShape, addr
  <2>7. ASSUME NEW ip \in IPs, addr # ip \/ origin[ip] # "none"
        PROVE  origin'[ip] = origin[ip] /\ first'[ip] = first[ip]
    BY <2>1, <2>7 DEF SenderShape
  <2>8. ASSUME NEW ip \in IPs, addr = ip, origin[ip] = "none"
        PROVE  /\ origin'[ip] = "live" /\ first'[ip] = Record(r) /\ told[ip] = 0
               /\ \A q \in Reports : ~Waits(q, ip)
    BY <2>1, <2>8 DEF SenderShape, SenderTold, NewIsFirst
  <2>9. NewIsFirst'
    <3> SUFFICES ASSUME NEW q \in Reports, NEW ip \in IPs, Waits(q, ip)'
                 PROVE  origin'[ip] = "live" /\ first'[ip] = Record(q)' /\ told'[ip] = 0
      BY DEF NewIsFirst
    <3>1. CASE q = r
      BY <2>1, <2>4, <2>6, <2>8, <3>1
    <3>2. CASE q # r
      <4>1. Waits(q, ip) /\ origin[ip] = "live" /\ first[ip] = Record(q) /\ told[ip] = 0
        BY <2>5, <3>2 DEF NewIsFirst
      <4> QED
        BY <2>1, <2>4, <2>7, <4>1
    <3> QED
      BY <3>1, <3>2
  <2>10. OneWaits'
    <3> SUFFICES ASSUME NEW q \in Reports, NEW s \in Reports, NEW ip \in IPs,
                        Waits(q, ip)', Waits(s, ip)'
                 PROVE  q = s
      BY DEF OneWaits
    <3> QED
      BY <2>5, <2>6, <2>8 DEF OneWaits
  <2>11. SenderTold'
    <3> SUFFICES ASSUME NEW ip \in IPs
                 PROVE  /\ told[ip] <= 1
                        /\ told[ip] = 1 => origin'[ip] = "live" /\ Loud(first'[ip])
                        /\ origin'[ip] = "live" /\ Loud(first'[ip])
                             => \/ told[ip] = 1 \/ crashes' > 0
                                \/ \E q \in Reports : found'[q] = "new" /\ Record(q)'.ip = ip
      BY <2>1 DEF SenderTold
    <3>1. CASE addr = ip /\ origin[ip] = "none"
      BY <2>6, <2>8, <3>1 DEF Waits
    <3>2. CASE ~(addr = ip /\ origin[ip] = "none")
      <4>1. origin'[ip] = origin[ip] /\ first'[ip] = first[ip]
        BY <2>7, <3>2
      <4>2. \A q \in Reports : Waits(q, ip) => Waits(q, ip)'
        BY <2>1, <2>5 DEF Waits
      <4> QED
        BY <4>1, <4>2 DEF SenderTold, Waits, SenderShape, MishapsGrow
    <3> QED
      BY <3>1, <3>2
  <2> QED
    BY <2>2, <2>3, <2>9, <2>10, <2>11
<1>3. ASSUME NEW r \in Reports, TellSender(r)
      PROVE  SenderInv'
  <2> DEFINE addr == Record(r).ip
  <2>1. /\ found[r] # "none" /\ found' = [found EXCEPT ![r] = "none"]
        /\ told' = IF Announces(r) THEN [told EXCEPT ![addr] = @ + 1] ELSE told
        /\ rest' = [rest EXCEPT ![r] = Tail(@)]
        /\ UNCHANGED <<stored, origin, first>> /\ Well
    BY <1>3 DEF TellSender, NextRecord, source
  <2> HIDE DEF addr
  <2>2. SenderShape'
    <3>1. told' \in [IPs -> Nat]
      <4>1. told \in [IPs -> Nat]
        BY DEF SenderShape
      <4>2. CASE addr \in IPs
        BY <2>1, <4>1, <4>2
      <4>3. CASE addr \notin IPs
        BY <2>1, <4>1, <4>3
      <4> QED
        BY <4>2, <4>3
    <3> QED
      BY <2>1, <3>1 DEF SenderShape, MishapsGrow
  <2>3. OnlyStoredHandled'
    BY <2>1 DEF SenderShape, OnlyStoredHandled, IsStored, Serials
  <2>4. ASSUME NEW q \in Reports, q # r
        PROVE  found'[q] = found[q] /\ Record(q)' = Record(q)
    BY <2>1, <2>4 DEF Record, SenderShape
  <2>5. found'[r] = "none"
    BY <2>1 DEF SenderShape
  <2>6. ASSUME NEW ip \in IPs, ~(Announces(r) /\ addr = ip)
        PROVE  told'[ip] = told[ip]
    BY <2>1, <2>6 DEF SenderShape
  <2>7. ASSUME NEW ip \in IPs, Announces(r), addr = ip
        PROVE  /\ Waits(r, ip) /\ told[ip] = 0 /\ told'[ip] = 1
               /\ origin[ip] = "live" /\ Loud(first[ip])
    <3>1. Waits(r, ip) /\ Loud(Record(r))
      BY <2>7 DEF Announces, Waits, addr
    <3> QED
      BY <2>1, <2>7, <3>1 DEF SenderShape, NewIsFirst
  <2>8. NewIsFirst' /\ OneWaits'
    <3>1. ASSUME NEW q \in Reports, NEW ip \in IPs, Waits(q, ip)'
          PROVE  Waits(q, ip) /\ q # r /\ Record(q)' = Record(q) /\ told'[ip] = told[ip]
      <4>1. q # r /\ Waits(q, ip)
        BY <2>4, <2>5, <3>1 DEF Waits
      <4>2. ~(Announces(r) /\ addr = ip)
        BY <2>7, <4>1 DEF OneWaits
      <4> QED
        BY <2>4, <2>6, <4>1, <4>2
    <3> QED
      BY <2>1, <3>1 DEF NewIsFirst, OneWaits
  <2>9. SenderTold'
    <3> SUFFICES ASSUME NEW ip \in IPs
                 PROVE  /\ told'[ip] <= 1
                        /\ told'[ip] = 1 => origin[ip] = "live" /\ Loud(first[ip])
                        /\ origin[ip] = "live" /\ Loud(first[ip])
                             => \/ told'[ip] = 1 \/ crashes' > 0
                                \/ \E q \in Reports : found'[q] = "new" /\ Record(q)'.ip = ip
      BY <2>1 DEF SenderTold
    <3>1. CASE Announces(r) /\ addr = ip
      BY <2>7, <3>1
    <3>2. CASE ~(Announces(r) /\ addr = ip)
      <4>1. told'[ip] = told[ip]
        BY <2>6, <3>2
      <4>2. Waits(r, ip) => ~Loud(first[ip])
        BY <3>2 DEF Waits, Announces, NewIsFirst, addr
      <4>3. ASSUME NEW q \in Reports, Waits(q, ip), Loud(first[ip])
            PROVE  found'[q] = "new" /\ Record(q)'.ip = ip
        BY <2>4, <4>2, <4>3 DEF Waits
      <4> QED
        BY <4>1, <4>3 DEF SenderTold, Waits, SenderShape, MishapsGrow
    <3> QED
      BY <3>1, <3>2
  <2> QED
    BY <2>2, <2>3, <2>8, <2>9
<1>4. ASSUME NEW r \in Reports, UpsertSourceFails(r) \/ SkipRecord(r)
      PROVE  SenderInv'
  <2>1. /\ rest[r] # <<>> /\ found[r] = "none" /\ rest' = [rest EXCEPT ![r] = Tail(@)]
        /\ UNCHANGED <<stored, found, origin, first, told>>
    BY <1>4 DEF UpsertSourceFails, SkipRecord, Upserting, NextRecord, source
  <2>2. SenderShape' /\ OnlyStoredHandled'
    BY <2>1 DEF SenderShape, OnlyStoredHandled, IsStored, Serials, MishapsGrow
  <2>3. \A q \in Reports : found[q] = "new" => Record(q)' = Record(q)
    BY <2>1 DEF Record, SenderShape
  <2>4. NewIsFirst' /\ OneWaits'
    BY <2>1, <2>3 DEF NewIsFirst, OneWaits, Waits
  <2>5. SenderTold'
    BY <2>1, <2>3 DEF SenderTold, SenderShape, MishapsGrow
  <2> QED
    BY <2>2, <2>4, <2>5
<1>5. ASSUME NEW w \in Enrichers, Enrich(w) \/ TakeTaskFails(w) \/ UpsertMetaFails(w)
      PROVE  SenderInv'
  BY <1>5, ObserversRest
     DEF Enrich, TakeTask, UpsertMeta, TakeTaskFails, UpsertMetaFails, source, SenderShape
<1>6. ASSUME NEW ip \in IPs, Expire(ip)
      PROVE  SenderInv'
  BY <1>6, ObserversRest DEF Expire, source, SenderShape
<1>7. CASE SweepStep \/ SweepFails
  BY <1>7, ObserversRest
     DEF SweepStep, Sweep, SweepEnqueue, SweepFails, intelVars, source, SenderShape
<1>8. CASE Fill
  <2>1. CASE FillBatch
    BY <2>1, ObserversRest DEF FillBatch, SenderShape
  <2>2. CASE StartFill \/ SeedMeta \/ FillFails
    BY <2>2, ObserversRest DEF StartFill, SeedMeta, FillFails, source, SenderShape
  <2> QED
    BY <1>8, <2>1, <2>2 DEF Fill
<1>9. CASE IntelCrash
  <2>1. /\ rest' = [r \in Reports |-> <<>>] /\ found' = [r \in Reports |-> "none"]
        /\ UNCHANGED <<stored, origin, first, told>> /\ crashes' > 0
    BY <1>9 DEF IntelCrash, Crash, source, SenderShape
  <2>2. SenderShape' /\ OnlyStoredHandled' /\ NewIsFirst' /\ OneWaits'
    BY <2>1 DEF SenderShape, OnlyStoredHandled, NewIsFirst, OneWaits, Waits, MishapsGrow
  <2>3. SenderTold'
    BY <2>1 DEF SenderTold
  <2> QED
    BY <2>2, <2>3
<1> QED
  BY <1>1, <1>2, <1>3, <1>4, <1>5, <1>6, <1>7, <1>8, <1>9 DEF IntelNext, Observe

LEMMA SenderStays == SenderInv /\ [Next]_vars => SenderInv'
<1> SUFFICES ASSUME SenderInv, [Next]_vars PROVE SenderInv'
  OBVIOUS
<1>1. MishapsGrow
  BY MishapsOnlyGrow DEF SenderInv, SenderShape
<1>2. CASE IntelStep
  BY <1>1, <1>2, SenderMoves DEF IntelStep
<1>3. CASE UNCHANGED intelVars
  BY <1>1, <1>3, ObserversRest DEF intelVars, source, SenderInv, SenderShape
<1> QED
  BY <1>2, <1>3
     DEF Next, vars, AccessStep, SelectorsStep, RetentionStep, DigestStep, ExtractStep,
         ReadinessStep

(* sender.new is told at most once per pair and only of a loud record that *)
(* created its row, and no such record is missed but for a crash, however  *)
(* handlers, workers, sweeps and fills interleave.                         *)
THEOREM SenderToldOnce == Spec => []SenderTold
<1>1. Init => SenderInv
  BY SenderStarts
<1>2. SenderInv /\ [Next]_vars => SenderInv'
  BY SenderStays
<1>3. SenderInv => SenderTold
  BY DEF SenderInv
<1> QED
  BY <1>1, <1>2, <1>3, PTL DEF Spec

-----------------------------------------------------------------------------
(* The sums of domain_source.  What an observer still has of a report is   *)
(* the end of its records, so a record it counts was not counted before;   *)
(* and the batches of a fill do not overlap.                               *)

SentRecord == [ip : IPs \cup {None}, msgs : Nat, aligned : BOOLEAN]
Places == {x \in Reports \X Nat : x[2] \in 1..Len(RecordsOf[x[1]])}
SentAt == [x \in Places |-> RecordsOf[x[1]][x[2]].msgs]
SentBy(ip, S) == {x \in S : RecordsOf[x[1]][x[2]].ip = ip}
MessagesOf(ip) == [r \in Reports |-> Messages(r, ip)]
Filled(c, ip) == [r \in Reports |-> c[r] * Messages(r, ip)]

SourceShape ==
  /\ stored \in Seq(Reports) /\ \A s, t \in Serials : stored[s] = stored[t] => s = t
  /\ rest \in [Reports -> Seq(SentRecord)] /\ found \in [Reports -> {"none", "new", "known"}]
  /\ msgCount \in [IPs -> Nat] /\ covered \in [Reports -> Nat]
  /\ live \subseteq Places /\ IsFiniteSet(live)
  /\ fillAt \in {"off", "batch", "done"} /\ from \in Nat /\ maxSerial \in Nat /\ fills \in Nat

RestIsEnd ==
  \A r \in Reports :
    /\ Len(rest[r]) <= Len(RecordsOf[r])
    /\ \A i \in 1..Len(rest[r]) :
         rest[r][i] = RecordsOf[r][Len(RecordsOf[r]) - Len(rest[r]) + i]
    /\ found[r] # "none" => rest[r] # <<>>
    /\ rest[r] # <<>> => IsStored(r)

LiveIsBehind ==
  \A x \in live :
    /\ IsStored(x[1])
    /\ x[2] <= Place(x[1])[2]
    /\ x[2] = Place(x[1])[2] => found[x[1]] # "none"

MessagesAddUp ==
  \A ip \in IPs :
    msgCount[ip] = Weigh(SentAt, SentBy(ip, live)) + Weigh(Filled(covered, ip), Reports)

FillIsExact ==
  /\ \A r \in Reports : covered[r] <= fills /\ (~IsStored(r) => covered[r] = 0)
  /\ fillAt # "off" => maxSerial <= Len(stored) /\ fills > 0
  /\ fillAt = "batch" => \A s \in Serials : s > from => covered[stored[s]] < fills
  /\ fillAt # "off" =>
       \A s \in 1..maxSerial : fillAt = "done" \/ s <= from => covered[stored[s]] >= 1

SourceInv == SourceShape /\ RestIsEnd /\ LiveIsBehind /\ MessagesAddUp /\ FillIsExact

LEMMA IntelConstants ==
  /\ IsFiniteSet(Reports) /\ RecordsOf \in [Reports -> Seq(SentRecord)]
  /\ None \notin IPs /\ BackfillStep \in Nat /\ BackfillStep > 0 /\ MaxFills \in Nat
<1>1. BackfillStep \in Nat \ {0} /\ MaxFills \in Nat
  BY IntelAssumption DEF IntelAssumption
<1>2. /\ IsFiniteSet(Reports) /\ RecordsOf \in [Reports -> Seq(SentRecord)]
      /\ None \notin IPs
  BY IntelAssumption DEF IntelAssumption, SentRecord
<1> QED
  BY <1>1, <1>2

LEMMA SentIsNat == \A x \in Places : SentAt[x] \in Nat /\ SentAt[x] = RecordsOf[x[1]][x[2]].msgs
<1> SUFFICES ASSUME NEW x \in Places
             PROVE  RecordsOf[x[1]][x[2]].msgs \in Nat
  BY DEF SentAt
<1>1. RecordsOf[x[1]] \in Seq(SentRecord) /\ x[2] \in 1..Len(RecordsOf[x[1]])
  BY IntelConstants DEF Places
<1>2. RecordsOf[x[1]][x[2]] \in SentRecord
  BY <1>1
<1> QED
  BY <1>2 DEF SentRecord

(* The sums of the model are sums of weights.                              *)

AddsSent(g, S) ==
  g = [s \in SUBSET S |->
         IF s = {} THEN 0 ELSE RecordsOf[Pick(s)[1]][Pick(s)[2]].msgs + g[s \ {Pick(s)}]]

LEMMA SentAreWeights ==
  ASSUME NEW S \in SUBSET Places
  PROVE  MapThenSumSet(LAMBDA x : RecordsOf[x[1]][x[2]].msgs, S) = Weigh(SentAt, S)
<1>1. MapThenSumSet(LAMBDA x : RecordsOf[x[1]][x[2]].msgs, S) = (CHOOSE g : AddsSent(g, S))[S]
  BY DEF MapThenSumSet, MapThenFoldSet, AddsSent, Pick
<1>2. ASSUME NEW g PROVE AddsSent(g, S) <=> Adds(g, SentAt, S)
  <2>1. \A s \in SUBSET S : s # {} => SentAt[Pick(s)] = RecordsOf[Pick(s)[1]][Pick(s)[2]].msgs
    BY PickIsIn, SentIsNat
  <2> QED
    BY <2>1 DEF AddsSent, Adds
<1>3. (CHOOSE g : AddsSent(g, S)) = (CHOOSE g : Adds(g, SentAt, S))
  BY <1>2, Zenon
<1>4. Weigh(SentAt, S) = (CHOOSE g : Adds(g, SentAt, S))[S]
  BY WeighIsFold
<1> QED
  BY <1>1, <1>3, <1>4

AddsRecords(g, r, S) ==
  g = [s \in SUBSET S |->
         IF s = {} THEN 0 ELSE RecordsOf[r][Pick(s)].msgs + g[s \ {Pick(s)}]]

LEMMA MessagesAreNat == ASSUME NEW r \in Reports, NEW ip PROVE Messages(r, ip) \in Nat
<1> DEFINE S == Of(r, ip)
           w == [i \in S |-> RecordsOf[r][i].msgs]
<1>1. RecordsOf[r] \in Seq(SentRecord)
  BY IntelConstants
<1>2. S \subseteq 1..Len(RecordsOf[r]) /\ Len(RecordsOf[r]) \in Nat
  BY <1>1 DEF Of
<1>3. IsFiniteSet(S)
  <2>1. IsFiniteSet(1..Len(RecordsOf[r]))
    BY <1>2, FS_Interval
  <2> HIDE DEF S
  <2> QED
    BY <1>2, <2>1, FS_Subset
<1>4. \A i \in S : w[i] \in Nat
  <2> SUFFICES ASSUME NEW i \in S PROVE RecordsOf[r][i].msgs \in Nat
    OBVIOUS
  <2>1. i \in 1..Len(RecordsOf[r])
    BY <1>2
  <2>2. RecordsOf[r][i] \in SentRecord
    BY <1>1, <2>1
  <2> QED
    BY <2>2 DEF SentRecord
<1>5. Messages(r, ip) = (CHOOSE g : AddsRecords(g, r, S))[S]
  BY DEF Messages, MapThenSumSet, MapThenFoldSet, AddsRecords, Pick
<1>6. ASSUME NEW g PROVE AddsRecords(g, r, S) <=> Adds(g, w, S)
  <2>1. \A s \in SUBSET S : s # {} => w[Pick(s)] = RecordsOf[r][Pick(s)].msgs
    BY PickIsIn
  <2> HIDE DEF w, S
  <2> QED
    BY <2>1 DEF AddsRecords, Adds
<1> HIDE DEF w, S
<1>7. (CHOOSE g : AddsRecords(g, r, S)) = (CHOOSE g : Adds(g, w, S))
  BY <1>6, Zenon
<1>8. Weigh(w, S) = (CHOOSE g : Adds(g, w, S))[S]
  BY WeighIsFold
<1> QED
  BY <1>3, <1>4, <1>5, <1>7, <1>8, SumIsNat

AddsMessages(g, ip, S) ==
  g = [s \in SUBSET S |-> IF s = {} THEN 0 ELSE Messages(Pick(s), ip) + g[s \ {Pick(s)}]]

LEMMA MessagesAreWeights ==
  ASSUME NEW ip, NEW S \in SUBSET Reports
  PROVE  MapThenSumSet(LAMBDA r : Messages(r, ip), S) = Weigh(MessagesOf(ip), S)
<1>1. MapThenSumSet(LAMBDA r : Messages(r, ip), S) = (CHOOSE g : AddsMessages(g, ip, S))[S]
  BY DEF MapThenSumSet, MapThenFoldSet, AddsMessages, Pick
<1>2. ASSUME NEW g PROVE AddsMessages(g, ip, S) <=> Adds(g, MessagesOf(ip), S)
  <2>1. \A s \in SUBSET S : s # {} => MessagesOf(ip)[Pick(s)] = Messages(Pick(s), ip)
    BY PickIsIn DEF MessagesOf
  <2> QED
    BY <2>1 DEF AddsMessages, Adds
<1>3. (CHOOSE g : AddsMessages(g, ip, S)) = (CHOOSE g : Adds(g, MessagesOf(ip), S))
  BY <1>2, Zenon
<1>4. Weigh(MessagesOf(ip), S) = (CHOOSE g : Adds(g, MessagesOf(ip), S))[S]
  BY WeighIsFold
<1> QED
  BY <1>1, <1>3, <1>4

AddsFilled(g, c, ip, S) ==
  g = [s \in SUBSET S |->
         IF s = {} THEN 0 ELSE c[Pick(s)] * Messages(Pick(s), ip) + g[s \ {Pick(s)}]]

LEMMA FilledAreWeights ==
  ASSUME NEW c, NEW ip
  PROVE  MapThenSumSet(LAMBDA r : c[r] * Messages(r, ip), Reports) = Weigh(Filled(c, ip), Reports)
<1>1. MapThenSumSet(LAMBDA r : c[r] * Messages(r, ip), Reports)
      = (CHOOSE g : AddsFilled(g, c, ip, Reports))[Reports]
  BY DEF MapThenSumSet, MapThenFoldSet, AddsFilled, Pick
<1>2. ASSUME NEW g PROVE AddsFilled(g, c, ip, Reports) <=> Adds(g, Filled(c, ip), Reports)
  <2>1. \A s \in SUBSET Reports :
          s # {} => Filled(c, ip)[Pick(s)] = c[Pick(s)] * Messages(Pick(s), ip)
    BY PickIsIn DEF Filled
  <2> QED
    BY <2>1 DEF AddsFilled, Adds
<1>3. (CHOOSE g : AddsFilled(g, c, ip, Reports)) = (CHOOSE g : Adds(g, Filled(c, ip), Reports))
  BY <1>2, Zenon
<1>4. Weigh(Filled(c, ip), Reports) = (CHOOSE g : Adds(g, Filled(c, ip), Reports))[Reports]
  BY WeighIsFold
<1> QED
  BY <1>1, <1>3, <1>4

LEMMA SumsAreTrue == SourceInv => SourcesAddUp
<1> SUFFICES ASSUME SourceInv PROVE SourcesAddUp
  OBVIOUS
<1>1. ASSUME NEW ip \in IPs
      PROVE  msgCount[ip] =
               MapThenSumSet(LAMBDA x : RecordsOf[x[1]][x[2]].msgs,
                             {x \in live : RecordsOf[x[1]][x[2]].ip = ip})
               + MapThenSumSet(LAMBDA r : covered[r] * Messages(r, ip), Reports)
  <2>1. SentBy(ip, live) \in SUBSET Places
    BY DEF SourceInv, SourceShape, SentBy
  <2>2. MapThenSumSet(LAMBDA x : RecordsOf[x[1]][x[2]].msgs, SentBy(ip, live))
        = Weigh(SentAt, SentBy(ip, live))
    BY <2>1, SentAreWeights
  <2>3. MapThenSumSet(LAMBDA r : covered[r] * Messages(r, ip), Reports)
        = Weigh(Filled(covered, ip), Reports)
    BY FilledAreWeights
  <2>4. msgCount[ip] = Weigh(SentAt, SentBy(ip, live)) + Weigh(Filled(covered, ip), Reports)
    BY DEF SourceInv, MessagesAddUp
  <2> QED
    BY <2>2, <2>3, <2>4 DEF SentBy
<1>2. \A r \in Reports : covered[r] <= fills
  BY DEF SourceInv, FillIsExact
<1>3. fillAt = "done" => \A s \in 1..maxSerial : covered[stored[s]] >= 1
  BY DEF SourceInv, FillIsExact
<1> QED
  BY <1>1, <1>2, <1>3 DEF SourcesAddUp

LEMMA SourceStarts == Init => SourceInv
<1> SUFFICES ASSUME Init PROVE SourceInv
  OBVIOUS
<1>1. /\ stored = <<>> /\ rest = [r \in Reports |-> <<>>] /\ found = [r \in Reports |-> "none"]
      /\ msgCount = [ip \in IPs |-> 0] /\ covered = [r \in Reports |-> 0] /\ live = {}
      /\ fillAt = "off" /\ from = 0 /\ maxSerial = 0 /\ fills = 0
  BY DEF Init, IntelInit
<1>2. SourceShape
  BY <1>1, FS_EmptySet DEF SourceShape, Serials
<1>3. RestIsEnd
  <2> SUFFICES ASSUME NEW r \in Reports
               PROVE  0 <= Len(RecordsOf[r])
    BY <1>1 DEF RestIsEnd
  <2>1. RecordsOf[r] \in Seq(SentRecord)
    BY IntelConstants
  <2> QED
    BY <2>1
<1>4. LiveIsBehind /\ FillIsExact
  BY <1>1 DEF LiveIsBehind, FillIsExact, Serials
<1>5. MessagesAddUp
  <2> SUFFICES ASSUME NEW ip \in IPs
               PROVE  0 = Weigh(SentAt, SentBy(ip, live)) + Weigh(Filled(covered, ip), Reports)
    BY <1>1 DEF MessagesAddUp
  <2>1. SentBy(ip, live) = {}
    BY <1>1 DEF SentBy
  <2>2. Weigh(SentAt, {}) = 0
    BY SumEmpty
  <2>3. \A r \in Reports : Filled(covered, ip)[r] = 0
    BY <1>1, MessagesAreNat DEF Filled
  <2>4. Weigh(Filled(covered, ip), Reports) = 0
    BY <2>3, IntelConstants, SumZero
  <2> QED
    BY <2>1, <2>2, <2>4
<1> QED
  BY <1>2, <1>3, <1>4, <1>5 DEF SourceInv

(* Steps that count nothing.                                               *)

LEMMA SourcesRest ==
  ASSUME SourceInv, UNCHANGED <<stored, rest, found, msgCount, fill, live>>
  PROVE  SourceInv'
<1>1. UNCHANGED <<fillAt, from, maxSerial, fills, covered>>
  BY DEF fill
<1>2. SourceShape'
  BY <1>1 DEF SourceInv, SourceShape, Serials
<1>3. RestIsEnd'
  BY DEF SourceInv, RestIsEnd, IsStored, Serials
<1>4. LiveIsBehind'
  BY DEF SourceInv, LiveIsBehind, IsStored, Serials, Place
<1>5. MessagesAddUp' /\ FillIsExact'
  BY <1>1 DEF SourceInv, MessagesAddUp, FillIsExact, IsStored, Serials
<1> QED
  BY <1>2, <1>3, <1>4, <1>5 DEF SourceInv

LEMMA StoreCountsNothing ==
  ASSUME SourceInv, NEW r \in Reports, Store(r)
  PROVE  SourceInv'
<1> USE DEF SourceInv
<1>1. /\ ~IsStored(r) /\ stored' = Append(stored, r)
      /\ rest' = [rest EXCEPT ![r] = RecordsOf[r]]
      /\ UNCHANGED <<found, msgCount, live, fillAt, from, maxSerial, fills, covered>>
  BY DEF Store, IsStored, source, fill
<1>2. RecordsOf[r] \in Seq(SentRecord)
  BY IntelConstants
<1>3. /\ Len(stored) \in Nat /\ Len(stored') = Len(stored) + 1
      /\ Serials = 1..Len(stored) /\ Serials' = 1..(Len(stored) + 1)
      /\ stored'[Len(stored) + 1] = r /\ \A s \in Serials : stored'[s] = stored[s] /\ stored[s] # r
  BY <1>1 DEF SourceShape, Serials, IsStored
<1>4. \A q \in Reports : IsStored(q)' <=> IsStored(q) \/ q = r
  BY <1>3 DEF IsStored
<1>5. SourceShape'
  <2>1. stored' \in Seq(Reports) /\ rest' \in [Reports -> Seq(SentRecord)]
    BY <1>1, <1>2 DEF SourceShape
  <2>2. ASSUME NEW s \in Serials', NEW t \in Serials', stored'[s] = stored'[t]
        PROVE  s = t
    <3>1. CASE s \in Serials /\ t \in Serials
      <4>1. stored[s] = stored[t]
        BY <1>3, <2>2, <3>1
      <4> QED
        BY <3>1, <4>1 DEF SourceShape
    <3>2. CASE s = Len(stored) + 1 \/ t = Len(stored) + 1
      BY <1>3, <2>2, <3>2
    <3> QED
      BY <1>3, <3>1, <3>2
  <2> QED
    BY <1>1, <2>1, <2>2 DEF SourceShape
<1>6. found[r] = "none"
  BY <1>1 DEF RestIsEnd
<1>7. ASSUME NEW q \in Reports, q # r
      PROVE  rest'[q] = rest[q]
  BY <1>1, <1>7 DEF SourceShape
<1>8. rest'[r] = RecordsOf[r]
  BY <1>1 DEF SourceShape
<1>9. RestIsEnd'
  <2> SUFFICES ASSUME NEW q \in Reports
               PROVE  /\ Len(rest'[q]) <= Len(RecordsOf[q])
                      /\ \A i \in 1..Len(rest'[q]) :
                           rest'[q][i] = RecordsOf[q][Len(RecordsOf[q]) - Len(rest'[q]) + i]
                      /\ found[q] # "none" => rest'[q] # <<>>
                      /\ rest'[q] # <<>> => IsStored(q)'
    BY <1>1 DEF RestIsEnd
  <2>1. CASE q = r
    <3>1. /\ Len(RecordsOf[r]) \in Nat
          /\ \A i \in 1..Len(RecordsOf[r]) : Len(RecordsOf[r]) - Len(RecordsOf[r]) + i = i
      BY <1>2
    <3> QED
      BY <1>4, <1>6, <1>8, <2>1, <3>1
  <2>2. CASE q # r
    <3>1. /\ rest'[q] = rest[q]
          /\ found'[q] = found[q]
          /\ IsStored(q) => IsStored(q)'
      BY <1>1, <1>4, <1>7, <2>2
    <3>2. /\ Len(rest[q]) <= Len(RecordsOf[q])
          /\ \A i \in 1..Len(rest[q]) :
               rest[q][i] = RecordsOf[q][Len(RecordsOf[q]) - Len(rest[q]) + i]
          /\ found[q] # "none" => rest[q] # <<>>
          /\ rest[q] # <<>> => IsStored(q)
      BY DEF RestIsEnd
    <3> QED
      BY <3>1, <3>2
  <2> QED
    BY <2>1, <2>2
<1>10. LiveIsBehind'
  <2> SUFFICES ASSUME NEW x \in live
               PROVE  /\ IsStored(x[1])'
                      /\ x[2] <= Place(x[1])'[2]
                      /\ x[2] = Place(x[1])'[2] => found[x[1]] # "none"
    BY <1>1 DEF LiveIsBehind
  <2>1. x[1] \in Reports /\ IsStored(x[1]) /\ x[1] # r
    BY <1>1 DEF LiveIsBehind, SourceShape, Places
  <2> QED
    BY <1>4, <1>7, <2>1 DEF LiveIsBehind, Place
<1>11. MessagesAddUp'
  BY <1>1 DEF MessagesAddUp
<1>12. FillIsExact'
  <2>1. \A q \in Reports : covered'[q] <= fills' /\ (~IsStored(q)' => covered'[q] = 0)
    BY <1>1, <1>4 DEF FillIsExact
  <2>2. fillAt' # "off" => maxSerial' <= Len(stored') /\ fills' > 0
    BY <1>1, <1>3 DEF FillIsExact, SourceShape
  <2>3. ASSUME fillAt = "batch", NEW s \in Serials', s > from
        PROVE  covered[stored'[s]] < fills
    <3>1. CASE s \in Serials
      BY <1>3, <2>3, <3>1 DEF FillIsExact
    <3>2. CASE s = Len(stored) + 1
      <4>1. covered[r] = 0 /\ fills > 0
        BY <1>1, <2>3 DEF FillIsExact
      <4> QED
        BY <1>3, <3>2, <4>1
    <3> QED
      BY <1>3, <3>1, <3>2
  <2>4. ASSUME fillAt # "off", NEW s \in 1..maxSerial, fillAt = "done" \/ s <= from
        PROVE  covered[stored'[s]] >= 1
    <3>1. s \in Serials
      BY <1>3, <2>4 DEF FillIsExact, SourceShape
    <3> QED
      BY <1>3, <2>4, <3>1 DEF FillIsExact
  <2> QED
    BY <1>1, <2>1, <2>2, <2>3, <2>4 DEF FillIsExact
<1> QED
  BY <1>5, <1>9, <1>10, <1>11, <1>12

\* What advances in a report keeps what is left the end of its records.
LEMMA AdvanceCountsNothing ==
  ASSUME SourceInv, NEW r \in Reports, rest[r] # <<>>,
         rest' = [rest EXCEPT ![r] = Tail(@)], found' = [found EXCEPT ![r] = "none"],
         UNCHANGED <<stored, msgCount, fill, live>>
  PROVE  SourceInv'
<1> USE DEF SourceInv
<1>1. UNCHANGED <<fillAt, from, maxSerial, fills, covered>>
  BY DEF fill
<1>2. RecordsOf[r] \in Seq(SentRecord) /\ rest[r] \in Seq(SentRecord)
  BY IntelConstants DEF SourceShape
<1>3. /\ rest'[r] = Tail(rest[r]) /\ found'[r] = "none"
      /\ \A q \in Reports : q # r => rest'[q] = rest[q] /\ found'[q] = found[q]
  BY DEF SourceShape
<1>4. /\ Len(rest[r]) \in Nat /\ Len(rest[r]) > 0 /\ Len(RecordsOf[r]) \in Nat
      /\ rest'[r] \in Seq(SentRecord) /\ Len(rest'[r]) = Len(rest[r]) - 1
  <2>1. Len(rest[r]) \in Nat /\ Len(rest[r]) > 0 /\ Len(RecordsOf[r]) \in Nat
    BY <1>2, EmptySeq
  <2>2. Tail(rest[r]) \in Seq(SentRecord) /\ Len(Tail(rest[r])) = Len(rest[r]) - 1
    BY <1>2, HeadTailProperties
  <2> QED
    BY <1>3, <2>1, <2>2
<1>10. \A i \in 1..Len(rest'[r]) : rest'[r][i] = rest[r][i + 1]
  <2>1. \A i \in 1..Len(Tail(rest[r])) : Tail(rest[r])[i] = rest[r][i + 1]
    BY <1>2, HeadTailProperties
  <2> QED
    BY <1>3, <2>1
<1>5. SourceShape'
  <2>1. rest' \in [Reports -> Seq(SentRecord)] /\ found' \in [Reports -> {"none", "new", "known"}]
    BY <1>2, <1>4 DEF SourceShape
  <2> QED
    BY <1>1, <2>1 DEF SourceShape, Serials
<1>6. \A q \in Reports : IsStored(q)' <=> IsStored(q)
  BY DEF IsStored, Serials
<1>7. RestIsEnd'
  <2> SUFFICES ASSUME NEW q \in Reports
               PROVE  /\ Len(rest'[q]) <= Len(RecordsOf[q])
                      /\ \A i \in 1..Len(rest'[q]) :
                           rest'[q][i] = RecordsOf[q][Len(RecordsOf[q]) - Len(rest'[q]) + i]
                      /\ found'[q] # "none" => rest'[q] # <<>>
                      /\ rest'[q] # <<>> => IsStored(q)'
    BY DEF RestIsEnd
  <2>1. CASE q = r
    <3>1. Len(rest[r]) <= Len(RecordsOf[r]) /\ IsStored(r)
      BY DEF RestIsEnd
    <3>2. ASSUME NEW i \in 1..Len(rest'[r])
          PROVE  rest'[r][i] = RecordsOf[r][Len(RecordsOf[r]) - Len(rest'[r]) + i]
      <4>1. i + 1 \in 1..Len(rest[r])
        <5>1. \A n \in Nat : \A j \in 1..(n - 1) : j + 1 \in 1..n
          OBVIOUS
        <5> DEFINE n == Len(rest[r])
                   m == Len(rest'[r])
        <5>2. n \in Nat /\ m = n - 1 /\ i \in 1..m
          BY <1>4
        <5> HIDE DEF n, m
        <5>3. i + 1 \in 1..n
          BY <5>1, <5>2
        <5> QED
          BY <5>3 DEF n
      <4>2. rest[r][i + 1] = RecordsOf[r][Len(RecordsOf[r]) - Len(rest[r]) + (i + 1)]
        BY <4>1 DEF RestIsEnd
      <4>3. Len(RecordsOf[r]) - Len(rest[r]) + (i + 1) = Len(RecordsOf[r]) - Len(rest'[r]) + i
        <5>1. \A k, l, m \in Int : m = l - 1 => k - l + (i + 1) = k - m + i
          OBVIOUS
        <5> DEFINE n == Len(rest[r])
                   m == Len(rest'[r])
                   k == Len(RecordsOf[r])
        <5>2. n \in Nat /\ k \in Nat /\ m = n - 1
          BY <1>4
        <5> HIDE DEF n, m, k
        <5>3. n \in Int /\ k \in Int /\ m \in Int
          BY <5>2
        <5>4. k - n + (i + 1) = k - m + i
          BY <5>1, <5>2, <5>3
        <5> QED
          BY <5>4 DEF n, m, k
      <4> QED
        BY <1>10, <4>2, <4>3
    <3> QED
      <4>1. Len(rest'[r]) <= Len(RecordsOf[r])
        BY <1>4, <3>1
      <4> QED
        BY <1>3, <1>6, <2>1, <3>1, <3>2, <4>1
  <2>2. CASE q # r
    <3>1. rest'[q] = rest[q] /\ found'[q] = found[q] /\ (IsStored(q)' <=> IsStored(q))
      BY <1>3, <1>6, <2>2
    <3>2. /\ Len(rest[q]) <= Len(RecordsOf[q])
          /\ \A i \in 1..Len(rest[q]) :
               rest[q][i] = RecordsOf[q][Len(RecordsOf[q]) - Len(rest[q]) + i]
          /\ found[q] # "none" => rest[q] # <<>>
          /\ rest[q] # <<>> => IsStored(q)
      BY DEF RestIsEnd
    <3> QED
      BY <3>1, <3>2
  <2> QED
    BY <2>1, <2>2
<1>8. LiveIsBehind'
  <2> SUFFICES ASSUME NEW x \in live
               PROVE  /\ IsStored(x[1])'
                      /\ x[2] <= Place(x[1])'[2]
                      /\ x[2] = Place(x[1])'[2] => found'[x[1]] # "none"
    BY DEF LiveIsBehind
  <2>1. x[1] \in Reports /\ x[2] \in Nat /\ IsStored(x[1])
    BY DEF LiveIsBehind, SourceShape, Places
  <2>2. x[2] <= Place(x[1])[2] /\ (x[2] = Place(x[1])[2] => found[x[1]] # "none")
    BY DEF LiveIsBehind
  <2>3. CASE x[1] = r
    <3>1. Place(r)[2] \in Int /\ Place(r)'[2] = Place(r)[2] + 1
      <4>1. /\ Place(r)[2] = Len(RecordsOf[r]) - Len(rest[r]) + 1
            /\ Place(r)'[2] = Len(RecordsOf[r]) - Len(rest'[r]) + 1
        BY DEF Place
      <4> QED
        BY <1>4, <4>1
    <3> QED
      BY <1>6, <2>1, <2>2, <2>3, <3>1
  <2>4. CASE x[1] # r
    <3>1. Place(x[1])' = Place(x[1]) /\ found'[x[1]] = found[x[1]]
      BY <1>3, <2>1, <2>4 DEF Place
    <3> QED
      BY <1>6, <2>1, <2>2, <3>1
  <2> QED
    BY <2>3, <2>4
<1>9. MessagesAddUp' /\ FillIsExact'
  BY <1>1 DEF MessagesAddUp, FillIsExact, IsStored, Serials
<1> QED
  BY <1>5, <1>7, <1>8, <1>9

LEMMA CrashCountsNothing == SourceInv /\ IntelCrash => SourceInv'
<1> SUFFICES ASSUME SourceInv, IntelCrash PROVE SourceInv'
  OBVIOUS
<1> USE DEF SourceInv
<1>1. /\ rest' = [r \in Reports |-> <<>>] /\ found' = [r \in Reports |-> "none"]
      /\ UNCHANGED <<stored, msgCount, fillAt, from, maxSerial, fills, covered, live>>
  BY DEF IntelCrash, source, fill
<1>2. \A r \in Reports : RecordsOf[r] \in Seq(SentRecord) /\ Len(RecordsOf[r]) \in Nat
  BY IntelConstants
<1>3. SourceShape'
  BY <1>1 DEF SourceShape, Serials
<1>4. RestIsEnd'
  BY <1>1, <1>2 DEF RestIsEnd
<1>5. ASSUME NEW x \in live
      PROVE  /\ IsStored(x[1])' /\ x[2] <= Place(x[1])'[2] /\ x[2] # Place(x[1])'[2]
  <2>1. x[1] \in Reports /\ x[2] \in 1..Len(RecordsOf[x[1]]) /\ IsStored(x[1])
    BY DEF LiveIsBehind, SourceShape, Places
  <2>2. Place(x[1])'[2] = Len(RecordsOf[x[1]]) + 1
    <3>1. rest'[x[1]] = <<>> /\ Len(RecordsOf[x[1]]) \in Nat
      BY <1>1, <1>2, <2>1
    <3>2. Len(RecordsOf[x[1]]) - Len(<<>>) + 1 = Len(RecordsOf[x[1]]) + 1
      BY <3>1
    <3>3. Place(x[1])' = <<x[1], Len(RecordsOf[x[1]]) - Len(rest'[x[1]]) + 1>>
      BY DEF Place
    <3> QED
      BY <3>1, <3>2, <3>3
  <2> QED
    BY <1>1, <1>2, <2>1, <2>2 DEF IsStored, Serials
<1>6. LiveIsBehind'
  BY <1>1, <1>5 DEF LiveIsBehind
<1>7. MessagesAddUp' /\ FillIsExact'
  BY <1>1 DEF MessagesAddUp, FillIsExact, IsStored, Serials
<1> QED
  BY <1>3, <1>4, <1>6, <1>7

LEMMA UpsertCountsRecord ==
  ASSUME SourceInv, NEW r \in Reports, UpsertSource(r)
  PROVE  SourceInv'
<1> USE DEF SourceInv
<1> DEFINE x == Place(r)
           addr == Record(r).ip
<1>1. /\ rest[r] # <<>> /\ found[r] = "none"
      /\ found' = [found EXCEPT ![r] = IF origin[addr] = "none" THEN "new" ELSE "known"]
      /\ msgCount' = [msgCount EXCEPT ![addr] = @ + Record(r).msgs]
      /\ live' = live \cup {x}
      /\ UNCHANGED <<stored, rest, fillAt, from, maxSerial, fills, covered>>
  BY DEF UpsertSource, Upserting, fill
<1>2. RecordsOf[r] \in Seq(SentRecord) /\ rest[r] \in Seq(SentRecord)
  BY IntelConstants DEF SourceShape
<1>3. Len(rest[r]) \in Nat /\ Len(rest[r]) > 0 /\ Len(RecordsOf[r]) \in Nat
  BY <1>1, <1>2, EmptySeq
<1>4. x[1] = r /\ x[2] = Len(RecordsOf[r]) - Len(rest[r]) + 1 /\ x = <<x[1], x[2]>>
  BY DEF Place
<1>5. x[2] \in 1..Len(RecordsOf[r])
  <2>1. Len(rest[r]) <= Len(RecordsOf[r])
    BY DEF RestIsEnd
  <2> QED
    <3>1. \A l, m \in Nat : l > 0 /\ l <= m => m - l + 1 \in 1..m
      OBVIOUS
    <3> QED
      BY <1>3, <1>4, <2>1, <3>1
<1>6. x \in Places
  <2> HIDE DEF x
  <2>1. x[2] \in Nat /\ x[1] \in Reports /\ x[2] \in 1..Len(RecordsOf[x[1]])
    <3>1. x[2] \in Nat
      BY <1>3, <1>5
    <3>2. x[1] \in Reports
      BY <1>4
    <3> QED
      BY <1>4, <1>5, <3>1, <3>2
  <2>2. x \in Reports \X Nat
    BY <1>4, <2>1
  <2> QED
    BY <2>1, <2>2 DEF Places
<1>7. Record(r) = RecordsOf[r][x[2]] /\ Record(r) \in SentRecord
  <2>1. rest[r][1] = RecordsOf[r][Len(RecordsOf[r]) - Len(rest[r]) + 1]
    <3>1. 1 \in 1..Len(rest[r])
      BY <1>3
    <3> QED
      BY <3>1 DEF RestIsEnd
  <2>2. Head(rest[r]) = rest[r][1]
    BY <1>1, <1>2
  <2>3. RecordsOf[r][x[2]] \in SentRecord
    BY <1>2, <1>5
  <2> QED
    BY <1>4, <2>1, <2>2, <2>3 DEF Record
<1>8. x \notin live
  BY <1>1, <1>4 DEF LiveIsBehind
<1> HIDE DEF x, addr
<1>9. Record(r).msgs \in Nat /\ Record(r).msgs = SentAt[x]
  BY <1>4, <1>6, <1>7, SentIsNat DEF SentRecord
<1>10. SourceShape'
  <2>1. msgCount' \in [IPs -> Nat]
    <3>1. \A n, m \in Nat : n + m \in Nat
      OBVIOUS
    <3> QED
      BY <1>1, <1>9, <3>1 DEF SourceShape
  <2>2. live' \subseteq Places /\ IsFiniteSet(live')
    BY <1>1, <1>6, FS_AddElement DEF SourceShape
  <2>3. found' \in [Reports -> {"none", "new", "known"}]
    BY <1>1 DEF SourceShape
  <2> QED
    BY <1>1, <2>1, <2>2, <2>3 DEF SourceShape, Serials
<1>11. \A q \in Reports : IsStored(q)' <=> IsStored(q)
  BY <1>1 DEF IsStored, Serials
<1>12. found'[r] # "none" /\ \A q \in Reports : q # r => found'[q] = found[q]
  BY <1>1 DEF SourceShape
<1>13. RestIsEnd'
  BY <1>1, <1>11, <1>12 DEF RestIsEnd
<1>14. LiveIsBehind'
  <2> SUFFICES ASSUME NEW y \in live'
               PROVE  /\ IsStored(y[1])
                      /\ y[2] <= Place(y[1])[2]
                      /\ y[2] = Place(y[1])[2] => found'[y[1]] # "none"
    BY <1>1 DEF LiveIsBehind, IsStored, Serials, Place
  <2>1. CASE y = x
    <3>1. IsStored(r) /\ y[1] = r /\ y[2] = Place(r)[2] /\ y[2] \in Nat
      <4>1. IsStored(r) /\ y[1] = r /\ y[2] \in Nat
        <5>1. IsStored(r)
          BY <1>1 DEF RestIsEnd
        <5>2. x[2] \in Nat
          BY <1>3, <1>5
        <5> QED
          BY <1>4, <2>1, <5>1, <5>2
      <4> QED
        BY <2>1, <4>1 DEF x
    <3> QED
      BY <1>12, <3>1
  <2>2. CASE y \in live
    <3>1. y[1] \in Reports
      BY <2>2 DEF SourceShape, Places
    <3> QED
      BY <1>12, <2>2, <3>1 DEF LiveIsBehind
  <2> QED
    BY <1>1, <2>1, <2>2
<1>15. MessagesAddUp'
  <2> SUFFICES ASSUME NEW ip \in IPs
               PROVE  msgCount'[ip] = Weigh(SentAt, SentBy(ip, live'))
                                      + Weigh(Filled(covered, ip), Reports)
    BY <1>1 DEF MessagesAddUp
  <2> DEFINE S == SentBy(ip, live)
             f == Weigh(Filled(covered, ip), Reports)
  <2>1. S \subseteq live /\ S \subseteq Places /\ IsFiniteSet(S)
    BY FS_Subset DEF SourceShape, SentBy
  <2>2. Weigh(SentAt, S) \in Nat /\ f \in Nat /\ msgCount[ip] = Weigh(SentAt, S) + f
    <3>1. Weigh(SentAt, S) \in Nat
      BY <2>1, SentIsNat, SumIsNat
    <3>2. \A q \in Reports : Filled(covered, ip)[q] \in Nat
      BY MessagesAreNat DEF SourceShape, Filled
    <3>3. f \in Nat
      BY <3>2, IntelConstants, SumIsNat
    <3> QED
      BY <3>1, <3>3 DEF MessagesAddUp
  <2>3. CASE addr = ip
    <3>1. SentBy(ip, live') = S \cup {x}
      BY <1>1, <1>4, <1>7, <2>3 DEF SentBy, addr
    <3>2. Weigh(SentAt, S \cup {x}) = Weigh(SentAt, S) + SentAt[x]
      <4>1. x \notin S /\ \A y \in S \cup {x} : SentAt[y] \in Nat
        BY <1>6, <1>8, <2>1, SentIsNat
      <4> HIDE DEF S
      <4> QED
        BY <2>1, <4>1, SumAdd
    <3>3. msgCount'[ip] = msgCount[ip] + SentAt[x] /\ SentAt[x] \in Nat
      BY <1>1, <1>9, <2>3 DEF SourceShape
    <3> HIDE DEF f, S
    <3> QED
      BY <2>2, <3>1, <3>2, <3>3 DEF f
  <2>4. CASE addr # ip
    <3>1. SentBy(ip, live') = S
      BY <1>1, <1>4, <1>7, <2>4 DEF SentBy, addr
    <3>2. msgCount'[ip] = msgCount[ip]
      BY <1>1, <2>4 DEF SourceShape
    <3> QED
      BY <2>2, <3>1, <3>2
  <2> QED
    BY <2>3, <2>4
<1>16. FillIsExact'
  BY <1>1 DEF FillIsExact, IsStored, Serials
<1> QED
  BY <1>10, <1>13, <1>14, <1>15, <1>16

(* The fill.                                                               *)

LEMMA FillSteps ==
  ASSUME SourceInv, StartFill \/ SeedMeta \/ FillFails
  PROVE  SourceInv'
<1> USE DEF SourceInv
<1>1. UNCHANGED <<stored, rest, found, msgCount, covered, live>> /\ Len(stored) \in Nat
  BY DEF StartFill, SeedMeta, FillFails, observer, source, SourceShape
<1>2. /\ fillAt' \in {"off", "batch", "done"} /\ from' \in Nat /\ maxSerial' \in Nat
      /\ fills' \in Nat /\ fills' >= fills
  BY <1>1 DEF StartFill, SeedMeta, FillFails, SourceShape
<1>3. SourceShape' /\ RestIsEnd' /\ LiveIsBehind'
  <2>1. SourceShape'
    BY <1>1, <1>2 DEF SourceShape, Serials
  <2>2. RestIsEnd'
    BY <1>1 DEF RestIsEnd, IsStored, Serials
  <2>3. LiveIsBehind'
    BY <1>1 DEF LiveIsBehind, IsStored, Serials, Place
  <2> QED
    BY <2>1, <2>2, <2>3
<1>4. MessagesAddUp'
  BY <1>1 DEF MessagesAddUp
<1>5. \A r \in Reports :
        covered[r] \in Nat /\ covered[r] <= fills /\ (~IsStored(r) => covered[r] = 0)
  BY DEF FillIsExact, SourceShape
<1>6. \A r \in Reports : IsStored(r)' <=> IsStored(r)
  BY <1>1 DEF IsStored, Serials
<1>7. \A s \in Serials : stored[s] \in Reports
  BY DEF SourceShape, Serials
<1>8. FillIsExact'
  <2>1. \A r \in Reports : covered'[r] <= fills' /\ (~IsStored(r)' => covered'[r] = 0)
    <3> SUFFICES ASSUME NEW r \in Reports PROVE covered[r] <= fills'
      BY <1>1, <1>5, <1>6
    <3> QED
      BY <1>2, <1>5 DEF SourceShape
  <2>2. CASE StartFill
    <3>1. /\ fillAt' = "batch" /\ fills' = fills + 1 /\ from' = 0 /\ maxSerial' = Len(stored)
          /\ fills \in Nat
      BY <2>2 DEF StartFill, SourceShape
    <3>2. \A s \in Serials : covered[stored[s]] < fills'
      BY <1>5, <1>7, <3>1
    <3>3. \A s \in 1..maxSerial' : ~(fillAt' = "done" \/ s <= from')
      BY <1>1, <3>1
    <3>4. fillAt' # "off" => maxSerial' <= Len(stored') /\ fills' > 0
      BY <1>1, <3>1
    <3>5. Serials' = Serials /\ covered' = covered /\ stored' = stored
      BY <1>1 DEF Serials
    <3> QED
      BY <2>1, <3>2, <3>3, <3>4, <3>5 DEF FillIsExact
  <2>3. CASE SeedMeta
    <3>1. /\ fillAt = "batch" /\ fillAt' = "done" /\ from >= maxSerial
          /\ UNCHANGED <<from, maxSerial, fills>> /\ from \in Nat /\ maxSerial \in Nat
      BY <2>3 DEF SeedMeta, SourceShape
    <3>2. \A s \in 1..maxSerial : covered[stored[s]] >= 1
      BY <3>1 DEF FillIsExact
    <3> QED
      BY <1>1, <2>1, <3>1, <3>2 DEF FillIsExact
  <2>4. CASE FillFails
    <3>1. fillAt' = "off"
      BY <2>4 DEF FillFails
    <3> QED
      BY <2>1, <3>1 DEF FillIsExact
  <2> QED
    BY <2>2, <2>3, <2>4
<1> QED
  BY <1>3, <1>4, <1>8

LEMMA BatchCountsReports ==
  ASSUME SourceInv, FillBatch
  PROVE  SourceInv'
<1> USE DEF SourceInv
<1> DEFINE batch == {stored[s] : s \in {t \in Serials : InBatch(t)}}
<1>1. /\ fillAt = "batch" /\ from < maxSerial
      /\ msgCount' = [ip \in IPs |->
           msgCount[ip] + MapThenSumSet(LAMBDA r : Messages(r, ip), batch)]
      /\ covered' = [r \in Reports |-> IF r \in batch THEN covered[r] + 1 ELSE covered[r]]
      /\ from' = from + BackfillStep
      /\ UNCHANGED <<stored, rest, found, fillAt, maxSerial, fills, live>>
  BY DEF FillBatch, observer
<1>2. /\ \A s \in Serials : stored[s] \in Reports /\ s \in Nat
      /\ BackfillStep \in Nat /\ from \in Nat /\ maxSerial \in Nat /\ fills \in Nat
      /\ from' \in Nat
  BY <1>1, IntelConstants DEF SourceShape, Serials
<1>3. batch \in SUBSET Reports /\ IsFiniteSet(batch)
  <2>1. batch \in SUBSET Reports
    BY <1>2
  <2> HIDE DEF batch
  <2> QED
    BY <2>1, IntelConstants, FS_Subset
<1>4. \A r \in Reports : covered[r] \in Nat /\ covered[r] <= fills
  BY DEF SourceShape, FillIsExact
<1>5. \A s \in Serials : stored[s] \in batch <=> InBatch(s)
  BY DEF SourceShape
<1>6. \A r \in batch : IsStored(r) /\ covered[r] < fills
  BY <1>1 DEF IsStored, InBatch, FillIsExact
<1> HIDE DEF batch
<1>7. ASSUME NEW r \in Reports
      PROVE  /\ covered'[r] = IF r \in batch THEN covered[r] + 1 ELSE covered[r]
             /\ covered'[r] \in Nat /\ covered'[r] >= covered[r] /\ covered'[r] <= fills
             /\ r \notin batch => covered'[r] = covered[r]
             /\ r \in batch => covered'[r] >= 1
  BY <1>1, <1>2, <1>4, <1>6
<1>8. ASSUME NEW ip \in IPs
      PROVE  /\ msgCount[ip] \in Nat /\ Weigh(MessagesOf(ip), batch) \in Nat
             /\ msgCount'[ip] = msgCount[ip] + Weigh(MessagesOf(ip), batch)
  <2>1. MapThenSumSet(LAMBDA r : Messages(r, ip), batch) = Weigh(MessagesOf(ip), batch)
    BY <1>3, MessagesAreWeights
  <2>2. \A r \in batch : MessagesOf(ip)[r] \in Nat
    BY <1>3, MessagesAreNat DEF MessagesOf
  <2>3. Weigh(MessagesOf(ip), batch) \in Nat
    BY <1>3, <2>2, SumIsNat
  <2>4. msgCount'[ip] = msgCount[ip] + MapThenSumSet(LAMBDA r : Messages(r, ip), batch)
    BY <1>1, Zenon
  <2> QED
    BY <2>1, <2>3, <2>4 DEF SourceShape
<1>9. SourceShape'
  <2>1. \A ip \in IPs : msgCount'[ip] \in Nat
    BY <1>8
  <2>2. msgCount' = [ip \in IPs |-> msgCount'[ip]]
    BY <1>1, Zenon
  <2>3. covered' \in [Reports -> Nat]
    BY <1>1, <1>7
  <2>4. msgCount' \in [IPs -> Nat]
    BY <2>1, <2>2
  <2>5. UNCHANGED <<stored, rest, found, fillAt, maxSerial, fills, live>>
    BY <1>1
  <2> QED
    BY <1>2, <2>3, <2>4, <2>5 DEF SourceShape, Serials
<1>10. UNCHANGED <<stored, rest, found, fillAt, maxSerial, fills, live>>
  BY <1>1
<1>11. \A r : IsStored(r)' <=> IsStored(r)
  BY <1>10 DEF IsStored, Serials
<1>12. RestIsEnd'
  BY <1>10, <1>11 DEF RestIsEnd
<1>13. LiveIsBehind'
  BY <1>10, <1>11 DEF LiveIsBehind, Place
<1>14. MessagesAddUp'
  <2> SUFFICES ASSUME NEW ip \in IPs
               PROVE  msgCount'[ip] = Weigh(SentAt, SentBy(ip, live))
                                      + Weigh(Filled(covered', ip), Reports)
    BY <1>10 DEF MessagesAddUp
  <2>1. \A r \in Reports : /\ Messages(r, ip) \in Nat /\ MessagesOf(ip)[r] = Messages(r, ip)
                           /\ Filled(covered, ip)[r] = covered[r] * Messages(r, ip)
                           /\ Filled(covered', ip)[r] = covered'[r] * Messages(r, ip)
    BY MessagesAreNat DEF MessagesOf, Filled
  <2>2. \A k, n \in Nat : k * n \in Nat /\ (k + 1) * n = k * n + n
    OBVIOUS
  <2>3. \A r \in Reports : Filled(covered, ip)[r] \in Nat
    BY <1>4, <2>1, <2>2
  <2>4. \A r \in Reports \ batch : Filled(covered', ip)[r] = Filled(covered, ip)[r]
    BY <1>7, <2>1
  <2>5. \A r \in batch : /\ MessagesOf(ip)[r] \in Nat
                         /\ Filled(covered', ip)[r] = Filled(covered, ip)[r] + MessagesOf(ip)[r]
    BY <1>3, <1>4, <1>7, <2>1, <2>2
  <2>6. Weigh(Filled(covered', ip), Reports)
        = Weigh(Filled(covered, ip), Reports) + Weigh(MessagesOf(ip), batch)
    BY <1>3, <2>3, <2>4, <2>5, IntelConstants, SumRaisePart
  <2>7. Weigh(Filled(covered, ip), Reports) \in Nat
    BY <2>3, IntelConstants, SumIsNat
  <2>8. Weigh(SentAt, SentBy(ip, live)) \in Nat
    <3>1. SentBy(ip, live) \subseteq Places /\ IsFiniteSet(SentBy(ip, live))
      BY FS_Subset DEF SourceShape, SentBy
    <3> QED
      BY <3>1, SentIsNat, SumIsNat
  <2>9. msgCount[ip] = Weigh(SentAt, SentBy(ip, live)) + Weigh(Filled(covered, ip), Reports)
    BY DEF MessagesAddUp
  <2> QED
    BY <1>8, <2>6, <2>7, <2>8, <2>9
<1>15. FillIsExact'
  <2>1. \A r \in Reports : covered'[r] <= fills' /\ (~IsStored(r)' => covered'[r] = 0)
    BY <1>6, <1>7, <1>10, <1>11 DEF FillIsExact
  <2>2. fillAt' # "off" => maxSerial' <= Len(stored') /\ fills' > 0
    BY <1>1, <1>10 DEF FillIsExact
  <2>3. ASSUME NEW s \in Serials, s > from'
        PROVE  covered'[stored[s]] < fills
    <3>1. s > from /\ ~InBatch(s)
      BY <1>1, <1>2, <2>3 DEF InBatch
    <3>2. covered[stored[s]] < fills
      BY <1>1, <3>1 DEF FillIsExact
    <3> QED
      BY <1>2, <1>5, <1>7, <3>1, <3>2
  <2>4. ASSUME NEW s \in 1..maxSerial, s <= from'
        PROVE  covered'[stored[s]] >= 1
    <3>1. s \in Serials /\ stored[s] \in Reports
      <4>1. maxSerial <= Len(stored) /\ Serials = 1..Len(stored) /\ Len(stored) \in Nat
        BY <1>1 DEF FillIsExact, SourceShape, Serials
      <4> QED
        BY <1>2, <4>1
    <3>2. CASE s <= from
      <4>1. covered[stored[s]] >= 1
        BY <1>1, <3>2 DEF FillIsExact
      <4> QED
        BY <1>4, <1>7, <3>1, <4>1
    <3>3. CASE s > from
      <4>1. InBatch(s)
        BY <1>1, <2>4, <3>3 DEF InBatch
      <4> QED
        BY <1>5, <1>7, <3>1, <4>1
    <3> QED
      BY <1>2, <3>1, <3>2, <3>3
  <2> QED
    BY <1>1, <1>10, <2>1, <2>2, <2>3, <2>4 DEF FillIsExact, Serials
<1> QED
  BY <1>9, <1>12, <1>13, <1>14, <1>15

LEMMA SourceStays == SourceInv /\ [Next]_vars => SourceInv'
<1> SUFFICES ASSUME SourceInv, [Next]_vars PROVE SourceInv'
  OBVIOUS
<1>1. ASSUME NEW r \in Reports, SkipRecord(r) \/ TellSender(r) \/ UpsertSourceFails(r)
      PROVE  SourceInv'
  <2>1. /\ rest[r] # <<>> /\ rest' = [rest EXCEPT ![r] = Tail(@)]
        /\ UNCHANGED <<stored, msgCount, fill, live>>
    BY <1>1 DEF SkipRecord, TellSender, UpsertSourceFails, Upserting, NextRecord, source,
                SourceInv, RestIsEnd
  <2>2. found' = [found EXCEPT ![r] = "none"]
    BY <1>1 DEF SkipRecord, TellSender, UpsertSourceFails, Upserting, SourceInv, SourceShape
  <2> QED
    BY <2>1, <2>2, AdvanceCountsNothing
<1>2. ASSUME NEW r \in Reports, Store(r) \/ UpsertSource(r) PROVE SourceInv'
  BY <1>2, StoreCountsNothing, UpsertCountsRecord
<1>3. CASE Fill
  BY <1>3, FillSteps, BatchCountsReports DEF Fill
<1>4. CASE IntelCrash
  BY <1>4, CrashCountsNothing
<1>5. CASE \/ \E w \in Enrichers : Enrich(w) \/ TakeTaskFails(w) \/ UpsertMetaFails(w)
           \/ \E ip \in IPs : Expire(ip)
           \/ SweepStep \/ SweepFails \/ UNCHANGED intelVars
  <2>1. UNCHANGED <<stored, rest, found, msgCount, fill, live>>
    BY <1>5 DEF Enrich, TakeTask, UpsertMeta, TakeTaskFails, UpsertMetaFails, Expire, SweepStep,
                Sweep, SweepEnqueue, SweepFails, intelVars, observer, source
  <2> QED
    BY <2>1, SourcesRest
<1>6. CASE IntelStep
  BY <1>1, <1>2, <1>3, <1>4, <1>5, <1>6 DEF IntelStep, IntelNext, Observe
<1> QED
  BY <1>5, <1>6
     DEF Next, vars, AccessStep, SelectorsStep, RetentionStep, DigestStep, ExtractStep,
         ReadinessStep

\* Whatever observers, fills and crashes interleave, the messages of every
\* pair are those of the records the observer counted and of the reports each
\* fill covered, and a fill that ran through left out no report before it.
THEOREM SourcesAddUpAlways == Spec => []SourcesAddUp
  BY SourceStarts, SourceStays, SumsAreTrue, PTL DEF Spec

-----------------------------------------------------------------------------
(* The digest reaches whom it should.  A run of the round in hand has every *)
(* domain as a whole, so a domain it logs was tried for all who are         *)
(* entitled and reached one of them; and a run that no error met has nobody *)
(* left when it ends.                                                       *)

TripleOf(p, d) == <<p[1], p[2], d>>
Tried(p, d) == TripleOf(p, d) \in got \cup refused
Reached(d, e) == \E u \in got : u[1] = d /\ u[3] = e
Served(p, d) == \/ TripleOf(p, d) \in got
                \/ TripleOf(p, d) \in refused /\ Reached(p[1], d)

\* A runner.
EndIsPast(x) == end[x] <= day
SendsToDomain(x) == \A p \in to[x] : stepOf[x] = "send" /\ p[1] = domain[x]
SentReached(x) == stepOf[x] = "send" /\ sent[x] => Reached(domain[x], end[x])
WholeDomains(x) ==
  stepOf[x] # "idle" /\ Round(end[x]) =>
    \A p \in entitled, q \in left[x] : p[1] = q[1] => p \in left[x]
RoundTried(x) ==
  stepOf[x] = "send" /\ Round(end[x]) =>
    \A p \in entitled : p[1] = domain[x] => p \in to[x] \/ Tried(p, end[x])

RunnerInv(x) == /\ EndIsPast(x) /\ SendsToDomain(x) /\ SentReached(x)
                /\ WholeDomains(x) /\ RoundTried(x)

\* What is logged, how far the scheduler is and what its clean runs have done.
EntitledAreSubs == entitled \subseteq subs
LogIsPast == \A l \in logged : l[2] \in 0..day
LoggedServed ==
  \A p \in entitled, r \in 0..LastDay :
    Round(r) /\ <<p[1], r>> \in logged => Tried(p, r) /\ Reached(p[1], r)
CleanRun ==
  clean /\ stepOf["scheduler"] # "idle" /\ Round(end["scheduler"]) =>
    \A p \in entitled :
      p \in left["scheduler"] \cup to["scheduler"] \/ Served(p, end["scheduler"])
CompleteServed ==
  \A r \in complete : r \in 0..day /\ (Round(r) => \A p \in entitled : Served(p, r))

ServedInv ==
  /\ \A x \in Runners : RunnerInv(x)
  /\ EntitledAreSubs /\ LogIsPast /\ LoggedServed /\ CleanRun /\ CompleteServed

LEMMA ServedIsServed == ServedInv => DigestServed
  BY DEF ServedInv, LoggedServed, CompleteServed, DigestServed, Served, Tried, Reached, TripleOf

\* What happened stays so.
MailsGrow == /\ UNCHANGED day /\ got \subseteq got' /\ refused \subseteq refused'
             /\ entitled' \subseteq entitled

LEMMA RoundRests == ASSUME UNCHANGED day, NEW r PROVE Round(r)' <=> Round(r)
  BY DEF Round

LEMMA ServedStays ==
  ASSUME got \subseteq got', refused \subseteq refused', NEW p, NEW d, Served(p, d)
  PROVE  Served(p, d)'
  BY DEF Served, Reached, TripleOf

LEMMA RunnerRests ==
  ASSUME MailsGrow, NEW x \in Runners, RunnerInv(x),
         stepOf'[x] = stepOf[x], left'[x] = left[x], end'[x] = end[x],
         domain'[x] = domain[x], to'[x] = to[x], sent'[x] = sent[x]
  PROVE  RunnerInv(x)'
<1>1. EndIsPast(x)' /\ SendsToDomain(x)'
  BY DEF MailsGrow, RunnerInv, EndIsPast, SendsToDomain
<1>2. SentReached(x)' /\ WholeDomains(x)' /\ RoundTried(x)'
  BY DEF MailsGrow, RunnerInv, SentReached, WholeDomains, RoundTried, Reached, Tried, TripleOf,
         Round
<1> QED
  BY <1>1, <1>2 DEF RunnerInv

\* A runner that ends its run.
LEMMA RunnerStops ==
  ASSUME MailsGrow, NEW x \in Runners, RunnerInv(x), end'[x] = end[x],
         stepOf'[x] = "idle", to'[x] = {}
  PROVE  RunnerInv(x)'
  BY DEF MailsGrow, RunnerInv, EndIsPast, SendsToDomain, SentReached, WholeDomains, RoundTried

\* Steps that leave the log alone.
LEMMA LogRests ==
  ASSUME MailsGrow, ServedInv, entitled' \subseteq subs', logged' = logged
  PROVE  EntitledAreSubs' /\ LogIsPast' /\ LoggedServed'
  BY DEF MailsGrow, ServedInv, EntitledAreSubs, LogIsPast, LoggedServed, Tried, Reached, TripleOf,
         Round

\* Steps that end no clean run of the scheduler.
LEMMA CompleteRests ==
  ASSUME MailsGrow, ServedInv, complete' = complete
  PROVE  CompleteServed'
  BY ServedStays DEF MailsGrow, ServedInv, CompleteServed, Round

\* Steps of a clean run leave nobody behind unserved.
LEMMA CleanRests ==
  ASSUME MailsGrow, ServedInv,
         clean' /\ stepOf'["scheduler"] # "idle" =>
           /\ clean /\ stepOf["scheduler"] # "idle" /\ end'["scheduler"] = end["scheduler"]
           /\ \A p \in left["scheduler"] \cup to["scheduler"] :
                p \in entitled => \/ p \in left'["scheduler"] \cup to'["scheduler"]
                                  \/ Served(p, end["scheduler"])'
  PROVE  CleanRun'
<1> SUFFICES ASSUME clean', stepOf'["scheduler"] # "idle", Round(end["scheduler"]),
                    NEW p \in entitled
             PROVE  \/ p \in left'["scheduler"] \cup to'["scheduler"]
                    \/ Served(p, end["scheduler"])'
  BY DEF CleanRun, MailsGrow, Round, Served, Reached, TripleOf
<1>1. p \in left["scheduler"] \cup to["scheduler"] \/ Served(p, end["scheduler"])
  BY DEF ServedInv, CleanRun
<1>2. Served(p, end["scheduler"]) => Served(p, end["scheduler"])'
  BY DEF MailsGrow, Served, Reached, TripleOf
<1> QED
  BY <1>1, <1>2

\* The scheduler's or a request's run takes a step that mails nobody.
LEMMA DigestStarting ==
  ASSUME DigestShape, ServedInv, NEW x \in Runners, StartDigest(x)
  PROVE  ServedInv'
<1>1. MailsGrow /\ UNCHANGED <<subs, logged, entitled, got, refused, complete>>
  BY DEF StartDigest, MailsGrow, clock, mailed
<1>2. /\ stepOf[x] = "idle" /\ stepOf'[x] = "domains" /\ left'[x] = subs /\ end'[x] = day
      /\ to'[x] = to[x]
  BY DEF StartDigest, Starts, DigestShape
<1>3. ASSUME NEW y \in Runners, y # x
      PROVE  RunnerInv(y)'
  <2>1. /\ stepOf'[y] = stepOf[y] /\ left'[y] = left[y] /\ end'[y] = end[y]
        /\ domain'[y] = domain[y] /\ to'[y] = to[y] /\ sent'[y] = sent[y]
    BY <1>3 DEF StartDigest, DigestShape
  <2> QED
    BY <1>1, <2>1, RunnerRests DEF ServedInv
<1>4. RunnerInv(x)'
  BY <1>1, <1>2
     DEF MailsGrow, DigestShape, ServedInv, RunnerInv, EndIsPast, SendsToDomain, SentReached,
         WholeDomains, RoundTried, EntitledAreSubs
<1>5. CleanRun'
  <2>1. CASE x = "scheduler"
    BY <1>1, <1>2, <2>1 DEF MailsGrow, CleanRun, ServedInv, EntitledAreSubs
  <2>2. CASE x # "scheduler"
    <3>0. clean' => clean
      BY <2>2, Zenon DEF StartDigest
    <3>1. /\ UNCHANGED to /\ stepOf'["scheduler"] = stepOf["scheduler"]
          /\ left'["scheduler"] = left["scheduler"] /\ end'["scheduler"] = end["scheduler"]
      BY <2>2 DEF StartDigest, DigestShape, Runners
    <3> QED
      BY <1>1, <3>0, <3>1, CleanRests
  <2> QED
    BY <2>1, <2>2
<1> QED
  BY <1>1, <1>3, <1>4, <1>5, LogRests, CompleteRests DEF ServedInv, EntitledAreSubs

\* Whatever x does, the other runner is where it was.
LEMMA OtherRests ==
  ASSUME DigestShape, ServedInv, MailsGrow, NEW x \in Runners, NEW y \in Runners, y # x,
         \E v : stepOf' = stepOf \/ stepOf' = [stepOf EXCEPT ![x] = v],
         \E v : left' = left \/ left' = [left EXCEPT ![x] = v],
         \E v : domain' = domain \/ domain' = [domain EXCEPT ![x] = v],
         \E v : to' = to \/ to' = [to EXCEPT ![x] = v],
         \E v : sent' = sent \/ sent' = [sent EXCEPT ![x] = v],
         end' = end
  PROVE  RunnerInv(y)'
<1>1. /\ stepOf'[y] = stepOf[y] /\ left'[y] = left[y] /\ end'[y] = end[y]
      /\ domain'[y] = domain[y] /\ to'[y] = to[y] /\ sent'[y] = sent[y]
  BY DEF DigestShape
<1> QED
  BY <1>1, RunnerRests DEF ServedInv

LEMMA DigestFinishing ==
  ASSUME DigestShape, ServedInv, NEW x \in Runners, FinishDigest(x)
  PROVE  ServedInv'
<1>1. /\ MailsGrow
      /\ UNCHANGED <<subs, logged, left, end, domain, to, sent, clean, entitled, got, refused>>
      /\ stepOf' = [stepOf EXCEPT ![x] = "idle"]
      /\ stepOf[x] = "domains" /\ left[x] = {} /\ to[x] = {}
  BY DEF FinishDigest, MailsGrow, clock, mailed, ServedInv, RunnerInv, SendsToDomain
<1>2. ASSUME NEW y \in Runners
      PROVE  RunnerInv(y)'
  <2>1. CASE y = x
    BY <1>1, <2>1, RunnerStops DEF ServedInv, DigestShape
  <2>2. CASE y # x
    <3>1. \A z \in Runners : z # x => stepOf'[z] = stepOf[z]
      BY <1>1 DEF DigestShape
    <3> QED
      BY <1>1, <2>2, <3>1, RunnerRests DEF ServedInv
  <2> QED
    BY <2>1, <2>2
<1>3. CompleteServed'
  <2>1. CASE complete' = complete
    BY <1>1, <2>1, CompleteRests
  <2>2. CASE x = "scheduler" /\ clean /\ complete' = complete \cup {end[x]}
    <3>1. /\ end[x] \in 0..day
          /\ Round(end[x]) => \A p \in entitled : Served(p, end[x])
      BY <1>1, <2>2 DEF ServedInv, CleanRun, RunnerInv, EndIsPast, DigestShape
    <3>2. \A r \in complete' : r \in 0..day /\ (Round(r) => \A p \in entitled : Served(p, r))
      BY <2>2, <3>1 DEF ServedInv, CompleteServed
    <3> QED
      BY <1>1, <3>2, ServedStays DEF CompleteServed, MailsGrow, Round
  <2> QED
    BY <2>1, <2>2 DEF FinishDigest
<1>4. CleanRun'
  <2>1. x = "scheduler" => stepOf'["scheduler"] = "idle"
    BY <1>1 DEF DigestShape
  <2>2. x # "scheduler" => stepOf'["scheduler"] = stepOf["scheduler"]
    BY <1>1 DEF DigestShape, Runners
  <2> QED
    BY <1>1, <2>1, <2>2, CleanRests
<1> QED
  BY <1>1, <1>2, <1>3, <1>4, LogRests DEF ServedInv, EntitledAreSubs

\* All mails for a domain have gone out, or were refused.
LEMMA DigestLogging ==
  ASSUME DigestShape, ServedInv, NEW x \in Runners, LogDomain(x) \/ LogFails(x)
  PROVE  ServedInv'
<1>1. /\ MailsGrow
      /\ UNCHANGED <<subs, left, end, domain, to, sent, clean, complete, entitled, got, refused>>
      /\ stepOf' = [stepOf EXCEPT ![x] = "domains"]
      /\ stepOf[x] = "send" /\ to[x] = {}
      /\ \/ logged' = logged
         \/ sent[x] /\ logged' = logged \cup {<<domain[x], end[x]>>}
  BY DEF LogDomain, LogFails, AllSent, MailsGrow, clock, mailed, runs
<1>2. stepOf'[x] = "domains" /\ \A y \in Runners : y # x => stepOf'[y] = stepOf[y]
  BY <1>1 DEF DigestShape
<1>3. ASSUME NEW y \in Runners
      PROVE  RunnerInv(y)'
  <2>1. CASE y = x
    BY <1>1, <1>2, <2>1, RoundRests
       DEF MailsGrow, ServedInv, RunnerInv, EndIsPast, SendsToDomain, SentReached, WholeDomains,
           RoundTried
  <2>2. CASE y # x
    BY <1>1, <1>2, <2>2, RunnerRests DEF ServedInv
  <2> QED
    BY <2>1, <2>2
<1>4. RunnerInv(x)
  BY DEF ServedInv
<1>5. LogIsPast'
  <2>1. end[x] \in 0..day
    BY <1>4 DEF RunnerInv, EndIsPast, DigestShape
  <2> QED
    BY <1>1, <2>1 DEF MailsGrow, ServedInv, LogIsPast
<1>6. LoggedServed'
  <2> SUFFICES ASSUME NEW p \in entitled, NEW r \in 0..LastDay, Round(r), <<p[1], r>> \in logged'
               PROVE  Tried(p, r) /\ Reached(p[1], r)
    BY <1>1, RoundRests DEF MailsGrow, LoggedServed, Tried, Reached
  <2>1. CASE <<p[1], r>> \in logged
    BY <2>1 DEF ServedInv, LoggedServed
  <2>2. CASE sent[x] /\ p[1] = domain[x] /\ r = end[x]
    BY <1>1, <1>4, <2>2 DEF RunnerInv, SentReached, RoundTried
  <2> QED
    BY <1>1, <2>1, <2>2
<1>7. EntitledAreSubs'
  BY <1>1 DEF MailsGrow, ServedInv, EntitledAreSubs
<1>8. CleanRun' /\ CompleteServed'
  <2>1. stepOf'["scheduler"] # "idle" => stepOf["scheduler"] # "idle"
    BY <1>1, <1>2 DEF Runners
  <2> QED
    BY <1>1, <2>1, CleanRests, CompleteRests
<1> QED
  BY <1>3, <1>5, <1>6, <1>7, <1>8 DEF ServedInv

\* A domain is taken in hand, left out because it is logged, or left out
\* because its data cannot be read.
LEMMA DigestAtDomain ==
  ASSUME DigestShape, ServedInv, NEW x \in Runners, NEW d \in Domains,
         NextDomain(x, d) \/ GatherFails(x, d)
  PROVE  ServedInv'
<1>1. /\ MailsGrow /\ UNCHANGED <<subs, logged, end, entitled, got, refused, complete>>
      /\ left' = [left EXCEPT ![x] = @ \ ForDomain(x, d)]
      /\ stepOf[x] = "domains" /\ ForDomain(x, d) # {}
      /\ \/ UNCHANGED <<stepOf, domain, to, sent>>
         \/ /\ stepOf' = [stepOf EXCEPT ![x] = "send"]
            /\ domain' = [domain EXCEPT ![x] = d]
            /\ to' = [to EXCEPT ![x] = ForDomain(x, d)]
            /\ sent' = [sent EXCEPT ![x] = FALSE]
  BY DEF NextDomain, GatherFails, AtDomain, MailsGrow, clock, mailed, Errs, runs
<1>2. RunnerInv(x) /\ to[x] = {} /\ left'[x] = left[x] \ ForDomain(x, d)
  BY <1>1 DEF ServedInv, RunnerInv, SendsToDomain, DigestShape
<1>3. \/ /\ stepOf'[x] = stepOf[x] /\ domain'[x] = domain[x] /\ to'[x] = to[x] /\ sent'[x] = sent[x]
      \/ stepOf'[x] = "send" /\ domain'[x] = d /\ to'[x] = ForDomain(x, d) /\ sent'[x] = FALSE
  BY <1>1 DEF DigestShape
<1>4. \A p \in ForDomain(x, d) : p \in left[x] /\ p[1] = d
  BY DEF ForDomain
<1>5. ASSUME NEW y \in Runners, y # x
      PROVE  RunnerInv(y)'
  <2>1. \E v : left' = left \/ left' = [left EXCEPT ![x] = v]
    BY <1>1
  <2>2. /\ \E v : stepOf' = stepOf \/ stepOf' = [stepOf EXCEPT ![x] = v]
        /\ \E v : domain' = domain \/ domain' = [domain EXCEPT ![x] = v]
        /\ \E v : to' = to \/ to' = [to EXCEPT ![x] = v]
        /\ \E v : sent' = sent \/ sent' = [sent EXCEPT ![x] = v]
    BY <1>1
  <2> QED
    BY <1>1, <1>5, <2>1, <2>2, OtherRests
<1>6. RunnerInv(x)'
  <2>1. EndIsPast(x)' /\ SendsToDomain(x)' /\ SentReached(x)'
    BY <1>1, <1>2, <1>3, <1>4
       DEF MailsGrow, RunnerInv, EndIsPast, SendsToDomain, SentReached, Reached
  <2>2. WholeDomains(x)'
    <3> SUFFICES ASSUME Round(end[x]), NEW p \in entitled, NEW q \in left'[x], p[1] = q[1]
                 PROVE  p \in left'[x]
      BY <1>1 DEF MailsGrow, WholeDomains, Round
    <3>1. p \in left[x] /\ q \in left[x]
      BY <1>1, <1>2 DEF RunnerInv, WholeDomains
    <3> QED
      BY <1>2, <3>1 DEF ForDomain
  <2>3. RoundTried(x)'
    <3> SUFFICES ASSUME stepOf'[x] = "send", Round(end[x]), NEW p \in entitled,
                        p[1] = domain'[x]
                 PROVE  p \in to'[x] \/ Tried(p, end[x])'
      BY <1>1 DEF MailsGrow, RoundTried, Round, Tried, TripleOf
    <3>1. domain'[x] = d /\ to'[x] = ForDomain(x, d)
      BY <1>1, <1>3
    <3>2. PICK q \in left[x] : q[1] = d
      BY <1>1 DEF ForDomain
    <3>3. p \in left[x]
      BY <1>1, <1>2, <3>1, <3>2 DEF RunnerInv, WholeDomains
    <3> QED
      BY <3>1, <3>3 DEF ForDomain
  <2> QED
    BY <2>1, <2>2, <2>3 DEF RunnerInv
<1>7. CleanRun'
  <2>1. CASE x = "scheduler"
    <3> DEFINE today == end["scheduler"]
    <3>1. clean' => clean /\ NextDomain(x, d)
      BY <2>1 DEF NextDomain, GatherFails, Errs, runs
    <3>2. ASSUME clean', Round(today), NEW p \in left[x] \cup to[x], p \in entitled,
                 p \notin left'[x]
          PROVE  p \in to'[x] \/ Served(p, today)
      <4>1. NextDomain(x, d) /\ p \in ForDomain(x, d) /\ p[1] = d
        BY <1>2, <1>4, <3>1, <3>2
      <4>2. CASE AlreadySent(x, d)
        <5>1. <<p[1], today>> \in logged /\ today \in 0..LastDay
          BY <2>1, <4>1, <4>2 DEF AlreadySent, DigestShape
        <5> QED
          BY <3>2, <5>1 DEF ServedInv, LoggedServed, Tried, Served
      <4>3. CASE ~AlreadySent(x, d)
        <5>1. to' = [to EXCEPT ![x] = ForDomain(x, d)]
          BY <4>1, <4>3 DEF NextDomain
        <5> QED
          BY <4>1, <5>1 DEF DigestShape
      <4> QED
        BY <4>2, <4>3
    <3> SUFFICES ASSUME clean', Round(today), NEW p \in entitled
                 PROVE  p \in left'[x] \cup to'[x] \/ Served(p, today)
      BY <1>1, <2>1 DEF CleanRun, MailsGrow, Round, Served, Reached, TripleOf
    <3>3. p \in left[x] \cup to[x] \/ Served(p, today)
      BY <1>1, <2>1, <3>1 DEF ServedInv, CleanRun
    <3> QED
      BY <3>2, <3>3
  <2>2. CASE x # "scheduler"
    <3>1. clean' => clean
      BY <2>2, Zenon DEF NextDomain, GatherFails, Errs, runs
    <3>2. /\ left'["scheduler"] = left["scheduler"] /\ to'["scheduler"] = to["scheduler"]
          /\ stepOf'["scheduler"] = stepOf["scheduler"]
      BY <1>1, <2>2 DEF DigestShape, Runners
    <3> QED
      BY <1>1, <3>1, <3>2, CleanRests
  <2> QED
    BY <2>1, <2>2
<1> QED
  BY <1>1, <1>5, <1>6, <1>7, LogRests, CompleteRests DEF ServedInv, EntitledAreSubs

\* The log cannot be read and the run is over.
LEMMA DigestUnread ==
  ASSUME DigestShape, ServedInv, NEW x \in Runners, NEW d \in Domains, AlreadySentFails(x, d)
  PROVE  ServedInv'
<1>1. /\ MailsGrow
      /\ UNCHANGED <<subs, logged, end, domain, to, sent, entitled, got, refused, complete>>
      /\ stepOf' = [stepOf EXCEPT ![x] = "idle"] /\ left' = [left EXCEPT ![x] = {}]
      /\ stepOf[x] = "domains" /\ x = "scheduler"
  BY DEF AlreadySentFails, AtDomain, Errs, MailsGrow, clock, mailed
<1>2. ASSUME NEW y \in Runners
      PROVE  RunnerInv(y)'
  <2>1. CASE y = x
    <3>1. to'[x] = {} /\ stepOf'[x] = "idle"
      BY <1>1 DEF ServedInv, RunnerInv, SendsToDomain, DigestShape
    <3> QED
      BY <1>1, <2>1, <3>1, RunnerStops DEF ServedInv
  <2>2. CASE y # x
    BY <1>1, <2>2, OtherRests
  <2> QED
    BY <2>1, <2>2
<1>3. stepOf'["scheduler"] = "idle"
  BY <1>1 DEF DigestShape
<1> QED
  BY <1>1, <1>2, <1>3, LogRests, CompleteRests DEF ServedInv, EntitledAreSubs, CleanRun

\* A mail goes out, is refused, or both.
LEMMA DigestMailing ==
  ASSUME DigestShape, ServedInv, NEW x \in Runners, NEW p \in Subscribers,
         Send(x, p) \/ SendFails(x, p)
  PROVE  ServedInv'
<1>1. /\ MailsGrow /\ UNCHANGED <<subs, logged, stepOf, left, end, domain, entitled, complete>>
      /\ stepOf[x] = "send" /\ p \in to[x] /\ to' = [to EXCEPT ![x] = @ \ {p}]
      /\ Triple(x, p) \in got' \cup refused'
      /\ \/ sent' = sent
         \/ sent' = [sent EXCEPT ![x] = TRUE] /\ Triple(x, p) \in got'
  BY DEF Send, SendFails, Sending, Arrives, MailsGrow, clock, Errs, runs
<1>2. /\ RunnerInv(x) /\ p[1] = domain[x] /\ to'[x] = to[x] \ {p}
      /\ sent'[x] = sent[x] \/ Triple(x, p) \in got'
  BY <1>1 DEF ServedInv, RunnerInv, SendsToDomain, DigestShape
<1>3. ASSUME NEW y \in Runners, y # x
      PROVE  RunnerInv(y)'
  BY <1>1, <1>3, OtherRests
<1>4. RunnerInv(x)'
  <2>1. EndIsPast(x)' /\ SendsToDomain(x)' /\ WholeDomains(x)'
    BY <1>1, <1>2, RoundRests
       DEF MailsGrow, RunnerInv, EndIsPast, SendsToDomain, WholeDomains
  <2>2. SentReached(x)'
    <3>1. CASE sent'[x] = sent[x]
      BY <1>1, <1>2, <3>1 DEF MailsGrow, RunnerInv, SentReached, Reached
    <3>2. CASE Triple(x, p) \in got'
      <4>1. Triple(x, p)[1] = domain[x] /\ Triple(x, p)[3] = end[x]
        BY <1>2 DEF Triple
      <4> QED
        BY <1>1, <3>2, <4>1 DEF SentReached, Reached
    <3> QED
      BY <1>2, <3>1, <3>2
  <2>3. RoundTried(x)'
    <3> SUFFICES ASSUME Round(end[x]), NEW q \in entitled, q[1] = domain[x]
                 PROVE  q \in to'[x] \/ Tried(q, end[x])'
      BY <1>1 DEF MailsGrow, RoundTried, Round, Tried, TripleOf
    <3>1. CASE q = p
      BY <1>1, <3>1 DEF MailsGrow, Tried, Triple, TripleOf
    <3>2. CASE q # p
      BY <1>1, <1>2, <3>2 DEF MailsGrow, RunnerInv, RoundTried, Tried, TripleOf
    <3> QED
      BY <3>1, <3>2
  <2> QED
    BY <2>1, <2>2, <2>3 DEF RunnerInv
<1>5. CleanRun'
  <2>1. CASE x = "scheduler"
    <3>1. clean' => clean /\ Send(x, p)
      BY <2>1 DEF Send, SendFails, Errs, runs
    <3>2. clean' => Served(p, end["scheduler"])'
      BY <1>1, <2>1, <3>1 DEF Send, Arrives, Triple, Served, TripleOf
    <3>3. \A q \in left[x] \cup to[x] : q \in left'[x] \cup to'[x] \/ q = p
      BY <1>1, <1>2
    <3> QED
      BY <1>1, <2>1, <3>1, <3>2, <3>3, CleanRests
  <2>2. CASE x # "scheduler"
    <3>1. clean' => clean
      BY <2>2, Zenon DEF Send, SendFails, Errs, runs
    <3>2. to'["scheduler"] = to["scheduler"]
      BY <1>1, <2>2 DEF DigestShape, Runners
    <3> QED
      BY <1>1, <3>1, <3>2, CleanRests
  <2> QED
    BY <2>1, <2>2
<1> QED
  BY <1>1, <1>3, <1>4, <1>5, LogRests, CompleteRests DEF ServedInv, EntitledAreSubs

\* The day ends.  If a digest day begins, nothing was logged or run for it yet.
LEMMA DigestDayEnds ==
  ASSUME DigestShape, ServedInv, DayEnds
  PROVE  ServedInv'
<1>1. /\ day' = day + 1 /\ day \in 0..LastDay /\ LastDay \in Nat
      /\ UNCHANGED <<subs, logged, stepOf, left, end, domain, to, sent, clean, complete, got,
                     refused>>
      /\ entitled' = IF day' \in DigestDays THEN subs ELSE entitled
  BY DigestAssumption DEF DayEnds, runState, mailed, runs, DigestShape, DigestAssumption
<1>2. ASSUME NEW r \in 0..day, Round(r)'
      PROVE  Round(r) /\ entitled' = entitled
  BY <1>1, <1>2 DEF Round
<1>3. ASSUME NEW x \in Runners
      PROVE  RunnerInv(x)'
  <2>1. RunnerInv(x) /\ end[x] \in 0..day
    BY DEF ServedInv, DigestShape, RunnerInv, EndIsPast
  <2>2. EndIsPast(x)' /\ SendsToDomain(x)' /\ SentReached(x)'
    BY <1>1, <2>1 DEF RunnerInv, EndIsPast, SendsToDomain, SentReached, Reached
  <2>3. WholeDomains(x)' /\ RoundTried(x)'
    BY <1>1, <1>2, <2>1 DEF RunnerInv, WholeDomains, RoundTried, Tried, TripleOf
  <2> QED
    BY <2>2, <2>3 DEF RunnerInv
<1>4. LogIsPast' /\ LoggedServed'
  <2>1. \A l \in logged : l[2] \in 0..day
    BY DEF ServedInv, LogIsPast
  <2>2. LogIsPast'
    BY <1>1, <2>1 DEF LogIsPast
  <2>3. ASSUME NEW p \in entitled', NEW r \in 0..LastDay, Round(r)', <<p[1], r>> \in logged
        PROVE  Tried(p, r) /\ Reached(p[1], r)
    <3>1. r \in 0..day
      BY <2>1, <2>3
    <3> QED
      BY <1>2, <2>3, <3>1 DEF ServedInv, LoggedServed
  <2> QED
    BY <1>1, <2>2, <2>3 DEF LoggedServed, Tried, Reached, TripleOf
<1>5. EntitledAreSubs'
  BY <1>1 DEF ServedInv, EntitledAreSubs
<1>6. CleanRun'
  <2>1. end["scheduler"] \in 0..day
    BY DEF ServedInv, DigestShape, RunnerInv, EndIsPast, Runners
  <2> QED
    BY <1>1, <1>2, <2>1 DEF ServedInv, CleanRun, Served, Reached, TripleOf
<1>7. CompleteServed'
  <2> SUFFICES ASSUME NEW r \in complete
               PROVE  r \in 0..day' /\ (Round(r)' => \A p \in entitled' : Served(p, r))
    BY <1>1 DEF CompleteServed, Served, Reached, TripleOf
  <2>1. r \in 0..day /\ (Round(r) => \A p \in entitled : Served(p, r))
    BY DEF ServedInv, CompleteServed
  <2> QED
    BY <1>1, <1>2, <2>1
<1> QED
  BY <1>3, <1>4, <1>5, <1>6, <1>7 DEF ServedInv

LEMMA DigestKeepsServing ==
  ASSUME DigestShape, ServedInv, DigestNext
  PROVE  ServedInv'
<1>1. ASSUME \/ HourComes
             \/ \E p \in Subscribers : AddSubscription(p) \/ DeleteSubscription(p)
             \/ \E x \in Runners : SubscriptionsFail(x)
      PROVE  ServedInv'
  <2>1. /\ MailsGrow /\ entitled' \subseteq subs'
        /\ UNCHANGED <<logged, stepOf, left, end, domain, to, sent, clean, complete>>
    BY <1>1 DEF HourComes, AddSubscription, DeleteSubscription, SubscriptionsFail, MailsGrow, clock,
                runState, mailed, runs, ServedInv, EntitledAreSubs
  <2> QED
    BY <2>1, RunnerRests, LogRests, CleanRests, CompleteRests DEF ServedInv
<1>2. ASSUME DigestCrash
      PROVE  ServedInv'
  <2>1. /\ MailsGrow /\ UNCHANGED <<subs, logged, end, domain, sent, complete, entitled>>
        /\ \A x \in Runners : stepOf'[x] = "idle" /\ to'[x] = {}
    BY <1>2 DEF DigestCrash, MailsGrow, clock, mailed, runs
  <2>2. CleanRun'
    BY <2>1 DEF CleanRun, Runners
  <2> QED
    BY <2>1, <2>2, RunnerStops, LogRests, CompleteRests DEF ServedInv, EntitledAreSubs
<1> QED
  BY <1>1, <1>2, DigestDayEnds, DigestStarting, DigestFinishing, DigestLogging, DigestAtDomain,
     DigestUnread, DigestMailing
     DEF DigestNext

\* Whoever has been subscribed since the digest day began is served once his
\* domain is logged or a run of the scheduler for that day met no error,
\* whatever failed, crashed or was requested besides and whenever the day
\* ended, unless an error of his own send came together with the success of
\* another of his domain.
THEOREM SubscribersAreServed == Spec => []DigestServed
<1>1. Init => ServedInv
  <2> SUFFICES ASSUME Init PROVE ServedInv
    OBVIOUS
  <2>1. \A x \in Runners : RunnerInv(x)
    BY DEF Init, DigestInit, RunnerInv, EndIsPast, SendsToDomain, SentReached, WholeDomains,
           RoundTried
  <2> QED
    BY <2>1 DEF Init, DigestInit, ServedInv, EntitledAreSubs, LogIsPast, LoggedServed, CleanRun,
                CompleteServed, Runners
<1>2. DigestInv /\ ServedInv /\ [Next]_vars => ServedInv'
  <2> SUFFICES ASSUME DigestInv, ServedInv, [Next]_vars PROVE ServedInv'
    OBVIOUS
  <2>1. CASE DigestStep
    BY <2>1, DigestKeepsServing DEF DigestStep, DigestInv
  <2>2. CASE UNCHANGED digestVars
    <3>1. /\ MailsGrow
          /\ UNCHANGED <<subs, logged, stepOf, left, end, domain, to, sent, clean, complete,
                         entitled>>
      BY <2>2 DEF digestVars, clock, runState, mailed, runs, MailsGrow
    <3> QED
      BY <3>1, RunnerRests, LogRests, CleanRests, CompleteRests DEF ServedInv, EntitledAreSubs
  <2> QED
    BY <2>1, <2>2
       DEF Next, vars, AccessStep, IntelStep, SelectorsStep, RetentionStep, ExtractStep,
           ReadinessStep
<1>3. Init => DigestInv
  BY DigestStarts
<1>4. DigestInv /\ [Next]_vars => DigestInv'
  BY DigestStays
<1> QED
  BY <1>1, <1>2, <1>3, <1>4, ServedIsServed, PTL DEF Spec

-----------------------------------------------------------------------------
(* The selectors.  A page holds the next rows in their order, so what      *)
(* retention leaves of the reports behind the last serial was rewritten.   *)

\* A finite set of numbers has one member for every rank.
LEMMA EveryRank ==
  ASSUME NEW S, S \subseteq Nat, IsFiniteSet(S), NEW i \in 1..Cardinality(S)
  PROVE  \E s \in S : Rank(s, S) = i
<1> DEFINE n == Cardinality(S)
           Below(s) == {u \in S : u <= s}
           f == [s \in S |-> Cardinality(Below(s))]
<1>1. n \in Nat
  BY FS_CardinalityType
<1>2. ASSUME NEW s \in S
      PROVE  IsFiniteSet(Below(s)) /\ Cardinality(Below(s)) \in 1..n
  <2>1. IsFiniteSet(Below(s)) /\ Cardinality(Below(s)) <= n /\ s \in Below(s)
    BY FS_Subset
  <2>2. Cardinality(Below(s)) \in Nat
    BY <2>1, FS_CardinalityType
  <2>3. Cardinality(Below(s)) # 0
    BY <2>1, FS_EmptySet
  <2> QED
    BY <1>1, <2>1, <2>2, <2>3
<1>3. ASSUME NEW s \in S, NEW t \in S, s < t
      PROVE  Cardinality(Below(s)) # Cardinality(Below(t))
  <2>1. Below(s) \in SUBSET Below(t) /\ t \in Below(t) /\ t \notin Below(s)
    <3>1. s \in Nat /\ t \in Nat /\ \A u \in S : u \in Nat
      OBVIOUS
    <3>2. \A u \in S : u <= s => u <= t
      BY <1>3, <3>1
    <3>3. t <= t /\ ~(t <= s)
      BY <1>3, <3>1
    <3> QED
      BY <3>2, <3>3
  <2> HIDE DEF Below
  <2> QED
    BY <1>2, <2>1, FS_Subset
<1>4. \A s, t \in S : s # t => s < t \/ t < s
  OBVIOUS
<1>5. f \in [S -> 1..n] /\ \A s, t \in S : f[s] = f[t] => s = t
  <2> HIDE DEF Below
  <2> QED
    BY <1>2, <1>3, <1>4
<1>6. f \in Injection(S, 1..n)
  <2> HIDE DEF f
  <2> QED
    BY <1>5 DEF Injection, IsInjective
<1>7. IsFiniteSet(1..n) /\ Cardinality(1..n) = n
  <2> HIDE DEF n
  <2> QED
    BY <1>1, FS_Interval
<1>8. f \in Surjection(S, 1..n)
  BY <1>6, <1>7, FS_Injection
<1>9. \E s \in S : f[s] = i
  <2> HIDE DEF f
  <2> QED
    BY <1>8 DEF Surjection
<1> QED
  BY <1>9 DEF Rank

\* The next page: committed behind the last serial, ascending, none left out
\* before its last, and none at all only when there are none.
LEMMA NextPageIs ==
  ASSUME NEW committed, committed \subseteq Entries, after \in Nat
  PROVE  /\ NextPage(committed) \in Seq(Entries)
         /\ \A i \in 1..Len(NextPage(committed)) : NextPage(committed)[i] > after
         /\ \A i, j \in 1..Len(NextPage(committed)) :
              i < j => NextPage(committed)[i] < NextPage(committed)[j]
         /\ \A s \in committed : s > after =>
              \/ \E i \in 1..Len(NextPage(committed)) : NextPage(committed)[i] = s
              \/ \A i \in 1..Len(NextPage(committed)) : NextPage(committed)[i] < s
         /\ NextPage(committed) = <<>> => \A s \in committed : s <= after
<1> DEFINE coming == {s \in committed : s > after}
           n == IF Cardinality(coming) < Page THEN Cardinality(coming) ELSE Page
           next == [i \in 1..n |-> CHOOSE s \in coming : Rank(s, coming) = i]
<1>1. NextPage(committed) = next
  BY DEF NextPage
<1>2. coming \subseteq Nat /\ coming \subseteq Entries /\ IsFiniteSet(coming) /\ Page \in Nat \ {0}
  <2>1. IsFiniteSet(Entries) /\ Entries \subseteq Nat /\ Page \in Nat \ {0}
    BY SelectorsAssumption DEF SelectorsAssumption
  <2>2. coming \in SUBSET Entries
    OBVIOUS
  <2> QED
    BY <2>1, <2>2, FS_Subset
<1>3. Cardinality(coming) \in Nat /\ n \in Nat /\ n <= Cardinality(coming)
  BY <1>2, FS_CardinalityType
<1>4. ASSUME NEW i \in 1..n
      PROVE  next[i] \in coming /\ Rank(next[i], coming) = i
  <2>1. i \in 1..Cardinality(coming)
    BY <1>3
  <2>2. \E s \in coming : Rank(s, coming) = i
    <3> HIDE DEF coming
    <3> QED
      BY <1>2, <2>1, EveryRank
  <2> QED
    BY <2>2
<1> HIDE DEF next, n
<1>5. next \in Seq(Entries) /\ Len(next) = n
  BY <1>2, <1>3, <1>4 DEF next
<1>6. ASSUME NEW s \in coming, NEW t \in coming, s <= t
      PROVE  /\ Rank(s, coming) \in Nat /\ Rank(t, coming) \in Nat
             /\ Rank(s, coming) <= Rank(t, coming)
             /\ Rank(s, coming) = Rank(t, coming) => s = t
             /\ Rank(t, coming) >= 1 /\ Rank(t, coming) <= Cardinality(coming)
  <2> DEFINE low == {u \in coming : u <= s}
             high == {u \in coming : u <= t}
  <2>1. low \in SUBSET high /\ high \in SUBSET coming /\ t \in high /\ s \in low
    BY <1>2, <1>6
  <2>2. low = high => s = t
    BY <1>2, <1>6, <2>1
  <2>3. Rank(s, coming) = Cardinality(low) /\ Rank(t, coming) = Cardinality(high)
    BY DEF Rank
  <2> HIDE DEF low, high, coming
  <2>4. IsFiniteSet(low) /\ IsFiniteSet(high)
    BY <1>2, <2>1, FS_Subset
  <2>5. /\ Cardinality(low) \in Nat /\ Cardinality(high) \in Nat
        /\ Cardinality(high) # 0
    BY <2>1, <2>4, FS_CardinalityType, FS_EmptySet
  <2>6. Cardinality(low) <= Cardinality(high) /\ Cardinality(high) <= Cardinality(coming)
    BY <1>2, <2>1, <2>4, FS_Subset
  <2>7. Cardinality(low) = Cardinality(high) => low = high
    BY <2>1, <2>4, FS_Subset
  <2> QED
    BY <2>2, <2>3, <2>5, <2>6, <2>7
<1>7. ASSUME NEW i \in 1..n, NEW j \in 1..n, i < j
      PROVE  next[i] < next[j]
  <2>1. next[i] \in Nat /\ next[j] \in Nat
    BY <1>2, <1>4
  <2>2. ~(next[j] <= next[i])
    <3> HIDE DEF coming
    <3> QED
      BY <1>3, <1>4, <1>6, <1>7
  <2> QED
    BY <2>1, <2>2
<1>8. ASSUME NEW s \in coming, \A i \in 1..n : next[i] # s
      PROVE  \A i \in 1..n : next[i] < s
  <2> SUFFICES ASSUME NEW i \in 1..n, ~(next[i] < s)
               PROVE  FALSE
    OBVIOUS
  <2>1. next[i] \in coming /\ s <= next[i] /\ Rank(next[i], coming) = i
    BY <1>2, <1>4
  <2>2. Rank(s, coming) \in 1..n
    <3> HIDE DEF coming
    <3>1. Rank(s, coming) >= 1 /\ Rank(s, coming) \in Nat /\ s <= s
      BY <1>2, <1>6
    <3> QED
      BY <1>3, <1>6, <2>1, <3>1
  <2>3. next[Rank(s, coming)] \in coming /\ Rank(next[Rank(s, coming)], coming) = Rank(s, coming)
    BY <1>4, <2>2
  <2>4. next[Rank(s, coming)] = s
    <3> HIDE DEF coming
    <3>1. next[Rank(s, coming)] \in Nat /\ s \in Nat
      BY <1>2, <2>3
    <3>2. \A a, b \in Nat : a <= b \/ b <= a
      OBVIOUS
    <3>3. next[Rank(s, coming)] <= s \/ s <= next[Rank(s, coming)]
      BY <3>1, <3>2
    <3> QED
      BY <1>6, <2>3, <3>3
  <2> QED
    BY <1>8, <2>2, <2>4
<1>9. next = <<>> => coming = {}
  <2> SUFFICES ASSUME next = <<>> PROVE coming = {}
    OBVIOUS
  <2>1. n = 0
    BY <1>3, <1>5
  <2>2. Cardinality(coming) = 0
    BY <1>2, <1>3, <2>1 DEF n
  <2> HIDE DEF coming
  <2> QED
    BY <1>2, <2>2, FS_EmptySet
<1>10. \A s \in committed : s > after <=> s \in coming
  OBVIOUS
<1>11. \A s \in committed : s \in Nat
  BY SelectorsAssumption DEF SelectorsAssumption
<1> HIDE DEF coming
<1>12. \A i \in 1..n : next[i] > after
  BY <1>4 DEF coming
<1> QED
  BY <1>1, <1>5, <1>7, <1>8, <1>9, <1>10, <1>11, <1>12

\* The transaction of the backfill is that of the first row of its page.
RebuildSaves == Saving(Rebuild) => rebuildAt = "rows" /\ page # <<>> /\ page[1] = after

\* The rows of the page lie ahead, and hide none that is still readable.
PageLiesAhead ==
  /\ rebuildAt # "rows" => page = <<>>
  /\ \A i \in 1..Len(page) : page[i] > after \/ (Saving(Rebuild) /\ i = 1)
  /\ \A i, j \in 1..Len(page) : i < j => page[i] < page[j]
  /\ rebuildAt = "rows" => \A s \in early \cap rawKept :
       s > after => \/ \E i \in 1..Len(page) : page[i] = s
                    \/ \A i \in 1..Len(page) : page[i] < s

\* What lies behind was rewritten.
BehindIsKept ==
  rebuildAt # "off" => \A s \in (early \cap rawKept) \ Unparsable :
    s <= after => s \in kept \/ (Saving(Rebuild) /\ s = after)

DoneIsAll == rebuildAt = "done" => \A s \in early \cap rawKept : s <= after

KeptHasRows == \A s \in kept : s \in Entries /\ authRows[s] # {}

SelectorShape ==
  /\ visible \subseteq Entries /\ early \subseteq visible
  /\ DOMAIN authRows = Entries /\ authRows = [s \in Entries |-> authRows[s]]
  /\ save \in [Writers -> {"off", "begin", "delete", "insert"}]
  /\ after \in Nat /\ page \in Seq(Entries)
  /\ rebuildAt \in {"off", "page", "rows", "done"}

SelectorInv ==
  /\ SelectorShape /\ RebuildSaves /\ PageLiesAhead /\ BehindIsKept /\ DoneIsAll /\ KeptHasRows

LEMMA WritersAre ==
  /\ Rebuild \in Writers /\ Rebuild \notin Entries
  /\ \A s \in Entries : s \in Writers /\ s \in Nat /\ s > 0 /\ s # Rebuild
  BY SelectorsAssumption DEF SelectorsAssumption, Writers, Rebuild

\* The backfill rests, and reports come, age or are rewritten.
LEMMA RebuildRests ==
  ASSUME SelectorInv, SelectorShape', KeptHasRows', UNCHANGED <<after, page, rebuildAt, early>>,
         rawKept' \subseteq rawKept, kept \subseteq kept',
         Saving(Rebuild)' <=> Saving(Rebuild)
  PROVE  SelectorInv'
  BY DEF SelectorInv, RebuildSaves, PageLiesAhead, BehindIsKept, DoneIsAll

LEMMA SelectorMoves ==
  ASSUME SelectorInv, SelectorsNext
  PROVE  SelectorInv'
<1> USE WritersAre
<1>1. ASSUME NEW s \in Entries, ReportVisible(s) \/ RawAgesOut(s)
      PROVE  SelectorInv'
  <2>1. /\ UNCHANGED <<authRows, after, page, rebuildAt, early, kept>>
        /\ visible \subseteq visible' /\ visible' \subseteq Entries /\ rawKept' \subseteq rawKept
        /\ save' = save \/ save' = [save EXCEPT ![s] = "begin"]
    BY <1>1 DEF ReportVisible, RawAgesOut, rebuild, tx, SelectorInv, SelectorShape
  <2>2. SelectorShape' /\ KeptHasRows' /\ save'[Rebuild] = save[Rebuild]
    BY <2>1 DEF SelectorInv, SelectorShape, KeptHasRows
  <2> QED
    BY <2>1, <2>2, RebuildRests DEF Saving
<1>2. ASSUME NEW w \in Writers, DeleteSees(w) \/ DeleteRows(w)
      PROVE  SelectorInv'
  <2>1. /\ UNCHANGED <<visible, rawKept, authRows, after, page, rebuildAt, early, kept>>
        /\ save[w] \in {"begin", "delete"}
        /\ \E v \in {"delete", "insert"} : save' = [save EXCEPT ![w] = v]
    BY <1>2 DEF DeleteSees, DeleteRows, rebuild
  <2>2. SelectorShape' /\ KeptHasRows'
    BY <2>1 DEF SelectorInv, SelectorShape, KeptHasRows
  <2>3. Saving(Rebuild)' <=> Saving(Rebuild)
    BY <2>1 DEF SelectorInv, SelectorShape, Saving
  <2> QED
    BY <2>1, <2>2, <2>3, RebuildRests
<1>3. ASSUME NEW w \in Writers, CommitRows(w)
      PROVE  SelectorInv'
  <2>1. /\ save' = [save EXCEPT ![w] = "off"] /\ save[w] = "insert"
        /\ authRows' = [authRows EXCEPT ![SerialOf(w)] = (@ \ deleted[w]) \cup {NameOf(w)}]
        /\ kept' = kept \cup {SerialOf(w)}
        /\ page' = IF w = Rebuild THEN Tail(page) ELSE page
        /\ UNCHANGED <<visible, rawKept, after, rebuildAt, early>>
    BY <1>3 DEF CommitRows, EndTx
  <2>2. CASE w # Rebuild
    <3>1. SerialOf(w) = w /\ w \in Entries
      BY <2>2 DEF SerialOf, Writers
    <3>2. SelectorShape' /\ KeptHasRows' /\ (Saving(Rebuild)' <=> Saving(Rebuild))
      BY <2>1, <2>2, <3>1 DEF SelectorInv, SelectorShape, KeptHasRows, Saving
    <3> QED
      BY <2>1, <2>2, <3>2, RebuildRests
  <2>3. CASE w = Rebuild
    <3>1. /\ rebuildAt = "rows" /\ page # <<>> /\ page[1] = after /\ page \in Seq(Entries)
      BY <2>1, <2>3 DEF SelectorInv, SelectorShape, RebuildSaves, Saving
    <3>2. /\ Head(page) = page[1] /\ Head(page) \in Entries
          /\ Tail(page) \in Seq(Entries) /\ Len(Tail(page)) = Len(page) - 1
          /\ \A i \in 1..Len(Tail(page)) : Tail(page)[i] = page[i + 1]
          /\ Len(page) \in Nat /\ Len(page) >= 1
      BY <3>1, HeadTailProperties, EmptySeq
    <3>3. SerialOf(w) = after /\ after \in Entries
      BY <2>3, <3>1, <3>2 DEF SerialOf
    <3>4. SelectorShape' /\ KeptHasRows'
      BY <2>1, <2>3, <3>2, <3>3 DEF SelectorInv, SelectorShape, KeptHasRows
    <3>5. ~Saving(Rebuild)'
      BY <2>1, <2>3 DEF SelectorInv, SelectorShape, Saving
    <3>6. \A i \in 1..Len(page') : i + 1 \in 1..Len(page) /\ page'[i] = page[i + 1] /\ i + 1 # 1
      BY <2>1, <2>3, <3>2
    <3>7. PageLiesAhead'
      <4>1. \A i \in 1..Len(page') : page'[i] > after
        BY <3>6 DEF SelectorInv, PageLiesAhead
      <4>2. \A i, j \in 1..Len(page') : i < j => page'[i] < page'[j]
        BY <3>6 DEF SelectorInv, PageLiesAhead
      <4>3. ASSUME NEW s \in early \cap rawKept, s > after
            PROVE  \/ \E i \in 1..Len(page') : page'[i] = s
                   \/ \A i \in 1..Len(page') : page'[i] < s
        <5>1. CASE \A i \in 1..Len(page) : page[i] < s
          BY <3>6, <5>1
        <5>2. CASE ~\A i \in 1..Len(page) : page[i] < s
          <6>1. PICK i \in 1..Len(page) : page[i] = s
            BY <3>1, <4>3, <5>2 DEF SelectorInv, PageLiesAhead
          <6>2. i # 1 /\ i - 1 \in 1..Len(page') /\ (i - 1) + 1 = i
            BY <2>1, <2>3, <3>1, <3>2, <4>3, <6>1 DEF SelectorInv, SelectorShape
          <6>3. page'[i - 1] = s
            BY <3>6, <6>1, <6>2
          <6> QED
            BY <6>2, <6>3
        <5> QED
          BY <5>1, <5>2
      <4> QED
        BY <2>1, <3>1, <4>1, <4>2, <4>3 DEF PageLiesAhead
    <3>8. RebuildSaves' /\ BehindIsKept' /\ DoneIsAll'
      BY <2>1, <3>1, <3>3, <3>5 DEF SelectorInv, RebuildSaves, BehindIsKept, DoneIsAll
    <3> QED
      BY <3>4, <3>7, <3>8 DEF SelectorInv
  <2> QED
    BY <2>2, <2>3
<1>4. ASSUME NEW w \in Writers, SaveFails(w)
      PROVE  SelectorInv'
  <2>1. /\ save' = [save EXCEPT ![w] = "off"] /\ Saving(w)
        /\ rebuildAt' = IF w = Rebuild THEN "off" ELSE rebuildAt
        /\ page' = IF w = Rebuild THEN <<>> ELSE page
        /\ UNCHANGED <<visible, rawKept, authRows, after, early, kept>>
    BY <1>4 DEF SaveFails, EndTx
  <2>2. SelectorShape' /\ KeptHasRows'
    BY <2>1 DEF SelectorInv, SelectorShape, KeptHasRows
  <2>3. CASE w # Rebuild
    <3>1. Saving(Rebuild)' <=> Saving(Rebuild)
      BY <2>1, <2>3 DEF SelectorInv, SelectorShape, Saving
    <3> QED
      BY <2>1, <2>2, <2>3, <3>1, RebuildRests
  <2>4. CASE w = Rebuild
    <3>1. ~Saving(Rebuild)' /\ page' = <<>> /\ Len(page') = 0 /\ rebuildAt' = "off"
      BY <2>1, <2>4, EmptySeq DEF SelectorInv, SelectorShape, Saving
    <3> QED
      BY <2>2, <3>1 DEF SelectorInv, RebuildSaves, PageLiesAhead, BehindIsKept, DoneIsAll
  <2> QED
    BY <2>3, <2>4
<1>5. ASSUME StartRebuild
      PROVE  SelectorInv'
  <2>1. /\ rebuildAt = "off" /\ rebuildAt' = "page" /\ after' = 0 /\ early' = visible
        /\ UNCHANGED <<visible, rawKept, authRows, save, page, kept>>
    BY <1>5 DEF StartRebuild, tx
  <2>2. page = <<>> /\ ~Saving(Rebuild) /\ Len(page) = 0
    BY <2>1, EmptySeq DEF SelectorInv, RebuildSaves, PageLiesAhead
  <2>3. SelectorShape' /\ KeptHasRows' /\ ~Saving(Rebuild)'
    BY <2>1, <2>2 DEF SelectorInv, SelectorShape, KeptHasRows, Saving
  <2>4. \A s \in early' : s \in Nat /\ ~(s <= 0)
    BY <2>1 DEF SelectorInv, SelectorShape
  <2> QED
    BY <2>1, <2>2, <2>3, <2>4 DEF SelectorInv, RebuildSaves, PageLiesAhead, BehindIsKept, DoneIsAll
<1>6. ASSUME ReadPage
      PROVE  SelectorInv'
  <2>1. /\ rebuildAt = "page" /\ page' = NextPage(visible \cap rawKept)
        /\ rebuildAt' = IF page' = <<>> THEN "done" ELSE "rows"
        /\ UNCHANGED <<visible, rawKept, authRows, save, after, early, kept>>
    BY <1>6 DEF ReadPage, tx
  <2>2. visible \cap rawKept \subseteq Entries /\ after \in Nat
        /\ early \cap rawKept \subseteq visible \cap rawKept /\ ~Saving(Rebuild)
    BY <2>1 DEF SelectorInv, SelectorShape, RebuildSaves
  <2>3. /\ page' \in Seq(Entries)
        /\ \A i \in 1..Len(page') : page'[i] > after
        /\ \A i, j \in 1..Len(page') : i < j => page'[i] < page'[j]
        /\ \A s \in early \cap rawKept : s > after =>
             \/ \E i \in 1..Len(page') : page'[i] = s
             \/ \A i \in 1..Len(page') : page'[i] < s
        /\ page' = <<>> => \A s \in early \cap rawKept : s <= after
    BY <2>1, <2>2, NextPageIs
  <2>4. SelectorShape' /\ KeptHasRows' /\ ~Saving(Rebuild)'
    BY <2>1, <2>2, <2>3 DEF SelectorInv, SelectorShape, KeptHasRows, Saving
  <2>5. PageLiesAhead' /\ RebuildSaves' /\ DoneIsAll'
    BY <2>1, <2>3, <2>4 DEF PageLiesAhead, RebuildSaves, DoneIsAll
  <2>6. BehindIsKept'
    BY <2>1, <2>2 DEF SelectorInv, BehindIsKept
  <2> QED
    BY <2>4, <2>5, <2>6 DEF SelectorInv
<1>7. ASSUME ReadPageFails
      PROVE  SelectorInv'
  <2>1. /\ rebuildAt = "page" /\ rebuildAt' = "off"
        /\ UNCHANGED <<visible, rawKept, authRows, save, after, page, early, kept>>
    BY <1>7 DEF ReadPageFails, tx
  <2>2. page = <<>> /\ ~Saving(Rebuild) /\ Len(page) = 0
    BY <2>1, EmptySeq DEF SelectorInv, RebuildSaves, PageLiesAhead
  <2>3. SelectorShape' /\ KeptHasRows' /\ ~Saving(Rebuild)'
    BY <2>1, <2>2 DEF SelectorInv, SelectorShape, KeptHasRows, Saving
  <2> QED
    BY <2>1, <2>2, <2>3 DEF SelectorInv, RebuildSaves, PageLiesAhead, BehindIsKept, DoneIsAll
<1>8. ASSUME NextRow
      PROVE  SelectorInv'
  <2>1. /\ rebuildAt = "rows" /\ ~Saving(Rebuild)
        /\ UNCHANGED <<visible, rawKept, authRows, early, kept>>
    BY <1>8 DEF NextRow
  <2>2. CASE page = <<>>
    <3>1. rebuildAt' = "page" /\ UNCHANGED <<after, page, save>> /\ Len(page) = 0
      BY <1>8, <2>2, EmptySeq DEF NextRow
    <3>2. SelectorShape' /\ KeptHasRows' /\ ~Saving(Rebuild)'
      BY <2>1, <3>1 DEF SelectorInv, SelectorShape, KeptHasRows, Saving
    <3> QED
      BY <2>1, <2>2, <3>1, <3>2
      DEF SelectorInv, RebuildSaves, PageLiesAhead, BehindIsKept, DoneIsAll
  <2>3. CASE page # <<>>
    <3>1. /\ Head(page) = page[1] /\ Head(page) \in Entries /\ page \in Seq(Entries)
          /\ Tail(page) \in Seq(Entries) /\ Len(Tail(page)) = Len(page) - 1
          /\ \A i \in 1..Len(Tail(page)) : Tail(page)[i] = page[i + 1]
          /\ Len(page) \in Nat /\ Len(page) >= 1 /\ 1 \in 1..Len(page)
      BY <2>3, HeadTailProperties, EmptySeq DEF SelectorInv, SelectorShape
    <3>2. /\ after' = page[1] /\ UNCHANGED rebuildAt
          /\ \/ page[1] \in Unparsable /\ page' = Tail(page) /\ save' = save
             \/ page' = page /\ save' = [save EXCEPT ![Rebuild] = "begin"]
      BY <1>8, <2>3, <3>1 DEF NextRow
    <3>3. SelectorShape' /\ KeptHasRows'
      <4>1. after' \in Nat /\ page' \in Seq(Entries) /\ UNCHANGED rebuildAt
        BY <3>1, <3>2
      <4>2. save' \in [Writers -> {"off", "begin", "delete", "insert"}]
        BY <3>2 DEF SelectorInv, SelectorShape
      <4> QED
        BY <2>1, <4>1, <4>2 DEF SelectorInv, SelectorShape, KeptHasRows
    <3>4. \A i \in 1..Len(page) : page[i] \in Nat /\ page[i] > after /\ (i # 1 => page[i] > page[1])
      <4>1. \A i \in 1..Len(page) : page[i] \in Entries
        BY <3>1, ElementOfSeq
      <4> QED
        BY <2>1, <3>1, <4>1 DEF SelectorInv, PageLiesAhead
    <3>5. ASSUME NEW s \in early \cap rawKept
          PROVE  /\ s \in Nat
                 /\ s > after => s = page[1] \/ s > page[1]
                 /\ s > page[1] => \/ \E i \in 1..Len(page) : i # 1 /\ page[i] = s
                                   \/ \A i \in 1..Len(page) : page[i] < s
      <4>1. s \in Nat /\ after \in Nat /\ page[1] > after /\ page[1] \in Nat
        BY <3>1, <3>4 DEF SelectorInv, SelectorShape
      <4>2. s > after => \/ \E i \in 1..Len(page) : page[i] = s
                         \/ \A i \in 1..Len(page) : page[i] < s
        BY <2>1 DEF SelectorInv, PageLiesAhead
      <4> QED
        BY <3>1, <3>4, <4>1, <4>2
    <3>6. CASE page[1] \in Unparsable /\ page' = Tail(page) /\ save' = save
      <4>1. ~Saving(Rebuild)'
        BY <2>1, <3>6 DEF Saving
      <4>2. \A i \in 1..Len(page') : i + 1 \in 1..Len(page) /\ page'[i] = page[i + 1] /\ i + 1 # 1
        BY <3>1, <3>6
      <4>3. \A i \in 1..Len(page) : i # 1 => i - 1 \in 1..Len(page') /\ page'[i - 1] = page[i]
        <5> SUFFICES ASSUME NEW i \in 1..Len(page), i # 1
                     PROVE  i - 1 \in 1..Len(page') /\ page'[i - 1] = page[i]
          OBVIOUS
        <5>1. i - 1 \in 1..Len(page') /\ (i - 1) + 1 = i
          BY <3>1, <3>6
        <5> QED
          BY <4>2, <5>1
      <4>4. \A i \in 1..Len(page') : page'[i] > after'
        BY <3>2, <3>4, <4>2
      <4>5. \A i, j \in 1..Len(page') : i < j => page'[i] < page'[j]
        BY <4>2 DEF SelectorInv, PageLiesAhead
      <4>6. \A s \in early \cap rawKept : s > after' =>
               \/ \E i \in 1..Len(page') : page'[i] = s
               \/ \A i \in 1..Len(page') : page'[i] < s
        <5> SUFFICES ASSUME NEW s \in early \cap rawKept, s > page[1]
                     PROVE  \/ \E i \in 1..Len(page') : page'[i] = s
                            \/ \A i \in 1..Len(page') : page'[i] < s
          BY <3>2
        <5>1. CASE \E i \in 1..Len(page) : i # 1 /\ page[i] = s
          BY <4>3, <5>1
        <5>2. CASE \A i \in 1..Len(page) : page[i] < s
          BY <4>2, <5>2
        <5> QED
          BY <3>5, <5>1, <5>2
      <4>7. PageLiesAhead' /\ RebuildSaves' /\ DoneIsAll'
        BY <2>1, <3>2, <4>1, <4>4, <4>5, <4>6 DEF PageLiesAhead, RebuildSaves, DoneIsAll
      <4>8. BehindIsKept'
        <5>1. \A s \in (early \cap rawKept) \ Unparsable : s <= after' => s <= after
          <6> SUFFICES ASSUME NEW s \in (early \cap rawKept) \ Unparsable, s <= page[1], s > after
                       PROVE  FALSE
            BY <3>2, <3>5 DEF SelectorInv, SelectorShape
          <6>1. s > page[1] /\ page[1] \in Nat /\ s \in Nat
            BY <3>1, <3>4, <3>5, <3>6
          <6> QED
            BY <6>1
        <5> QED
          BY <2>1, <5>1 DEF SelectorInv, BehindIsKept
      <4> QED
        BY <3>3, <4>7, <4>8 DEF SelectorInv
    <3>7. CASE page' = page /\ save' = [save EXCEPT ![Rebuild] = "begin"]
      <4>1. Saving(Rebuild)'
        BY <3>7 DEF SelectorInv, SelectorShape, Saving
      <4>2. RebuildSaves'
        BY <2>1, <2>3, <3>2, <3>7 DEF RebuildSaves
      <4>3. PageLiesAhead' /\ DoneIsAll'
        BY <2>1, <3>2, <3>4, <3>5, <3>7, <4>1 DEF SelectorInv, PageLiesAhead, DoneIsAll
      <4>4. BehindIsKept'
        <5>1. \A s \in early \cap rawKept : s <= after' => s <= after \/ s = after'
          BY <3>1, <3>2, <3>5 DEF SelectorInv, SelectorShape
        <5> QED
          BY <2>1, <4>1, <5>1 DEF SelectorInv, BehindIsKept
      <4> QED
        BY <3>3, <4>2, <4>3, <4>4 DEF SelectorInv
    <3> QED
      BY <3>2, <3>6, <3>7
  <2> QED
    BY <2>2, <2>3
<1>9. ASSUME SelectorsCrash
      PROVE  SelectorInv'
  <2>1. /\ save' = [w \in Writers |-> IF w = Rebuild THEN save[w] ELSE "off"]
        /\ UNCHANGED <<visible, rawKept, authRows, after, page, rebuildAt, early, kept>>
    BY <1>9 DEF SelectorsCrash, rebuild
  <2>2. SelectorShape' /\ KeptHasRows' /\ (Saving(Rebuild)' <=> Saving(Rebuild))
    BY <2>1 DEF SelectorInv, SelectorShape, KeptHasRows, Saving
  <2> QED
    BY <2>1, <2>2, RebuildRests
<1> QED
  BY <1>1, <1>2, <1>3, <1>4, <1>5, <1>6, <1>7, <1>8, <1>9 DEF SelectorsNext

LEMMA SelectorsStart == Init => SelectorInv
<1> SUFFICES ASSUME Init PROVE SelectorInv
  OBVIOUS
<1>1. /\ visible = {} /\ authRows = [s \in Entries |-> {}] /\ save = [w \in Writers |-> "off"]
      /\ after = 0 /\ page = <<>> /\ rebuildAt = "off" /\ early = {} /\ kept = {}
  BY DEF Init, SelectorsInit
<1>2. page \in Seq(Entries) /\ Len(page) = 0 /\ ~Saving(Rebuild)
  BY <1>1, WritersAre, EmptySeq DEF Saving
<1> QED
  BY <1>1, <1>2 DEF SelectorInv, SelectorShape, RebuildSaves, PageLiesAhead, BehindIsKept,
                    DoneIsAll, KeptHasRows

LEMMA SelectorsStay == SelectorInv /\ [Next]_vars => SelectorInv'
<1> SUFFICES ASSUME SelectorInv, [Next]_vars PROVE SelectorInv'
  OBVIOUS
<1>1. CASE SelectorsStep
  BY <1>1, SelectorMoves DEF SelectorsStep
<1>2. CASE UNCHANGED selectorVars
  BY <1>2 DEF selectorVars, tx, rebuild, SelectorInv, SelectorShape, RebuildSaves,
              PageLiesAhead, BehindIsKept, DoneIsAll, KeptHasRows, Saving
<1> QED
  BY <1>1, <1>2
     DEF Next, vars, AccessStep, IntelStep, DigestStep, RetentionStep, ExtractStep,
         ReadinessStep

\* Two processes may rewrite the rows of one report, fail or die: no report
\* that ever had rows is left without, and a backfill that gets through has
\* been to every readable report that was there when it began.
THEOREM SelectorsAreKept == Spec => []SelectorsKept
<1>1. SelectorInv => SelectorsKept
  BY DEF SelectorInv, SelectorShape, RebuildSaves, BehindIsKept, DoneIsAll, KeptHasRows,
         SelectorsKept
<1> QED
  BY <1>1, SelectorsStart, SelectorsStay, PTL DEF Spec

-----------------------------------------------------------------------------
(* The walk through the parts of a mail: what was found so far is what     *)
(* there was to find in the parts behind it.                               *)

\* The parts behind the walk.
Walked == 1..(partNo - 1)

WalkShape ==
  /\ parts \in Seq(Parts) /\ partNo \in 1..(Len(parts) + 1)
  /\ documents \in [Kinds -> Seq(Walked)]
  /\ forensic \in Seq([feedback : Walked, original : {0} \cup Walked])
  /\ firstErr \in {0} \cup Walked
  /\ outcome \in {"none", "failed", "ignored", "payloads"}
  /\ outcome # "none" => partNo = Len(parts) + 1

DocumentsSoFar ==
  \A k \in Kinds :
    /\ \A i \in Walked : Taken(k, i) = ToFind(k, i)
    /\ \A m, n \in DOMAIN documents[k] : m < n => documents[k][m] <= documents[k][n]

FeedbackSoFar ==
  /\ {forensic[i].feedback : i \in DOMAIN forensic} = Typed("feedback") \cap Walked
  /\ \A i, j \in DOMAIN forensic : i < j => forensic[i].feedback < forensic[j].feedback

OriginalsSoFar ==
  /\ \A i, j \in DOMAIN forensic : i < j /\ forensic[j].original # 0 =>
       forensic[i].original \in 1..(forensic[j].original - 1)
  /\ \A i \in DOMAIN forensic : forensic[i].original # 0 =>
       forensic[i].original \in Typed("original") /\ forensic[i].original > forensic[i].feedback
  /\ \A o \in Typed("original") \cap Walked :
       \/ \E i \in DOMAIN forensic : forensic[i].original = o
       \/ \A i \in DOMAIN forensic : forensic[i].feedback > o \/ forensic[i].original \in 1..o

ErrorSoFar == firstErr # 0 <=> Unread \cap Walked # {}

OutcomeFits ==
  outcome # "none" =>
    outcome = IF ~NoPayload THEN "payloads" ELSE IF firstErr # 0 THEN "failed" ELSE "ignored"

WalkInv ==
  /\ WalkShape /\ DocumentsSoFar /\ FeedbackSoFar /\ OriginalsSoFar /\ ErrorSoFar /\ OutcomeFits

LEMMA ForensicFacts ==
  ASSUME WalkInv
  PROVE  /\ Len(forensic) \in Nat /\ DOMAIN forensic = 1..Len(forensic)
         /\ \A i \in 1..Len(forensic) :
              /\ forensic[i] \in [feedback : Walked, original : {0} \cup Walked]
              /\ forensic[i].feedback \in Walked
              /\ forensic[i].original \in {0} \cup Walked
<1> DEFINE S == [feedback : Walked, original : {0} \cup Walked]
<1>1. forensic \in Seq(S)
  BY DEF WalkInv, WalkShape
<1> HIDE DEF S
<1>2. Len(forensic) \in Nat /\ DOMAIN forensic = 1..Len(forensic)
  BY <1>1
<1>3. ASSUME NEW i \in 1..Len(forensic)
      PROVE  forensic[i] \in S
  BY <1>1
<1>4. \A x \in S : x.feedback \in Walked /\ x.original \in {0} \cup Walked
  BY DEF S
<1> QED
  BY <1>2, <1>3, <1>4 DEF S

LEMMA SeqWidens == ASSUME NEW S, NEW T, S \subseteq T, NEW s \in Seq(S) PROVE s \in Seq(T)
<1>1. Len(s) \in Nat /\ DOMAIN s = 1..Len(s) /\ s = [i \in 1..Len(s) |-> s[i]]
  OBVIOUS
<1>2. \A i \in 1..Len(s) : s[i] \in T
  OBVIOUS
<1> QED
  BY <1>1, <1>2

LEMMA CopiesFollow ==
  ASSUME NEW S, NEW s \in Seq(S), NEW n \in Nat, NEW x \in S
  PROVE  LET t == s \o [i \in 1..n |-> x]
         IN  /\ t \in Seq(S) /\ Len(t) = Len(s) + n /\ DOMAIN t = 1..(Len(s) + n)
             /\ \A i \in 1..Len(s) : t[i] = s[i]
             /\ \A i \in (Len(s) + 1)..(Len(s) + n) : t[i] = x
<1>1. [i \in 1..n |-> x] \in Seq(S) /\ Len([i \in 1..n |-> x]) = n
  OBVIOUS
<1> QED
  BY <1>1

LEMMA PartFacts ==
  ASSUME NEW i \in DOMAIN parts, parts \in Seq(Parts)
  PROVE  /\ parts[i] \in Parts /\ parts[i].docs \in Seq(Kinds \cup {"other", "broken"})
         /\ \A k \in Kinds : /\ IsFiniteSet(DocsOf(parts[i], k))
                             /\ Cardinality(DocsOf(parts[i], k)) \in Nat
                             /\ Cardinality(DocsOf(parts[i], k)) = 0 <=> DocsOf(parts[i], k) = {}
<1>1. parts[i] \in Parts /\ parts[i].docs \in Seq(Kinds \cup {"other", "broken"})
  BY ExtractAssumption DEF ExtractAssumption
<1>2. DOMAIN parts[i].docs = 1..Len(parts[i].docs) /\ Len(parts[i].docs) \in Nat
  BY <1>1
<1>3. IsFiniteSet(DOMAIN parts[i].docs)
  BY <1>2, FS_Interval
<1>4. ASSUME NEW k \in Kinds
      PROVE  IsFiniteSet(DocsOf(parts[i], k))
  BY <1>3, FS_Subset DEF DocsOf
<1> QED
  BY <1>1, <1>4, FS_CardinalityType, FS_EmptySet

LEMMA ReadableIs ==
  ASSUME parts \in Seq(Parts), NEW i \in DOMAIN parts
  PROVE  i \in Readable <=> parts[i].type = "data" /\ ~ExpandFails(parts[i])
<1> DEFINE p == parts[i]
<1>1. Contains(p.docs, "broken") <=> "broken" \in ToSet(p.docs)
  <2>1. DOMAIN p.docs = 1..Len(p.docs)
    BY PartFacts
  <2> QED
    BY <2>1 DEF Contains, ToSet
<1>2. (\A k \in Kinds : DocsOf(p, k) = {}) <=> ToSet(p.docs) \cap Kinds = {}
  BY DEF DocsOf, ToSet
<1> HIDE DEF p
<1>3. i \in Readable <=> /\ p.type = "data"
                         /\ \/ p.box = "bare"
                            \/ "broken" \notin ToSet(p.docs) /\ ToSet(p.docs) \cap Kinds # {}
  BY DEF Readable, Typed, p
<1>4. ExpandFails(p) <=>
        p.box # "bare" /\ (Contains(p.docs, "broken") \/ \A k \in Kinds : DocsOf(p, k) = {})
  BY DEF ExpandFails
<1> QED
  BY <1>1, <1>2, <1>3, <1>4 DEF p

LEMMA WalkStarts == Init => WalkInv
<1> SUFFICES ASSUME Init PROVE WalkInv
  OBVIOUS
<1>1. /\ partNo = 1 /\ firstErr = 0 /\ outcome = "none"
      /\ documents = [k \in Kinds |-> <<>>] /\ forensic = <<>>
      /\ parts = <<>> \/ parts \in BoundedSeq(Parts, MaxParts)
  BY DEF Init, ExtractInit, ExtractIdle
<1>2. parts \in Seq(Parts)
  <2>1. CASE parts \in BoundedSeq(Parts, MaxParts)
    <3>1. MaxParts \in Nat
      BY ExtractAssumption DEF ExtractAssumption
    <3>2. PICK m \in 0..MaxParts : parts \in [1..m -> Parts]
      BY <2>1 DEF BoundedSeq, SeqOf
    <3> QED
      BY <3>1, <3>2
  <2>2. CASE parts = <<>>
    BY <2>2
  <2> QED
    BY <1>1, <2>1, <2>2
<1>3. Walked = {}
  BY <1>1 DEF Walked
<1>4. WalkShape
  BY <1>1, <1>2, <1>3 DEF WalkShape
<1>5. DocumentsSoFar
  BY <1>1, <1>3 DEF DocumentsSoFar
<1>6. FeedbackSoFar /\ OriginalsSoFar
  BY <1>1, <1>3 DEF FeedbackSoFar, OriginalsSoFar
<1> QED
  BY <1>1, <1>3, <1>4, <1>5, <1>6 DEF WalkInv, ErrorSoFar, OutcomeFits

LEMMA WalkRests == ASSUME WalkInv, UNCHANGED extractVars PROVE WalkInv'
<1>1. UNCHANGED <<parts, partNo, documents, forensic, firstErr, outcome>>
  BY DEF extractVars
<1>2. UNCHANGED <<Walked, Readable, Unread>> /\ \A type : Typed(type)' = Typed(type)
  BY <1>1 DEF Walked, Readable, Unread, Typed
<1>3. \A k, i : Taken(k, i)' = Taken(k, i) /\ ToFind(k, i)' = ToFind(k, i)
  BY <1>1, <1>2 DEF Taken, ToFind
<1>4. WalkShape' /\ DocumentsSoFar'
  BY <1>1, <1>2, <1>3 DEF WalkInv, WalkShape, DocumentsSoFar
<1>5. FeedbackSoFar' /\ OriginalsSoFar'
  BY <1>1, <1>2 DEF WalkInv, FeedbackSoFar, OriginalsSoFar
<1> QED
  BY <1>1, <1>2, <1>4, <1>5 DEF WalkInv, ErrorSoFar, OutcomeFits, NoPayload

\* What every step to the next part has in common.
Advances ==
  /\ Walking /\ partNo' = partNo + 1 /\ UNCHANGED <<parts, outcome>>

LEMMA AdvanceFacts ==
  ASSUME WalkInv, Advances
  PROVE  /\ partNo \in DOMAIN parts /\ partNo \in Nat \ {0}
         /\ Part \in Parts /\ Part = parts[partNo]
         /\ Walked' = Walked \cup {partNo} /\ partNo \notin Walked
         /\ UNCHANGED <<Readable, Unread>> /\ \A type : Typed(type)' = Typed(type)
         /\ \A k, i : ToFind(k, i)' = ToFind(k, i)
<1>1. parts \in Seq(Parts) /\ partNo \in 1..(Len(parts) + 1) /\ partNo <= Len(parts)
  BY DEF WalkInv, WalkShape, Advances, Walking
<1>2. partNo \in DOMAIN parts /\ Part \in Parts /\ partNo \in Nat \ {0}
  BY <1>1 DEF Part
<1>3. Walked' = Walked \cup {partNo} /\ partNo \notin Walked
  BY <1>2 DEF Walked, Advances
<1>4. UNCHANGED <<Readable, Unread>> /\ \A type : Typed(type)' = Typed(type)
  BY DEF Advances, Readable, Unread, Typed
<1>5. \A k, i : ToFind(k, i)' = ToFind(k, i)
  BY <1>4 DEF ToFind, Advances
<1> QED
  BY <1>2, <1>3, <1>4, <1>5 DEF Part

\* A part that is none of its own: nothing was to be found in it.
LEMMA NoDocuments ==
  ASSUME WalkInv, Advances, UNCHANGED documents, partNo \notin Readable
  PROVE  DocumentsSoFar' /\ documents' \in [Kinds -> Seq(Walked')]
<1>1. documents \in [Kinds -> Seq(Walked)] /\ DocumentsSoFar
  BY DEF WalkInv, WalkShape
<1>2. Walked' = Walked \cup {partNo} /\ partNo \notin Walked
  BY AdvanceFacts
<1>3. documents' \in [Kinds -> Seq(Walked')]
  <2>1. ASSUME NEW k \in Kinds
        PROVE  documents[k] \in Seq(Walked')
    <3>1. documents[k] \in Seq(Walked)
      BY <1>1
    <3> QED
      BY <1>2, <3>1
  <2> QED
    BY <1>1, <2>1
<1>4. ASSUME NEW k \in Kinds, NEW i \in Walked'
      PROVE  Taken(k, i)' = ToFind(k, i)'
  <2>1. Taken(k, i)' = Taken(k, i) /\ ToFind(k, i)' = ToFind(k, i)
    BY AdvanceFacts DEF Taken
  <2>2. CASE i \in Walked
    BY <1>1, <2>1, <2>2 DEF DocumentsSoFar
  <2>3. CASE i = partNo
    <3>1. {n \in DOMAIN documents[k] : documents[k][n] = i} = {}
      BY <1>1, <1>2, <2>3
    <3>2. Taken(k, i) = 0
      BY <3>1, FS_EmptySet DEF Taken
    <3> QED
      BY <2>1, <2>3, <3>2 DEF ToFind
  <2> QED
    BY <1>2, <1>4, <2>2, <2>3
<1> QED
  BY <1>1, <1>3, <1>4 DEF DocumentsSoFar

LEMMA NoFeedback ==
  ASSUME WalkInv, Advances, UNCHANGED forensic, Part.type \notin {"feedback", "original"}
  PROVE  /\ forensic' \in Seq([feedback : Walked', original : {0} \cup Walked'])
         /\ FeedbackSoFar' /\ OriginalsSoFar'
<1>1. /\ forensic \in Seq([feedback : Walked, original : {0} \cup Walked])
      /\ FeedbackSoFar /\ OriginalsSoFar
  BY DEF WalkInv, WalkShape
<1>2. /\ Walked' = Walked \cup {partNo} /\ \A type : Typed(type)' = Typed(type)
      /\ partNo \notin Typed("feedback") \cup Typed("original")
  BY AdvanceFacts DEF Typed
<1>3. forensic' \in Seq([feedback : Walked', original : {0} \cup Walked'])
  <2> DEFINE S == [feedback : Walked, original : {0} \cup Walked]
             T == [feedback : Walked', original : {0} \cup Walked']
  <2>1. S \subseteq T
    BY <1>2
  <2>2. forensic \in Seq(S) /\ forensic' = forensic
    BY <1>1
  <2> HIDE DEF S, T
  <2>3. forensic \in Seq(T)
    BY <2>1, <2>2, SeqWidens
  <2> QED
    BY <2>2, <2>3 DEF T
<1>4. FeedbackSoFar'
  BY <1>1, <1>2 DEF FeedbackSoFar
<1>5. OriginalsSoFar'
  BY <1>1, <1>2 DEF OriginalsSoFar
<1> QED
  BY <1>3, <1>4, <1>5

LEMMA NoError ==
  ASSUME WalkInv, Advances, UNCHANGED firstErr, partNo \notin Unread
  PROVE  firstErr' \in {0} \cup Walked' /\ ErrorSoFar'
<1>1. firstErr \in {0} \cup Walked /\ ErrorSoFar
  BY DEF WalkInv, WalkShape
<1> QED
  BY <1>1, AdvanceFacts DEF ErrorSoFar

LEMMA WalkShapeStays ==
  ASSUME WalkInv, Advances,
         documents' \in [Kinds -> Seq(Walked')],
         forensic' \in Seq([feedback : Walked', original : {0} \cup Walked']),
         firstErr' \in {0} \cup Walked'
  PROVE  WalkShape' /\ OutcomeFits'
<1>1. outcome = "none" /\ outcome' = "none"
  BY DEF Advances, Walking
<1>2. parts' \in Seq(Parts) /\ partNo' \in 1..(Len(parts') + 1)
  BY DEF WalkInv, WalkShape, Advances, Walking
<1> QED
  BY <1>1, <1>2 DEF WalkShape, OutcomeFits

LEMMA SkipsKeepWalk == ASSUME WalkInv, SkipPart PROVE WalkInv'
<1>1. /\ Advances /\ UNCHANGED <<documents, forensic>> /\ Keep
      /\ Part.type = "malformed" \/ (Part.type = "data" /\ ExpandFails(Part))
  BY DEF SkipPart, Advances
<1>2. parts \in Seq(Parts) /\ partNo \in DOMAIN parts /\ Part = parts[partNo]
  BY <1>1, AdvanceFacts DEF WalkInv, WalkShape
<1>3. partNo \notin Readable
  BY <1>1, <1>2, ReadableIs
<1>4. partNo \in Unread
  BY <1>1, <1>2, <1>3 DEF Unread, Typed
<1>5. DocumentsSoFar' /\ documents' \in [Kinds -> Seq(Walked')]
  BY <1>1, <1>3, NoDocuments
<1>6. /\ forensic' \in Seq([feedback : Walked', original : {0} \cup Walked'])
      /\ FeedbackSoFar' /\ OriginalsSoFar'
  BY <1>1, NoFeedback
<1>7. firstErr' \in {0} \cup Walked' /\ ErrorSoFar'
  <2>1. firstErr \in {0} \cup Walked
    BY DEF WalkInv, WalkShape
  <2>2. firstErr' # 0 /\ firstErr' \in Walked'
    BY <1>1, <2>1, AdvanceFacts DEF Keep
  <2> QED
    BY <1>1, <1>4, <2>2, AdvanceFacts DEF ErrorSoFar
<1> QED
  BY <1>1, <1>5, <1>6, <1>7, WalkShapeStays DEF WalkInv

LEMMA DocumentsKeepWalk == ASSUME WalkInv, TakeDocuments PROVE WalkInv'
<1>1. /\ Advances /\ UNCHANGED <<firstErr, forensic>>
      /\ Part.type = "data" /\ ~ExpandFails(Part)
      /\ documents' = [k \in Kinds |->
           documents[k] \o [i \in 1..Cardinality(DocsOf(Part, k)) |-> partNo]]
  BY DEF TakeDocuments, Advances
<1>2. /\ parts \in Seq(Parts) /\ partNo \in DOMAIN parts /\ Part = parts[partNo]
      /\ documents \in [Kinds -> Seq(Walked)] /\ DocumentsSoFar
  BY <1>1, AdvanceFacts DEF WalkInv, WalkShape
<1>3. partNo \in Readable
  BY <1>1, <1>2, ReadableIs
<1>4. partNo \notin Unread
  BY <1>1, <1>2, <1>3 DEF Unread, Typed
<1>5. /\ forensic' \in Seq([feedback : Walked', original : {0} \cup Walked'])
      /\ FeedbackSoFar' /\ OriginalsSoFar'
  BY <1>1, NoFeedback
<1>6. firstErr' \in {0} \cup Walked' /\ ErrorSoFar'
  BY <1>1, <1>4, NoError
<1>7. ASSUME NEW k \in Kinds
      PROVE  /\ documents'[k] \in Seq(Walked')
             /\ \A i \in Walked' : Taken(k, i)' = ToFind(k, i)'
             /\ \A m, n \in DOMAIN documents'[k] : m < n => documents'[k][m] <= documents'[k][n]
  <2> DEFINE count == Cardinality(DocsOf(Part, k))
             old == documents[k]
             new == documents'[k]
             at(s, i) == {n \in DOMAIN s : s[n] = i}
  <2>1. count \in Nat
    BY <1>2, PartFacts
  <2>2. old \in Seq(Walked) /\ Len(old) \in Nat /\ DOMAIN old = 1..Len(old)
    BY <1>2
  <2>3. old \in Seq(Walked') /\ partNo \in Walked' /\ partNo \notin Walked
    BY <1>1, <2>2, AdvanceFacts
  <2>4. new = old \o [i \in 1..count |-> partNo]
    BY <1>1
  <2> HIDE DEF count, old, new
  <2>5. /\ new \in Seq(Walked') /\ DOMAIN new = 1..(Len(old) + count)
        /\ \A i \in 1..Len(old) : new[i] = old[i]
        /\ \A i \in (Len(old) + 1)..(Len(old) + count) : new[i] = partNo
    BY <2>1, <2>3, <2>4, CopiesFollow
  <2>6. \A i \in 1..Len(old) : old[i] \in Walked /\ old[i] \in Nat /\ old[i] < partNo
    <3>1. partNo \in Nat
      BY <1>1, AdvanceFacts
    <3>2. ASSUME NEW i \in 1..Len(old)
          PROVE  old[i] \in Walked
      BY <2>2
    <3> QED
      BY <3>1, <3>2 DEF Walked
  <2>7. ASSUME NEW i \in Walked'
        PROVE  Taken(k, i)' = ToFind(k, i)'
    <3>1. Taken(k, i)' = Cardinality(at(new, i)) /\ Taken(k, i) = Cardinality(at(old, i))
      BY DEF Taken, new, old
    <3>2. CASE i \in Walked
      <4>1. at(new, i) = at(old, i)
        BY <2>1, <2>2, <2>3, <2>5, <3>2
      <4> QED
        BY <1>1, <1>2, <3>1, <3>2, <4>1, AdvanceFacts DEF DocumentsSoFar
    <3>3. CASE i = partNo
      <4>1. at(new, i) = (Len(old) + 1)..(Len(old) + count)
        BY <2>1, <2>2, <2>3, <2>5, <2>6, <3>3
      <4>2. Cardinality((Len(old) + 1)..(Len(old) + count)) = count
        <5>1. /\ Len(old) + 1 \in Int /\ Len(old) + count \in Int
              /\ (Len(old) + count) - (Len(old) + 1) + 1 = count
              /\ Len(old) + 1 > Len(old) + count => count = 0
          BY <2>1, <2>2
        <5> QED
          BY <5>1, FS_Interval
      <4>3. ToFind(k, i) = count
        BY <1>2, <1>3, <3>3 DEF ToFind, count
      <4> QED
        BY <1>1, <3>1, <4>1, <4>2, <4>3, AdvanceFacts
    <3> QED
      BY <1>1, <2>7, <3>2, <3>3, AdvanceFacts
  <2>8. ASSUME NEW m \in DOMAIN new, NEW n \in DOMAIN new, m < n
        PROVE  new[m] <= new[n]
    <3>1. CASE n <= Len(old)
      <4>1. old[m] <= old[n]
        <5>1. m \in DOMAIN old /\ n \in DOMAIN old
          BY <2>1, <2>2, <2>5, <2>8, <3>1
        <5>2. \A a, b \in DOMAIN old : a < b => old[a] <= old[b]
          BY <1>2 DEF DocumentsSoFar, old
        <5> QED
          BY <2>8, <5>1, <5>2
      <4> QED
        BY <2>1, <2>2, <2>5, <2>8, <3>1, <4>1
    <3>2. CASE n > Len(old)
      <4>1. new[n] = partNo
        BY <2>1, <2>2, <2>5, <3>2
      <4>2. CASE m <= Len(old)
        <5>1. m \in 1..Len(old)
          BY <2>1, <2>2, <2>5, <4>2
        <5>2. new[m] \in Nat /\ new[m] < partNo /\ partNo \in Nat
          BY <1>1, <2>5, <2>6, <5>1, AdvanceFacts
        <5> QED
          BY <4>1, <5>2
      <4>3. CASE m > Len(old)
        <5>1. new[m] = partNo /\ partNo \in Nat
          BY <1>1, <2>1, <2>2, <2>5, <4>3, AdvanceFacts
        <5> QED
          BY <4>1, <5>1
      <4> QED
        BY <2>1, <2>2, <2>5, <4>2, <4>3
    <3> QED
      BY <2>1, <2>2, <2>5, <3>1, <3>2
  <2> QED
    BY <2>5, <2>7, <2>8 DEF new
<1>8. DocumentsSoFar' /\ documents' \in [Kinds -> Seq(Walked')]
  BY <1>1, <1>7 DEF DocumentsSoFar
<1> QED
  BY <1>1, <1>5, <1>6, <1>8, WalkShapeStays DEF WalkInv

LEMMA FeedbackKeepsWalk == ASSUME WalkInv, TakeFeedback PROVE WalkInv'
<1>1. /\ Advances /\ UNCHANGED <<documents, firstErr>> /\ Part.type = "feedback"
      /\ forensic' = Append(forensic, [feedback |-> partNo, original |-> 0])
  BY DEF TakeFeedback, Advances
<1>2. /\ parts \in Seq(Parts) /\ partNo \in DOMAIN parts /\ Part = parts[partNo]
      /\ partNo \in Nat /\ Walked' = Walked \cup {partNo}
      /\ \A type : Typed(type)' = Typed(type)
      /\ FeedbackSoFar /\ OriginalsSoFar
  BY <1>1, AdvanceFacts DEF WalkInv, WalkShape
<1>3. partNo \notin Readable /\ partNo \notin Unread
  BY <1>1, <1>2 DEF Readable, Unread, Typed
<1>4. partNo \in Typed("feedback") /\ partNo \notin Typed("original")
  BY <1>1, <1>2 DEF Typed
<1>5. DocumentsSoFar' /\ documents' \in [Kinds -> Seq(Walked')]
  BY <1>1, <1>3, NoDocuments
<1>6. firstErr' \in {0} \cup Walked' /\ ErrorSoFar'
  BY <1>1, <1>3, NoError
<1> DEFINE S == [feedback : Walked, original : {0} \cup Walked]
           T == [feedback : Walked', original : {0} \cup Walked']
           n == Len(forensic)
<1>7. forensic \in Seq(S) /\ S \subseteq T /\ [feedback |-> partNo, original |-> 0] \in T
  BY <1>2 DEF WalkInv, WalkShape
<1>8. n \in Nat /\ DOMAIN forensic = 1..n
      /\ \A i \in 1..n : forensic[i].feedback \in Walked /\ forensic[i].feedback < partNo
  <2>1. n \in Nat /\ DOMAIN forensic = 1..n /\ \A i \in 1..n : forensic[i].feedback \in Walked
    BY ForensicFacts
  <2> QED
    BY <1>2, <2>1 DEF Walked
<1>9. /\ forensic' \in Seq(T) /\ DOMAIN forensic' = 1..(n + 1)
      /\ \A i \in 1..n : forensic'[i] = forensic[i]
      /\ forensic'[n + 1].feedback = partNo /\ forensic'[n + 1].original = 0
  <2>1. forensic \in Seq(T)
    <3> HIDE DEF S, T
    <3> QED
      BY <1>7, SeqWidens
  <2> HIDE DEF T
  <2> QED
    BY <1>1, <1>7, <2>1
<1>10. FeedbackSoFar'
  <2>1. {forensic'[i].feedback : i \in DOMAIN forensic'} =
          {forensic[i].feedback : i \in DOMAIN forensic} \cup {partNo}
    <3>1. 1..(n + 1) = (1..n) \cup {n + 1}
      BY <1>8
    <3> HIDE DEF n
    <3> QED
      BY <1>8, <1>9, <3>1
  <2>2. ASSUME NEW i \in DOMAIN forensic', NEW j \in DOMAIN forensic', i < j
        PROVE  forensic'[i].feedback < forensic'[j].feedback
    <3>1. i \in 1..n
      BY <1>8, <1>9, <2>2
    <3>2. CASE j \in 1..n
      BY <1>2, <1>8, <1>9, <2>2, <3>1, <3>2 DEF FeedbackSoFar
    <3>3. CASE j = n + 1
      BY <1>8, <1>9, <3>1, <3>3
    <3> QED
      BY <1>8, <1>9, <3>2, <3>3
  <2> QED
    BY <1>2, <1>4, <2>1, <2>2 DEF FeedbackSoFar
<1>11. OriginalsSoFar'
  <2>1. ASSUME NEW i \in DOMAIN forensic', NEW j \in DOMAIN forensic',
               i < j, forensic'[j].original # 0
        PROVE  forensic'[i].original \in 1..(forensic'[j].original - 1)
    <3>1. i \in 1..n /\ j \in 1..n
      BY <1>8, <1>9, <2>1
    <3> QED
      BY <1>2, <1>8, <1>9, <2>1, <3>1 DEF OriginalsSoFar
  <2>2. ASSUME NEW i \in DOMAIN forensic', forensic'[i].original # 0
        PROVE  forensic'[i].original \in Typed("original")
               /\ forensic'[i].original > forensic'[i].feedback
    <3>1. i \in 1..n
      BY <1>8, <1>9, <2>2
    <3> QED
      BY <1>2, <1>8, <1>9, <2>2, <3>1 DEF OriginalsSoFar
  <2>3. ASSUME NEW o \in Typed("original") \cap Walked'
        PROVE  \/ \E i \in DOMAIN forensic' : forensic'[i].original = o
               \/ \A i \in DOMAIN forensic' :
                    forensic'[i].feedback > o \/ forensic'[i].original \in 1..o
    <3>1. o \in Typed("original") \cap Walked /\ o < partNo
      BY <1>2, <1>4, <2>3 DEF Walked
    <3>2. CASE \E i \in DOMAIN forensic : forensic[i].original = o
      <4>1. PICK i \in DOMAIN forensic : forensic[i].original = o
        BY <3>2
      <4>2. i \in DOMAIN forensic' /\ forensic'[i] = forensic[i]
        BY <1>8, <1>9, <4>1
      <4> QED
        BY <4>1, <4>2
    <3>3. CASE \A i \in DOMAIN forensic : forensic[i].feedback > o \/ forensic[i].original \in 1..o
      <4>1. ASSUME NEW i \in 1..(n + 1)
            PROVE  forensic'[i].feedback > o \/ forensic'[i].original \in 1..o
        <5>1. CASE i \in 1..n
          BY <1>8, <1>9, <3>3, <5>1
        <5>2. CASE i = n + 1
          BY <1>2, <1>9, <3>1, <5>2 DEF Walked
        <5> QED
          BY <1>8, <5>1, <5>2
      <4> QED
        BY <1>9, <4>1
    <3> QED
      BY <1>2, <3>1, <3>2, <3>3 DEF OriginalsSoFar
  <2> QED
    BY <1>2, <2>1, <2>2, <2>3 DEF OriginalsSoFar
<1> QED
  BY <1>1, <1>5, <1>6, <1>9, <1>10, <1>11, WalkShapeStays DEF WalkInv

\* The original goes to the first report without one, if there is one.
LEMMA OriginalsKeepWalk == ASSUME WalkInv, TakeOriginal PROVE WalkInv'
<1>1. /\ Advances /\ UNCHANGED <<documents, firstErr>> /\ Part.type = "original"
      /\ forensic' = Attached
  BY DEF TakeOriginal, Advances
<1>2. /\ parts \in Seq(Parts) /\ partNo \in DOMAIN parts /\ Part = parts[partNo]
      /\ partNo \in Nat /\ Walked' = Walked \cup {partNo}
      /\ \A type : Typed(type)' = Typed(type)
      /\ FeedbackSoFar /\ OriginalsSoFar
  BY <1>1, AdvanceFacts DEF WalkInv, WalkShape
<1>3. partNo \notin Readable /\ partNo \notin Unread
  BY <1>1, <1>2 DEF Readable, Unread, Typed
<1>4. partNo \notin Typed("feedback") /\ partNo \in Typed("original")
  BY <1>1, <1>2 DEF Typed
<1>5. DocumentsSoFar' /\ documents' \in [Kinds -> Seq(Walked')]
  BY <1>1, <1>3, NoDocuments
<1>6. firstErr' \in {0} \cup Walked' /\ ErrorSoFar'
  BY <1>1, <1>3, NoError
<1> DEFINE S == [feedback : Walked, original : {0} \cup Walked]
           T == [feedback : Walked', original : {0} \cup Walked']
           n == Len(forensic)
           First(i) == i \in Bare /\ \A j \in Bare : i <= j
<1>7. /\ forensic \in Seq(S) /\ n \in Nat /\ DOMAIN forensic = 1..n
      /\ \A i \in 1..n : /\ forensic[i] \in S
                          /\ forensic[i].feedback \in Walked
                          /\ forensic[i].original \in {0} \cup Walked
  BY ForensicFacts DEF WalkInv, WalkShape
<1>8. \A i \in 1..n : /\ forensic[i].feedback \in Nat /\ forensic[i].feedback < partNo
                      /\ forensic[i].original \in Nat /\ forensic[i].original < partNo
  BY <1>2, <1>7 DEF Walked
<1>9. /\ DOMAIN forensic' = 1..n /\ forensic' = [i \in 1..n |-> forensic'[i]]
      /\ \A i \in 1..n : forensic'[i] =
           IF First(i) THEN [forensic[i] EXCEPT !.original = partNo] ELSE forensic[i]
  BY <1>1, <1>7 DEF Attached
<1>10. \A i \in 1..n : /\ forensic'[i] \in T
                       /\ forensic'[i].feedback = forensic[i].feedback
                       /\ forensic'[i].original = IF First(i) THEN partNo ELSE forensic[i].original
  <2> SUFFICES ASSUME NEW i \in 1..n
               PROVE  /\ forensic'[i] \in T
                      /\ forensic'[i].feedback = forensic[i].feedback
                      /\ forensic'[i].original = IF First(i) THEN partNo ELSE forensic[i].original
    OBVIOUS
  <2> HIDE DEF First
  <2> QED
    BY <1>2, <1>7, <1>9
<1>11. forensic' \in Seq(T)
  <2>1. \A i \in 1..n : forensic'[i] \in T
    BY <1>10
  <2> HIDE DEF T, First, n
  <2> QED
    BY <1>7, <1>9, <2>1
<1>12. FeedbackSoFar'
  <2>1. {forensic'[i].feedback : i \in DOMAIN forensic'} =
          {forensic[i].feedback : i \in DOMAIN forensic}
    BY <1>7, <1>9, <1>10
  <2> QED
    BY <1>2, <1>4, <1>7, <1>9, <1>10, <2>1 DEF FeedbackSoFar
<1>13. \A i \in 1..n : First(i) => forensic[i].original = 0
  BY <1>7 DEF Bare
<1>14. OriginalsSoFar'
  <2>1. ASSUME NEW i \in 1..n, NEW j \in 1..n, i < j, forensic'[j].original # 0
        PROVE  forensic'[i].original \in 1..(forensic'[j].original - 1)
    <3>1. CASE First(j)
      <4>1. i \notin Bare
        BY <2>1, <3>1
      <4>2. forensic[i].original # 0
        BY <1>7, <4>1 DEF Bare
      <4>3. ~First(i)
        BY <4>1
      <4> HIDE DEF First
      <4> QED
        BY <1>2, <1>8, <1>10, <3>1, <4>2, <4>3
    <3>2. CASE ~First(j)
      <4>1. forensic'[j].original = forensic[j].original
        BY <1>10, <3>2
      <4>2. forensic[i].original \in 1..(forensic[j].original - 1)
        BY <1>2, <1>7, <2>1, <4>1 DEF OriginalsSoFar
      <4>3. ~First(i)
        BY <1>13, <4>2
      <4> HIDE DEF First
      <4> QED
        BY <1>10, <4>1, <4>2, <4>3
    <3> QED
      BY <3>1, <3>2
  <2>2. ASSUME NEW i \in 1..n, forensic'[i].original # 0
        PROVE  forensic'[i].original \in Typed("original")
               /\ forensic'[i].original > forensic'[i].feedback
    <3>1. CASE First(i)
      <4> HIDE DEF First
      <4> QED
        BY <1>2, <1>4, <1>8, <1>10, <3>1
    <3>2. CASE ~First(i)
      <4>1. /\ forensic'[i].original = forensic[i].original
            /\ forensic'[i].feedback = forensic[i].feedback
        BY <1>10, <3>2
      <4> QED
        BY <1>2, <1>7, <2>2, <4>1 DEF OriginalsSoFar
    <3> QED
      BY <3>1, <3>2
  <2>3. ASSUME NEW o \in Typed("original") \cap Walked
        PROVE  \/ \E i \in 1..n : forensic'[i].original = o
               \/ \A i \in 1..n : forensic'[i].feedback > o \/ forensic'[i].original \in 1..o
    <3>1. o \in 1..(partNo - 1) /\ o # 0
      BY <1>2 DEF Walked
    <3>2. CASE \E i \in 1..n : forensic[i].original = o
      <4>1. PICK i \in 1..n : forensic[i].original = o
        BY <3>2
      <4>2. ~First(i)
        BY <1>13, <3>1, <4>1
      <4> QED
        BY <1>10, <4>1, <4>2
    <3>3. CASE \A i \in 1..n : forensic[i].feedback > o \/ forensic[i].original \in 1..o
      <4>1. ASSUME NEW i \in 1..n
            PROVE  forensic'[i].feedback > o \/ forensic'[i].original \in 1..o
        <5>1. CASE First(i)
          <6>1. forensic[i].feedback > o
            BY <1>13, <3>3, <5>1
          <6> QED
            BY <1>10, <6>1
        <5>2. CASE ~First(i)
          BY <1>10, <3>3, <5>2
        <5> QED
          BY <5>1, <5>2
      <4> QED
        BY <4>1
    <3> QED
      BY <1>2, <1>7, <3>2, <3>3 DEF OriginalsSoFar
  <2>4. \/ \E i \in 1..n : forensic'[i].original = partNo
        \/ \A i \in 1..n : forensic'[i].original \in 1..partNo
    <3>1. CASE Bare = {}
      <4>1. \A i \in 1..n : forensic[i].original # 0 /\ ~First(i)
        BY <1>7, <3>1 DEF Bare
      <4> HIDE DEF First
      <4> QED
        BY <1>2, <1>8, <1>10, <4>1
    <3>2. CASE Bare # {}
      <4>1. Bare \in SUBSET Nat /\ Bare \subseteq 1..n
        BY <1>7 DEF Bare
      <4>2. PICK i \in Bare : \A j \in Bare : i <= j
        BY <3>2, <4>1, LeastNumber
      <4>3. First(i) /\ i \in 1..n
        BY <4>1, <4>2
      <4> QED
        BY <1>10, <4>3
    <3> QED
      BY <3>1, <3>2
  <2>5. ASSUME NEW o \in Typed("original") \cap Walked'
        PROVE  \/ \E i \in 1..n : forensic'[i].original = o
               \/ \A i \in 1..n : forensic'[i].feedback > o \/ forensic'[i].original \in 1..o
    BY <1>2, <2>3, <2>4
  <2> HIDE DEF First
  <2> QED
    BY <1>2, <1>9, <2>1, <2>2, <2>5 DEF OriginalsSoFar
<1> QED
  BY <1>1, <1>5, <1>6, <1>11, <1>12, <1>14, WalkShapeStays DEF WalkInv

LEMMA EndKeepsWalk == ASSUME WalkInv, EndOfMail PROVE WalkInv'
<1>1. /\ UNCHANGED <<parts, partNo, documents, forensic, firstErr>>
      /\ outcome' = IF ~NoPayload THEN "payloads" ELSE IF firstErr # 0 THEN "failed" ELSE "ignored"
      /\ partNo > Len(parts)
  BY DEF EndOfMail
<1>2. UNCHANGED <<Walked, Readable, Unread>> /\ \A type : Typed(type)' = Typed(type)
  BY <1>1 DEF Walked, Readable, Unread, Typed
<1>3. \A k, i : Taken(k, i)' = Taken(k, i) /\ ToFind(k, i)' = ToFind(k, i)
  BY <1>1, <1>2 DEF Taken, ToFind
<1>4. DocumentsSoFar'
  BY <1>1, <1>2, <1>3 DEF WalkInv, DocumentsSoFar
<1>5. FeedbackSoFar' /\ OriginalsSoFar'
  BY <1>1, <1>2 DEF WalkInv, FeedbackSoFar, OriginalsSoFar
<1>6. WalkShape'
  BY <1>1, <1>2 DEF WalkInv, WalkShape
<1> QED
  BY <1>1, <1>2, <1>4, <1>5, <1>6 DEF WalkInv, ErrorSoFar, OutcomeFits, NoPayload

LEMMA WalkStays == WalkInv /\ [Next]_vars => WalkInv'
<1> SUFFICES ASSUME WalkInv, [Next]_vars PROVE WalkInv'
  OBVIOUS
<1>1. ExtractNext \/ UNCHANGED extractVars
  BY DEF Next, vars, AccessStep, IntelStep, SelectorsStep, RetentionStep, DigestStep, ExtractStep,
         ReadinessStep
<1> QED
  BY <1>1, WalkRests, SkipsKeepWalk, FeedbackKeepsWalk, OriginalsKeepWalk, DocumentsKeepWalk,
     EndKeepsWalk DEF ExtractNext

\* At the end of the mail everything has been walked.
LEMMA WalkedIsRight == WalkInv => WalkIsRight
<1> SUFFICES ASSUME WalkInv, outcome # "none" PROVE WalkIsRight
  BY DEF WalkIsRight
<1>1. partNo = Len(parts) + 1 /\ parts \in Seq(Parts)
  BY DEF WalkInv, WalkShape
<1>2. Walked = DOMAIN parts
  BY <1>1 DEF Walked
<1>3. \A type : Typed(type) \cap Walked = Typed(type)
  BY <1>2 DEF Typed
<1>4. Unread \cap Walked = Unread
  BY <1>2 DEF Unread, Readable, Typed
<1>5. /\ {forensic[i].feedback : i \in DOMAIN forensic} = Typed("feedback")
      /\ \A k \in Kinds : \A i \in DOMAIN parts : Taken(k, i) = ToFind(k, i)
  BY <1>2, <1>3 DEF WalkInv, FeedbackSoFar, DocumentsSoFar
<1>6. forensic = <<>> <=> Typed("feedback") = {}
  <2>1. forensic = <<>> <=> DOMAIN forensic = {}
    BY DEF WalkInv, WalkShape
  <2> QED
    BY <1>5, <2>1
<1>7. ASSUME NEW k \in Kinds
      PROVE  documents[k] = <<>> <=> ~\E i \in DOMAIN parts : ToFind(k, i) > 0
  <2>1. documents[k] \in Seq(DOMAIN parts)
    BY <1>2 DEF WalkInv, WalkShape
  <2>2. IsFiniteSet(DOMAIN documents[k])
    <3>1. Len(documents[k]) \in Nat /\ DOMAIN documents[k] = 1..Len(documents[k])
      BY <2>1
    <3> QED
      BY <3>1, FS_Interval
  <2> DEFINE At(i) == {n \in DOMAIN documents[k] : documents[k][n] = i}
  <2>3. \A i : /\ IsFiniteSet(At(i)) /\ Cardinality(At(i)) \in Nat
               /\ Cardinality(At(i)) = 0 <=> At(i) = {}
    BY <2>2, FS_Subset, FS_CardinalityType, FS_EmptySet
  <2>4. \A i \in DOMAIN parts : ToFind(k, i) = Cardinality(At(i))
    BY <1>5 DEF Taken
  <2>5. documents[k] = <<>> <=> \A i \in DOMAIN parts : At(i) = {}
    BY <2>1
  <2> HIDE DEF At
  <2> QED
    BY <2>3, <2>4, <2>5
<1>8. NoPayload <=> ~Anything
  BY <1>6, <1>7 DEF NoPayload, Anything
<1>9. firstErr # 0 <=> Unread # {}
  BY <1>4 DEF WalkInv, ErrorSoFar
<1>10. \A k \in Kinds : \A m, n \in DOMAIN documents[k] :
         m < n => documents[k][m] <= documents[k][n]
  BY DEF WalkInv, DocumentsSoFar
<1>11. \A i, j \in DOMAIN forensic :
         i < j => /\ forensic[i].feedback < forensic[j].feedback
                  /\ forensic[j].original # 0 =>
                       forensic[i].original \in 1..(forensic[j].original - 1)
  BY DEF WalkInv, FeedbackSoFar, OriginalsSoFar
<1>12. /\ \A i \in DOMAIN forensic : forensic[i].original # 0 =>
            /\ forensic[i].original \in Typed("original")
            /\ forensic[i].original > forensic[i].feedback
       /\ \A o \in Typed("original") :
            \/ \E i \in DOMAIN forensic : forensic[i].original = o
            \/ \A i \in DOMAIN forensic : forensic[i].feedback > o \/ forensic[i].original \in 1..o
  BY <1>3 DEF WalkInv, OriginalsSoFar
<1> QED
  BY <1>5, <1>8, <1>9, <1>10, <1>11, <1>12 DEF WalkIsRight, WalkInv, OutcomeFits

\* Whatever the parts of a mail and their order: every readable document is
\* found once and in order, each original message goes to the first report that
\* waits for one, and the outcome is that of what there was to find unless an
\* unreadable part stands beside it.
THEOREM WalkFindsAll == Spec => []WalkIsRight
  BY WalkStarts, WalkStays, WalkedIsRight, PTL DEF Spec

=============================================================================
