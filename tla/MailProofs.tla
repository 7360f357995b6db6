------------------------------ MODULE MailProofs ------------------------------
(***************************************************************************)
(* What Ingest promises to those who send it mail and uploads, for every   *)
(* set of mails, uploads and documents and all bounds: no mail is lost or  *)
(* hidden, no failure is silent, an accepted upload is stored, and while   *)
(* nothing fails no forensic report is stored twice.  And Ingest implements*)
(* ReportLedger: storing a report with a unique index, telling an observer *)
(* of it and each way a mail changes folder is a step of the ledger;       *)
(* everything else leaves the ledger as it is.                             *)
(***************************************************************************)
EXTENDS IngestProofs, FiniteSetTheorems

(***************************************************************************)
(* What may happen to a mail: nothing at all, or one of the steps below.   *)
(***************************************************************************)
MailKeptAsIs ==
  UNCHANGED <<folder, seen, landed, opened, moves, notices, rqAt, rqSet>>

LEMMA MailSteps ==
  ASSUME [Next]_vars
  PROVE  \/ MailKeptAsIs
         \/ \E m \in Mails : \/ Deliver(m) \/ OpenFailedMail(m)
                             \/ TakeUnreadable(m) \/ TakePlain(m)
         \/ FinishMail \/ \E f \in Filed : MoveFolder(f) \/ MoveFails(f)
         \/ RequeueSearch \/ RequeueUnsee \/ RequeueMove \/ RequeueFails \/ Crash
<1> USE DEF MailKeptAsIs, mailbox, cycle, requeue, outside
<1>1. ASSUME NEW w \in Workers,
             Saving(w) \/ StoreFails(w) \/ CommitLost(w) \/ ObserverFails(w)
      PROVE  MailKeptAsIs
  <2>1. ASSUME NEW d \in Docs, PickDoc(w, d)
        PROVE  MailKeptAsIs
    BY <2>1 DEF PickDoc
  <2>2. CASE Duplicate(w) \/ Insert(w) \/ Commit(w) \/ SaveForensic(w)
    BY <2>2 DEF Duplicate, Insert, Commit, SaveForensic
  <2>3. CASE Emit(w) \/ ObserverFails(w)
    BY <2>3 DEF Emit, ObserverFails, ObserverDone
  <2>4. CASE StoreFails(w) \/ CommitLost(w)
    BY <2>4 DEF StoreFails, CommitLost, GiveUp
  <2> QED
    BY <1>1, <2>1, <2>2, <2>3, <2>4 DEF Saving
<1>2. CASE StartCycle \/ StartFails \/ EndCycle \/ TriggerPoll
  BY <1>2 DEF StartCycle, StartFails, EndCycle, TriggerPoll
<1>3. ASSUME NEW m \in Mails, TakeReport(m)
      PROVE  MailKeptAsIs
  BY <1>3 DEF TakeReport
<1>4. ASSUME NEW d \in Docs, SkipBad(d)
      PROVE  MailKeptAsIs
  BY <1>4 DEF SkipBad
<1>5. ASSUME NEW u \in Uploads,
             \/ Receive(u) \/ RefuseBody(u) \/ FinishUpload(u)
             \/ \E d \in Docs : RefuseBad(u, d)
      PROVE  MailKeptAsIs
  BY <1>5 DEF Receive, RefuseBody, FinishUpload, RefuseBad, Answer
<1>6. CASE UNCHANGED vars
  BY <1>6 DEF vars
<1> QED
  BY <1>1, <1>2, <1>3, <1>4, <1>5, <1>6
     DEF Next, PollerStep, HandlerStep, Failure, Environment, Workers

-----------------------------------------------------------------------------
(* Nobody's failure is silent.                                             *)

\* A mail that is about to be moved to Failed has been reported once more than
\* it was moved there before.
MoveIsReported ==
  \A m \in Mails : landed[m] + (IF m \in moves["Failed"] THEN 1 ELSE 0) <= notices[m]

LEMMA MoveReported ==
  ASSUME TypeOK, MoveIsReported, NEW f \in Filed, NEW S \in SUBSET moves[f],
         MoveMails(S, "INBOX", f), UNCHANGED notices,
         moves'["Failed"] = moves["Failed"] \/ moves'["Failed"] = {},
         f = "Failed" => moves'["Failed"] = {}
  PROVE  MoveIsReported'
<1> SUFFICES ASSUME NEW m \in Mails
             PROVE  landed'[m] + (IF m \in moves'["Failed"] THEN 1 ELSE 0) <= notices[m]
  BY DEF MoveIsReported
<1>1. landed[m] \in Nat /\ notices[m] \in Nat
  BY DEF TypeOK, MailboxType, OutsideType
<1>2. landed[m] + (IF m \in moves["Failed"] THEN 1 ELSE 0) <= notices[m]
  BY DEF MoveIsReported
<1>3. CASE landed'[m] = landed[m]
  BY <1>1, <1>2, <1>3
<1>4. CASE landed'[m] # landed[m]
  <2>1. landed'[m] = landed[m] + 1 /\ m \in S /\ f = "Failed"
    BY <1>4 DEF MoveMails, Filed
  <2> QED
    BY <1>1, <1>2, <2>1
<1> QED
  BY <1>3, <1>4

LEMMA StepReported ==
  ASSUME IInv, MoveIsReported, [Next]_vars
  PROVE  MoveIsReported'
<1> USE DEF IInv, TypeOK, MailboxType, CycleType, OutsideType
<1>1. CASE MailKeptAsIs
  BY <1>1 DEF MailKeptAsIs, MoveIsReported
<1>2. ASSUME NEW m \in Mails, TakeUnreadable(m)
      PROVE  MoveIsReported'
  BY <1>2 DEF TakeUnreadable, MoveIsReported, mailbox, Filed
<1>3. ASSUME NEW m \in Mails, Deliver(m) \/ OpenFailedMail(m) \/ TakePlain(m)
      PROVE  MoveIsReported'
  <2>1. UNCHANGED <<landed, notices>> /\ moves'["Failed"] = moves["Failed"]
    BY <1>3 DEF Deliver, OpenFailedMail, TakePlain, mailbox, cycle, outside, Filed
  <2> QED
    BY <2>1 DEF MoveIsReported
<1>4. CASE FinishMail
  <2>1. cur \in Mails
    BY <1>4, OutcomeFits
  <2>2. landed' = landed /\ Outcome(tally[Poller]) \in Filed
    BY <1>4 DEF FinishMail, mailbox, Outcome, Filed
  <2>3. CASE Outcome(tally[Poller]) = "Failed"
    <3>1. moves'["Failed"] = moves["Failed"] \cup {cur}
      BY <1>4, <2>3 DEF FinishMail, Filed
    <3>2. \A m \in Mails : notices'[m] = IF m = cur THEN notices[m] + 1 ELSE notices[m]
      BY <1>4, <2>1, <2>3 DEF FinishMail
    <3> QED
      BY <2>1, <2>2, <3>1, <3>2 DEF MoveIsReported
  <2>4. CASE Outcome(tally[Poller]) # "Failed"
    <3>1. moves'["Failed"] = moves["Failed"] /\ notices' = notices
      BY <1>4, <2>4 DEF FinishMail, Filed
    <3> QED
      BY <2>2, <3>1 DEF MoveIsReported
  <2> QED
    BY <2>3, <2>4
<1>5. ASSUME NEW f \in Filed, MoveFolder(f)
      PROVE  MoveIsReported'
  BY <1>5, MoveReported DEF MoveFolder, outside, Filed
<1>6. ASSUME NEW f \in Filed, MoveFails(f)
      PROVE  MoveIsReported'
  <2>1. PICK S \in SUBSET moves[f] : MoveMails(S, "INBOX", f)
    BY <1>6 DEF MoveFails
  <2>2. UNCHANGED notices /\ moves'["Failed"] = {}
    BY <1>6 DEF MoveFails, outside, Filed
  <2> QED
    BY <2>1, <2>2, MoveReported
<1>7. CASE RequeueSearch \/ RequeueUnsee
  BY <1>7 DEF RequeueSearch, RequeueUnsee, MoveIsReported, mailbox, cycle, outside
<1>8. CASE RequeueMove \/ RequeueFails
  <2>1. landed' = landed
    BY <1>8 DEF RequeueMove, RequeueFails, MoveMails
  <2> QED
    BY <1>8, <2>1 DEF RequeueMove, RequeueFails, MoveIsReported, cycle, outside
<1>9. CASE Crash
  BY <1>9 DEF Crash, MoveIsReported, mailbox, Filed
<1> QED
  BY <1>1, <1>2, <1>3, <1>4, <1>5, <1>6, <1>7, <1>8, <1>9, MailSteps

\* Whenever a mail was moved to Failed, a report.failed event had gone out for
\* it, whatever move failed half way and however often it was requeued.
THEOREM FailuresAreReported == Spec => []FailureIsReported
<1>1. Init => MoveIsReported
  BY DEF Init, MoveIsReported, Filed
<1>2. IInv /\ MoveIsReported /\ [Next]_vars => MoveIsReported'
  BY StepReported
<1>3. IInv /\ MoveIsReported => FailureIsReported
  <2> SUFFICES ASSUME IInv, MoveIsReported, NEW m \in Mails
               PROVE  landed[m] <= notices[m]
    BY DEF FailureIsReported
  <2>1. landed[m] \in Nat /\ notices[m] \in Nat
    BY DEF IInv, TypeOK, MailboxType, OutsideType
  <2> QED
    BY <2>1 DEF MoveIsReported
<1> QED
  BY <1>1, <1>2, <1>3, Invariance, PTL DEF Spec

-----------------------------------------------------------------------------
(* Mail that waits is seen by the poller, and mail goes one way.           *)

\* The mails a requeue is about to move back are unseen, and so are those that
\* wait or have yet to come, but for what a client has opened meanwhile.
WaitingIsUnseen ==
  /\ \A m \in Mails : folder[m] = "absent" => m \notin seen
  /\ \A m \in Mails : folder[m] = "INBOX" /\ m \in seen => m \in opened
  /\ \A m \in Mails : rqAt = "move" /\ m \in rqSet /\ m \in seen => m \in opened

LEMMA StepUnseen ==
  ASSUME IInv, WaitingIsUnseen, [Next]_vars
  PROVE  WaitingIsUnseen'
<1> USE DEF IInv, TypeOK, MailboxType, CycleType, RequeueType, mailbox, requeue, WaitingIsUnseen
<1>1. CASE MailKeptAsIs
  BY <1>1 DEF MailKeptAsIs
<1>2. ASSUME NEW m \in Mails,
             Deliver(m) \/ OpenFailedMail(m) \/ TakeUnreadable(m) \/ TakePlain(m)
      PROVE  WaitingIsUnseen'
  BY <1>2 DEF Deliver, OpenFailedMail, TakeUnreadable, TakePlain
<1>3. CASE FinishMail \/ RequeueSearch
  BY <1>3 DEF FinishMail, RequeueSearch
<1>4. ASSUME NEW f \in Filed, MoveFolder(f) \/ MoveFails(f)
      PROVE  WaitingIsUnseen'
  <2>1. UNCHANGED <<seen, opened, rqAt, rqSet>>
    BY <1>4 DEF MoveFolder, MoveFails
  <2>2. \A m \in Mails : folder'[m] \in {"absent", "INBOX"} => folder'[m] = folder[m]
    BY <1>4 DEF MoveFolder, MoveFails, MoveMails, Filed
  <2> QED
    BY <2>1, <2>2
<1>5. CASE RequeueUnsee
  BY <1>5 DEF RequeueUnsee
<1>6. CASE RequeueMove \/ RequeueFails
  BY <1>6 DEF RequeueMove, RequeueFails, MoveMails
<1>7. CASE Crash
  BY <1>7 DEF Crash
<1> QED
  BY <1>1, <1>2, <1>3, <1>4, <1>5, <1>6, <1>7, MailSteps

\* Every mail in the INBOX is found by the poller's UNSEEN search, whatever
\* requeues fail or are cut short, but for those a client opened in the middle.
THEOREM WaitingMailIsVisible == Spec => []InboxIsUnseen
<1>1. Init => WaitingIsUnseen
  BY DEF Init, WaitingIsUnseen
<1>2. IInv /\ WaitingIsUnseen /\ [Next]_vars => WaitingIsUnseen'
  BY StepUnseen
<1>3. WaitingIsUnseen => InboxIsUnseen
  BY DEF WaitingIsUnseen, InboxIsUnseen
<1> QED
  BY <1>1, <1>2, <1>3, Invariance, PTL DEF Spec

\* A mail arrives once, leaves the INBOX only to be filed while no mail is in
\* the poller's hands, and comes back only from Failed.
THEOREM NoMailIsLost == Spec => MailNeverLost
<1>1. ASSUME IInv, [Next]_vars
      PROVE  [\A m \in Mails : folder'[m] # folder[m] =>
                \/ folder[m] \in {"absent", "Failed"} /\ folder'[m] = "INBOX"
                \/ folder[m] = "INBOX" /\ folder'[m] \in Filed /\ cur = None]_vars
  <2> SUFFICES ASSUME NEW m \in Mails, folder'[m] # folder[m]
               PROVE  \/ folder[m] \in {"absent", "Failed"} /\ folder'[m] = "INBOX"
                      \/ folder[m] = "INBOX" /\ folder'[m] \in Filed /\ cur = None
    OBVIOUS
  <2> USE <1>1 DEF IInv, TypeOK, MailboxType, mailbox
  <2>1. CASE \E n \in Mails : Deliver(n)
    BY <2>1 DEF Deliver
  <2>2. CASE RequeueMove \/ RequeueFails
    BY <2>2 DEF RequeueMove, RequeueFails, MoveMails
  <2>3. ASSUME NEW f \in Filed, MoveFolder(f) \/ MoveFails(f)
        PROVE  folder[m] = "INBOX" /\ folder'[m] \in Filed /\ cur = None
    BY <2>3 DEF MoveFolder, MoveFails, MoveMails, AllTaken, MailInHand
  <2>4. CASE \/ MailKeptAsIs
             \/ \E n \in Mails : OpenFailedMail(n) \/ TakeUnreadable(n) \/ TakePlain(n)
             \/ FinishMail \/ RequeueSearch \/ RequeueUnsee \/ Crash
    BY <2>4 DEF MailKeptAsIs, OpenFailedMail, TakeUnreadable, TakePlain, FinishMail,
       RequeueSearch, RequeueUnsee, Crash
  <2> QED
    BY <2>1, <2>2, <2>3, <2>4, MailSteps
<1> QED
  BY <1>1, Invariance, PTL DEF Spec, MailNeverLost

-----------------------------------------------------------------------------
(* An accepted upload is stored.                                           *)

Saves(w) == pc[w] \in {"insert", "open", "emit"}

\* A handler works on the documents of its upload, and those it has put aside
\* are stored.
UploadIsRight(u) ==
  /\ ~Saves(u) => doc[u] = None
  /\ Saves(u) => doc[u] \in Content[u]
  /\ pc[u] = "next" \/ Saves(u) =>
       /\ todo[u] \subseteq Content[u]
       /\ \A d \in Content[u] \ (todo[u] \cup {doc[u]}) : Parses(d) /\ rows[KeyOf[d]] > 0

UploadInHand == \A u \in Uploads : UploadIsRight(u)

UploadKept(u) ==
  pc'[u] = pc[u] /\ doc'[u] = doc[u] /\ todo'[u] = todo[u] /\ reply'[u] = reply[u]

\* The steps an upload can notice.
UploadSteps(u) ==
  \/ Saving(u) \/ StoreFails(u) \/ CommitLost(u) \/ ObserverFails(u)
  \/ Receive(u) \/ RefuseBody(u) \/ FinishUpload(u) \/ Crash
  \/ \E d \in Docs : RefuseBad(u, d)

LEMMA OneUploadAtATime ==
  ASSUME TypeOK, [Next]_vars, NEW u \in Uploads
  PROVE  UploadKept(u) \/ UploadSteps(u)
<1> USE DEF TypeOK, WorkerType, OutsideType, UploadKept, worker, outside
<1>1. u \in Workers /\ u # Poller
  BY NamesAssumption DEF Workers
<1>2. ASSUME NEW w \in Workers, w # u,
             Saving(w) \/ StoreFails(w) \/ CommitLost(w) \/ ObserverFails(w)
      PROVE  UploadKept(u)
  <2>1. ASSUME NEW d \in Docs, PickDoc(w, d)
        PROVE  UploadKept(u)
    BY <1>1, <1>2, <2>1 DEF PickDoc
  <2>2. CASE Duplicate(w) \/ Insert(w) \/ Commit(w) \/ SaveForensic(w)
    BY <1>1, <1>2, <2>2 DEF Duplicate, Insert, Commit, SaveForensic
  <2>3. CASE Emit(w) \/ ObserverFails(w)
    BY <1>1, <1>2, <2>3 DEF Emit, ObserverFails, ObserverDone
  <2>4. CASE StoreFails(w) \/ CommitLost(w)
    BY <1>1, <1>2, <2>4 DEF StoreFails, CommitLost, GiveUp
  <2> QED
    BY <1>2, <2>1, <2>2, <2>3, <2>4 DEF Saving
<1>3. ASSUME NEW v \in Uploads, v # u,
             \/ Receive(v) \/ RefuseBody(v) \/ FinishUpload(v)
             \/ \E d \in Docs : RefuseBad(v, d)
      PROVE  UploadKept(u)
  BY <1>1, <1>3 DEF Receive, RefuseBody, FinishUpload, RefuseBad, Answer, Workers
<1>4. CASE StartCycle \/ StartFails \/ FinishMail \/ EndCycle \/ TriggerPoll
  BY <1>1, <1>4 DEF StartCycle, StartFails, FinishMail, EndCycle, TriggerPoll
<1>5. ASSUME NEW m \in Mails, \/ TakeUnreadable(m) \/ TakePlain(m) \/ TakeReport(m)
                              \/ Deliver(m) \/ OpenFailedMail(m)
      PROVE  UploadKept(u)
  BY <1>1, <1>5 DEF TakeUnreadable, TakePlain, TakeReport, Deliver, OpenFailedMail
<1>6. ASSUME NEW d \in Docs, SkipBad(d)
      PROVE  UploadKept(u)
  BY <1>1, <1>6 DEF SkipBad
<1>7. ASSUME NEW f \in Filed, MoveFolder(f) \/ MoveFails(f)
      PROVE  UploadKept(u)
  BY <1>1, <1>7 DEF MoveFolder, MoveFails
<1>8. CASE RequeueSearch \/ RequeueUnsee \/ RequeueMove \/ RequeueFails
  BY <1>8 DEF RequeueSearch, RequeueUnsee, RequeueMove, RequeueFails
<1>9. CASE UNCHANGED vars
  BY <1>9 DEF vars
<1> QED
  BY <1>2, <1>3, <1>4, <1>5, <1>6, <1>7, <1>8, <1>9
     DEF Next, PollerStep, HandlerStep, Failure, Environment, Workers, UploadSteps

LEMMA StepUpload ==
  ASSUME IInv, UploadInHand, AnswerIsTrue, [Next]_vars, NEW u \in Uploads
  PROVE  /\ UploadIsRight(u)'
         /\ reply'[u] \in {"200", "201"} =>
              \A d \in Content[u] : Parses(d) /\ rows'[KeyOf[d]] > 0
<1> DEFINE Stored(d) == Parses(d) /\ rows[KeyOf[d]] > 0
           NoNews == reply'[u] = reply[u] \/ reply'[u] \notin {"200", "201"}
<1> USE DEF IInv, TypeOK, WorkerType, OutsideType, Saves
<1>1. u \in Workers /\ u # Poller /\ Content[u] \subseteq Docs /\ None \notin Docs
  BY NamesAssumption, ContentAssumption DEF Workers
<1>2. \A d \in Docs : Stored(d) => Stored(d)'
  BY RowsGrow, ContentAssumption DEF Parses
<1>3. UploadIsRight(u) /\ (reply[u] \in {"200", "201"} => \A d \in Content[u] : Stored(d))
  BY DEF UploadInHand, AnswerIsTrue
<1>4. NoNews => (reply'[u] \in {"200", "201"} => \A d \in Content[u] : Stored(d)')
  BY <1>1, <1>2, <1>3
<1>5. CASE UploadKept(u)
  BY <1>1, <1>2, <1>3, <1>5 DEF UploadKept, UploadIsRight
<1>6. ASSUME NEW d \in Docs, PickDoc(u, d)
      PROVE  NoNews /\ UploadIsRight(u)'
  <2>1. /\ pc[u] = "next" /\ doc[u] = None /\ d \in todo[u] /\ reply' = reply
        /\ pc'[u] = "insert" /\ doc'[u] = d /\ todo'[u] = todo[u] \ {d}
    BY <1>1, <1>3, <1>6 DEF PickDoc, First, UploadIsRight, outside
  <2> QED
    BY <1>1, <1>2, <1>3, <2>1 DEF UploadIsRight
<1>7. ASSUME Duplicate(u) \/ Emit(u) \/ ObserverFails(u)
      PROVE  NoNews /\ UploadIsRight(u)'
  <2>1. Saves(u) /\ Stored(doc[u])
    BY <1>1, <1>7 DEF Duplicate, Emit, ObserverFails, InHand, EmitIsFirst, KeyInHand
  <2>2. /\ reply' = reply /\ todo' = todo
        /\ \/ pc'[u] = "next" /\ doc'[u] = None
           \/ Saves(u)' /\ doc'[u] = doc[u]
    <3>1. CASE Duplicate(u)
      BY <1>1, <3>1 DEF Duplicate, outside
    <3>2. CASE Emit(u) \/ ObserverFails(u)
      BY <1>1, <3>2 DEF Emit, ObserverFails, ObserverDone
    <3> QED
      BY <1>7, <3>1, <3>2
  <2>3. \A d \in Content[u] \ (todo[u] \cup {doc'[u]}) : Stored(d)
    BY <1>3, <2>1, <2>2 DEF UploadIsRight
  <2> QED
    BY <1>1, <1>2, <1>3, <2>1, <2>2, <2>3 DEF UploadIsRight
<1>8. ASSUME Insert(u) \/ Commit(u) \/ SaveForensic(u)
      PROVE  NoNews /\ UploadIsRight(u)'
  <2>1. Saves(u) /\ Saves(u)' /\ todo' = todo /\ doc' = doc /\ reply' = reply
    BY <1>1, <1>8 DEF Insert, Commit, SaveForensic, outside
  <2> QED
    BY <1>1, <1>2, <1>3, <2>1 DEF UploadIsRight
<1>9. CASE StoreFails(u) \/ CommitLost(u)
  <2>1. pc'[u] = "done" /\ doc'[u] = None /\ reply'[u] = "500"
    BY <1>1, <1>9 DEF StoreFails, CommitLost, GiveUp
  <2> QED
    BY <2>1 DEF UploadIsRight
<1>10. CASE Receive(u)
  <2>1. NoNews /\ pc'[u] = "next" /\ todo'[u] = Content[u] /\ doc'[u] = None
    BY <1>1, <1>3, <1>10 DEF Receive, outside, UploadIsRight
  <2> QED
    BY <1>4, <2>1 DEF UploadIsRight
<1>11. CASE RefuseBody(u) \/ \E d \in Docs : RefuseBad(u, d)
  <2>1. pc'[u] = "done" /\ doc'[u] = None /\ reply'[u] = "400"
    BY <1>1, <1>3, <1>11 DEF RefuseBody, RefuseBad, Answer, UploadIsRight
  <2> QED
    BY <2>1 DEF UploadIsRight
<1>12. CASE FinishUpload(u)
  <2>1. pc'[u] = "done" /\ doc'[u] = None /\ \A d \in Content[u] : Stored(d)
    BY <1>1, <1>3, <1>12 DEF FinishUpload, Answer, UploadIsRight
  <2> QED
    BY <1>1, <1>2, <2>1 DEF UploadIsRight
<1>13. CASE Crash
  <2>1. NoNews /\ pc'[u] \in {"idle", "done"} /\ doc'[u] = None
    BY <1>1, <1>13 DEF Crash
  <2> QED
    BY <1>4, <2>1 DEF UploadIsRight
<1> QED
  BY <1>4, <1>5, <1>6, <1>7, <1>8, <1>9, <1>10, <1>11, <1>12, <1>13, OneUploadAtATime
     DEF UploadSteps, Saving

\* What AnswerIsTrue needs holds in every reachable state.
LEMMA UploadInvariance == Spec => [](UploadInHand /\ AnswerIsTrue)
<1>1. Init => UploadInHand /\ AnswerIsTrue
  BY DEF Init, UploadInHand, UploadIsRight, AnswerIsTrue, Workers, Saves
<1>2. IInv /\ UploadInHand /\ AnswerIsTrue /\ [Next]_vars => UploadInHand' /\ AnswerIsTrue'
  BY StepUpload DEF UploadInHand, AnswerIsTrue
<1> QED
  BY <1>1, <1>2, Invariance, PTL DEF Spec

\* An upload that was answered 200 or 201 has all its documents in the
\* database, whoever stored them, and keeps them there.
THEOREM AnswersAreTrue == Spec => []AnswerIsTrue
  BY UploadInvariance, PTL

-----------------------------------------------------------------------------
(* While nothing fails no forensic report is stored twice.                 *)

Calm == faults = 0 /\ crashes = 0

\* The mail has been decided on, or filed.
Dealt(m) == folder[m] \in Filed \/ \E f \in Filed : m \in moves[f]

\* In a calm run the mails of a cycle wait in the INBOX, are not decided on
\* before their turn and are not fetched again before they are filed.
CycleIsFresh ==
  /\ pc[Poller] = "idle" => \A f \in Filed : moves[f] = {}
  /\ \A m \in Mails : m \in batch \/ m = cur => folder[m] = "INBOX" /\ ~Dealt(m)
  /\ cur \notin batch
  /\ doc[Poller] \notin todo[Poller]
  /\ \A f \in Filed : \A m \in moves[f] : folder[m] # "absent"

\* The poller has dealt with the document and will not see it again.
IsSpent(d) ==
  \E m \in Mails :
    /\ d \in Content[m]
    /\ \/ Dealt(m)
       \/ m = cur /\ d \notin todo[Poller] /\ (d = doc[Poller] => pc[Poller] = "emit")

SpentOf(k) == {d \in Docs : KeyOf[d] = k /\ IsSpent(d)}

\* Every stored forensic report is one of those the poller dealt with.
ForensicRowsSpent == \A k \in Keys \ DedupKeys : rows[k] <= Cardinality(SpentOf(k))

CalmInv == Calm => CycleIsFresh /\ ForensicRowsSpent

CycleKept ==
  /\ UNCHANGED <<folder, moves, cur, batch>>
  /\ pc'[Poller] = pc[Poller] /\ todo'[Poller] = todo[Poller]
  /\ doc'[Poller] = doc[Poller]

ForensicKept == \A k \in Keys \ DedupKeys : rows'[k] = rows[k]

\* The steps of a calm run that the cycle can notice.
CycleSteps ==
  \/ Saving(Poller) \/ StartCycle \/ FinishMail \/ EndCycle
  \/ \E m \in Mails : TakeUnreadable(m) \/ TakePlain(m) \/ TakeReport(m) \/ Deliver(m)
  \/ \E d \in Docs : SkipBad(d)
  \/ \E f \in Filed : MoveFolder(f)
  \/ RequeueMove

LEMMA CalmBefore ==
  ASSUME TypeOK, [Next]_vars, Calm'
  PROVE  Calm /\ ~Failure
<1> USE DEF TypeOK, BoundsType, Calm
<1>1. faults \in Nat /\ crashes \in Nat
  BY BoundsAssumption
<1>2. Failure => ~Calm'
  <2>1. ASSUME NEW w \in Workers, StoreFails(w) \/ CommitLost(w) \/ ObserverFails(w)
        PROVE  ~Calm'
    BY <1>1, <2>1 DEF StoreFails, CommitLost, ObserverFails, Fault
  <2>2. ASSUME NEW f \in Filed, MoveFails(f)
        PROVE  ~Calm'
    BY <1>1, <2>2 DEF MoveFails, Fault
  <2>3. CASE StartFails \/ RequeueFails \/ Crash
    <3>1. CASE StartFails
      BY <1>1, <3>1 DEF StartFails, Fault
    <3>2. CASE RequeueFails
      BY <1>1, <3>2 DEF RequeueFails, Fault
    <3>3. CASE Crash
      BY <1>1, <3>3 DEF Crash
    <3> QED
      BY <2>3, <3>1, <3>2, <3>3
  <2> QED
    BY <2>1, <2>2, <2>3 DEF Failure
<1>3. ASSUME NEW w \in Workers, Saving(w)
      PROVE  UNCHANGED <<faults, crashes>>
  BY <1>3 DEF Saving, PickDoc, Duplicate, Insert, Commit, SaveForensic, Emit, ObserverDone
<1>4. ASSUME PollerStep
      PROVE  UNCHANGED <<faults, crashes>>
  <2>1. Poller \in Workers
    BY DEF Workers
  <2> QED
    BY <1>3, <1>4, <2>1 DEF PollerStep, StartCycle, FinishMail, EndCycle, TakeUnreadable,
       TakePlain, TakeReport, SkipBad, MoveFolder
<1>5. ASSUME NEW u \in Uploads, HandlerStep(u)
      PROVE  UNCHANGED <<faults, crashes>>
  BY <1>3, <1>5 DEF HandlerStep, RefuseBody, FinishUpload, RefuseBad, Answer, Workers
<1>6. ASSUME Environment
      PROVE  UNCHANGED <<faults, crashes>>
  BY <1>6 DEF Environment, Deliver, OpenFailedMail, Receive, TriggerPoll, RequeueSearch,
     RequeueUnsee, RequeueMove
<1>7. ASSUME UNCHANGED vars
      PROVE  UNCHANGED <<faults, crashes>>
  BY <1>7 DEF vars
<1> QED
  BY <1>2, <1>4, <1>5, <1>6, <1>7 DEF Next

\* Only SaveForensic stores a forensic report.
LEMMA OthersKeepForensic ==
  ASSUME IInv, NEW w \in Workers, Saving(w), ~SaveForensic(w)
  PROVE  ForensicKept
<1> USE DEF IInv, TypeOK, StoreType, WorkerType, ForensicKept
<1>1. CASE Commit(w)
  <2>1. doc[w] \in Docs /\ Parses(doc[w]) /\ Deduped(doc[w])
    BY <1>1 DEF Commit, InHand, OpenHoldsClaim
  <2>2. KeyInHand(w) \in DedupKeys
    BY <2>1, DedupFacts DEF KeyInHand
  <2> QED
    BY <1>1, <2>2 DEF Commit
<1>2. CASE \/ Duplicate(w) \/ Insert(w) \/ Emit(w)
           \/ \E d \in Docs : PickDoc(w, d)
  BY <1>2 DEF Duplicate, Insert, Emit, ObserverDone, PickDoc, db
<1> QED
  BY <1>1, <1>2 DEF Saving

\* A handler has no forensic report in hand.
LEMMA HandlersSaveNone ==
  ASSUME UploadInHand, NEW u \in Uploads
  PROVE  ~SaveForensic(u)
<1> SUFFICES ASSUME SaveForensic(u) PROVE FALSE
  OBVIOUS
<1>1. Saves(u) /\ doc[u] \in Content[u]
  BY DEF SaveForensic, Saves, UploadInHand, UploadIsRight
<1> QED
  BY <1>1, KindAssumption DEF SaveForensic, Deduped

LEMMA CalmSteps ==
  ASSUME IInv, UploadInHand, [Next]_vars, Calm'
  PROVE  CycleSteps \/ (CycleKept /\ ForensicKept)
<1> USE DEF IInv, TypeOK, WorkerType
<1>1. ~Failure
  BY CalmBefore
<1>2. Poller \in Workers /\ Poller \notin Uploads
  BY NamesAssumption DEF Workers
<1>3. ASSUME NEW u \in Uploads, Saving(u)
      PROVE  CycleKept
  <2> USE DEF CycleKept, mailbox, cycle
  <2>1. ASSUME NEW d \in Docs, PickDoc(u, d)
        PROVE  CycleKept
    BY <1>2, <2>1 DEF PickDoc
  <2>2. CASE Duplicate(u) \/ Insert(u)
    BY <1>2, <2>2 DEF Duplicate, Insert
  <2>3. CASE Commit(u) \/ SaveForensic(u)
    BY <1>2, <2>3 DEF Commit, SaveForensic
  <2>4. CASE Emit(u)
    BY <1>2, <2>4 DEF Emit, ObserverDone
  <2> QED
    BY <1>3, <2>1, <2>2, <2>3, <2>4 DEF Saving
<1>4. ASSUME NEW u \in Uploads,
             \/ Receive(u) \/ RefuseBody(u) \/ FinishUpload(u)
             \/ \E d \in Docs : RefuseBad(u, d)
      PROVE  CycleKept /\ ForensicKept
  <2> USE DEF CycleKept, ForensicKept, mailbox, db, cycle
  <2>1. CASE Receive(u)
    BY <1>2, <2>1 DEF Receive
  <2>2. ASSUME NEW status, Answer(u, status)
        PROVE  CycleKept /\ ForensicKept
    BY <1>2, <2>2 DEF Answer
  <2> QED
    BY <1>4, <2>1, <2>2 DEF RefuseBody, FinishUpload, RefuseBad
<1>5. ASSUME \/ TriggerPoll \/ RequeueSearch \/ RequeueUnsee
             \/ \E m \in Mails : OpenFailedMail(m)
      PROVE  CycleKept /\ ForensicKept
  BY <1>5 DEF TriggerPoll, RequeueSearch, RequeueUnsee, OpenFailedMail, CycleKept,
     ForensicKept, mailbox, db, worker, cycle
<1>6. CASE UNCHANGED vars
  BY <1>6 DEF vars, CycleKept, ForensicKept, mailbox, db, worker, cycle
<1> QED
  BY <1>1, <1>3, <1>4, <1>5, <1>6, OthersKeepForensic, HandlersSaveNone
     DEF Next, PollerStep, HandlerStep, Environment, CycleSteps, Workers

\* Calm steps keep the cycle fresh and take back no document dealt with.
LEMMA StepFresh ==
  ASSUME IInv, CycleIsFresh, CycleSteps \/ CycleKept
  PROVE  /\ CycleIsFresh'
         /\ \A d \in Docs : Parses(d) /\ IsSpent(d) => IsSpent(d)'
<1> DEFINE Grow == \A d \in Docs : Parses(d) /\ IsSpent(d) => IsSpent(d)'
<1> USE DEF IInv, TypeOK, WorkerType, CycleType, MailboxType
<1>1. Poller \in Workers /\ None \notin Docs /\ None \notin Mails
  BY NamesAssumption DEF Workers
<1>2. CASE CycleKept
  BY <1>2 DEF CycleKept, CycleIsFresh, IsSpent, Dealt
<1>3. CASE Saving(Poller)
  <2>1. UNCHANGED <<folder, moves, cur, batch>> /\ pc[Poller] # "idle" /\ pc'[Poller] # "idle"
    <3>1. ASSUME NEW d \in Docs, PickDoc(Poller, d)
          PROVE  /\ UNCHANGED <<folder, moves, cur, batch>>
                 /\ pc[Poller] # "idle" /\ pc'[Poller] # "idle"
      BY <1>1, <3>1 DEF PickDoc, mailbox, cycle
    <3>2. CASE \/ Duplicate(Poller) \/ Insert(Poller) \/ Commit(Poller)
               \/ SaveForensic(Poller) \/ Emit(Poller)
      BY <1>1, <3>2 DEF Duplicate, Insert, Commit, SaveForensic, Emit, ObserverDone,
         mailbox, cycle
    <3> QED
      BY <1>3, <3>1, <3>2 DEF Saving
  <2>2. doc'[Poller] \notin todo'[Poller]
    <3>1. ASSUME NEW d \in Docs, PickDoc(Poller, d)
          PROVE  doc'[Poller] \notin todo'[Poller]
      BY <1>1, <3>1 DEF PickDoc
    <3>2. CASE \/ Duplicate(Poller) \/ Insert(Poller) \/ Commit(Poller)
               \/ SaveForensic(Poller) \/ Emit(Poller)
      <4>1. todo' = todo /\ (doc'[Poller] = doc[Poller] \/ doc'[Poller] = None)
        BY <1>1, <3>2 DEF Duplicate, Insert, Commit, SaveForensic, Emit, ObserverDone
      <4> QED
        BY <1>1, <4>1 DEF CycleIsFresh
    <3> QED
      BY <1>3, <3>1, <3>2 DEF Saving
  <2>3. \A d \in Docs : d \notin todo[Poller] /\ (d = doc[Poller] => pc[Poller] = "emit")
          => d \notin todo'[Poller] /\ (d = doc'[Poller] => pc'[Poller] = "emit")
    <3>1. ASSUME NEW d \in Docs, PickDoc(Poller, d)
          PROVE  \A e \in Docs : e \notin todo[Poller] => e \notin todo'[Poller] /\ e # doc'[Poller]
      BY <1>1, <3>1 DEF PickDoc, First
    <3>2. CASE Duplicate(Poller)
      BY <1>1, <3>2 DEF Duplicate
    <3>3. CASE Insert(Poller) \/ Commit(Poller) \/ SaveForensic(Poller)
      BY <1>1, <3>3 DEF Insert, Commit, SaveForensic
    <3>4. CASE Emit(Poller)
      BY <1>1, <3>4 DEF Emit, ObserverDone
    <3> QED
      BY <1>3, <3>1, <3>2, <3>3, <3>4 DEF Saving
  <2>4. CycleIsFresh'
    BY <2>1, <2>2 DEF CycleIsFresh, Dealt
  <2>5. Grow
    BY <2>1, <2>3 DEF IsSpent, Dealt
  <2> QED
    BY <2>4, <2>5
<1>4. CASE StartCycle
  <2>1. /\ UNCHANGED <<folder, moves, cur, todo, doc>> /\ cur = None
        /\ \A f \in Filed : moves[f] = {}
        /\ batch' \subseteq Wanted /\ pc'[Poller] # "emit"
    BY <1>1, <1>4 DEF StartCycle, mailbox, CycleIsFresh, MailInHand
  <2>2. CycleIsFresh'
    BY <1>1, <2>1 DEF CycleIsFresh, Dealt, Wanted, Filed
  <2>3. Grow
    BY <1>1, <2>1 DEF IsSpent, Dealt
  <2> QED
    BY <2>2, <2>3
<1>5. CASE FinishMail
  <2>1. cur \in Mails /\ Outcome(tally[Poller]) \in Filed
    BY <1>5, OutcomeFits DEF Outcome, Filed
  <2>2. /\ UNCHANGED <<folder, batch, todo, doc>> /\ cur' = None /\ pc'[Poller] = "take"
        /\ \A f \in Filed : moves[f] \subseteq moves'[f]
        /\ \A f \in Filed : \A m \in moves'[f] : m \in moves[f] \/ m = cur
        /\ cur \in moves'[Outcome(tally[Poller])]
    BY <1>1, <1>5, <2>1 DEF FinishMail, mailbox
  <2>3. CycleIsFresh'
    BY <1>1, <2>1, <2>2 DEF CycleIsFresh, Dealt
  <2>4. ASSUME NEW m \in Mails, Dealt(m)
        PROVE  Dealt(m)'
    <3>1. CASE folder[m] \in Filed
      BY <2>2, <3>1 DEF Dealt
    <3>2. ASSUME NEW f \in Filed, m \in moves[f]
          PROVE  Dealt(m)'
      <4>1. m \in moves'[f]
        BY <2>2, <3>2
      <4> QED
        BY <4>1 DEF Dealt
    <3> QED
      BY <2>4, <3>1, <3>2 DEF Dealt
  <2>5. \A m \in Mails : m = cur => Dealt(m)'
    BY <2>1, <2>2 DEF Dealt
  <2>6. Grow
    BY <2>4, <2>5 DEF IsSpent
  <2> QED
    BY <2>3, <2>6
<1>6. CASE EndCycle
  <2>1. /\ UNCHANGED <<folder, batch, cur, moves, todo, doc>> /\ pc[Poller] = "take"
        /\ \A f \in Filed : moves[f] = {}
    BY <1>6 DEF EndCycle, AllTaken, mailbox, cycle
  <2>2. cur = None
    BY <2>1 DEF MailInHand
  <2> QED
    BY <1>1, <2>1, <2>2 DEF CycleIsFresh, Dealt, IsSpent
<1>7. ASSUME NEW n \in Mails, TakeUnreadable(n) \/ TakePlain(n)
      PROVE  CycleIsFresh' /\ Grow
  <2>1. /\ UNCHANGED <<folder, cur, pc, todo, doc>> /\ batch' = batch \ {n} /\ n \in batch
        /\ pc[Poller] = "take"
        /\ \A f \in Filed : moves[f] \subseteq moves'[f]
        /\ \A f \in Filed : \A m \in moves'[f] : m \in moves[f] \/ m = n
    BY <1>7 DEF TakeUnreadable, TakePlain, mailbox, worker
  <2>2. cur = None
    BY <2>1 DEF MailInHand
  <2>3. CycleIsFresh'
    BY <1>1, <2>1, <2>2 DEF CycleIsFresh, Dealt
  <2>4. Grow
    BY <2>1 DEF IsSpent, Dealt
  <2> QED
    BY <2>3, <2>4
<1>8. ASSUME NEW n \in Mails, TakeReport(n)
      PROVE  CycleIsFresh' /\ Grow
  <2>1. /\ UNCHANGED <<folder, moves>> /\ cur' = n /\ batch' = batch \ {n} /\ n \in batch
        /\ pc[Poller] = "take" /\ pc'[Poller] = "next"
        /\ doc' = doc /\ todo'[Poller] = Content[n]
    BY <1>1, <1>8 DEF TakeReport, mailbox
  <2>2. cur = None /\ doc[Poller] = None /\ None \notin Content[n]
    BY <1>1, <2>1, ContentAssumption DEF MailInHand
  <2>3. CycleIsFresh'
    BY <1>1, <2>1, <2>2 DEF CycleIsFresh, Dealt
  <2>4. Grow
    BY <1>1, <2>1, <2>2 DEF IsSpent, Dealt
  <2> QED
    BY <2>3, <2>4
<1>9. ASSUME NEW n \in Mails, Deliver(n)
      PROVE  CycleIsFresh' /\ Grow
  <2>1. /\ UNCHANGED <<moves, cur, batch, pc, todo, doc>>
        /\ folder[n] = "absent" /\ folder' = [folder EXCEPT ![n] = "INBOX"]
    BY <1>9 DEF Deliver, worker, cycle
  <2> QED
    BY <2>1 DEF CycleIsFresh, IsSpent, Dealt, Filed
<1>10. ASSUME NEW n \in Docs, SkipBad(n)
       PROVE  CycleIsFresh' /\ Grow
  <2>1. /\ UNCHANGED <<folder, moves, cur, batch, pc, doc>>
        /\ todo'[Poller] = todo[Poller] \ {n}
    BY <1>1, <1>10 DEF SkipBad, mailbox, cycle
  <2> QED
    BY <2>1 DEF CycleIsFresh, IsSpent, Dealt
<1>11. ASSUME NEW f \in Filed, MoveFolder(f)
       PROVE  CycleIsFresh' /\ Grow
  <2>1. /\ UNCHANGED <<cur, batch, pc, todo, doc>> /\ pc[Poller] = "take" /\ batch = {}
        /\ moves' = [moves EXCEPT ![f] = {}]
        /\ \A m \in Mails :
             folder'[m] = IF m \in moves[f] /\ folder[m] = "INBOX" THEN f ELSE folder[m]
    BY <1>11 DEF MoveFolder, MoveMails, AllTaken, worker
  <2>2. cur = None
    BY <2>1 DEF MailInHand
  <2>3. CycleIsFresh'
    BY <1>1, <2>1, <2>2 DEF CycleIsFresh, Dealt, Filed
  <2>4. ASSUME NEW m \in Mails, Dealt(m), Content[m] # {}, \E d \in Content[m] : Parses(d)
        PROVE  Dealt(m)'
    <3>1. CASE m \in moves[f]
      <4>1. folder[m] # "absent" /\ folder[m] \in Folders
        BY <2>4, <3>1 DEF CycleIsFresh, Folders
      <4> QED
        BY <2>1, <3>1, <4>1 DEF Dealt, Folders, Filed
    <3>2. CASE m \notin moves[f]
      BY <2>1, <2>4, <3>2 DEF Dealt
    <3> QED
      BY <3>1, <3>2
  <2>5. Grow
    BY <1>1, <2>1, <2>2, <2>4 DEF IsSpent
  <2> QED
    BY <2>3, <2>5
<1>12. CASE RequeueMove
  <2>1. /\ UNCHANGED <<cur, batch, moves, pc, todo, doc>>
        /\ \A m \in Mails : folder'[m] = folder[m] \/ (folder[m] = "Failed" /\ folder'[m] = "INBOX")
    BY <1>12 DEF RequeueMove, MoveMails, worker
  <2>2. \A m \in Mails : folder[m] = "Failed" => \A d \in Content[m] : ~Parses(d)
    BY DEF FilingIsRight, Fits, Filed
  <2>3. CycleIsFresh'
    BY <2>1 DEF CycleIsFresh, Dealt, Filed
  <2>4. Grow
    BY <2>1, <2>2 DEF IsSpent, Dealt
  <2> QED
    BY <2>3, <2>4
<1> QED
  BY <1>2, <1>3, <1>4, <1>5, <1>6, <1>7, <1>8, <1>9, <1>10, <1>11, <1>12 DEF CycleSteps

\* The forensic report the poller stores was not dealt with before, and is now.
LEMMA ForensicIsNew ==
  ASSUME IInv, CycleIsFresh, SaveForensic(Poller)
  PROVE  ~IsSpent(doc[Poller]) /\ IsSpent(doc[Poller])' /\ doc' = doc
<1> USE DEF IInv, TypeOK, WorkerType, CycleType
<1>1. Poller \in Workers /\ Mails \subseteq Mails \cup Uploads
  BY DEF Workers
<1>2. pc[Poller] = "insert" /\ pc'[Poller] = "emit" /\ UNCHANGED <<todo, doc, cur, folder, moves>>
  BY <1>1 DEF SaveForensic, mailbox, cycle
<1>3. cur \in Mails /\ doc[Poller] \in Content[cur] /\ doc[Poller] \in Docs
  BY <1>1, <1>2, NamesAssumption DEF MailInHand, InHand
<1>4. ~Dealt(cur) /\ \A m \in Mails : doc[Poller] \in Content[m] => m = cur
  BY <1>1, <1>3, OccurrenceAssumption DEF CycleIsFresh
<1>5. ~IsSpent(doc[Poller])
  BY <1>2, <1>4 DEF IsSpent
<1>6. doc[Poller] \notin todo[Poller]
  BY DEF CycleIsFresh
<1> QED
  BY <1>2, <1>3, <1>5, <1>6 DEF IsSpent

LEMMA StepForensic ==
  ASSUME IInv, UploadInHand, CycleIsFresh, ForensicRowsSpent, [Next]_vars, Calm'
  PROVE  CycleIsFresh' /\ ForensicRowsSpent'
<1> USE DEF IInv, TypeOK, StoreType
<1>1. CycleIsFresh' /\ \A d \in Docs : Parses(d) /\ IsSpent(d) => IsSpent(d)'
  BY CalmSteps, StepFresh
<1> SUFFICES ASSUME NEW k \in Keys \ DedupKeys
             PROVE  rows'[k] <= Cardinality(SpentOf(k)')
  BY <1>1 DEF ForensicRowsSpent
<1>2. SpentOf(k) \subseteq SpentOf(k)'
  BY <1>1, NamesAssumption DEF SpentOf, Parses
<1>3. IsFiniteSet(SpentOf(k)) /\ IsFiniteSet(SpentOf(k)')
  <2>1. SpentOf(k) \in SUBSET Docs /\ SpentOf(k)' \in SUBSET Docs
    BY DEF SpentOf
  <2> QED
    BY <2>1, FS_Subset, OccurrenceAssumption
<1>4. /\ Cardinality(SpentOf(k)) \in Nat /\ Cardinality(SpentOf(k)') \in Nat
      /\ Cardinality(SpentOf(k)) <= Cardinality(SpentOf(k)')
  BY <1>2, <1>3, FS_CardinalityType, FS_Subset
<1>5. rows[k] \in Nat /\ rows[k] <= Cardinality(SpentOf(k))
  BY DEF ForensicRowsSpent
<1>6. CASE rows'[k] = rows[k]
  BY <1>4, <1>5, <1>6
<1>7. CASE rows'[k] # rows[k]
  <2>1. SaveForensic(Poller)
    <3>1. ~ForensicKept /\ CycleSteps
      BY <1>7, CalmSteps DEF ForensicKept
    <3>2. rows' # rows
      BY <1>7
    <3>3. Saving(Poller)
      BY <3>1, <3>2 DEF CycleSteps, StartCycle, FinishMail, EndCycle, TakeUnreadable, TakePlain,
         TakeReport, Deliver, SkipBad, MoveFolder, RequeueMove, db
    <3> QED
      BY <3>1, <3>3, OthersKeepForensic DEF Workers
  <2>2. KeyOf[doc[Poller]] = k /\ rows'[k] = rows[k] + 1
    BY <1>5, <1>7, <2>1 DEF SaveForensic, KeyInHand
  <2>3. doc[Poller] \in Docs
    BY <2>1 DEF SaveForensic, InHand, Workers
  <2>4. doc[Poller] \notin SpentOf(k) /\ doc[Poller] \in SpentOf(k)'
    BY <2>1, <2>2, <2>3, ForensicIsNew DEF SpentOf
  <2>5. Cardinality(SpentOf(k) \cup {doc[Poller]}) = Cardinality(SpentOf(k)) + 1
    BY <1>3, <2>4, FS_AddElement
  <2>6. SpentOf(k) \cup {doc[Poller]} \in SUBSET SpentOf(k)'
    BY <1>2, <2>4
  <2>7. Cardinality(SpentOf(k) \cup {doc[Poller]}) <= Cardinality(SpentOf(k)')
    BY <1>3, <2>6, FS_Subset
  <2> QED
    BY <1>4, <1>5, <2>2, <2>5, <2>7
<1> QED
  BY <1>6, <1>7

\* A forensic report has no unique index, yet as long as no statement or IMAP
\* command fails and no process dies, one row is stored per copy received.
THEOREM ForensicReportsStoredOnce == Spec => []ForensicOnceIfCalm
<1>1. Init => CalmInv
  <2> SUFFICES ASSUME Init PROVE CycleIsFresh /\ ForensicRowsSpent
    BY DEF CalmInv
  <2>1. CycleIsFresh
    BY NamesAssumption DEF Init, CycleIsFresh, Filed, Workers
  <2>2. ASSUME NEW k \in Keys
        PROVE  rows[k] <= Cardinality(SpentOf(k))
    <3>1. SpentOf(k) \in SUBSET Docs
      BY DEF SpentOf
    <3>2. Cardinality(SpentOf(k)) \in Nat
      BY <3>1, FS_Subset, FS_CardinalityType, OccurrenceAssumption
    <3> QED
      BY <3>2 DEF Init
  <2> QED
    BY <2>1, <2>2 DEF ForensicRowsSpent
<1>2. IInv /\ UploadInHand /\ CalmInv /\ [Next]_vars => CalmInv'
  BY StepForensic, CalmBefore DEF CalmInv, IInv
<1>3. IInv /\ CalmInv => ForensicOnceIfCalm
  <2> SUFFICES ASSUME IInv, CalmInv, faults + crashes = 0, NEW k \in Keys \ DedupKeys
               PROVE  rows[k] <= Cardinality({d \in Docs : KeyOf[d] = k})
    BY DEF ForensicOnceIfCalm
  <2>1. faults \in Nat /\ crashes \in Nat /\ rows[k] \in Nat
    BY BoundsAssumption DEF IInv, TypeOK, BoundsType, StoreType
  <2>2. rows[k] <= Cardinality(SpentOf(k))
    BY <2>1 DEF CalmInv, Calm, ForensicRowsSpent
  <2>3. IsFiniteSet({d \in Docs : KeyOf[d] = k})
    BY FS_Subset, OccurrenceAssumption
  <2>4. SpentOf(k) \in SUBSET {d \in Docs : KeyOf[d] = k}
    BY DEF SpentOf
  <2>5. /\ Cardinality(SpentOf(k)) \in Nat
        /\ Cardinality({d \in Docs : KeyOf[d] = k}) \in Nat
        /\ Cardinality(SpentOf(k)) <= Cardinality({d \in Docs : KeyOf[d] = k})
    BY <2>3, <2>4, FS_Subset, FS_CardinalityType
  <2> QED
    BY <2>1, <2>2, <2>5
<1> QED
  BY <1>1, <1>2, <1>3, Invariance, UploadInvariance, PTL DEF Spec

-----------------------------------------------------------------------------
(* The ledger.  The webhook leads: an announcer past its first observer    *)
(* has told it.                                                            *)

LeaderIsTold ==
  \A w \in Workers :
    pc[w] = "emit" /\ Deduped(doc[w]) /\ stage[w] > 0 => heard["webhook"][KeyInHand(w)] = 1

LEMMA LeaderFacts ==
  ASSUME NEW d \in Docs
  PROVE  /\ Chain(d)[1] = "webhook"
         /\ "webhook" \in Observers
         /\ \A i \in 1..Len(Chain(d)) : Chain(d)[i] = "webhook" => i = 1
  BY DEF Chain, Observers

\* What the observer whose turn it is does.
LEMMA EmitEffect ==
  ASSUME IInv, NEW w \in Workers, Emit(w), Deduped(doc[w])
  PROVE  LET o == Chain(doc[w])[stage[w] + 1]
             k == KeyInHand(w)
         IN  /\ doc[w] \in Docs /\ o \in Observers /\ k \in DedupKeys /\ k \in Keys
             /\ stage[w] + 1 \in 1..Len(Chain(doc[w]))
             /\ rows[k] = 1 /\ heard[o][k] = 0
             /\ \A p \in Observers : \A l \in Keys :
                  heard'[p][l] = IF p = o /\ l = k THEN 1 ELSE heard[p][l]
<1> USE DEF IInv, TypeOK, StoreType, WorkerType, OutsideType
<1>1. pc[w] = "emit" /\ doc[w] \in Docs /\ Parses(doc[w])
  BY DEF Emit, InHand
<1>2. KeyInHand(w) \in Keys /\ KeyInHand(w) \in DedupKeys
  BY <1>1, KeyFacts, DedupFacts DEF KeyInHand
<1>3. stage[w] \in Nat /\ Len(Chain(doc[w])) \in 1..4 /\ stage[w] < Len(Chain(doc[w]))
  <2>1. stage[w] \in 0..4 /\ stage[w] < Len(Chain(doc[w]))
    BY <1>1 DEF EmitIsFirst
  <2>2. Len(Chain(doc[w])) \in 1..4
    BY <1>1, ChainFacts
  <2> QED
    BY <2>1, <2>2
<1>4. stage[w] + 1 \in 1..Len(Chain(doc[w]))
  BY <1>3
<1>5. Chain(doc[w])[stage[w] + 1] \in Observers
  BY <1>1, <1>4, ChainFacts
<1>6. rows[KeyInHand(w)] = 1
  BY <1>1, <1>2 DEF EmitIsFirst, AnnouncedOnce
<1>7. stage[w] + 1 \in stage[w] + 1 .. Len(Chain(doc[w]))
  BY <1>3
<1>8. heard[Chain(doc[w])[stage[w] + 1]][KeyInHand(w)] = 0
  BY <1>1, <1>7 DEF EmitIsFirst
<1>9. heard' = [heard EXCEPT ![Chain(doc[w])[stage[w] + 1]][KeyInHand(w)] = @ + 1]
  BY DEF Emit
<1> QED
  BY <1>1, <1>2, <1>4, <1>5, <1>6, <1>8, <1>9

LEMMA LeaderQuiet ==
  ASSUME IInv, LeaderIsTold, UNCHANGED heard,
         NEW w \in Workers,
         pc'[w] = "emit" =>
           \/ stage'[w] = 0
           \/ pc[w] = "emit" /\ doc'[w] = doc[w] /\ (stage'[w] > 0 => stage[w] > 0)
  PROVE  pc'[w] = "emit" /\ Deduped(doc'[w]) /\ stage'[w] > 0
           => heard'["webhook"][KeyInHand(w)'] = 1
  BY DEF LeaderIsTold, KeyInHand

LEMMA StepLeader ==
  ASSUME IInv, LeaderIsTold, [Next]_vars
  PROVE  LeaderIsTold'
<1> USE DEF IInv, TypeOK, WorkerType
<1>1. ASSUME Quiet
      PROVE  LeaderIsTold'
  BY <1>1 DEF Quiet, LeaderIsTold, KeyInHand
<1>2. ASSUME NEW v \in Workers,
             \/ \E d \in Docs : PickDoc(v, d)
             \/ Insert(v) \/ Commit(v) \/ SaveForensic(v) \/ CommitLost(v)
      PROVE  LeaderIsTold'
  <2>1. ASSUME NEW w \in Workers
        PROVE  pc'[w] = "emit" =>
                 \/ stage'[w] = 0
                 \/ pc[w] = "emit" /\ doc'[w] = doc[w] /\ stage'[w] = stage[w]
    <3>1. ASSUME NEW d \in Docs, PickDoc(v, d), pc'[w] = "emit"
          PROVE  w # v /\ UNCHANGED stage /\ pc[w] = "emit" /\ doc'[w] = doc[w]
      BY <3>1 DEF PickDoc
    <3>2. CASE Insert(v)
      BY <3>2 DEF Insert
    <3>3. CASE Commit(v) \/ SaveForensic(v)
      BY <3>3 DEF Commit, SaveForensic
    <3>4. CASE CommitLost(v)
      BY <3>4 DEF CommitLost, GiveUp
    <3> QED
      BY <1>2, <3>1, <3>2, <3>3, <3>4
  <2>2. UNCHANGED heard
    BY <1>2 DEF PickDoc, Insert, Commit, SaveForensic, CommitLost, GiveUp, outside
  <2> QED
    BY <2>1, <2>2, LeaderQuiet DEF LeaderIsTold
<1>3. ASSUME NEW v \in Workers, ObserverFails(v)
      PROVE  LeaderIsTold'
  <2>1. UNCHANGED heard /\ stage[v] > 0 /\ pc[v] = "emit"
    BY <1>3 DEF ObserverFails
  <2>2. \A w \in Workers : pc'[w] = "emit" =>
          pc[w] = "emit" /\ doc'[w] = doc[w] /\ (stage'[w] > 0 => stage[w] > 0)
    BY <1>3, <2>1 DEF ObserverFails, ObserverDone
  <2> QED
    BY <2>1, <2>2, LeaderQuiet DEF LeaderIsTold
<1>4. ASSUME NEW v \in Workers, Emit(v)
      PROVE  LeaderIsTold'
  <2> SUFFICES ASSUME NEW w \in Workers, pc'[w] = "emit", Deduped(doc'[w]), stage'[w] > 0
               PROVE  heard'["webhook"][KeyInHand(w)'] = 1
    BY DEF LeaderIsTold
  <2>1. /\ pc[w] = "emit" /\ doc'[w] = doc[w] /\ KeyInHand(w)' = KeyInHand(w)
        /\ w # v => stage'[w] = stage[w]
    BY <1>4 DEF Emit, ObserverDone, KeyInHand
  <2>2. /\ doc[w] \in Docs /\ KeyInHand(w) \in Keys /\ KeyInHand(w) \in DedupKeys
        /\ doc[v] \in Docs /\ Parses(doc[v]) /\ KeyInHand(v) \in Keys
    <3>1. Parses(doc[w]) /\ Parses(doc[v]) /\ doc[w] \in Docs /\ doc[v] \in Docs
      BY <1>4, <2>1 DEF InHand, Emit
    <3> QED
      BY <1>4, <2>1, <3>1, KeyFacts, DedupFacts DEF KeyInHand, Emit
  <2>3. CASE ~Deduped(doc[v])
    <3>1. KeyInHand(v) # KeyInHand(w) /\ w # v
      BY <2>1, <2>2, <2>3, DedupFacts DEF KeyInHand
    <3>2. stage[w] > 0
      BY <2>1, <3>1
    <3>3. heard' = [heard EXCEPT ![Chain(doc[v])[stage[v] + 1]][KeyInHand(v)] = @ + 1]
      BY <1>4 DEF Emit
    <3>4. heard["webhook"][KeyInHand(w)] = 1
      BY <2>1, <3>2 DEF LeaderIsTold
    <3> QED
      BY <2>1, <2>2, <3>1, <3>3, <3>4 DEF OutsideType
  <2>4. CASE Deduped(doc[v])
    <3>1. "webhook" \in Observers
      BY DEF Observers
    <3>2. CASE heard["webhook"][KeyInHand(w)] = 1
      BY <1>4, <2>1, <2>2, <2>4, <3>1, <3>2, EmitEffect
    <3>3. CASE heard["webhook"][KeyInHand(w)] # 1
      <4>1. ~(stage[w] > 0)
        BY <2>1, <3>3 DEF LeaderIsTold
      <4>2. w = v /\ stage[v] = 0
        BY <2>1, <4>1
      <4>3. Chain(doc[v])[stage[v] + 1] = "webhook"
        BY <2>2, <4>2, LeaderFacts
      <4> QED
        BY <1>4, <2>1, <2>2, <2>4, <3>1, <4>2, <4>3, EmitEffect
    <3> QED
      BY <3>2, <3>3
  <2> QED
    BY <2>3, <2>4
<1>5. CASE UNCHANGED vars
  BY <1>1, <1>5 DEF vars, Quiet, db, worker, outside, KeyInHand
<1>6. ASSUME NEW w \in Workers,
             Saving(w) \/ StoreFails(w) \/ CommitLost(w) \/ ObserverFails(w)
      PROVE  LeaderIsTold'
  BY <1>1, <1>2, <1>3, <1>4, <1>6, QuietWorkers DEF Saving
<1>7. CASE Next
  BY <1>1, <1>6, <1>7, QuietPoller, QuietOthers
     DEF Next, PollerStep, HandlerStep, Failure, Workers
<1> QED
  BY <1>5, <1>7

-----------------------------------------------------------------------------
(* Each step is a step of the ledger.                                      *)

LEMMA LedgerStutters ==
  ASSUME UNCHANGED <<rows, heard, folder>>
  PROVE  UNCHANGED Ledger!lvars
  BY DEF Ledger!lvars

\* A commit, its answer lost or not, stores the report.
LEMMA CommitStores ==
  ASSUME IInv, NEW w \in Workers, Commit(w) \/ CommitLost(w), Deduped(doc[w])
  PROVE  \E k \in DedupKeys : Ledger!Store(k)
<1> USE DEF IInv, TypeOK, StoreType
<1>1. pc[w] = "open" /\ UNCHANGED <<folder, heard>>
      /\ rows' = [rows EXCEPT ![KeyInHand(w)] = @ + 1]
  BY DEF Commit, CommitLost, GiveUp, mailbox, outside
<1>2. rows[KeyInHand(w)] = 0 /\ KeyInHand(w) \in DedupKeys /\ KeyInHand(w) \in Keys
  BY <1>1, KeyFacts, DedupFacts DEF OpenHoldsClaim, InHand, KeyInHand
<1>3. PICK k \in DedupKeys : k = KeyInHand(w)
  BY <1>2
<1>4. DedupKeys \subseteq Keys
  BY ContentAssumption DEF DedupKeys, Parses
<1>5. \A l \in DedupKeys : rows'[l] = IF l = k THEN 1 ELSE rows[l]
  BY <1>1, <1>2, <1>3, <1>4
<1>6. [l \in DedupKeys |-> rows[l]]' = [[l \in DedupKeys |-> rows[l]] EXCEPT ![k] = 1]
  BY <1>5
<1>7. Ledger!Store(k)
  BY <1>1, <1>2, <1>3, <1>6 DEF Ledger!Store
<1> QED
  BY <1>7

\* Forensic reports are not in the ledger.
LEMMA ForensicStutters ==
  ASSUME IInv, NEW w \in Workers, ~Deduped(doc[w]),
         SaveForensic(w) \/ CommitLost(w) \/ Emit(w)
  PROVE  UNCHANGED Ledger!lvars
<1> USE DEF IInv, TypeOK, StoreType, OutsideType
<1>1. pc[w] \in {"insert", "open", "emit"} /\ folder' = folder
  BY DEF SaveForensic, CommitLost, Emit, ObserverDone, mailbox
<1>2. KeyInHand(w) \in Keys /\ KeyInHand(w) \notin DedupKeys
  BY <1>1, KeyFacts, DedupFacts DEF InHand, KeyInHand
<1>3. CASE SaveForensic(w) \/ CommitLost(w)
  <2>1. heard' = heard /\ rows' = [rows EXCEPT ![KeyInHand(w)] = @ + 1]
    BY <1>3 DEF SaveForensic, CommitLost, GiveUp, outside
  <2>2. \A k \in DedupKeys : rows'[k] = rows[k]
    BY <1>2, <2>1
  <2> QED
    BY <1>1, <2>1, <2>2 DEF Ledger!lvars
<1>4. CASE Emit(w)
  <2>1. rows' = rows /\ \E o : heard' = [heard EXCEPT ![o][KeyInHand(w)] = @ + 1]
    BY <1>4 DEF Emit, ObserverDone, db
  <2>2. \A p \in Observers : \A k \in DedupKeys : heard'[p][k] = heard[p][k]
    BY <1>2, <2>1
  <2> QED
    BY <1>1, <2>1, <2>2 DEF Ledger!lvars
<1> QED
  BY <1>3, <1>4

\* An observer that handles a new report is told of it, after the webhook.
LEMMA EmitTells ==
  ASSUME IInv, LeaderIsTold, NEW w \in Workers, Emit(w), Deduped(doc[w])
  PROVE  \E o \in Observers, k \in DedupKeys : Ledger!Tell(o, k)
<1>1. PICK o \in Observers, k \in DedupKeys :
        o = Chain(doc[w])[stage[w] + 1] /\ k = KeyInHand(w)
  BY EmitEffect
<1>2. /\ doc[w] \in Docs /\ k \in Keys
      /\ rows[k] = 1 /\ heard[o][k] = 0
      /\ \A p \in Observers : \A l \in Keys :
           heard'[p][l] = IF p = o /\ l = k THEN 1 ELSE heard[p][l]
  BY <1>1, EmitEffect
<1>3. UNCHANGED <<rows, folder>> /\ pc[w] = "emit" /\ stage[w] \in 0..4
  BY DEF Emit, ObserverDone, db, mailbox, IInv, TypeOK, WorkerType
<1>4. o # "webhook" => heard["webhook"][k] = 1
  <2>1. stage[w] = 0 => o = "webhook"
    BY <1>1, <1>2, LeaderFacts
  <2> QED
    BY <1>1, <1>3, <2>1 DEF LeaderIsTold
<1>5. DedupKeys \subseteq Keys /\ "webhook" \in Observers
  BY ContentAssumption DEF DedupKeys, Parses, Observers
<1>6. [p \in Observers |-> [l \in DedupKeys |-> heard[p][l]]]' =
        [[p \in Observers |-> [l \in DedupKeys |-> heard[p][l]]] EXCEPT ![o][k] = 1]
  <2>1. \A p \in Observers : [l \in DedupKeys |-> heard'[p][l]] =
          IF p = o THEN [[l \in DedupKeys |-> heard[p][l]] EXCEPT ![k] = 1]
                   ELSE [l \in DedupKeys |-> heard[p][l]]
    BY <1>2, <1>5
  <2> QED
    BY <2>1
<1>7. Ledger!Tell(o, k)
  BY <1>2, <1>3, <1>4, <1>5, <1>6 DEF Ledger!Tell
<1> QED
  BY <1>7

\* What the ledger is told that a mail carries, and has stored.
Carried == [m \in Mails |-> {KeyOf[d] : d \in {e \in Content[m] : Parses(e) /\ Deduped(e)}}]
StoredRows == [k \in DedupKeys |-> rows[k]]

LEMMA FitsCarries ==
  ASSUME IInv, NEW m \in Mails, NEW f \in Filed, Fits(m, f)
  PROVE  IF f = "Processed" THEN \A k \in Carried[m] : StoredRows[k] = 1
                            ELSE Carried[m] = {}
<1>1. Content[m] \subseteq Docs
  BY ContentAssumption
<1>2. Carried[m] = {KeyOf[d] : d \in {e \in Content[m] : Parses(e) /\ Deduped(e)}}
  BY DEF Carried
<1>3. CASE f = "Processed"
  <2>1. ASSUME NEW d \in Content[m], Parses(d), Deduped(d)
        PROVE  StoredRows[KeyOf[d]] = 1
    <3>1. KeyOf[d] \in DedupKeys /\ KeyOf[d] \in Keys /\ rows[KeyOf[d]] > 0
      BY <1>1, <1>3, <2>1, DedupFacts, ContentAssumption DEF Fits, Parses
    <3>2. rows[KeyOf[d]] = 1
      BY <3>1 DEF IInv, AnnouncedOnce, TypeOK, StoreType
    <3> QED
      BY <3>1, <3>2 DEF StoredRows
  <2> QED
    BY <1>2, <1>3, <2>1
<1>4. CASE f # "Processed"
  BY <1>2, <1>4 DEF Fits, Filed
<1> QED
  BY <1>3, <1>4

\* The poller files the mails of a move that are still in the INBOX.
LEMMA MovesFile ==
  ASSUME IInv, NEW f \in Filed, NEW S \in SUBSET moves[f], MoveMails(S, "INBOX", f),
         UNCHANGED <<rows, heard>>
  PROVE  \E T \in SUBSET Mails, to \in {"Processed", "Ignored", "Failed"} : Ledger!File(T, to)
<1>1. PICK T \in SUBSET Mails :
        T = {m \in S : folder[m] = "INBOX"} /\ \A m \in T : m \in moves[f] /\ m \in Mails
  BY DEF IInv, TypeOK, CycleType
<1>2. \A m \in T : Fits(m, f)
  BY <1>1 DEF IInv, MovesAreRight
<1>3. folder' = [m \in Mails |-> IF m \in T THEN f ELSE folder[m]]
  BY <1>1 DEF MoveMails
<1>4. \A m \in T : folder[m] = "INBOX"
  BY <1>1
<1>5. \A m \in T : IF f = "Processed" THEN \A k \in Carried[m] : StoredRows[k] = 1
                                      ELSE Carried[m] = {}
  BY <1>1, <1>2, FitsCarries
<1>6. Ledger!Relocate(T, f) /\ UNCHANGED <<rows, heard>>
  BY <1>3 DEF Ledger!Relocate
<1>7. Ledger!File(T, f)
  BY <1>4, <1>5, <1>6 DEF Ledger!File, Carried, StoredRows
<1> QED
  BY <1>1, <1>7 DEF Filed

LEMMA RequeueReturns ==
  ASSUME NEW S \in SUBSET Mails, MoveMails(S, "Failed", "INBOX"), UNCHANGED <<rows, heard>>
  PROVE  \E T \in SUBSET Mails : Ledger!Return(T)
<1>1. PICK T \in SUBSET Mails : T = {m \in S : folder[m] = "Failed"}
  OBVIOUS
<1>2. Ledger!Return(T)
  BY <1>1 DEF MoveMails, Ledger!Return, Ledger!Relocate
<1> QED
  BY <1>2

LEMMA SavingIsLedgerStep ==
  ASSUME IInv, LeaderIsTold, NEW w \in Workers,
         Saving(w) \/ StoreFails(w) \/ CommitLost(w) \/ ObserverFails(w)
  PROVE  [Ledger!Next]_(Ledger!lvars)
<1>1. CASE \/ \E d \in Docs : PickDoc(w, d)
           \/ Duplicate(w) \/ Insert(w) \/ StoreFails(w) \/ ObserverFails(w)
  <2>1. UNCHANGED <<rows, heard, folder>>
    BY <1>1 DEF PickDoc, Duplicate, Insert, StoreFails, GiveUp, ObserverFails, ObserverDone,
       mailbox, db, outside
  <2> QED
    BY <2>1, LedgerStutters
<1>2. CASE Commit(w)
  <2>1. Deduped(doc[w])
    BY <1>2 DEF Commit, IInv, OpenHoldsClaim
  <2> QED
    BY <1>2, <2>1, CommitStores DEF Ledger!Next
<1>3. CASE CommitLost(w)
  BY <1>3, CommitStores, ForensicStutters DEF Ledger!Next
<1>4. CASE SaveForensic(w)
  BY <1>4, ForensicStutters DEF SaveForensic
<1>5. CASE Emit(w)
  BY <1>5, EmitTells, ForensicStutters DEF Ledger!Next
<1> QED
  BY <1>1, <1>2, <1>3, <1>4, <1>5 DEF Saving

LEMMA MailIsLedgerStep ==
  ASSUME IInv, UNCHANGED <<rows, heard>>, [Next]_vars
  PROVE  [Ledger!Next]_(Ledger!lvars)
<1>1. CASE folder' = folder
  BY <1>1, LedgerStutters
<1>2. ASSUME NEW m \in Mails, Deliver(m)
      PROVE  Ledger!Next
  <2>1. Ledger!Arrive(m)
    BY <1>2 DEF Deliver, Ledger!Arrive
  <2> QED
    BY <2>1 DEF Ledger!Next
<1>3. ASSUME NEW f \in Filed, MoveFolder(f) \/ MoveFails(f)
      PROVE  Ledger!Next
  <2>1. PICK S \in SUBSET moves[f] : MoveMails(S, "INBOX", f)
    BY <1>3 DEF MoveFolder, MoveFails
  <2> QED
    BY <2>1, MovesFile DEF Ledger!Next
<1>4. CASE RequeueMove \/ RequeueFails
  <2>1. CASE folder' = folder
    BY <1>1, <2>1
  <2>2. CASE folder' # folder
    <3>1. rqSet \subseteq Mails
      BY DEF IInv, TypeOK, RequeueType
    <3>2. PICK S \in SUBSET Mails : MoveMails(S, "Failed", "INBOX")
      BY <1>4, <2>2, <3>1 DEF RequeueMove, RequeueFails
    <3> QED
      BY <3>2, RequeueReturns DEF Ledger!Next
  <2> QED
    BY <2>1, <2>2
<1>5. ASSUME \/ MailKeptAsIs
             \/ \E m \in Mails : OpenFailedMail(m) \/ TakeUnreadable(m) \/ TakePlain(m)
             \/ FinishMail \/ RequeueSearch \/ RequeueUnsee \/ Crash
      PROVE  folder' = folder
  BY <1>5 DEF MailKeptAsIs, OpenFailedMail, TakeUnreadable, TakePlain, FinishMail,
     RequeueSearch, RequeueUnsee, Crash, mailbox
<1> QED
  BY <1>1, <1>2, <1>3, <1>4, <1>5, MailSteps

LEMMA IngestIsLedgerStep ==
  ASSUME IInv, LeaderIsTold, [Next]_vars
  PROVE  [Ledger!Next]_(Ledger!lvars)
<1>1. CASE \E w \in Workers : Saving(w) \/ StoreFails(w) \/ CommitLost(w) \/ ObserverFails(w)
  BY <1>1, SavingIsLedgerStep
<1>2. ASSUME Quiet
      PROVE  [Ledger!Next]_(Ledger!lvars)
  BY <1>2, MailIsLedgerStep DEF Quiet
<1>3. CASE UNCHANGED vars
  BY <1>3, LedgerStutters DEF vars, db, outside, mailbox
<1>4. CASE Next
  BY <1>1, <1>2, <1>4, QuietPoller, QuietOthers
     DEF Next, PollerStep, HandlerStep, Failure, Workers
<1> QED
  BY <1>3, <1>4

\* The ingest path implements the report ledger: whatever the poller, the
\* uploads, the requeues, the failures and the crashes do, what the rest of the
\* system sees is reports stored once, announced once and to the webhook first,
\* and mails filed by what of them is stored.
THEOREM IngestImplementsLedger == Spec => ImplementsLedger
<1>1. Init => Ledger!Init
  <2> SUFFICES ASSUME Init PROVE Ledger!Init
    OBVIOUS
  <2>1. \A k \in DedupKeys : k \in Keys
    BY ContentAssumption DEF DedupKeys, Parses
  <2>2. \A o \in Observers : [k \in DedupKeys |-> heard[o][k]] = [k \in DedupKeys |-> 0]
    BY <2>1 DEF Init
  <2> QED
    BY <2>1, <2>2 DEF Init, Ledger!Init
<1>2. Init => LeaderIsTold
  BY DEF Init, LeaderIsTold
<1>3. IInv /\ LeaderIsTold /\ [Next]_vars => LeaderIsTold'
  BY StepLeader
<1>4. IInv /\ LeaderIsTold /\ [Next]_vars => [Ledger!Next]_(Ledger!lvars)
  BY IngestIsLedgerStep
<1> QED
  BY <1>1, <1>2, <1>3, <1>4, Invariance, PTL DEF Spec, ImplementsLedger, Ledger!Spec

=============================================================================
