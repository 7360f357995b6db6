---------------------------- MODULE IngestProofs ----------------------------
(***************************************************************************)
(* Proofs about Ingest, for every set of mails, uploads and documents and  *)
(* every number of failures, crashes and requeues.                         *)
(***************************************************************************)
EXTENDS Ingest, TLAPS

\* The chain of a document names distinct observers.
LEMMA ChainFacts ==
  ASSUME NEW d \in Docs
  PROVE  /\ Len(Chain(d)) \in 1..4
         /\ \A i \in 1..Len(Chain(d)) : Chain(d)[i] \in Observers
         /\ \A i, j \in 1..Len(Chain(d)) : Chain(d)[i] = Chain(d)[j] => i = j
  BY DEF Chain, Observers

\* A worker that saves or announces has a key in hand.
LEMMA KeyFacts ==
  ASSUME TypeOK, InHand, NEW w \in Workers, pc[w] \in {"insert", "open", "emit"}
  PROVE  doc[w] \in Docs /\ KeyInHand(w) \in Keys
  BY ContentAssumption DEF InHand, Parses, KeyInHand

-----------------------------------------------------------------------------
(* Type correctness.                                                       *)

LEMMA InitType == Init => TypeOK
<1> SUFFICES ASSUME Init PROVE TypeOK
  OBVIOUS
<1>1. MailboxType /\ StoreType
  BY DEF Init, MailboxType, StoreType
<1>2. WorkerType
  BY DEF Init, WorkerType, Labels
<1>3. CycleType
  BY DEF Init, CycleType
<1>4. OutsideType
  BY DEF Init, OutsideType, Replies
<1>5. RequeueType /\ BoundsType
  BY BoundsAssumption DEF Init, RequeueType, BoundsType
<1> QED
  BY <1>1, <1>2, <1>3, <1>4, <1>5 DEF TypeOK

\* What a step leaves alone keeps its type.
LEMMA Frame ==
  ASSUME TypeOK
  PROVE  /\ UNCHANGED mailbox => MailboxType'
         /\ UNCHANGED db => StoreType'
         /\ UNCHANGED worker => WorkerType'
         /\ UNCHANGED cycle => CycleType'
         /\ UNCHANGED requeue => RequeueType'
         /\ UNCHANGED outside => OutsideType'
         /\ UNCHANGED <<faults, crashes>> => BoundsType'
<1>1. UNCHANGED mailbox => MailboxType'
  BY DEF TypeOK, mailbox, MailboxType
<1>2. UNCHANGED db => StoreType'
  BY DEF TypeOK, db, StoreType
<1>3. UNCHANGED worker => WorkerType'
  BY DEF TypeOK, worker, WorkerType
<1>4. UNCHANGED cycle => CycleType'
  BY DEF TypeOK, cycle, CycleType
<1>5. UNCHANGED requeue => RequeueType'
  BY DEF TypeOK, requeue, RequeueType
<1>6. UNCHANGED outside => OutsideType'
  BY DEF TypeOK, outside, OutsideType
<1>7. UNCHANGED <<faults, crashes>> => BoundsType'
  BY DEF TypeOK, BoundsType
<1> QED
  BY <1>1, <1>2, <1>3, <1>4, <1>5, <1>6, <1>7

LEMMA MoveType ==
  ASSUME TypeOK, NEW S \in SUBSET Mails, NEW f \in Folders, NEW t \in Folders,
         MoveMails(S, f, t), UNCHANGED <<seen, opened>>
  PROVE  MailboxType'
  BY DEF TypeOK, MailboxType, MoveMails

LEMMA FaultType == TypeOK /\ Fault /\ UNCHANGED crashes => BoundsType'
  BY BoundsAssumption DEF TypeOK, BoundsType, Fault

LEMMA GiveUpType ==
  ASSUME TypeOK, NEW w \in Workers, GiveUp(w)
  PROVE  WorkerType' /\ CycleType' /\ OutsideType'
<1>1. WorkerType'
  BY DEF TypeOK, WorkerType, GiveUp, Labels
<1>2. CycleType'
  BY DEF TypeOK, CycleType, GiveUp
<1>3. OutsideType'
  BY DEF TypeOK, OutsideType, GiveUp, Replies
<1> QED
  BY <1>1, <1>2, <1>3

LEMMA SavingType ==
  ASSUME TypeOK, InHand, EmitIsFirst, NEW w \in Workers,
         Saving(w) \/ StoreFails(w) \/ CommitLost(w) \/ ObserverFails(w)
  PROVE  TypeOK'
<1>1. ASSUME NEW d \in Docs, PickDoc(w, d)
      PROVE  TypeOK'
  <2>1. WorkerType'
    BY <1>1 DEF PickDoc, TypeOK, WorkerType, Labels
  <2> QED
    BY <1>1, <2>1, Frame DEF PickDoc, TypeOK
<1>2. CASE Duplicate(w)
  <2>1. WorkerType'
    BY <1>2 DEF Duplicate, TypeOK, WorkerType, Labels
  <2> QED
    BY <1>2, <2>1, Frame DEF Duplicate, TypeOK
<1>3. CASE Insert(w)
  <2>1. WorkerType'
    BY <1>3 DEF Insert, TypeOK, WorkerType, Labels
  <2>2. StoreType'
    BY <1>3, KeyFacts DEF Insert, TypeOK, StoreType
  <2> QED
    BY <1>3, <2>1, <2>2, Frame DEF Insert, TypeOK
<1>4. CASE Commit(w)
  <2>1. WorkerType'
    BY <1>4 DEF Commit, TypeOK, WorkerType, Labels
  <2>2. StoreType'
    BY <1>4, KeyFacts DEF Commit, TypeOK, StoreType
  <2> QED
    BY <1>4, <2>1, <2>2, Frame DEF Commit, TypeOK
<1>5. CASE SaveForensic(w)
  <2>1. WorkerType'
    BY <1>5 DEF SaveForensic, TypeOK, WorkerType, Labels
  <2>2. StoreType'
    BY <1>5, KeyFacts DEF SaveForensic, TypeOK, StoreType
  <2> QED
    BY <1>5, <2>1, <2>2, Frame DEF SaveForensic, TypeOK
<1>6. ASSUME ObserverDone(w), pc[w] = "emit", OutsideType', BoundsType'
      PROVE  TypeOK'
  <2>1. stage[w] + 1 \in 0..4
    BY <1>6, ChainFacts, KeyFacts DEF EmitIsFirst, TypeOK, WorkerType
  <2>2. WorkerType'
    BY <1>6, <2>1 DEF ObserverDone, TypeOK, WorkerType, Labels
  <2> QED
    BY <1>6, <2>2, Frame DEF ObserverDone, TypeOK
<1>7. CASE StoreFails(w)
  <2>1. StoreType'
    BY <1>7 DEF StoreFails, TypeOK, StoreType
  <2> QED
    BY <1>7, <2>1, Frame, FaultType, GiveUpType DEF StoreFails, TypeOK
<1>8. CASE CommitLost(w)
  <2>1. StoreType'
    BY <1>8, KeyFacts DEF CommitLost, TypeOK, StoreType
  <2>2. BoundsType'
    BY <1>8, BoundsAssumption DEF CommitLost, TypeOK, BoundsType
  <2> QED
    BY <1>8, <2>1, <2>2, Frame, GiveUpType DEF CommitLost, TypeOK
<1>9. CASE Emit(w)
  <2>1. /\ Chain(doc[w])[stage[w] + 1] \in Observers
        /\ KeyInHand(w) \in Keys
    BY <1>9, ChainFacts, KeyFacts DEF Emit, EmitIsFirst, TypeOK, WorkerType
  <2>2. OutsideType'
    BY <1>9, <2>1 DEF Emit, ObserverDone, TypeOK, OutsideType
  <2>3. BoundsType'
    BY <1>9 DEF Emit, ObserverDone, TypeOK, BoundsType
  <2> QED
    BY <1>6, <1>9, <2>2, <2>3 DEF Emit
<1>10. CASE ObserverFails(w)
  <2>1. OutsideType'
    BY <1>10 DEF ObserverFails, ObserverDone, TypeOK, OutsideType
  <2>2. BoundsType'
    BY <1>10, FaultType DEF ObserverFails, ObserverDone
  <2> QED
    BY <1>6, <1>10, <2>1, <2>2 DEF ObserverFails
<1> QED
  BY <1>1, <1>2, <1>3, <1>4, <1>5, <1>7, <1>8, <1>9, <1>10 DEF Saving

LEMMA PollerType ==
  ASSUME TypeOK, MailInHand,
         \/ StartCycle \/ StartFails \/ FinishMail \/ EndCycle
         \/ \E m \in Mails : TakeUnreadable(m) \/ TakePlain(m) \/ TakeReport(m)
         \/ \E d \in Docs : SkipBad(d)
         \/ \E f \in Filed : MoveFolder(f) \/ MoveFails(f)
  PROVE  TypeOK'
<1> USE DEF TypeOK
<1>1. CASE StartCycle
  <2>1. WorkerType'
    BY <1>1 DEF StartCycle, WorkerType, Labels
  <2>2. CycleType'
    BY <1>1 DEF StartCycle, CycleType, Wanted
  <2> QED
    BY <1>1, <2>1, <2>2, Frame DEF StartCycle
<1>2. CASE StartFails
  <2>1. CycleType'
    BY <1>2 DEF StartFails, CycleType
  <2> QED
    BY <1>2, <2>1, Frame, FaultType DEF StartFails
<1>3. CASE FinishMail
  <2>1. WorkerType'
    BY <1>3 DEF FinishMail, WorkerType, Labels
  <2>2. cur \in Mails
    BY <1>3 DEF FinishMail, MailInHand, CycleType
  <2>3. CycleType'
    BY <1>3, <2>2 DEF FinishMail, CycleType, Outcome, Filed
  <2>4. OutsideType'
    BY <1>3, <2>2 DEF FinishMail, OutsideType
  <2> QED
    BY <1>3, <2>1, <2>3, <2>4, Frame DEF FinishMail
<1>4. CASE EndCycle
  <2>1. WorkerType'
    BY <1>4 DEF EndCycle, WorkerType, Labels
  <2> QED
    BY <1>4, <2>1, Frame DEF EndCycle
<1>5. ASSUME NEW m \in Mails, TakeUnreadable(m)
      PROVE  TypeOK'
  <2>1. CycleType'
    BY <1>5 DEF TakeUnreadable, CycleType
  <2>2. OutsideType'
    BY <1>5 DEF TakeUnreadable, OutsideType
  <2> QED
    BY <1>5, <2>1, <2>2, Frame DEF TakeUnreadable
<1>6. ASSUME NEW m \in Mails, TakePlain(m)
      PROVE  TypeOK'
  <2>1. CycleType'
    BY <1>6 DEF TakePlain, CycleType
  <2> QED
    BY <1>6, <2>1, Frame DEF TakePlain
<1>7. ASSUME NEW m \in Mails, TakeReport(m)
      PROVE  TypeOK'
  <2>1. CycleType'
    BY <1>7 DEF TakeReport, CycleType
  <2>2. WorkerType'
    BY <1>7, ContentAssumption DEF TakeReport, WorkerType, Labels
  <2> QED
    BY <1>7, <2>1, <2>2, Frame DEF TakeReport
<1>8. ASSUME NEW d \in Docs, SkipBad(d)
      PROVE  TypeOK'
  <2>1. WorkerType'
    BY <1>8 DEF SkipBad, WorkerType
  <2> QED
    BY <1>8, <2>1, Frame DEF SkipBad
<1>9. ASSUME NEW f \in Filed, MoveFolder(f)
      PROVE  TypeOK'
  <2>1. MailboxType'
    BY <1>9, MoveType DEF MoveFolder, CycleType, Folders, Filed
  <2>2. CycleType'
    BY <1>9 DEF MoveFolder, CycleType
  <2> QED
    BY <1>9, <2>1, <2>2, Frame DEF MoveFolder
<1>10. ASSUME NEW f \in Filed, MoveFails(f)
       PROVE  TypeOK'
  <2>1. PICK S \in SUBSET moves[f] : MoveMails(S, "INBOX", f)
    BY <1>10 DEF MoveFails
  <2>2. MailboxType'
    BY <1>10, <2>1, MoveType DEF MoveFails, CycleType, Folders, Filed
  <2>3. CycleType'
    BY <1>10 DEF MoveFails, CycleType
  <2>4. WorkerType'
    BY <1>10 DEF MoveFails, WorkerType, Labels
  <2> QED
    BY <1>10, <2>2, <2>3, <2>4, Frame, FaultType DEF MoveFails
<1> QED
  BY <1>1, <1>2, <1>3, <1>4, <1>5, <1>6, <1>7, <1>8, <1>9, <1>10

LEMMA OtherType ==
  ASSUME TypeOK,
         \/ Environment \/ RequeueFails \/ Crash
         \/ \E u \in Uploads : \/ RefuseBody(u) \/ FinishUpload(u)
                               \/ \E d \in Docs : RefuseBad(u, d)
  PROVE  TypeOK'
<1> USE DEF TypeOK
<1>1. ASSUME NEW m \in Mails, Deliver(m) \/ OpenFailedMail(m)
      PROVE  TypeOK'
  <2>1. MailboxType'
    BY <1>1 DEF Deliver, OpenFailedMail, MailboxType, Folders
  <2> QED
    BY <1>1, <2>1, Frame DEF Deliver, OpenFailedMail
<1>2. ASSUME NEW u \in Uploads, Receive(u)
      PROVE  TypeOK'
  <2>1. WorkerType'
    BY <1>2, ContentAssumption DEF Receive, WorkerType, Labels
  <2> QED
    BY <1>2, <2>1, Frame DEF Receive
<1>3. ASSUME NEW u \in Uploads, NEW status \in Replies, Answer(u, status)
      PROVE  TypeOK'
  <2>1. WorkerType'
    BY <1>3 DEF Answer, WorkerType, Labels
  <2>2. OutsideType'
    BY <1>3 DEF Answer, OutsideType
  <2> QED
    BY <1>3, <2>1, <2>2, Frame DEF Answer
<1>4. ASSUME NEW u \in Uploads,
             RefuseBody(u) \/ FinishUpload(u) \/ \E d \in Docs : RefuseBad(u, d)
      PROVE  TypeOK'
  <2>1. "200" \in Replies /\ "201" \in Replies /\ "400" \in Replies
    BY DEF Replies
  <2> QED
    BY <1>3, <1>4, <2>1 DEF RefuseBody, FinishUpload, RefuseBad
<1>5. CASE TriggerPoll
  <2>1. CycleType'
    BY <1>5 DEF TriggerPoll, CycleType
  <2> QED
    BY <1>5, <2>1, Frame DEF TriggerPoll
<1>6. CASE RequeueSearch
  <2>1. RequeueType'
    BY <1>6, BoundsAssumption DEF RequeueSearch, RequeueType
  <2> QED
    BY <1>6, <2>1, Frame DEF RequeueSearch
<1>7. CASE RequeueUnsee
  <2>1. RequeueType'
    BY <1>7 DEF RequeueUnsee, RequeueType
  <2>2. MailboxType'
    BY <1>7 DEF RequeueUnsee, MailboxType
  <2> QED
    BY <1>7, <2>1, <2>2, Frame DEF RequeueUnsee
<1>8. CASE RequeueMove
  <2>1. MailboxType'
    BY <1>8, MoveType DEF RequeueMove, RequeueType, Folders
  <2>2. RequeueType' /\ CycleType'
    BY <1>8 DEF RequeueMove, RequeueType, CycleType
  <2> QED
    BY <1>8, <2>1, <2>2, Frame DEF RequeueMove
<1>9. CASE RequeueFails
  <2>1. PICK S \in SUBSET rqSet :
          \/ /\ rqAt = "unsee" /\ seen' = seen \ S /\ opened' = opened \ S
             /\ UNCHANGED <<folder, landed>>
          \/ rqAt = "move" /\ MoveMails(S, "Failed", "INBOX") /\ UNCHANGED <<seen, opened>>
    BY <1>9 DEF RequeueFails
  <2>2. MailboxType'
    <3>1. CASE seen' = seen \ S /\ opened' = opened \ S /\ UNCHANGED <<folder, landed>>
      BY <3>1 DEF MailboxType
    <3>2. CASE MoveMails(S, "Failed", "INBOX") /\ UNCHANGED <<seen, opened>>
      BY <3>2, MoveType DEF RequeueType, Folders
    <3> QED
      BY <2>1, <3>1, <3>2
  <2>3. RequeueType'
    BY <1>9 DEF RequeueFails, RequeueType
  <2> QED
    BY <1>9, <2>2, <2>3, Frame, FaultType DEF RequeueFails
<1>10. CASE Crash
  <2>1. WorkerType'
    BY <1>10 DEF Crash, WorkerType, Labels
  <2>2. StoreType'
    BY <1>10 DEF Crash, StoreType
  <2>3. CycleType'
    BY <1>10 DEF Crash, CycleType
  <2>4. RequeueType'
    BY <1>10 DEF Crash, RequeueType
  <2>5. OutsideType'
    BY <1>10 DEF Crash, OutsideType, Replies
  <2>6. BoundsType'
    BY <1>10, BoundsAssumption DEF Crash, BoundsType
  <2> QED
    BY <1>10, <2>1, <2>2, <2>3, <2>4, <2>5, <2>6, Frame DEF Crash
<1> QED
  BY <1>1, <1>2, <1>4, <1>5, <1>6, <1>7, <1>8, <1>9, <1>10 DEF Environment

LEMMA StepType ==
  ASSUME IInv, [Next]_vars
  PROVE  TypeOK'
<1>1. CASE Next
  BY <1>1, SavingType, PollerType, OtherType
     DEF IInv, Next, PollerStep, HandlerStep, Failure, Workers
<1>2. CASE UNCHANGED vars
  BY <1>2, Frame DEF IInv, TypeOK, vars
<1> QED
  BY <1>1, <1>2

-----------------------------------------------------------------------------
(* Every report is stored once and announced once.                         *)

SaveInv == AnnouncedOnce /\ InHand /\ OpenHoldsClaim /\ EmitIsFirst /\ EmitIsAlone

\* A step that stores and announces nothing and lets no worker begin to.
Quiet ==
  /\ UNCHANGED <<rows, heard>>
  /\ \A w \in Workers : pc'[w] \in {"insert", "open", "emit"} =>
       pc'[w] = pc[w] /\ doc'[w] = doc[w] /\ stage'[w] = stage[w]
  /\ \A w \in Workers : pc'[w] = "open" =>
       claim'[KeyInHand(w)] = claim[KeyInHand(w)]

LEMMA QuietSaves ==
  ASSUME SaveInv, Quiet
  PROVE  SaveInv'
<1> USE DEF SaveInv, Quiet
<1>1. AnnouncedOnce'
  BY DEF AnnouncedOnce
<1>2. InHand'
  BY DEF InHand
<1>3. OpenHoldsClaim'
  BY DEF OpenHoldsClaim, KeyInHand
<1>4. EmitIsFirst'
  BY DEF EmitIsFirst, KeyInHand
<1>5. EmitIsAlone'
  BY DEF EmitIsAlone, KeyInHand
<1> QED
  BY <1>1, <1>2, <1>3, <1>4, <1>5

LEMMA QuietWorkers ==
  ASSUME IInv, NEW w \in Workers, Duplicate(w) \/ StoreFails(w)
  PROVE  Quiet
<1>1. CASE Duplicate(w)
  BY <1>1 DEF Duplicate, Quiet, IInv, TypeOK, WorkerType, db, outside, KeyInHand
<1>2. CASE StoreFails(w)
  <2>1. \A v \in Workers : pc'[v] \in {"insert", "open", "emit"} =>
          v # w /\ pc'[v] = pc[v] /\ doc'[v] = doc[v] /\ stage'[v] = stage[v]
    BY <1>2 DEF StoreFails, GiveUp, IInv, TypeOK, WorkerType
  <2>2. ASSUME NEW v \in Workers, pc'[v] = "open"
        PROVE  claim'[KeyInHand(v)] = claim[KeyInHand(v)]
    <3>1. claim[KeyInHand(v)] = v /\ v # w /\ KeyInHand(v) \in Keys
      BY <2>1, <2>2, KeyFacts DEF IInv, OpenHoldsClaim
    <3> QED
      BY <1>2, <3>1 DEF StoreFails
  <2> QED
    BY <1>2, <2>1, <2>2 DEF Quiet, StoreFails, GiveUp
<1> QED
  BY <1>1, <1>2

LEMMA QuietPoller ==
  ASSUME IInv,
         \/ StartCycle \/ StartFails \/ FinishMail \/ EndCycle
         \/ \E m \in Mails : TakeUnreadable(m) \/ TakePlain(m) \/ TakeReport(m)
         \/ \E d \in Docs : SkipBad(d)
         \/ \E f \in Filed : MoveFolder(f) \/ MoveFails(f)
  PROVE  Quiet
<1> USE DEF Quiet, IInv, TypeOK, WorkerType, KeyInHand, db, worker, outside
<1>1. CASE StartCycle \/ StartFails
  BY <1>1 DEF StartCycle, StartFails
<1>2. CASE FinishMail \/ EndCycle
  BY <1>2 DEF FinishMail, EndCycle
<1>3. ASSUME NEW m \in Mails, TakeUnreadable(m) \/ TakePlain(m) \/ TakeReport(m)
      PROVE  Quiet
  BY <1>3 DEF TakeUnreadable, TakePlain, TakeReport
<1>4. ASSUME NEW d \in Docs, SkipBad(d)
      PROVE  Quiet
  BY <1>4 DEF SkipBad
<1>5. ASSUME NEW f \in Filed, MoveFolder(f) \/ MoveFails(f)
      PROVE  Quiet
  BY <1>5 DEF MoveFolder, MoveFails
<1> QED
  BY <1>1, <1>2, <1>3, <1>4, <1>5

LEMMA QuietOthers ==
  ASSUME IInv,
         \/ Environment \/ RequeueFails \/ Crash
         \/ \E u \in Uploads : \/ RefuseBody(u) \/ FinishUpload(u)
                               \/ \E d \in Docs : RefuseBad(u, d)
  PROVE  Quiet
<1> USE DEF Quiet, IInv, TypeOK, WorkerType, KeyInHand, db, worker, outside
<1>1. ASSUME NEW m \in Mails, Deliver(m) \/ OpenFailedMail(m)
      PROVE  Quiet
  BY <1>1 DEF Deliver, OpenFailedMail
<1>2. ASSUME NEW u \in Uploads, Receive(u)
      PROVE  Quiet
  BY <1>2 DEF Receive
<1>3. ASSUME NEW u \in Uploads, NEW status, Answer(u, status)
      PROVE  Quiet
  BY <1>3 DEF Answer
<1>4. CASE TriggerPoll \/ RequeueSearch \/ RequeueUnsee \/ RequeueMove
  BY <1>4 DEF TriggerPoll, RequeueSearch, RequeueUnsee, RequeueMove
<1>5. CASE RequeueFails
  BY <1>5 DEF RequeueFails
<1>6. CASE Crash
  BY <1>6 DEF Crash
<1> QED
  BY <1>1, <1>2, <1>3, <1>4, <1>5, <1>6 DEF Environment, RefuseBody, FinishUpload, RefuseBad

\* Documents of one identity agree on having a unique index.
LEMMA DedupFacts ==
  ASSUME NEW d \in Docs, Parses(d)
  PROVE  Deduped(d) <=> KeyOf[d] \in DedupKeys
  BY KindAssumption DEF DedupKeys, Deduped, Parses

LEMMA PickSaves ==
  ASSUME IInv, NEW w \in Workers, NEW d \in Docs, PickDoc(w, d)
  PROVE  SaveInv'
<1> USE DEF IInv, TypeOK, WorkerType, PickDoc, db, outside, KeyInHand
<1>1. AnnouncedOnce'
  BY DEF AnnouncedOnce
<1>2. InHand'
  BY DEF InHand
<1>3. OpenHoldsClaim'
  BY DEF OpenHoldsClaim
<1>4. EmitIsFirst'
  BY DEF EmitIsFirst
<1>5. EmitIsAlone'
  BY DEF EmitIsAlone
<1> QED
  BY <1>1, <1>2, <1>3, <1>4, <1>5 DEF SaveInv

LEMMA InsertSaves ==
  ASSUME IInv, NEW w \in Workers, Insert(w)
  PROVE  SaveInv'
<1> USE DEF IInv, TypeOK, WorkerType, StoreType, Insert, CanInsert, outside
<1>1. AnnouncedOnce'
  BY DEF AnnouncedOnce
<1>2. InHand'
  BY DEF InHand
<1>3. OpenHoldsClaim'
  <2>1. SUFFICES ASSUME NEW v \in Workers, pc'[v] = "open"
                 PROVE  /\ Deduped(doc[v]) /\ claim'[KeyInHand(v)] = v
                        /\ rows[KeyInHand(v)] = 0
    BY DEF OpenHoldsClaim, KeyInHand
  <2>2. CASE v = w
    BY <2>2, KeyFacts
  <2>3. CASE v # w
    <3>1. pc[v] = "open" /\ claim[KeyInHand(v)] = v
      BY <2>1, <2>3 DEF OpenHoldsClaim
    <3>2. KeyInHand(v) # KeyInHand(w)
      BY <3>1, NamesAssumption
    <3> QED
      BY <2>3, <3>1, <3>2, KeyFacts DEF OpenHoldsClaim
  <2> QED
    BY <2>2, <2>3
<1>4. EmitIsFirst'
  BY DEF EmitIsFirst, KeyInHand
<1>5. EmitIsAlone'
  BY DEF EmitIsAlone, KeyInHand
<1> QED
  BY <1>1, <1>2, <1>3, <1>4, <1>5 DEF SaveInv

\* Committing a report nobody stored yet: no observer has heard of it, and
\* nobody announces it.
LEMMA CommitSaves ==
  ASSUME IInv, NEW w \in Workers, Commit(w)
  PROVE  SaveInv'
<1> DEFINE k == KeyInHand(w)
<1> USE DEF IInv, TypeOK
<1>1. /\ k \in Keys /\ k \in DedupKeys /\ doc[w] \in Docs /\ Deduped(doc[w])
      /\ rows[k] = 0 /\ claim[k] = w
  BY KeyFacts, DedupFacts DEF Commit, OpenHoldsClaim, InHand, KeyInHand
<1>2. \A o \in Observers : heard[o][k] = 0
  BY <1>1 DEF AnnouncedOnce, OutsideType
<1>3. \A v \in Workers : pc[v] = "emit" => KeyInHand(v) # k
  BY <1>1 DEF EmitIsFirst
<1>4. rows' = [rows EXCEPT ![k] = 1]
  BY <1>1 DEF Commit, StoreType
<1>5. AnnouncedOnce'
  BY <1>1, <1>2, <1>4 DEF AnnouncedOnce, Commit, outside, StoreType, OutsideType
<1>6. InHand'
  BY DEF InHand, Commit, WorkerType
<1>7. OpenHoldsClaim'
  <2>1. SUFFICES ASSUME NEW v \in Workers, pc'[v] = "open"
                 PROVE  /\ Deduped(doc[v]) /\ claim'[KeyInHand(v)] = v
                        /\ rows'[KeyInHand(v)] = 0
    BY DEF OpenHoldsClaim, KeyInHand, Commit
  <2>2. v # w /\ pc[v] = "open"
    BY <2>1 DEF Commit, WorkerType
  <2>3. claim[KeyInHand(v)] = v /\ rows[KeyInHand(v)] = 0 /\ KeyInHand(v) \in Keys
    BY <2>2, KeyFacts DEF OpenHoldsClaim
  <2> QED
    BY <1>1, <2>2, <2>3 DEF OpenHoldsClaim, Commit, StoreType
<1>8. EmitIsFirst'
  <2>1. SUFFICES ASSUME NEW v \in Workers, pc'[v] = "emit"
                 PROVE  /\ rows'[KeyInHand(v)] > 0
                        /\ stage'[v] < Len(Chain(doc[v]))
                        /\ Deduped(doc[v]) =>
                             \A j \in stage'[v] + 1 .. Len(Chain(doc[v])) :
                               heard[Chain(doc[v])[j]][KeyInHand(v)] = 0
    BY DEF EmitIsFirst, KeyInHand, Commit, outside
  <2>2. CASE v = w
    <3>1. stage'[v] = 0
      BY <2>2 DEF Commit, WorkerType
    <3> QED
      <4>1. Len(Chain(doc[v])) \in 1..4
            /\ \A j \in 1..Len(Chain(doc[v])) : Chain(doc[v])[j] \in Observers
        BY <1>1, <2>2, ChainFacts
      <4>2. rows'[KeyInHand(v)] = 1
        BY <1>1, <1>4, <2>2 DEF StoreType
      <4>3. \A j \in 1..Len(Chain(doc[v])) : heard[Chain(doc[v])[j]][KeyInHand(v)] = 0
        BY <1>2, <2>2, <4>1
      <4>4. stage'[v] + 1 = 1
        BY <3>1
      <4>5. rows'[KeyInHand(v)] > 0
        BY <4>2
      <4>6. stage'[v] < Len(Chain(doc[v]))
        <5>1. \A n \in 1..4 : 0 < n
          OBVIOUS
        <5> QED
          BY <3>1, <4>1, <5>1
      <4>7. \A j \in stage'[v] + 1 .. Len(Chain(doc[v])) :
              heard[Chain(doc[v])[j]][KeyInHand(v)] = 0
        BY <4>3, <4>4
      <4> QED
        BY <4>5, <4>6, <4>7
  <2>3. CASE v # w
    <3>1. pc[v] = "emit" /\ stage'[v] = stage[v] /\ KeyInHand(v) \in Keys
      BY <2>1, <2>3, KeyFacts DEF Commit, WorkerType
    <3> QED
      BY <1>3, <1>4, <3>1 DEF EmitIsFirst, StoreType
  <2> QED
    BY <2>2, <2>3
<1>9. EmitIsAlone'
  BY <1>3 DEF EmitIsAlone, Commit, WorkerType, KeyInHand
<1> QED
  BY <1>5, <1>6, <1>7, <1>8, <1>9 DEF SaveInv

LEMMA ForensicSaves ==
  ASSUME IInv, NEW w \in Workers, SaveForensic(w)
  PROVE  SaveInv'
<1> DEFINE k == KeyInHand(w)
<1> USE DEF IInv, TypeOK
<1>1. k \in Keys /\ k \notin DedupKeys /\ doc[w] \in Docs /\ ~Deduped(doc[w])
  BY KeyFacts, DedupFacts DEF SaveForensic, InHand, KeyInHand
<1>2. rows' = [rows EXCEPT ![k] = @ + 1]
  BY DEF SaveForensic
<1>3. \A l \in Keys : l # k => rows'[l] = rows[l]
  BY <1>2 DEF StoreType
<1>4. DedupKeys \subseteq Keys
  BY ContentAssumption DEF DedupKeys, Parses
<1>5. AnnouncedOnce'
  BY <1>1, <1>3, <1>4 DEF AnnouncedOnce, SaveForensic, outside
<1>6. InHand'
  BY DEF InHand, SaveForensic, WorkerType
<1>7. OpenHoldsClaim'
  <2>1. SUFFICES ASSUME NEW v \in Workers, pc'[v] = "open"
                 PROVE  /\ Deduped(doc[v]) /\ claim[KeyInHand(v)] = v
                        /\ rows'[KeyInHand(v)] = 0
    BY DEF OpenHoldsClaim, KeyInHand, SaveForensic
  <2>2. pc[v] = "open" /\ Deduped(doc[v])
    BY <2>1 DEF SaveForensic, WorkerType, OpenHoldsClaim
  <2>3. KeyInHand(v) \in DedupKeys
    BY <2>2, KeyFacts, DedupFacts DEF InHand, KeyInHand
  <2> QED
    BY <1>1, <1>3, <1>4, <2>2, <2>3 DEF OpenHoldsClaim
<1>8. EmitIsFirst'
  <2>1. SUFFICES ASSUME NEW v \in Workers, pc'[v] = "emit"
                 PROVE  /\ rows'[KeyInHand(v)] > 0
                        /\ stage'[v] < Len(Chain(doc[v]))
                        /\ Deduped(doc[v]) =>
                             \A j \in stage'[v] + 1 .. Len(Chain(doc[v])) :
                               heard[Chain(doc[v])[j]][KeyInHand(v)] = 0
    BY DEF EmitIsFirst, KeyInHand, SaveForensic, outside
  <2>2. CASE v = w
    <3>1. stage'[v] = 0 /\ rows'[k] > 0
      BY <1>1, <1>2, <2>2 DEF SaveForensic, WorkerType, StoreType
    <3> QED
      <4>1. Len(Chain(doc[v])) \in 1..4
        BY <1>1, <2>2, ChainFacts
      <4>2. stage'[v] < Len(Chain(doc[v]))
        <5>1. \A n \in 1..4 : 0 < n
          OBVIOUS
        <5> QED
          BY <3>1, <4>1, <5>1
      <4>3. rows'[KeyInHand(v)] > 0 /\ ~Deduped(doc[v])
        BY <1>1, <2>2, <3>1
      <4> QED
        BY <4>2, <4>3
  <2>3. CASE v # w
    <3>1. pc[v] = "emit" /\ stage'[v] = stage[v] /\ KeyInHand(v) \in Keys
      BY <2>1, <2>3, KeyFacts DEF SaveForensic, WorkerType
    <3>2. rows[KeyInHand(v)] > 0
      BY <3>1 DEF EmitIsFirst
    <3>3. rows'[KeyInHand(v)] > 0
      BY <1>1, <1>2, <3>1, <3>2 DEF StoreType
    <3> QED
      BY <3>1, <3>3 DEF EmitIsFirst
  <2> QED
    BY <2>2, <2>3
<1>9. EmitIsAlone'
  <2>1. SUFFICES ASSUME NEW u \in Workers, NEW v \in Workers,
                        pc'[u] = "emit", pc'[v] = "emit",
                        KeyInHand(u) = KeyInHand(v), Deduped(doc[v])
                 PROVE  u = v
    BY DEF EmitIsAlone, KeyInHand, SaveForensic
  <2>2. u # w /\ v # w
    <3>1. u \in Workers /\ v \in Workers /\ pc[u] \in {"emit", "insert"}
            /\ pc[v] \in {"emit", "insert"}
      BY <2>1 DEF SaveForensic, WorkerType
    <3>2. /\ KeyInHand(v) \in DedupKeys
      BY <2>1, <3>1, DedupFacts DEF InHand, KeyInHand
    <3> QED
      BY <1>1, <2>1, <3>2
  <2> QED
    BY <2>1, <2>2 DEF EmitIsAlone, SaveForensic, WorkerType
<1> QED
  BY <1>5, <1>6, <1>7, <1>8, <1>9 DEF SaveInv

LEMMA LostCommitSaves ==
  ASSUME IInv, NEW w \in Workers, CommitLost(w)
  PROVE  SaveInv'
<1> DEFINE k == KeyInHand(w)
<1> USE DEF IInv, TypeOK
<1>1. k \in Keys /\ doc[w] \in Docs /\ (k \in DedupKeys <=> Deduped(doc[w]))
  BY KeyFacts, DedupFacts DEF CommitLost, InHand, KeyInHand
<1>2. rows' = [rows EXCEPT ![k] = @ + 1] /\ UNCHANGED heard
  BY DEF CommitLost, GiveUp
<1>3. k \in DedupKeys => rows[k] = 0 /\ claim[k] = w
  BY <1>1 DEF CommitLost, OpenHoldsClaim
<1>4. \A v \in Workers : pc'[v] \in {"insert", "open", "emit"} =>
        /\ v # w /\ pc'[v] = pc[v] /\ doc'[v] = doc[v] /\ stage'[v] = stage[v]
        /\ KeyInHand(v) \in Keys
  BY KeyFacts DEF CommitLost, GiveUp, WorkerType
<1>5. DedupKeys \subseteq Keys
  BY ContentAssumption DEF DedupKeys, Parses
<1>6. AnnouncedOnce'
  BY <1>1, <1>2, <1>3, <1>5 DEF AnnouncedOnce, StoreType, OutsideType
<1>7. InHand'
  BY <1>4 DEF InHand
<1>8. OpenHoldsClaim'
  <2>1. SUFFICES ASSUME NEW v \in Workers, pc'[v] = "open"
                 PROVE  /\ Deduped(doc[v]) /\ claim'[KeyInHand(v)] = v
                        /\ rows'[KeyInHand(v)] = 0
    BY <1>4 DEF OpenHoldsClaim, KeyInHand
  <2>2. /\ v # w /\ pc[v] = "open" /\ KeyInHand(v) \in Keys
        /\ Deduped(doc[v]) /\ claim[KeyInHand(v)] = v /\ rows[KeyInHand(v)] = 0
    BY <1>4, <2>1 DEF OpenHoldsClaim
  <2>3. KeyInHand(v) \in DedupKeys
    BY <2>2, KeyFacts, DedupFacts DEF InHand, KeyInHand
  <2>4. KeyInHand(v) # k
    BY <1>3, <2>2, <2>3
  <2> QED
    BY <1>2, <2>2, <2>4 DEF CommitLost, StoreType
<1>9. EmitIsFirst'
  <2>1. SUFFICES ASSUME NEW v \in Workers, pc'[v] = "emit"
                 PROVE  /\ rows'[KeyInHand(v)] > 0
                        /\ stage[v] < Len(Chain(doc[v]))
                        /\ Deduped(doc[v]) =>
                             \A j \in stage[v] + 1 .. Len(Chain(doc[v])) :
                               heard[Chain(doc[v])[j]][KeyInHand(v)] = 0
    BY <1>2, <1>4 DEF EmitIsFirst, KeyInHand
  <2>2. pc[v] = "emit" /\ KeyInHand(v) \in Keys
    BY <1>4, <2>1
  <2>3. rows[KeyInHand(v)] > 0
    BY <2>2 DEF EmitIsFirst
  <2>4. rows'[KeyInHand(v)] > 0
    BY <1>1, <1>2, <2>2, <2>3 DEF StoreType
  <2> QED
    BY <2>2, <2>4 DEF EmitIsFirst
<1>10. EmitIsAlone'
  BY <1>4 DEF EmitIsAlone, KeyInHand
<1> QED
  BY <1>6, <1>7, <1>8, <1>9, <1>10 DEF SaveInv

\* An announcement by the only worker that announces the report, to an
\* observer that has not heard of it.
LEMMA ObserverSaves ==
  ASSUME IInv, NEW w \in Workers, Emit(w) \/ ObserverFails(w)
  PROVE  SaveInv'
<1> DEFINE k == KeyInHand(w)
           C == Chain(doc[w])
           o == C[stage[w] + 1]
<1> USE DEF IInv, TypeOK
<1>1. pc[w] = "emit" /\ ObserverDone(w) /\ UNCHANGED <<rows, claim>>
  BY DEF Emit, ObserverFails, ObserverDone, db
<1>2. doc[w] \in Docs /\ k \in Keys /\ (k \in DedupKeys <=> Deduped(doc[w]))
  BY <1>1, KeyFacts, DedupFacts DEF InHand, KeyInHand
<1>3. /\ Len(C) \in 1..4 /\ stage[w] \in Nat /\ stage[w] < Len(C)
      /\ stage[w] + 1 \in 1..Len(C)
  BY <1>1, <1>2, ChainFacts DEF EmitIsFirst, WorkerType
<1>4. o \in Observers
  BY <1>2, <1>3, ChainFacts
<1>5. /\ heard' \in [Observers -> [Keys -> Nat]]
      /\ \A p \in Observers, l \in Keys :
           heard'[p][l] # heard[p][l] => p = o /\ l = k /\ heard'[p][l] = heard[p][l] + 1
  BY <1>2, <1>4 DEF Emit, ObserverFails, OutsideType
<1>6. DedupKeys \subseteq Keys
  BY ContentAssumption DEF DedupKeys, Parses
<1>7. rows[k] > 0 /\ (k \in DedupKeys => heard[o][k] = 0)
  BY <1>1, <1>2, <1>3 DEF EmitIsFirst
<1>8. AnnouncedOnce'
  <2>1. SUFFICES ASSUME NEW l \in DedupKeys, NEW p \in Observers
                 PROVE  rows[l] <= 1 /\ heard'[p][l] <= rows[l]
    BY <1>1 DEF AnnouncedOnce
  <2>2. rows[l] \in Nat /\ rows[l] <= 1 /\ heard[p][l] <= rows[l] /\ l \in Keys
    BY <1>6 DEF AnnouncedOnce, StoreType
  <2>3. CASE heard'[p][l] = heard[p][l]
    BY <2>2, <2>3
  <2>4. CASE heard'[p][l] # heard[p][l]
    <3>1. heard'[p][l] = 1 /\ rows[l] > 0
      BY <1>5, <1>7, <2>2, <2>4
    <3> QED
      BY <2>2, <3>1
  <2> QED
    BY <2>3, <2>4
<1>9. \A v \in Workers : pc'[v] \in {"insert", "open", "emit"} =>
        /\ pc'[v] = pc[v] /\ doc'[v] = doc[v]
        /\ v # w => stage'[v] = stage[v]
        /\ v = w => stage'[v] = stage[v] + 1 /\ stage[v] + 1 # Len(C)
  BY <1>1 DEF ObserverDone, WorkerType
<1>10. InHand'
  BY <1>9 DEF InHand
<1>11. OpenHoldsClaim'
  BY <1>1, <1>9 DEF OpenHoldsClaim, KeyInHand
<1>12. EmitIsAlone'
  BY <1>9 DEF EmitIsAlone, KeyInHand
<1>13. EmitIsFirst'
  <2>1. SUFFICES ASSUME NEW v \in Workers, pc'[v] = "emit"
                 PROVE  /\ rows[KeyInHand(v)] > 0
                        /\ stage'[v] < Len(Chain(doc[v]))
                        /\ Deduped(doc[v]) =>
                             \A j \in stage'[v] + 1 .. Len(Chain(doc[v])) :
                               heard'[Chain(doc[v])[j]][KeyInHand(v)] = 0
    BY <1>1, <1>9 DEF EmitIsFirst, KeyInHand
  <2>2. CASE v = w
    <3>1. stage'[w] = stage[w] + 1 /\ stage'[w] < Len(C)
      BY <1>3, <1>9, <2>1, <2>2
    <3>2. ASSUME Deduped(doc[w]), NEW j \in stage'[w] + 1 .. Len(C)
          PROVE  heard'[C[j]][k] = 0
      <4>1. j \in 1..Len(C) /\ j \in stage[w] + 1 .. Len(C) /\ j # stage[w] + 1
        BY <1>3, <3>1, <3>2
      <4>2. C[j] \in Observers /\ C[j] # o
        BY <1>2, <1>3, <4>1, ChainFacts
      <4>3. heard[C[j]][k] = 0
        BY <1>1, <3>2, <4>1 DEF EmitIsFirst
      <4> QED
        BY <1>2, <1>5, <4>2, <4>3
    <3> QED
      BY <1>7, <2>2, <3>1, <3>2
  <2>3. CASE v # w
    <3>1. /\ pc[v] = "emit" /\ stage'[v] = stage[v]
          /\ doc[v] \in Docs /\ KeyInHand(v) \in Keys
      BY <1>9, <2>1, <2>3, KeyFacts
    <3>2. Deduped(doc[v]) => KeyInHand(v) # k
      BY <1>1, <2>3, <3>1 DEF EmitIsAlone
    <3>3. ASSUME Deduped(doc[v]), NEW j \in stage[v] + 1 .. Len(Chain(doc[v]))
          PROVE  heard'[Chain(doc[v])[j]][KeyInHand(v)] = 0
      <4>1. Len(Chain(doc[v])) \in 1..4 /\ stage[v] \in Nat
        BY <3>1, ChainFacts DEF WorkerType
      <4>2. j \in 1..Len(Chain(doc[v]))
        BY <3>3, <4>1
      <4>3. Chain(doc[v])[j] \in Observers
        BY <3>1, <4>2, ChainFacts
      <4>4. heard[Chain(doc[v])[j]][KeyInHand(v)] = 0
        BY <3>1, <3>3 DEF EmitIsFirst
      <4> QED
        BY <1>5, <3>1, <3>2, <3>3, <4>3, <4>4
    <3> QED
      BY <3>1, <3>3 DEF EmitIsFirst
  <2> QED
    BY <2>2, <2>3
<1> QED
  BY <1>8, <1>10, <1>11, <1>12, <1>13 DEF SaveInv

LEMMA StepSaves ==
  ASSUME IInv, [Next]_vars
  PROVE  SaveInv'
<1>1. SaveInv
  BY DEF IInv, SaveInv
<1>2. CASE UNCHANGED vars
  BY <1>1, <1>2, QuietSaves DEF vars, db, worker, outside, Quiet, KeyInHand
<1>3. ASSUME NEW w \in Workers,
             Saving(w) \/ StoreFails(w) \/ CommitLost(w) \/ ObserverFails(w)
      PROVE  SaveInv'
  BY <1>1, <1>3, PickSaves, InsertSaves, CommitSaves, ForensicSaves, LostCommitSaves,
     ObserverSaves, QuietWorkers, QuietSaves DEF Saving
<1>4. CASE Next
  BY <1>1, <1>3, <1>4, QuietPoller, QuietOthers, QuietSaves
     DEF Next, PollerStep, HandlerStep, Failure, Workers
<1> QED
  BY <1>2, <1>4

-----------------------------------------------------------------------------
(* Every mail is filed where its contents belong.                          *)

\* What is stored stays stored.
LEMMA RowsGrow ==
  ASSUME IInv, [Next]_vars, NEW k \in Keys, rows[k] > 0
  PROVE  rows'[k] > 0
<1> USE DEF IInv, TypeOK, StoreType, db
<1>1. CASE UNCHANGED rows
  BY <1>1
<1>2. ASSUME NEW w \in Workers, NEW l \in Keys, rows' = [rows EXCEPT ![l] = @ + 1]
      PROVE  rows'[k] > 0
  BY <1>2
<1>3. ASSUME NEW w \in Workers, Commit(w) \/ SaveForensic(w) \/ CommitLost(w)
      PROVE  rows'[k] > 0
  <2>1. KeyInHand(w) \in Keys
    BY <1>3, KeyFacts DEF Commit, SaveForensic, CommitLost
  <2> QED
    BY <1>2, <1>3, <2>1 DEF Commit, SaveForensic, CommitLost
<1>4. ASSUME NEW w \in Workers, Saving(w) \/ StoreFails(w) \/ ObserverFails(w)
      PROVE  rows'[k] > 0
  BY <1>1, <1>3, <1>4
     DEF Saving, PickDoc, Duplicate, Insert, Emit, ObserverDone, StoreFails, ObserverFails
<1>5. CASE \/ StartCycle \/ StartFails \/ FinishMail \/ EndCycle
           \/ \E m \in Mails : TakeUnreadable(m) \/ TakePlain(m) \/ TakeReport(m)
           \/ \E d \in Docs : SkipBad(d)
           \/ \E f \in Filed : MoveFolder(f) \/ MoveFails(f)
  BY <1>5, QuietPoller DEF Quiet
<1>6. CASE \/ Environment \/ RequeueFails \/ Crash
           \/ \E u \in Uploads : \/ RefuseBody(u) \/ FinishUpload(u)
                                 \/ \E d \in Docs : RefuseBad(u, d)
  BY <1>6, QuietOthers DEF Quiet
<1>7. CASE Next
  BY <1>3, <1>4, <1>5, <1>6, <1>7 DEF Next, PollerStep, HandlerStep, Failure, Workers
<1>8. CASE UNCHANGED vars
  BY <1>8 DEF vars
<1> QED
  BY <1>7, <1>8

LEMMA FitsGrow ==
  ASSUME IInv, [Next]_vars, NEW m \in Mails, NEW f \in Filed, Fits(m, f)
  PROVE  Fits(m, f)'
<1>1. \A d \in Content[m] : Parses(d) => KeyOf[d] \in Keys
  BY ContentAssumption DEF Parses
<1>2. \A d \in Content[m] : Parses(d) /\ rows[KeyOf[d]] > 0 => rows'[KeyOf[d]] > 0
  BY <1>1, RowsGrow
<1> QED
  BY <1>2 DEF Fits, Filed

\* Only the poller files a mail, where the cycle decided to.
LEMMA FiledFromMoves ==
  ASSUME IInv, [Next]_vars, NEW m \in Mails, NEW f \in Filed,
         folder'[m] = f, folder[m] # f
  PROVE  m \in moves[f]
<1> USE DEF IInv, TypeOK, MailboxType, CycleType, RequeueType, mailbox, Filed, Folders
<1>1. folder' # folder
  OBVIOUS
<1>2. ~ UNCHANGED vars
  BY <1>1 DEF vars
<1>3. ASSUME NEW w \in Workers,
             Saving(w) \/ StoreFails(w) \/ CommitLost(w) \/ ObserverFails(w)
      PROVE  FALSE
  BY <1>1, <1>3 DEF Saving, PickDoc, Duplicate, Insert, Commit, SaveForensic, Emit,
     ObserverDone, StoreFails, CommitLost, ObserverFails
<1>4. ASSUME \/ StartCycle \/ StartFails \/ FinishMail \/ EndCycle
             \/ \E n \in Mails : TakeUnreadable(n) \/ TakePlain(n) \/ TakeReport(n)
             \/ \E d \in Docs : SkipBad(d)
      PROVE  FALSE
  BY <1>1, <1>4 DEF StartCycle, StartFails, FinishMail, EndCycle, TakeUnreadable,
     TakePlain, TakeReport, SkipBad
<1>5. ASSUME NEW g \in Filed, MoveFolder(g) \/ MoveFails(g)
      PROVE  m \in moves[f]
  BY <1>5 DEF MoveFolder, MoveFails, MoveMails
<1>6. ASSUME \/ \E u \in Uploads : \/ RefuseBody(u) \/ FinishUpload(u) \/ Receive(u)
                                   \/ \E d \in Docs : RefuseBad(u, d)
             \/ TriggerPoll \/ RequeueSearch \/ RequeueUnsee \/ Crash
             \/ \E n \in Mails : OpenFailedMail(n)
      PROVE  FALSE
  BY <1>1, <1>6 DEF RefuseBody, FinishUpload, RefuseBad, Receive, Answer, TriggerPoll,
     RequeueSearch, RequeueUnsee, Crash, OpenFailedMail
<1>7. ASSUME RequeueMove \/ RequeueFails \/ \E n \in Mails : Deliver(n)
      PROVE  FALSE
  BY <1>7 DEF RequeueMove, RequeueFails, Deliver, MoveMails
<1> QED
  BY <1>2, <1>3, <1>4, <1>5, <1>6, <1>7
     DEF Next, PollerStep, HandlerStep, Failure, Environment, Workers

LEMMA StepFiling ==
  ASSUME IInv, [Next]_vars
  PROVE  FilingIsRight'
<1>1. SUFFICES ASSUME NEW m \in Mails, NEW f \in Filed, folder'[m] = f
               PROVE  Fits(m, f)'
  BY DEF FilingIsRight
<1>2. CASE folder[m] = f
  BY <1>2, FitsGrow DEF IInv, FilingIsRight
<1>3. CASE folder[m] # f
  <2>1. m \in moves[f]
    BY <1>1, <1>3, FiledFromMoves
  <2> QED
    BY <2>1, FitsGrow DEF IInv, MovesAreRight
<1> QED
  BY <1>2, <1>3

\* When its documents are handled a mail fits its outcome.
LEMMA OutcomeFits ==
  ASSUME IInv, FinishMail
  PROVE  cur \in Mails /\ Fits(cur, Outcome(tally[Poller]))
<1> USE DEF IInv
<1>1. /\ cur # None /\ cur \in Mails /\ Content[cur] # {}
      /\ doc[Poller] = None /\ todo[Poller] = {}
  BY DEF FinishMail, MailInHand, TypeOK, CycleType
<1>2. Handled(cur) = Content[cur]
  BY <1>1, NamesAssumption, ContentAssumption DEF Handled
<1>3. \A d \in Content[cur] :
        IF Parses(d) THEN rows[KeyOf[d]] > 0 /\ "stored" \in tally[Poller]
                     ELSE "bad" \in tally[Poller]
  BY <1>1, <1>2 DEF MailInHand
<1>4. CASE "stored" \in tally[Poller]
  BY <1>1, <1>3, <1>4 DEF MailInHand, Outcome, Fits
<1>5. CASE "stored" \notin tally[Poller]
  BY <1>1, <1>3, <1>5 DEF Outcome, Fits
<1> QED
  BY <1>1, <1>4, <1>5

LEMMA StepMoves ==
  ASSUME IInv, [Next]_vars
  PROVE  MovesAreRight'
<1>1. SUFFICES ASSUME NEW f \in Filed, NEW m \in moves'[f]
               PROVE  Fits(m, f)'
  BY DEF MovesAreRight
<1>2. CASE m \in moves[f]
  BY <1>2, FitsGrow DEF IInv, MovesAreRight, TypeOK, CycleType
<1>3. CASE m \notin moves[f]
  <2> USE DEF IInv, TypeOK, CycleType
  <2>1. moves' # moves
    BY <1>1, <1>3
  <2>2. CASE FinishMail
    <3>1. m = cur /\ f = Outcome(tally[Poller])
      BY <1>1, <1>3, <2>2 DEF FinishMail
    <3> QED
      BY <2>2, <3>1, OutcomeFits, FitsGrow
  <2>3. ASSUME NEW n \in Mails, TakeUnreadable(n) \/ TakePlain(n)
        PROVE  Fits(m, f)'
    <3>1. m = n /\ f = (IF n \in Unreadable THEN "Failed" ELSE "Ignored")
      BY <1>1, <1>3, <2>3 DEF TakeUnreadable, TakePlain
    <3>2. Fits(m, f)
      BY <2>3, <3>1, ContentAssumption DEF Fits, TakeUnreadable, TakePlain
    <3> QED
      BY <3>1, <3>2, FitsGrow
  <2>4. ASSUME \/ \E g \in Filed : MoveFolder(g) \/ MoveFails(g)
               \/ Crash
        PROVE  FALSE
    BY <1>1, <1>3, <2>4 DEF MoveFolder, MoveFails, Crash
  <2>5. ASSUME \/ StartCycle \/ StartFails \/ EndCycle
               \/ \E n \in Mails : TakeReport(n) \/ Deliver(n) \/ OpenFailedMail(n)
               \/ \E d \in Docs : SkipBad(d)
        PROVE  FALSE
    BY <2>1, <2>5 DEF StartCycle, StartFails, EndCycle, TakeReport, Deliver,
       OpenFailedMail, SkipBad, cycle
  <2>6. ASSUME NEW w \in Workers,
               Saving(w) \/ StoreFails(w) \/ CommitLost(w) \/ ObserverFails(w)
        PROVE  FALSE
    BY <2>1, <2>6 DEF Saving, PickDoc, Duplicate, Insert, Commit, SaveForensic, Emit,
       ObserverDone, StoreFails, CommitLost, ObserverFails, GiveUp, cycle
  <2>7. ASSUME \/ \E u \in Uploads : \/ RefuseBody(u) \/ FinishUpload(u) \/ Receive(u)
                                     \/ \E d \in Docs : RefuseBad(u, d)
               \/ TriggerPoll \/ RequeueSearch \/ RequeueUnsee \/ RequeueMove
               \/ RequeueFails
        PROVE  FALSE
    BY <2>1, <2>7 DEF RefuseBody, FinishUpload, RefuseBad, Receive, Answer, TriggerPoll,
       RequeueSearch, RequeueUnsee, RequeueMove, RequeueFails, cycle
  <2>8. ~ UNCHANGED vars
    BY <2>1 DEF vars, cycle
  <2> QED
    BY <2>2, <2>3, <2>4, <2>5, <2>6, <2>7, <2>8
       DEF Next, PollerStep, HandlerStep, Failure, Environment, Workers
<1> QED
  BY <1>2, <1>3

\* A step that leaves the poller and its mail alone.
LEMMA MailKept ==
  ASSUME IInv, [Next]_vars, cur' = cur, pc'[Poller] = pc[Poller],
         todo'[Poller] = todo[Poller], doc'[Poller] = doc[Poller],
         tally'[Poller] = tally[Poller]
  PROVE  MailInHand'
<1>1. \A d \in Docs : Parses(d) /\ rows[KeyOf[d]] > 0 => rows'[KeyOf[d]] > 0
  BY RowsGrow, ContentAssumption DEF Parses
<1>2. cur # None => cur \in Mails /\ Content[cur] \subseteq Docs
  BY ContentAssumption DEF IInv, TypeOK, CycleType
<1>3. cur # None => \A d \in Handled(cur)' :
         IF Parses(d) THEN rows'[KeyOf[d]] > 0 /\ "stored" \in tally'[Poller]
                      ELSE "bad" \in tally'[Poller]
  BY <1>1, <1>2 DEF IInv, MailInHand, Handled
<1> QED
  BY <1>3 DEF IInv, MailInHand

\* A step after which the poller has no mail in hand.
LEMMA NoMail ==
  ASSUME cur' = None, doc'[Poller] = None,
         pc'[Poller] \notin {"next", "insert", "open", "emit"}
  PROVE  MailInHand'
  BY DEF MailInHand

LEMMA ObserverMail ==
  ASSUME IInv, [Next]_vars, Emit(Poller) \/ ObserverFails(Poller)
  PROVE  MailInHand'
<1> USE DEF IInv, TypeOK, WorkerType, CycleType
<1>1. /\ Poller \in Workers /\ pc[Poller] = "emit" /\ ObserverDone(Poller)
  BY DEF Workers, Emit, ObserverFails
<1>2. cur # None /\ cur \in Mails /\ cur' = cur
  BY <1>1 DEF MailInHand, ObserverDone, cycle
<1>3. /\ doc[Poller] \in Content[cur] /\ Parses(doc[Poller])
      /\ rows[KeyInHand(Poller)] > 0 /\ "stored" \in tally[Poller]
  BY <1>1, <1>2, NamesAssumption DEF MailInHand, InHand, EmitIsFirst
<1>4. /\ UNCHANGED <<todo, tally, rows>>
      /\ \/ pc'[Poller] = "next" /\ doc'[Poller] = None
         \/ pc'[Poller] = "emit" /\ doc'[Poller] = doc[Poller]
  BY <1>1 DEF ObserverDone, db
<1>5. Handled(cur)' \subseteq Handled(cur) \cup {doc[Poller]}
  BY <1>2, <1>4 DEF Handled
<1>6. doc[Poller] # None
  BY <1>1, NamesAssumption DEF InHand
<1> QED
  BY <1>1, <1>2, <1>3, <1>4, <1>5, <1>6 DEF MailInHand, KeyInHand

LEMMA PollerSaves ==
  ASSUME IInv, [Next]_vars, Saving(Poller)
  PROVE  MailInHand'
<1> USE DEF IInv, TypeOK, WorkerType, CycleType
<1>1. Poller \in Workers
  BY DEF Workers
<1>2. cur # None /\ cur \in Mails /\ Content[cur] \subseteq Docs
  BY ContentAssumption DEF Saving, MailInHand, PickDoc, Duplicate, Insert, Commit,
     SaveForensic, Emit
<1>3. /\ cur' = cur /\ pc'[Poller] \in {"next", "insert", "open", "emit"}
      /\ tally[Poller] \subseteq tally'[Poller]
  BY <1>1, <1>2 DEF Saving, PickDoc, Duplicate, Insert, Commit, SaveForensic, Emit,
     ObserverDone, cycle
<1>4. \A d \in Docs : Parses(d) /\ rows[KeyOf[d]] > 0 => rows'[KeyOf[d]] > 0
  BY RowsGrow, ContentAssumption DEF Parses
<1>5. ASSUME NEW d \in Docs, PickDoc(Poller, d)
      PROVE  MailInHand'
  <2>1. /\ todo'[Poller] = todo[Poller] \ {d} /\ d \in todo[Poller]
        /\ doc[Poller] = None /\ doc'[Poller] = d /\ pc'[Poller] = "insert"
        /\ tally'[Poller] = tally[Poller] /\ rows' = rows
    BY <1>1, <1>2, <1>5 DEF PickDoc, First, MailInHand, db
  <2>2. Handled(cur)' = Handled(cur)
    BY <1>2, <1>3, <2>1, NamesAssumption DEF Handled
  <2> QED
    BY <1>2, <1>3, <2>1, <2>2, NamesAssumption DEF MailInHand
<1>6. CASE Duplicate(Poller)
  <2>1. /\ doc[Poller] \in Docs /\ rows[KeyInHand(Poller)] > 0
        /\ doc'[Poller] = None /\ pc'[Poller] = "next" /\ todo' = todo /\ rows' = rows
        /\ tally'[Poller] = tally[Poller] \cup {"stored"}
    BY <1>1, <1>6, KeyFacts DEF Duplicate, db
  <2>2. doc[Poller] \in Content[cur] /\ Parses(doc[Poller])
    BY <1>1, <1>2, <1>6, <2>1, NamesAssumption DEF MailInHand, InHand, Duplicate
  <2>3. Handled(cur)' \subseteq Handled(cur) \cup {doc[Poller]}
    BY <1>3, <2>1 DEF Handled
  <2> QED
    BY <1>2, <1>3, <2>1, <2>2, <2>3 DEF MailInHand, KeyInHand
<1>7. CASE Insert(Poller)
  <2>1. /\ pc[Poller] = "insert" /\ pc'[Poller] = "open"
        /\ UNCHANGED <<todo, doc, tally, rows>>
    BY <1>1, <1>7 DEF Insert
  <2> QED
    BY <1>2, <1>3, <2>1 DEF MailInHand, Handled
<1>8. CASE Commit(Poller) \/ SaveForensic(Poller)
  <2>1. /\ pc[Poller] \in {"insert", "open"} /\ pc'[Poller] = "emit"
        /\ UNCHANGED <<todo, doc>>
        /\ tally'[Poller] = tally[Poller] \cup {"stored", "new"}
    BY <1>1, <1>8 DEF Commit, SaveForensic
  <2>2. doc[Poller] \in Content[cur] /\ Parses(doc[Poller])
    BY <1>1, <1>2, <2>1, NamesAssumption DEF MailInHand, InHand
  <2> QED
    BY <1>2, <1>3, <1>4, <2>1, <2>2 DEF MailInHand, Handled
<1>9. CASE Emit(Poller)
  BY <1>1, <1>9, ObserverMail
<1> QED
  BY <1>5, <1>6, <1>7, <1>8, <1>9 DEF Saving

LEMMA StepMail ==
  ASSUME IInv, [Next]_vars
  PROVE  MailInHand'
<1> USE DEF IInv, TypeOK, WorkerType, CycleType
<1>1. Poller \in Workers /\ \A u \in Uploads : u \in Workers /\ u # Poller
  BY NamesAssumption DEF Workers
<1>2. CASE UNCHANGED vars
  BY <1>2, MailKept DEF vars, worker, cycle
<1>3. ASSUME NEW w \in Workers, w # Poller,
             Saving(w) \/ StoreFails(w) \/ CommitLost(w) \/ ObserverFails(w)
      PROVE  MailInHand'
  <2>1. /\ cur' = cur /\ pc'[Poller] = pc[Poller] /\ todo'[Poller] = todo[Poller]
        /\ doc'[Poller] = doc[Poller] /\ tally'[Poller] = tally[Poller]
    BY <1>1, <1>3 DEF Saving, PickDoc, Duplicate, Insert, Commit, SaveForensic, Emit,
       ObserverDone, StoreFails, CommitLost, ObserverFails, GiveUp, cycle
  <2> QED
    BY <2>1, MailKept
<1>4. CASE StoreFails(Poller) \/ CommitLost(Poller)
  <2>1. cur' = None /\ pc'[Poller] = "take" /\ doc'[Poller] = None
    BY <1>1, <1>4 DEF StoreFails, CommitLost, GiveUp
  <2> QED
    BY <2>1, NoMail
<1>5. CASE Saving(Poller)
  BY <1>5, PollerSaves
<1>6. CASE ObserverFails(Poller)
  BY <1>1, <1>6, ObserverMail
<1>7. CASE StartCycle \/ StartFails \/ EndCycle \/ \E f \in Filed : MoveFolder(f) \/ MoveFails(f)
  <2>1. cur' = None /\ doc'[Poller] = None /\ pc'[Poller] \in {"idle", "take"}
    BY <1>1, <1>7 DEF StartCycle, StartFails, EndCycle, MoveFolder, MoveFails, AllTaken,
       MailInHand, worker, cycle
  <2> QED
    BY <2>1, NoMail
<1>8. CASE FinishMail \/ Crash
  <2>1. cur' = None /\ doc'[Poller] = None /\ pc'[Poller] \in {"idle", "take"}
    BY <1>1, <1>8 DEF FinishMail, Crash, MailInHand
  <2> QED
    BY <2>1, NoMail
<1>9. ASSUME NEW m \in Mails, TakeUnreadable(m) \/ TakePlain(m)
      PROVE  MailInHand'
  BY <1>9, MailKept DEF TakeUnreadable, TakePlain, worker
<1>10. ASSUME NEW m \in Mails, TakeReport(m)
       PROVE  MailInHand'
  <2>1. /\ cur' = m /\ m # None /\ pc'[Poller] = "next" /\ todo'[Poller] = Content[m]
        /\ tally'[Poller] = {} /\ doc' = doc
        /\ m \notin Unreadable /\ Content[m] # {}
    BY <1>1, <1>10, NamesAssumption DEF TakeReport
  <2>2. doc[Poller] = None
    BY <1>10 DEF TakeReport, MailInHand
  <2> QED
    BY <2>1, <2>2 DEF MailInHand, Handled
<1>11. ASSUME NEW d \in Docs, SkipBad(d)
       PROVE  MailInHand'
  <2>1. /\ cur' = cur /\ pc' = pc /\ pc[Poller] = "next" /\ rows' = rows
        /\ doc' = doc /\ d \in todo[Poller] /\ ~Parses(d)
        /\ todo'[Poller] = todo[Poller] \ {d}
        /\ tally'[Poller] = tally[Poller] \cup {"bad"}
    BY <1>1, <1>11 DEF SkipBad, First, db, cycle
  <2>2. Handled(cur)' \subseteq Handled(cur) \cup {d}
    BY <2>1 DEF Handled
  <2> QED
    BY <2>1, <2>2 DEF MailInHand
<1>12. CASE \/ \E m \in Mails : Deliver(m) \/ OpenFailedMail(m)
            \/ TriggerPoll \/ RequeueSearch \/ RequeueUnsee \/ RequeueMove \/ RequeueFails
  BY <1>12, MailKept DEF Deliver, OpenFailedMail, TriggerPoll, RequeueSearch,
     RequeueUnsee, RequeueMove, RequeueFails, worker, cycle
<1>13. ASSUME NEW u \in Uploads,
              \/ Receive(u) \/ RefuseBody(u) \/ FinishUpload(u)
              \/ \E d \in Docs : RefuseBad(u, d)
       PROVE  MailInHand'
  BY <1>1, <1>13, MailKept DEF Receive, RefuseBody, FinishUpload, RefuseBad, Answer, cycle
<1> QED
  BY <1>1, <1>2, <1>3, <1>4, <1>5, <1>6, <1>7, <1>8, <1>9, <1>10, <1>11, <1>12, <1>13
     DEF Next, PollerStep, HandlerStep, Failure, Environment, Workers

-----------------------------------------------------------------------------
(* The theorems.                                                           *)

LEMMA InitInv == Init => IInv
<1> SUFFICES ASSUME Init PROVE IInv
  OBVIOUS
<1>1. AnnouncedOnce
  BY ContentAssumption DEF Init, AnnouncedOnce, DedupKeys, Parses
<1>2. InHand /\ OpenHoldsClaim /\ EmitIsFirst /\ EmitIsAlone
  BY DEF Init, InHand, OpenHoldsClaim, EmitIsFirst, EmitIsAlone
<1>3. FilingIsRight /\ MovesAreRight
  BY DEF Init, FilingIsRight, MovesAreRight, Filed
<1>4. MailInHand
  BY DEF Init, MailInHand, Workers
<1> QED
  BY <1>1, <1>2, <1>3, <1>4, InitType DEF IInv

\* IInv holds in every reachable state.
THEOREM Invariance == Spec => []IInv
<1>1. IInv /\ [Next]_vars => IInv'
  BY StepType, StepSaves, StepFiling, StepMoves, StepMail DEF IInv, SaveInv
<1> QED
  BY <1>1, InitInv, PTL DEF Spec

\* Every variable stays in its type.
THEOREM TypeCorrect == Spec => []TypeOK
  BY Invariance, PTL DEF IInv

\* A report is stored at most once and no observer handles it twice, nor
\* before it is stored, whoever races to store it and whatever fails.
THEOREM ReportsAnnouncedOnce == Spec => []AnnouncedOnce
  BY Invariance, PTL DEF IInv

\* A filed mail is in the folder its contents ask for; a processed one has
\* all its documents in the database.
THEOREM MailFiledRight == Spec => []FilingIsRight
  BY Invariance, PTL DEF IInv
=============================================================================
