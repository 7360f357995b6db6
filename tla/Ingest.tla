------------------------------- MODULE Ingest -------------------------------
(***************************************************************************)
(* How a report gets into dmarcparser and how its mail gets filed.         *)
(*                                                                         *)
(* Two kinds of worker store documents concurrently: the one poller        *)
(* goroutine (poller.Run / cycle / processMail), which takes the unseen    *)
(* mails of the IMAP INBOX one at a time, and one HTTP handler goroutine   *)
(* per POST /api/v1/ingest (api.ingest).  Both save a document with        *)
(* store.SaveReport / SaveTLSRPT / SaveForensic and tell the observers of  *)
(* pipeline.Registry about what they saved first.  The poller then moves   *)
(* the mails of a cycle to Processed, Ignored or Failed; the handler of    *)
(* POST /api/v1/requeue-failed moves Failed mail back.                     *)
(*                                                                         *)
(* A document is one report found in a mail or an upload.  Its identity,   *)
(* KeyOf, is what the unique index of its table is on: (domain, reportid)  *)
(* for an aggregate report, (org, report_id) for a TLS report.  A forensic *)
(* report has no unique index; its key only names its contents.            *)
(***************************************************************************)
EXTENDS Naturals, Sequences, FiniteSets

CONSTANTS
  Mails,        \* mails that arrive in the INBOX
  Uploads,      \* POST /api/v1/ingest requests
  Poller,       \* the poller goroutine
  Docs,         \* documents, one per occurrence in a mail or an upload
  Keys,         \* identities of documents
  None,         \* no key, no document, no mail, no worker
  Content,      \* the documents a mail or an upload carries
  Unreadable,   \* mails and uploads whose payload extraction returns an error
  KindOf,       \* kind of a document
  KeyOf,        \* identity of a document, None when it does not parse
  MaxFaults,    \* bound: failing database statements and IMAP commands
  MaxCrashes,   \* bound: process crashes and commits whose answer is lost
  MaxRequeues   \* bound: requeue-failed requests

Kinds == {"aggregate", "tlsrpt", "forensic"}
Folders == {"INBOX", "Processed", "Ignored", "Failed"}
Filed == {"Processed", "Ignored", "Failed"}
Observers == {"webhook", "rollup", "intel", "selectors"}
Workers == {Poller} \cup Uploads
Labels == {"idle", "take", "next", "insert", "open", "emit", "done"}
Replies == {"none", "200", "201", "400", "500", "lost"}

ASSUME NamesAssumption ==
  /\ Poller \notin Uploads
  /\ None \notin Workers \cup Docs \cup Keys \cup Mails
ASSUME ContentAssumption ==
  /\ Content \in [Mails \cup Uploads -> SUBSET Docs]
  /\ Unreadable \subseteq Mails \cup Uploads
  /\ KindOf \in [Docs -> Kinds]
  /\ KeyOf \in [Docs -> Keys \cup {None}]
  /\ \A c \in Unreadable : Content[c] = {}
\* The tables are disjoint, and the API expands aggregate documents only.
ASSUME KindAssumption ==
  /\ \A d, e \in Docs : KeyOf[d] = KeyOf[e] /\ KeyOf[d] # None
                          => KindOf[d] = KindOf[e]
  /\ \A u \in Uploads : \A d \in Content[u] : KindOf[d] = "aggregate"
\* Two mails or uploads that bring the same report bring two documents.
ASSUME OccurrenceAssumption ==
  /\ IsFiniteSet(Docs)
  /\ \A c, e \in Mails \cup Uploads : c # e => Content[c] \cap Content[e] = {}
ASSUME BoundsAssumption ==
  /\ MaxFaults \in Nat /\ MaxCrashes \in Nat /\ MaxRequeues \in Nat

VARIABLES
  folder,     \* IMAP: where each mail is, "absent" before it arrives
  seen,       \* IMAP: mails flagged \Seen
  rows,       \* database: committed rows of each identity
  claim,      \* database: the open transaction that inserted an identity
  pc,         \* where each worker is
  todo,       \* documents of the mail or upload in hand still to be handled
  doc,        \* the document being saved or announced
  tally,      \* what happened so far: "stored", "bad" (parse errors), "new"
  stage,      \* observers already run for the document in hand
  batch,      \* cycle: fetched mails not looked at yet
  cur,        \* cycle: the mail in processMail
  moves,      \* cycle: mails to move to each folder
  kick,       \* the one-slot channel TriggerNow fills
  rqAt,       \* where the requeue-failed handler is
  rqSet,      \* the UIDs it found in Failed
  reply,      \* HTTP status of each upload
  heard,      \* times each observer has handled each identity
  notices,    \* report.failed events sent for each mail
  landed,     \* times each mail was moved to Failed
  opened,     \* mails opened after a requeue had cleared their flag
  faults, crashes, requeues   \* spent bounds

mailbox == <<folder, seen, landed, opened>>
db == <<rows, claim>>
worker == <<pc, todo, doc, tally, stage>>
cycle == <<batch, cur, moves, kick>>
requeue == <<rqAt, rqSet, requeues>>
outside == <<reply, heard, notices>>
vars == <<mailbox, db, worker, cycle, requeue, outside, faults, crashes>>

Parses(d) == KeyOf[d] # None
Deduped(d) == KindOf[d] # "forensic"
DedupKeys == {KeyOf[d] : d \in {e \in Docs : Parses(e) /\ Deduped(e)}}
KeyInHand(w) == KeyOf[doc[w]]

\* Mutant of Chain: the rollup is registered ahead of the webhook.
ChainRollupFirst(d) ==
  IF KindOf[d] = "aggregate" THEN <<"rollup", "webhook", "intel", "selectors">>
                             ELSE <<"webhook">>

\* Registration order in main.go; TLS and forensic reports go to the webhook
\* alone, by a direct NotifyEvent.
Chain(d) ==
  IF KindOf[d] = "aggregate" THEN <<"webhook", "rollup", "intel", "selectors">>
                             ELSE <<"webhook">>

\* processMail handles all aggregates, then all TLS reports, then all
\* forensic ones; the order among documents of one kind is left open.
Rank == [aggregate |-> 1, tlsrpt |-> 2, forensic |-> 3]
First(S) == {d \in S : \A e \in S : Rank[KindOf[d]] <= Rank[KindOf[e]]}

Fault == faults < MaxFaults /\ faults' = faults + 1

Init ==
  /\ folder = [m \in Mails |-> "absent"]
  /\ seen = {} /\ opened = {}
  /\ landed = [m \in Mails |-> 0]
  /\ rows = [k \in Keys |-> 0]
  /\ claim = [k \in Keys |-> None]
  /\ pc = [w \in Workers |-> "idle"]
  /\ todo = [w \in Workers |-> {}]
  /\ doc = [w \in Workers |-> None]
  /\ tally = [w \in Workers |-> {}]
  /\ stage = [w \in Workers |-> 0]
  /\ batch = {}
  /\ cur = None
  /\ moves = [f \in Filed |-> {}]
  /\ kick = FALSE
  /\ rqAt = "idle" /\ rqSet = {} /\ requeues = 0
  /\ reply = [u \in Uploads |-> "none"]
  /\ heard = [o \in Observers |-> [k \in Keys |-> 0]]
  /\ notices = [m \in Mails |-> 0]
  /\ faults = 0 /\ crashes = 0

-----------------------------------------------------------------------------
(* The mailbox, outside the program.                                       *)

\* The mail server delivers a mail.
Deliver(m) ==
  /\ folder[m] = "absent"
  /\ folder' = [folder EXCEPT ![m] = "INBOX"]
  /\ UNCHANGED <<seen, landed, opened, db, worker, cycle, requeue, outside, faults, crashes>>

\* Someone opens a failed mail in the webmail client, which flags it \Seen.
OpenFailedMail(m) ==
  /\ folder[m] = "Failed" /\ m \notin seen
  /\ seen' = seen \cup {m}
  /\ opened' = IF rqAt = "move" /\ m \in rqSet THEN opened \cup {m} ELSE opened
  /\ UNCHANGED <<folder, landed, db, worker, cycle, requeue, outside, faults, crashes>>

-----------------------------------------------------------------------------
(* Saving one document, by the poller or by an upload's handler.           *)

PickDoc(w, d) ==
  /\ pc[w] = "next"
  /\ d \in First(todo[w])
  /\ Parses(d)
  /\ pc' = [pc EXCEPT ![w] = "insert"]
  /\ todo' = [todo EXCEPT ![w] = @ \ {d}]
  /\ doc' = [doc EXCEPT ![w] = d]
  /\ UNCHANGED <<mailbox, db, tally, stage, cycle, requeue, outside, faults, crashes>>

\* Mutant of Duplicate: the caller announces without looking at "inserted".
DuplicateAnnounced(w) ==
  /\ pc[w] = "insert"
  /\ Deduped(doc[w]) /\ rows[KeyInHand(w)] > 0
  /\ pc' = [pc EXCEPT ![w] = "emit"]
  /\ tally' = [tally EXCEPT ![w] = @ \cup {"stored"}]
  /\ stage' = [stage EXCEPT ![w] = 0]
  /\ UNCHANGED <<mailbox, db, todo, doc, cycle, requeue, outside, faults, crashes>>

\* ON CONFLICT DO NOTHING found a committed row.
Duplicate(w) ==
  /\ pc[w] = "insert"
  /\ Deduped(doc[w]) /\ rows[KeyInHand(w)] > 0
  /\ pc' = [pc EXCEPT ![w] = "next"]
  /\ doc' = [doc EXCEPT ![w] = None]
  /\ tally' = [tally EXCEPT ![w] = @ \cup {"stored"}]
  /\ UNCHANGED <<mailbox, db, todo, stage, cycle, requeue, outside, faults, crashes>>

\* Mutant of CanInsert: look for the row first, with no unique index behind.
CanInsertUnindexed(w) == rows[KeyInHand(w)] = 0

CanInsert(w) == rows[KeyInHand(w)] = 0 /\ claim[KeyInHand(w)] = None

\* The report row goes in; a second inserter of the same identity waits on
\* the unique index until this transaction ends.
Insert(w) ==
  /\ pc[w] = "insert"
  /\ Deduped(doc[w]) /\ CanInsert(w)
  /\ pc' = [pc EXCEPT ![w] = "open"]
  /\ claim' = [claim EXCEPT ![KeyInHand(w)] = w]
  /\ UNCHANGED <<mailbox, rows, todo, doc, tally, stage, cycle, requeue, outside,
                 faults, crashes>>

\* Mutant of Commit: a new report is returned as a duplicate.
CommitUnannounced(w) ==
  /\ pc[w] = "open"
  /\ pc' = [pc EXCEPT ![w] = "next"]
  /\ rows' = [rows EXCEPT ![KeyInHand(w)] = @ + 1]
  /\ claim' = [claim EXCEPT ![KeyInHand(w)] = None]
  /\ tally' = [tally EXCEPT ![w] = @ \cup {"stored"}]
  /\ doc' = [doc EXCEPT ![w] = None]
  /\ UNCHANGED <<mailbox, todo, stage, cycle, requeue, outside, faults, crashes>>

\* The records are in and the commit succeeds.
Commit(w) ==
  /\ pc[w] = "open"
  /\ pc' = [pc EXCEPT ![w] = "emit"]
  /\ rows' = [rows EXCEPT ![KeyInHand(w)] = @ + 1]
  /\ claim' = [claim EXCEPT ![KeyInHand(w)] = None]
  /\ tally' = [tally EXCEPT ![w] = @ \cup {"stored", "new"}]
  /\ stage' = [stage EXCEPT ![w] = 0]
  /\ UNCHANGED <<mailbox, todo, doc, cycle, requeue, outside, faults, crashes>>

\* A forensic report is one plain INSERT.
SaveForensic(w) ==
  /\ pc[w] = "insert"
  /\ ~Deduped(doc[w])
  /\ pc' = [pc EXCEPT ![w] = "emit"]
  /\ rows' = [rows EXCEPT ![KeyInHand(w)] = @ + 1]
  /\ tally' = [tally EXCEPT ![w] = @ \cup {"stored", "new"}]
  /\ stage' = [stage EXCEPT ![w] = 0]
  /\ UNCHANGED <<mailbox, claim, todo, doc, cycle, requeue, outside, faults, crashes>>

\* Mutants of GiveUp: the mail is filed as processed; the upload is answered
\* 200; the poller goroutine ends with the error.
GiveUpAndFile(w) ==
  /\ pc' = [pc EXCEPT ![w] = IF w = Poller THEN "take" ELSE "done"]
  /\ todo' = [todo EXCEPT ![w] = {}]
  /\ doc' = [doc EXCEPT ![w] = None]
  /\ cur' = IF w = Poller THEN None ELSE cur
  /\ moves' = IF w = Poller THEN [moves EXCEPT !["Processed"] = @ \cup {cur}] ELSE moves
  /\ reply' = [u \in Uploads |-> IF u = w THEN "500" ELSE reply[u]]
  /\ UNCHANGED <<tally, stage, batch, kick, heard, notices>>
GiveUpQuietly(w) ==
  /\ pc' = [pc EXCEPT ![w] = IF w = Poller THEN "take" ELSE "done"]
  /\ todo' = [todo EXCEPT ![w] = {}]
  /\ doc' = [doc EXCEPT ![w] = None]
  /\ cur' = IF w = Poller THEN None ELSE cur
  /\ reply' = [u \in Uploads |-> IF u = w THEN "200" ELSE reply[u]]
  /\ UNCHANGED <<tally, stage, batch, moves, kick, heard, notices>>
GiveUpForGood(w) ==
  /\ pc' = [pc EXCEPT ![w] = "done"]
  /\ todo' = [todo EXCEPT ![w] = {}]
  /\ doc' = [doc EXCEPT ![w] = None]
  /\ cur' = IF w = Poller THEN None ELSE cur
  /\ reply' = [u \in Uploads |-> IF u = w THEN "500" ELSE reply[u]]
  /\ UNCHANGED <<tally, stage, batch, moves, kick, heard, notices>>

\* What the caller does with a store error: processMail returns
\* outcomeRetry and the mail stays unseen in the INBOX; ingest answers 500.
GiveUp(w) ==
  /\ pc' = [pc EXCEPT ![w] = IF w = Poller THEN "take" ELSE "done"]
  /\ todo' = [todo EXCEPT ![w] = {}]
  /\ doc' = [doc EXCEPT ![w] = None]
  /\ cur' = IF w = Poller THEN None ELSE cur
  /\ reply' = [u \in Uploads |-> IF u = w THEN "500" ELSE reply[u]]
  /\ UNCHANGED <<tally, stage, batch, moves, kick, heard, notices>>

\* Mutant of StoreFails: the transaction is not rolled back.
StoreFailsOpen(w) ==
  /\ pc[w] \in {"insert", "open"}
  /\ Fault
  /\ GiveUp(w)
  /\ UNCHANGED <<mailbox, db, requeue, crashes>>

\* A statement of the transaction fails and the deferred Rollback ends it.
StoreFails(w) ==
  /\ pc[w] \in {"insert", "open"}
  /\ Fault
  /\ claim' = [k \in Keys |-> IF claim[k] = w THEN None ELSE claim[k]]
  /\ GiveUp(w)
  /\ UNCHANGED <<mailbox, rows, requeue, crashes>>

\* The server commits but the connection breaks before the answer arrives:
\* the caller sees the same error as when nothing was stored.
CommitLost(w) ==
  /\ \/ pc[w] = "open"
     \/ pc[w] = "insert" /\ ~Deduped(doc[w])
  /\ crashes < MaxCrashes /\ crashes' = crashes + 1
  /\ rows' = [rows EXCEPT ![KeyInHand(w)] = @ + 1]
  /\ claim' = [k \in Keys |-> IF claim[k] = w THEN None ELSE claim[k]]
  /\ GiveUp(w)
  /\ UNCHANGED <<mailbox, requeue, faults>>

\* Registry.Emit: the observers run one after the other, in order.
ObserverDone(w) ==
  LET last == stage[w] + 1 = Len(Chain(doc[w])) IN
  /\ stage' = [stage EXCEPT ![w] = @ + 1]
  /\ pc' = [pc EXCEPT ![w] = IF last THEN "next" ELSE "emit"]
  /\ doc' = [doc EXCEPT ![w] = IF last THEN None ELSE @]
  /\ UNCHANGED <<mailbox, db, todo, tally, cycle, requeue, reply, notices, crashes>>

Emit(w) ==
  /\ pc[w] = "emit"
  /\ heard' = [heard EXCEPT ![Chain(doc[w])[stage[w] + 1]][KeyInHand(w)] = @ + 1]
  /\ ObserverDone(w)
  /\ UNCHANGED faults

\* An observer that needs the database logs its error, or panics and is
\* recovered; the next one runs all the same.
ObserverFails(w) ==
  /\ pc[w] = "emit"
  /\ stage[w] > 0
  /\ Fault
  /\ ObserverDone(w)
  /\ UNCHANGED heard

-----------------------------------------------------------------------------
(* The poll cycle.                                                         *)

Wanted == {m \in Mails : folder[m] = "INBOX" /\ m \notin seen}

\* The timer or a kick starts a cycle that connects, selects the INBOX,
\* searches the unseen mails and fetches them.
StartCycle ==
  /\ pc[Poller] = "idle"
  /\ kick' \in {kick, FALSE}
  /\ batch' = Wanted
  /\ pc' = [pc EXCEPT ![Poller] = IF Wanted = {} THEN "idle" ELSE "take"]
  /\ UNCHANGED <<mailbox, db, todo, doc, tally, stage, cur, moves, requeue, outside,
                 faults, crashes>>

\* One of those IMAP commands fails and the cycle returns its error.
StartFails ==
  /\ pc[Poller] = "idle"
  /\ Fault
  /\ kick' \in {kick, FALSE}
  /\ UNCHANGED <<mailbox, db, worker, batch, cur, moves, requeue, outside, crashes>>

\* An empty body, or a payload that cannot be extracted.
TakeUnreadable(m) ==
  /\ pc[Poller] = "take" /\ m \in batch
  /\ m \in Unreadable
  /\ batch' = batch \ {m}
  /\ moves' = [moves EXCEPT !["Failed"] = @ \cup {m}]
  /\ notices' = [notices EXCEPT ![m] = @ + 1]
  /\ UNCHANGED <<mailbox, db, worker, cur, kick, requeue, reply, heard,
                 faults, crashes>>

\* A mail without a report payload.
TakePlain(m) ==
  /\ pc[Poller] = "take" /\ m \in batch
  /\ m \notin Unreadable /\ Content[m] = {}
  /\ batch' = batch \ {m}
  /\ moves' = [moves EXCEPT !["Ignored"] = @ \cup {m}]
  /\ UNCHANGED <<mailbox, db, worker, cur, kick, requeue, outside,
                 faults, crashes>>

TakeReport(m) ==
  /\ pc[Poller] = "take" /\ m \in batch
  /\ m \notin Unreadable /\ Content[m] # {}
  /\ batch' = batch \ {m}
  /\ cur' = m
  /\ pc' = [pc EXCEPT ![Poller] = "next"]
  /\ todo' = [todo EXCEPT ![Poller] = Content[m]]
  /\ tally' = [tally EXCEPT ![Poller] = {}]
  /\ UNCHANGED <<mailbox, db, doc, stage, moves, kick, requeue, outside,
                 faults, crashes>>

\* A parse error is counted and the next document is tried.
SkipBad(d) ==
  /\ pc[Poller] = "next"
  /\ d \in First(todo[Poller])
  /\ ~Parses(d)
  /\ todo' = [todo EXCEPT ![Poller] = @ \ {d}]
  /\ tally' = [tally EXCEPT ![Poller] = @ \cup {"bad"}]
  /\ UNCHANGED <<mailbox, db, pc, doc, stage, cycle, requeue, outside, faults, crashes>>

\* Mutant of Outcome: any parse error sends the mail to Failed.
OutcomeStrict(t) == IF "bad" \in t THEN "Failed" ELSE "Processed"

Outcome(t) == IF "stored" \notin t /\ "bad" \in t THEN "Failed" ELSE "Processed"

\* Mutant of FinishMail: no report.failed event.
FinishMailSilently ==
  /\ pc[Poller] = "next"
  /\ todo[Poller] = {}
  /\ pc' = [pc EXCEPT ![Poller] = "take"]
  /\ cur' = None
  /\ moves' = [moves EXCEPT ![Outcome(tally[Poller])] = @ \cup {cur}]
  /\ UNCHANGED <<mailbox, db, todo, doc, tally, stage, batch, kick, requeue,
                 outside, faults, crashes>>

FinishMail ==
  /\ pc[Poller] = "next"
  /\ todo[Poller] = {}
  /\ pc' = [pc EXCEPT ![Poller] = "take"]
  /\ cur' = None
  /\ moves' = [moves EXCEPT ![Outcome(tally[Poller])] = @ \cup {cur}]
  /\ notices' = IF Outcome(tally[Poller]) = "Failed"
                THEN [notices EXCEPT ![cur] = @ + 1] ELSE notices
  /\ UNCHANGED <<mailbox, db, todo, doc, tally, stage, batch, kick, requeue,
                 reply, heard, faults, crashes>>

\* UID MOVE acts on the mails that are still in the selected folder.
MoveMails(S, from, to) ==
  /\ folder' = [m \in Mails |-> IF m \in S /\ folder[m] = from THEN to ELSE folder[m]]
  /\ landed' = [m \in Mails |-> IF m \in S /\ folder[m] = from /\ to = "Failed"
                                THEN landed[m] + 1 ELSE landed[m]]

\* Mutant of AllTaken: the moves start while the last mail is being saved.
NothingLeft == batch = {}

AllTaken == pc[Poller] = "take" /\ batch = {}

\* Mutant of MoveFolder: the collected mails are forgotten.
MoveFolderForgotten(f) ==
  /\ AllTaken
  /\ moves[f] # {}
  /\ moves' = [moves EXCEPT ![f] = {}]
  /\ UNCHANGED <<mailbox, db, worker, batch, cur, kick, requeue, outside,
                 faults, crashes>>

\* Go ranges over the moves map in any order.
MoveFolder(f) ==
  /\ AllTaken
  /\ moves[f] # {}
  /\ MoveMails(moves[f], "INBOX", f)
  /\ moves' = [moves EXCEPT ![f] = {}]
  /\ UNCHANGED <<seen, opened, db, worker, batch, cur, kick, requeue, outside,
                 faults, crashes>>

\* A failing MOVE may have moved some of the mails; the cycle ends there.
MoveFails(f) ==
  /\ AllTaken
  /\ moves[f] # {}
  /\ Fault
  /\ \E S \in SUBSET moves[f] : MoveMails(S, "INBOX", f)
  /\ moves' = [g \in Filed |-> {}]
  /\ pc' = [pc EXCEPT ![Poller] = "idle"]
  /\ UNCHANGED <<seen, opened, db, todo, doc, tally, stage, batch, cur, kick, requeue,
                 outside, crashes>>

EndCycle ==
  /\ AllTaken
  /\ \A f \in Filed : moves[f] = {}
  /\ pc' = [pc EXCEPT ![Poller] = "idle"]
  /\ UNCHANGED <<mailbox, db, todo, doc, tally, stage, cycle, requeue, outside,
                 faults, crashes>>

-----------------------------------------------------------------------------
(* POST /api/v1/ingest.                                                    *)

Receive(u) ==
  /\ pc[u] = "idle"
  /\ u \notin Unreadable /\ Content[u] # {}
  /\ pc' = [pc EXCEPT ![u] = "next"]
  /\ todo' = [todo EXCEPT ![u] = Content[u]]
  /\ UNCHANGED <<mailbox, db, doc, tally, stage, cycle, requeue, outside, faults, crashes>>

Answer(u, status) ==
  /\ pc' = [pc EXCEPT ![u] = "done"]
  /\ todo' = [todo EXCEPT ![u] = {}]
  /\ reply' = [reply EXCEPT ![u] = status]
  /\ UNCHANGED <<mailbox, db, doc, tally, stage, cycle, requeue, heard, notices,
                 faults, crashes>>

\* The body cannot be read or expanded, or holds no aggregate report.
RefuseBody(u) ==
  /\ pc[u] = "idle"
  /\ u \in Unreadable \/ Content[u] = {}
  /\ Answer(u, "400")

\* Mutant of RefuseBad: the handler goes on with the next document.
SkipBadInUpload(u, d) ==
  /\ pc[u] = "next"
  /\ d \in First(todo[u])
  /\ ~Parses(d)
  /\ todo' = [todo EXCEPT ![u] = @ \ {d}]
  /\ UNCHANGED <<mailbox, db, pc, doc, tally, stage, cycle, requeue, outside,
                 faults, crashes>>

\* The first document that does not parse ends the request; the documents
\* before it stay stored.
RefuseBad(u, d) ==
  /\ pc[u] = "next"
  /\ d \in First(todo[u])
  /\ ~Parses(d)
  /\ Answer(u, "400")

\* Mutant of FinishUpload: an upload without new reports is answered 204.
FinishUploadEmpty(u) ==
  /\ pc[u] = "next"
  /\ todo[u] = {}
  /\ Answer(u, IF "new" \in tally[u] THEN "201" ELSE "204")

FinishUpload(u) ==
  /\ pc[u] = "next"
  /\ todo[u] = {}
  /\ Answer(u, IF "new" \in tally[u] THEN "201" ELSE "200")

-----------------------------------------------------------------------------
(* POST /api/v1/poll and POST /api/v1/requeue-failed.                      *)

TriggerPoll ==
  /\ kick' = TRUE
  /\ UNCHANGED <<mailbox, db, worker, batch, cur, moves, requeue, outside, faults, crashes>>

RequeueSearch ==
  /\ rqAt = "idle" /\ requeues < MaxRequeues
  /\ \E m \in Mails : folder[m] = "Failed"
  /\ rqAt' = "unsee"
  /\ rqSet' = {m \in Mails : folder[m] = "Failed"}
  /\ requeues' = requeues + 1
  /\ UNCHANGED <<mailbox, db, worker, cycle, outside, faults, crashes>>

\* Mutant of RequeueUnsee: the flags stay.
RequeueKeepSeen ==
  /\ rqAt = "unsee"
  /\ rqAt' = "move"
  /\ UNCHANGED <<mailbox, db, worker, cycle, rqSet, requeues, outside, faults, crashes>>

RequeueUnsee ==
  /\ rqAt = "unsee"
  /\ rqAt' = "move"
  /\ seen' = seen \ rqSet
  /\ opened' = opened \ rqSet
  /\ UNCHANGED <<folder, landed, db, worker, cycle, rqSet, requeues, outside, faults, crashes>>

\* After the move the handler kicks the poller; the send is dropped when a
\* kick is already waiting.
RequeueMove ==
  /\ rqAt = "move"
  /\ rqAt' = "idle"
  /\ rqSet' = {}
  /\ MoveMails(rqSet, "Failed", "INBOX")
  /\ kick' = TRUE
  /\ UNCHANGED <<seen, opened, db, worker, batch, cur, moves, requeues, outside,
                 faults, crashes>>

\* STORE or MOVE fails, perhaps half way: 502 and no kick.
RequeueFails ==
  /\ rqAt # "idle"
  /\ Fault
  /\ rqAt' = "idle"
  /\ rqSet' = {}
  /\ \E S \in SUBSET rqSet :
       \/ rqAt = "unsee" /\ seen' = seen \ S /\ opened' = opened \ S /\ UNCHANGED <<folder, landed>>
       \/ rqAt = "move" /\ MoveMails(S, "Failed", "INBOX") /\ UNCHANGED <<seen, opened>>
  /\ UNCHANGED <<db, worker, cycle, requeues, outside, crashes>>

-----------------------------------------------------------------------------
\* The process dies and is started again; the database rolls its open
\* transactions back, the mailbox and the committed rows stay.
Crash ==
  /\ crashes < MaxCrashes /\ crashes' = crashes + 1
  /\ pc' = [w \in Workers |-> IF w = Poller \/ pc[w] = "idle" THEN "idle" ELSE "done"]
  /\ reply' = [u \in Uploads |->
                 IF pc[u] \in {"next", "insert", "open", "emit"} THEN "lost" ELSE reply[u]]
  /\ todo' = [w \in Workers |-> {}]
  /\ doc' = [w \in Workers |-> None]
  /\ claim' = [k \in Keys |-> None]
  /\ batch' = {} /\ cur' = None /\ moves' = [f \in Filed |-> {}]
  /\ kick' = FALSE
  /\ rqAt' = "idle" /\ rqSet' = {}
  /\ UNCHANGED <<mailbox, rows, tally, stage, requeues, heard, notices, faults>>

Saving(w) ==
  \/ \E d \in Docs : PickDoc(w, d)
  \/ Duplicate(w) \/ Insert(w) \/ Commit(w) \/ SaveForensic(w) \/ Emit(w)

PollerStep ==
  \/ Saving(Poller) \/ StartCycle \/ FinishMail \/ EndCycle
  \/ \E m \in Mails : TakeUnreadable(m) \/ TakePlain(m) \/ TakeReport(m)
  \/ \E d \in Docs : SkipBad(d)
  \/ \E f \in Filed : MoveFolder(f)

HandlerStep(u) ==
  \/ Saving(u) \/ RefuseBody(u) \/ FinishUpload(u)
  \/ \E d \in Docs : RefuseBad(u, d)

Failure ==
  \/ \E w \in Workers : StoreFails(w) \/ CommitLost(w) \/ ObserverFails(w)
  \/ StartFails \/ RequeueFails \/ Crash
  \/ \E f \in Filed : MoveFails(f)

Environment ==
  \/ \E m \in Mails : Deliver(m) \/ OpenFailedMail(m)
  \/ \E u \in Uploads : Receive(u)
  \/ TriggerPoll \/ RequeueSearch \/ RequeueUnsee \/ RequeueMove

Next == PollerStep \/ (\E u \in Uploads : HandlerStep(u)) \/ Failure \/ Environment

\* The poller goroutine's timer keeps firing and the Go scheduler runs every
\* ready goroutine; nothing is assumed of mail, requests or failures.
Fairness == WF_vars(PollerStep) /\ \A u \in Uploads : WF_vars(HandlerStep(u))

Spec == Init /\ [][Next]_vars
FairSpec == Spec /\ Fairness
-----------------------------------------------------------------------------
(* Properties.                                                             *)

MailboxType ==
  /\ folder \in [Mails -> Folders \cup {"absent"}]
  /\ seen \subseteq Mails
  /\ landed \in [Mails -> Nat] /\ opened \subseteq Mails

StoreType ==
  /\ rows \in [Keys -> Nat]
  /\ claim \in [Keys -> Workers \cup {None}]

WorkerType ==
  /\ pc \in [Workers -> Labels]
  /\ todo \in [Workers -> SUBSET Docs]
  /\ doc \in [Workers -> Docs \cup {None}]
  /\ tally \in [Workers -> SUBSET {"stored", "bad", "new"}]
  /\ stage \in [Workers -> 0..4]

CycleType ==
  /\ batch \subseteq Mails
  /\ cur \in Mails \cup {None}
  /\ moves \in [Filed -> SUBSET Mails]
  /\ kick \in BOOLEAN

RequeueType ==
  /\ rqAt \in {"idle", "unsee", "move"}
  /\ rqSet \subseteq Mails
  /\ requeues \in 0..MaxRequeues

OutsideType ==
  /\ reply \in [Uploads -> Replies]
  /\ heard \in [Observers -> [Keys -> Nat]]
  /\ notices \in [Mails -> Nat]

BoundsType == faults \in 0..MaxFaults /\ crashes \in 0..MaxCrashes

\* Every variable stays in its type.
TypeOK ==
  /\ MailboxType /\ StoreType /\ WorkerType /\ CycleType
  /\ RequeueType /\ OutsideType /\ BoundsType

\* "Duplicates never reach observers, so counters never double" (README.md:198):
\* whoever stores a report first, poller or upload, in whatever order they
\* race and through retries and crashes, one row is stored and no observer
\* handles it twice, nor before it is committed.
AnnouncedOnce ==
  \A k \in DedupKeys :
    /\ rows[k] <= 1
    /\ \A o \in Observers : heard[o][k] <= rows[k]

\* The contents that belong in a folder.
Fits(m, f) ==
  CASE f = "Processed" ->
         /\ \A d \in Content[m] : Parses(d) => rows[KeyOf[d]] > 0
         /\ \E d \in Content[m] : Parses(d)
    [] f = "Failed" ->
         /\ m \in Unreadable \/ Content[m] # {}
         /\ \A d \in Content[m] : ~Parses(d)
    [] f = "Ignored" -> Content[m] = {} /\ m \notin Unreadable

\* A mail is in the folder its contents ask for: Processed only when every
\* document of it that parses is in the database (none was lost to a store
\* error, a crash or a failing move) and there is one, Failed only when
\* nothing of it could be stored, Ignored only when it carried no report.
FilingIsRight == \A m \in Mails : \A f \in Filed : folder[m] = f => Fits(m, f)

\* A mail waiting in the INBOX is visible to the poller's UNSEEN search, the
\* requeued ones included: requeue-failed moves "all `Failed` mail back to INBOX
\* (unseen)" (README.md:329). Its two commands (api_platform.go:191-198) break
\* this for a mail that a client opens in between, and for no other.
InboxIsUnseen == \A m \in Mails : folder[m] = "INBOX" /\ m \in seen => m \in opened

\* An upload answered 200 or 201 has all its documents in the database.
AnswerIsTrue ==
  \A u \in Uploads : reply[u] \in {"200", "201"} =>
    \A d \in Content[u] : Parses(d) /\ rows[KeyOf[d]] > 0

\* A forensic report has no unique index, so a mail processed again stores
\* it again; that happens only after something failed: without a fault or a
\* crash there is one row per copy received.
ForensicOnceIfCalm ==
  faults + crashes = 0 =>
    \A k \in Keys \ DedupKeys : rows[k] <= Cardinality({d \in Docs : KeyOf[d] = k})

\* Nobody's failure is silent: whenever a mail was moved to Failed, a
\* report.failed event had gone out for it.
FailureIsReported == \A m \in Mails : landed[m] <= notices[m]

\* A mail leaves the INBOX only while the poller holds no unfinished mail,
\* goes back only from Failed, and no mail ever disappears.
MailNeverLost ==
  [][\A m \in Mails : folder'[m] # folder[m] =>
       \/ folder[m] \in {"absent", "Failed"} /\ folder'[m] = "INBOX"
       \/ folder[m] = "INBOX" /\ folder'[m] \in Filed /\ cur = None]_vars

\* Once failures stop, every mail that arrives is filed, unless a client opened
\* it in the middle of its requeue, which hides it from the poller.
EveryMailFiled ==
  \A m \in Mails : folder[m] = "INBOX" ~> folder[m] \in Filed \/ m \in opened

\* Every request that got in is answered, or lost in a crash.
EveryUploadAnswered ==
  \A u \in Uploads : pc[u] = "next" ~> reply[u] # "none"

\* "For every newly stored aggregate report, emit" (README.md:195): a stored
\* report is announced to the webhook, the first observer.
StoredIsAnnounced ==
  \A k \in DedupKeys : rows[k] > 0 ~> heard["webhook"][k] > 0

\* The same promise as far as the code keeps it: a stored report reaches the
\* webhook whatever the later observers and the other documents of its mail
\* run into, unless the process dies or the commit's answer is lost.
AnnouncedUnlessCrash ==
  \A k \in DedupKeys : rows[k] > 0 ~> heard["webhook"][k] > 0 \/ crashes > 0

\* The promise to the rest of the system, and its implementation here.
Ledger == INSTANCE ReportLedger WITH
  Keys <- DedupKeys,
  Leader <- "webhook",
  Carries <- [m \in Mails |-> {KeyOf[d] : d \in {e \in Content[m] : Parses(e) /\ Deduped(e)}}],
  stored <- [k \in DedupKeys |-> rows[k]],
  told <- [o \in Observers |-> [k \in DedupKeys |-> heard[o][k]]],
  place <- folder

\* The ingest path implements the report ledger.
ImplementsLedger == Ledger!Spec

-----------------------------------------------------------------------------
(* The inductive invariant that AnnouncedOnce and FilingIsRight need.      *)

\* A worker that saves or announces holds a document that parses.
InHand ==
  \A w \in Workers : pc[w] \in {"insert", "open", "emit"} =>
    doc[w] \in Docs /\ Parses(doc[w])

\* An open transaction holds the index entry of an identity nobody stored.
OpenHoldsClaim ==
  \A w \in Workers : pc[w] = "open" =>
    Deduped(doc[w]) /\ claim[KeyInHand(w)] = w /\ rows[KeyInHand(w)] = 0

\* An announcer's report is stored and the observers still to run have not
\* heard of it.
EmitIsFirst ==
  \A w \in Workers : pc[w] = "emit" =>
    /\ rows[KeyInHand(w)] > 0
    /\ stage[w] < Len(Chain(doc[w]))
    /\ Deduped(doc[w]) =>
         \A j \in stage[w] + 1 .. Len(Chain(doc[w])) :
           heard[Chain(doc[w])[j]][KeyInHand(w)] = 0

\* No two workers announce the same report.
EmitIsAlone ==
  \A v, w \in Workers :
    pc[v] = "emit" /\ pc[w] = "emit" /\ KeyInHand(v) = KeyInHand(w) /\ Deduped(doc[w])
      => v = w

\* What the poller knows of the mail in hand.
Handled(m) == Content[m] \ (todo[Poller] \cup {doc[Poller]})
MailInHand ==
  /\ cur # None <=> pc[Poller] \in {"next", "insert", "open", "emit"}
  /\ cur = None => doc[Poller] = None
  /\ cur # None =>
       /\ cur \notin Unreadable /\ Content[cur] # {}
       /\ todo[Poller] \subseteq Content[cur]
       /\ doc[Poller] \in Content[cur] \cup {None}
       /\ pc[Poller] = "next" <=> doc[Poller] = None
       /\ "stored" \in tally[Poller] => \E d \in Content[cur] : Parses(d)
       /\ \A d \in Handled(cur) :
            IF Parses(d) THEN rows[KeyOf[d]] > 0 /\ "stored" \in tally[Poller]
                         ELSE "bad" \in tally[Poller]
       /\ pc[Poller] = "emit" => "stored" \in tally[Poller]

MovesAreRight == \A f \in Filed : \A m \in moves[f] : Fits(m, f)

IInv ==
  /\ TypeOK
  /\ AnnouncedOnce /\ InHand /\ OpenHoldsClaim /\ EmitIsFirst /\ EmitIsAlone
  /\ FilingIsRight /\ MailInHand /\ MovesAreRight
=============================================================================
