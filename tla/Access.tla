------------------------------- MODULE Access -------------------------------
(***************************************************************************)
(* The way of a request through parser/internal/api: PARSER_API_KEYS, the  *)
(* auth middleware with its rate limit, the audit middleware inside it,    *)
(* RequireScope, and the handlers of POST /ingest and GET /export.  Audit  *)
(* rows are inserted by goroutines nobody waits for.                       *)
(*                                                                         *)
(* Tokens of a limiter come one per unit of time.  A report stands for its *)
(* serial, and SaveReport is one step: its races are those of Ingest.      *)
(***************************************************************************)
EXTENDS Faults, SequencesExt

CONSTANTS
  KeyLists,    \* values of PARSER_API_KEYS: sequences of entries
  Requests,    \* requests that may come: [id, key, route, body]
  Broken,      \* a document that does not parse
  Burst,       \* burst of a limiter
  MaxNow       \* bound: the clock

Scopes == {"read", "ingest", "admin"}

\* An entry: form "bare" for key, "full" for name=key=scopes, or "other".
ASSUME AccessAssumption ==
  /\ \A list \in KeyLists :
       /\ list \in Seq(ToSet(list))
       /\ \A i \in DOMAIN list : DOMAIN list[i] = {"form", "name", "key", "scopes"}
                                /\ list[i].form \in {"bare", "full", "other"}
  /\ IsFiniteSet(Requests)
  /\ \A q \in Requests : /\ q.route \in {"ingest", "export"}
                         /\ q.body \in Seq(ToSet(q.body))
                         /\ q.route = "ingest" => q.body # <<>>
  /\ \A q, p \in Requests : q.id = p.id => q = p
  /\ Burst \in Nat \ {0} /\ MaxNow \in Nat

VARIABLES
  keys,        \* Config.APIKeys, None before the program has read it
  now,         \* the clock
  tokens,      \* limiters: tokens by key name, below zero when promised ahead
  lastEvent,   \* limiters: when the last promised token is due
  phase,       \* where each request is
  actsAt,      \* Reservation: when its token is due
  docsLeft,    \* ingest: documents still to be saved
  results,     \* ingest: [serial, duplicate] of those saved
  answer,      \* status the client gets
  saw,         \* ww.Status(): the status the audit middleware saw
  detail,      \* serials the handler put into the audit detail
  rows,        \* parser_audit: [of, actor, status, serials]
  reports      \* report: [serial, by] with the request that stored it

limiter == <<now, tokens, lastEvent, actsAt>>
upload == <<docsLeft, results, reports>>
accessVars == <<keys, limiter, phase, upload, answer, saw, detail, rows>>

AccessInit ==
  /\ keys = None /\ now = 0 /\ tokens = <<>> /\ lastEvent = <<>>
  /\ phase = [q \in Requests |-> "out"] /\ actsAt = [q \in Requests |-> 0]
  /\ docsLeft = [q \in Requests |-> <<>>] /\ results = [q \in Requests |-> <<>>]
  /\ answer = [q \in Requests |-> 0] /\ saw = [q \in Requests |-> 0]
  /\ detail = [q \in Requests |-> {}] /\ rows = {} /\ reports = {}
-----------------------------------------------------------------------------
(* parseAPIKeys.                                                           *)

ParsedKey(e) ==
  IF e.form = "bare" THEN [name |-> "default", key |-> e.key, scopes |-> Scopes]
  ELSE [name |-> e.name, key |-> e.key,
        scopes |-> (e.scopes \cap Scopes) \cup IF "*" \in e.scopes THEN Scopes ELSE {}]

EntryIsGood(e) ==
  /\ e.form # "other" /\ e.key # None
  /\ e.form = "full" => e.scopes \subseteq Scopes \cup {"*"} /\ e.scopes # {}

\* Otherwise the program does not start.
LoadKeys ==
  /\ keys = None
  /\ \E list \in KeyLists :
       /\ \A i \in DOMAIN list : EntryIsGood(list[i])
       /\ keys' = [i \in DOMAIN list |-> ParsedKey(list[i])]
  /\ LET names == {keys'[i].name : i \in DOMAIN keys'}
     IN  tokens' = [n \in names |-> Burst] /\ lastEvent' = [n \in names |-> 0]
  /\ UNCHANGED <<now, phase, actsAt, upload, answer, saw, detail, rows>> /\ Well
-----------------------------------------------------------------------------
(* auth.                                                                   *)

Matches(q) == {i \in DOMAIN keys : keys[i].key = q.key}

\* matchKey: the first entry counts.
Match(q) == keys[CHOOSE i \in Matches(q) : \A j \in Matches(q) : i <= j]

NameOfKey(q) == Match(q).name

Comes(q) == keys # None /\ phase[q] = "out"

RefuseKey(q) ==
  /\ Comes(q) /\ Matches(q) = {}
  /\ answer' = [answer EXCEPT ![q] = IF keys = <<>> THEN 503 ELSE 401]
  /\ phase' = [phase EXCEPT ![q] = "answered"]
  /\ UNCHANGED <<keys, limiter, upload, saw, detail, rows>> /\ Well

\* Mutant of Allows: the request that empties the bucket is not the last.
AllowsOneMore(n) == tokens[n] >= 0

Allows(n) == tokens[n] >= 1

\* Reserve always takes a token, one due later if there is none.
Reserve(q) ==
  LET n == NameOfKey(q)
      due == IF Allows(n) THEN now ELSE now + 1 - tokens[n]
  IN  /\ Comes(q) /\ Matches(q) # {}
      /\ tokens' = [tokens EXCEPT ![n] = @ - 1]
      /\ actsAt' = [actsAt EXCEPT ![q] = due]
      /\ lastEvent' = [lastEvent EXCEPT ![n] = due]
      /\ phase' = [phase EXCEPT ![q] = IF Allows(n) THEN "handler" ELSE "limited"]
      /\ UNCHANGED <<keys, now, upload, answer, saw, detail, rows>> /\ Well

\* Cancel: the limiter takes a token back that is still due and was the last
\* one promised.
CancelReservation(q) ==
  LET n == NameOfKey(q)
      back == actsAt[q] >= now /\ actsAt[q] = lastEvent[n]
  IN  /\ phase[q] = "limited"
      /\ tokens' = IF back THEN [tokens EXCEPT ![n] = @ + 1] ELSE tokens
      /\ lastEvent' = IF back /\ actsAt[q] > now THEN [lastEvent EXCEPT ![n] = @ - 1]
                                                 ELSE lastEvent
      /\ answer' = [answer EXCEPT ![q] = 429]
      /\ phase' = [phase EXCEPT ![q] = "answered"]
      /\ UNCHANGED <<keys, now, actsAt, upload, saw, detail, rows>> /\ Well

TokensCome ==
  /\ keys # None /\ now < MaxNow
  /\ now' = now + 1
  /\ tokens' = [n \in DOMAIN tokens |-> IF tokens[n] < Burst THEN tokens[n] + 1 ELSE Burst]
  /\ UNCHANGED <<keys, lastEvent, actsAt, phase, upload, answer, saw, detail, rows>> /\ Well
-----------------------------------------------------------------------------
(* RequireScope and the handlers.                                          *)

ScopeOf(route) == IF route = "ingest" THEN "ingest" ELSE "read"
MayEnter(q) == phase[q] = "handler" /\ ScopeOf(q.route) \in Match(q).scopes

\* The handler returns, having written code.
Answers(q, code) ==
  /\ answer' = [answer EXCEPT ![q] = code] /\ saw' = [saw EXCEPT ![q] = code]
  /\ phase' = [phase EXCEPT ![q] = "record"]

RefuseScope(q) ==
  /\ phase[q] = "handler" /\ ~MayEnter(q)
  /\ Answers(q, 403)
  /\ UNCHANGED <<keys, limiter, upload, detail, rows>> /\ Well

\* The body is read and expanded.
ReadBody(q) ==
  /\ MayEnter(q) /\ q.route = "ingest"
  /\ docsLeft' = [docsLeft EXCEPT ![q] = q.body]
  /\ phase' = [phase EXCEPT ![q] = "docs"]
  /\ UNCHANGED <<keys, limiter, results, reports, answer, saw, detail, rows>> /\ Well

\* The body is cut off, too long, or cannot be expanded; or the format or a
\* date of an export is wrong.
RefuseInput(q) ==
  /\ MayEnter(q)
  /\ Answers(q, 400)
  /\ UNCHANGED <<keys, limiter, upload, detail, rows>> /\ Well

NextDoc(q) == phase[q] = "docs" /\ docsLeft[q] # <<>>
Doc(q) == Head(docsLeft[q])
Known(k) == \E r \in reports : r.serial = k

SaveDoc(q) ==
  /\ NextDoc(q) /\ Doc(q) # Broken
  /\ results' = [results EXCEPT ![q] =
       Append(@, [serial |-> Doc(q), duplicate |-> Known(Doc(q))])]
  /\ reports' = IF Known(Doc(q)) THEN reports
                ELSE reports \cup {[serial |-> Doc(q), by |-> q.id]}
  /\ docsLeft' = [docsLeft EXCEPT ![q] = Tail(@)]
  /\ UNCHANGED <<keys, limiter, phase, answer, saw, detail, rows>> /\ Well

RefuseDoc(q) ==
  /\ NextDoc(q) /\ Doc(q) = Broken
  /\ Answers(q, 400)
  /\ UNCHANGED <<keys, limiter, upload, detail, rows>> /\ Well

SaveDocFails(q) ==
  /\ NextDoc(q) /\ Doc(q) # Broken
  /\ Fault
  /\ Answers(q, 500)
  /\ UNCHANGED <<keys, limiter, upload, detail, rows>>

\* Mutant of NewSerials: all of them, duplicates as well.
NewSerialsAll(q) == {r.serial : r \in ToSet(results[q])}

NewSerials(q) == {r.serial : r \in {s \in ToSet(results[q]) : ~s.duplicate}}

FinishIngest(q) ==
  /\ phase[q] = "docs" /\ docsLeft[q] = <<>>
  /\ detail' = [detail EXCEPT ![q] = NewSerials(q)]
  /\ Answers(q, IF \A r \in ToSet(results[q]) : r.duplicate THEN 200 ELSE 201)
  /\ UNCHANGED <<keys, limiter, upload, rows>> /\ Well

Export(q) ==
  /\ MayEnter(q) /\ q.route = "export"
  /\ Answers(q, 200)
  /\ UNCHANGED <<keys, limiter, upload, detail, rows>> /\ Well

\* The query fails: nothing is written, so the middleware sees no status and
\* net/http sends 200.  A stream that breaks off later is a 200 to both.
ExportFails(q) ==
  /\ MayEnter(q) /\ q.route = "export"
  /\ Fault
  /\ \/ Answers(q, 200)
     \/ /\ answer' = [answer EXCEPT ![q] = 200]
        /\ phase' = [phase EXCEPT ![q] = "record"] /\ UNCHANGED saw
  /\ UNCHANGED <<keys, limiter, upload, detail, rows>>
-----------------------------------------------------------------------------
(* Middleware and Record.                                                  *)

Row(q) == [of |-> q.id, actor |-> NameOfKey(q), status |-> saw[q], serials |-> detail[q]]

InsertRow(q) ==
  /\ phase[q] = "record"
  /\ rows' = rows \cup {Row(q)}
  /\ phase' = [phase EXCEPT ![q] = "answered"]
  /\ UNCHANGED <<keys, limiter, upload, answer, saw, detail>> /\ Well

InsertRowFails(q) ==
  /\ phase[q] = "record"
  /\ Fault
  /\ phase' = [phase EXCEPT ![q] = "answered"]
  /\ UNCHANGED <<keys, limiter, upload, answer, saw, detail, rows>>

\* The process dies or is shut down: rows not yet inserted are lost, and the
\* limiters start full.
AccessCrash ==
  /\ keys # None
  /\ Crash
  /\ phase' = [q \in Requests |-> IF phase[q] = "out" THEN "out" ELSE "answered"]
  /\ tokens' = [n \in DOMAIN tokens |-> Burst] /\ lastEvent' = [n \in DOMAIN tokens |-> 0]
  /\ UNCHANGED <<keys, now, actsAt, upload, answer, saw, detail, rows>>
-----------------------------------------------------------------------------
AccessNext ==
  \/ LoadKeys \/ TokensCome \/ AccessCrash
  \/ \E q \in Requests :
       \/ RefuseKey(q) \/ Reserve(q) \/ CancelReservation(q) \/ RefuseScope(q)
       \/ ReadBody(q) \/ RefuseInput(q) \/ SaveDoc(q) \/ RefuseDoc(q) \/ SaveDocFails(q)
       \/ FinishIngest(q)
       \/ Export(q) \/ ExportFails(q) \/ InsertRow(q) \/ InsertRowFails(q)

AccessTypeOK ==
  /\ now \in 0..MaxNow
  /\ phase \in [Requests -> {"out", "limited", "handler", "docs", "record", "answered"}]
  /\ \A n \in DOMAIN tokens : tokens[n] <= Burst
  /\ answer \in [Requests -> {0, 200, 201, 400, 401, 403, 429, 500, 503}]
  /\ \A r \in rows : DOMAIN r = {"of", "actor", "status", "serials"}

\* A row of the audit log is true: there is one at most of a request, of the
\* name whose key it came with and whose scopes let it into the handler, with the
\* status the client got (or 0, when a failing query wrote none).  A request that
\* went past its limiter has one unless a statement failed or the process ended.
\* What a row names as stored was stored by its request, and the row of an upload
\* that was accepted names all it stored; what that of a refused upload should
\* name is left open (README.md:498).  And no name has more rows, those of
\* refusals for the rate apart, than its limiter lets requests in.
AuditTellsAccess ==
  /\ \A q \in Requests :
       LET own == {r \in rows : r.of = q.id}
       IN  /\ Cardinality(own) <= 1
           /\ \A r \in own :
                /\ answer[q] \notin {0, 401, 503}
                /\ r.status = answer[q] \/ (r.status = 0 /\ faults > 0)
                /\ \E i \in DOMAIN keys :
                     /\ keys[i].key = q.key /\ keys[i].name = r.actor
                     /\ answer[q] \notin {403, 429} => ScopeOf(q.route) \in keys[i].scopes
           /\ phase[q] = "answered" /\ answer[q] \in {200, 201, 400, 403, 500}
                /\ faults = 0 /\ crashes = 0 => own # {}
  /\ \A r \in rows, k \in reports :
       LET taken == \E q \in Requests : q.id = r.of /\ answer[q] \in {200, 201}
       IN  /\ k.serial \in r.serials => k.by = r.of
           /\ k.by = r.of /\ taken => k.serial \in r.serials
  /\ keys # None => \A n \in DOMAIN tokens :
       Cardinality({r \in rows : r.actor = n /\ r.status # 429}) <= Burst * (1 + crashes) + now

\* The audit log has "every authenticated API request" (audit.go:1) that is
\* over, those the rate limit refused too: their key was a good one.  The code
\* answers these before the audit middleware (api.go:158-170).
EveryRequestAudited ==
  faults = 0 /\ crashes = 0 =>
    \A q \in Requests :
      phase[q] = "answered" /\ answer[q] \notin {401, 503} => \E r \in rows : r.of = q.id
=============================================================================
