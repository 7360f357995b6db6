---------------------------- MODULE AccessProofs ----------------------------
(***************************************************************************)
(* Theorems about what the API tells: the audit log of Access tells of     *)
(* each request what is true and complete, for any keys and requests       *)
(* (AuditIsTrue); by the score of Readiness a domain that does better      *)
(* never loses by it (ScoreIsMonotone), and its recommendation goes no     *)
(* further than the numbers allow (AdviceIsSafe), for any totals.          *)
(* At the end the types of all the services, the tokens of the limiters    *)
(* among them (TypesAreRight).                                             *)
(***************************************************************************)
EXTENDS ServicesProofs, Integers, SequenceTheorems, WellFoundedInduction

-----------------------------------------------------------------------------
(* Keys.                                                                   *)

Admitted == {"handler", "docs", "record"}
KeyNames == {keys[i].name : i \in DOMAIN keys}

LEMMA RequestFacts ==
  /\ IsFiniteSet(Requests) /\ Burst \in Nat \ {0} /\ MaxNow \in Nat
  /\ \A q \in Requests : q.body \in Seq(ToSet(q.body))
  /\ \A q, p \in Requests : q.id = p.id => q = p
  BY AccessAssumption DEF AccessAssumption

LEMMA MatchIs ==
  ASSUME NEW q \in Requests, Matches(q) # {}, DOMAIN keys \subseteq Nat
  PROVE  \E i \in DOMAIN keys : keys[i].key = q.key /\ Match(q) = keys[i]
<1>1. Matches(q) \subseteq DOMAIN keys /\ \A i \in Matches(q) : keys[i].key = q.key
  BY DEF Matches
<1>2. \E i \in Matches(q) : \A j \in Matches(q) : ~(<<j, i>> \in OpToRel(<, Nat))
  <2>1. Matches(q) \subseteq Nat
    BY <1>1
  <2> DEFINE Less == OpToRel(<, Nat)
  <2>2. IsWellFoundedOn(Less, Nat)
    BY NatLessThanWellFounded, Zenon
  <2> HIDE DEF Less
  <2>3. \E i \in Matches(q) : \A j \in Matches(q) : ~(<<j, i>> \in Less)
    BY <2>1, <2>2, WFMin
  <2> QED
    BY <2>3 DEF Less
<1>3. \E i \in Matches(q) : \A j \in Matches(q) : i <= j
  <2>1. PICK i \in Matches(q) : \A j \in Matches(q) :
               ~(<<j, i>> \in {ss \in Nat \X Nat : ss[1] < ss[2]})
    BY <1>2, Zenon DEF OpToRel
  <2>2. ASSUME NEW j \in Matches(q)
        PROVE  i <= j
    <3>1. i \in Nat /\ j \in Nat
      BY <1>1
    <3>2. ~(j < i)
      <4> SUFFICES ASSUME j < i PROVE FALSE
        OBVIOUS
      <4>1. <<j, i>> \in Nat \X Nat /\ <<j, i>>[1] = j /\ <<j, i>>[2] = i
        BY <3>1
      <4>2. <<j, i>>[1] < <<j, i>>[2]
        BY <4>1
      <4>3. <<j, i>> \in {ss \in Nat \X Nat : ss[1] < ss[2]}
        BY <4>1, <4>2
      <4> QED
        BY <2>1, <4>3
    <3> QED
      BY <3>1, <3>2
  <2> QED
    BY <2>2
<1> QED
  BY <1>1, <1>3 DEF Match

-----------------------------------------------------------------------------
(* Each request: the audit middleware sees what the client gets, and a row *)
(* is only inserted for a request that is over.                            *)

Codes == {200, 201, 400, 403, 500}
Bodies == UNION {ToSet(q.body) : q \in Requests}
Saved == [serial : Bodies, duplicate : BOOLEAN]

AccessShape ==
  /\ faults \in Nat /\ crashes \in Nat /\ now \in Nat
  /\ phase \in [Requests -> {"out", "limited", "handler", "docs", "record", "answered"}]
  /\ DOMAIN answer = Requests /\ DOMAIN saw = Requests /\ DOMAIN detail = Requests
  /\ answer = [q \in Requests |-> answer[q]] /\ saw = [q \in Requests |-> saw[q]]
  /\ detail = [q \in Requests |-> detail[q]]
  /\ docsLeft \in [Requests -> Seq(Bodies)] /\ results \in [Requests -> Seq(Saved)]

\* Nobody comes before the keys are read.
KeysFirst ==
  IF keys = None THEN (\A q \in Requests : phase[q] = "out") /\ rows = {} /\ reports = {}
                 ELSE DOMAIN keys \subseteq Nat /\ DOMAIN tokens = KeyNames

\* What holds of the answer of an admitted request.
Proper(q) ==
  /\ answer[q] \in Codes
  /\ saw[q] = answer[q] \/ (saw[q] = 0 /\ faults > 0)
  /\ Matches(q) # {}
  /\ answer[q] # 403 => ScopeOf(q.route) \in Match(q).scopes

RequestIsRight(q) ==
  /\ phase[q] \in Admitted \cup {"limited"} => Matches(q) # {} /\ keys # None
  /\ phase[q] \in {"out", "limited", "handler"} => results[q] = <<>>
  /\ phase[q] \in {"out", "limited", "handler", "docs"} => answer[q] = 0 /\ saw[q] = 0
  /\ phase[q] = "docs" => ScopeOf(q.route) \in Match(q).scopes
  /\ phase[q] = "record" => Proper(q)
  /\ phase[q] = "answered" /\ answer[q] \in Codes /\ faults = 0 /\ crashes = 0 =>
       \E r \in rows : r.of = q.id

RowIsRight(r) ==
  \E q \in Requests : phase[q] = "answered" /\ Proper(q) /\ r = Row(q)

RequestInv ==
  /\ AccessShape /\ KeysFirst
  /\ \A q \in Requests : RequestIsRight(q)
  /\ \A r \in rows : RowIsRight(r)

-----------------------------------------------------------------------------
(* Each report: the request that stored it, and only that one, has it      *)
(* among the new serials of its results.                                   *)

Accepted(q) == answer[q] \in {200, 201}

ReportInv ==
  /\ \A k, l \in reports : k.serial = l.serial => k = l
  /\ \A q \in Requests :
       /\ NewSerials(q) \subseteq {k.serial : k \in reports}
       /\ \A k \in reports : k.by = q.id <=> k.serial \in NewSerials(q)
       /\ detail[q] = IF Accepted(q) THEN NewSerials(q) ELSE {}

-----------------------------------------------------------------------------
(* Each name: rows and requests on their way to one are paid with tokens.  *)

RowsOf(n) == {r \in rows : r.actor = n}
InsideOf(n) == {q \in Requests : phase[q] \in Admitted /\ NameOfKey(q) = n}
WaitingOf(n) == {q \in Requests : phase[q] = "limited" /\ NameOfKey(q) = n}
Ever == Burst * (1 + crashes) + now

RateInv ==
  /\ IsFiniteSet(rows)
  /\ keys # None => \A n \in DOMAIN tokens :
       LET paid == Cardinality(RowsOf(n)) + Cardinality(InsideOf(n))
       IN  /\ tokens[n] \in Int
           /\ paid <= Ever
           /\ paid + Cardinality(WaitingOf(n)) + tokens[n] <= Ever

-----------------------------------------------------------------------------
(* Requests: every step keeps RequestInv.                                  *)

LEMMA OneAnswers ==
  ASSUME AccessShape, NEW q \in Requests, NEW c, answer' = [answer EXCEPT ![q] = c]
  PROVE  /\ answer'[q] = c /\ \A p \in Requests \ {q} : answer'[p] = answer[p]
         /\ DOMAIN answer' = Requests /\ answer' = [p \in Requests |-> answer'[p]]
  BY DEF AccessShape

\* One request moves on, the keys have been read.
MovesAlone(q) ==
  /\ keys # None /\ UNCHANGED keys /\ DOMAIN tokens' = DOMAIN tokens /\ phase[q] # "answered"
  /\ \A p \in Requests \ {q} : /\ phase'[p] = phase[p] /\ answer'[p] = answer[p]
                              /\ saw'[p] = saw[p] /\ detail'[p] = detail[p]
                              /\ results'[p] = results[p]
  /\ faults' \in Nat /\ faults' >= faults /\ crashes' = crashes

LEMMA OneMoves ==
  ASSUME RequestInv, NEW q \in Requests, MovesAlone(q), AccessShape', RequestIsRight(q)',
         rows \subseteq rows', \A r \in rows' \ rows : RowIsRight(r)'
  PROVE  RequestInv'
<1>1. faults \in Nat /\ crashes \in Nat
  BY DEF RequestInv, AccessShape
<1>2. KeysFirst'
  BY DEF RequestInv, KeysFirst, KeyNames, MovesAlone
<1>3. ASSUME NEW p \in Requests \ {q}
      PROVE  /\ Proper(p) => Proper(p)' 
             /\ Row(p)' = Row(p) /\ RequestIsRight(p)'
  <2>1. Proper(p) => Proper(p)'
    BY <1>1 DEF Proper, Matches, Match, MovesAlone
  <2>2. Row(p)' = Row(p)
    BY DEF Row, NameOfKey, Match, Matches, MovesAlone
  <2>3. RequestIsRight(p)
    BY DEF RequestInv
  <2>4. RequestIsRight(p)'
    BY <1>1, <2>1, <2>3 DEF RequestIsRight, Matches, Match, MovesAlone
  <2> QED
    BY <2>1, <2>2, <2>4
<1>4. ASSUME NEW r \in rows
      PROVE  RowIsRight(r)'
  <2>1. PICK p \in Requests : phase[p] = "answered" /\ Proper(p) /\ r = Row(p)
    BY DEF RequestInv, RowIsRight
  <2>2. p \in Requests \ {q}
    BY <2>1 DEF MovesAlone
  <2>3. phase'[p] = "answered" /\ Proper(p)' /\ r = Row(p)'
    BY <1>3, <2>1, <2>2 DEF MovesAlone
  <2> QED
    BY <2>3 DEF RowIsRight
<1>5. \A p \in Requests : RequestIsRight(p)'
  BY <1>3
<1>6. \A r \in rows' : RowIsRight(r)'
  BY <1>4
<1> QED
  BY <1>2, <1>5, <1>6 DEF RequestInv

\* The handler returns.
Returns(q) ==
  \/ RefuseScope(q) \/ RefuseInput(q) \/ RefuseDoc(q) \/ SaveDocFails(q)
  \/ FinishIngest(q) \/ Export(q) \/ ExportFails(q)

LEMMA ReturnsAre ==
  ASSUME RequestInv, NEW q \in Requests, Returns(q)
  PROVE  /\ UNCHANGED <<keys, limiter, upload, rows, crashes>>
         /\ phase[q] \in {"handler", "docs"} /\ phase' = [phase EXCEPT ![q] = "record"]
         /\ faults' \in Nat /\ faults' >= faults
         /\ \E c \in Codes : /\ answer' = [answer EXCEPT ![q] = c]
                             /\ c # 403 => ScopeOf(q.route) \in Match(q).scopes
                             /\ \/ saw' = [saw EXCEPT ![q] = c]
                                \/ saw' = saw /\ faults' > 0
         /\ \/ FinishIngest(q)
            \/ UNCHANGED detail /\ (answer'[q] \in {200, 201} => results[q] = <<>>)
<1>1. RequestIsRight(q) /\ AccessShape
  BY DEF RequestInv
<1>2. CASE RefuseScope(q)
  BY <1>1, <1>2 DEF RefuseScope, Answers, Codes, Well, mishaps, AccessShape
<1>3. CASE RefuseInput(q)
  BY <1>1, <1>3 DEF RefuseInput, MayEnter, Answers, Codes, Well, mishaps, AccessShape
<1>4. CASE RefuseDoc(q)
  BY <1>1, <1>4 DEF RefuseDoc, NextDoc, Answers, Codes, Well, mishaps, AccessShape, RequestIsRight
<1>5. CASE SaveDocFails(q)
  BY <1>1, <1>5 DEF SaveDocFails, NextDoc, Answers, Codes, Fault, AccessShape, RequestIsRight
<1>6. CASE FinishIngest(q)
  <2> DEFINE c == IF \A r \in ToSet(results[q]) : r.duplicate THEN 200 ELSE 201
  <2>1. c \in {200, 201}
    OBVIOUS
  <2> HIDE DEF c
  <2>2. /\ answer' = [answer EXCEPT ![q] = c] /\ saw' = [saw EXCEPT ![q] = c]
        /\ phase' = [phase EXCEPT ![q] = "record"] /\ phase[q] = "docs"
        /\ UNCHANGED <<keys, limiter, upload, rows, faults, crashes>>
    BY <1>6 DEF FinishIngest, Answers, Well, mishaps, c
  <2>3. faults' \in Nat /\ faults' >= faults /\ ScopeOf(q.route) \in Match(q).scopes /\ c \in Codes
    BY <1>1, <2>1, <2>2 DEF AccessShape, RequestIsRight, Codes
  <2> QED
    BY <1>6, <2>2, <2>3
<1>7. CASE Export(q)
  BY <1>1, <1>7 DEF Export, MayEnter, Answers, Codes, Well, mishaps, AccessShape, RequestIsRight
<1>8. CASE ExportFails(q)
  BY <1>1, <1>8 DEF ExportFails, MayEnter, Answers, Codes, Fault, AccessShape, RequestIsRight
<1> QED
  BY <1>2, <1>3, <1>4, <1>5, <1>6, <1>7, <1>8 DEF Returns

LEMMA ReturnsKeepRequests ==
  ASSUME RequestInv, NEW q \in Requests, Returns(q)
  PROVE  RequestInv'
<1>1. RequestIsRight(q) /\ AccessShape /\ keys # None /\ Matches(q) # {} /\ phase[q] # "answered"
  BY ReturnsAre DEF RequestInv, RequestIsRight, Admitted
<1>2. PICK c \in Codes : /\ answer' = [answer EXCEPT ![q] = c]
                         /\ c # 403 => ScopeOf(q.route) \in Match(q).scopes
                         /\ \/ saw' = [saw EXCEPT ![q] = c]
                            \/ saw' = saw /\ faults' > 0
  BY ReturnsAre
<1>3. /\ UNCHANGED <<keys, limiter, upload, rows, crashes>>
      /\ phase[q] \in {"handler", "docs"} /\ phase' = [phase EXCEPT ![q] = "record"]
      /\ faults' \in Nat /\ faults' >= faults
  BY ReturnsAre
<1>4. detail' = detail \/ detail' = [detail EXCEPT ![q] = NewSerials(q)]
  BY ReturnsAre DEF FinishIngest
<1>5. AccessShape'
  BY <1>1, <1>2, <1>3, <1>4 DEF AccessShape, limiter, upload
<1>6. Proper(q)'
  BY <1>1, <1>2, <1>3 DEF Proper, AccessShape, RequestIsRight, Matches, Match
<1>7. RequestIsRight(q)'
  BY <1>1, <1>3, <1>6 DEF RequestIsRight, AccessShape, Admitted, Matches
<1>8. MovesAlone(q)
  BY <1>1, <1>2, <1>3, <1>4 DEF AccessShape, upload, limiter, MovesAlone
<1> QED
  BY <1>3, <1>5, <1>7, <1>8, OneMoves

LEMMA WalksKeepRequests ==
  ASSUME RequestInv, NEW q \in Requests,
         \/ RefuseKey(q) \/ Reserve(q) \/ CancelReservation(q) \/ ReadBody(q)
         \/ InsertRow(q) \/ InsertRowFails(q)
  PROVE  RequestInv'
<1>1. RequestIsRight(q) /\ AccessShape
  BY DEF RequestInv
<1>2. CASE RefuseKey(q)
  <2>1. /\ phase' = [phase EXCEPT ![q] = "answered"] /\ phase[q] = "out" /\ keys # None
        /\ UNCHANGED <<keys, limiter, upload, saw, detail, rows, faults, crashes>>
        /\ answer' = [answer EXCEPT ![q] = IF keys = <<>> THEN 503 ELSE 401]
    BY <1>2 DEF RefuseKey, Comes, Well, mishaps
  <2>2. /\ answer'[q] \in {503, 401} /\ \A p \in Requests \ {q} : answer'[p] = answer[p]
        /\ DOMAIN answer' = Requests /\ answer' = [p \in Requests |-> answer'[p]]
    <3>1. PICK c \in {503, 401} : answer' = [answer EXCEPT ![q] = c]
      BY <2>1
    <3>2. /\ answer'[q] = c /\ \A p \in Requests \ {q} : answer'[p] = answer[p]
          /\ DOMAIN answer' = Requests /\ answer' = [p \in Requests |-> answer'[p]]
      BY <1>1, <3>1, OneAnswers
    <3> QED
      BY <3>2
  <2>3. AccessShape'
    BY <1>1, <2>1, <2>2 DEF limiter, upload, AccessShape
  <2>4. RequestIsRight(q)'
    BY <1>1, <2>1, <2>2 DEF AccessShape, RequestIsRight, Admitted, Codes
  <2>5. MovesAlone(q)
    BY <1>1, <2>1, <2>2 DEF limiter, upload, AccessShape, MovesAlone
  <2> QED
    BY <2>1, <2>3, <2>4, <2>5, OneMoves
<1>3. CASE Reserve(q)
  <2>1. /\ \E p \in {"handler", "limited"} : phase' = [phase EXCEPT ![q] = p]
        /\ phase[q] = "out" /\ keys # None /\ Matches(q) # {} /\ DOMAIN tokens' = DOMAIN tokens
        /\ UNCHANGED <<keys, now, upload, answer, saw, detail, rows, faults, crashes>>
    BY <1>3 DEF Reserve, Comes, Well, mishaps
  <2>2. AccessShape'
    BY <1>1, <2>1 DEF limiter, upload, AccessShape
  <2>3. RequestIsRight(q)'
    BY <1>1, <2>1 DEF upload, AccessShape, RequestIsRight, Admitted, Codes, Matches, Match
  <2>4. MovesAlone(q)
    BY <1>1, <2>1 DEF limiter, upload, AccessShape, RequestIsRight, Admitted, MovesAlone
  <2> QED
    BY <2>1, <2>2, <2>3, <2>4, OneMoves
<1>4. CASE CancelReservation(q)
  <2>1. /\ answer' = [answer EXCEPT ![q] = 429]
        /\ phase' = [phase EXCEPT ![q] = "answered"] /\ phase[q] = "limited"
        /\ DOMAIN tokens' = DOMAIN tokens
        /\ UNCHANGED <<keys, now, upload, saw, detail, rows, faults, crashes>>
    BY <1>4 DEF CancelReservation, Well, mishaps
  <2>2. AccessShape'
    BY <1>1, <2>1 DEF limiter, upload, AccessShape
  <2>3. RequestIsRight(q)'
    BY <1>1, <2>1 DEF upload, AccessShape, RequestIsRight, Admitted, Codes, Matches, Match
  <2>4. MovesAlone(q)
    BY <1>1, <2>1 DEF limiter, upload, AccessShape, RequestIsRight, Admitted, MovesAlone
  <2> QED
    BY <2>1, <2>2, <2>3, <2>4, OneMoves
<1>5. CASE ReadBody(q)
  <2>1. q.body \in Seq(Bodies)
    <3>1. ToSet(q.body) \subseteq Bodies
      BY DEF Bodies
    <3> QED
      BY <3>1, RequestFacts, SeqMonotonic
  <2>2. /\ docsLeft' = [docsLeft EXCEPT ![q] = q.body]
        /\ phase' = [phase EXCEPT ![q] = "docs"] /\ phase[q] = "handler"
        /\ ScopeOf(q.route) \in Match(q).scopes
        /\ UNCHANGED <<keys, limiter, results, answer, saw, detail, rows, faults, crashes>>
    BY <1>5 DEF ReadBody, MayEnter, Well, mishaps
  <2>3. AccessShape'
    BY <1>1, <2>1, <2>2 DEF limiter, upload, AccessShape
  <2>4. RequestIsRight(q)'
    BY <1>1, <2>1, <2>2 DEF upload, AccessShape, RequestIsRight, Admitted, Codes, Matches, Match
  <2>5. MovesAlone(q)
    BY <1>1, <2>1, <2>2 DEF limiter, upload, AccessShape, RequestIsRight, Admitted, MovesAlone
  <2> QED
    BY <2>2, <2>3, <2>4, <2>5, OneMoves
<1>6. CASE InsertRow(q)
  <2>1. Row(q)' = Row(q) /\ Proper(q)' /\ Row(q).of = q.id
    BY <1>1, <1>6 DEF InsertRow, Row, NameOfKey, Match, Matches, Proper, RequestIsRight, Well,
                      mishaps
  <2>2. phase'[q] = "answered"
    BY <1>1, <1>6 DEF InsertRow, AccessShape
  <2>3. rows' = rows \cup {Row(q)}
    BY <1>6 DEF InsertRow
  <2>4. \A r \in rows' \ rows : RowIsRight(r)'
    BY <2>1, <2>2, <2>3 DEF RowIsRight
  <2>5. AccessShape'
    BY <1>1, <1>6 DEF InsertRow, Well, mishaps, AccessShape, limiter, upload
  <2>6. RequestIsRight(q)'
    BY <2>1, <2>2, <2>3 DEF RequestIsRight, Admitted
  <2>7. MovesAlone(q)
    BY <1>1, <1>6 DEF InsertRow, limiter, upload, Well, mishaps, RequestIsRight, Admitted,
                      AccessShape, MovesAlone
  <2> QED
    BY <2>3, <2>4, <2>5, <2>6, <2>7, OneMoves
<1>7. CASE InsertRowFails(q)
  <2>1. AccessShape' /\ RequestIsRight(q)' /\ MovesAlone(q)
    BY <1>1, <1>7 DEF InsertRowFails, Fault, AccessShape, limiter, upload, RequestIsRight,
                      Admitted, MovesAlone
  <2> QED
    BY <1>7, <2>1, OneMoves DEF InsertRowFails
<1> QED
  BY <1>2, <1>3, <1>4, <1>5, <1>6, <1>7

LEMMA SavesKeepRequests ==
  ASSUME RequestInv, NEW q \in Requests, SaveDoc(q)
  PROVE  RequestInv'
<1>1. RequestIsRight(q) /\ AccessShape
  BY DEF RequestInv
<1>2. docsLeft[q] \in Seq(Bodies) /\ docsLeft[q] # <<>> /\ results[q] \in Seq(Saved)
  BY <1>1 DEF SaveDoc, NextDoc, AccessShape
<1>3. Head(docsLeft[q]) \in Bodies /\ Tail(docsLeft[q]) \in Seq(Bodies)
  BY <1>2, HeadTailProperties
<1>4. [serial |-> Doc(q), duplicate |-> Known(Doc(q))] \in Saved
  BY <1>3 DEF Saved, Doc, Known
<1>5. /\ results' = [results EXCEPT ![q] =
                      Append(@, [serial |-> Doc(q), duplicate |-> Known(Doc(q))])]
      /\ docsLeft' = [docsLeft EXCEPT ![q] = Tail(@)]
      /\ UNCHANGED <<keys, limiter, phase, answer, saw, detail, rows, faults, crashes>>
      /\ phase[q] = "docs"
  BY DEF SaveDoc, NextDoc, Well, mishaps
<1>6. AccessShape'
  <2>1. Append(results[q], [serial |-> Doc(q), duplicate |-> Known(Doc(q))]) \in Seq(Saved)
    BY <1>2, <1>4
  <2>2. results' \in [Requests -> Seq(Saved)] /\ docsLeft' \in [Requests -> Seq(Bodies)]
    BY <1>1, <1>3, <1>5, <2>1 DEF AccessShape
  <2> QED
    BY <1>1, <1>5, <2>2 DEF AccessShape, limiter
<1>7. RequestIsRight(q)'
  BY <1>1, <1>5 DEF RequestIsRight, Admitted, Matches, Match
<1>8. MovesAlone(q)
  BY <1>1, <1>5 DEF RequestIsRight, Admitted, AccessShape, limiter, MovesAlone
<1> QED
  BY <1>5, <1>6, <1>7, <1>8, OneMoves

LEMMA AllMovesKeepRequests ==
  ASSUME RequestInv, LoadKeys \/ TokensCome \/ AccessCrash
  PROVE  RequestInv'
<1>1. AccessShape /\ KeysFirst
  BY DEF RequestInv
<1>2. CASE LoadKeys
  <2>1. AccessShape'
    BY <1>1, <1>2 DEF LoadKeys, AccessShape, upload, Well, mishaps
  <2>2. KeysFirst'
    <3>1. PICK list \in KeyLists : keys' = [i \in DOMAIN list |-> ParsedKey(list[i])]
      BY <1>2 DEF LoadKeys
    <3>2. DOMAIN list \subseteq Nat
      <4>1. list \in Seq(ToSet(list))
        BY AccessAssumption DEF AccessAssumption
      <4> QED
        BY <4>1, LenProperties
    <3>3. DOMAIN keys' \subseteq Nat
      BY <3>1, <3>2
    <3>4. DOMAIN tokens' = {keys'[i].name : i \in DOMAIN keys'}
      BY <1>2 DEF LoadKeys
    <3>5. (\A q \in Requests : phase'[q] = "out") /\ rows' = {} /\ reports' = {}
      BY <1>1, <1>2 DEF LoadKeys, KeysFirst, upload
    <3> QED
      BY <3>3, <3>4, <3>5 DEF KeysFirst, KeyNames
  <2>3. /\ UNCHANGED <<phase, answer, saw, results>> /\ rows' = {}
        /\ \A q \in Requests : phase[q] = "out"
    BY <1>1, <1>2 DEF LoadKeys, KeysFirst, upload
  <2>4. ASSUME NEW q \in Requests
        PROVE  RequestIsRight(q)'
    BY <2>3 DEF RequestInv, RequestIsRight, Admitted
  <2> QED
    BY <2>1, <2>2, <2>3, <2>4 DEF RequestInv
<1>3. CASE TokensCome
  <2>1. AccessShape'
    BY <1>1, <1>3 DEF TokensCome, AccessShape, upload, Well, mishaps
  <2>2. UNCHANGED <<keys, phase, answer, saw, detail, rows, reports, results, faults, crashes>>
    BY <1>3 DEF TokensCome, upload, Well, mishaps
  <2>3. KeysFirst'
    BY <1>1, <1>3, <2>2 DEF TokensCome, KeysFirst, KeyNames
  <2>4. \A q \in Requests : RequestIsRight(q)'
    BY <2>2 DEF RequestInv, RequestIsRight, Proper, Matches, Match
  <2>5. \A r \in rows' : RowIsRight(r)'
    BY <2>2 DEF RequestInv, RowIsRight, Row, NameOfKey, Proper, Matches, Match
  <2> QED
    BY <2>1, <2>3, <2>4, <2>5 DEF RequestInv
<1>4. CASE AccessCrash
  <2>1. /\ UNCHANGED <<keys, answer, saw, detail, rows, reports, results, faults>>
        /\ keys # None /\ crashes' = crashes + 1
        /\ phase' = [q \in Requests |-> IF phase[q] = "out" THEN "out" ELSE "answered"]
    BY <1>4 DEF AccessCrash, upload, Crash
  <2>2. AccessShape'
    BY <1>1, <1>4 DEF AccessCrash, AccessShape, upload, Crash
  <2>3. KeysFirst'
    BY <1>1, <1>4, <2>1 DEF AccessCrash, KeysFirst, KeyNames
  <2>4. ASSUME NEW q \in Requests
        PROVE  RequestIsRight(q)'
    BY <1>1, <2>1 DEF RequestInv, RequestIsRight, Admitted, AccessShape
  <2>5. \A r \in rows' : RowIsRight(r)'
    BY <2>1 DEF RequestInv, RowIsRight, Row, NameOfKey, Proper, Matches, Match
  <2> QED
    BY <2>2, <2>3, <2>4, <2>5 DEF RequestInv
<1> QED
  BY <1>2, <1>3, <1>4

LEMMA RequestsStay == RequestInv /\ [Next]_vars => RequestInv'
<1> SUFFICES ASSUME RequestInv, [Next]_vars PROVE RequestInv'
  OBVIOUS
<1>1. CASE AccessNext
  BY <1>1, ReturnsKeepRequests, WalksKeepRequests, SavesKeepRequests, AllMovesKeepRequests
     DEF AccessNext, Returns
<1>2. CASE UNCHANGED accessVars
  <2>1. AccessShape /\ KeysFirst
    BY DEF RequestInv
  <2>2. MishapsGrow
    BY <2>1, MishapsOnlyGrow DEF AccessShape
  <2>3. UNCHANGED <<keys, tokens, now, phase, answer, saw, detail, rows, reports, results,
                    docsLeft>>
    BY <1>2 DEF accessVars, limiter, upload
  <2>4. AccessShape' /\ KeysFirst'
    BY <2>1, <2>2, <2>3 DEF AccessShape, KeysFirst, KeyNames, MishapsGrow
  <2>5. /\ faults \in Nat /\ faults' \in Nat /\ faults' >= faults
        /\ crashes \in Nat /\ crashes' \in Nat /\ crashes' >= crashes
    BY <2>1, <2>2 DEF AccessShape, MishapsGrow
  <2>6. ASSUME NEW q \in Requests
        PROVE  /\ Proper(q) => Proper(q)'
               /\ Row(q)' = Row(q) /\ RequestIsRight(q)'
    <3>1. Proper(q) => Proper(q)'
      BY <2>3, <2>5 DEF Proper, Matches, Match
    <3>2. Row(q)' = Row(q)
      BY <2>3 DEF Row, NameOfKey, Match, Matches
    <3>3. RequestIsRight(q)'
      <4>1. RequestIsRight(q) /\ Matches(q)' = Matches(q) /\ Match(q)' = Match(q)
        BY <2>3 DEF RequestInv, Matches, Match
      <4>2. faults' = 0 /\ crashes' = 0 => faults = 0 /\ crashes = 0
        BY <2>5
      <4> QED
        BY <2>3, <3>1, <4>1, <4>2 DEF RequestIsRight
    <3> QED
      BY <3>1, <3>2, <3>3
  <2>7. \A r \in rows' : RowIsRight(r)'
    BY <2>3, <2>6 DEF RequestInv, RowIsRight
  <2> QED
    BY <2>4, <2>6, <2>7 DEF RequestInv
<1> QED
  BY <1>1, <1>2 DEF Next, vars, AccessStep, IntelStep, SelectorsStep, RetentionStep, DigestStep,
                    ExtractStep, ReadinessStep

LEMMA RequestsStart == Init => RequestInv
<1> SUFFICES ASSUME Init PROVE RequestInv
  OBVIOUS
<1>1. \A S : <<>> \in Seq(S)
  BY EmptySeq
<1>2. AccessShape /\ KeysFirst
  BY <1>1 DEF Init, AccessInit, MishapsInit, AccessShape, KeysFirst
<1>3. \A q \in Requests : RequestIsRight(q)
  BY DEF Init, AccessInit, RequestIsRight, Admitted
<1> QED
  BY <1>2, <1>3 DEF RequestInv, Init, AccessInit

-----------------------------------------------------------------------------
(* Reports: every step keeps ReportInv.                                    *)

\* A request that stores nothing.
LEMMA NothingStored ==
  ASSUME RequestInv, ReportInv, UNCHANGED <<reports, results>>, NEW q \in Requests,
         \A p \in Requests \ {q} : answer'[p] = answer[p] /\ detail'[p] = detail[p],
         detail'[q] = IF answer'[q] \in {200, 201} THEN NewSerials(q) ELSE {}
  PROVE  ReportInv'
<1>1. \A p \in Requests : NewSerials(p)' = NewSerials(p)
  BY DEF NewSerials
<1>2. ASSUME NEW p \in Requests
      PROVE  detail'[p] = IF Accepted(p)' THEN NewSerials(p)' ELSE {}
  BY <1>1 DEF ReportInv, Accepted
<1> QED
  BY <1>1, <1>2 DEF ReportInv

LEMMA NewSerialsGrow ==
  ASSUME AccessShape, NEW q \in Requests, NEW e, e \in Saved,
         results' = [results EXCEPT ![q] = Append(@, e)]
  PROVE  /\ NewSerials(q)' = NewSerials(q) \cup (IF e.duplicate THEN {} ELSE {e.serial})
         /\ \A p \in Requests \ {q} : NewSerials(p)' = NewSerials(p)
<1>1. results[q] \in Seq(Saved) /\ results'[q] = Append(results[q], e)
  BY DEF AccessShape
<1>2. ToSet(results'[q]) = ToSet(results[q]) \cup {e}
  <2> DEFINE s == results[q]
  <2> HIDE DEF s
  <2>1. s \in Seq(Saved) /\ Len(s) \in Nat /\ DOMAIN s = 1..Len(s)
    BY <1>1, LenProperties DEF s
  <2>2. /\ DOMAIN Append(s, e) = 1..(Len(s) + 1)
        /\ \A i \in 1..(Len(s) + 1) : Append(s, e)[i] = IF i <= Len(s) THEN s[i] ELSE e
    BY <2>1
  <2>3. ToSet(Append(s, e)) \subseteq ToSet(s) \cup {e}
    BY <2>1, <2>2 DEF ToSet
  <2>4. ASSUME NEW i \in DOMAIN s
        PROVE  s[i] \in ToSet(Append(s, e))
    <3>1. i \in 1..(Len(s) + 1) /\ i <= Len(s)
      BY <2>1
    <3> QED
      BY <2>2, <3>1 DEF ToSet
  <2>5. e \in ToSet(Append(s, e))
    <3>1. Len(s) + 1 \in 1..(Len(s) + 1) /\ ~(Len(s) + 1 <= Len(s))
      BY <2>1
    <3> QED
      BY <2>2, <3>1 DEF ToSet
  <2> QED
    BY <1>1, <2>3, <2>4, <2>5 DEF ToSet, s
<1>3. NewSerials(q)' = {r.serial : r \in {x \in ToSet(results[q]) \cup {e} : ~x.duplicate}}
  BY <1>2 DEF NewSerials
<1>4. \A p \in Requests \ {q} : results'[p] = results[p]
  BY DEF AccessShape
<1> QED
  BY <1>3, <1>4 DEF NewSerials

LEMMA ReportsStay == RequestInv /\ ReportInv /\ [Next]_vars => ReportInv'
<1> SUFFICES ASSUME RequestInv, ReportInv, [Next]_vars PROVE ReportInv'
  OBVIOUS
<1>1. AccessShape
  BY DEF RequestInv
<1>2. ASSUME UNCHANGED <<answer, results, reports, detail>>
      PROVE  ReportInv'
  <2>1. \A q \in Requests : NewSerials(q)' = NewSerials(q) /\ Accepted(q)' = Accepted(q)
    BY <1>2 DEF NewSerials, Accepted
  <2> QED
    BY <1>2, <2>1 DEF ReportInv
<1>3. ASSUME NEW q \in Requests, Returns(q)
      PROVE  ReportInv'
  <2>1. UNCHANGED upload /\ \A p \in Requests \ {q} : answer'[p] = answer[p]
    BY <1>1, <1>3, ReturnsAre DEF AccessShape
  <2>2. CASE FinishIngest(q)
    <3>1. detail' = [detail EXCEPT ![q] = NewSerials(q)]
      BY <2>2 DEF FinishIngest
    <3>2. answer'[q] \in {200, 201}
      <4> DEFINE c == IF \A r \in ToSet(results[q]) : r.duplicate THEN 200 ELSE 201
      <4>1. answer' = [answer EXCEPT ![q] = c]
        BY <2>2 DEF FinishIngest, Answers
      <4>2. c \in {200, 201}
        OBVIOUS
      <4> QED
        BY <1>1, <4>1, <4>2 DEF AccessShape
    <3>3. detail'[q] = NewSerials(q) /\ \A p \in Requests \ {q} : detail'[p] = detail[p]
      BY <1>1, <3>1 DEF AccessShape
    <3>4. UNCHANGED <<reports, results>>
      BY <2>1 DEF upload
    <3> QED
      BY <2>1, <3>2, <3>3, <3>4, NothingStored
  <2>3. CASE UNCHANGED detail /\ (answer'[q] \in {200, 201} => results[q] = <<>>)
    <3>1. answer[q] = 0
      BY <1>3, ReturnsAre DEF RequestInv, RequestIsRight
    <3>2. detail[q] = {}
      BY <3>1 DEF ReportInv, Accepted
    <3>3. results[q] = <<>> => NewSerials(q) = {}
      <4>1. ToSet(<<>>) = {}
        BY DEF ToSet
      <4> QED
        BY <4>1 DEF NewSerials
    <3>4. detail'[q] = IF answer'[q] \in {200, 201} THEN NewSerials(q) ELSE {}
      BY <2>3, <3>2, <3>3
    <3> QED
      BY <2>1, <2>3, <3>4, NothingStored DEF upload
  <2> QED
    BY <1>3, <2>2, <2>3, ReturnsAre
<1>4. ASSUME NEW q \in Requests, RefuseKey(q) \/ CancelReservation(q)
      PROVE  ReportInv'
  <2>1. /\ UNCHANGED <<reports, results, detail>>
        /\ \E c \in {503, 401, 429} : answer' = [answer EXCEPT ![q] = c]
    BY <1>4 DEF RefuseKey, CancelReservation, upload
  <2>2. answer[q] = 0
    BY <1>4 DEF RequestInv, RequestIsRight, RefuseKey, Comes, CancelReservation
  <2>3. /\ answer'[q] \in {503, 401, 429}
        /\ \A p \in Requests \ {q} : answer'[p] = answer[p]
    <3>1. PICK c \in {503, 401, 429} : answer' = [answer EXCEPT ![q] = c]
      BY <2>1
    <3>2. /\ answer'[q] = c /\ \A p \in Requests \ {q} : answer'[p] = answer[p]
          /\ DOMAIN answer' = Requests /\ answer' = [p \in Requests |-> answer'[p]]
      BY <1>1, <3>1, OneAnswers
    <3> QED
      BY <3>2
  <2>4. detail[q] = {}
    BY <2>2 DEF ReportInv, Accepted
  <2> QED
    BY <2>1, <2>3, <2>4, NothingStored
<1>5. ASSUME NEW q \in Requests, SaveDoc(q)
      PROVE  ReportInv'
  <2> DEFINE k == Doc(q)
             e == [serial |-> k, duplicate |-> Known(k)]
             new == [serial |-> k, by |-> q.id]
  <2>1. /\ results' = [results EXCEPT ![q] = Append(@, e)] /\ UNCHANGED <<answer, detail>>
        /\ reports' = IF Known(k) THEN reports ELSE reports \cup {new}
        /\ answer[q] = 0
    BY <1>5 DEF SaveDoc, NextDoc, RequestInv, RequestIsRight
  <2>2. e \in Saved
    <3>1. docsLeft[q] \in Seq(Bodies) /\ docsLeft[q] # <<>>
      BY <1>1, <1>5 DEF SaveDoc, NextDoc, AccessShape
    <3>2. k \in Bodies
      BY <3>1, HeadTailProperties DEF Doc
    <3> QED
      BY <3>2 DEF Saved, Known
  <2>3. /\ NewSerials(q)' = NewSerials(q) \cup (IF Known(k) THEN {} ELSE {k})
        /\ \A p \in Requests \ {q} : NewSerials(p)' = NewSerials(p)
    <3>1. e.serial = k /\ e.duplicate = Known(k)
      OBVIOUS
    <3> HIDE DEF e, k
    <3> QED
      BY <1>1, <2>1, <2>2, <3>1, NewSerialsGrow
  <2> HIDE DEF k
  <2>4. \A p \in Requests : detail'[p] = IF Accepted(p)' THEN NewSerials(p)' ELSE {}
    BY <2>1, <2>3 DEF ReportInv, Accepted
  <2>5. CASE Known(k)
    <3>1. reports' = reports /\ \A p \in Requests : NewSerials(p)' = NewSerials(p)
      BY <2>1, <2>3, <2>5
    <3> QED
      BY <2>4, <3>1 DEF ReportInv
  <2>6. CASE ~Known(k)
    <3>1. \A l \in reports : l.serial # k
      BY <2>6 DEF Known
    <3>2. reports' = reports \cup {new} /\ new.serial = k /\ new.by = q.id
      BY <2>1, <2>6
    <3>3. \A l, m \in reports' : l.serial = m.serial => l = m
      BY <3>1, <3>2 DEF ReportInv
    <3>4. NewSerials(q)' = NewSerials(q) \cup {k}
      BY <2>3, <2>6
    <3> HIDE DEF new
    <3>5. ASSUME NEW p \in Requests
          PROVE  /\ NewSerials(p)' \subseteq {l.serial : l \in reports'}
                 /\ \A l \in reports' : l.by = p.id <=> l.serial \in NewSerials(p)'
      <4>1. NewSerials(p) \subseteq {l.serial : l \in reports} /\ k \notin NewSerials(p)
        BY <3>1 DEF ReportInv
      <4>2. NewSerials(p)' = IF p = q THEN NewSerials(p) \cup {k} ELSE NewSerials(p)
        BY <2>3, <3>4
      <4>3. NewSerials(p)' \subseteq {l.serial : l \in reports'}
        BY <3>2, <4>1, <4>2
      <4>4. ASSUME NEW l \in reports
            PROVE  l.by = p.id <=> l.serial \in NewSerials(p)'
        BY <3>1, <4>2 DEF ReportInv
      <4>5. new.by = p.id <=> new.serial \in NewSerials(p)'
        BY <3>2, <4>1, <4>2, RequestFacts
      <4> QED
        BY <3>2, <4>3, <4>4, <4>5
    <3> QED
      BY <2>4, <3>3, <3>5 DEF ReportInv
  <2> QED
    BY <2>5, <2>6
<1>6. ASSUME NEW q \in Requests, \/ Reserve(q) \/ ReadBody(q) \/ InsertRow(q) \/ InsertRowFails(q)
      PROVE  ReportInv'
  BY <1>2, <1>6 DEF Reserve, ReadBody, InsertRow, InsertRowFails, upload
<1>7. ASSUME LoadKeys \/ TokensCome \/ AccessCrash
      PROVE  ReportInv'
  BY <1>2, <1>7 DEF LoadKeys, TokensCome, AccessCrash, upload
<1>8. CASE UNCHANGED accessVars
  BY <1>2, <1>8 DEF accessVars, upload
<1>9. CASE AccessNext
  BY <1>3, <1>4, <1>5, <1>6, <1>7, <1>9 DEF AccessNext, Returns
<1> QED
  BY <1>8, <1>9 DEF Next, vars, AccessStep, IntelStep, SelectorsStep, RetentionStep, DigestStep,
                    ExtractStep, ReadinessStep

LEMMA ReportsStart == Init => ReportInv
<1> SUFFICES ASSUME Init PROVE ReportInv
  OBVIOUS
<1>1. ASSUME NEW q \in Requests
      PROVE  NewSerials(q) = {} /\ detail[q] = {}
  <2>1. results[q] = <<>> /\ detail[q] = {}
    BY DEF Init, AccessInit
  <2>2. ToSet(<<>>) = {}
    BY DEF ToSet
  <2> QED
    BY <2>1, <2>2 DEF NewSerials
<1> QED
  BY <1>1 DEF ReportInv, Init, AccessInit

-----------------------------------------------------------------------------
(* Rows: every step keeps RateInv.                                         *)

LEMMA Differences ==
  /\ \A a, b \in Nat : a >= b => \E c \in Nat : a = b + c
  /\ \A t \in Int : t - 1 \in Int /\ (t - 1) + 1 = t
<1>1. \A a, b \in Nat : a >= b => a - b \in Nat /\ a = b + (a - b)
  OBVIOUS
<1> QED
  BY <1>1

LEMMA EverGrows ==
  ASSUME crashes \in Nat, now \in Nat
  PROVE  /\ Ever \in Nat /\ Ever >= Burst /\ Burst \in Nat \ {0}
         /\ (crashes' = crashes + 1 /\ now' = now => Ever' = Ever + Burst)
         /\ (crashes' = crashes /\ now' = now + 1 => Ever' = Ever + 1)
         /\ (crashes' = crashes /\ now' = now => Ever' = Ever)
         /\ crashes' \in Nat /\ crashes' >= crashes /\ now' = now =>
              Ever' \in Nat /\ Ever' >= Ever
<1>1. Burst \in Nat \ {0}
  BY RequestFacts
<1>2. Burst * (1 + crashes) = Burst + Burst * crashes /\ Burst * crashes \in Nat
  BY <1>1
<1>3. Ever \in Nat /\ Ever >= Burst
  BY <1>1, <1>2 DEF Ever
<1>4. crashes' = crashes + 1 /\ now' = now => Ever' = Ever + Burst
  BY <1>1, <1>2 DEF Ever
<1>5. crashes' = crashes /\ now' = now + 1 => Ever' = Ever + 1
  BY <1>1, <1>2 DEF Ever
<1>6. crashes' = crashes /\ now' = now => Ever' = Ever
  BY DEF Ever
<1>7. ASSUME crashes' \in Nat, crashes' >= crashes, now' = now
      PROVE  Ever' \in Nat /\ Ever' >= Ever
  <2>1. PICK m \in Nat : crashes' = crashes + m
    BY <1>7, Differences
  <2>2. Burst * (1 + crashes') = Burst * (1 + crashes) + Burst * m /\ Burst * m \in Nat
    BY <1>1, <2>1
  <2>3. Burst * (1 + crashes) \in Nat /\ Burst * (1 + crashes') \in Nat
    BY <1>1, <1>2, <2>2
  <2> DEFINE a == Burst * (1 + crashes)
             b == Burst * (1 + crashes')
  <2> HIDE DEF a, b
  <2>4. a \in Nat /\ b \in Nat /\ b >= a
    BY <2>2, <2>3 DEF a, b
  <2>5. Ever = a + now /\ Ever' = b + now
    BY <1>7 DEF Ever, a, b
  <2> QED
    BY <2>4, <2>5
<1> QED
  BY <1>1, <1>3, <1>4, <1>5, <1>6, <1>7

LEMMA CountsAre ==
  ASSUME IsFiniteSet(rows)
  PROVE  \A n : /\ IsFiniteSet(RowsOf(n)) /\ Cardinality(RowsOf(n)) \in Nat
               /\ IsFiniteSet(InsideOf(n)) /\ Cardinality(InsideOf(n)) \in Nat
               /\ IsFiniteSet(WaitingOf(n)) /\ Cardinality(WaitingOf(n)) \in Nat
<1> SUFFICES ASSUME NEW n
             PROVE  /\ IsFiniteSet(RowsOf(n)) /\ Cardinality(RowsOf(n)) \in Nat
                    /\ IsFiniteSet(InsideOf(n)) /\ Cardinality(InsideOf(n)) \in Nat
                    /\ IsFiniteSet(WaitingOf(n)) /\ Cardinality(WaitingOf(n)) \in Nat
  OBVIOUS
<1>1. RowsOf(n) \in SUBSET rows /\ InsideOf(n) \in SUBSET Requests
      /\ WaitingOf(n) \in SUBSET Requests
  BY DEF RowsOf, InsideOf, WaitingOf
<1> QED
  BY <1>1, RequestFacts, FS_Subset, FS_CardinalityType

\* Nobody is let in, and the bucket is not filled.
LEMMA NoneLetIn ==
  ASSUME RequestInv, RateInv, RequestInv', UNCHANGED <<keys, tokens, rows, now>>,
         crashes' >= crashes,
         \A n : InsideOf(n)' \subseteq InsideOf(n) /\ WaitingOf(n)' \subseteq WaitingOf(n)
  PROVE  RateInv'
<1> SUFFICES ASSUME keys # None, NEW n \in DOMAIN tokens
             PROVE  /\ tokens'[n] \in Int
                    /\ Cardinality(RowsOf(n)') + Cardinality(InsideOf(n)') <= Ever'
                    /\ Cardinality(RowsOf(n)') + Cardinality(InsideOf(n)')
                         + Cardinality(WaitingOf(n)') + tokens'[n] <= Ever'
  BY DEF RateInv
<1>1. RowsOf(n)' = RowsOf(n)
  BY DEF RowsOf
<1>2. /\ Cardinality(InsideOf(n)') \in Nat /\ Cardinality(WaitingOf(n)') \in Nat
      /\ Cardinality(InsideOf(n)') <= Cardinality(InsideOf(n))
      /\ Cardinality(WaitingOf(n)') <= Cardinality(WaitingOf(n))
  <2>1. IsFiniteSet(InsideOf(n)) /\ IsFiniteSet(WaitingOf(n))
    BY CountsAre DEF RateInv
  <2>2. InsideOf(n)' \in SUBSET InsideOf(n) /\ WaitingOf(n)' \in SUBSET WaitingOf(n)
    OBVIOUS
  <2>3. IsFiniteSet(InsideOf(n)') /\ Cardinality(InsideOf(n)') <= Cardinality(InsideOf(n))
    BY <2>1, <2>2, FS_Subset
  <2>4. IsFiniteSet(WaitingOf(n)') /\ Cardinality(WaitingOf(n)') <= Cardinality(WaitingOf(n))
    BY <2>1, <2>2, FS_Subset
  <2> QED
    BY <2>3, <2>4, FS_CardinalityType
<1>3. /\ Cardinality(RowsOf(n)) \in Nat /\ Cardinality(InsideOf(n)) \in Nat
      /\ Cardinality(WaitingOf(n)) \in Nat
  BY CountsAre DEF RateInv
<1>4. crashes \in Nat /\ crashes' \in Nat /\ now \in Nat
  BY DEF RequestInv, AccessShape
<1>5. Ever \in Nat /\ Ever' \in Nat /\ Ever' >= Ever
  BY <1>4, EverGrows
<1>6. /\ tokens[n] \in Int
      /\ Cardinality(RowsOf(n)) + Cardinality(InsideOf(n)) <= Ever
      /\ Cardinality(RowsOf(n)) + Cardinality(InsideOf(n)) + Cardinality(WaitingOf(n))
           + tokens[n] <= Ever
  BY DEF RateInv
<1> QED
  BY <1>1, <1>2, <1>3, <1>5, <1>6

\* The request moves on; for what a name has inside and waiting only its own
\* requests count.
LEMMA LimiterIsThere ==
  ASSUME RequestInv, NEW q \in Requests, Matches(q) # {}, keys # None
  PROVE  NameOfKey(q) \in DOMAIN tokens
<1>1. \E i \in DOMAIN keys : Match(q) = keys[i]
  BY MatchIs DEF RequestInv, KeysFirst
<1> QED
  BY <1>1 DEF RequestInv, KeysFirst, KeyNames, NameOfKey

LEMMA ReservesKeepRate ==
  ASSUME RequestInv, RateInv, NEW q \in Requests, Reserve(q)
  PROVE  RateInv'
<1> DEFINE stage == IF Allows(NameOfKey(q)) THEN "handler" ELSE "limited"
<1>0. /\ AccessShape /\ keys # None /\ phase[q] = "out" /\ Matches(q) # {}
      /\ phase' = [phase EXCEPT ![q] = stage]
      /\ tokens' = [tokens EXCEPT ![NameOfKey(q)] = @ - 1]
      /\ UNCHANGED <<keys, now, rows, faults, crashes>>
  BY DEF RequestInv, Reserve, Comes, Well, mishaps
<1>2. NameOfKey(q) \in DOMAIN tokens
  BY <1>0, LimiterIsThere
<1> PICK n \in DOMAIN tokens : n = NameOfKey(q)
  BY <1>2
<1>1. /\ AccessShape /\ keys # None /\ phase[q] = "out" /\ Matches(q) # {}
      /\ phase' = [phase EXCEPT ![q] = IF Allows(n) THEN "handler" ELSE "limited"]
      /\ tokens' = [tokens EXCEPT ![n] = @ - 1] /\ NameOfKey(q) = n
      /\ UNCHANGED <<keys, now, rows, faults, crashes>>
  BY <1>0
<1>3. \A p \in Requests : NameOfKey(p)' = NameOfKey(p)
  BY <1>1 DEF NameOfKey, Match, Matches
<1>4. \A m : RowsOf(m)' = RowsOf(m)
  BY <1>1 DEF RowsOf
<1>5. crashes \in Nat /\ now \in Nat /\ Ever' = Ever /\ Ever \in Nat
  BY <1>1, EverGrows DEF AccessShape
<1>6. /\ tokens[n] \in Int /\ tokens'[n] \in Int /\ tokens'[n] + 1 = tokens[n]
      /\ \A m \in DOMAIN tokens : m # n => tokens'[m] = tokens[m]
      /\ DOMAIN tokens' = DOMAIN tokens
  <2>1. tokens[n] \in Int
    BY <1>1, <1>2 DEF RateInv
  <2>2. tokens'[n] = tokens[n] - 1
    BY <1>1, <1>2
  <2>3. tokens'[n] \in Int /\ tokens'[n] + 1 = tokens[n]
    BY <2>1, <2>2, Differences
  <2> QED
    BY <1>1, <2>1, <2>3
<1>7. q \notin InsideOf(n) /\ q \notin WaitingOf(n)
  BY <1>1 DEF InsideOf, WaitingOf, Admitted
<1>8. \A m : m # n => InsideOf(m)' = InsideOf(m) /\ WaitingOf(m)' = WaitingOf(m)
  BY <1>1, <1>3 DEF InsideOf, WaitingOf, AccessShape
<1>9. CASE Allows(n)
  <2>1. InsideOf(n)' = InsideOf(n) \cup {q} /\ WaitingOf(n)' = WaitingOf(n)
    BY <1>1, <1>3, <1>9 DEF InsideOf, WaitingOf, AccessShape, Admitted
  <2>2. Cardinality(InsideOf(n)') = Cardinality(InsideOf(n)) + 1
    BY <1>7, <2>1, CountsAre, FS_AddElement DEF RateInv
  <2>3. tokens[n] >= 1
    BY <1>9 DEF Allows
  <2>4. ASSUME NEW m \in DOMAIN tokens
        PROVE  /\ tokens'[m] \in Int
               /\ Cardinality(RowsOf(m)') + Cardinality(InsideOf(m)') <= Ever'
               /\ Cardinality(RowsOf(m)') + Cardinality(InsideOf(m)')
                    + Cardinality(WaitingOf(m)') + tokens'[m] <= Ever'
    <3>1. /\ Cardinality(RowsOf(m)) \in Nat /\ Cardinality(InsideOf(m)) \in Nat
          /\ Cardinality(WaitingOf(m)) \in Nat
      BY CountsAre DEF RateInv
    <3>2. /\ tokens[m] \in Int
          /\ Cardinality(RowsOf(m)) + Cardinality(InsideOf(m)) <= Ever
          /\ Cardinality(RowsOf(m)) + Cardinality(InsideOf(m)) + Cardinality(WaitingOf(m))
               + tokens[m] <= Ever
      BY <1>1 DEF RateInv
    <3>3. CASE m = n
      <4>1. /\ Cardinality(InsideOf(m)') = Cardinality(InsideOf(m)) + 1
            /\ WaitingOf(m)' = WaitingOf(m) /\ RowsOf(m)' = RowsOf(m) /\ tokens[m] >= 1
            /\ tokens'[m] \in Int /\ tokens'[m] + 1 = tokens[m]
        BY <1>4, <1>6, <2>1, <2>2, <2>3, <3>3
      <4> QED
        BY <1>5, <3>1, <3>2, <4>1
    <3>4. CASE m # n
      BY <1>4, <1>5, <1>6, <1>8, <3>1, <3>2, <3>4
    <3> QED
      BY <3>3, <3>4
  <2> QED
    BY <1>1, <1>6, <2>4 DEF RateInv
<1>10. CASE ~Allows(n)
  <2>1. WaitingOf(n)' = WaitingOf(n) \cup {q} /\ InsideOf(n)' = InsideOf(n)
    BY <1>1, <1>3, <1>10 DEF InsideOf, WaitingOf, AccessShape, Admitted
  <2>2. Cardinality(WaitingOf(n)') = Cardinality(WaitingOf(n)) + 1
    BY <1>7, <2>1, CountsAre, FS_AddElement DEF RateInv
  <2>3. ASSUME NEW m \in DOMAIN tokens
        PROVE  /\ tokens'[m] \in Int
               /\ Cardinality(RowsOf(m)') + Cardinality(InsideOf(m)') <= Ever'
               /\ Cardinality(RowsOf(m)') + Cardinality(InsideOf(m)')
                    + Cardinality(WaitingOf(m)') + tokens'[m] <= Ever'
    <3>1. /\ Cardinality(RowsOf(m)) \in Nat /\ Cardinality(InsideOf(m)) \in Nat
          /\ Cardinality(WaitingOf(m)) \in Nat
      BY CountsAre DEF RateInv
    <3>2. /\ tokens[m] \in Int
          /\ Cardinality(RowsOf(m)) + Cardinality(InsideOf(m)) <= Ever
          /\ Cardinality(RowsOf(m)) + Cardinality(InsideOf(m)) + Cardinality(WaitingOf(m))
               + tokens[m] <= Ever
      BY <1>1 DEF RateInv
    <3>3. CASE m = n
      <4>1. /\ Cardinality(WaitingOf(m)') = Cardinality(WaitingOf(m)) + 1
            /\ InsideOf(m)' = InsideOf(m) /\ RowsOf(m)' = RowsOf(m)
            /\ tokens'[m] \in Int /\ tokens'[m] + 1 = tokens[m]
        BY <1>4, <1>6, <2>1, <2>2, <3>3
      <4> QED
        BY <1>5, <3>1, <3>2, <4>1
    <3>4. CASE m # n
      BY <1>4, <1>5, <1>6, <1>8, <3>1, <3>2, <3>4
    <3> QED
      BY <3>3, <3>4
  <2> QED
    BY <1>1, <1>6, <2>3 DEF RateInv
<1> QED
  BY <1>9, <1>10

LEMMA CancelsKeepRate ==
  ASSUME RequestInv, RateInv, NEW q \in Requests, CancelReservation(q)
  PROVE  RateInv'
<1>0. /\ AccessShape /\ keys # None /\ phase[q] = "limited" /\ Matches(q) # {}
      /\ phase' = [phase EXCEPT ![q] = "answered"]
      /\ (tokens' = [tokens EXCEPT ![NameOfKey(q)] = @ + 1] \/ tokens' = tokens)
      /\ UNCHANGED <<keys, now, rows, faults, crashes>>
  BY DEF RequestInv, RequestIsRight, CancelReservation, Well, mishaps
<1>2. NameOfKey(q) \in DOMAIN tokens
  BY <1>0, LimiterIsThere
<1> PICK n \in DOMAIN tokens : n = NameOfKey(q)
  BY <1>2
<1>1. /\ AccessShape /\ keys # None /\ phase[q] = "limited" /\ Matches(q) # {}
      /\ phase' = [phase EXCEPT ![q] = "answered"]
      /\ (tokens' = [tokens EXCEPT ![n] = @ + 1] \/ tokens' = tokens) /\ NameOfKey(q) = n
      /\ UNCHANGED <<keys, now, rows, faults, crashes>>
  BY <1>0
<1>3. \A p \in Requests : NameOfKey(p)' = NameOfKey(p)
  BY <1>1 DEF NameOfKey, Match, Matches
<1>4. \A m : RowsOf(m)' = RowsOf(m)
  BY <1>1 DEF RowsOf
<1>5. crashes \in Nat /\ now \in Nat /\ Ever' = Ever /\ Ever \in Nat
  BY <1>1, EverGrows DEF AccessShape
<1>6. /\ tokens[n] \in Int /\ tokens'[n] \in {tokens[n], tokens[n] + 1}
      /\ \A m \in DOMAIN tokens : m # n => tokens'[m] = tokens[m]
      /\ DOMAIN tokens' = DOMAIN tokens
  BY <1>1, <1>2 DEF RateInv
<1>7. q \in WaitingOf(n)
  BY <1>1 DEF WaitingOf
<1>8. \A m : InsideOf(m)' = InsideOf(m) /\ (m # n => WaitingOf(m)' = WaitingOf(m))
  BY <1>1, <1>3 DEF InsideOf, WaitingOf, AccessShape, Admitted
<1>9. WaitingOf(n)' = WaitingOf(n) \ {q}
  BY <1>1, <1>3 DEF WaitingOf, AccessShape
<1>10. /\ Cardinality(WaitingOf(n)') \in Nat
       /\ Cardinality(WaitingOf(n)') + 1 = Cardinality(WaitingOf(n))
  <2>1. IsFiniteSet(WaitingOf(n)) /\ Cardinality(WaitingOf(n)) \in Nat
    BY CountsAre DEF RateInv
  <2>2. IsFiniteSet(WaitingOf(n)')
    BY <1>9, <2>1, FS_RemoveElement
  <2>3. q \notin WaitingOf(n)' /\ WaitingOf(n) = WaitingOf(n)' \cup {q}
    BY <1>7, <1>9
  <2>4. Cardinality(WaitingOf(n)' \cup {q}) = Cardinality(WaitingOf(n)') + 1
    BY <2>2, <2>3, FS_AddElement
  <2> QED
    BY <2>2, <2>3, <2>4, FS_CardinalityType
<1>11. ASSUME NEW m \in DOMAIN tokens
       PROVE  /\ tokens'[m] \in Int
              /\ Cardinality(RowsOf(m)') + Cardinality(InsideOf(m)') <= Ever'
              /\ Cardinality(RowsOf(m)') + Cardinality(InsideOf(m)')
                   + Cardinality(WaitingOf(m)') + tokens'[m] <= Ever'
  <2>1. /\ Cardinality(RowsOf(m)) \in Nat /\ Cardinality(InsideOf(m)) \in Nat
        /\ Cardinality(WaitingOf(m)) \in Nat
    BY CountsAre DEF RateInv
  <2>2. /\ tokens[m] \in Int
        /\ Cardinality(RowsOf(m)) + Cardinality(InsideOf(m)) <= Ever
        /\ Cardinality(RowsOf(m)) + Cardinality(InsideOf(m)) + Cardinality(WaitingOf(m))
             + tokens[m] <= Ever
    BY <1>1 DEF RateInv
  <2>3. CASE m = n
    BY <1>4, <1>5, <1>6, <1>8, <1>10, <2>1, <2>2, <2>3
  <2>4. CASE m # n
    BY <1>4, <1>5, <1>6, <1>8, <2>1, <2>2, <2>4
  <2> QED
    BY <2>3, <2>4
<1> QED
  BY <1>1, <1>6, <1>11 DEF RateInv

LEMMA InsertsKeepRate ==
  ASSUME RequestInv, RateInv, NEW q \in Requests, InsertRow(q)
  PROVE  RateInv'
<1>0. /\ AccessShape /\ keys # None /\ phase[q] = "record" /\ Matches(q) # {}
      /\ phase' = [phase EXCEPT ![q] = "answered"] /\ rows' = rows \cup {Row(q)}
      /\ UNCHANGED <<keys, tokens, now, faults, crashes>>
  BY DEF RequestInv, RequestIsRight, Admitted, InsertRow, limiter, Well, mishaps
<1>1. IsFiniteSet(rows) /\ IsFiniteSet(rows')
  BY <1>0, FS_AddElement DEF RateInv
<1>2. NameOfKey(q) \in DOMAIN tokens
  BY <1>0, LimiterIsThere
<1> PICK n \in DOMAIN tokens : n = NameOfKey(q)
  BY <1>2
<1> PICK new : new = Row(q)
  OBVIOUS
<1>3. new.actor = n /\ rows' = rows \cup {new}
  BY <1>0 DEF Row
<1>4. \A p \in Requests : NameOfKey(p)' = NameOfKey(p)
  BY <1>0 DEF NameOfKey, Match, Matches
<1>5. \A m : WaitingOf(m)' = WaitingOf(m)
  BY <1>0, <1>4 DEF WaitingOf, AccessShape
<1>6. \A m : m # n => InsideOf(m)' = InsideOf(m) /\ RowsOf(m)' = RowsOf(m)
  BY <1>0, <1>3, <1>4 DEF InsideOf, RowsOf, AccessShape
<1>7. InsideOf(n)' = InsideOf(n) \ {q} /\ q \in InsideOf(n)
  BY <1>0, <1>4 DEF InsideOf, AccessShape, Admitted
<1>8. RowsOf(n)' = RowsOf(n) \cup {new}
  BY <1>3 DEF RowsOf
<1>9. /\ Cardinality(InsideOf(n)') \in Nat
      /\ Cardinality(InsideOf(n)') + 1 = Cardinality(InsideOf(n))
  <2>1. IsFiniteSet(InsideOf(n)) /\ Cardinality(InsideOf(n)) \in Nat
    BY <1>1, CountsAre
  <2>2. IsFiniteSet(InsideOf(n)')
    BY <1>7, <2>1, FS_RemoveElement
  <2>3. q \notin InsideOf(n)' /\ InsideOf(n) = InsideOf(n)' \cup {q}
    BY <1>7
  <2>4. Cardinality(InsideOf(n)' \cup {q}) = Cardinality(InsideOf(n)') + 1
    BY <2>2, <2>3, FS_AddElement
  <2> QED
    BY <2>2, <2>3, <2>4, FS_CardinalityType
<1>10. /\ Cardinality(RowsOf(n)') \in Nat
       /\ Cardinality(RowsOf(n)') <= Cardinality(RowsOf(n)) + 1
  <2>1. IsFiniteSet(RowsOf(n)) /\ Cardinality(RowsOf(n)) \in Nat
    BY <1>1, CountsAre
  <2>2. Cardinality(RowsOf(n) \cup {new}) \in {Cardinality(RowsOf(n)), Cardinality(RowsOf(n)) + 1}
    BY <2>1, FS_AddElement
  <2> QED
    BY <1>8, <2>1, <2>2
<1>11. crashes \in Nat /\ now \in Nat /\ Ever' = Ever /\ Ever \in Nat
  BY <1>0, EverGrows DEF AccessShape
<1>12. ASSUME NEW m \in DOMAIN tokens
       PROVE  /\ tokens'[m] \in Int
              /\ Cardinality(RowsOf(m)') + Cardinality(InsideOf(m)') <= Ever'
              /\ Cardinality(RowsOf(m)') + Cardinality(InsideOf(m)')
                   + Cardinality(WaitingOf(m)') + tokens'[m] <= Ever'
  <2>1. /\ Cardinality(RowsOf(m)) \in Nat /\ Cardinality(InsideOf(m)) \in Nat
        /\ Cardinality(WaitingOf(m)) \in Nat
    BY <1>1, CountsAre
  <2>2. /\ tokens[m] \in Int
        /\ Cardinality(RowsOf(m)) + Cardinality(InsideOf(m)) <= Ever
        /\ Cardinality(RowsOf(m)) + Cardinality(InsideOf(m)) + Cardinality(WaitingOf(m))
             + tokens[m] <= Ever
    BY <1>0 DEF RateInv
  <2>3. CASE m = n
    <3>1. /\ Cardinality(InsideOf(m)') \in Nat
          /\ Cardinality(InsideOf(m)') + 1 = Cardinality(InsideOf(m))
          /\ Cardinality(RowsOf(m)') \in Nat
          /\ Cardinality(RowsOf(m)') <= Cardinality(RowsOf(m)) + 1
          /\ WaitingOf(m)' = WaitingOf(m) /\ tokens'[m] = tokens[m]
      BY <1>0, <1>5, <1>9, <1>10, <2>3
    <3> QED
      BY <1>11, <2>1, <2>2, <3>1
  <2>4. CASE m # n
    BY <1>0, <1>5, <1>6, <1>11, <2>1, <2>2, <2>4
  <2> QED
    BY <2>3, <2>4
<1> QED
  BY <1>0, <1>1, <1>12 DEF RateInv

LEMMA AllMovesKeepRate ==
  ASSUME RequestInv, RateInv, RequestInv', LoadKeys \/ TokensCome \/ AccessCrash
  PROVE  RateInv'
<1>1. Burst \in Nat \ {0} /\ Ever \in Nat /\ Ever >= Burst /\ crashes \in Nat /\ now \in Nat
  BY RequestFacts, EverGrows DEF RequestInv, AccessShape
<1>2. CASE LoadKeys
  <2>1. /\ rows' = {} /\ \A q \in Requests : phase'[q] = "out"
        /\ \A n \in DOMAIN tokens' : tokens'[n] = Burst
        /\ UNCHANGED <<now, crashes>>
    BY <1>2 DEF LoadKeys, RequestInv, KeysFirst, Well, mishaps
  <2>2. \A n : RowsOf(n)' = {} /\ InsideOf(n)' = {} /\ WaitingOf(n)' = {}
    BY <2>1 DEF RowsOf, InsideOf, WaitingOf, Admitted
  <2>3. Ever' = Ever
    BY <1>1, <2>1, EverGrows
  <2>4. IsFiniteSet({}) /\ Cardinality({}) = 0
    BY FS_EmptySet
  <2> QED
    BY <1>1, <2>1, <2>2, <2>3, <2>4 DEF RateInv
<1>3. CASE TokensCome
  <2>1. /\ keys # None /\ now' = now + 1 /\ DOMAIN tokens' = DOMAIN tokens
        /\ \A n \in DOMAIN tokens :
             tokens'[n] = IF tokens[n] < Burst THEN tokens[n] + 1 ELSE Burst
        /\ UNCHANGED <<keys, rows, phase, crashes>>
    BY <1>3 DEF TokensCome, Well, mishaps
  <2>2. \A n : /\ RowsOf(n)' = RowsOf(n) /\ InsideOf(n)' = InsideOf(n)
              /\ WaitingOf(n)' = WaitingOf(n)
    BY <2>1 DEF RowsOf, InsideOf, WaitingOf, NameOfKey, Match, Matches
  <2>3. Ever' = Ever + 1
    BY <1>1, <2>1, EverGrows
  <2>4. ASSUME NEW n \in DOMAIN tokens
        PROVE  /\ tokens'[n] \in Int
               /\ Cardinality(RowsOf(n)') + Cardinality(InsideOf(n)') <= Ever'
               /\ Cardinality(RowsOf(n)') + Cardinality(InsideOf(n)')
                    + Cardinality(WaitingOf(n)') + tokens'[n] <= Ever'
    <3>1. /\ Cardinality(RowsOf(n)) \in Nat /\ Cardinality(InsideOf(n)) \in Nat
          /\ Cardinality(WaitingOf(n)) \in Nat
      BY CountsAre DEF RateInv
    <3>2. /\ tokens[n] \in Int
          /\ Cardinality(RowsOf(n)) + Cardinality(InsideOf(n)) <= Ever
          /\ Cardinality(RowsOf(n)) + Cardinality(InsideOf(n)) + Cardinality(WaitingOf(n))
               + tokens[n] <= Ever
      BY <2>1 DEF RateInv
    <3>3. tokens'[n] \in Int /\ tokens'[n] <= tokens[n] + 1
      BY <1>1, <2>1, <3>2
    <3> QED
      BY <1>1, <2>2, <2>3, <3>1, <3>2, <3>3
  <2> QED
    BY <2>1, <2>4 DEF RateInv
<1>4. CASE AccessCrash
  <2>1. /\ keys # None /\ crashes' = crashes + 1 /\ DOMAIN tokens' = DOMAIN tokens
        /\ \A n \in DOMAIN tokens : tokens'[n] = Burst
        /\ \A q \in Requests : phase'[q] \in {"out", "answered"}
        /\ UNCHANGED <<keys, rows, now>>
    BY <1>4 DEF AccessCrash, Crash
  <2>2. \A n : RowsOf(n)' = RowsOf(n) /\ InsideOf(n)' = {} /\ WaitingOf(n)' = {}
    BY <2>1 DEF RowsOf, InsideOf, WaitingOf, Admitted
  <2>3. Ever' = Ever + Burst
    BY <1>1, <2>1, EverGrows
  <2>4. ASSUME NEW n \in DOMAIN tokens
        PROVE  /\ tokens'[n] \in Int
               /\ Cardinality(RowsOf(n)') + Cardinality(InsideOf(n)') <= Ever'
               /\ Cardinality(RowsOf(n)') + Cardinality(InsideOf(n)')
                    + Cardinality(WaitingOf(n)') + tokens'[n] <= Ever'
    <3>1. /\ Cardinality(RowsOf(n)) \in Nat /\ Cardinality(InsideOf(n)) \in Nat
          /\ Cardinality(RowsOf(n)) + Cardinality(InsideOf(n)) <= Ever
      BY <2>1, CountsAre DEF RateInv
    <3>2. Cardinality(InsideOf(n)') = 0 /\ Cardinality(WaitingOf(n)') = 0
      BY <2>2, FS_EmptySet
    <3> QED
      BY <1>1, <2>1, <2>2, <2>3, <3>1, <3>2
  <2> QED
    BY <2>1, <2>4 DEF RateInv
<1> QED
  BY <1>2, <1>3, <1>4

LEMMA RateStays == RequestInv /\ RateInv /\ [Next]_vars => RateInv'
<1> SUFFICES ASSUME RequestInv, RateInv, [Next]_vars PROVE RateInv'
  OBVIOUS
<1>1. AccessShape /\ RequestInv' /\ crashes \in Nat /\ now \in Nat
  BY RequestsStay DEF RequestInv, AccessShape
<1>2. ASSUME NEW q \in Requests,
             \/ Returns(q) \/ RefuseKey(q) \/ ReadBody(q) \/ SaveDoc(q) \/ InsertRowFails(q)
      PROVE  RateInv'
  <2>1. /\ UNCHANGED <<keys, tokens, rows, now, crashes>>
        /\ \/ UNCHANGED phase
           \/ phase[q] = "handler" /\ phase' = [phase EXCEPT ![q] = "docs"]
           \/ phase[q] \in {"handler", "docs"} /\ phase' = [phase EXCEPT ![q] = "record"]
           \/ phase' = [phase EXCEPT ![q] = "answered"]
    BY <1>2, ReturnsAre DEF RefuseKey, ReadBody, MayEnter, SaveDoc, InsertRowFails, limiter, Well,
                            Fault, mishaps
  <2>2. \A p \in Requests : NameOfKey(p)' = NameOfKey(p)
    BY <2>1 DEF NameOfKey, Match, Matches
  <2>3. \A n : InsideOf(n)' \subseteq InsideOf(n) /\ WaitingOf(n)' \subseteq WaitingOf(n)
    BY <1>1, <2>1, <2>2 DEF InsideOf, WaitingOf, Admitted, AccessShape
  <2> QED
    BY <1>1, <2>1, <2>3, NoneLetIn
<1>3. CASE UNCHANGED accessVars
  <2>1. UNCHANGED <<keys, tokens, rows, now, phase>> /\ crashes' >= crashes
    BY <1>1, <1>3, MishapsOnlyGrow DEF accessVars, limiter, MishapsGrow, AccessShape
  <2>2. \A n : InsideOf(n)' = InsideOf(n) /\ WaitingOf(n)' = WaitingOf(n)
    BY <2>1 DEF InsideOf, WaitingOf, NameOfKey, Match, Matches
  <2> QED
    BY <1>1, <2>1, <2>2, NoneLetIn
<1>4. CASE AccessNext
  BY <1>1, <1>2, <1>4, ReservesKeepRate, CancelsKeepRate, InsertsKeepRate, AllMovesKeepRate
     DEF AccessNext, Returns
<1> QED
  BY <1>3, <1>4 DEF Next, vars, AccessStep, IntelStep, SelectorsStep, RetentionStep, DigestStep,
                    ExtractStep, ReadinessStep

-----------------------------------------------------------------------------
(* The audit log.                                                          *)

LEMMA AuditTells ==
  ASSUME RequestInv, ReportInv, RateInv
  PROVE  AuditTellsAccess
<1>1. ASSUME NEW q \in Requests, NEW r \in rows, r.of = q.id
      PROVE  phase[q] = "answered" /\ Proper(q) /\ r = Row(q)
  <2>1. PICK p \in Requests : phase[p] = "answered" /\ Proper(p) /\ r = Row(p)
    BY DEF RequestInv, RowIsRight
  <2>2. p.id = q.id
    BY <1>1, <2>1 DEF Row
  <2> QED
    BY <2>1, <2>2, RequestFacts
<1>2. ASSUME NEW q \in Requests
      PROVE  Cardinality({r \in rows : r.of = q.id}) <= 1
  <2> DEFINE own == {r \in rows : r.of = q.id}
  <2>1. own = {} \/ own = {Row(q)}
    BY <1>1
  <2>2. Cardinality({}) = 0 /\ Cardinality({Row(q)}) = 1
    BY FS_EmptySet, FS_Singleton
  <2> QED
    BY <2>1, <2>2
<1>3. ASSUME NEW q \in Requests, NEW r \in rows, r.of = q.id
      PROVE  /\ answer[q] \notin {0, 401, 503}
             /\ r.status = answer[q] \/ (r.status = 0 /\ faults > 0)
             /\ \E i \in DOMAIN keys :
                  /\ keys[i].key = q.key /\ keys[i].name = r.actor
                  /\ answer[q] \notin {403, 429} => ScopeOf(q.route) \in keys[i].scopes
  <2>1. Proper(q) /\ r = Row(q) /\ phase[q] = "answered"
    BY <1>1, <1>3
  <2>2. r.status = saw[q] /\ r.actor = NameOfKey(q)
    BY <2>1 DEF Row
  <2>3. keys # None
    BY <2>1 DEF RequestInv, KeysFirst
  <2>4. DOMAIN keys \subseteq Nat
    BY <2>3 DEF RequestInv, KeysFirst
  <2>5. PICK i \in DOMAIN keys : keys[i].key = q.key /\ Match(q) = keys[i]
    BY <2>1, <2>4, MatchIs DEF Proper
  <2>6. keys[i].name = r.actor
    BY <2>2, <2>5 DEF NameOfKey
  <2>7. answer[q] \in Codes /\ (saw[q] = answer[q] \/ (saw[q] = 0 /\ faults > 0))
        /\ (answer[q] # 403 => ScopeOf(q.route) \in keys[i].scopes)
    BY <2>1, <2>5 DEF Proper
  <2> QED
    BY <2>2, <2>5, <2>6, <2>7 DEF Codes
<1>4. ASSUME NEW q \in Requests, phase[q] = "answered", answer[q] \in {200, 201, 400, 403, 500},
             faults = 0, crashes = 0
      PROVE  {r \in rows : r.of = q.id} # {}
  BY <1>4 DEF RequestInv, RequestIsRight, Codes
<1>5. ASSUME NEW r \in rows, NEW k \in reports
      PROVE  /\ k.serial \in r.serials => k.by = r.of
             /\ k.by = r.of /\ (\E q \in Requests : q.id = r.of /\ answer[q] \in {200, 201})
                  => k.serial \in r.serials
  <2>1. PICK q \in Requests : r = Row(q)
    BY DEF RequestInv, RowIsRight
  <2>2. r.serials = detail[q] /\ r.of = q.id
    BY <2>1 DEF Row
  <2>3. detail[q] = IF answer[q] \in {200, 201} THEN NewSerials(q) ELSE {}
    BY DEF ReportInv, Accepted
  <2>4. k.by = q.id <=> k.serial \in NewSerials(q)
    BY DEF ReportInv
  <2>5. \A p \in Requests : p.id = q.id => p = q
    BY RequestFacts
  <2> QED
    BY <2>2, <2>3, <2>4, <2>5
<1>6. ASSUME keys # None, NEW n \in DOMAIN tokens
      PROVE  Cardinality({r \in rows : r.actor = n /\ r.status # 429})
               <= Burst * (1 + crashes) + now
  <2> DEFINE letIn == {r \in rows : r.actor = n /\ r.status # 429}
  <2>1. /\ Cardinality(RowsOf(n)) \in Nat /\ Cardinality(InsideOf(n)) \in Nat
        /\ Cardinality(RowsOf(n)) + Cardinality(InsideOf(n)) <= Ever
    BY <1>6, CountsAre DEF RateInv
  <2>2. crashes \in Nat /\ now \in Nat
    BY DEF RequestInv, AccessShape
  <2>3. Ever \in Nat
    BY <2>2, EverGrows
  <2>4. Cardinality(letIn) <= Cardinality(RowsOf(n)) /\ Cardinality(letIn) \in Nat
    <3>1. letIn \subseteq RowsOf(n) /\ RowsOf(n) \subseteq rows /\ IsFiniteSet(rows)
      BY DEF RowsOf, RateInv
    <3> QED
      BY <3>1, FS_Subset, FS_CardinalityType
  <2>5. Cardinality(letIn) <= Ever
    BY <2>1, <2>3, <2>4
  <2> QED
    BY <2>5 DEF Ever
<1> QED
  BY <1>2, <1>3, <1>4, <1>5, <1>6 DEF AuditTellsAccess

\* The audit log tells the truth about access (audit.go, auth.go, api.go:
\* auth, Middleware, RequireScope, POST /ingest, GET /export), whatever keys
\* are configured and whatever requests come: one row for each request that a
\* key and its limiter let in, with the status its client got, under a name with
\* that key and the scope of the route, none left out unless a statement failed
\* or the process ended; each report an accepted upload stored in its row and in
\* no other; and no name past its limiter.
THEOREM AuditIsTrue == Spec => []AuditTellsAccess
<1> DEFINE Inv == RequestInv /\ ReportInv /\ RateInv
<1>1. Init => Inv
  <2> SUFFICES ASSUME Init PROVE RateInv
    BY RequestsStart, ReportsStart
  <2>1. rows = {} /\ keys = None
    BY DEF Init, AccessInit
  <2> QED
    BY <2>1, FS_EmptySet DEF RateInv
<1>2. Inv /\ [Next]_vars => Inv'
  BY RequestsStay, ReportsStay, RateStays
<1>3. Inv => AuditTellsAccess
  BY AuditTells
<1> QED
  BY <1>1, <1>2, <1>3, PTL DEF Spec

-----------------------------------------------------------------------------
(* The score.  Division and Tenths are monotone, so is each component, and *)
(* their whole never passes a hundred points.                              *)

\* What \div gives.
LEMMA DivIs ==
  ASSUME NEW n \in Nat, NEW d \in Nat \ {0}
  PROVE  n \div d \in Nat /\ d * (n \div d) <= n /\ n < d * (n \div d) + d
<1>1. n \div d \in Int
  OBVIOUS
<1>2. n = d * (n \div d) + (n % d) /\ n % d \in 0..(d - 1)
  OBVIOUS
<1>3. n \div d >= 0
  OBVIOUS
<1> QED
  BY <1>1, <1>2, <1>3

LEMMA Apart == \A a, b \in Nat : a <= b => \E c \in Nat : b = a + c
<1>1. \A a, b \in Nat : a <= b => b - a \in Nat /\ b = a + (b - a)
  OBVIOUS
<1> QED
  BY <1>1

LEMMA Quotients ==
  ASSUME NEW d \in Nat \ {0}, NEW k \in Nat, NEW l \in Nat, NEW n \in Nat, NEW m \in Nat,
         d * k <= n, n <= m, m < d * l + d
  PROVE  k <= l
<1> SUFFICES ASSUME l < k PROVE FALSE
  OBVIOUS
<1>1. PICK c \in Nat : k = l + 1 + c
  <2>1. \A a, b \in Nat : a < b => b - a - 1 \in Nat /\ b = a + 1 + (b - a - 1)
    OBVIOUS
  <2> QED
    BY <2>1
<1>2. d * k = d * l + d + d * c /\ d * c \in Nat /\ d * l \in Nat
  BY <1>1
<1> QED
  BY <1>2

LEMMA DivMonotone ==
  ASSUME NEW n \in Nat, NEW m \in Nat, n <= m, NEW d \in Nat \ {0}
  PROVE  n \div d <= m \div d
  BY DivIs, Quotients

LEMMA DivAtMost ==
  ASSUME NEW n \in Nat, NEW d \in Nat \ {0}, NEW l \in Nat, n < d * l + d
  PROVE  n \div d <= l
  BY DivIs, Quotients

LEMMA TenthsAre ==
  ASSUME NEW w \in Nat, NEW p \in Int, NEW o \in Nat
  PROVE  /\ Tenths(w, p, o) \in Nat
         /\ p <= o => Tenths(w, p, o) <= 10 * w
         /\ \A q \in Int : p <= q => Tenths(w, p, o) <= Tenths(w, q, o)
<1>1. CASE o = 0
  BY <1>1 DEF Tenths
<1>2. CASE o > 0 /\ p < 0
  <2>1. Tenths(w, p, o) = 0
    BY <1>2 DEF Tenths
  <2>2. ASSUME NEW q \in Int, q >= 0
        PROVE  Tenths(w, q, o) \in Nat
    <3>1. Tenths(w, q, o) = (20 * w * q + o) \div (2 * o)
      BY <1>2, <2>2 DEF Tenths
    <3>2. w * q \in Nat
      BY <2>2
    <3>3. 20 * w * q + o \in Nat /\ 2 * o \in Nat \ {0}
      BY <1>2, <2>2, <3>2
    <3> QED
      BY <3>1, <3>3, DivIs
  <2>3. ASSUME NEW q \in Int, q < 0
        PROVE  Tenths(w, q, o) \in Nat
    BY <1>2, <2>3 DEF Tenths
  <2>4. \A q \in Int : Tenths(w, q, o) \in Nat
    BY <2>2, <2>3
  <2> QED
    BY <2>1, <2>4
<1>3. CASE o > 0 /\ p >= 0
  <2>1. Tenths(w, p, o) = (20 * w * p + o) \div (2 * o)
    BY <1>3 DEF Tenths
  <2>2. p \in Nat /\ w * p \in Nat /\ 20 * w * p = 20 * (w * p)
    BY <1>3
  <2>3. 20 * w * p + o \in Nat /\ 2 * o \in Nat \ {0}
    BY <1>3, <2>2
  <2>4. Tenths(w, p, o) \in Nat
    BY <2>1, <2>3, DivIs
  <2>5. ASSUME p <= o
        PROVE  Tenths(w, p, o) <= 10 * w
    <3>1. w * p <= w * o /\ w * o \in Nat
      <4>1. PICK c \in Nat : o = p + c
        BY <2>2, <2>5, Apart
      <4>2. w * o = w * p + w * c /\ w * c \in Nat
        BY <2>2, <4>1
      <4> QED
        BY <2>2, <4>2
    <3>2. (2 * o) * (10 * w) = 20 * (w * o)
      OBVIOUS
    <3>3. 20 * w * p + o < (2 * o) * (10 * w) + 2 * o
      BY <1>3, <2>2, <3>1, <3>2
    <3>4. 10 * w \in Nat
      OBVIOUS
    <3> QED
      BY <2>1, <2>3, <3>3, <3>4, DivAtMost
  <2>6. ASSUME NEW q \in Int, p <= q
        PROVE  Tenths(w, p, o) <= Tenths(w, q, o)
    <3>1. q \in Nat
      BY <2>2, <2>6
    <3>2. Tenths(w, q, o) = (20 * w * q + o) \div (2 * o)
      BY <1>3, <3>1 DEF Tenths
    <3>3. w * p <= w * q /\ w * q \in Nat /\ 20 * w * q = 20 * (w * q)
      <4>1. PICK c \in Nat : q = p + c
        BY <2>2, <2>6, <3>1, Apart
      <4>2. w * q = w * p + w * c /\ w * c \in Nat
        BY <2>2, <4>1
      <4> QED
        BY <2>2, <3>1, <4>2
    <3>4. 20 * w * q + o \in Nat /\ 20 * w * p + o <= 20 * w * q + o
      BY <2>2, <3>3
    <3> QED
      BY <2>1, <2>3, <3>2, <3>4, DivMonotone
  <2> QED
    BY <2>4, <2>5, <2>6
<1> QED
  BY <1>1, <1>2, <1>3

\* The policy PolicyStrength goes by, its base and its share in percent.
Stated(p) == IF p = None THEN "none" ELSE p
Base(p) == [reject |-> 10, quarantine |-> 6, none |-> 1, unknown |-> 0][Stated(p)]
Share(p, q) == IF Stated(p) # "none" /\ q # None /\ q <= 100 THEN q ELSE 100

LEMMA StrengthIs ==
  ASSUME NEW p \in Policies, NEW q \in Nat \cup {None}
  PROVE  /\ PolicyStrength(p, q) = Tenths(20, Base(p) * Share(p, q), 1000)
         /\ Base(p) \in {0, 1, 6, 10} /\ Share(p, q) \in 0..100
<1>1. PolicyStrength(p, q) = Tenths(20, Base(p) * Share(p, q), 1000)
  BY DEF PolicyStrength, Base, Share, Stated
<1>2. Stated(p) \in {"none", "quarantine", "reject", "unknown"}
  BY DEF Policies, Stated
<1>3. Base(p) \in {0, 1, 6, 10}
  BY <1>2 DEF Base
<1>4. Share(p, q) \in 0..100
  BY DEF Share
<1> QED
  BY <1>1, <1>3, <1>4

\* It grows with the base and with the share.
LEMMA StrengthGrows ==
  ASSUME NEW p \in Policies, NEW q \in Nat \cup {None},
         NEW r \in Policies, NEW u \in Nat \cup {None},
         Base(p) <= Base(r), Share(p, q) <= Share(r, u)
  PROVE  /\ PolicyStrength(p, q) \in Nat /\ PolicyStrength(r, u) \in Nat
         /\ PolicyStrength(p, q) <= PolicyStrength(r, u) /\ PolicyStrength(r, u) <= 200
<1> DEFINE m == Base(p) * Share(p, q)
           n == Base(r) * Share(r, u)
<1>1. /\ Base(p) \in {0, 1, 6, 10} /\ Share(p, q) \in 0..100
      /\ Base(r) \in {0, 1, 6, 10} /\ Share(r, u) \in 0..100
      /\ PolicyStrength(p, q) = Tenths(20, m, 1000) /\ PolicyStrength(r, u) = Tenths(20, n, 1000)
  BY StrengthIs
<1>2. \A b, c \in {0, 1, 6, 10} : \A i, j \in 0..100 :
        b <= c /\ i <= j => b * i \in Nat /\ c * j \in Nat /\ b * i <= c * j /\ c * j <= 1000
  OBVIOUS
<1>3. m \in Nat /\ n \in Nat /\ m <= n /\ n <= 1000
  BY <1>1, <1>2
<1> HIDE DEF m, n
<1> QED
  BY <1>1, <1>3, TenthsAre

\* Reject for all mail is the strictest.
LEMMA PolicyFits ==
  ASSUME NEW p \in Policies, NEW q \in Nat \cup {None}
  PROVE  /\ PolicyStrength(p, q) \in Nat /\ PolicyStrength(p, q) <= 200
         /\ PolicyStrength("reject", 100) \in Nat
         /\ PolicyStrength(p, q) <= PolicyStrength("reject", 100)
<1>1. None # "reject"
  BY ReadinessAssumption DEF ReadinessAssumption
<1>2. Base("reject") = 10 /\ Share("reject", 100) = 100
  BY <1>1 DEF Base, Share, Stated
<1>3. "reject" \in Policies
  BY DEF Policies
<1>4. Base(p) <= Base("reject") /\ Share(p, q) <= Share("reject", 100)
  BY <1>2, StrengthIs
<1> QED
  BY <1>3, <1>4, StrengthGrows

\* A larger pct of the same policy, and reject for what was quarantine, are
\* stricter.
LEMMA PctGrows ==
  ASSUME NEW p \in Policies, NEW q \in Nat, NEW u \in Nat, q # None, u # None, q <= u
  PROVE  PolicyStrength(p, q) <= PolicyStrength(p, u)
<1>1. Share(p, q) <= Share(p, u)
  BY DEF Share
<1>2. Base(p) <= Base(p)
  BY StrengthIs
<1> QED
  BY <1>1, <1>2, StrengthGrows

LEMMA RejectGrows ==
  ASSUME NEW q \in Nat \cup {None}
  PROVE  PolicyStrength("quarantine", q) <= PolicyStrength("reject", q)
<1>1. None \notin {"none", "quarantine", "reject", "unknown"}
  BY ReadinessAssumption DEF ReadinessAssumption
<1>2. Base("quarantine") = 6 /\ Base("reject") = 10
  BY <1>1 DEF Base, Stated
<1>3. "quarantine" \in Policies /\ "reject" \in Policies
  BY DEF Policies
<1>4. Share("quarantine", q) = Share("reject", q) /\ Share("reject", q) \in 0..100
  BY <1>1, <1>3, StrengthIs DEF Share, Stated
<1> QED
  BY <1>2, <1>3, <1>4, StrengthGrows

\* The counts of one domain.
Counted(h) ==
  /\ h.msgs \in Nat /\ h.aligned \in Nat /\ h.msgsPrior \in Nat /\ h.alignedPrior \in Nat
  /\ h.days \in Nat /\ h.unknown \in Nat
  /\ h.aligned <= h.msgs

LEMMA AlignmentFits ==
  ASSUME NEW h, Counted(h)
  PROVE  /\ Alignment(h) \in Nat /\ Alignment(h) <= 400
         /\ \A g : Counted(g) /\ g.msgs = h.msgs /\ g.aligned >= h.aligned =>
              Alignment(g) >= Alignment(h)
<1>1. ASSUME NEW g, Counted(g)
      PROVE  Alignment(g) \in Nat /\ Alignment(g) <= 400
  <2>1. g.aligned \in Int /\ g.msgs \in Nat /\ g.aligned <= g.msgs
    BY <1>1 DEF Counted
  <2>2. Tenths(40, g.aligned, g.msgs) \in Nat /\ Tenths(40, g.aligned, g.msgs) <= 10 * 40
    BY <2>1, TenthsAre
  <2> QED
    BY <2>2 DEF Alignment
<1>2. ASSUME NEW g, Counted(g), g.msgs = h.msgs, g.aligned >= h.aligned
      PROVE  Alignment(g) >= Alignment(h)
  <2>1. /\ h.aligned \in Int /\ g.aligned \in Int /\ h.msgs \in Nat
        /\ h.aligned <= g.aligned
    BY <1>2 DEF Counted
  <2>2. Tenths(40, h.aligned, h.msgs) <= Tenths(40, g.aligned, h.msgs)
    BY <2>1, TenthsAre
  <2> QED
    BY <1>1, <1>2, <2>2 DEF Alignment
<1> QED
  BY <1>1, <1>2

LEMMA CoverageFits ==
  ASSUME NEW h, Counted(h)
  PROVE  /\ Coverage(h) \in Nat /\ Coverage(h) <= 100
         /\ \A g : Counted(g) /\ g.days >= h.days => Coverage(g) >= Coverage(h)
<1>1. ASSUME NEW g, Counted(g)
      PROVE  Tenths(10, g.days, 14) \in Nat
  <2>1. g.days \in Int
    BY <1>1 DEF Counted
  <2> QED
    BY <2>1, TenthsAre
<1>2. \A g : Counted(g) => Coverage(g) \in Nat /\ Coverage(g) <= 100
  BY <1>1 DEF Coverage, AtMost
<1>3. ASSUME NEW g, Counted(g), g.days >= h.days
      PROVE  Coverage(g) >= Coverage(h)
  <2>1. Tenths(10, h.days, 14) <= Tenths(10, g.days, 14)
    <3>1. h.days \in Int /\ g.days \in Int /\ h.days <= g.days
      BY <1>3 DEF Counted
    <3> QED
      BY <3>1, TenthsAre
  <2> QED
    BY <1>1, <1>3, <2>1 DEF Coverage, AtMost
<1> QED
  BY <1>2, <1>3

LEMMA TrendFits ==
  ASSUME NEW h, Counted(h)
  PROVE  /\ Trend(h) \in Nat /\ Trend(h) <= 150
         /\ \A g : /\ Counted(g) /\ g.msgs = h.msgs /\ g.aligned >= h.aligned
                  /\ g.msgsPrior = h.msgsPrior /\ g.alignedPrior = h.alignedPrior
                  => Trend(g) >= Trend(h)
<1> DEFINE all(g) == g.msgs * g.msgsPrior
           up(g) == g.aligned * g.msgsPrior - g.alignedPrior * g.msgs
           part(g) == AtMost(all(g) + 4 * up(g), all(g))
<1>1. ASSUME NEW g, Counted(g)
      PROVE  /\ all(g) \in Nat /\ up(g) \in Int /\ part(g) \in Int /\ part(g) <= all(g)
             /\ Tenths(15, part(g), all(g)) \in Nat /\ Tenths(15, part(g), all(g)) <= 150
  <2>1. g.msgs * g.msgsPrior \in Nat /\ g.aligned * g.msgsPrior \in Nat
        /\ g.alignedPrior * g.msgs \in Nat
    BY <1>1 DEF Counted
  <2>2. all(g) \in Nat /\ up(g) \in Int
    BY <2>1
  <2> HIDE DEF all, up
  <2>3. part(g) \in Int /\ part(g) <= all(g)
    BY <2>2 DEF AtMost
  <2> HIDE DEF part
  <2>4. /\ Tenths(15, part(g), all(g)) \in Nat
        /\ part(g) <= all(g) => Tenths(15, part(g), all(g)) <= 10 * 15
    BY <2>2, <2>3, TenthsAre
  <2> QED
    BY <2>2, <2>3, <2>4
<1>2. ASSUME NEW g, Counted(g)
      PROVE  /\ g.msgs = 0 \/ g.msgsPrior = 0 => Trend(g) = 150
             /\ ~(g.msgs = 0 \/ g.msgsPrior = 0) => Trend(g) = Tenths(15, part(g), all(g))
  BY DEF Trend
<1>3. ASSUME NEW g, Counted(g), g.msgs = h.msgs, g.aligned >= h.aligned,
             g.msgsPrior = h.msgsPrior, g.alignedPrior = h.alignedPrior
      PROVE  all(g) = all(h) /\ part(h) <= part(g)
  <2>1. h.aligned * h.msgsPrior <= g.aligned * h.msgsPrior
    <3>1. PICK c \in Nat : g.aligned = h.aligned + c
      BY <1>3, Apart DEF Counted
    <3>2. g.aligned * h.msgsPrior = h.aligned * h.msgsPrior + c * h.msgsPrior
          /\ c * h.msgsPrior \in Nat /\ h.aligned * h.msgsPrior \in Nat
      BY <3>1 DEF Counted
    <3> QED
      BY <3>2
  <2>2. up(h) <= up(g)
    <3> DEFINE x == h.aligned * h.msgsPrior
               y == g.aligned * h.msgsPrior
               z == h.alignedPrior * h.msgs
    <3>1. x \in Nat /\ y \in Nat /\ z \in Nat /\ x <= y
      BY <1>3, <2>1 DEF Counted
    <3>2. up(h) = x - z /\ up(g) = y - z
      BY <1>3
    <3> HIDE DEF x, y, z
    <3>3. x - z <= y - z
      BY <3>1
    <3> QED
      BY <3>2, <3>3
  <2>3. all(g) = all(h)
    BY <1>3
  <2>4. all(h) \in Nat /\ up(h) \in Int /\ up(g) \in Int
    BY <1>1, <1>3
  <2> HIDE DEF all, up
  <2> QED
    BY <2>2, <2>3, <2>4 DEF AtMost
<1> HIDE DEF all, part
<1>4. ASSUME NEW g, Counted(g), g.msgs = h.msgs, g.aligned >= h.aligned,
             g.msgsPrior = h.msgsPrior, g.alignedPrior = h.alignedPrior
      PROVE  Trend(g) >= Trend(h)
  <2>1. CASE h.msgs = 0 \/ h.msgsPrior = 0
    BY <1>2, <1>4, <2>1
  <2>2. CASE ~(h.msgs = 0 \/ h.msgsPrior = 0)
    <3>1. Trend(h) = Tenths(15, part(h), all(h)) /\ Trend(g) = Tenths(15, part(g), all(h))
      BY <1>2, <1>3, <1>4, <2>2
    <3>2. Tenths(15, part(h), all(h)) <= Tenths(15, part(g), all(h))
      BY <1>1, <1>3, <1>4, TenthsAre
    <3>3. Tenths(15, part(h), all(h)) \in Nat /\ Tenths(15, part(g), all(h)) \in Nat
      BY <1>1, <1>3, <1>4
    <3> QED
      BY <3>1, <3>2, <3>3
  <2> QED
    BY <2>1, <2>2
<1> QED
  BY <1>1, <1>2, <1>4

LEMMA UnknownFits ==
  ASSUME NEW h, Counted(h)
  PROVE  /\ UnknownSources(h) \in Nat /\ UnknownSources(h) <= 150
         /\ \A g : Counted(g) /\ g.msgs = h.msgs /\ g.unknown <= h.unknown =>
              UnknownSources(g) >= UnknownSources(h)
<1>1. ASSUME NEW g, Counted(g)
      PROVE  /\ g.msgs - 10 * g.unknown \in Int /\ g.msgs - 10 * g.unknown <= g.msgs
             /\ Tenths(15, g.msgs - 10 * g.unknown, g.msgs) \in Nat
             /\ Tenths(15, g.msgs - 10 * g.unknown, g.msgs) <= 150
  <2>1. \A m, u \in Nat : m - 10 * u \in Int /\ m - 10 * u <= m
    OBVIOUS
  <2>2. g.msgs - 10 * g.unknown \in Int /\ g.msgs - 10 * g.unknown <= g.msgs
    BY <1>1, <2>1 DEF Counted
  <2>3. g.msgs \in Nat
    BY <1>1 DEF Counted
  <2>4. /\ Tenths(15, g.msgs - 10 * g.unknown, g.msgs) \in Nat
        /\ Tenths(15, g.msgs - 10 * g.unknown, g.msgs) <= 10 * 15
    BY <2>2, <2>3, TenthsAre
  <2> QED
    BY <2>2, <2>4
<1>2. ASSUME NEW g, Counted(g)
      PROVE  UnknownSources(g) \in Nat /\ UnknownSources(g) <= 150
  BY <1>1, <1>2 DEF UnknownSources
<1>3. ASSUME NEW g, Counted(g), g.msgs = h.msgs, g.unknown <= h.unknown
      PROVE  UnknownSources(g) >= UnknownSources(h)
  <2>1. CASE g.msgs > 0 /\ g.unknown > 0
    <3>1. h.unknown > 0
      BY <1>3, <2>1 DEF Counted
    <3>2. \A m, u, v \in Nat : u <= v => m - 10 * v <= m - 10 * u
      OBVIOUS
    <3>3. h.msgs - 10 * h.unknown <= h.msgs - 10 * g.unknown
      BY <1>3, <3>2 DEF Counted
    <3>4. Tenths(15, h.msgs - 10 * h.unknown, h.msgs) <= Tenths(15, h.msgs - 10 * g.unknown, h.msgs)
      BY <1>1, <1>3, <3>3, TenthsAre DEF Counted
    <3>5. /\ UnknownSources(h) = Tenths(15, h.msgs - 10 * h.unknown, h.msgs)
          /\ UnknownSources(g) = Tenths(15, h.msgs - 10 * g.unknown, h.msgs)
      BY <1>3, <2>1, <3>1 DEF UnknownSources
    <3> QED
      BY <1>2, <1>3, <3>4, <3>5
  <2>2. CASE ~(g.msgs > 0 /\ g.unknown > 0)
    <3>1. UnknownSources(g) = 150
      BY <2>2 DEF UnknownSources
    <3> QED
      BY <1>2, <3>1
  <2> QED
    BY <2>1, <2>2
<1> QED
  BY <1>2, <1>3

\* What the service judges are counts and a policy.
JudgesCounts ==
  /\ inputs # None => inputs \in HealthInputs
  /\ policy \in Policies /\ pct \in Percents \cup {None}

LEMMA HealthFits ==
  ASSUME NEW h, Counted(h), NEW p \in Policies, NEW q \in Nat \cup {None}
  PROVE  /\ Health(h, p, q) \in 0..100
         /\ \A g : /\ Counted(g) /\ g.msgs = h.msgs /\ g.msgsPrior = h.msgsPrior
                  /\ g.alignedPrior = h.alignedPrior
                  /\ g.aligned >= h.aligned /\ g.days >= h.days /\ g.unknown <= h.unknown
                  => Health(g, p, q) >= Health(h, p, q)
         /\ \A r \in Policies, u \in Nat \cup {None} :
              PolicyStrength(p, q) <= PolicyStrength(r, u) => Health(h, r, u) >= Health(h, p, q)
<1> DEFINE all(g, s) == Alignment(g) + Trend(g) + s + Coverage(g) + UnknownSources(g) + 5
<1>1. \A s, t \in Nat : s <= t => s \div 10 <= t \div 10
  BY DivMonotone
<1>2. ASSUME NEW s \in Nat, s <= 200
      PROVE  all(h, s) \in Nat /\ all(h, s) <= 1005
  BY <1>2, AlignmentFits, TrendFits, CoverageFits, UnknownFits
<1>3. PolicyStrength(p, q) \in Nat /\ PolicyStrength(p, q) <= 200
  BY PolicyFits
<1>4. Health(h, p, q) \in 0..100
  <2>1. Health(h, p, q) = all(h, PolicyStrength(p, q)) \div 10
    BY DEF Health
  <2>2. all(h, PolicyStrength(p, q)) \in Nat /\ all(h, PolicyStrength(p, q)) <= 1005
    BY <1>2, <1>3
  <2> HIDE DEF all
  <2>3. \A s \in Nat : s <= 1005 => s \div 10 \in Nat /\ s \div 10 <= 100
    BY DivIs, DivAtMost
  <2> QED
    BY <2>1, <2>2, <2>3
<1>5. ASSUME NEW g, Counted(g), g.msgs = h.msgs, g.msgsPrior = h.msgsPrior,
             g.alignedPrior = h.alignedPrior,
             g.aligned >= h.aligned, g.days >= h.days, g.unknown <= h.unknown
      PROVE  Health(g, p, q) >= Health(h, p, q)
  <2>1. /\ Alignment(g) \in Nat /\ Alignment(h) \in Nat /\ Alignment(g) >= Alignment(h)
        /\ Trend(g) \in Nat /\ Trend(h) \in Nat /\ Trend(g) >= Trend(h)
    BY <1>5, AlignmentFits, TrendFits
  <2>2. /\ Coverage(g) \in Nat /\ Coverage(h) \in Nat /\ Coverage(g) >= Coverage(h)
        /\ UnknownSources(g) \in Nat /\ UnknownSources(h) \in Nat
        /\ UnknownSources(g) >= UnknownSources(h)
    BY <1>5, CoverageFits, UnknownFits
  <2>3. /\ all(h, PolicyStrength(p, q)) \in Nat /\ all(g, PolicyStrength(p, q)) \in Nat
        /\ all(h, PolicyStrength(p, q)) <= all(g, PolicyStrength(p, q))
    BY <1>3, <2>1, <2>2
  <2>4. /\ Health(h, p, q) = all(h, PolicyStrength(p, q)) \div 10
        /\ Health(g, p, q) = all(g, PolicyStrength(p, q)) \div 10
    BY DEF Health
  <2> HIDE DEF all
  <2>5. /\ all(h, PolicyStrength(p, q)) \div 10 \in Nat
        /\ all(g, PolicyStrength(p, q)) \div 10 \in Nat
        /\ all(h, PolicyStrength(p, q)) \div 10 <= all(g, PolicyStrength(p, q)) \div 10
    BY <1>1, <2>3, DivIs
  <2> QED
    BY <2>4, <2>5
<1>6. ASSUME NEW r \in Policies, NEW u \in Nat \cup {None},
             PolicyStrength(p, q) <= PolicyStrength(r, u)
      PROVE  Health(h, r, u) >= Health(h, p, q)
  <2> DEFINE s == PolicyStrength(p, q)
             t == PolicyStrength(r, u)
  <2>1. s \in Nat /\ t \in Nat /\ s <= t
    BY <1>6, PolicyFits
  <2>2. Health(h, p, q) = all(h, s) \div 10 /\ Health(h, r, u) = all(h, t) \div 10
    BY DEF Health
  <2> HIDE DEF s, t
  <2>3. all(h, s) \in Nat /\ all(h, t) \in Nat /\ all(h, s) <= all(h, t)
    BY <2>1, AlignmentFits, TrendFits, CoverageFits, UnknownFits
  <2> HIDE DEF all
  <2>4. /\ all(h, s) \div 10 <= all(h, t) \div 10
        /\ all(h, s) \div 10 \in Nat /\ all(h, t) \div 10 \in Nat
    BY <1>1, <2>3, DivIs
  <2> QED
    BY <2>2, <2>4
<1> QED
  BY <1>4, <1>5, <1>6

\* ComputeHealth (store_stats.go) never turns on a domain that aligns more of
\* the same mail, reports on more days, has more of its senders classed, widens
\* its pct, or goes from quarantine to reject or from anything to full reject;
\* whatever its counts are.
THEOREM ScoreIsMonotone == Spec => []HealthIsMonotone
<1>1. Init => JudgesCounts
  BY DEF Init, ReadinessInit, ReadinessIdle, JudgesCounts, Policies
<1>2. JudgesCounts /\ [Next]_vars => JudgesCounts'
  BY DEF JudgesCounts, Next, vars, AccessStep, IntelStep, SelectorsStep, RetentionStep, DigestStep,
         ExtractStep, ReadinessStep, readinessVars, domainState, ReadinessNext, ReadSources,
         Recommend, HealthInputs
<1>3. JudgesCounts => HealthIsMonotone
  <2> SUFFICES ASSUME JudgesCounts, inputs # None
               PROVE  /\ Health(inputs, policy, pct) \in 0..100
                      /\ \A h \in {[inputs EXCEPT !.days = @ + 1],
                                   [inputs EXCEPT !.aligned = AtMost(@ + 1, inputs.msgs)],
                                   [inputs EXCEPT !.unknown = IF @ = 0 THEN 0 ELSE @ - 1]} :
                           Health(h, policy, pct) >= Health(inputs, policy, pct)
                      /\ \A q \in Percents \ {None} : pct # None /\ pct <= q =>
                           Health(inputs, policy, q) >= Health(inputs, policy, pct)
                      /\ policy = "quarantine" =>
                           Health(inputs, "reject", pct) >= Health(inputs, policy, pct)
                      /\ Health(inputs, "reject", 100) >= Health(inputs, policy, pct)
    BY DEF HealthIsMonotone
  <2>1. Counts \subseteq Nat /\ Days \subseteq Nat
    BY ReadinessAssumption DEF ReadinessAssumption
  <2>2. /\ inputs \in [msgs : Counts, aligned : Counts, msgsPrior : Counts, alignedPrior : Counts,
                       days : Days, unknown : Counts]
        /\ inputs.aligned <= inputs.msgs
    BY DEF JudgesCounts, HealthInputs
  <2>3. Counted(inputs)
    BY <2>1, <2>2 DEF Counted
  <2> DEFINE Better(g) == /\ Counted(g) /\ g.msgs = inputs.msgs /\ g.msgsPrior = inputs.msgsPrior
                          /\ g.alignedPrior = inputs.alignedPrior /\ g.aligned >= inputs.aligned
                          /\ g.days >= inputs.days /\ g.unknown <= inputs.unknown
  <2>4. Better([inputs EXCEPT !.days = @ + 1])
    BY <2>1, <2>2 DEF Counted
  <2>5. Better([inputs EXCEPT !.aligned = AtMost(@ + 1, inputs.msgs)])
    BY <2>1, <2>2 DEF Counted, AtMost
  <2>6. Better([inputs EXCEPT !.unknown = IF @ = 0 THEN 0 ELSE @ - 1])
    <3>1. \A u \in Nat : (IF u = 0 THEN 0 ELSE u - 1) \in Nat /\ (IF u = 0 THEN 0 ELSE u - 1) <= u
      OBVIOUS
    <3> QED
      BY <2>1, <2>2, <3>1 DEF Counted
  <2>7. policy \in Policies /\ pct \in Nat \cup {None} /\ Percents \subseteq Nat \cup {None}
    BY ReadinessAssumption DEF JudgesCounts, ReadinessAssumption
  <2>8. \A g : Better(g) => Health(g, policy, pct) >= Health(inputs, policy, pct)
    BY <2>3, <2>7, HealthFits
  <2>9. \A r \in Policies, u \in Nat \cup {None} :
          PolicyStrength(policy, pct) <= PolicyStrength(r, u) =>
            Health(inputs, r, u) >= Health(inputs, policy, pct)
    BY <2>3, <2>7, HealthFits
  <2>10. \A q \in Percents \ {None} : pct # None /\ pct <= q =>
           PolicyStrength(policy, pct) <= PolicyStrength(policy, q)
    BY <2>7, PctGrows
  <2>11. policy = "quarantine" => PolicyStrength(policy, pct) <= PolicyStrength("reject", pct)
    BY <2>7, RejectGrows
  <2>12. PolicyStrength(policy, pct) <= PolicyStrength("reject", 100) /\ "reject" \in Policies
    BY <2>7, PolicyFits DEF Policies
  <2>13. Health(inputs, policy, pct) \in 0..100
    BY <2>3, <2>7, HealthFits
  <2> HIDE DEF Better
  <2> QED
    BY <2>4, <2>5, <2>6, <2>7, <2>8, <2>9, <2>10, <2>11, <2>12, <2>13
<1> QED
  BY <1>1, <1>2, <1>3, PTL DEF Spec

-----------------------------------------------------------------------------
(* The recommendation.  The query has every failing source, or as many as  *)
(* its limit allows and none smaller than one it has not.                  *)

SourcesRead ==
  /\ msgsOf \in [Sources -> Nat] /\ classed \subseteq Sources /\ msgs90 \in Nat
  /\ policy \in Policies /\ pct \in Percents \cup {None}
  /\ verdict = "read" => fails \subseteq Failing /\ Top(fails)

ReadinessInv == SourcesRead /\ EnforceIsSafe

LEMMA ReadinessStarts == Init => ReadinessInv
<1> SUFFICES ASSUME Init PROVE ReadinessInv
  OBVIOUS
<1>1. Volumes \subseteq Nat /\ \A t \in Totals : t.msgs \in Nat
  BY ReadinessAssumption DEF ReadinessAssumption
<1>2. ReadinessIdle \/ ReadinessInit
  BY DEF Init
<1>3. verdict = "none"
  BY <1>2 DEF ReadinessIdle, ReadinessInit
<1>4. SourcesRead
  <2>1. CASE ReadinessIdle
    BY <2>1 DEF ReadinessIdle, SourcesRead, Policies
  <2>2. CASE ReadinessInit
    <3>1. /\ msgsOf \in [Sources -> Volumes] \/ msgsOf = [s \in Sources |-> 0]
          /\ classed \subseteq Sources /\ policy \in Policies /\ pct \in Percents
          /\ msgs90 = 0 \/ \E t \in Totals : msgs90 = t.msgs
      BY <2>2 DEF ReadinessInit
    <3>2. msgsOf \in [Sources -> Nat]
      <4>1. CASE msgsOf \in [Sources -> Volumes]
        BY <1>1, <4>1
      <4>2. CASE msgsOf = [s \in Sources |-> 0]
        BY <4>2
      <4> QED
        BY <3>1, <4>1, <4>2
    <3> QED
      BY <1>1, <1>3, <3>1, <3>2 DEF SourcesRead
  <2> QED
    BY <1>2, <2>1, <2>2
<1> QED
  BY <1>3, <1>4 DEF ReadinessInv, EnforceIsSafe

\* A policy of reject for a part of the mail only is not the strictest.
LEMMA PartIsNotAll ==
  ASSUME pct \in Nat, pct < 100, pct # None
  PROVE  PolicyStrength("reject", pct) # 200
<1>1. None \notin {"reject", "none"}
  BY ReadinessAssumption DEF ReadinessAssumption
<1>2. Base("reject") = 10 /\ Share("reject", pct) = pct /\ "reject" \in Policies
  BY <1>1 DEF Base, Share, Stated, Policies
<1>3. PolicyStrength("reject", pct) = Tenths(20, 10 * pct, 1000)
  BY <1>2, StrengthIs
<1>4. Tenths(20, 10 * pct, 1000) = (20 * 20 * (10 * pct) + 1000) \div (2 * 1000)
  BY DEF Tenths
<1>5. 20 * 20 * (10 * pct) + 1000 = 4000 * pct + 1000 /\ 2 * 1000 = 2000
  OBVIOUS
<1>6. 4000 * pct + 1000 \in Nat /\ 4000 * pct + 1000 < 2000 * 199 + 2000
  OBVIOUS
<1>7. (4000 * pct + 1000) \div 2000 <= 199
  BY <1>6, DivAtMost
<1> QED
  BY <1>3, <1>4, <1>5, <1>7

\* A source that was not read has as many known ones before it as the query
\* may return.
LEMMA HiddenByKnown ==
  ASSUME SourcesRead, verdict = "read", ~Blocked,
         NEW s \in Sources \ classed, msgsOf[s] > LoudLimit
  PROVE  Cardinality({t \in classed : msgsOf[t] >= msgsOf[s]}) >= TopLimit
<1>1. /\ fails \subseteq Failing /\ Top(fails)
      /\ msgsOf \in [Sources -> Nat] /\ classed \subseteq Sources
  BY DEF SourcesRead
<1>2. LoudLimit \in Nat /\ TopLimit \in Nat /\ IsFiniteSet(Sources)
  BY ReadinessAssumption DEF ReadinessAssumption
<1>3. s \notin fails /\ s \in Failing
  BY <1>1, <1>2 DEF Blocked, Failing
<1>4. IsFiniteSet(fails) /\ Cardinality(fails) \in Nat
  BY <1>1, <1>2, FS_Subset, FS_CardinalityType DEF Failing
<1>5. Cardinality(fails) >= TopLimit /\ \A t \in fails : msgsOf[t] >= msgsOf[s]
  BY <1>1, <1>2, <1>3, <1>4 DEF Top
<1> DEFINE larger == {t \in classed : msgsOf[t] >= msgsOf[s]}
<1>6. fails \subseteq larger
  BY <1>1, <1>2, <1>5 DEF Blocked, Failing
<1>7. IsFiniteSet(larger)
  BY <1>1, <1>2, FS_Subset
<1>8. Cardinality(fails) <= Cardinality(larger) /\ Cardinality(larger) \in Nat
  BY <1>6, <1>7, FS_Subset, FS_CardinalityType
<1> QED
  BY <1>2, <1>4, <1>5, <1>8

LEMMA RecommendIsSafe ==
  ASSUME SourcesRead, Recommend
  PROVE  EnforceIsSafe'
<1>1. /\ verdict = "read" /\ verdict' = Recommendation
      /\ UNCHANGED <<msgsOf, classed, msgs90, aligned, policy, pct>>
  BY DEF Recommend, domainState
<1> SUFFICES ASSUME Recommendation \in {"enforce", "step_pct"}
             PROVE  /\ \A s \in Sources \ classed : msgsOf[s] > LoudLimit =>
                         Cardinality({t \in classed : msgsOf[t] >= msgsOf[s]}) >= TopLimit
                    /\ ~(policy = "reject" /\ PolicyStrength(policy, pct) = 200)
  BY <1>1 DEF EnforceIsSafe, PolicyStrength
<1>2. msgs90 \in Nat
  BY DEF SourcesRead
<1>3. msgs90 # 0 /\ ~Blocked
  BY <1>2 DEF Recommendation
<1>4. ~(Published = "reject" /\ FullPct)
  BY <1>2, <1>3 DEF Recommendation
<1>5. ~(policy = "reject" /\ PolicyStrength(policy, pct) = 200)
  <2> SUFFICES ASSUME policy = "reject" PROVE PolicyStrength("reject", pct) # 200
    OBVIOUS
  <2>1. None # "reject" /\ Percents \subseteq Nat \cup {None}
    BY ReadinessAssumption DEF ReadinessAssumption
  <2>2. ~FullPct
    BY <1>4, <2>1 DEF Published
  <2>3. pct # None /\ pct \in Nat /\ pct < 100
    BY <2>1, <2>2 DEF FullPct, SourcesRead
  <2> QED
    BY <2>3, PartIsNotAll
<1> QED
  BY <1>1, <1>3, <1>5, HiddenByKnown

LEMMA ReadinessStays == ReadinessInv /\ [Next]_vars => ReadinessInv'
<1> SUFFICES ASSUME ReadinessInv, [Next]_vars PROVE ReadinessInv'
  OBVIOUS
<1>1. CASE UNCHANGED readinessVars
  <2>1. UNCHANGED <<msgsOf, classed, msgs90, aligned, policy, pct, fails, verdict>>
    BY <1>1 DEF readinessVars, domainState
  <2>2. EnforceIsSafe'
    BY <2>1 DEF ReadinessInv, EnforceIsSafe, PolicyStrength
  <2>3. SourcesRead'
    BY <2>1 DEF ReadinessInv, SourcesRead, Failing, Top
  <2> QED
    BY <2>2, <2>3 DEF ReadinessInv
<1>2. CASE ReadSources
  <2>1. /\ verdict' = "read" /\ fails' \subseteq Failing /\ Top(fails')
        /\ UNCHANGED <<msgsOf, classed, msgs90, aligned, policy, pct>>
    BY <1>2 DEF ReadSources, domainState
  <2> QED
    BY <2>1 DEF ReadinessInv, SourcesRead, EnforceIsSafe, Failing, Top
<1>3. CASE Recommend
  <2>1. EnforceIsSafe'
    BY <1>3, RecommendIsSafe DEF ReadinessInv
  <2>2. verdict' = Recommendation /\ UNCHANGED <<msgsOf, classed, msgs90, aligned, policy, pct>>
    BY <1>3 DEF Recommend, domainState
  <2>3. Recommendation # "read"
    BY DEF Recommendation
  <2> QED
    BY <2>1, <2>2, <2>3 DEF ReadinessInv, SourcesRead
<1> QED
  BY <1>1, <1>2, <1>3
  DEF Next, vars, AccessStep, IntelStep, SelectorsStep, RetentionStep, DigestStep, ExtractStep,
      ReadinessStep, ReadinessNext

\* A domain is told to enforce, or to widen its policy, only while every loud
\* unknown source has as many known ones before it as the query returns, and
\* there is something stricter to go to; for any sources, volumes and limits,
\* and whatever dmarc_agg_daily says of the same mail.
THEOREM AdviceIsSafe == Spec => []EnforceIsSafe
<1>1. ReadinessInv => EnforceIsSafe
  BY DEF ReadinessInv
<1> QED
  BY <1>1, ReadinessStarts, ReadinessStays, PTL DEF Spec

-----------------------------------------------------------------------------
(* The limiters.  A limiter that has promised tokens owes exactly those;   *)
(* whoever still waits for one was promised another than the rest, and     *)
(* none later than the last.  So a token taken back was always owed.       *)

LimiterIsRight(n) ==
  /\ tokens[n] \in Int /\ tokens[n] <= Burst /\ lastEvent[n] \in Nat
  /\ lastEvent[n] > now => tokens[n] = now - lastEvent[n]
  /\ \A q \in WaitingOf(n) : actsAt[q] >= now =>
       /\ actsAt[q] <= lastEvent[n]
       /\ actsAt[q] = lastEvent[n] /\ lastEvent[n] = now => tokens[n] <= 0
       /\ \A p \in WaitingOf(n) : actsAt[p] = actsAt[q] => p = q

LimiterInv ==
  /\ actsAt \in [Requests -> Nat] /\ DOMAIN lastEvent = DOMAIN tokens
  /\ \A n \in DOMAIN tokens : LimiterIsRight(n)

LEMMA ReservesKeepLimiter ==
  ASSUME RequestInv, LimiterInv, NEW q \in Requests, Reserve(q)
  PROVE  LimiterInv'
<1>1. /\ AccessShape /\ keys # None /\ phase[q] = "out" /\ Matches(q) # {} /\ now \in Nat
      /\ UNCHANGED <<keys, now>>
  BY DEF RequestInv, Reserve, Comes, AccessShape
<1>2. NameOfKey(q) \in DOMAIN tokens
  BY <1>1, LimiterIsThere
<1> PICK n \in DOMAIN tokens : n = NameOfKey(q)
  BY <1>2
<1> DEFINE promised == IF Allows(n) THEN now ELSE now + 1 - tokens[n]
           stage == IF Allows(n) THEN "handler" ELSE "limited"
<1>3. LimiterIsRight(n) /\ tokens[n] \in Int /\ lastEvent[n] \in Nat
  BY <1>1 DEF LimiterInv, LimiterIsRight
<1>4. /\ promised \in Nat /\ promised >= now /\ Allows(n) = (tokens[n] >= 1)
      /\ ~Allows(n) => promised = now + 1 - tokens[n] /\ promised > now
      /\ Allows(n) => promised = now
      /\ ~Allows(n) => stage = "limited"
      /\ Allows(n) => stage = "handler"
  BY <1>1, <1>3 DEF Allows
<1>5. /\ tokens' = [tokens EXCEPT ![n] = @ - 1]
      /\ actsAt' = [actsAt EXCEPT ![q] = promised]
      /\ lastEvent' = [lastEvent EXCEPT ![n] = promised]
      /\ phase' = [phase EXCEPT ![q] = stage]
  BY DEF Reserve
<1> HIDE DEF promised, stage
<1>6. \A p \in Requests : NameOfKey(p)' = NameOfKey(p)
  BY <1>1 DEF NameOfKey, Match, Matches
<1>7. actsAt' \in [Requests -> Nat] /\ DOMAIN lastEvent' = DOMAIN tokens'
      /\ DOMAIN tokens' = DOMAIN tokens
      /\ actsAt'[q] = promised /\ \A p \in Requests \ {q} : actsAt'[p] = actsAt[p]
  BY <1>4, <1>5 DEF LimiterInv
<1>8. \A m \in DOMAIN tokens : m # n => /\ tokens'[m] = tokens[m] /\ lastEvent'[m] = lastEvent[m]
                                       /\ WaitingOf(m)' = WaitingOf(m) /\ q \notin WaitingOf(m)
  BY <1>1, <1>5, <1>6 DEF LimiterInv, WaitingOf, AccessShape
<1>9. tokens'[n] = tokens[n] - 1 /\ lastEvent'[n] = promised
  BY <1>5 DEF LimiterInv
<1>10. q \notin WaitingOf(n)
       /\ WaitingOf(n)' = IF Allows(n) THEN WaitingOf(n) ELSE WaitingOf(n) \cup {q}
  <2>1. q \notin WaitingOf(n)
    BY <1>1 DEF WaitingOf
  <2>2. CASE Allows(n)
    BY <1>1, <1>4, <1>5, <1>6, <2>2 DEF WaitingOf, AccessShape
  <2>3. CASE ~Allows(n)
    BY <1>1, <1>4, <1>5, <1>6, <2>3 DEF WaitingOf, AccessShape
  <2> QED
    BY <2>1, <2>2, <2>3
<1>11. LimiterIsRight(n)'
  <2>1. /\ tokens'[n] \in Int /\ tokens'[n] <= Burst /\ lastEvent'[n] \in Nat
        /\ lastEvent'[n] > now' => tokens'[n] = now' - lastEvent'[n]
    BY <1>1, <1>3, <1>4, <1>9, RequestFacts DEF LimiterIsRight
  <2>2. \A p \in WaitingOf(n) : actsAt[p] >= now =>
          actsAt[p] <= promised /\ (~Allows(n) => actsAt[p] < promised)
    <3> SUFFICES ASSUME NEW p \in WaitingOf(n), actsAt[p] >= now
                 PROVE  actsAt[p] <= promised /\ (~Allows(n) => actsAt[p] < promised)
      OBVIOUS
    <3>1. /\ actsAt[p] \in Nat /\ actsAt[p] <= lastEvent[n]
          /\ lastEvent[n] > now => tokens[n] = now - lastEvent[n]
          /\ actsAt[p] = lastEvent[n] /\ lastEvent[n] = now => tokens[n] <= 0
      BY <1>3 DEF LimiterIsRight, LimiterInv, WaitingOf
    <3>2. CASE Allows(n)
      <4>1. promised = now /\ tokens[n] >= 1
        BY <1>4, <3>2
      <4> QED
        BY <1>1, <1>3, <3>1, <3>2, <4>1
    <3>3. CASE ~Allows(n)
      <4>1. promised = now + 1 - tokens[n] /\ promised > now /\ promised \in Nat
        BY <1>4, <3>3
      <4> QED
        BY <1>1, <1>3, <3>1, <4>1
    <3> QED
      BY <3>2, <3>3
  <2>3. ASSUME NEW p \in WaitingOf(n)', actsAt'[p] >= now'
        PROVE  /\ actsAt'[p] <= lastEvent'[n]
               /\ actsAt'[p] = lastEvent'[n] /\ lastEvent'[n] = now' => tokens'[n] <= 0
               /\ \A r \in WaitingOf(n)' : actsAt'[r] = actsAt'[p] => r = p
    <3>0. /\ p \in Requests /\ (p = q => ~Allows(n)) /\ (p # q => p \in WaitingOf(n))
          /\ \A r \in WaitingOf(n) : r \in Requests \ {q}
      BY <1>10, <2>3 DEF WaitingOf
    <3>1. CASE p = q
      <4>1. actsAt'[p] = promised /\ promised > now /\ ~Allows(n)
        BY <1>4, <1>7, <3>0, <3>1
      <4>2. \A r \in WaitingOf(n) : actsAt'[r] # promised
        <5> TAKE r \in WaitingOf(n)
        <5>1. actsAt'[r] = actsAt[r] /\ actsAt[r] \in Nat
          BY <1>7, <3>0 DEF LimiterInv
        <5> QED
          BY <1>1, <1>4, <2>2, <4>1, <5>1
      <4> QED
        BY <1>1, <1>4, <1>9, <1>10, <3>1, <4>1, <4>2
    <3>2. CASE p # q
      <4>1. p \in WaitingOf(n) /\ actsAt'[p] = actsAt[p] /\ actsAt[p] \in Nat /\ actsAt[p] >= now
        BY <1>1, <1>7, <2>3, <3>0, <3>2 DEF LimiterInv
      <4>2. actsAt[p] <= promised /\ (~Allows(n) => actsAt[p] < promised)
        BY <2>2, <4>1
      <4>3. actsAt[p] = promised /\ promised = now => tokens'[n] <= 0
        BY <1>1, <1>3, <1>4, <1>9, <4>1, <4>2 DEF LimiterIsRight
      <4>4. \A r \in WaitingOf(n) : actsAt'[r] = actsAt'[p] => r = p
        BY <1>3, <1>7, <3>0, <4>1 DEF LimiterIsRight
      <4>5. ~Allows(n) => actsAt'[q] # actsAt'[p]
        BY <1>1, <1>4, <1>7, <4>1, <4>2
      <4> QED
        BY <1>1, <1>9, <1>10, <4>1, <4>2, <4>3, <4>4, <4>5
    <3> QED
      BY <3>1, <3>2
  <2> QED
    BY <2>1, <2>3 DEF LimiterIsRight
<1>12. \A m \in DOMAIN tokens : LimiterIsRight(m)'
  <2> TAKE m \in DOMAIN tokens
  <2>1. CASE m = n
    BY <1>11, <2>1
  <2>2. CASE m # n
    <3>1. LimiterIsRight(m) /\ \A p \in WaitingOf(m) : p \in Requests \ {q}
      BY <1>1, <1>8, <2>2 DEF LimiterInv, WaitingOf
    <3> QED
      BY <1>1, <1>7, <1>8, <2>2, <3>1 DEF LimiterIsRight
  <2> QED
    BY <2>1, <2>2
<1> QED
  BY <1>7, <1>12 DEF LimiterInv

\* One request leaves the queue of its limiter, or everybody does.
LEMMA OthersLeave ==
  ASSUME LimiterInv, now \in Nat, UNCHANGED <<tokens, lastEvent, actsAt, now>>,
         \A n \in DOMAIN tokens : WaitingOf(n)' \subseteq WaitingOf(n)
  PROVE  LimiterInv'
<1>1. ASSUME NEW n \in DOMAIN tokens
      PROVE  LimiterIsRight(n)'
  <2>1. LimiterIsRight(n)
    BY DEF LimiterInv
  <2> QED
    BY <2>1 DEF LimiterIsRight
<1> QED
  BY <1>1 DEF LimiterInv

LEMMA CancelsKeepLimiter ==
  ASSUME RequestInv, LimiterInv, NEW q \in Requests, CancelReservation(q)
  PROVE  LimiterInv'
<1>1. /\ AccessShape /\ keys # None /\ phase[q] = "limited" /\ Matches(q) # {} /\ now \in Nat
      /\ phase' = [phase EXCEPT ![q] = "answered"]
      /\ UNCHANGED <<keys, now, actsAt>>
  BY DEF RequestInv, RequestIsRight, CancelReservation, AccessShape
<1>2. NameOfKey(q) \in DOMAIN tokens
  BY <1>1, LimiterIsThere
<1> PICK n \in DOMAIN tokens : n = NameOfKey(q)
  BY <1>2
<1>3. /\ LimiterIsRight(n) /\ tokens[n] \in Int /\ lastEvent[n] \in Nat
      /\ actsAt \in [Requests -> Nat] /\ actsAt[q] \in Nat /\ DOMAIN lastEvent = DOMAIN tokens
  BY <1>1 DEF LimiterInv, LimiterIsRight
<1>4. \A p \in Requests : NameOfKey(p)' = NameOfKey(p)
  BY <1>1 DEF NameOfKey, Match, Matches
<1>5. /\ \A m : m # n => WaitingOf(m)' = WaitingOf(m)
      /\ q \in WaitingOf(n) /\ WaitingOf(n)' = WaitingOf(n) \ {q}
  BY <1>1, <1>4 DEF WaitingOf, AccessShape
<1> DEFINE back == actsAt[q] >= now /\ actsAt[q] = lastEvent[n]
<1>6. /\ tokens' = IF back THEN [tokens EXCEPT ![n] = @ + 1] ELSE tokens
      /\ lastEvent' = IF back /\ actsAt[q] > now THEN [lastEvent EXCEPT ![n] = @ - 1]
                                                 ELSE lastEvent
  BY DEF CancelReservation
<1>7. CASE ~back
  <2>1. UNCHANGED <<tokens, lastEvent>>
    BY <1>6, <1>7
  <2>2. \A m \in DOMAIN tokens : WaitingOf(m)' \subseteq WaitingOf(m)
    BY <1>5
  <2> QED
    BY <1>1, <2>1, <2>2, OthersLeave
<1>8. CASE back
  <2>1. /\ actsAt[q] >= now /\ actsAt[q] = lastEvent[n]
        /\ tokens'[n] = tokens[n] + 1
        /\ lastEvent'[n] = IF lastEvent[n] > now THEN lastEvent[n] - 1 ELSE lastEvent[n]
        /\ DOMAIN tokens' = DOMAIN tokens /\ DOMAIN lastEvent' = DOMAIN tokens
        /\ \A m \in DOMAIN tokens : m # n => /\ tokens'[m] = tokens[m]
                                            /\ lastEvent'[m] = lastEvent[m]
    BY <1>3, <1>6, <1>8
  <2>2. /\ lastEvent[n] >= now
        /\ lastEvent[n] > now => tokens[n] = now - lastEvent[n]
        /\ lastEvent[n] = now => tokens[n] <= 0
    BY <1>3, <1>5, <2>1 DEF LimiterIsRight
  <2> HIDE DEF back
  <2>3. /\ tokens'[n] \in Int /\ tokens'[n] <= Burst /\ lastEvent'[n] \in Nat
        /\ lastEvent'[n] > now => tokens'[n] = now - lastEvent'[n]
    BY <1>1, <1>3, <2>1, <2>2, RequestFacts
  <2>4. ASSUME NEW p \in WaitingOf(n)', actsAt[p] >= now
        PROVE  /\ actsAt[p] <= lastEvent'[n]
               /\ actsAt[p] = lastEvent'[n] /\ lastEvent'[n] = now => tokens'[n] <= 0
               /\ \A r \in WaitingOf(n)' : actsAt[r] = actsAt[p] => r = p
    <3>1. p \in WaitingOf(n) /\ p # q /\ actsAt[p] \in Nat
      BY <1>3, <1>5 DEF WaitingOf
    <3>2. /\ actsAt[p] <= lastEvent[n] /\ actsAt[q] # actsAt[p]
          /\ \A r \in WaitingOf(n)' : actsAt[r] = actsAt[p] => r = p
      BY <1>3, <1>5, <2>4, <3>1 DEF LimiterIsRight
    <3>3. actsAt[p] < lastEvent[n] /\ lastEvent[n] > now
      BY <1>1, <1>3, <2>1, <2>4, <3>1, <3>2
    <3>4. lastEvent'[n] = lastEvent[n] - 1 /\ tokens[n] = now - lastEvent[n]
      BY <2>1, <2>2, <3>3
    <3> QED
      BY <1>1, <1>3, <2>1, <3>1, <3>2, <3>3, <3>4
  <2>5. LimiterIsRight(n)'
    BY <1>1, <2>3, <2>4 DEF LimiterIsRight
  <2>6. ASSUME NEW m \in DOMAIN tokens, m # n
        PROVE  LimiterIsRight(m)'
    <3>1. LimiterIsRight(m)
      BY <1>1 DEF LimiterInv
    <3> QED
      BY <1>1, <1>5, <2>1, <2>6, <3>1 DEF LimiterIsRight
  <2> QED
    BY <1>1, <1>3, <2>1, <2>5, <2>6 DEF LimiterInv
<1> QED
  BY <1>7, <1>8

LEMMA AllMovesKeepLimiter ==
  ASSUME RequestInv, LimiterInv, LoadKeys \/ TokensCome \/ AccessCrash
  PROVE  LimiterInv'
<1>1. Burst \in Nat \ {0} /\ now \in Nat /\ actsAt \in [Requests -> Nat]
  BY RequestFacts DEF RequestInv, AccessShape, LimiterInv
<1>2. CASE LoadKeys \/ AccessCrash
  <2>1. /\ \A n \in DOMAIN tokens' : tokens'[n] = Burst /\ lastEvent'[n] = 0
        /\ DOMAIN lastEvent' = DOMAIN tokens'
        /\ \A q \in Requests : phase'[q] # "limited"
        /\ UNCHANGED <<now, actsAt>>
    <3>1. CASE LoadKeys
      BY <3>1 DEF LoadKeys, RequestInv, KeysFirst
    <3>2. CASE AccessCrash
      BY <3>2 DEF AccessCrash
    <3> QED
      BY <1>2, <3>1, <3>2
  <2>2. \A n : WaitingOf(n)' = {}
    BY <2>1 DEF WaitingOf
  <2>3. \A n \in DOMAIN tokens' : LimiterIsRight(n)'
    BY <1>1, <2>1, <2>2 DEF LimiterIsRight
  <2> QED
    BY <1>1, <2>1, <2>3 DEF LimiterInv
<1>3. CASE TokensCome
  <2>1. /\ keys # None /\ now' = now + 1 /\ DOMAIN tokens' = DOMAIN tokens
        /\ \A n \in DOMAIN tokens :
             tokens'[n] = IF tokens[n] < Burst THEN tokens[n] + 1 ELSE Burst
        /\ UNCHANGED <<keys, phase, lastEvent, actsAt>>
    BY <1>3 DEF TokensCome
  <2>2. \A n : WaitingOf(n)' = WaitingOf(n)
    BY <2>1 DEF WaitingOf, NameOfKey, Match, Matches
  <2>3. ASSUME NEW n \in DOMAIN tokens
        PROVE  LimiterIsRight(n)'
    <3>1. /\ LimiterIsRight(n) /\ tokens[n] \in Int /\ tokens[n] <= Burst
          /\ lastEvent[n] \in Nat /\ (lastEvent[n] > now => tokens[n] = now - lastEvent[n])
      BY <2>1 DEF LimiterInv, LimiterIsRight
    <3>2. /\ tokens'[n] \in Int /\ tokens'[n] <= Burst
          /\ lastEvent[n] > now + 1 => tokens'[n] = now + 1 - lastEvent[n]
          /\ lastEvent[n] = now + 1 => tokens'[n] = 0
      BY <1>1, <2>1, <3>1
    <3>3. ASSUME NEW q \in WaitingOf(n), actsAt[q] >= now + 1
          PROVE  /\ actsAt[q] <= lastEvent[n]
                 /\ \A p \in WaitingOf(n) : actsAt[p] = actsAt[q] => p = q
      <4>1. actsAt[q] >= now
        BY <1>1, <3>3 DEF WaitingOf
      <4> QED
        BY <3>1, <4>1 DEF LimiterIsRight
    <3> QED
      BY <1>1, <2>1, <2>2, <3>1, <3>2, <3>3 DEF LimiterIsRight
  <2> QED
    BY <1>1, <2>1, <2>3 DEF LimiterInv
<1> QED
  BY <1>2, <1>3

LEMMA LimitersStay == RequestInv /\ LimiterInv /\ [Next]_vars => LimiterInv'
<1> SUFFICES ASSUME RequestInv, LimiterInv, [Next]_vars PROVE LimiterInv'
  OBVIOUS
<1>1. AccessShape /\ now \in Nat
  BY DEF RequestInv, AccessShape
<1>2. ASSUME NEW q \in Requests,
             \/ Returns(q) \/ RefuseKey(q) \/ ReadBody(q) \/ SaveDoc(q) \/ InsertRow(q)
             \/ InsertRowFails(q)
      PROVE  LimiterInv'
  <2>1. /\ UNCHANGED <<keys, limiter>> /\ keys # None
        /\ \/ UNCHANGED phase
           \/ phase' = [phase EXCEPT ![q] = "docs"]
           \/ phase' = [phase EXCEPT ![q] = "record"]
           \/ phase' = [phase EXCEPT ![q] = "answered"]
    BY <1>2, ReturnsAre DEF RefuseKey, Comes, ReadBody, MayEnter, SaveDoc, NextDoc, InsertRow,
                            InsertRowFails, RequestInv, KeysFirst
  <2>2. \A p \in Requests : NameOfKey(p)' = NameOfKey(p)
    BY <2>1 DEF NameOfKey, Match, Matches
  <2>3. \A n : WaitingOf(n)' \subseteq WaitingOf(n)
    BY <1>1, <2>1, <2>2 DEF WaitingOf, AccessShape
  <2>4. UNCHANGED <<tokens, lastEvent, actsAt, now>>
    BY <2>1 DEF limiter
  <2> QED
    BY <1>1, <2>1, <2>3, <2>4, OthersLeave
<1>3. CASE UNCHANGED accessVars
  <2>1. UNCHANGED <<keys, tokens, lastEvent, actsAt, now, phase>>
    BY <1>3 DEF accessVars, limiter
  <2>2. \A n : WaitingOf(n)' = WaitingOf(n)
    BY <2>1 DEF WaitingOf, NameOfKey, Match, Matches
  <2>3. \A n \in DOMAIN tokens : LimiterIsRight(n) => LimiterIsRight(n)'
    BY <2>1, <2>2 DEF LimiterIsRight
  <2> QED
    BY <2>1, <2>3 DEF LimiterInv
<1>4. CASE AccessNext
  BY <1>2, <1>4, ReservesKeepLimiter, CancelsKeepLimiter, AllMovesKeepLimiter
     DEF AccessNext, Returns
<1> QED
  BY <1>3, <1>4 DEF Next, vars, AccessStep, IntelStep, SelectorsStep, RetentionStep, DigestStep,
                    ExtractStep, ReadinessStep

-----------------------------------------------------------------------------
(* Types.  What the invariants before do not say of them.                  *)

AccessTypes ==
  /\ now \in 0..MaxNow /\ answer \in [Requests -> Codes \cup {0, 401, 429, 503}]
  /\ \A r \in rows : DOMAIN r = {"of", "actor", "status", "serials"}

LEMMA AccessTypesStay ==
  ASSUME RequestInv, AccessTypes, [Next]_vars
  PROVE  AccessTypes'
<1>1. AccessShape /\ MaxNow \in Nat /\ now \in 0..MaxNow
  BY RequestFacts DEF RequestInv, AccessTypes
<1>2. ASSUME NEW q \in Requests, Returns(q)
      PROVE  AccessTypes'
  <2>1. /\ UNCHANGED <<now, rows>>
        /\ \E c \in Codes : answer' = [answer EXCEPT ![q] = c]
    BY <1>2, ReturnsAre DEF limiter
  <2> QED
    BY <2>1 DEF AccessTypes
<1>3. ASSUME NEW q \in Requests,
             \/ RefuseKey(q) \/ Reserve(q) \/ CancelReservation(q) \/ ReadBody(q) \/ SaveDoc(q)
             \/ InsertRowFails(q)
      PROVE  AccessTypes'
  <2>1. /\ UNCHANGED <<now, rows>>
        /\ \/ UNCHANGED answer
           \/ \E c \in {401, 429, 503} : answer' = [answer EXCEPT ![q] = c]
    BY <1>3 DEF RefuseKey, Reserve, CancelReservation, ReadBody, SaveDoc, InsertRowFails, limiter
  <2> QED
    BY <2>1 DEF AccessTypes
<1>4. ASSUME NEW q \in Requests, InsertRow(q)
      PROVE  AccessTypes'
  <2>1. UNCHANGED <<now, answer>> /\ rows' = rows \cup {Row(q)}
    BY <1>4 DEF InsertRow, limiter
  <2> QED
    BY <2>1 DEF AccessTypes, Row
<1>5. CASE LoadKeys \/ TokensCome \/ AccessCrash
  BY <1>1, <1>5 DEF LoadKeys, TokensCome, AccessCrash, AccessTypes
<1>6. CASE UNCHANGED accessVars
  BY <1>6 DEF accessVars, limiter, AccessTypes
<1> QED
  BY <1>2, <1>3, <1>4, <1>5, <1>6
     DEF Next, vars, AccessStep, AccessNext, Returns, IntelStep, SelectorsStep, RetentionStep,
         DigestStep, ExtractStep, ReadinessStep

RetentionTypes ==
  /\ raw \in [Raws -> {"young", "old", "null"}] /\ uids \subseteq Mails /\ foreign \subseteq Mails

LEMMA RetentionTypesStay ==
  ASSUME RetentionTypes, [Next]_vars
  PROVE  RetentionTypes'
<1>1. CASE RetentionNext
  BY <1>1
     DEF RetentionNext, ClientFlags, MailAges, FileMail, RawAges, PurgeStep, StartPurge,
         PurgeOneBatch, Audit, ConnectMail, SelectAndSearch, FlagDeleted, Expunge,
         PurgeFails, ExpungeFails, RetentionCrash, AuditFails, mailState, purge,
         Found, In, RetentionTypes
<1>2. CASE UNCHANGED retentionVars
  BY <1>2 DEF retentionVars, mailState, purge, RetentionTypes
<1> QED
  BY <1>1, <1>2
     DEF Next, vars, AccessStep, IntelStep, SelectorsStep, RetentionStep, DigestStep,
         ExtractStep, ReadinessStep

\* Followed and mishaps, whichever service moves.
LEMMA MishapsTypesStay ==
  ASSUME MishapsTypeOK, service \in Followed, [Next]_vars
  PROVE  MishapsTypeOK' /\ service' \in Followed
<1>1. Well \/ Fault \/ Crash
  BY AccessMishaps, IntelMishaps, SelectorsMishaps, RetentionMishaps, DigestMishaps,
     ExtractMishaps
     DEF Next, AccessStep, IntelStep, SelectorsStep, RetentionStep, DigestStep, ExtractStep,
         ReadinessStep, vars, Well
<1>2. MaxMishaps \in Nat
  BY FaultsAssumption DEF FaultsAssumption
<1>3. UNCHANGED service
  BY DEF Next, AccessStep, IntelStep, SelectorsStep, RetentionStep, DigestStep, ExtractStep,
         ReadinessStep, vars
<1> QED
  BY <1>1, <1>2, <1>3 DEF Well, Fault, Crash, mishaps, MishapsTypeOK

ReadinessTypes ==
  /\ msgsOf \in [Sources -> Volumes \cup {0}] /\ aligned \in 0..msgs90 /\ fails \subseteq Sources
  /\ verdict \in {"none", "read", "monitor", "fix_alignment", "step_pct", "enforce"}

LEMMA ReadinessTypesStay ==
  ASSUME ReadinessTypes, [Next]_vars
  PROVE  ReadinessTypes'
<1>1. CASE ReadSources
  BY <1>1 DEF ReadSources, domainState, Failing, ReadinessTypes
<1>2. CASE Recommend
  <2>1. Recommendation \in {"monitor", "fix_alignment", "step_pct", "enforce"}
    BY DEF Recommendation
  <2> QED
    BY <1>2, <2>1 DEF Recommend, domainState, ReadinessTypes
<1>3. CASE UNCHANGED readinessVars
  BY <1>3 DEF readinessVars, domainState, ReadinessTypes
<1> QED
  BY <1>1, <1>2, <1>3
     DEF Next, vars, AccessStep, IntelStep, SelectorsStep, RetentionStep, DigestStep,
         ExtractStep, ReadinessStep, ReadinessNext

DigestTypes ==
  /\ open \in BOOLEAN /\ complete \subseteq 0..LastDay /\ entitled \subseteq subs
  /\ logged \subseteq Domains \X (0..LastDay)
  /\ domain \in [Runners -> Domains \cup {None}]
  /\ \A x \in Runners : stepOf[x] = "send" => domain[x] \in Domains
  /\ forced \in 0..MaxForced /\ edits \in 0..MaxEdits
  /\ got \subseteq Triples /\ refused \subseteq Triples

LEMMA CleanStays ==
  ASSUME clean \in BOOLEAN, [Next]_vars
  PROVE  clean' \in BOOLEAN
<1>1. ASSUME NEW x, Errs(x)
      PROVE  clean' \in BOOLEAN
  BY <1>1 DEF Errs
<1>2. ASSUME NEW x, StartDigest(x)
      PROVE  clean' \in BOOLEAN
  BY <1>2 DEF StartDigest
<1>3. CASE UNCHANGED clean
  BY <1>3
<1>4. \A x, p : SendFails(x, p) => Errs(x)
  BY DEF SendFails
<1>5. \A x, d : AlreadySentFails(x, d) \/ GatherFails(x, d) => Errs(x)
  BY DEF AlreadySentFails, GatherFails
<1>6. /\ HourComes \/ DayEnds \/ DigestCrash => UNCHANGED runs
      /\ \A p : AddSubscription(p) \/ DeleteSubscription(p) => UNCHANGED runs
      /\ \A x : SubscriptionsFail(x) \/ LogDomain(x) \/ LogFails(x) => UNCHANGED runs
      /\ \A x, d : NextDomain(x, d) => UNCHANGED runs
      /\ \A x, p : Send(x, p) => UNCHANGED runs
  BY DEF HourComes, DayEnds, DigestCrash, AddSubscription, DeleteSubscription, SubscriptionsFail,
         LogDomain, LogFails, NextDomain, Send
<1>7. /\ \A x : FinishDigest(x) => UNCHANGED clean
      /\ UNCHANGED runs \/ UNCHANGED digestVars => UNCHANGED clean
  BY DEF FinishDigest, runs, digestVars
<1> QED
  BY <1>1, <1>2, <1>3, <1>4, <1>5, <1>6, <1>7
     DEF Next, vars, AccessStep, IntelStep, SelectorsStep, RetentionStep, DigestStep, DigestNext,
         ExtractStep, ReadinessStep

LEMMA DigestTypesStay ==
  ASSUME DigestInv, DigestTypes, [Next]_vars
  PROVE  DigestTypes'
<1>0. DigestShape /\ MaxForced \in Nat /\ MaxEdits \in Nat /\ LastDay \in Nat
  BY DigestAssumption DEF DigestInv, DigestAssumption
<1>1. CASE HourComes \/ DayEnds \/ DigestCrash
  BY <1>0, <1>1 DEF HourComes, DayEnds, DigestCrash, runs, clock, runState, mailed, digestBounds,
                    DigestTypes, DigestShape
<1>2. ASSUME NEW p \in Subscribers, AddSubscription(p) \/ DeleteSubscription(p)
      PROVE  DigestTypes'
  <2>1. /\ UNCHANGED <<open, complete, logged, stepOf, domain, forced, got, refused>>
        /\ edits < MaxEdits /\ edits' = edits + 1
        /\ \/ subs' = subs \cup {p} /\ UNCHANGED entitled
           \/ subs' = subs \ {p} /\ entitled' = entitled \ {p}
    BY <1>2 DEF AddSubscription, DeleteSubscription, runs, clock, runState, mailed
  <2>2. entitled' \subseteq subs' /\ edits' \in 0..MaxEdits
    BY <1>0, <2>1 DEF DigestTypes
  <2> QED
    BY <2>1, <2>2 DEF DigestTypes
<1>3. ASSUME NEW x \in Runners, StartDigest(x) \/ SubscriptionsFail(x) \/ FinishDigest(x)
      PROVE  DigestTypes'
  <2>1. /\ UNCHANGED <<open, subs, entitled, logged, domain, edits, got, refused>>
        /\ \/ UNCHANGED <<stepOf, forced>>
           \/ stepOf' = [stepOf EXCEPT ![x] = "domains"] /\ UNCHANGED forced
           \/ /\ forced < MaxForced /\ forced' = forced + 1
              /\ stepOf' \in {stepOf, [stepOf EXCEPT ![x] = "domains"]}
           \/ stepOf' = [stepOf EXCEPT ![x] = "idle"] /\ UNCHANGED forced
        /\ complete' = complete \/ complete' = complete \cup {end[x]}
    BY <1>3 DEF StartDigest, SubscriptionsFail, FinishDigest, Starts, runs, clock, runState,
                mailed, digestBounds
  <2>2. complete' \subseteq 0..LastDay /\ forced' \in 0..MaxForced
    <3>1. end[x] \in 0..LastDay
      BY <1>0 DEF DigestShape
    <3>2. complete' \subseteq 0..LastDay
      BY <2>1, <3>1 DEF DigestTypes
    <3>3. /\ forced \in 0..MaxForced
          /\ (forced' = forced \/ (forced < MaxForced /\ forced' = forced + 1))
      BY <2>1 DEF DigestTypes
    <3>4. forced' \in 0..MaxForced
      BY <1>0, <3>3
    <3> QED
      BY <3>2, <3>4
  <2>3. \A z \in Runners : stepOf'[z] = "send" => stepOf[z] = "send"
    BY <1>0, <2>1 DEF DigestShape
  <2> QED
    BY <2>1, <2>2, <2>3 DEF DigestTypes
<1>4. ASSUME NEW x \in Runners, LogDomain(x) \/ LogFails(x)
      PROVE  DigestTypes'
  <2>1. domain[x] \in Domains /\ end[x] \in 0..LastDay
    BY <1>0, <1>4 DEF LogDomain, LogFails, AllSent, DigestTypes, DigestShape
  <2>2. /\ UNCHANGED <<open, subs, entitled, domain, complete, forced, edits, got, refused>>
        /\ stepOf' = [stepOf EXCEPT ![x] = "domains"]
        /\ logged' = logged \/ logged' = logged \cup {<<domain[x], end[x]>>}
    BY <1>4 DEF LogDomain, LogFails, runs, clock, mailed, digestBounds
  <2>3. logged' \subseteq Domains \X (0..LastDay)
    BY <2>1, <2>2 DEF DigestTypes
  <2>4. \A z \in Runners : stepOf'[z] = "send" => stepOf[z] = "send"
    BY <1>0, <2>2 DEF DigestShape
  <2> QED
    BY <2>2, <2>3, <2>4 DEF DigestTypes
<1>5. ASSUME NEW x \in Runners, NEW d \in Domains,
             NextDomain(x, d) \/ AlreadySentFails(x, d) \/ GatherFails(x, d)
      PROVE  DigestTypes'
  BY <1>0, <1>5 DEF NextDomain, AlreadySentFails, GatherFails, Errs, runs, clock, mailed,
                    digestBounds, DigestTypes, DigestShape
<1>6. ASSUME NEW x \in Runners, NEW p \in Subscribers, Send(x, p) \/ SendFails(x, p)
      PROVE  DigestTypes'
  <2>1. Triple(x, p) \in Triples
    BY <1>0 DEF Triple, Triples, DigestShape
  <2>2. /\ UNCHANGED <<clock, subs, logged, stepOf, domain, digestBounds, entitled>>
        /\ got' \subseteq got \cup {Triple(x, p)} /\ refused' \subseteq refused \cup {Triple(x, p)}
        /\ UNCHANGED complete
    BY <1>6 DEF Send, SendFails, Sending, Arrives, Errs, runs, DigestTypes
  <2> QED
    BY <2>1, <2>2 DEF clock, digestBounds, DigestTypes
<1>7. CASE UNCHANGED digestVars
  BY <1>7 DEF digestVars, runs, clock, runState, mailed, digestBounds, DigestTypes
<1> QED
  BY <1>1, <1>2, <1>3, <1>4, <1>5, <1>6, <1>7
     DEF Next, vars, AccessStep, IntelStep, SelectorsStep, RetentionStep, DigestStep, DigestNext,
         ExtractStep, ReadinessStep

SelectorTypes ==
  /\ rawKept \subseteq Entries /\ kept \subseteq Entries
  /\ authRows \in [Entries -> SUBSET Names]
  /\ snapshot \in [Writers -> SUBSET Names] /\ deleted \in [Writers -> SUBSET Names]
  /\ Len(page) <= Page /\ rebuilds \in 0..MaxRebuilds

LEMMA PageIsNoLonger ==
  ASSUME NEW committed, committed \subseteq Entries, after \in Nat
  PROVE  Len(NextPage(committed)) <= Page
<1> DEFINE coming == {s \in committed : s > after}
           n == IF Cardinality(coming) < Page THEN Cardinality(coming) ELSE Page
<1>1. IsFiniteSet(coming) /\ Page \in Nat
  <2>1. IsFiniteSet(Entries) /\ Page \in Nat /\ coming \subseteq Entries
    BY SelectorsAssumption DEF SelectorsAssumption
  <2> QED
    BY <2>1, FS_Subset
<1>2. n \in Nat /\ n <= Page
  BY <1>1, FS_CardinalityType
<1>3. DOMAIN NextPage(committed) = 1..n
  BY DEF NextPage
<1>4. Len(NextPage(committed)) \in Nat /\ DOMAIN NextPage(committed) = 1..Len(NextPage(committed))
  BY NextPageIs
<1> HIDE DEF n
<1>5. Len(NextPage(committed)) = n
  BY <1>2, <1>3, <1>4
<1> QED
  BY <1>2, <1>5

LEMMA SavedIsEntry ==
  ASSUME SelectorInv, NEW w \in Writers, Saving(w)
  PROVE  SerialOf(w) \in Entries
<1>1. CASE w = Rebuild
  <2>1. page # <<>> /\ page \in Seq(Entries)
    BY <1>1 DEF SelectorInv, SelectorShape, RebuildSaves
  <2> QED
    BY <1>1, <2>1 DEF SerialOf
<1>2. CASE w # Rebuild
  BY <1>2 DEF SerialOf, Writers
<1> QED
  BY <1>1, <1>2

LEMMA SelectorTypesStay ==
  ASSUME SelectorInv, SelectorTypes, [Next]_vars
  PROVE  SelectorTypes'
<1>1. /\ visible \subseteq Entries /\ after \in Nat /\ page \in Seq(Entries)
      /\ MaxRebuilds \in Nat /\ rebuilds \in 0..MaxRebuilds
  BY SelectorsAssumption DEF SelectorInv, SelectorShape, SelectorTypes, SelectorsAssumption
<1>2. ASSUME NEW s \in Entries, ReportVisible(s) \/ RawAgesOut(s)
      PROVE  SelectorTypes'
  BY <1>2 DEF ReportVisible, RawAgesOut, tx, rebuild, SelectorTypes
<1>3. ASSUME NEW w \in Writers, DeleteSees(w) \/ DeleteRows(w)
      PROVE  SelectorTypes'
  <2>1. SerialOf(w) \in Entries
    BY <1>3, SavedIsEntry DEF DeleteSees, DeleteRows, Saving
  <2>2. authRows[SerialOf(w)] \subseteq Names /\ snapshot[w] \subseteq Names
    BY <2>1 DEF SelectorTypes
  <2> QED
    BY <1>3, <2>2 DEF DeleteSees, DeleteRows, rebuild, SelectorTypes
<1>4. ASSUME NEW w \in Writers, CommitRows(w)
      PROVE  SelectorTypes'
  <2>1. SerialOf(w) \in Entries
    BY <1>4, SavedIsEntry DEF CommitRows, Saving
  <2>2. NameOf(w) \in Names
    BY <1>1 DEF NameOf, Names
  <2>3. w = Rebuild => Len(Tail(page)) <= Len(page) /\ page # <<>>
    BY <1>1, <1>4, SavedIsEntry DEF CommitRows, Saving, SelectorInv, RebuildSaves
  <2>4. Len(page') <= Page
    <3>1. Len(page) \in Nat /\ Len(page) <= Page /\ Page \in Nat
      BY <1>1, SelectorsAssumption DEF SelectorTypes, SelectorsAssumption
    <3>2. page' = page \/ (page' = Tail(page) /\ page # <<>>)
      BY <1>4, <2>3 DEF CommitRows
    <3> QED
      BY <1>1, <3>1, <3>2
  <2>5. /\ authRows' = [authRows EXCEPT ![SerialOf(w)] = (@ \ deleted[w]) \cup {NameOf(w)}]
        /\ kept' = kept \cup {SerialOf(w)} /\ EndTx(w)
        /\ UNCHANGED <<rawKept, rebuilds>>
    BY <1>4 DEF CommitRows
  <2> QED
    BY <2>1, <2>2, <2>4, <2>5 DEF EndTx, SelectorTypes
<1>5. ASSUME NEW w \in Writers, SaveFails(w)
      PROVE  SelectorTypes'
  <2>1. Len(page') <= Page
    BY <1>5, SelectorsAssumption, EmptySeq DEF SaveFails, SelectorTypes, SelectorsAssumption
  <2> QED
    BY <1>5, <2>1 DEF SaveFails, EndTx, SelectorTypes
<1>6. CASE StartRebuild \/ ReadPageFails \/ SelectorsCrash
  BY <1>1, <1>6 DEF StartRebuild, ReadPageFails, SelectorsCrash, tx, rebuild, SelectorTypes
<1>7. CASE ReadPage
  <2>1. page' = NextPage(visible \cap rawKept)
        /\ UNCHANGED <<rawKept, authRows, snapshot, deleted, rebuilds, kept>>
    BY <1>7 DEF ReadPage, tx
  <2>2. visible \cap rawKept \subseteq Entries
    BY <1>1
  <2>3. Len(page') <= Page
    BY <1>1, <2>1, <2>2, PageIsNoLonger
  <2> QED
    BY <2>1, <2>3 DEF SelectorTypes
<1>8. CASE NextRow
  <2>1. /\ page' = page \/ (page' = Tail(page) /\ page # <<>>)
        /\ UNCHANGED <<rawKept, authRows, snapshot, deleted, rebuilds, kept>>
    BY <1>8 DEF NextRow
  <2>2. Len(page) \in Nat /\ Len(page) <= Page /\ Page \in Nat
    BY <1>1, SelectorsAssumption DEF SelectorTypes, SelectorsAssumption
  <2>3. Len(page') <= Page
    BY <1>1, <2>1, <2>2
  <2> QED
    BY <2>1, <2>3 DEF SelectorTypes
<1>9. CASE UNCHANGED selectorVars
  BY <1>9 DEF selectorVars, tx, rebuild, SelectorTypes
<1> QED
  BY <1>2, <1>3, <1>4, <1>5, <1>6, <1>7, <1>8, <1>9
     DEF Next, vars, AccessStep, IntelStep, SelectorsStep, SelectorsNext, RetentionStep,
         DigestStep, ExtractStep, ReadinessStep

IntelTypes ==
  /\ meta \in [IPs -> {"none", "never", "fresh", "stale"}]
  /\ queue \in Seq(IPs) /\ Len(queue) <= QueueSize
  /\ busy \in [Enrichers -> IPs \cup {None}] /\ swept \subseteq IPs
  /\ fills \in 0..MaxFills
  /\ \A r \in Reports : found[r] # "none" => Record(r).ip \in IPs

LEMMA EnqueuedFits ==
  ASSUME queue \in Seq(IPs), Len(queue) <= QueueSize, NEW ip \in IPs
  PROVE  Enqueued(ip) \in Seq(IPs) /\ Len(Enqueued(ip)) <= QueueSize
<1>1. QueueSize \in Nat
  BY IntelAssumption DEF IntelAssumption
<1>2. CASE Len(queue) < QueueSize
  <2>1. /\ Append(queue, ip) \in Seq(IPs) /\ Len(Append(queue, ip)) = Len(queue) + 1
        /\ Len(queue) \in Nat
    BY AppendProperties
  <2> QED
    BY <1>1, <1>2, <2>1 DEF Enqueued
<1>3. CASE ~(Len(queue) < QueueSize)
  BY <1>3 DEF Enqueued
<1> QED
  BY <1>2, <1>3

LEMMA IntelTypesStay ==
  ASSUME SourceInv, IntelTypes, [Next]_vars
  PROVE  IntelTypes'
<1>0. /\ SourceShape /\ queue \in Seq(IPs) /\ Len(queue) <= QueueSize
      /\ QueueSize \in Nat /\ MaxFills \in Nat
  BY IntelAssumption DEF SourceInv, IntelTypes, IntelAssumption
<1>1. ASSUME NEW r \in Reports, Store(r) \/ SkipRecord(r) \/ UpsertSourceFails(r)
      PROVE  IntelTypes'
  <2>1. /\ UNCHANGED <<found, meta, queue, busy, swept, fills>>
        /\ rest' \in {[rest EXCEPT ![r] = RecordsOf[r]], [rest EXCEPT ![r] = Tail(@)]}
    BY <1>1 DEF Store, SkipRecord, UpsertSourceFails, NextRecord, enricher, fill
  <2>2. found[r] = "none"
    <3>1. CASE Store(r)
      <4>1. ~IsStored(r)
        BY <3>1 DEF Store, IsStored
      <4> QED
        BY <4>1 DEF SourceInv, RestIsEnd
    <3> QED
      BY <1>1, <3>1 DEF SkipRecord, UpsertSourceFails, Upserting
  <2>3. \A q \in Reports : found[q] # "none" => rest'[q] = rest[q]
    BY <1>0, <2>1, <2>2 DEF SourceShape
  <2> QED
    BY <2>1, <2>3 DEF IntelTypes, Record
<1>2. ASSUME NEW r \in Reports, UpsertSource(r)
      PROVE  IntelTypes'
  <2>1. /\ UNCHANGED <<rest, meta, queue, busy, swept, fills>>
        /\ \A q \in Reports : q # r => found'[q] = found[q]
        /\ rest[r] # <<>> /\ Record(r).ip # None
    BY <1>0, <1>2 DEF UpsertSource, Upserting, enricher, fill, SourceShape
  <2>2. Record(r) \in SentRecord
    BY <1>0, <2>1 DEF Record, SourceShape
  <2>3. Record(r).ip \in IPs
    BY <2>1, <2>2 DEF SentRecord
  <2> QED
    BY <2>1, <2>3 DEF IntelTypes, Record
<1>3. ASSUME NEW r \in Reports, TellSender(r)
      PROVE  IntelTypes'
  <2>1. /\ Record(r).ip \in IPs /\ queue' = Enqueued(Record(r).ip)
        /\ UNCHANGED <<meta, busy, swept, fills>> /\ found'[r] = "none"
        /\ \A q \in Reports : q # r => found'[q] = found[q] /\ rest'[q] = rest[q]
    BY <1>0, <1>3 DEF TellSender, NextRecord, fill, SourceShape, IntelTypes
  <2>2. queue' \in Seq(IPs) /\ Len(queue') <= QueueSize
    BY <1>0, <2>1, EnqueuedFits
  <2> QED
    BY <2>1, <2>2 DEF IntelTypes, Record
<1>4. ASSUME NEW w \in Enrichers, TakeTask(w) \/ TakeTaskFails(w)
      PROVE  IntelTypes'
  <2>1. /\ queue # <<>> /\ queue' = Tail(queue)
        /\ UNCHANGED <<rest, found, meta, swept, fills>>
        /\ busy' \in {busy, [busy EXCEPT ![w] = Head(queue)]}
    BY <1>4 DEF TakeTask, TakeTaskFails, observer, fill
  <2>2. Head(queue) \in IPs /\ queue' \in Seq(IPs) /\ Len(queue') <= QueueSize
    BY <1>0, <2>1
  <2> QED
    BY <2>1, <2>2 DEF IntelTypes, Record
<1>5. ASSUME NEW w \in Enrichers, UpsertMeta(w) \/ UpsertMetaFails(w)
      PROVE  IntelTypes'
  BY <1>5 DEF UpsertMeta, UpsertMetaFails, observer, fill, IntelTypes, Record
<1>6. ASSUME NEW ip \in IPs, Expire(ip)
      PROVE  IntelTypes'
  BY <1>6 DEF Expire, observer, enricher, fill, IntelTypes, Record
<1>7. ASSUME NEW ip \in IPs, SweepEnqueue(ip)
      PROVE  IntelTypes'
  <2>1. queue' \in Seq(IPs) /\ Len(queue') <= QueueSize
    BY <1>0, <1>7, EnqueuedFits DEF SweepEnqueue
  <2> QED
    BY <1>7, <2>1 DEF SweepEnqueue, observer, fill, IntelTypes, Record
<1>8. CASE Sweep
  <2>1. swept' \subseteq IPs
    BY <1>8 DEF Sweep, kSubset, Unenriched
  <2> QED
    BY <1>8, <2>1 DEF Sweep, observer, fill, IntelTypes, Record
<1>9. CASE Fill
  <2>1. UNCHANGED <<rest, found, queue, busy, swept>>
    BY <1>9 DEF Fill, StartFill, FillBatch, SeedMeta, FillFails, observer, enricher
  <2>2. fills' \in 0..MaxFills
    <3>1. fills' = fills \/ (fills < MaxFills /\ fills' = fills + 1)
      BY <1>9 DEF Fill, StartFill, FillBatch, SeedMeta, FillFails
    <3> QED
      BY <1>0, <3>1 DEF IntelTypes
  <2>3. meta' \in [IPs -> {"none", "never", "fresh", "stale"}]
    BY <1>9 DEF Fill, StartFill, FillBatch, SeedMeta, FillFails, IntelTypes
  <2> QED
    BY <2>1, <2>2, <2>3 DEF IntelTypes, Record
<1>10. CASE IntelCrash
  <2>1. <<>> \in Seq(IPs) /\ Len(<<>>) = 0
    BY EmptySeq
  <2> QED
    BY <1>0, <1>10, <2>1 DEF IntelCrash, fill, IntelTypes
<1>11. CASE UNCHANGED intelVars
  BY <1>11 DEF intelVars, observer, enricher, fill, IntelTypes, Record
<1> QED
  BY <1>1, <1>2, <1>3, <1>4, <1>5, <1>6, <1>7, <1>8, <1>9, <1>10, <1>11
     DEF Next, vars, AccessStep, IntelStep, IntelNext, Observe, Enrich, SweepStep, SweepFails,
         SelectorsStep, RetentionStep, DigestStep, ExtractStep, ReadinessStep

TypeInv ==
  /\ service \in Followed /\ MishapsTypeOK /\ AccessTypes /\ IntelTypes /\ SelectorTypes
  /\ RetentionTypes /\ DigestTypes /\ clean \in BOOLEAN /\ ReadinessTypes

ProvenInv ==
  /\ RequestInv /\ LimiterInv /\ SourceInv /\ SenderInv /\ SelectorInv /\ PurgeInv /\ DigestInv
  /\ WalkInv /\ ReadinessInv

LEMMA TypesStart == Init => TypeInv
<1> SUFFICES ASSUME Init PROVE TypeInv
  OBVIOUS
<1>1. service \in Followed /\ MishapsTypeOK
  BY FaultsAssumption DEF Init, MishapsInit, MishapsTypeOK, FaultsAssumption
<1>2. AccessTypes
  BY RequestFacts DEF Init, AccessInit, AccessTypes
<1>3. IntelTypes
  <2>1. QueueSize \in Nat /\ MaxFills \in Nat
    BY IntelAssumption DEF IntelAssumption
  <2>2. <<>> \in Seq(IPs) /\ Len(<<>>) = 0
    BY EmptySeq
  <2> QED
    BY <2>1, <2>2 DEF Init, IntelInit, IntelTypes
<1>4. SelectorTypes
  <2>1. Page \in Nat /\ MaxRebuilds \in Nat
    BY SelectorsAssumption DEF SelectorsAssumption
  <2>2. Len(<<>>) = 0
    BY EmptySeq
  <2> QED
    BY <2>1, <2>2 DEF Init, SelectorsInit, SelectorTypes
<1>5. RetentionTypes
  BY DEF Init, RetentionInit, RetentionTypes
<1>6. DigestTypes /\ clean \in BOOLEAN
  <2>1. MaxForced \in Nat /\ MaxEdits \in Nat
    BY DigestAssumption DEF DigestAssumption
  <2>2. /\ open = FALSE /\ clean = TRUE /\ complete = {} /\ entitled = subs /\ logged = {}
        /\ domain = [x \in Runners |-> None] /\ stepOf = [x \in Runners |-> "idle"]
        /\ forced = 0 /\ edits = 0 /\ got = {} /\ refused = {}
    BY DEF Init, DigestInit
  <2>3. /\ logged \subseteq Domains \X (0..LastDay) /\ got \subseteq Triples
        /\ refused \subseteq Triples /\ entitled \subseteq subs
    BY <2>2, Zenon
  <2>4. /\ domain \in [Runners -> Domains \cup {None}]
        /\ \A x \in Runners : stepOf[x] = "send" => domain[x] \in Domains
    BY <2>2
  <2>5. forced \in 0..MaxForced /\ edits \in 0..MaxEdits
    BY <2>1, <2>2
  <2> QED
    BY <2>2, <2>3, <2>4, <2>5 DEF DigestTypes
<1>7. ReadinessTypes
  <2>1. CASE ReadinessIdle
    BY <2>1 DEF ReadinessIdle, ReadinessTypes
  <2>2. CASE ReadinessInit
    <3>1. /\ msgsOf \in [Sources -> Volumes] \/ msgsOf = [s \in Sources |-> 0]
          /\ fails = {} /\ verdict = "none"
          /\ (msgs90 = 0 /\ aligned = 0) \/ \E t \in Totals : msgs90 = t.msgs /\ aligned = t.aligned
      BY <2>2 DEF ReadinessInit
    <3>2. aligned \in 0..msgs90
      BY <3>1, ReadinessAssumption DEF ReadinessAssumption
    <3> QED
      BY <3>1, <3>2 DEF ReadinessTypes
  <2> QED
    BY <2>1, <2>2 DEF Init
<1> QED
  BY <1>1, <1>2, <1>3, <1>4, <1>5, <1>6, <1>7 DEF TypeInv

LEMMA TypesHold == ProvenInv /\ TypeInv => TypeOK
<1> SUFFICES ASSUME ProvenInv, TypeInv PROVE TypeOK
  OBVIOUS
<1>1. AccessTypeOK
  <2>1. \A n \in DOMAIN tokens : tokens[n] <= Burst
    BY DEF ProvenInv, LimiterInv, LimiterIsRight
  <2>2. AccessTypes /\ AccessShape
    BY DEF ProvenInv, TypeInv, RequestInv
  <2>3. answer \in [Requests -> {0, 200, 201, 400, 401, 403, 429, 500, 503}]
    BY <2>2 DEF AccessTypes, Codes
  <2> QED
    BY <2>1, <2>2, <2>3 DEF AccessTypeOK, AccessTypes, AccessShape
<1>2. IntelTypeOK
  BY DEF ProvenInv, TypeInv, SourceInv, SourceShape, SentRecord, SenderInv, SenderShape,
         IntelTypes, IntelTypeOK
<1>3. SelectorsTypeOK
  <2>1. SelectorShape /\ SelectorTypes
    BY DEF ProvenInv, TypeInv, SelectorInv
  <2>2. early \subseteq Entries
    BY <2>1 DEF SelectorShape
  <2> QED
    BY <2>1, <2>2 DEF SelectorShape, SelectorTypes, SelectorsTypeOK
<1>4. RetentionTypeOK
  <2>1. PurgeShape /\ TalliesTyped /\ RetentionTypes /\ flagged \subseteq oldMail \cup foreign
    BY DEF ProvenInv, TypeInv, PurgeInv, TalliesMatch, FlagsExplained
  <2>2. 1..Len(Purged) = 1..2
    BY DEF Purged
  <2> QED
    BY <2>1, <2>2 DEF PurgeShape, TalliesTyped, RetentionTypes, RetentionTypeOK
<1>5. DigestTypeOK
  BY DEF ProvenInv, TypeInv, DigestInv, DigestShape, DigestTypes, DigestTypeOK
<1>6. ExtractTypeOK
  <2>1. WalkShape
    BY DEF ProvenInv, WalkInv
  <2>2. Walked \subseteq DOMAIN parts /\ 0 \notin DOMAIN parts /\ DOMAIN parts = 1..Len(parts)
    BY <2>1 DEF WalkShape, Walked
  <2>3. documents \in [Kinds -> Seq(DOMAIN parts)]
    <3>1. ASSUME NEW k \in Kinds
          PROVE  documents[k] \in Seq(DOMAIN parts)
      BY <2>1, <2>2, SeqWidens DEF WalkShape
    <3> QED
      BY <2>1, <3>1 DEF WalkShape
  <2>4. forensic \in Seq([feedback : DOMAIN parts, original : {0} \cup DOMAIN parts])
    <3>1. [feedback : Walked, original : {0} \cup Walked]
             \subseteq [feedback : DOMAIN parts, original : {0} \cup DOMAIN parts]
      BY <2>2
    <3> QED
      BY <2>1, <3>1, SeqWidens DEF WalkShape
  <2>5. firstErr \in 0..Len(parts)
    BY <2>1, <2>2 DEF WalkShape
  <2> QED
    BY <2>1, <2>3, <2>4, <2>5 DEF WalkShape, ExtractTypeOK
<1>7. ReadinessTypeOK
  BY DEF ProvenInv, TypeInv, ReadinessInv, SourcesRead, ReadinessTypes, ReadinessTypeOK
<1> QED
  BY <1>1, <1>2, <1>3, <1>4, <1>5, <1>6, <1>7 DEF TypeInv, TypeOK

\* Every variable of the services stays in its type: no limiter ever has more
\* tokens than its burst, whatever reservations are cancelled and in what
\* order, no queue or page outgrows its limit, and every digest that is logged
\* is one of a domain and a day there was.
THEOREM TypesAreRight == Spec => []TypeOK
<1>1. Init => ProvenInv
  <2> SUFFICES ASSUME Init PROVE ProvenInv
    OBVIOUS
  <2>1. LimiterInv
    <3>1. /\ actsAt = [q \in Requests |-> 0] /\ lastEvent = <<>> /\ tokens = <<>>
          /\ keys = None
      BY DEF Init, AccessInit
    <3> QED
      BY <3>1 DEF LimiterInv
  <2> QED
    BY <2>1, RequestsStart, SourceStarts, SenderStarts, SelectorsStart, PurgeStarts, DigestStarts,
       WalkStarts, ReadinessStarts DEF ProvenInv
<1>2. ProvenInv /\ [Next]_vars => ProvenInv'
  BY RequestsStay, LimitersStay, SourceStays, SenderStays, SelectorsStay, PurgeStays, DigestStays,
     WalkStays, ReadinessStays DEF ProvenInv
<1>3. ProvenInv /\ TypeInv /\ [Next]_vars => TypeInv'
  BY AccessTypesStay, IntelTypesStay, SelectorTypesStay, RetentionTypesStay, DigestTypesStay,
     CleanStays, ReadinessTypesStay, MishapsTypesStay DEF ProvenInv, TypeInv
<1> QED
  BY <1>1, <1>2, <1>3, TypesStart, TypesHold, PTL DEF Spec

=============================================================================
