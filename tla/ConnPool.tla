------------------------------ MODULE ConnPool ------------------------------
(***************************************************************************)
(* The connections store.SaveReport and SaveTLSRPT take from the pool.     *)
(*                                                                         *)
(* A save begins a transaction and keeps its connection.  When the insert  *)
(* finds the report already stored, the row is looked up with s.pool, that *)
(* is on a second connection, while the transaction still holds the first. *)
(* A saver is the poller or an upload handler; a handler gives up when its *)
(* client disconnects, which cancels the context, the poller never does.   *)
(***************************************************************************)
EXTENDS Naturals

CONSTANTS
  Poller, Uploads,   \* the savers
  Reports,           \* identities of reports
  Conns,             \* connections of the pool
  None               \* no saver, no report

Savers == {Poller} \cup Uploads

VARIABLES
  pc,       \* where each saver is
  report,   \* the report it saves
  stored,   \* committed reports
  claim,    \* the saver whose open transaction inserted a report
  free      \* idle connections

vars == <<pc, report, stored, claim, free>>

Init ==
  /\ pc = [w \in Savers |-> "idle"]
  /\ report = [w \in Savers |-> None]
  /\ stored = {}
  /\ claim = [r \in Reports |-> None]
  /\ free = Conns

Save(w, r) ==
  /\ pc[w] = "idle"
  /\ pc' = [pc EXCEPT ![w] = "begin"]
  /\ report' = [report EXCEPT ![w] = r]
  /\ UNCHANGED <<stored, claim, free>>

\* pool.Begin waits for an idle connection.
Begin(w) ==
  /\ pc[w] = "begin" /\ free > 0
  /\ pc' = [pc EXCEPT ![w] = "insert"]
  /\ free' = free - 1
  /\ UNCHANGED <<report, stored, claim>>

Insert(w) ==
  /\ pc[w] = "insert" /\ report[w] \notin stored /\ claim[report[w]] = None
  /\ pc' = [pc EXCEPT ![w] = "commit"]
  /\ claim' = [claim EXCEPT ![report[w]] = w]
  /\ UNCHANGED <<report, stored, free>>

\* ON CONFLICT DO NOTHING returned no row.
Conflict(w) ==
  /\ pc[w] = "insert" /\ report[w] \in stored
  /\ pc' = [pc EXCEPT ![w] = "lookup"]
  /\ UNCHANGED <<report, stored, claim, free>>

Commit(w) ==
  /\ pc[w] = "commit"
  /\ pc' = [pc EXCEPT ![w] = "idle"]
  /\ stored' = stored \cup {report[w]}
  /\ claim' = [claim EXCEPT ![report[w]] = None]
  /\ free' = free + 1
  /\ UNCHANGED report

\* s.pool.QueryRow waits for another idle connection.
Lookup(w) ==
  /\ pc[w] = "lookup" /\ free > 0
  /\ pc' = [pc EXCEPT ![w] = "found"]
  /\ free' = free - 1
  /\ UNCHANGED <<report, stored, claim>>

\* Scan returns the second connection and the deferred Rollback the first.
Return(w) ==
  /\ pc[w] = "found"
  /\ pc' = [pc EXCEPT ![w] = "idle"]
  /\ free' = free + 2
  /\ UNCHANGED <<report, stored, claim>>

\* The transaction is rolled back on the cancelled context.
Disconnect(u) ==
  /\ pc[u] \in {"begin", "insert", "commit", "lookup"}
  /\ pc' = [pc EXCEPT ![u] = "idle"]
  /\ free' = IF pc[u] = "begin" THEN free ELSE free + 1
  /\ claim' = [r \in Reports |-> IF claim[r] = u THEN None ELSE claim[r]]
  /\ UNCHANGED <<report, stored>>

Step(w) == Begin(w) \/ Insert(w) \/ Conflict(w) \/ Commit(w) \/ Lookup(w) \/ Return(w)

Next ==
  \/ \E w \in Savers : Step(w) \/ \E r \in Reports : Save(w, r)
  \/ \E u \in Uploads : Disconnect(u)

\* The pool and the index serve in turn those who wait; that clients
\* disconnect is not assumed.
Fairness == \A w \in Savers : SF_vars(Step(w))

Spec == Init /\ [][Next]_vars
FairSpec == Spec /\ Fairness
-----------------------------------------------------------------------------
\* "A report already present (same domain + reportid) is a no-op returning
\* the existing serial" (store.go:54): every save comes to an end.
EverySaveReturns == \A w \in Savers : pc[w] = "begin" ~> pc[w] = "idle"
=============================================================================
