----------------------------- MODULE Selectors ------------------------------
(***************************************************************************)
(* The DKIM selector inventory of parser/internal/selectors: for every     *)
(* stored report its observer replaces the dkim_auth rows of the serial,   *)
(* and -backfill-selectors, a process of its own, does so for every report *)
(* that still has its raw_xml.  Both call SaveDKIMAuth, a DELETE and       *)
(* INSERTs in one READ COMMITTED transaction.                              *)
(*                                                                         *)
(* The rows one transaction inserts go together and are named after who    *)
(* inserted them.  A serial is drawn before the report is committed, so    *)
(* reports become visible in any order.                                    *)
(***************************************************************************)
EXTENDS Faults

CONSTANTS
  Entries,        \* serials of the reports with DKIM entries
  Unparsable,     \* those whose raw_xml no longer parses
  Page,           \* backfillBatch
  MaxRebuilds     \* bound: runs of -backfill-selectors

\* The writers: the backfill process, and the observer of each serial.  Their
\* rows are named after them: 0 the observer, n the n-th run of the backfill.
Rebuild == 0
Writers == Entries \cup {Rebuild}
Names == 0..MaxRebuilds

ASSUME SelectorsAssumption ==
  /\ Entries \subseteq Nat \ {0} /\ IsFiniteSet(Entries) /\ Unparsable \subseteq Entries
  /\ Page \in Nat \ {0} /\ MaxRebuilds \in Nat

VARIABLES
  visible,    \* report: committed serials
  rawKept,    \* report: serials whose raw_xml retention has not nulled
  authRows,   \* dkim_auth: committed rows of each serial
  save,       \* SaveDKIMAuth: where the transaction of each writer is
  snapshot,   \* SaveDKIMAuth: the rows its DELETE found
  deleted,    \* SaveDKIMAuth: the rows it deleted and holds locked
  after, page, rebuilds,   \* Backfill: last serial, rows of the page, runs
  rebuildAt,  \* Backfill: "off", "page", "rows" or "done"
  early,      \* history: serials visible when the last run started
  kept        \* history: serials whose rows were once committed

tx == <<save, snapshot, deleted>>
rebuild == <<after, page, rebuilds, rebuildAt, early>>
selectorVars == <<visible, rawKept, authRows, tx, rebuild, kept>>

SelectorsInit ==
  /\ visible = {} /\ rawKept = Entries /\ authRows = [s \in Entries |-> {}]
  /\ save = [w \in Writers |-> "off"]
  /\ snapshot = [w \in Writers |-> {}] /\ deleted = [w \in Writers |-> {}]
  /\ after = 0 /\ page = <<>> /\ rebuilds = 0 /\ rebuildAt = "off"
  /\ early = {} /\ kept = {}
-----------------------------------------------------------------------------
(* Reports come and their raw_xml ages.                                    *)

\* A report is committed and its observer is called.
ReportVisible(s) ==
  /\ s \notin visible
  /\ visible' = visible \cup {s}
  /\ save' = [save EXCEPT ![s] = "begin"]
  /\ UNCHANGED <<rawKept, authRows, snapshot, deleted, rebuild, kept>> /\ Well

RawAgesOut(s) ==
  /\ s \in visible \cap rawKept
  /\ rawKept' = rawKept \ {s}
  /\ UNCHANGED <<visible, authRows, tx, rebuild, kept>> /\ Well
-----------------------------------------------------------------------------
(* SaveDKIMAuth of writer w.                                               *)

SerialOf(w) == IF w = Rebuild THEN Head(page) ELSE w
NameOf(w) == IF w = Rebuild THEN rebuilds ELSE 0
Saving(w) == save[w] \in {"begin", "delete", "insert"}

\* The DELETE takes its snapshot.
DeleteSees(w) ==
  /\ save[w] = "begin"
  /\ save' = [save EXCEPT ![w] = "delete"]
  /\ snapshot' = [snapshot EXCEPT ![w] = authRows[SerialOf(w)]]
  /\ UNCHANGED <<visible, rawKept, authRows, deleted, rebuild, kept>> /\ Well

\* It waits for rows another transaction has deleted, and leaves alone those
\* that are gone by then and those it did not see.
Locked(w) == \E v \in Writers \ {w} : /\ Saving(v) /\ SerialOf(v) = SerialOf(w)
                                       /\ deleted[v] \cap snapshot[w] # {}

\* Mutant of DeleteRows: the DELETE is committed on its own.
DeleteRowsNow(w) ==
  /\ save[w] = "delete" /\ ~Locked(w)
  /\ save' = [save EXCEPT ![w] = "insert"]
  /\ authRows' = [authRows EXCEPT ![SerialOf(w)] = @ \ snapshot[w]]
  /\ UNCHANGED <<visible, rawKept, snapshot, deleted, rebuild, kept>> /\ Well

DeleteRows(w) ==
  /\ save[w] = "delete" /\ ~Locked(w)
  /\ save' = [save EXCEPT ![w] = "insert"]
  /\ deleted' = [deleted EXCEPT ![w] = snapshot[w] \cap authRows[SerialOf(w)]]
  /\ UNCHANGED <<visible, rawKept, authRows, snapshot, rebuild, kept>> /\ Well

EndTx(w) ==
  /\ save' = [save EXCEPT ![w] = "off"]
  /\ snapshot' = [snapshot EXCEPT ![w] = {}] /\ deleted' = [deleted EXCEPT ![w] = {}]

\* The entries of the serial are inserted and the transaction commits.
CommitRows(w) ==
  LET s == SerialOf(w)
  IN  /\ save[w] = "insert"
      /\ authRows' = [authRows EXCEPT ![s] = (@ \ deleted[w]) \cup {NameOf(w)}]
      /\ kept' = kept \cup {s}
      /\ EndTx(w)
      /\ page' = IF w = Rebuild THEN Tail(page) ELSE page
      /\ UNCHANGED <<visible, rawKept, after, rebuilds, rebuildAt, early>> /\ Well

\* A statement fails: the observer logs it, the backfill gives up.
SaveFails(w) ==
  /\ Saving(w)
  /\ Fault
  /\ EndTx(w)
  /\ rebuildAt' = IF w = Rebuild THEN "off" ELSE rebuildAt
  /\ page' = IF w = Rebuild THEN <<>> ELSE page
  /\ UNCHANGED <<visible, rawKept, authRows, after, rebuilds, early, kept>>
-----------------------------------------------------------------------------
(* -backfill-selectors.                                                    *)

StartRebuild ==
  /\ rebuildAt = "off" /\ rebuilds < MaxRebuilds
  /\ rebuildAt' = "page" /\ rebuilds' = rebuilds + 1 /\ after' = 0
  /\ early' = visible
  /\ UNCHANGED <<visible, rawKept, authRows, tx, page, kept>> /\ Well

\* The place of s in S by size.
Rank(s, S) == Cardinality({t \in S : t <= s})

\* The rows behind the last serial, in their order, as many as fit a page.
NextPage(rows) ==
  LET open == {s \in rows : s > after}
      n == IF Cardinality(open) < Page THEN Cardinality(open) ELSE Page
  IN  [i \in 1..n |-> CHOOSE s \in open : Rank(s, open) = i]

ReadPage ==
  /\ rebuildAt = "page"
  /\ page' = NextPage(visible \cap rawKept)
  /\ rebuildAt' = IF page' = <<>> THEN "done" ELSE "rows"
  /\ UNCHANGED <<visible, rawKept, authRows, tx, after, rebuilds, early, kept>> /\ Well

ReadPageFails ==
  /\ rebuildAt = "page"
  /\ Fault
  /\ rebuildAt' = "off"
  /\ UNCHANGED <<visible, rawKept, authRows, tx, after, page, rebuilds, early, kept>>

\* The next row of the page: it is saved, or skipped when it does not parse.
NextRow ==
  /\ rebuildAt = "rows" /\ ~Saving(Rebuild)
  /\ \/ /\ page = <<>> /\ rebuildAt' = "page" /\ UNCHANGED <<after, page, save>>
     \/ /\ page # <<>> /\ after' = Head(page)
        /\ IF Head(page) \in Unparsable
             THEN page' = Tail(page) /\ UNCHANGED save
             ELSE save' = [save EXCEPT ![Rebuild] = "begin"] /\ UNCHANGED page
        /\ UNCHANGED rebuildAt
  /\ UNCHANGED <<visible, rawKept, authRows, snapshot, deleted, rebuilds, early, kept>> /\ Well

\* The parser dies; what its observers had open is rolled back.
SelectorsCrash ==
  /\ Crash
  /\ save' = [w \in Writers |-> IF w = Rebuild THEN save[w] ELSE "off"]
  /\ snapshot' = [w \in Writers |-> IF w = Rebuild THEN snapshot[w] ELSE {}]
  /\ deleted' = [w \in Writers |-> IF w = Rebuild THEN deleted[w] ELSE {}]
  /\ UNCHANGED <<visible, rawKept, authRows, rebuild, kept>>
-----------------------------------------------------------------------------
SelectorsNext ==
  \/ \E s \in Entries : ReportVisible(s) \/ RawAgesOut(s)
  \/ \E w \in Writers : DeleteSees(w) \/ DeleteRows(w) \/ CommitRows(w) \/ SaveFails(w)
  \/ StartRebuild \/ ReadPage \/ ReadPageFails \/ NextRow \/ SelectorsCrash

SelectorsTypeOK ==
  /\ visible \subseteq Entries /\ rawKept \subseteq Entries
  /\ authRows \in [Entries -> SUBSET Names]
  /\ save \in [Writers -> {"off", "begin", "delete", "insert"}]
  /\ snapshot \in [Writers -> SUBSET Names] /\ deleted \in [Writers -> SUBSET Names]
  /\ after \in Nat /\ page \in Seq(Entries) /\ Len(page) <= Page
  /\ rebuilds \in 0..MaxRebuilds /\ rebuildAt \in {"off", "page", "rows", "done"}
  /\ early \subseteq Entries /\ kept \subseteq Entries

\* Replacing the rows of a serial never leaves it without, whoever else
\* replaces them, fails or dies meanwhile, and a run of -backfill-selectors
\* that gets through leaves no readable report without rows, although reports
\* become visible behind its page and age away before it (selectors.go:42).
SelectorsKept ==
  /\ \A s \in kept : authRows[s] # {}
  /\ rebuildAt = "done" => \A s \in (early \cap rawKept) \ Unparsable : authRows[s] # {}

\* Observer and backfill can both re-run SaveDKIMAuth, which is idempotent
\* (store_reports2.go:44): a serial has the rows of one of them, not of both.
\* Neither DELETE sees the rows the other has not committed.
WrittenOnce == \A s \in Entries : Cardinality(authRows[s]) <= 1
=============================================================================
