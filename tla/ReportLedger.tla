---------------------------- MODULE ReportLedger ----------------------------
(***************************************************************************)
(* What the ingest path promises to the rest of the system: a report is    *)
(* stored once, each observer is told of it at most once and only after    *)
(* it is stored (the webhook before the others), and a mail is filed away  *)
(* as processed only when all its reports are stored.                      *)
(***************************************************************************)
EXTENDS Naturals

CONSTANTS
  Mails, Keys, Observers,
  Leader,    \* the observer that is told first
  Carries    \* the reports of each mail

VARIABLES
  stored,    \* times each report is stored, 0 or 1
  told,      \* times each observer was told of each report
  place      \* where each mail is

lvars == <<stored, told, place>>

Init ==
  /\ stored = [k \in Keys |-> 0]
  /\ told = [o \in Observers |-> [k \in Keys |-> 0]]
  /\ place = [m \in Mails |-> "absent"]

Arrive(m) ==
  /\ place[m] = "absent"
  /\ place' = [place EXCEPT ![m] = "INBOX"]
  /\ UNCHANGED <<stored, told>>

Store(k) ==
  /\ stored[k] = 0
  /\ stored' = [stored EXCEPT ![k] = 1]
  /\ UNCHANGED <<told, place>>

Tell(o, k) ==
  /\ stored[k] = 1 /\ told[o][k] = 0
  /\ o # Leader => told[Leader][k] = 1
  /\ told' = [told EXCEPT ![o][k] = 1]
  /\ UNCHANGED <<stored, place>>

Relocate(S, to) == place' = [m \in Mails |-> IF m \in S THEN to ELSE place[m]]

File(S, to) ==
  /\ \A m \in S :
       /\ place[m] = "INBOX"
       /\ IF to = "Processed" THEN \A k \in Carries[m] : stored[k] = 1
                              ELSE Carries[m] = {}
  /\ Relocate(S, to)
  /\ UNCHANGED <<stored, told>>

Return(S) ==
  /\ \A m \in S : place[m] = "Failed"
  /\ Relocate(S, "INBOX")
  /\ UNCHANGED <<stored, told>>

Next ==
  \/ \E m \in Mails : Arrive(m)
  \/ \E k \in Keys : Store(k)
  \/ \E o \in Observers, k \in Keys : Tell(o, k)
  \/ \E S \in SUBSET Mails, to \in {"Processed", "Ignored", "Failed"} : File(S, to)
  \/ \E S \in SUBSET Mails : Return(S)

Spec == Init /\ [][Next]_lvars
=============================================================================
