----------------------------- MODULE Retention ------------------------------
(***************************************************************************)
(* The daily purge of parser/internal/retention: raw_xml of old reports is *)
(* nulled batch by batch, then old mail is expunged from Processed and     *)
(* Ignored on a connection of its own, beside the poller that moves mail   *)
(* into these folders.  What was purged is counted and audited at the end  *)
(* of each half, unless the half failed.                                   *)
(***************************************************************************)
EXTENDS Faults, FiniteSetsExt

CONSTANTS
  Mails,         \* mails, all in the INBOX at first
  Raws,          \* reports that have their raw_xml at first
  PurgeBatch     \* purgeBatch

ASSUME RetentionAssumption ==
  PurgeBatch \in Nat \ {0} /\ IsFiniteSet(Mails) /\ IsFiniteSet(Raws)

Halves == {"raw_xml", "mail"}
AuditOf == [raw_xml |-> "audit_raw_xml", mail |-> "audit_mail"]

\* expungeMail looks at them in this order.
Purged == <<"Processed", "Ignored">>
PurgedFolders == {Purged[i] : i \in 1..Len(Purged)}

VARIABLES
  mailAt,     \* IMAP: folder of each mail, or "gone"
  flagged,    \* IMAP: mails flagged \Deleted
  oldMail,    \* mails whose date is behind MailRetention by now
  raw,        \* report: raw_xml "young", "old" or "null"
  step,       \* runOnce: where it is
  due,        \* what was behind the cutoff when the half began
  uids,       \* expungeFolder: what the search found
  folderNo,   \* expungeMail: folder in hand
  total,      \* rows or mails counted in this half
  audited,    \* parser_audit: rows and mails audited as purged
  purged,     \* history: rows and mails that are really gone
  foreign     \* history: mails flagged \Deleted by a mail client

mailState == <<mailAt, flagged, oldMail, foreign>>
purge == <<step, due, uids, folderNo, total>>
tallies == <<audited, purged>>
retentionVars == <<mailState, raw, purge, tallies>>

RetentionInit ==
  /\ mailAt = [m \in Mails |-> "INBOX"] /\ flagged = {} /\ oldMail = {}
  /\ foreign = {}
  /\ raw = [x \in Raws |-> "young"]
  /\ step = "off" /\ due = {} /\ uids = {} /\ folderNo = 1 /\ total = 0
  /\ audited = [h \in Halves |-> 0] /\ purged = [h \in Halves |-> 0]
-----------------------------------------------------------------------------
(* The poller files mail, mail clients share the folders, and time passes. *)

FileMail(m, f) ==
  /\ mailAt[m] = "INBOX"
  /\ mailAt' = [mailAt EXCEPT ![m] = f]
  /\ UNCHANGED <<flagged, oldMail, foreign, raw, purge, tallies>> /\ Well

\* Someone deletes a filed mail in a mail client, which flags it and may leave
\* it there for a later EXPUNGE.
ClientFlags(m) ==
  /\ mailAt[m] \in PurgedFolders /\ m \notin flagged
  /\ flagged' = flagged \cup {m}
  /\ foreign' = foreign \cup {m}
  /\ UNCHANGED <<mailAt, oldMail, raw, purge, tallies>> /\ Well

MailAges(m) ==
  /\ m \notin oldMail
  /\ oldMail' = oldMail \cup {m}
  /\ UNCHANGED <<mailAt, flagged, foreign, raw, purge, tallies>> /\ Well

RawAges(x) ==
  /\ raw[x] = "young"
  /\ raw' = [raw EXCEPT ![x] = "old"]
  /\ UNCHANGED <<mailState, purge, tallies>> /\ Well
-----------------------------------------------------------------------------
(* purgeRawXML.                                                            *)

StartPurge ==
  /\ step = "off"
  /\ step' = "raw"
  /\ due' = {x \in Raws : raw[x] = "old"}
  /\ total' = 0
  /\ UNCHANGED <<mailState, raw, uids, folderNo, tallies>> /\ Well

\* Mutant of PurgeOneBatch: a full batch is the last one.
PurgeFullBatchLast ==
  LET left == {x \in due : raw[x] # "null"}
      n == IF Cardinality(left) < PurgeBatch THEN Cardinality(left) ELSE PurgeBatch
  IN  /\ step = "raw"
      /\ \E batch \in kSubset(n, left) :
           raw' = [x \in Raws |-> IF x \in batch THEN "null" ELSE raw[x]]
      /\ total' = total + n
      /\ purged' = [purged EXCEPT !["raw_xml"] = @ + n]
      /\ step' = "audit_raw_xml"
      /\ UNCHANGED <<mailState, due, uids, folderNo, audited>> /\ Well

\* A short batch is the last one.
PurgeOneBatch ==
  LET left == {x \in due : raw[x] # "null"}
      n == IF Cardinality(left) < PurgeBatch THEN Cardinality(left) ELSE PurgeBatch
  IN  /\ step = "raw"
      /\ \E batch \in kSubset(n, left) :
           raw' = [x \in Raws |-> IF x \in batch THEN "null" ELSE raw[x]]
      /\ total' = total + n
      /\ purged' = [purged EXCEPT !["raw_xml"] = @ + n]
      /\ step' = IF n < PurgeBatch THEN "audit_raw_xml" ELSE "raw"
      /\ UNCHANGED <<mailState, due, uids, folderNo, audited>> /\ Well

\* The rows of the batches before the error are gone without a trace.
PurgeFails ==
  /\ step = "raw"
  /\ Fault
  /\ step' = "connect"
  /\ UNCHANGED <<mailState, raw, due, uids, folderNo, total, tallies>>
-----------------------------------------------------------------------------
(* audit, best effort.                                                     *)

Audit(half, next) ==
  /\ step = AuditOf[half]
  /\ audited' = [audited EXCEPT ![half] = @ + total]
  /\ step' = next
  /\ UNCHANGED <<mailState, raw, due, uids, folderNo, total, purged>> /\ Well

AuditFails(half, next) ==
  /\ step = AuditOf[half] /\ total > 0
  /\ Fault
  /\ step' = next
  /\ UNCHANGED <<mailState, raw, due, uids, folderNo, total, tallies>>
-----------------------------------------------------------------------------
(* expungeMail and expungeFolder.                                          *)

Folder == Purged[folderNo]
In(f) == {m \in Mails : mailAt[m] = f}

ConnectMail ==
  /\ step = "connect"
  /\ step' = "search"
  /\ due' = oldMail
  /\ folderNo' = 1 /\ total' = 0
  /\ UNCHANGED <<mailState, raw, uids, tallies>> /\ Well

NextFolder ==
  IF folderNo < Len(Purged) THEN step' = "search" /\ folderNo' = folderNo + 1
                            ELSE step' = "audit_mail" /\ UNCHANGED folderNo

\* Mutant of Found: the search leaves the date out.
FoundAll == In(Folder)

Found == In(Folder) \cap due

SelectAndSearch ==
  /\ step = "search"
  /\ uids' = Found
  /\ IF Found = {} THEN NextFolder ELSE step' = "flag" /\ UNCHANGED folderNo
  /\ UNCHANGED <<mailState, raw, due, total, tallies>> /\ Well

FlagDeleted ==
  /\ step = "flag"
  /\ flagged' = flagged \cup uids
  /\ step' = "expunge"
  /\ UNCHANGED <<mailAt, oldMail, foreign, raw, due, uids, folderNo, total, tallies>> /\ Well

\* A bare EXPUNGE: whatever is flagged in the folder goes; what the search found
\* is counted.
Expunge ==
  LET dead == In(Folder) \cap flagged
  IN  /\ step = "expunge"
      /\ mailAt' = [m \in Mails |-> IF m \in dead THEN "gone" ELSE mailAt[m]]
      /\ total' = total + Cardinality(uids)
      /\ purged' = [purged EXCEPT !["mail"] = @ + Cardinality(dead)]
      /\ NextFolder
      /\ UNCHANGED <<flagged, oldMail, foreign, raw, due, uids, audited>> /\ Well

ExpungeFails ==
  /\ step \in {"connect", "search", "flag", "expunge"}
  /\ Fault
  /\ step' = "off"
  /\ UNCHANGED <<mailState, raw, due, uids, folderNo, total, tallies>>

RetentionCrash ==
  /\ Crash
  /\ step' = "off"
  /\ UNCHANGED <<mailState, raw, due, uids, folderNo, total, tallies>>
-----------------------------------------------------------------------------
PurgeStep ==
  \/ StartPurge \/ PurgeOneBatch \/ Audit("raw_xml", "connect")
  \/ ConnectMail \/ SelectAndSearch \/ FlagDeleted \/ Expunge \/ Audit("mail", "off")

RetentionNext ==
  \/ \E m \in Mails : ClientFlags(m) \/ MailAges(m)
  \/ \E m \in Mails, f \in {"Processed", "Ignored", "Failed"} : FileMail(m, f)
  \/ \E x \in Raws : RawAges(x)
  \/ PurgeStep
  \/ PurgeFails \/ ExpungeFails \/ RetentionCrash
  \/ AuditFails("raw_xml", "connect") \/ AuditFails("mail", "off")

RetentionTypeOK ==
  /\ mailAt \in [Mails -> {"INBOX", "Processed", "Ignored", "Failed", "gone"}]
  /\ flagged \subseteq oldMail \cup foreign /\ oldMail \subseteq Mails /\ foreign \subseteq Mails
  /\ raw \in [Raws -> {"young", "old", "null"}]
  /\ step \in {"off", "raw", "audit_raw_xml", "connect", "search", "flag", "expunge",
               "audit_mail"}
  /\ due \subseteq Mails \cup Raws /\ uids \subseteq Mails
  /\ folderNo \in 1..Len(Purged) /\ total \in Nat
  /\ audited \in [Halves -> Nat] /\ purged \in [Halves -> Nat]

\* Mails that went although only a client had flagged them.
ClientTaken == {m \in foreign : mailAt[m] = "gone"}

\* When the first half is over, no raw_xml that was old when it began is left.
\* The audit log never claims a purge that did not happen and, unless something
\* failed or the process died, misses none but mails a client had flagged.
PurgeIsTrue ==
  /\ step = "audit_raw_xml" => \A x \in due : raw[x] = "null"
  /\ \A h \in Halves : audited[h] <= purged[h]
  /\ step = "off" /\ faults = 0 /\ crashes = 0 =>
       /\ audited["raw_xml"] = purged["raw_xml"]
       /\ purged["mail"] <= audited["mail"] + Cardinality(ClientTaken)

\* A step of the purge takes only what was old when the half began, although
\* reports age and the poller files mail while it goes on and mails flagged by a
\* purge that failed wait in the folders; or what a client had flagged.
TakesOnlyOld ==
  [][/\ \A x \in Raws : raw[x] # "null" /\ raw'[x] = "null" => x \in due /\ raw[x] = "old"
     /\ \A m \in Mails : mailAt[m] # "gone" /\ mailAt'[m] = "gone" =>
          m \in foreign \/ (m \in due \cap oldMail /\ mailAt[m] \in PurgedFolders)
    ]_retentionVars

\* "Processed/Ignored mail older than PARSER_MAIL_RETENTION is expunged from the
\* mailbox" (retention.go:3-4), and no other.  The EXPUNGE of the code names no
\* mails (retention.go:146).
OnlyOldMailGoes == \A m \in Mails : mailAt[m] = "gone" => m \in oldMail
=============================================================================
