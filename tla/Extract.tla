------------------------------ MODULE Extract -------------------------------
(***************************************************************************)
(* What parser/internal/mailx finds in a mail: ExtractPayloads walks the   *)
(* MIME parts, pairs forensic reports with the original messages that      *)
(* follow them and expands everything else with report.ExpandPayloadTyped. *)
(*                                                                         *)
(* A part is a record: type "feedback", "original" or "data", or           *)
(* "malformed" for one the reader cannot give; box "zip", "gzip" or "bare" *)
(* by its magic bytes; docs what is inside, each "aggregate" or "tlsrpt"   *)
(* by its content, "other", or "broken" when it cannot be read.            *)
(***************************************************************************)
EXTENDS Faults, SequencesExt

CONSTANTS
  Parts,      \* the parts a mail may have
  MaxParts    \* bound: parts of a mail

Kinds == {"aggregate", "tlsrpt"}

ASSUME ExtractAssumption ==
  /\ MaxParts \in Nat
  /\ \A p \in Parts :
       /\ p.type \in {"feedback", "original", "data", "malformed"}
       /\ p.box \in {"zip", "gzip", "bare"}
       /\ p.docs \in Seq(Kinds \cup {"other", "broken"}) /\ p.docs # <<>>
       /\ p.box # "zip" => Len(p.docs) = 1
       /\ p.box = "bare" => p.docs # <<"broken">>

VARIABLES
  parts,       \* the mail
  partNo,      \* the part NextPart gives next
  documents,   \* Payloads.Aggregates and TLSRPT: the parts they were found in
  forensic,    \* Payloads.Forensic: parts of [feedback, original], 0 for nil
  firstErr,    \* the first part with an error, 0 for nil
  outcome      \* "none" before the end, "failed", "ignored" or "payloads"

extractVars == <<parts, partNo, documents, forensic, firstErr, outcome>>

\* Before there is a mail.
ExtractIdle ==
  /\ parts = <<>> /\ partNo = 1 /\ firstErr = 0 /\ outcome = "none"
  /\ documents = [k \in Kinds |-> <<>>] /\ forensic = <<>>

ExtractInit ==
  /\ parts \in BoundedSeq(Parts, MaxParts)
  /\ partNo = 1 /\ firstErr = 0 /\ outcome = "none"
  /\ documents = [k \in Kinds |-> <<>>] /\ forensic = <<>>

Part == parts[partNo]
Walking == outcome = "none" /\ partNo <= Len(parts)

\* The places of the documents of kind k in a part.
DocsOf(p, k) == {i \in DOMAIN p.docs : p.docs[i] = k}

\* Mutant of ExpandFails: what can be read of an archive is taken.
ExpandFailsIfEmpty(p) ==
  p.box # "bare" /\ \A k \in Kinds : DocsOf(p, k) = {}

\* ExpandPayloadTyped returns an error and no document: an entry of the
\* archive cannot be read, or none is a report.
ExpandFails(p) ==
  p.box # "bare" /\ (Contains(p.docs, "broken") \/ \A k \in Kinds : DocsOf(p, k) = {})

Keep == firstErr' = IF firstErr = 0 THEN partNo ELSE firstErr

SkipPart ==
  /\ Walking
  /\ Part.type = "malformed" \/ (Part.type = "data" /\ ExpandFails(Part))
  /\ Keep
  /\ partNo' = partNo + 1
  /\ UNCHANGED <<parts, documents, forensic, outcome>> /\ Well

TakeFeedback ==
  /\ Walking /\ Part.type = "feedback"
  /\ forensic' = Append(forensic, [feedback |-> partNo, original |-> 0])
  /\ partNo' = partNo + 1
  /\ UNCHANGED <<parts, documents, firstErr, outcome>> /\ Well

\* The forensic reports still without their original message.
Bare == {i \in DOMAIN forensic : forensic[i].original = 0}

Attached == [i \in DOMAIN forensic |->
  IF i \in Bare /\ \A j \in Bare : i <= j
    THEN [forensic[i] EXCEPT !.original = partNo] ELSE forensic[i]]

TakeOriginal ==
  /\ Walking /\ Part.type = "original"
  /\ forensic' = Attached
  /\ partNo' = partNo + 1
  /\ UNCHANGED <<parts, documents, firstErr, outcome>> /\ Well

TakeDocuments ==
  /\ Walking /\ Part.type = "data" /\ ~ExpandFails(Part)
  /\ documents' = [k \in Kinds |->
       documents[k] \o [i \in 1..Cardinality(DocsOf(Part, k)) |-> partNo]]
  /\ partNo' = partNo + 1
  /\ UNCHANGED <<parts, forensic, firstErr, outcome>> /\ Well

NoPayload == forensic = <<>> /\ \A k \in Kinds : documents[k] = <<>>

\* EOF: what processMail makes of the result.
EndOfMail ==
  /\ outcome = "none" /\ partNo > Len(parts)
  /\ outcome' = IF ~NoPayload THEN "payloads" ELSE IF firstErr # 0 THEN "failed" ELSE "ignored"
  /\ UNCHANGED <<parts, partNo, documents, forensic, firstErr>> /\ Well

ExtractNext == SkipPart \/ TakeFeedback \/ TakeOriginal \/ TakeDocuments \/ EndOfMail

ExtractTypeOK ==
  /\ parts \in Seq(Parts) /\ partNo \in 1..(Len(parts) + 1)
  /\ documents \in [Kinds -> Seq(DOMAIN parts)]
  /\ forensic \in Seq([feedback : DOMAIN parts, original : {0} \cup DOMAIN parts])
  /\ firstErr \in 0..Len(parts)
  /\ outcome \in {"none", "failed", "ignored", "payloads"}
-----------------------------------------------------------------------------
(* The mail as a whole, for reference.                                     *)

Typed(type) == {i \in DOMAIN parts : parts[i].type = type}
Readable == {i \in Typed("data") :
  LET docs == ToSet(parts[i].docs)
  IN  parts[i].box = "bare" \/ ("broken" \notin docs /\ docs \cap Kinds # {})}
Unread == Typed("malformed") \cup (Typed("data") \ Readable)

\* How many documents of kind k part i has for the parser.
ToFind(k, i) == IF i \in Readable THEN Cardinality(DocsOf(parts[i], k)) ELSE 0
Anything == Typed("feedback") # {} \/ \E k \in Kinds, i \in DOMAIN parts : ToFind(k, i) > 0
Taken(k, i) == Cardinality({n \in DOMAIN documents[k] : documents[k][n] = i})

\* Every readable document of the mail is found, once and in order; original
\* messages go to the forensic reports before them, first come first served;
\* a mail whose every part can be read is Ignored only when it has nothing, and
\* one with nothing else is Failed by an unreadable part (mailx.go:41).  A mail
\* with both is UnreadableFails's.
WalkIsRight ==
  outcome # "none" =>
    /\ \A k \in Kinds :
         /\ \A i \in DOMAIN parts : Taken(k, i) = ToFind(k, i)
         /\ \A m, n \in DOMAIN documents[k] : m < n => documents[k][m] <= documents[k][n]
    /\ {forensic[i].feedback : i \in DOMAIN forensic} = Typed("feedback")
    /\ \A i, j \in DOMAIN forensic :
         i < j => /\ forensic[i].feedback < forensic[j].feedback
                  /\ forensic[j].original # 0 =>
                       forensic[i].original \in 1..(forensic[j].original - 1)
    /\ \A i \in DOMAIN forensic : forensic[i].original # 0 =>
         forensic[i].original \in Typed("original") /\ forensic[i].original > forensic[i].feedback
    /\ \A o \in Typed("original") : \/ \E i \in DOMAIN forensic : forensic[i].original = o
                                 \/ \A i \in DOMAIN forensic :
                                      forensic[i].feedback > o \/ forensic[i].original \in 1..o
    /\ Unread = {} => outcome = IF Anything THEN "payloads" ELSE "ignored"
    /\ Unread # {} /\ ~Anything => outcome = "failed"

\* A part that looks like a report container but fails to read marks the mail
\* Failed (README.md:217-218).  ExtractPayloads drops its error as soon as
\* another part has a payload (mailx.go:105), and the mail is filed by that.
UnreadableFails ==
  outcome # "none" /\ (\E i \in Typed("data") : Contains(parts[i].docs, "broken"))
    => outcome = "failed"
=============================================================================
