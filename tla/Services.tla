------------------------------ MODULE Services ------------------------------
(***************************************************************************)
(* The services around the ingest path, each beside the faults and crashes *)
(* of Faults.  They share no state with one another, so a behaviour        *)
(* follows one of them, service, while the others rest: whatever it does,  *)
(* every behaviour of all seven together looks like this to each.          *)
(***************************************************************************)
EXTENDS Access, Intel, Selectors, Retention, Digest, Extract, Readiness

CONSTANT Followed    \* the services to follow

ASSUME ServicesAssumption ==
  Followed \subseteq {"access", "intel", "selectors", "retention", "digest", "extract",
                      "readiness"}

VARIABLE service

vars == <<service, mishaps, accessVars, intelVars, selectorVars, retentionVars, digestVars,
          extractVars, readinessVars>>

Init ==
  /\ service \in Followed
  /\ MishapsInit
  /\ AccessInit /\ IntelInit /\ SelectorsInit /\ RetentionInit /\ DigestInit
  /\ IF service = "extract" THEN ExtractInit ELSE ExtractIdle
  /\ IF service = "readiness" THEN ReadinessInit ELSE ReadinessIdle

AccessStep ==
  /\ service = "access" /\ AccessNext
  /\ UNCHANGED <<service, intelVars, selectorVars, retentionVars, digestVars, extractVars,
                 readinessVars>>

IntelStep ==
  /\ service = "intel" /\ IntelNext
  /\ UNCHANGED <<service, accessVars, selectorVars, retentionVars, digestVars, extractVars,
                 readinessVars>>

SelectorsStep ==
  /\ service = "selectors" /\ SelectorsNext
  /\ UNCHANGED <<service, accessVars, intelVars, retentionVars, digestVars, extractVars,
                 readinessVars>>

RetentionStep ==
  /\ service = "retention" /\ RetentionNext
  /\ UNCHANGED <<service, accessVars, intelVars, selectorVars, digestVars, extractVars,
                 readinessVars>>

DigestStep ==
  /\ service = "digest" /\ DigestNext
  /\ UNCHANGED <<service, accessVars, intelVars, selectorVars, retentionVars, extractVars,
                 readinessVars>>

ExtractStep ==
  /\ service = "extract" /\ ExtractNext
  /\ UNCHANGED <<service, accessVars, intelVars, selectorVars, retentionVars, digestVars,
                 readinessVars>>

ReadinessStep ==
  /\ service = "readiness" /\ ReadinessNext
  /\ UNCHANGED <<service, accessVars, intelVars, selectorVars, retentionVars, digestVars,
                 extractVars>>

Next == AccessStep \/ IntelStep \/ SelectorsStep \/ RetentionStep \/ DigestStep
        \/ ExtractStep \/ ReadinessStep

Spec == Init /\ [][Next]_vars

\* The workers of the pool and the observers are goroutines, and the sweep has
\* a ticker of its own (enrich.go:40, 75).  While another service is followed
\* none of these is enabled.
FairSpec ==
  /\ Spec
  /\ WF_intelVars(SweepStep)
  /\ \A w \in Enrichers : WF_intelVars(Enrich(w))
  /\ \A r \in Reports : WF_intelVars(Observe(r))

TypeOK ==
  /\ service \in Followed /\ MishapsTypeOK
  /\ AccessTypeOK /\ IntelTypeOK /\ SelectorsTypeOK /\ RetentionTypeOK /\ DigestTypeOK
  /\ ExtractTypeOK /\ ReadinessTypeOK
=============================================================================
