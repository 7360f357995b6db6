----------------------------- MODULE Readiness ------------------------------
(***************************************************************************)
(* The two judgements of parser/internal/store on a domain: Recommend,     *)
(* whether its DMARC policy can be enforced, from what DomainReadiness     *)
(* reads: the sums of dmarc_agg_daily and the ten largest failing sources  *)
(* of rptrecord, two tables that need not agree; and ComputeHealth, its    *)
(* score out of 100.                                                       *)
(*                                                                         *)
(* Rates are compared as fractions.  Scores are counted in tenths of a     *)
(* point, to which round1 rounds every component.                          *)
(***************************************************************************)
EXTENDS Faults, Integers, FiniteSetsExt

CONSTANTS
  Sources,     \* addresses that may send failing mail
  Volumes,     \* failing messages a source may have sent
  Totals,      \* sums of dmarc_agg_daily: records [msgs, aligned]
  Percents,    \* values of pct, None when it is not given
  Counts,      \* messages of a period, for the score
  Days,        \* days with reports, for the score
  LoudLimit,   \* failing messages an unknown source may have: 100
  TopLimit     \* LIMIT of the query for failing sources: 10

Policies == {"none", "quarantine", "reject", "unknown", None}

ASSUME ReadinessAssumption ==
  /\ Volumes \cup Counts \cup Days \subseteq Nat
  /\ \A t \in Totals : t.msgs \in Nat /\ t.aligned \in 0..t.msgs
  /\ Percents \subseteq Nat \cup {None}
  /\ None \notin {"none", "quarantine", "reject", "unknown"}
  /\ LoudLimit \in Nat /\ TopLimit \in Nat \ {0}
  /\ IsFiniteSet(Sources)

VARIABLES
  msgsOf,      \* rptrecord: failing messages of each source in 90 days
  classed,     \* ip_meta: sources with a sender_class
  msgs90, aligned,  \* dmarc_agg_daily: messages in 90 days, those aligned
  policy, pct, \* the policy published last
  fails,       \* DomainReadiness: the failing sources it read
  verdict,     \* the recommendation, "none" before it is given
  inputs       \* HealthInputs of another request

domainState == <<msgsOf, classed, msgs90, aligned, policy, pct>>
readinessVars == <<domainState, fails, verdict, inputs>>

HealthInputs ==
  {h \in [msgs : Counts, aligned : Counts, msgsPrior : Counts, alignedPrior : Counts,
          days : Days, unknown : Counts] :
     h.aligned <= h.msgs /\ h.alignedPrior <= h.msgsPrior}

\* No request, and the two that may be made.
ReadinessIdle ==
  /\ msgsOf = [s \in Sources |-> 0] /\ classed = {} /\ msgs90 = 0 /\ aligned = 0
  /\ policy = None /\ pct = None /\ fails = {} /\ verdict = "none" /\ inputs = None

ReadinessInit ==
  \/ /\ msgsOf \in [Sources -> Volumes] /\ classed \in SUBSET Sources
     /\ \E t \in Totals : msgs90 = t.msgs /\ aligned = t.aligned
     /\ policy \in Policies /\ pct \in Percents
     /\ fails = {} /\ verdict = "none" /\ inputs = None
  \/ /\ msgsOf = [s \in Sources |-> 0] /\ classed = {} /\ msgs90 = 0 /\ aligned = 0
     /\ policy \in Policies /\ pct \in Percents
     /\ fails = {} /\ verdict = "none" /\ inputs \in HealthInputs
-----------------------------------------------------------------------------
(* DomainReadiness and Recommend.                                          *)

Failing == {s \in Sources : msgsOf[s] > 0}

\* Mutant of Top: the sources in no order.
TopAny(S) == Cardinality(S) = TopLimit

\* The largest failing sources; which of equal ones come first is open.
Top(S) == /\ Cardinality(S) <= TopLimit
          /\ Cardinality(S) < TopLimit => S = Failing
          /\ \A s \in S, t \in Failing \ S : msgsOf[s] >= msgsOf[t]

ReadSources ==
  /\ inputs = None /\ verdict = "none" /\ fails = {}
  /\ \E S \in SUBSET Failing : Top(S) /\ fails' = S
  /\ verdict' = "read"
  /\ UNCHANGED <<domainState, inputs>> /\ Well

\* At least 99.5 % of the messages are aligned.
RateIsHigh == 1000 * aligned >= 995 * msgs90

Blocked == ~RateIsHigh \/ \E s \in fails : s \notin classed /\ msgsOf[s] > LoudLimit
FullPct == pct = None \/ pct >= 100
Published == IF policy = None THEN "none" ELSE policy

Recommendation ==
  CASE msgs90 = 0 -> "monitor"
    [] msgs90 > 0 /\ Blocked -> IF fails \cap classed # {} THEN "fix_alignment" ELSE "monitor"
    [] OTHER -> IF Published = "reject" /\ FullPct THEN "monitor"
                ELSE IF Published \in {"reject", "quarantine"} /\ ~FullPct THEN "step_pct"
                ELSE "enforce"

Recommend ==
  /\ verdict = "read"
  /\ verdict' = Recommendation
  /\ UNCHANGED <<domainState, fails, inputs>> /\ Well

ReadinessNext == ReadSources \/ Recommend
-----------------------------------------------------------------------------
(* ComputeHealth.                                                          *)

\* part * whole / of, in tenths and rounded; nothing below zero.
Tenths(whole, part, of) ==
  IF of <= 0 \/ part < 0 THEN 0 ELSE (20 * whole * part + of) \div (2 * of)

AtMost(n, most) == IF n < most THEN n ELSE most

Alignment(h) == Tenths(40, h.aligned, h.msgs)

\* Mutant of Trend: an improvement adds to the component.
TrendBothWays(h) ==
  IF h.msgs = 0 \/ h.msgsPrior = 0 THEN 150
  ELSE LET all == h.msgs * h.msgsPrior
           up == h.aligned * h.msgsPrior - h.alignedPrior * h.msgs
       IN  Tenths(15, all + 4 * up, all)

\* A drop of the rate by a quarter zeroes it.
Trend(h) ==
  IF h.msgs = 0 \/ h.msgsPrior = 0 THEN 150
  ELSE LET all == h.msgs * h.msgsPrior
           up == h.aligned * h.msgsPrior - h.alignedPrior * h.msgs
       IN  Tenths(15, AtMost(all + 4 * up, all), all)

PolicyStrength(p, q) ==
  LET base == [reject |-> 10, quarantine |-> 6, none |-> 1, unknown |-> 0]
      strict == IF p = None THEN "none" ELSE p
      share == IF strict # "none" /\ q # None /\ q <= 100 THEN q ELSE 100
  IN  Tenths(20, base[strict] * share, 1000)

Coverage(h) == AtMost(Tenths(10, h.days, 14), 100)

\* A tenth of the traffic zeroes it.
UnknownSources(h) ==
  IF h.msgs > 0 /\ h.unknown > 0 THEN Tenths(15, h.msgs - 10 * h.unknown, h.msgs) ELSE 150

Health(h, p, q) ==
  (Alignment(h) + Trend(h) + PolicyStrength(p, q) + Coverage(h) + UnknownSources(h) + 5) \div 10

ReadinessTypeOK ==
  /\ msgsOf \in [Sources -> Volumes \cup {0}] /\ classed \subseteq Sources
  /\ msgs90 \in Nat /\ aligned \in 0..msgs90 /\ policy \in Policies /\ pct \in Percents \cup {None}
  /\ fails \subseteq Sources
  /\ verdict \in {"none", "read", "monitor", "fix_alignment", "step_pct", "enforce"}

\* A loud unknown source keeps a domain from being told to go on, unless known
\* ones of at least its size fill the query: ties, sources that send the same
\* and a list shorter than its limit hide none.  And nobody is told to go on who
\* has nothing stricter to go to.
EnforceIsSafe ==
  verdict \in {"enforce", "step_pct"} =>
    /\ \A s \in Sources \ classed : msgsOf[s] > LoudLimit =>
         Cardinality({t \in classed : msgsOf[t] >= msgsOf[s]}) >= TopLimit
    /\ ~(policy = "reject" /\ PolicyStrength(policy, pct) = 200)

\* "Gate to advance enforcement: >=99.5% aligned over 90 days AND no
\* unknown-class source with >100 failing msgs" (store_stats.go:429).  The code
\* breaks it: it looks for such a source among the largest only.
NoLoudUnknown ==
  verdict \in {"enforce", "step_pct"} => \A s \in Sources \ classed : msgsOf[s] <= LoudLimit

\* The score stays within 0..100, and a domain never loses by it when one
\* message more is aligned, one day more has reports, or the sender of a failing
\* message gets a class; nor by a larger pct, by reject instead of quarantine,
\* nor by full reject whatever it had.  From none to a small pct of quarantine
\* or reject it may.
HealthIsMonotone ==
  inputs # None =>
    /\ Health(inputs, policy, pct) \in 0..100
    /\ \A h \in {[inputs EXCEPT !.days = @ + 1],
                 [inputs EXCEPT !.aligned = AtMost(@ + 1, inputs.msgs)],
                 [inputs EXCEPT !.unknown = IF @ = 0 THEN 0 ELSE @ - 1]} :
         Health(h, policy, pct) >= Health(inputs, policy, pct)
    /\ \A q \in Percents \ {None} : pct # None /\ pct <= q =>
         Health(inputs, policy, q) >= Health(inputs, policy, pct)
    /\ policy = "quarantine" => Health(inputs, "reject", pct) >= Health(inputs, policy, pct)
    /\ Health(inputs, "reject", 100) >= Health(inputs, policy, pct)
=============================================================================
