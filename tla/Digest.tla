------------------------------- MODULE Digest -------------------------------
(***************************************************************************)
(* The weekly digest of parser/internal/digest: on the digest day and from *)
(* the digest hour on a ticker looks every 15 minutes for domains without  *)
(* a row in digest_log for this day, mails each of their subscribers and   *)
(* logs the domain if one mail went out.  POST /digest/run does the same   *)
(* at any time, in the goroutine of its request and whatever the log says. *)
(***************************************************************************)
EXTENDS Faults

CONSTANTS
  Subscribers,  \* pairs <<domain, email>> that may be subscribed
  Subscribed,   \* those that are at first
  LastDay,      \* bound: days looked at
  DigestDays,   \* those that are the weekday PARSER_DIGEST_DAY
  MaxForced,    \* bound: requests to POST /digest/run
  MaxEdits      \* bound: subscriptions added or deleted

Runners == {"scheduler", "request"}
Domains == {p[1] : p \in Subscribers}

ASSUME DigestAssumption ==
  /\ \A p \in Subscribers : p = <<p[1], p[2]>>
  /\ Subscribed \subseteq Subscribers
  /\ LastDay \in Nat /\ DigestDays \subseteq 0..LastDay /\ 0 \in DigestDays
  /\ \A d \in DigestDays : d + 1 \notin DigestDays   \* they are a week apart
  /\ MaxForced \in Nat /\ MaxEdits \in Nat

VARIABLES
  day, open,    \* the clock: today, and has the digest hour come?
  subs,         \* digest_subscription
  logged,       \* digest_log: pairs <<domain, period_end>>
  stepOf,       \* run: where each runner is, "idle", "domains" or "send"
  left,         \* run: the snapshot of the subscriptions not looked at yet
  end,          \* run: period_end
  domain, to,   \* run: domain in hand and its recipients still to be mailed
  sent,         \* run: has a mail for this domain gone out?
  forced, edits,  \* spent bounds
  clean,        \* history: no error in the scheduler's run yet
  complete,     \* history: days for which the scheduler ended a run without an error
  scheduled,    \* history: digests the scheduler mailed of each subscriber and day
  got,          \* history: triples of the digests that reached someone
  refused,      \* history: triples of the sends that reported an error
  entitled      \* history: subscribed since the digest day began

clock == <<day, open>>
runState == <<stepOf, left, end, domain, to, sent>>
mailed == <<scheduled, got, refused>>
runs == <<clean, complete>>
digestBounds == <<forced, edits>>
digestVars == <<clock, subs, logged, runState, runs, digestBounds, mailed, entitled>>

Triples == {<<p[1], p[2], d>> : p \in Subscribers, d \in 0..LastDay}

DigestInit ==
  /\ day = 0 /\ open = FALSE
  /\ subs = Subscribed /\ entitled = Subscribed /\ logged = {}
  /\ stepOf = [x \in Runners |-> "idle"] /\ left = [x \in Runners |-> {}]
  /\ end = [x \in Runners |-> 0] /\ domain = [x \in Runners |-> None]
  /\ to = [x \in Runners |-> {}] /\ sent = [x \in Runners |-> FALSE]
  /\ clean = TRUE /\ complete = {} /\ forced = 0 /\ edits = 0
  /\ scheduled = [t \in Triples |-> 0] /\ got = {} /\ refused = {}
-----------------------------------------------------------------------------
(* The clock and the subscriptions.                                        *)

HourComes ==
  /\ day \in DigestDays /\ ~open
  /\ open' = TRUE
  /\ UNCHANGED <<day, subs, logged, runState, runs, digestBounds, mailed, entitled>> /\ Well

\* Whatever the runs of the day have come to: one may be in hand.
DayEnds ==
  /\ day < LastDay
  /\ day' = day + 1 /\ open' = FALSE
  /\ entitled' = IF day' \in DigestDays THEN subs ELSE entitled
  /\ UNCHANGED <<subs, logged, runState, runs, digestBounds, mailed>> /\ Well

AddSubscription(p) ==
  /\ p \notin subs /\ edits < MaxEdits
  /\ edits' = edits + 1
  /\ subs' = subs \cup {p}
  /\ UNCHANGED <<clock, logged, runState, runs, forced, mailed, entitled>> /\ Well

DeleteSubscription(p) ==
  /\ p \in subs /\ edits < MaxEdits
  /\ edits' = edits + 1
  /\ subs' = subs \ {p} /\ entitled' = entitled \ {p}
  /\ UNCHANGED <<clock, logged, runState, runs, forced, mailed>> /\ Well
-----------------------------------------------------------------------------
(* run.                                                                    *)

\* An error in a run.
Errs(x) == clean' = (clean /\ x # "scheduler") /\ UNCHANGED complete

Starts(x) ==
  /\ stepOf[x] = "idle"
  /\ IF x = "scheduler" THEN day \in DigestDays /\ open /\ UNCHANGED forced
                        ELSE forced < MaxForced /\ forced' = forced + 1

StartDigest(x) ==
  /\ Starts(x)
  /\ stepOf' = [stepOf EXCEPT ![x] = "domains"]
  /\ left' = [left EXCEPT ![x] = subs]
  /\ end' = [end EXCEPT ![x] = day]
  /\ clean' = (clean \/ x = "scheduler") /\ UNCHANGED complete
  /\ UNCHANGED <<clock, subs, logged, domain, to, sent, edits, mailed, entitled>> /\ Well

SubscriptionsFail(x) ==
  /\ Starts(x)
  /\ Fault
  /\ UNCHANGED <<clock, subs, logged, runState, runs, edits, mailed, entitled>>

ForDomain(x, d) == {p \in left[x] : p[1] = d}
AtDomain(x, d) == stepOf[x] = "domains" /\ ForDomain(x, d) # {}

\* Mutant of AlreadySent: the guard is dropped.
AlreadySentNever(x, d) == FALSE

AlreadySent(x, d) == x = "scheduler" /\ <<d, end[x]>> \in logged

NextDomain(x, d) ==
  /\ AtDomain(x, d)
  /\ left' = [left EXCEPT ![x] = @ \ ForDomain(x, d)]
  /\ IF AlreadySent(x, d)
       THEN UNCHANGED <<stepOf, domain, to, sent>>
       ELSE /\ stepOf' = [stepOf EXCEPT ![x] = "send"]
            /\ domain' = [domain EXCEPT ![x] = d]
            /\ to' = [to EXCEPT ![x] = ForDomain(x, d)]
            /\ sent' = [sent EXCEPT ![x] = FALSE]
  /\ UNCHANGED <<clock, subs, logged, end, runs, digestBounds, mailed, entitled>> /\ Well

\* digest_log cannot be read: the run is over.
AlreadySentFails(x, d) ==
  /\ AtDomain(x, d) /\ x = "scheduler"
  /\ Fault
  /\ Errs(x)
  /\ stepOf' = [stepOf EXCEPT ![x] = "idle"] /\ left' = [left EXCEPT ![x] = {}]
  /\ UNCHANGED <<clock, subs, logged, end, domain, to, sent, digestBounds, mailed, entitled>>

\* The data of a domain cannot be read: it is left out.
GatherFails(x, d) ==
  /\ AtDomain(x, d) /\ ~AlreadySent(x, d)
  /\ Fault
  /\ Errs(x)
  /\ left' = [left EXCEPT ![x] = @ \ ForDomain(x, d)]
  /\ UNCHANGED <<clock, subs, logged, stepOf, end, domain, to, sent, digestBounds, mailed,
                 entitled>>

Triple(x, p) == <<p[1], p[2], end[x]>>
Sending(x, p) == /\ stepOf[x] = "send" /\ p \in to[x]
                 /\ to' = [to EXCEPT ![x] = @ \ {p}]
                 /\ UNCHANGED <<clock, subs, logged, stepOf, left, end, domain,
                                digestBounds, entitled>>
Arrives(x, p) ==
  /\ got' = got \cup {Triple(x, p)}
  /\ scheduled' = IF x = "scheduler" THEN [scheduled EXCEPT ![Triple(x, p)] = @ + 1]
                                     ELSE scheduled

Send(x, p) ==
  /\ Sending(x, p)
  /\ Arrives(x, p)
  /\ sent' = [sent EXCEPT ![x] = TRUE]
  /\ UNCHANGED <<refused, runs>> /\ Well

\* The send reports an error, after the mail was taken (QUIT) or before.
SendFails(x, p) ==
  /\ Sending(x, p)
  /\ Fault
  /\ Arrives(x, p) \/ UNCHANGED <<got, scheduled>>
  /\ refused' = refused \cup {Triple(x, p)}
  /\ Errs(x)
  /\ UNCHANGED sent

AllSent(x) == stepOf[x] = "send" /\ to[x] = {}

\* Mutant of LogDomain: a domain is logged whether a mail went out or not.
LogAnyDomain(x) ==
  /\ AllSent(x)
  /\ logged' = logged \cup {<<domain[x], end[x]>>}
  /\ stepOf' = [stepOf EXCEPT ![x] = "domains"]
  /\ UNCHANGED <<clock, subs, left, end, domain, to, sent, runs, digestBounds, mailed,
                 entitled>> /\ Well

LogDomain(x) ==
  /\ AllSent(x)
  /\ logged' = IF sent[x] THEN logged \cup {<<domain[x], end[x]>>} ELSE logged
  /\ stepOf' = [stepOf EXCEPT ![x] = "domains"]
  /\ UNCHANGED <<clock, subs, left, end, domain, to, sent, runs, digestBounds, mailed,
                 entitled>> /\ Well

LogFails(x) ==
  /\ AllSent(x) /\ sent[x]
  /\ Fault
  /\ stepOf' = [stepOf EXCEPT ![x] = "domains"]
  /\ UNCHANGED <<clock, subs, logged, left, end, domain, to, sent, runs, digestBounds,
                 mailed, entitled>>

FinishDigest(x) ==
  /\ stepOf[x] = "domains" /\ left[x] = {}
  /\ stepOf' = [stepOf EXCEPT ![x] = "idle"]
  /\ complete' = IF x = "scheduler" /\ clean THEN complete \cup {end[x]} ELSE complete
  /\ UNCHANGED clean
  /\ UNCHANGED <<clock, subs, logged, left, end, domain, to, sent, digestBounds, mailed,
                 entitled>> /\ Well

DigestCrash ==
  /\ Crash
  /\ stepOf' = [x \in Runners |-> "idle"] /\ left' = [x \in Runners |-> {}]
  /\ to' = [x \in Runners |-> {}]
  /\ UNCHANGED <<clock, subs, logged, end, domain, sent, runs, digestBounds, mailed, entitled>>
-----------------------------------------------------------------------------
DigestNext ==
  \/ HourComes \/ DayEnds \/ DigestCrash
  \/ \E p \in Subscribers : AddSubscription(p) \/ DeleteSubscription(p)
  \/ \E x \in Runners :
       \/ StartDigest(x) \/ SubscriptionsFail(x) \/ FinishDigest(x)
       \/ LogDomain(x) \/ LogFails(x)
       \/ \E d \in Domains : NextDomain(x, d) \/ AlreadySentFails(x, d) \/ GatherFails(x, d)
       \/ \E p \in Subscribers : Send(x, p) \/ SendFails(x, p)

DigestTypeOK ==
  /\ day \in 0..LastDay /\ open \in BOOLEAN /\ clean \in BOOLEAN /\ complete \subseteq 0..LastDay
  /\ subs \subseteq Subscribers /\ entitled \subseteq subs
  /\ logged \subseteq Domains \X (0..LastDay)
  /\ stepOf \in [Runners -> {"idle", "domains", "send"}]
  /\ left \in [Runners -> SUBSET Subscribers] /\ to \in [Runners -> SUBSET Subscribers]
  /\ end \in [Runners -> 0..LastDay] /\ sent \in [Runners -> BOOLEAN]
  /\ domain \in [Runners -> Domains \cup {None}]
  /\ forced \in 0..MaxForced /\ edits \in 0..MaxEdits
  /\ scheduled \in [Triples -> Nat] /\ got \subseteq Triples /\ refused \subseteq Triples

\* "digest_log is the dedup guard, so restarts and multiple ticks within the
\* window are safe" (digest.go:35): the scheduler mails a subscriber once a
\* day, and once more for each crash or failing statement or send.
DigestOnce == \A t \in Triples : scheduled[t] <= 1 + faults + crashes

\* The scheduler mails a subscriber once a day at most: "digest_log is the dedup
\* guard, so restarts and multiple ticks within the window are safe"
\* (digest.go:35). The code breaks it: the mails go out before the row is there.
ScheduledOnce == \A t \in Triples : scheduled[t] <= 1

\* The digest day that began last.
Round(r) == r \in DigestDays /\ r <= day /\ \A d \in DigestDays : d <= day => d <= r

\* Whoever has been subscribed since the digest day began has got the digest of
\* that day once a run of the scheduler met no error or his domain is logged,
\* by whichever run, whatever runs were cut before and however they overlapped;
\* but for one whose mail failed when another of his domain got through, for
\* then nobody looks at the domain again.
DigestServed ==
  \A r \in 0..LastDay, p \in entitled :
    Round(r) /\ (<<p[1], r>> \in logged \/ r \in complete) =>
      LET t == <<p[1], p[2], r>>
      IN  t \in got \/ (t \in refused /\ \E u \in got : u[1] = t[1] /\ u[3] = t[3])
=============================================================================
