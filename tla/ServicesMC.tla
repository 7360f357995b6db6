----------------------------- MODULE ServicesMC -----------------------------
(***************************************************************************)
(* The instance of Services for TLC.                                       *)
(***************************************************************************)
EXTENDS Services

CONSTANTS kA, kB, s1, s2, r1, r2, ip1, ip2, d1, d2, e1, e2, m1, m2, x1, x2, b1, b2, b3

\* Two names share a key, of which the first counts; with the second list the
\* export is refused, and the last one does not load.
Entry(form, name, key, scopes) == [form |-> form, name |-> name, key |-> key, scopes |-> scopes]
MCKeyLists ==
  {<<>>,
   <<Entry("full", "web", kA, {"ingest"}), Entry("full", "ops", kA, {"*"}),
     Entry("bare", "", kB, {})>>,
   <<Entry("full", "web", kA, {"*"}), Entry("full", "ops", kB, {"ingest"})>>,
   <<Entry("full", "web", kA, {"ingest", "write"})>>}

Request(id, key, route, body) == [id |-> id, key |-> key, route |-> route, body |-> body]
MCRequests == {Request(1, kA, "ingest", <<s1, s2>>), Request(2, kA, "ingest", <<s1, Broken>>),
               Request(3, kB, "export", <<>>)}

\* Both reports name ip2, and r2 has a record without an address.
Rec(ip, n, ok) == [ip |-> ip, msgs |-> n, aligned |-> ok]
MCRecordsOf == (r1 :> <<Rec(ip1, 1, TRUE), Rec(ip2, 2, TRUE)>>)
               @@ (r2 :> <<Rec(None, 1, FALSE), Rec(ip2, 1, FALSE)>>)

\* The first domain may get a second subscription while the digest runs.
MCSubscribed == {<<d1, e1>>, <<d2, e1>>}
MCSubscribers == MCSubscribed \cup {<<d1, e2>>}

PartOf(type, box, docs) == [type |-> type, box |-> box, docs |-> docs]
MCParts ==
  {PartOf(t, "bare", <<"other">>) : t \in {"feedback", "original", "malformed", "data"}}
  \cup {PartOf("data", "zip", <<"aggregate", "broken">>),
        PartOf("data", "zip", <<"tlsrpt", "other", "aggregate">>),
        PartOf("data", "gzip", <<"other">>), PartOf("data", "bare", <<"aggregate">>)}

\* Just below 99.5 %, just there, nothing, and all of little.
Sums(n, ok) == [msgs |-> n, aligned |-> ok]
MCTotals == {Sums(0, 0), Sums(1, 1), Sums(200, 198), Sums(200, 199)}
=============================================================================
