------------------------------ MODULE IngestMC ------------------------------
(***************************************************************************)
(* Instances of Ingest for TLC.                                            *)
(*                                                                         *)
(* Race: mail m1 and upload u1 carry the same aggregate report k1, the     *)
(* mail a forensic report besides; mail m2 holds only a document that does *)
(* not parse, and is requeued.                                             *)
(*                                                                         *)
(* Mixed: m1 carries an aggregate and a TLS report and a broken document,  *)
(* m2 cannot be read and m3 carries nothing; upload u1 holds m1's report,  *)
(* a new one and a broken one; u2 holds none.                              *)
(***************************************************************************)
EXTENDS Ingest, TLC

CONSTANTS m1, m2, m3, u1, u2, a1, a2, a3, f1, t1, b1, b2, k1, k2, kf, kt

RaceContent == (m1 :> {a1, f1}) @@ (m2 :> {b1}) @@ (u1 :> {a2})
RaceKinds == (a1 :> "aggregate") @@ (a2 :> "aggregate") @@ (f1 :> "forensic")
             @@ (b1 :> "aggregate")
RaceKeys == (a1 :> k1) @@ (a2 :> k1) @@ (f1 :> kf) @@ (b1 :> None)

MixedContent == (m1 :> {a1, t1, b1}) @@ (m2 :> {}) @@ (m3 :> {}) @@
                (u1 :> {a2, a3, b2}) @@ (u2 :> {})
MixedKinds == (a1 :> "aggregate") @@ (a2 :> "aggregate") @@ (a3 :> "aggregate") @@
              (t1 :> "tlsrpt") @@ (b1 :> "aggregate") @@ (b2 :> "aggregate")
MixedKeys == (a1 :> k1) @@ (a2 :> k1) @@ (a3 :> k2) @@ (t1 :> kt) @@
             (b1 :> None) @@ (b2 :> None)
=============================================================================
