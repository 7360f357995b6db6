------------------------------ MODULE RollupMC ------------------------------
(***************************************************************************)
(* Two reports of one day that only together are an anomaly, and one of    *)
(* another day; their numbers tell every set of them from every other.     *)
(***************************************************************************)
EXTENDS Rollup, TLC

CONSTANTS r1, r2, r3, b1, b2

MCBucketOf == r1 :> b1 @@ r2 :> b1 @@ r3 :> b2
MCTotal == r1 :> 1 @@ r2 :> 3 @@ r3 :> 9
MCAligned == r1 :> 0 @@ r2 :> 1 @@ r3 :> 8
=============================================================================
