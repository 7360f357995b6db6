----------------------------- MODULE WatchdogMC -----------------------------
(***************************************************************************)
(* The watchdog with a cooldown of two ticks, the shortest that outlasts a *)
(* check, and every two rules in trouble together.                         *)
(***************************************************************************)
EXTENDS Watchdog

MCTogether == {T \in SUBSET Rules : Cardinality(T) = 2}
=============================================================================
