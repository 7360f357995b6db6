------------------------------- MODULE Faults -------------------------------
(***************************************************************************)
(* The bounded mishaps the service modules share: statements, commands and *)
(* sends that fail, and crashes of the process.                            *)
(***************************************************************************)
EXTENDS Naturals, Sequences, FiniteSets

CONSTANTS
  None,         \* no value
  MaxMishaps    \* bound: failures and crashes together

ASSUME FaultsAssumption == MaxMishaps \in Nat

VARIABLES faults, crashes

mishaps == <<faults, crashes>>

MishapsInit == faults = 0 /\ crashes = 0
MishapsTypeOK == faults \in Nat /\ crashes \in Nat /\ faults + crashes <= MaxMishaps

Well == UNCHANGED mishaps
Fault == faults + crashes < MaxMishaps /\ faults' = faults + 1 /\ UNCHANGED crashes
Crash == faults + crashes < MaxMishaps /\ crashes' = crashes + 1 /\ UNCHANGED faults
=============================================================================
