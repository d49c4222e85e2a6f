------------------------------- MODULE MCSetup -------------------------------
(***************************************************************************)
(* Instances of SetupSystem for TLC: two runs, and classes of every sort.   *)
(***************************************************************************)
EXTENDS SetupSystem

CONSTANTS u1, u2, fits, default, other, nsA

MCRunNs == [r \in Run |-> nsA]
AnyCrds == SUBSET Crd
=============================================================================
