------------------------------- MODULE MCWait -------------------------------
(***************************************************************************)
(* Instances of WaitForConfirmation for TLC.                               *)
(***************************************************************************)
EXTENDS WaitForConfirmation, TLC

CONSTANTS n1, n2

Symmetry == Permutations(Node)
=============================================================================
