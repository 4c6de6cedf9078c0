-------------------------- MODULE MCGuestOperations --------------------------
(***************************************************************************)
(* Small instances of GuestOperations for TLC.                             *)
(***************************************************************************)
EXTENDS GuestOperations, TLC

Symmetry == Permutations(Processes)
=============================================================================
