-------------------------- MODULE MCGovernancePower --------------------------
(***************************************************************************)
(* Small instances of GovernancePower.                                     *)
(***************************************************************************)
EXTENDS GovernancePower, TLC

Symmetry == Permutations(Users)

=============================================================================
