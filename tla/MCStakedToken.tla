---------------------------- MODULE MCStakedToken ----------------------------
(***************************************************************************)
(* Small instances of StakedToken for TLC.                                 *)
(***************************************************************************)
EXTENDS StakedTokenAccounting, TLC

\* Callers send the same transactions with the same funds: they may be swapped.
Symmetry == Permutations(Callers)

=============================================================================
