------------------------ MODULE MCIncentivesController ------------------------
(***************************************************************************)
(* A small instance of IncentivesController for TLC.                       *)
(***************************************************************************)
EXTENDS IncentivesController

\* Users behave alike, and so do assets.
Symmetry == Permutations(Users) \cup Permutations(Assets)

=============================================================================
