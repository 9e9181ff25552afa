------------------------------ MODULE MCDockur ------------------------------
(***************************************************************************)
(* Small instances of Dockur for TLC.                                      *)
(***************************************************************************)
EXTENDS Dockur, TLC

\* Names and IDs are only compared; ports are ordered and are not permuted.
Symmetry == Permutations(Names) \cup Permutations(Ids)

=============================================================================
