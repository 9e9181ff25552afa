--------------------------- MODULE MCControlPlane ---------------------------
(***************************************************************************)
(* ControlPlane on small sets, for TLC.                                    *)
(***************************************************************************)
EXTENDS ControlPlane, TLC

\* Handlers are interchangeable, and so are IDs, names and projects: no
\* definition orders them or tells them apart.
Symmetry ==
    Permutations(Requests) \cup Permutations(Ids) \cup Permutations(Names)
        \cup Permutations(Projects) \cup Permutations(SnapIds)

=============================================================================
