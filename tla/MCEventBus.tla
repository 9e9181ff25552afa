----------------------------- MODULE MCEventBus -----------------------------
(***************************************************************************)
(* Small instances of EventBus for TLC.                                    *)
(***************************************************************************)
EXTENDS EventBus, TLC

\* A client that sees some events and not others: the second is of a project
\* it has no role in.
OneHidden == [c \in Clients |-> Events \ {2}]

\* Publishers are interchangeable; no property names one.
Symmetry == Permutations(Publishers)

=============================================================================
