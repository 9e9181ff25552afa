----------------------------- MODULE Lifecycle -----------------------------
(***************************************************************************)
(* What Kryton promises the users of its API about one machine, whatever   *)
(* the provider behind it: an ID is handed out once, the machine behind it *)
(* lives, is removed once, and its removal is announced once it happened   *)
(* and never before.  An ID that is gone never comes back.                 *)
(***************************************************************************)

CONSTANT Ids

VARIABLE status

Stages == {"unborn", "live", "gone", "announced"}

Move(id, from, to) ==
    /\ status[id] = from
    /\ status' = [status EXCEPT ![id] = to]

\* provider.Create: "provisions a new machine in project from spec".
Create(id) == Move(id, "unborn", "live")

\* provider.Delete: "permanently removes a machine and its backing resources".
Remove(id) == Move(id, "live", "gone")

\* The machine.deleted or machine.expired event reaches the event history.
Announce(id) == Move(id, "gone", "announced")

-----------------------------------------------------------------------------

Init == status = [id \in Ids |-> "unborn"]

Next == \E id \in Ids : Create(id) \/ Remove(id) \/ Announce(id)

\* Nobody has to create or delete a machine; a removal has to be announced.
Fairness == \A id \in Ids : WF_status(Announce(id))

Spec == Init /\ [][Next]_status

FairSpec == Spec /\ Fairness

=============================================================================
