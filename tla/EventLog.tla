------------------------------ MODULE EventLog ------------------------------
(***************************************************************************)
(* What the event bus promises to whoever reads GET /events: a bounded     *)
(* list, newest first, in which every publication appears on top and once, *)
(* and to which a restart brings back nothing that was not published.      *)
(* A restart may lose events and may change their order; EventBus says     *)
(* when.                                                                   *)
(***************************************************************************)
EXTENDS Naturals, Sequences

CONSTANTS
    Events,    \* what may be published
    Window     \* at most this many are listed

VARIABLES
    issued,    \* the events published so far
    shown      \* the list, newest first

Elements(s) == {s[i] : i \in DOMAIN s}

Repeats(s) == \E i, j \in DOMAIN s : i # j /\ s[i] = s[j]

\* e on top of the list, the oldest entry pushed out of a full one.
OnTop(e, s) ==
    [i \in 1 .. (IF Len(s) < Window THEN Len(s) + 1 ELSE Window) |->
        IF i = 1 THEN e ELSE s[i - 1]]

Publish(e) ==
    /\ e \notin issued
    /\ issued' = issued \cup {e}
    /\ shown' = OnTop(e, shown)

Restart ==
    /\ shown' \in UNION {[1 .. n -> issued] : n \in 0 .. Window}
    /\ ~Repeats(shown')
    /\ UNCHANGED issued

Init == issued = {} /\ shown = <<>>

Next == (\E e \in Events : Publish(e)) \/ Restart

Spec == Init /\ [][Next]_<<issued, shown>>

=============================================================================
