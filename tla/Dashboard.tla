------------------------------ MODULE Dashboard -----------------------------
(***************************************************************************)
(* The dashboard (app.js): one page whose asynchronous functions share its *)
(* state. Each call asks the server, may be told to sign in, and writes    *)
(* what it got when all of its answers are there, whatever the page has    *)
(* become meanwhile. A timer and an event stream start calls of their own. *)
(* The server is external: what it lists, whom it lets in, what it streams.*)
(***************************************************************************)
EXTENDS Naturals, Sequences

CONSTANTS
    Projects,      \* the projects the server has
    None,          \* nothing
    Failed,        \* an answer that is an error, or never came
    Slots,         \* bound: calls in flight
    Keep,          \* the page keeps so many events
    MaxUpsets      \* bound: what the user does, changes on the server, and failures

ASSUME DashboardAssumption ==
    /\ None \notin Projects \cup {Failed} /\ Failed \notin Projects /\ Slots \in Nat
    /\ Keep \in Nat \ {0} /\ MaxUpsets \in Nat

VARIABLES
    world,         \* server: how many changes each project has seen
    log,           \* server: events published
    token,         \* sessionStorage kryton.token: "" is none
    gate,          \* the sign-in screen covers the page
    project,       \* state.project, as localStorage keeps it
    machines,      \* state.machines, with the project and the change they are of
    events,        \* state.events, newest first
    timer,         \* startRefresh.timer is running
    stream,        \* startEventStream: its request's token and the events it has seen
    calls,         \* the functions in flight
    upsets         \* how many there were

server == <<world, log>>
shown == <<project, machines, events>>
running == <<timer, stream>>
vars == <<server, token, gate, shown, running, calls, upsets>>

Reads == {"lab", "identity", "post", "machines", "events"}
Lists == {"machines", "events"}
NoStream == [stage |-> "off", key |-> "", heard |-> 0]

\* The newest events of a log of length n.
Newest(n) == [i \in 1 .. (IF n < Keep THEN n ELSE Keep) |-> n + 1 - i]

\* A request, as api sends it: with the token of the moment.
Ask == [key |-> token, again |-> FALSE, got |-> None]
Asks(reads) == [r \in reads |-> Ask]

\* A call waiting for its answers; p is the project it was started with.
Call(kind, p, asks) == [kind |-> kind, project |-> p, asks |-> asks]

Init ==
    /\ world = [p \in Projects |-> 0] /\ log = 0
    /\ token \in {"", "good"}
    /\ gate = (token = "")
    /\ project = None
    /\ machines = None /\ events = <<>>
    /\ timer = FALSE /\ stream = NoStream
    /\ \E r \in (IF token = "" THEN {"lab"} ELSE {"identity"}) :
           calls = [c \in 1 .. Slots |-> IF c = 1 THEN Call("bootstrap", None, Asks({r})) ELSE None]
    /\ upsets = 0

\* The server. A provider's progress changes a machine without an event.
Changes(p) == world' = [world EXCEPT ![p] = @ + 1]

Upset == upsets < MaxUpsets /\ upsets' = upsets + 1

ServerChanges ==
    /\ Upset
    /\ \E p \in Projects : Changes(p)
    /\ log' \in {log, log + 1}
    /\ UNCHANGED <<token, gate, shown, running, calls>>

\* Calls.
Waits(c, r) == calls[c] # None /\ r \in DOMAIN calls[c].asks /\ calls[c].asks[r].got = None
Got(c, r) == calls[c].asks[r].got
All(c, reads) ==
    /\ calls[c] # None /\ reads \subseteq DOMAIN calls[c].asks
    /\ \A r \in reads : Got(c, r) \notin {None, Failed}
Free(c) == calls[c] = None /\ \A d \in 1 .. (c - 1) : calls[d] # None
Answered(a) == [key |-> "", again |-> FALSE, got |-> a]
Becomes(c, call) == calls' = [calls EXCEPT ![c] = call]
Hears(c, r, a) == calls' = [calls EXCEPT ![c].asks[r] = Answered(a)]

\* openAuth and closeAuth.
OpenAuth == gate' = TRUE
CloseAuth == gate' = FALSE

\* What the server answers to a request it lets in.
Answer(c, r) ==
    CASE r = "machines" -> <<calls[c].project, world[calls[c].project]>>
      [] r = "events"   -> Newest(log)
      [] OTHER          -> "ok"

Answers(c, r) ==
    /\ Waits(c, r) /\ r \notin {"lab", "post"} /\ calls[c].asks[r].key = "good"
    /\ Hears(c, r, Answer(c, r))
    /\ UNCHANGED <<server, token, gate, shown, running, upsets>>

\* A creation or an operation is done and published before its answer.
Does(c) ==
    /\ Waits(c, "post") /\ calls[c].asks["post"].key = "good"
    /\ Changes(calls[c].project) /\ log' = log + 1
    /\ Hears(c, "post", "ok")
    /\ UNCHANGED <<token, gate, shown, running, upsets>>

\* api after a 401: once more with the token of now, if there is one, and then
\* the sign-in screen. (Without a token the user has signed out: ensureAuth
\* does not ask for the lab's.)
Denied(c, r) ==
    /\ Waits(c, r) /\ r # "lab" /\ calls[c].asks[r].key # "good"
    /\ IF token # "" /\ ~calls[c].asks[r].again
       THEN /\ calls' = [calls EXCEPT ![c].asks[r] = [Ask EXCEPT !.again = TRUE]]
            /\ UNCHANGED gate
       ELSE /\ Hears(c, r, Failed)
            /\ OpenAuth
    /\ UNCHANGED <<server, token, shown, running, upsets>>

\* The request fails, or its answer is an error.
Fails(c, r) ==
    /\ Upset /\ Waits(c, r) /\ r # "lab"
    /\ Hears(c, r, Failed)
    /\ UNCHANGED <<server, token, gate, shown, running>>

\* What was asked for is lost: the call ends when nothing of it is under way.
GivesUp(c) ==
    /\ calls[c] # None
    /\ \E r \in DOMAIN calls[c].asks : Got(c, r) = Failed
    /\ \A r \in DOMAIN calls[c].asks : Got(c, r) # None
    /\ Becomes(c, None)
    /\ UNCHANGED <<server, token, gate, shown, running, upsets>>

\* ensureAuth, at the head of bootstrap: the lab's token, even over one the user
\* has signed in with meanwhile; or none, when this is no lab or when the user has
\* signed out before.
LabAnswers(c) ==
    /\ Waits(c, "lab")
    /\ token' \in {token, "good"}
    /\ Becomes(c, IF token' = "" THEN None
                  ELSE Call("bootstrap", None, [r \in {"identity"} |-> [Ask EXCEPT !.key = token']]))
    /\ gate' = (gate \/ token' = "")
    /\ UNCHANGED <<server, shown, running, upsets>>

\* Faulty: asks again for the project the page has machines of.
RefreshingShown(kind, p) ==
    Call(kind, IF machines = None \/ kind # "refresh" THEN p ELSE machines[1], Asks(Lists))

\* refreshProject, called for the page's project of the moment.
Refreshing(kind, p) == Call(kind, p, Asks(Lists))

\* bootstrap knows who asks and what there is: the project is the one of the last
\* visit, or the first.
Identified(c) ==
    /\ All(c, {"identity"})
    /\ IF project = None THEN project' \in Projects ELSE UNCHANGED project
    /\ Becomes(c, Refreshing("bootstrap", project'))
    /\ UNCHANGED <<server, token, gate, machines, events, running, upsets>>

\* startEventStream: a stream that is open is given up.
StartEventStream == stream' = [stage |-> "opening", key |-> token, heard |-> 0]

\* refreshProject has its lists. Bootstrap ends with closeAuth and startRefresh.
\* (It also waits for settings, jobs and storage, whose loaders keep their errors
\* to themselves.)
Refreshed(c) ==
    /\ All(c, Lists)
    /\ machines' = Got(c, "machines") /\ events' = Got(c, "events")
    /\ Becomes(c, None)
    /\ IF calls[c].kind = "bootstrap" THEN CloseAuth /\ timer' = TRUE /\ StartEventStream
       ELSE UNCHANGED <<gate, running>>
    /\ UNCHANGED <<server, token, project, upsets>>

\* submitCreate and the actions of a machine, when the server has done it.
Done(c) ==
    /\ All(c, {"post"})
    /\ project' = IF calls[c].kind = "create" THEN calls[c].project ELSE project
    /\ Becomes(c, Refreshing("refresh", project'))
    /\ UNCHANGED <<server, token, gate, machines, events, running, upsets>>

\* The timer of startRefresh.
Tick(c) ==
    /\ timer /\ Free(c)
    /\ Becomes(c, Refreshing("refresh", project))
    /\ UNCHANGED <<server, token, gate, shown, running, upsets>>

\* The stream.
StreamOpens ==
    /\ stream.stage = "opening"
    /\ stream' = IF stream.key = "good" THEN [stream EXCEPT !.stage = "on", !.heard = log]
                 ELSE NoStream
    /\ UNCHANGED <<server, token, gate, shown, timer, calls, upsets>>

\* An event goes on top, once, and calls for a refresh.
Delivers(c) ==
    /\ stream.stage = "on" /\ stream.heard < log /\ Free(c)
    /\ LET e == stream.heard + 1
           rest == SelectSeq(events, LAMBDA x : x # e) IN
       /\ stream' = [stream EXCEPT !.heard = e]
       /\ events' = SubSeq(<<e>> \o rest, 1, IF Len(rest) < Keep THEN Len(rest) + 1 ELSE Keep)
    /\ Becomes(c, Refreshing("refresh", project))
    /\ UNCHANGED <<server, token, gate, project, machines, timer, upsets>>

\* It is not opened again.
StreamEnds ==
    /\ Upset /\ stream.stage # "off"
    /\ stream' = NoStream
    /\ UNCHANGED <<server, token, gate, shown, timer, calls>>

\* The user.
Uses == Upset /\ ~gate /\ project # None

SwitchProject(c) ==
    /\ Uses /\ Free(c)
    /\ project' \in Projects \ {project}
    /\ Becomes(c, Refreshing("refresh", project'))
    /\ UNCHANGED <<server, token, gate, machines, events, running>>

Create(c) ==
    /\ Uses /\ Free(c)
    /\ \E p \in Projects : Becomes(c, Call("create", p, Asks({"post"})))
    /\ UNCHANGED <<server, token, gate, shown, running>>

\* On a machine of the list, in its own project.
Operate(c) ==
    /\ Uses /\ Free(c) /\ machines # None
    /\ Becomes(c, Call("operate", machines[1], Asks({"post"})))
    /\ UNCHANGED <<server, token, gate, shown, running>>

\* signOut.
SignOut ==
    /\ Upset /\ ~gate /\ token # ""
    /\ token' = ""
    /\ timer' = FALSE /\ stream' = NoStream
    /\ machines' = None /\ events' = <<>>
    /\ OpenAuth
    /\ UNCHANGED <<server, project, calls>>

\* The token button: to sign in as somebody else.
TokenButton ==
    /\ Upset /\ ~gate
    /\ OpenAuth
    /\ UNCHANGED <<server, token, shown, running, calls>>

\* The form of the sign-in screen.
SignIn(c) ==
    /\ Upset /\ gate /\ Free(c)
    /\ token' \in {"good", "bad"}
    /\ Becomes(c, Call("bootstrap", None, [r \in {"identity"} |-> [Ask EXCEPT !.key = token']]))
    /\ UNCHANGED <<server, gate, shown, running>>

Progress(c) ==
    \/ \E r \in Reads : Answers(c, r) \/ Denied(c, r)
    \/ Does(c) \/ GivesUp(c) \/ LabAnswers(c) \/ Identified(c) \/ Refreshed(c)
    \/ Done(c)

User(c) == SwitchProject(c) \/ Create(c) \/ Operate(c) \/ SignIn(c)

Next ==
    \/ ServerChanges \/ StreamOpens \/ StreamEnds \/ SignOut \/ TokenButton
    \/ \E c \in 1 .. Slots :
        \/ Progress(c) \/ Tick(c) \/ Delivers(c) \/ User(c)
        \/ \E r \in Reads : Fails(c, r)

Spec == Init /\ [][Next]_vars

\* The server answers what it does not fail, the timer fires, and the browser
\* runs what is ready.
FairSpec ==
    /\ Spec
    /\ \A c \in 1 .. Slots : WF_vars(Progress(c))
    /\ WF_vars(\E c \in 1 .. Slots : Tick(c))

\* What the page shows is what the server has, in the project chosen; a token
\* the server refuses shows the sign-in screen instead.
Follows ==
    IF token = "good" THEN machines = <<project, world[project]>> /\ events = Newest(log)
    ELSE gate

\* Whatever answers came late, of a project left or after a sign-out, and whatever
\* events the stream missed, a page that has its timer ends up following the
\* server (startRefresh, refreshProject).
PageCatchesUp == <>[](timer => Follows)

=============================================================================
