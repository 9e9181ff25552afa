---------------------------- MODULE ControlPlane ----------------------------
(***************************************************************************)
(* krytond with the demo provider: REST handlers (internal/api/server.go)  *)
(* that run concurrently, the TTL reconciler (internal/reconciler/ttl.go)  *)
(* in a goroutine of its own, the machines and snapshots they share        *)
(* (internal/demo/provider.go, every method under one mutex) and the event *)
(* history they publish to (internal/events).                              *)
(*                                                                         *)
(* A provider method is one step, because it runs under the provider's     *)
(* mutex.  A handler is not: between two provider calls, and between a     *)
(* provider call and Publish, every other goroutine may run.  The history  *)
(* is a sequence here, oldest event first; EventBus refines it.            *)
(***************************************************************************)
EXTENDS Naturals, Sequences, FiniteSets

CONSTANTS
    Projects,    \* cfg.Projects: served by the API and swept by the reconciler
    Names,       \* machine names a client may ask for
    Ids,         \* machine UUIDs (id.New): one is never drawn twice
    SnapIds,     \* snapshot UUIDs
    TTLs,        \* values of spec.ttlMinutes; 0 is "never expires"
    Requests,    \* handler goroutines; one serves any number of requests in turn
    Sweeper,     \* the reconciler's goroutine
    None,        \* nil: no deadline, no event to publish, no machine in hand
    MaxTime,     \* bound: the clock stops here
    MaxEvents    \* bound: no new request once the history holds this many events

Procs == Requests \cup {Sweeper}

PowerEvents == {"started", "stopped"}
Obituaries == {"deleted", "expired"}
SnapshotEvents == {"snapshot.created", "snapshot.restored", "snapshot.deleted"}

\* A published event, reduced to its type and the machine its data names.
Event == [type : {"created"} \cup PowerEvents \cup Obituaries \cup SnapshotEvents,
          machine : Ids]

Deadlines == Nat \cup {None}

Machine == [project : Projects, name : Names, state : {"running", "stopped"},
            ip : Nat, expires : Deadlines]

Snapshot == [machine : Ids, state : {"ready", "restored"}]

ASSUME NoneAssumption == None \notin Ids \cup Event \cup Nat
ASSUME SweeperAssumption == Sweeper \notin Requests
ASSUME BoundsAssumption == TTLs \subseteq Nat /\ MaxTime \in Nat /\ MaxEvents \in Nat

VARIABLES
    machines,    \* Provider.machines: the live machines, by ID
    snapshots,   \* Provider.snapshots: the snapshots held, by ID
    nextIP,      \* Provider.nextIP
    log,         \* the events published so far, oldest first
    pending,     \* per goroutine: the event it is about to publish
    target,      \* per request: the machine deleteMachine got and will delete
    sweep,       \* the reconciler's pass: its `now`, what is left of its loops
    clock,       \* time.Now(), in minutes
    deadline,    \* history: the ExpiresAt of every ID ever handed out
    raced        \* history: IDs that two overlapping start/stop requests hit

providerVars == <<machines, snapshots, nextIP>>
historyVars == <<deadline, raced>>
vars == <<machines, snapshots, nextIP, log, pending, target, sweep, clock,
          deadline, raced>>

-----------------------------------------------------------------------------
\* Partial functions, the Go maps.

With(f, k, v) == [x \in DOMAIN f \cup {k} |-> IF x = k THEN v ELSE f[x]]

Without(f, ks) == [x \in DOMAIN f \ ks |-> f[x]]

Live == DOMAIN machines

SnapshotsOf(id) == {s \in DOMAIN snapshots : snapshots[s].machine = id}

-----------------------------------------------------------------------------
\* The provider's guards.

\* Faulty: compares the names of running machines only.
NameTakenRunning(p, n) ==
    \E id \in Live : machines[id].project = p /\ machines[id].name = n
                                              /\ machines[id].state = "running"

NameTaken(p, n) ==
    \E id \in Live : machines[id].project = p /\ machines[id].name = n

ExpiresAt(ttl) == IF ttl > 0 THEN clock + ttl ELSE None

\* Faulty: a machine with no deadline counts as due.
DueNil(m, now) == m.expires = None \/ m.expires <= now

\* Faulty: not due in the minute of the deadline itself.
DueLate(m, now) == m.expires # None /\ m.expires < now

\* Faulty: spares machines that are powered off.
DueRunning(m, now) ==
    m.expires # None /\ m.expires <= now /\ m.state = "running"

\* The negation of runOnce's `m.ExpiresAt == nil || now.Before(*m.ExpiresAt)`.
Due(m, now) == m.expires # None /\ m.expires <= now

-----------------------------------------------------------------------------
\* Handlers.

Idle(r) == pending[r] = None /\ target[r] = None

\* A new request is let in; the bound on the history is the model's.
Admitted(r) == Idle(r) /\ Len(log) < MaxEvents

Announcing(q, type, id) ==
    pending' = [pending EXCEPT ![q] = [type |-> type, machine |-> id]]

\* createMachine and Provider.Create; a name conflict is refused.
CreateMachine(r, p, n, ttl) ==
    /\ Admitted(r)
    /\ ~NameTaken(p, n)
    /\ \E id \in Ids \ DOMAIN deadline :
          /\ machines' = With(machines, id,
                              [project |-> p, name |-> n, state |-> "running",
                               ip |-> nextIP, expires |-> ExpiresAt(ttl)])
          /\ deadline' = With(deadline, id, ExpiresAt(ttl))
          /\ Announcing(r, "created", id)
    /\ nextIP' = nextIP + 1
    /\ UNCHANGED <<snapshots, log, target, sweep, clock, raced>>

\* Another request holds a start or stop of id that it has not published yet.
PowerEventPending(r, id) ==
    \E q \in Requests \ {r} : /\ pending[q] # None
                              /\ pending[q].machine = id
                              /\ pending[q].type \in PowerEvents

\* Faulty: the event type is chosen before the action is looked at.
MachineActionMistyped(r, id, type) ==
    /\ Admitted(r)
    /\ id \in Live
    /\ machines' = [machines EXCEPT ![id].state =
                        IF type = "started" THEN "running" ELSE "stopped"]
    /\ Announcing(r, "started", id)
    /\ raced' = IF PowerEventPending(r, id) THEN raced \cup {id} ELSE raced
    /\ UNCHANGED <<snapshots, nextIP, log, target, sweep, clock, deadline>>

\* startMachine and stopMachine: machineAction over Provider.setState.
MachineAction(r, id, type) ==
    /\ Admitted(r)
    /\ id \in Live
    /\ machines' = [machines EXCEPT ![id].state =
                        IF type = "started" THEN "running" ELSE "stopped"]
    /\ Announcing(r, type, id)
    /\ raced' = IF PowerEventPending(r, id) THEN raced \cup {id} ELSE raced
    /\ UNCHANGED <<snapshots, nextIP, log, target, sweep, clock, deadline>>

\* Faulty: announces the deletion on the strength of the Get alone.
DeleteMachineGetEager(r, id) ==
    /\ Admitted(r)
    /\ id \in Live
    /\ target' = [target EXCEPT ![r] = id]
    /\ log' = Append(log, [type |-> "deleted", machine |-> id])
    /\ UNCHANGED <<machines, snapshots, nextIP, pending, sweep, clock, historyVars>>

\* deleteMachine, first call: Provider.Get, for the name the event carries.
DeleteMachineGet(r, id) ==
    /\ Admitted(r)
    /\ id \in Live
    /\ target' = [target EXCEPT ![r] = id]
    /\ UNCHANGED <<machines, snapshots, nextIP, log, pending, sweep, clock,
                   historyVars>>

\* Faulty: forgets the machine's snapshots.
RemoveMachineOnly(id) ==
    /\ machines' = Without(machines, {id})
    /\ UNCHANGED <<snapshots, nextIP>>

\* Provider.Delete of a machine that exists.
RemoveMachine(id) ==
    /\ machines' = Without(machines, {id})
    /\ snapshots' = Without(snapshots, SnapshotsOf(id))
    /\ UNCHANGED nextIP

\* Faulty: deleting a machine that is already gone counts as a success.
DeleteMachineIdempotent(r) ==
    /\ target[r] # None
    /\ RemoveMachine(target[r])
    /\ Announcing(r, "deleted", target[r])
    /\ target' = [target EXCEPT ![r] = None]
    /\ UNCHANGED <<log, sweep, clock, historyVars>>

\* deleteMachine, second call: Provider.Delete.  It fails with ErrNotFound,
\* and nothing is published, when somebody else removed the machine first.
DeleteMachine(r) ==
    /\ target[r] # None
    /\ target' = [target EXCEPT ![r] = None]
    /\ \/ /\ target[r] \in Live
          /\ RemoveMachine(target[r])
          /\ Announcing(r, "deleted", target[r])
       \/ /\ target[r] \notin Live
          /\ UNCHANGED <<providerVars, pending>>
    /\ UNCHANGED <<log, sweep, clock, historyVars>>

\* snapshotMachine and Provider.Snapshot.
SnapshotMachine(r, id) ==
    /\ Admitted(r)
    /\ id \in Live
    /\ \E s \in SnapIds \ DOMAIN snapshots :
          snapshots' = With(snapshots, s, [machine |-> id, state |-> "ready"])
    /\ Announcing(r, "snapshot.created", id)
    /\ UNCHANGED <<machines, nextIP, log, target, sweep, clock, historyVars>>

\* restoreSnapshot and Provider.RestoreSnapshot.
RestoreSnapshot(r, id, s) ==
    /\ Admitted(r)
    /\ id \in Live /\ s \in SnapshotsOf(id)
    /\ snapshots' = [snapshots EXCEPT ![s].state = "restored"]
    /\ Announcing(r, "snapshot.restored", id)
    /\ UNCHANGED <<machines, nextIP, log, target, sweep, clock, historyVars>>

\* deleteSnapshot and Provider.DeleteSnapshot.
DeleteSnapshot(r, id, s) ==
    /\ Admitted(r)
    /\ id \in Live /\ s \in SnapshotsOf(id)
    /\ snapshots' = Without(snapshots, {s})
    /\ Announcing(r, "snapshot.deleted", id)
    /\ UNCHANGED <<machines, nextIP, log, target, sweep, clock, historyVars>>

\* Faulty: publishes although the provider call failed and left no event.
PublishUnguarded(q) ==
    /\ log' = Append(log, pending[q])
    /\ pending' = [pending EXCEPT ![q] = None]
    /\ UNCHANGED <<machines, snapshots, nextIP, target, sweep, clock, historyVars>>

\* Bus.Publish, reduced to what it does to the history under the bus's mutex.
Publish(q) ==
    /\ pending[q] # None
    /\ log' = Append(log, pending[q])
    /\ pending' = [pending EXCEPT ![q] = None]
    /\ UNCHANGED <<machines, snapshots, nextIP, target, sweep, clock, historyVars>>

-----------------------------------------------------------------------------
\* The TTL reconciler.

Resting == [active |-> FALSE, now |-> 0, projects |-> {}, victims |-> {}]

\* runOnce is called, at start or on a tick, and reads the clock once.
SweepStart ==
    /\ ~sweep.active
    /\ sweep' = [active |-> TRUE, now |-> clock, projects |-> Projects,
                 victims |-> {}]
    /\ UNCHANGED <<providerVars, log, pending, target, clock, historyVars>>

\* The outer loop: Provider.List of the next project.  The copy it returns is
\* filtered later, machine by machine, but deadlines never change.
SweepList(p) ==
    /\ sweep.active /\ sweep.victims = {} /\ pending[Sweeper] = None
    /\ p \in sweep.projects
    /\ sweep' = [sweep EXCEPT
          !.projects = @ \ {p},
          !.victims = {id \in Live : machines[id].project = p
                                     /\ Due(machines[id], sweep.now)}]
    /\ UNCHANGED <<providerVars, log, pending, target, clock, historyVars>>

\* Faulty: deletes without an event.
SweepDeleteSilent(id) ==
    /\ pending[Sweeper] = None
    /\ id \in sweep.victims
    /\ sweep' = [sweep EXCEPT !.victims = @ \ {id}]
    /\ RemoveMachine(id)
    /\ UNCHANGED <<log, pending, target, clock, historyVars>>

\* The inner loop: Provider.Delete of one machine that was due when listed.
\* An error (somebody deleted it since) is logged and the loop goes on.
SweepDelete(id) ==
    /\ pending[Sweeper] = None
    /\ id \in sweep.victims
    /\ sweep' = [sweep EXCEPT !.victims = @ \ {id}]
    /\ \/ /\ id \in Live
          /\ RemoveMachine(id)
          /\ Announcing(Sweeper, "expired", id)
       \/ /\ id \notin Live
          /\ UNCHANGED <<providerVars, pending>>
    /\ UNCHANGED <<log, target, clock, historyVars>>

\* runOnce returns.
SweepEnd ==
    /\ sweep.active /\ sweep.projects = {} /\ sweep.victims = {}
    /\ pending[Sweeper] = None
    /\ sweep' = Resting
    /\ UNCHANGED <<providerVars, log, pending, target, clock, historyVars>>

Tick ==
    /\ clock < MaxTime
    /\ clock' = clock + 1
    /\ UNCHANGED <<providerVars, log, pending, target, sweep, historyVars>>

-----------------------------------------------------------------------------

Init ==
    /\ machines = <<>>
    /\ snapshots = <<>>
    /\ nextIP = 20
    /\ log = <<>>
    /\ pending = [q \in Procs |-> None]
    /\ target = [r \in Requests |-> None]
    /\ sweep = Resting
    /\ clock = 0
    /\ deadline = <<>>
    /\ raced = {}

Handler(r) ==
    \/ \E p \in Projects, n \in Names, ttl \in TTLs : CreateMachine(r, p, n, ttl)
    \/ \E id \in Ids, type \in PowerEvents : MachineAction(r, id, type)
    \/ \E id \in Ids : DeleteMachineGet(r, id)
    \/ DeleteMachine(r)
    \/ \E id \in Ids : SnapshotMachine(r, id)
    \/ \E id \in Ids, s \in SnapIds : RestoreSnapshot(r, id, s)
    \/ \E id \in Ids, s \in SnapIds : DeleteSnapshot(r, id, s)

Sweep ==
    \/ SweepStart
    \/ \E p \in Projects : SweepList(p)
    \/ \E id \in Ids : SweepDelete(id)
    \/ SweepEnd

Next ==
    \/ \E r \in Requests : Handler(r)
    \/ Sweep
    \/ \E q \in Procs : Publish(q)
    \/ Tick

Spec == Init /\ [][Next]_vars

\* Clients owe nothing.  A goroutine that has begun runs on (neither a client
\* that hangs up nor a failed write stops a handler before its Publish), the
\* ticker keeps firing, and time passes.
Fairness ==
    /\ \A q \in Procs : WF_vars(Publish(q))
    /\ \A r \in Requests : WF_vars(DeleteMachine(r))
    /\ WF_vars(Sweep)
    /\ WF_vars(Tick)

FairSpec == Spec /\ Fairness

-----------------------------------------------------------------------------
\* Properties.

Born == DOMAIN deadline

Announced(id) ==
    \E i \in 1 .. Len(log) : log[i].machine = id /\ log[i].type \in Obituaries

HoldsObituary(q, id) ==
    pending[q] # None /\ pending[q].machine = id /\ pending[q].type \in Obituaries

\* Every variable holds a value of the kind the Go declarations give it.
TypeOK ==
    /\ DOMAIN machines \subseteq Ids /\ machines \in [DOMAIN machines -> Machine]
    /\ DOMAIN snapshots \subseteq SnapIds
    /\ snapshots \in [DOMAIN snapshots -> Snapshot]
    /\ nextIP \in Nat
    /\ log \in Seq(Event)
    /\ pending \in [Procs -> Event \cup {None}]
    /\ target \in [Requests -> Ids \cup {None}]
    /\ sweep \in [active : BOOLEAN, now : Nat, projects : SUBSET Projects,
                  victims : SUBSET Ids]
    /\ clock \in Nat
    /\ DOMAIN deadline \subseteq Ids /\ deadline \in [DOMAIN deadline -> Deadlines]
    /\ raced \subseteq Ids

\* No two live machines of a project share a name, and no two live machines
\* of any project share an address (Provider.Create's conflict check, nextIP).
DistinctIdentities ==
    \A a, b \in Live : a # b =>
        /\ machines[a].project = machines[b].project =>
               machines[a].name # machines[b].name
        /\ machines[a].ip # machines[b].ip

\* However deleteMachine requests and the reconciler race for a machine, its
\* end is announced at most once, by the one whose Delete succeeded, and not
\* while the machine lives.
OneObituary ==
    /\ \A i, j \in 1 .. Len(log) :
          /\ log[i].type \in Obituaries /\ log[j].type \in Obituaries
          /\ log[i].machine = log[j].machine
          => i = j
    /\ \A id \in Live : ~Announced(id)

\* A machine that was handed out and is no longer there has been announced, or
\* the goroutine that removed it is still to publish that.
NoSilentDeath ==
    \A id \in Born \ Live :
        Announced(id) \/ \E q \in Procs : HoldsObituary(q, id)

\* A snapshot belongs to a live machine: deleting the machine, by request or by
\* expiry, and in whatever order with snapshot requests, leaves none behind.
SnapshotsHaveOwners ==
    \A s \in DOMAIN snapshots : snapshots[s].machine \in Live

\* machine.expired is only said of a machine with a TTL, and at or after its
\* deadline: runOnce compares with a `now` read before it listed the machine.
NeverExpiredEarly ==
    \A i \in 1 .. Len(log) :
        log[i].type = "expired" =>
            /\ deadline[log[i].machine] # None
            /\ deadline[log[i].machine] <= clock

\* While a pass of the reconciler runs, every machine that was past its deadline
\* when the pass began, and that is still there, is ahead of it: in a project
\* still to be listed or among those about to be deleted.  When the pass ends
\* none is left, machines created while it ran included.
SweepMissesNothing ==
    sweep.active =>
        \A id \in Live :
            machines[id].expires # None /\ machines[id].expires <= sweep.now =>
                machines[id].project \in sweep.projects \/ id \in sweep.victims

IsPowerEvent(e, id) == e.machine = id /\ e.type \in PowerEvents

HoldsPowerEvent(q, id) == pending[q] # None /\ IsPowerEvent(pending[q], id)

\* A started event is to be believed of a running machine, a stopped event of a
\* stopped one.
Tells(type, id) == type = "started" <=> machines[id].state = "running"

\* The last started or stopped event of the machine tells its state; without
\* one it is as Create left it, running.
LogTells(id) ==
    LET told == {i \in 1 .. Len(log) : IsPowerEvent(log[i], id)}
    IN  IF told = {} THEN machines[id].state = "running"
        ELSE \E i \in told : (\A j \in told : j <= i) /\ Tells(log[i].type, id)

\* A client that follows the events knows whether a machine is on: the last
\* started or stopped event of a machine agrees with its state, unless such an
\* event is still on its way or two start/stop requests of it overlapped (they
\* may be published in the other order, Publish being outside the lock).
PowerEventsAgree ==
    \A id \in Live \ raced :
        LogTells(id) \/ \E q \in Procs : HoldsPowerEvent(q, id)

\* A machine past its deadline is removed and its end announced, whatever the
\* clients do meanwhile.
ExpiredIsAnnounced ==
    \A id \in Ids :
        (id \in Live /\ Due(machines[id], clock)) ~> Announced(id)

\* The stage of each machine as Lifecycle sees it.
Status ==
    [id \in Ids |-> IF id \notin Born THEN "unborn"
                    ELSE IF id \in Live THEN "live"
                    ELSE IF Announced(id) THEN "announced" ELSE "gone"]

L == INSTANCE Lifecycle WITH status <- Status

\* The control plane implements Lifecycle: no ID is handed out twice, none comes
\* back, and no end is announced before it happened ...
ImplementsLifecycle == L!Spec

\* ... and every removal is eventually announced.
ImplementsLifecycleFair == L!FairSpec

=============================================================================
