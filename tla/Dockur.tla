------------------------------- MODULE Dockur -------------------------------
(***************************************************************************)
(* The dockur provider (internal/dockur/provider.go): machines and ports   *)
(* under one mutex, mirrored to state.json, and one container per machine, *)
(* driven with `docker compose` in a directory per machine.                *)
(*                                                                         *)
(* A method holds the mutex from beginning to end, so methods do not       *)
(* overlap.  But krytond may be killed inside one, and containers,         *)
(* directories and state.json outlive it: a method is a sequence of steps, *)
(* one for each thing it does outside memory.  `call` is the method that   *)
(* holds the mutex and what it has still to do.                            *)
(***************************************************************************)
EXTENDS Naturals, FiniteSets

CONSTANTS
    Names,        \* spec.Name; the project is left out, its map is keyed alike
    Ids,          \* machine IDs (id.New)
    Ports,        \* host ports from the base up; one stands for the HTTP/RDP pair
    Nobody,       \* the mutex is free
    Torn,         \* state.json cut short: WriteFile truncates, then writes
    MaxFaults     \* bound: failures, kills and ports grabbed by other programs

ASSUME PortsAssumption == Ports \subseteq Nat
ASSUME BoundAssumption == MaxFaults \in Nat

States == {"provisioning", "running", "stopped", "failed"}
Machine == [name : Names, port : Ports, state : States]
Container == [port : Ports, up : BOOLEAN]

\* A call under way: what it is, whom it is about, and what it does next.
Preparing == [op : {"create"}, id : Ids, step : {"up"}, name : Names, port : Ports]
Removing == [op : {"delete"}, id : Ids, step : {"remove"}]
SavingOne == [op : {"create", "lifecycle", "delete"}, id : Ids,
              step : {"save", "write"}]
SavingAll == [op : {"refresh"}, step : {"save", "write"}]
Call == Preparing \cup Removing \cup SavingOne \cup SavingAll

ASSUME NobodyAssumption == Nobody \notin Call

VARIABLES
    machines,      \* Provider.machines and Provider.ports, by ID
    call,          \* the method that holds Provider.mu
    disk,          \* state.json
    dirs,          \* machine directories, with their compose.yml
    containers,    \* the containers the runtime knows, by machine ID
    foreign,       \* ports other programs listen on
    faults,        \* bound: what has gone wrong so far
    born,          \* history variable: IDs handed out
    deleted,       \* history variable: IDs whose Delete returned nil
    stale          \* history variable: the last save failed or was cut short

world == <<dirs, containers, foreign>>
vars == <<machines, call, disk, world, faults, born, deleted, stale>>

With(f, k, v) == [x \in DOMAIN f \cup {k} |-> IF x = k THEN v ELSE f[x]]

Without(f, k) == [x \in DOMAIN f \ {k} |-> f[x]]

\* Two maps have the same entry, or none, for a key.
Same(f, g, k) ==
    /\ k \in DOMAIN f <=> k \in DOMAIN g
    /\ k \in DOMAIN f => f[k] = g[k]

Live == DOMAIN machines

Free == call = Nobody

Fault == faults < MaxFaults /\ faults' = faults + 1

Listening(p) == p \in foreign \/ \E c \in DOMAIN containers :
                                     containers[c].up /\ containers[c].port = p

-----------------------------------------------------------------------------
\* state.json: saveStateLocked, the last thing every method does.

\* A method has done its work but for the save.
Saving(op, id) == call' = [op |-> op, id |-> id, step |-> "save"]

\* Faulty: the error of the save is dropped in Delete as it is elsewhere.
ReturnNil(ok) ==
    /\ call' = Nobody
    /\ stale' = ~ok
    /\ deleted' = IF call.op = "delete" THEN deleted \cup {call.id} ELSE deleted

\* The method returns; ok says whether the save succeeded.
Return(ok) ==
    /\ call' = Nobody
    /\ stale' = ~ok
    /\ deleted' = IF ok /\ call.op = "delete" THEN deleted \cup {call.id} ELSE deleted

\* The file is truncated; or it cannot be opened, and the method returns.
SaveTruncate ==
    /\ ~Free /\ call.step = "save"
    /\ \/ /\ disk' = Torn
          /\ call' = [call EXCEPT !.step = "write"]
          /\ UNCHANGED <<faults, stale, deleted>>
       \/ /\ Fault
          /\ Return(FALSE)
          /\ UNCHANGED disk
    /\ UNCHANGED <<machines, world, born>>

\* The rest is written; or the disk is full.
SaveWrite ==
    /\ ~Free /\ call.step = "write"
    /\ \/ /\ disk' = machines
          /\ Return(TRUE)
          /\ UNCHANGED faults
       \/ /\ Fault
          /\ Return(FALSE)
          /\ UNCHANGED disk
    /\ UNCHANGED <<machines, world, born>>

-----------------------------------------------------------------------------
\* Create.

\* Faulty: tries the ports only, not the ones given to stopped machines.
UsableListening(p) == ~Listening(p)

\* allocatePortsLocked: not given to a machine, and nobody listens (portFree).
Usable(p) == ~Listening(p) /\ \A id \in Live : machines[id].port # p

\* The name is checked, an ID and the first usable port are taken, and the
\* directory is made; or preparing it fails half way and leaves it behind.
CreateBegin(n) ==
    /\ Free
    /\ \A id \in Live : machines[id].name # n
    /\ \E id \in Ids \ born, p \in Ports :
          /\ Usable(p) /\ \A q \in Ports : q < p => ~Usable(q)
          /\ born' = born \cup {id}
          /\ dirs' = dirs \cup {id}
          /\ \/ /\ call' = [op |-> "create", id |-> id, step |-> "up",
                            name |-> n, port |-> p]
                /\ UNCHANGED faults
             \/ Fault /\ UNCHANGED call
    /\ UNCHANGED <<machines, disk, containers, foreign, deleted, stale>>

\* compose up: the port was free when it was tried, and may not be any more.
CreateUp ==
    /\ ~Free /\ call.step = "up"
    /\ ~Listening(call.port)
    /\ containers' = With(containers, call.id, [port |-> call.port, up |-> TRUE])
    /\ machines' = With(machines, call.id,
                        [name |-> call.name, port |-> call.port,
                         state |-> "provisioning"])
    /\ Saving("create", call.id)
    /\ UNCHANGED <<disk, dirs, foreign, faults, born, deleted, stale>>

\* It fails, or the client hangs up and the command is killed with the request's
\* context: the directory is removed, what the runtime had begun is not.
CreateUpFails ==
    /\ ~Free /\ call.step = "up"
    /\ IF Listening(call.port) THEN UNCHANGED faults ELSE Fault
    /\ \/ UNCHANGED containers
       \/ \E up \in {FALSE, ~Listening(call.port)} :
             containers' = With(containers, call.id, [port |-> call.port, up |-> up])
    /\ dirs' = dirs \ {call.id}
    /\ call' = Nobody
    /\ UNCHANGED <<machines, disk, foreign, born, deleted, stale>>

-----------------------------------------------------------------------------
\* Get and List.

\* Faulty: saves only when the refresh found something new.
RefreshThrifty(ids) ==
    /\ Free
    /\ \E ready \in SUBSET {id \in ids : machines[id].state = "provisioning"
                                         /\ Listening(machines[id].port)} :
          /\ machines' = [id \in Live |-> IF id \in ready
                             THEN [machines[id] EXCEPT !.state = "running"]
                             ELSE machines[id]]
          /\ call' = IF ready = {} THEN Nobody ELSE [op |-> "refresh", step |-> "save"]
    /\ UNCHANGED <<disk, world, faults, born, deleted, stale>>

\* refreshLocked on each: a machine that is being set up is running once its
\* port answers.  Whoever answers.
Refresh(ids) ==
    /\ Free
    /\ \E ready \in SUBSET {id \in ids : machines[id].state = "provisioning"
                                         /\ Listening(machines[id].port)} :
          machines' = [id \in Live |-> IF id \in ready
                          THEN [machines[id] EXCEPT !.state = "running"]
                          ELSE machines[id]]
    /\ call' = [op |-> "refresh", step |-> "save"]
    /\ UNCHANGED <<disk, world, faults, born, deleted, stale>>

Get(id) == id \in Live /\ Refresh({id})

List == Refresh(Live)

-----------------------------------------------------------------------------
\* Start and Stop: lifecycle.

\* compose start or stop can do its work.
Workable(id, on) ==
    /\ id \in dirs
    /\ on => /\ id \in DOMAIN containers
             /\ containers[id].up \/ ~Listening(containers[id].port)

Powered(id, on) ==
    [c \in DOMAIN containers |->
        IF c = id THEN [containers[c] EXCEPT !.up = on] ELSE containers[c]]

\* Faulty: leaves it to the next method to save.
LifecycleDoneUnsaved(id, on) ==
    /\ Free
    /\ id \in Live
    /\ Workable(id, on)
    /\ containers' = Powered(id, on)
    /\ machines' = [machines EXCEPT ![id].state = IF on THEN "running" ELSE "stopped"]
    /\ UNCHANGED <<call, disk, dirs, foreign, faults, born, deleted, stale>>

LifecycleDone(id, on) ==
    /\ Free
    /\ id \in Live
    /\ Workable(id, on)
    /\ containers' = Powered(id, on)
    /\ machines' = [machines EXCEPT ![id].state = IF on THEN "running" ELSE "stopped"]
    /\ Saving("lifecycle", id)
    /\ UNCHANGED <<disk, dirs, foreign, faults, born, deleted, stale>>

\* Faulty: leaves the transient state on record.
LifecycleFailsTransient(id, on) ==
    /\ Free
    /\ id \in Live
    /\ ~Workable(id, on)
    /\ machines' = [machines EXCEPT ![id].state = IF on THEN "starting" ELSE "stopping"]
    /\ Saving("lifecycle", id)
    /\ UNCHANGED <<disk, world, faults, born, deleted, stale>>

\* compose fails; what it had done stays done.
LifecycleFails(id, on) ==
    /\ Free
    /\ id \in Live
    /\ IF Workable(id, on)
         THEN Fault /\ \/ UNCHANGED containers
                       \/ containers' = Powered(id, on)
         ELSE UNCHANGED <<faults, containers>>
    /\ machines' = [machines EXCEPT ![id].state = "failed"]
    /\ Saving("lifecycle", id)
    /\ UNCHANGED <<disk, dirs, foreign, born, deleted, stale>>

-----------------------------------------------------------------------------
\* Delete.

\* Faulty: trusts RemoveAll to get rid of the container as well.
DeleteDownSkipped(id) ==
    /\ Free
    /\ id \in Live
    /\ call' = [op |-> "delete", id |-> id, step |-> "remove"]
    /\ UNCHANGED <<machines, disk, world, faults, born, deleted, stale>>

\* compose down.  Its error is dropped.
DeleteDown(id) ==
    /\ Free
    /\ id \in Live
    /\ \/ /\ id \in dirs
          /\ containers' = Without(containers, id)
          /\ UNCHANGED faults
       \/ /\ IF id \in dirs THEN Fault ELSE UNCHANGED faults
          /\ UNCHANGED containers
    /\ call' = [op |-> "delete", id |-> id, step |-> "remove"]
    /\ UNCHANGED <<machines, disk, dirs, foreign, born, deleted, stale>>

\* The directory and the entries go.
DeleteRemove ==
    /\ ~Free /\ call.step = "remove"
    /\ dirs' = dirs \ {call.id}
    /\ machines' = Without(machines, call.id)
    /\ Saving("delete", call.id)
    /\ UNCHANGED <<disk, containers, foreign, faults, born, deleted, stale>>

-----------------------------------------------------------------------------
\* Around the provider.

\* krytond is killed and started again: New.  loadState's error is dropped, so a
\* state.json that does not parse is as good as none, until the next save.
Restart ==
    /\ Fault
    /\ machines' = IF disk = Torn THEN <<>> ELSE disk
    /\ call' = Nobody
    /\ stale' = (disk = Torn)
    /\ UNCHANGED <<disk, world, born, deleted>>

\* Another program begins or ceases to listen on a port.
Occupy(p) ==
    /\ ~Listening(p)
    /\ Fault
    /\ foreign' = foreign \cup {p}
    /\ UNCHANGED <<machines, call, disk, dirs, containers, born, deleted, stale>>

Vacate(p) ==
    /\ p \in foreign
    /\ foreign' = foreign \ {p}
    /\ UNCHANGED <<machines, call, disk, dirs, containers, faults, born, deleted, stale>>

-----------------------------------------------------------------------------

Init ==
    /\ machines = <<>> /\ disk = <<>> /\ containers = <<>>
    /\ call = Nobody
    /\ dirs = {} /\ foreign = {} /\ born = {} /\ deleted = {}
    /\ faults = 0
    /\ stale = FALSE

\* What is left of the method that holds the mutex.
Continue ==
    SaveTruncate \/ SaveWrite \/ CreateUp \/ CreateUpFails \/ DeleteRemove

Next ==
    \/ Continue
    \/ \E n \in Names : CreateBegin(n)
    \/ \E id \in Ids : Get(id)
    \/ List
    \/ \E id \in Ids, on \in BOOLEAN : LifecycleDone(id, on) \/ LifecycleFails(id, on)
    \/ \E id \in Ids : DeleteDown(id)
    \/ Restart
    \/ \E p \in Ports : Occupy(p) \/ Vacate(p)

Spec == Init /\ [][Next]_vars

\* A method runs on, and the TTL reconciler's List gets the mutex in the end
\* however many clients want it (sync.Mutex hands it to the longest waiter).
FairSpec == Spec /\ WF_vars(Continue) /\ SF_vars(List)

-----------------------------------------------------------------------------
\* Properties.

\* Every variable holds a value of the kind the Go declarations give it.
TypeOK ==
    /\ DOMAIN machines \subseteq born /\ machines \in [DOMAIN machines -> Machine]
    /\ \/ disk = Torn
       \/ DOMAIN disk \subseteq born /\ disk \in [DOMAIN disk -> Machine]
    /\ dirs \subseteq born
    /\ DOMAIN containers \subseteq born
    /\ containers \in [DOMAIN containers -> Container]
    /\ foreign \subseteq Ports
    /\ faults \in 0 .. MaxFaults
    /\ born \subseteq Ids /\ deleted \subseteq born
    /\ stale \in BOOLEAN
    /\ call \in Call \cup {Nobody}

\* No two machines have the same port or the same name, be they stopped, loaded
\* from an older state.json, or set up while other programs came and went.
DistinctMachines ==
    \A a, b \in Live : a # b => /\ machines[a].port # machines[b].port
                                /\ machines[a].name # machines[b].name

\* A Delete that returned nil is final: the machine does not come back, whenever
\* krytond is killed and whatever state.json it then finds.
DeletedForGood == deleted \cap Live = {}

\* What a kill costs when the last save succeeded and the kill is not in the middle
\* of one: no more than the work of the method it meets.  Every other machine comes
\* back as it was; Get and List may lose that a machine was found to be running.
KillCostsOneCall ==
    [][Restart /\ ~stale /\ disk # Torn =>
          IF ~Free /\ call.op = "refresh" THEN Live' = Live
          ELSE \A id \in Ids : \/ ~Free /\ call.id = id
                               \/ Same(machines, machines', id)]_vars

\* While nothing goes wrong, machines, containers, directories and states agree
\* between calls, and a machine that is stopped has its container down.
WorldAgrees ==
    faults = 0 /\ Free =>
        /\ DOMAIN containers = Live /\ dirs = Live
        /\ \A id \in Live : /\ containers[id].port = machines[id].port
                            /\ containers[id].up <=> machines[id].state # "stopped"

\* A save that failed, or that a kill cut short, is made good by the next method that
\* saves: none writes only its own change, and the reconciler lists machines again
\* and again.
SavedInTheEnd == stale ~> ~stale

\* "Machine and port-allocation state is also mirrored to state.json": a machine is
\* there after a restart, unless its Create is still under way.
Mirrored ==
    [][Restart => \A id \in Live : \/ id \in Live'
                                   \/ ~Free /\ call.op = "create" /\ call.id = id]_vars

\* "Delete permanently removes a machine and its backing resources."
BackingRemoved == deleted \cap DOMAIN containers = {}

=============================================================================
