-------------------------- MODULE ReconcilerProofs --------------------------
(***************************************************************************)
(* More theorems about ControlPlane: what the provider's maps hold, and    *)
(* what the TTL reconciler may rely on although it works on old copies.    *)
(***************************************************************************)
EXTENDS ControlPlaneProofs

-----------------------------------------------------------------------------
(***************************************************************************)
(* The life of the map of machines: entries are added by CreateMachine,    *)
(* and what every other step leaves of them keeps all but its state.       *)
(***************************************************************************)

\* No machine is added; those that stay are the same but for their state.
Keeps ==
    /\ Live' \subseteq Live
    /\ \A x \in Live' : /\ machines'[x].project = machines[x].project
                        /\ machines'[x].name = machines[x].name
                        /\ machines'[x].ip = machines[x].ip
                        /\ machines'[x].expires = machines[x].expires
    /\ nextIP' = nextIP
    /\ deadline' = deadline

\* The machine id is added; no other is touched.
Adds(id, p, n, ttl) ==
    /\ id \in Ids \ Born
    /\ ~NameTaken(p, n)
    /\ Live' = Live \cup {id}
    /\ machines'[id] = [project |-> p, name |-> n, state |-> "running",
                        ip |-> nextIP, expires |-> ExpiresAt(ttl)]
    /\ \A x \in Live \ {id} : machines'[x] = machines[x]
    /\ nextIP' = nextIP + 1
    /\ Born' = Born \cup {id}
    /\ deadline'[id] = ExpiresAt(ttl)
    /\ \A x \in Born : deadline'[x] = deadline[x]
    /\ UNCHANGED <<snapshots, log, sweep, clock>>

\* A create adds one machine, under an ID never handed out before.
LEMMA CreateAdds ==
    ASSUME TypeOK, NEW r \in Requests, NEW p \in Projects, NEW n \in Names,
           NEW ttl \in TTLs, CreateMachine(r, p, n, ttl)
    PROVE  \E id \in Ids : Adds(id, p, n, ttl) /\ Announcing(r, "created", id)
<1>1. PICK id \in Ids \ DOMAIN deadline :
        /\ machines' = With(machines, id,
                            [project |-> p, name |-> n, state |-> "running",
                             ip |-> nextIP, expires |-> ExpiresAt(ttl)])
        /\ deadline' = With(deadline, id, ExpiresAt(ttl))
        /\ Announcing(r, "created", id)
  BY DEF CreateMachine
<1>2. /\ Live' = Live \cup {id}
      /\ machines'[id] = [project |-> p, name |-> n, state |-> "running",
                          ip |-> nextIP, expires |-> ExpiresAt(ttl)]
      /\ \A x \in Live \ {id} : machines'[x] = machines[x]
  BY <1>1 DEF With, Live
<1>3. /\ Born' = Born \cup {id}
      /\ deadline'[id] = ExpiresAt(ttl)
      /\ \A x \in Born : deadline'[x] = deadline[x]
  BY <1>1 DEF With, Born
<1> QED
  BY <1>1, <1>2, <1>3 DEF CreateMachine, Adds, Born

\* A removal keeps the machines it does not remove.
LEMMA RemoveKeeps ==
    ASSUME TypeOK, NEW id \in Ids, RemoveMachine(id), deadline' = deadline
    PROVE  Keeps
BY RemoveMachineType DEF Keeps, Live

\* Every step but a create keeps the machines.
LEMMA OthersKeep ==
    ASSUME TypeOK, [Next]_vars,
           \A r \in Requests, p \in Projects, n \in Names, ttl \in TTLs :
               ~CreateMachine(r, p, n, ttl)
    PROVE  Keeps
<1>1. CASE machines' = machines /\ nextIP' = nextIP /\ deadline' = deadline
  BY <1>1 DEF Keeps, Live
<1>2. ASSUME NEW r \in Requests, Handler(r) PROVE Keeps
  <2>1. ASSUME NEW id \in Ids, NEW type \in PowerEvents, MachineAction(r, id, type)
        PROVE  Keeps
    BY <2>1 DEF MachineAction, Keeps, Live, TypeOK, Machine
  <2>2. ASSUME DeleteMachine(r) PROVE Keeps
    <3>1. target[r] \in Ids /\ deadline' = deadline
      BY <2>2 DEF DeleteMachine, TypeOK, historyVars
    <3>2. RemoveMachine(target[r]) \/ UNCHANGED <<providerVars, pending>>
      BY <2>2 DEF DeleteMachine
    <3> QED
      BY <1>1, <3>1, <3>2, RemoveKeeps DEF providerVars
  <2> QED
    BY <1>1, <1>2, <2>1, <2>2
       DEF Handler, DeleteMachineGet, SnapshotMachine, RestoreSnapshot,
           DeleteSnapshot, historyVars
<1>3. CASE Sweep
  <2>1. ASSUME NEW id \in Ids, SweepDelete(id) PROVE Keeps
    <3>1. deadline' = deadline
      BY <2>1 DEF SweepDelete, historyVars
    <3>2. RemoveMachine(id) \/ UNCHANGED <<providerVars, pending>>
      BY <2>1 DEF SweepDelete
    <3> QED
      BY <1>1, <3>1, <3>2, RemoveKeeps DEF providerVars
  <2> QED
    BY <1>1, <1>3, <2>1
       DEF Sweep, SweepStart, SweepList, SweepEnd, providerVars, historyVars
<1>4. CASE (\E q \in Procs : Publish(q)) \/ Tick \/ UNCHANGED vars
  BY <1>1, <1>4 DEF Publish, Tick, vars, providerVars, historyVars
<1> QED
  BY <1>2, <1>3, <1>4 DEF Next

\* Every step keeps the machines or adds one.
LEMMA MachinesStep ==
    ASSUME TypeOK, [Next]_vars
    PROVE  \/ Keeps
           \/ \E id \in Ids, p \in Projects, n \in Names, ttl \in TTLs :
                 Adds(id, p, n, ttl)
BY CreateAdds, OthersKeep

-----------------------------------------------------------------------------
(***************************************************************************)
(* Distinct names and addresses.  What makes the addresses distinct is     *)
(* that nextIP is ahead of all that were given out.                        *)
(***************************************************************************)

AddressesBehind == \A id \in Live : machines[id].ip < nextIP

IdentityInv == TypeOK /\ AddressesBehind /\ DistinctIdentities

\* Every step keeps names and addresses distinct.
LEMMA IdentityStep == IdentityInv /\ [Next]_vars => IdentityInv'
<1> SUFFICES ASSUME TypeOK, AddressesBehind, DistinctIdentities, [Next]_vars
             PROVE  AddressesBehind' /\ DistinctIdentities'
  BY NextTypeOK DEF IdentityInv
<1>1. CASE Keeps
  BY <1>1 DEF Keeps, AddressesBehind, DistinctIdentities
<1>2. ASSUME NEW id \in Ids, NEW p \in Projects, NEW n \in Names, NEW ttl \in TTLs,
             Adds(id, p, n, ttl)
      PROVE  AddressesBehind' /\ DistinctIdentities'
  <2>1. nextIP \in Nat /\ \A x \in Live : machines[x].ip \in Nat
    BY DEF TypeOK, Live, Machine
  <2>2. /\ Live' = Live \cup {id} /\ nextIP' = nextIP + 1
        /\ \A x \in Live \ {id} : machines'[x] = machines[x]
        /\ machines'[id].ip = nextIP
        /\ machines'[id].project = p /\ machines'[id].name = n
    BY <1>2 DEF Adds
  <2>3. AddressesBehind'
    BY <2>1, <2>2 DEF AddressesBehind
  <2>4. ASSUME NEW x \in Live \ {id}
        PROVE  /\ machines'[x].project = p => machines'[x].name # n
               /\ machines'[x].ip # nextIP
    BY <1>2, <2>1, <2>2 DEF Adds, NameTaken, AddressesBehind
  <2>5. DistinctIdentities'
    BY <2>2, <2>4 DEF DistinctIdentities
  <2> QED
    BY <2>3, <2>5
<1> QED
  BY <1>1, <1>2, MachinesStep

\* No two live machines share an address, or a name in one project, although
\* requests create and delete them concurrently (Provider.Create).
THEOREM DistinctIdentitiesAlways == Spec => []DistinctIdentities
<1>1. Init => IdentityInv
  BY InitTypeOK DEF Init, IdentityInv, AddressesBehind, DistinctIdentities, Live
<1>2. IdentityInv => DistinctIdentities
  BY DEF IdentityInv
<1> QED
  BY <1>1, <1>2, IdentityStep, PTL DEF Spec

-----------------------------------------------------------------------------
(***************************************************************************)
(* Snapshots have owners.                                                  *)
(***************************************************************************)

OwnerInv == TypeOK /\ SnapshotsHaveOwners

\* Removing a machine takes its snapshots with it.
LEMMA RemoveOwns ==
    ASSUME OwnerInv, NEW id \in Ids, RemoveMachine(id)
    PROVE  SnapshotsHaveOwners'
<1>1. /\ DOMAIN machines' = DOMAIN machines \ {id}
      /\ DOMAIN snapshots' = DOMAIN snapshots \ SnapshotsOf(id)
      /\ \A s \in DOMAIN snapshots' : snapshots'[s] = snapshots[s]
  BY RemoveMachineType DEF OwnerInv
<1> QED
  BY <1>1 DEF OwnerInv, SnapshotsHaveOwners, SnapshotsOf, Live

\* Every step leaves each snapshot with its machine.
LEMMA OwnerStep == OwnerInv /\ [Next]_vars => OwnerInv'
<1> SUFFICES ASSUME OwnerInv, [Next]_vars PROVE SnapshotsHaveOwners'
  BY NextTypeOK DEF OwnerInv
<1> TypeOK /\ SnapshotsHaveOwners
  BY DEF OwnerInv
<1>1. CASE snapshots' = snapshots /\ Live' = Live
  BY <1>1 DEF SnapshotsHaveOwners
<1>2. ASSUME NEW r \in Requests, Handler(r) PROVE SnapshotsHaveOwners'
  <2>1. ASSUME NEW p \in Projects, NEW n \in Names, NEW ttl \in TTLs,
               CreateMachine(r, p, n, ttl)
        PROVE  SnapshotsHaveOwners'
    BY <2>1, CreateAdds DEF Adds, SnapshotsHaveOwners
  <2>2. ASSUME NEW id \in Ids, NEW type \in PowerEvents, MachineAction(r, id, type)
        PROVE  SnapshotsHaveOwners'
    BY <1>1, <2>2 DEF MachineAction, Live, TypeOK
  <2>3. ASSUME DeleteMachine(r) PROVE SnapshotsHaveOwners'
    <3>1. target[r] \in Ids
      BY <2>3 DEF DeleteMachine, TypeOK
    <3>2. RemoveMachine(target[r]) \/ UNCHANGED <<providerVars, pending>>
      BY <2>3 DEF DeleteMachine
    <3> QED
      BY <1>1, <3>1, <3>2, RemoveOwns DEF providerVars, Live
  <2>4. ASSUME NEW id \in Ids, SnapshotMachine(r, id) PROVE SnapshotsHaveOwners'
    <3>1. PICK s \in SnapIds : snapshots' = With(snapshots, s,
                                                 [machine |-> id, state |-> "ready"])
      BY <2>4 DEF SnapshotMachine
    <3>2. /\ DOMAIN snapshots' = DOMAIN snapshots \cup {s}
          /\ snapshots'[s].machine = id
          /\ \A t \in DOMAIN snapshots \ {s} : snapshots'[t] = snapshots[t]
      BY <3>1 DEF With
    <3> QED
      BY <2>4, <3>2 DEF SnapshotMachine, SnapshotsHaveOwners, Live
  <2>5. ASSUME NEW id \in Ids, NEW s \in SnapIds, RestoreSnapshot(r, id, s)
        PROVE  SnapshotsHaveOwners'
    BY <2>5 DEF RestoreSnapshot, SnapshotsHaveOwners, Live, TypeOK, Snapshot, SnapshotsOf
  <2>6. ASSUME NEW id \in Ids, NEW s \in SnapIds, DeleteSnapshot(r, id, s)
        PROVE  SnapshotsHaveOwners'
    BY <2>6 DEF DeleteSnapshot, Without, SnapshotsHaveOwners, Live
  <2> QED
    BY <1>1, <1>2, <2>1, <2>2, <2>3, <2>4, <2>5, <2>6
       DEF Handler, DeleteMachineGet, Live
<1>3. CASE Sweep
  <2>1. ASSUME NEW id \in Ids, SweepDelete(id) PROVE SnapshotsHaveOwners'
    BY <1>1, <2>1, RemoveOwns DEF SweepDelete, providerVars, Live
  <2> QED
    BY <1>1, <1>3, <2>1
       DEF Sweep, SweepStart, SweepList, SweepEnd, providerVars, Live
<1>4. CASE (\E q \in Procs : Publish(q)) \/ Tick \/ UNCHANGED vars
  BY <1>1, <1>4 DEF Publish, Tick, vars, providerVars, Live
<1> QED
  BY <1>2, <1>3, <1>4 DEF Next

\* Whatever the order of snapshot requests, deletes and expiries, no snapshot
\* outlives its machine (Provider.Delete removes them under the same mutex).
THEOREM SnapshotsHaveOwnersAlways == Spec => []SnapshotsHaveOwners
<1>1. Init => OwnerInv
  BY InitTypeOK DEF Init, OwnerInv, SnapshotsHaveOwners
<1>2. OwnerInv => SnapshotsHaveOwners
  BY DEF OwnerInv
<1> QED
  BY <1>1, <1>2, OwnerStep, PTL DEF Spec

-----------------------------------------------------------------------------
(***************************************************************************)
(* The reconciler is neither early nor blind.  An expiry is announced long *)
(* after the comparison that led to it, so what has to be invariant is     *)
(* that everything on its way is overdue: the machines a pass has picked   *)
(* and the events goroutines hold.                                         *)
(***************************************************************************)

Overdue(id, t) == deadline[id] # None /\ deadline[id] <= t

\* The history variable has the deadlines of the machines.
Deadlined == \A id \in Live : deadline[id] = machines[id].expires

\* The pass's `now` is not ahead of the clock, and what it picked was due.
PicksTimely ==
    /\ sweep.now <= clock
    /\ \A id \in sweep.victims : id \in Born /\ Overdue(id, sweep.now)

HoldsTimely ==
    \A q \in Procs :
        pending[q] # None /\ pending[q].type = "expired" =>
            Overdue(pending[q].machine, clock)

Timely == /\ Deadlined /\ PicksTimely /\ HoldsTimely
          /\ NeverExpiredEarly /\ SweepMissesNothing

TimelyInv == LifeInv /\ Timely

\* Time passes and deadlines stay.
LEMMA TimePasses ==
    ASSUME TypeOK, [Next]_vars
    PROVE  /\ clock \in Nat /\ clock' \in Nat /\ clock <= clock'
           /\ \A id \in Born : id \in Born' /\ deadline'[id] = deadline[id]
<1>1. clock \in Nat /\ clock' \in {clock, clock + 1}
  BY DEF TypeOK, Next, Handler, CreateMachine, MachineAction, DeleteMachineGet,
         DeleteMachine, SnapshotMachine, RestoreSnapshot, DeleteSnapshot, Sweep,
         SweepStart, SweepList, SweepDelete, SweepEnd, Publish, Tick, vars
<1>2. CASE Keeps
  BY <1>1, <1>2 DEF Keeps, Born
<1>3. ASSUME NEW id \in Ids, NEW p \in Projects, NEW n \in Names, NEW ttl \in TTLs,
             Adds(id, p, n, ttl)
      PROVE  \A x \in Born : x \in Born' /\ deadline'[x] = deadline[x]
  BY <1>3 DEF Adds
<1> QED
  BY <1>1, <1>2, <1>3, MachinesStep

\* What is overdue stays so.
LEMMA OverdueStays ==
    ASSUME TypeOK, [Next]_vars, NEW id \in Born
    PROVE  /\ \A t : Overdue(id, t) => deadline'[id] # None /\ deadline'[id] <= t
           /\ Overdue(id, clock) => deadline'[id] # None /\ deadline'[id] <= clock'
           /\ \A t \in Nat : t <= clock /\ Overdue(id, t) =>
                  deadline'[id] # None /\ deadline'[id] <= clock'
<1>1. /\ clock \in Nat /\ clock' \in Nat /\ clock <= clock'
      /\ deadline'[id] = deadline[id]
  BY TimePasses
<1>2. deadline[id] \in Nat \cup {None}
  BY DEF TypeOK, Born, Deadlines
<1> QED
  BY <1>1, <1>2 DEF Overdue

\* A new machine is not due before time passes.
LEMMA NewIsNotDue ==
    ASSUME TypeOK, NEW ttl \in TTLs, ExpiresAt(ttl) # None
    PROVE  ExpiresAt(ttl) \in Nat /\ ExpiresAt(ttl) > clock
<1> ttl \in Nat /\ clock \in Nat
  BY BoundsAssumption DEF TypeOK
<1> QED
  BY DEF ExpiresAt

\* Every step keeps the record of deadlines.
LEMMA DeadlinedStep ==
    ASSUME TypeOK, KnownIds, Deadlined, [Next]_vars
    PROVE  Deadlined'
<1>1. CASE Keeps
  BY <1>1 DEF Keeps, Deadlined, KnownIds
<1>2. ASSUME NEW id \in Ids, NEW p \in Projects, NEW n \in Names, NEW ttl \in TTLs,
             Adds(id, p, n, ttl)
      PROVE  Deadlined'
  BY <1>2 DEF Adds, Deadlined, KnownIds
<1> QED
  BY <1>1, <1>2, MachinesStep

\* A goroutine holds the expiry of a machine that is overdue, and no other.
LEMMA HoldsTimelyStep ==
    ASSUME LifeInv, PicksTimely, HoldsTimely, [Next]_vars
    PROVE  HoldsTimely'
<1> TypeOK /\ Sequential /\ KnownIds
  BY DEF LifeInv, Accounts
<1>1. ASSUME NEW q \in Procs, pending'[q] = pending[q], pending'[q] # None,
             pending'[q].type = "expired"
      PROVE  Overdue(pending[q].machine, clock)'
  <2>1. pending[q].machine \in Born /\ Overdue(pending[q].machine, clock)
    BY <1>1 DEF KnownIds, HoldsTimely
  <2>2. pending'[q].machine = pending[q].machine
    BY <1>1
  <2> QED
    BY <2>1, <2>2, OverdueStays DEF Overdue
<1>2. ASSUME NEW q \in Procs, NEW id \in Ids,
             NEW type \in QuietEvents, Announcing(q, type, id)
      PROVE  HoldsTimely'
  <2>1. /\ type # "expired"
        /\ type \in {"created"} \cup PowerEvents \cup Obituaries \cup SnapshotEvents
    BY DEF QuietEvents, PowerEvents, SnapshotEvents
  <2>2. /\ pending'[q] = [type |-> type, machine |-> id]
        /\ \A p \in Procs \ {q} : pending'[p] = pending[p]
    BY <1>2, <2>1, AnnouncingType
  <2>3. pending'[q].type = type
    BY <2>2
  <2> QED
    BY <1>1, <2>1, <2>2, <2>3 DEF HoldsTimely
<1>3. ASSUME NEW q \in Procs, NEW id \in Ids, NEW type \in Obituaries,
             Death(q, id, type)
      PROVE  HoldsTimely'
  <2>1. /\ pending'[q].type = type /\ pending'[q].machine = id
        /\ \A p \in Procs \ {q} : pending'[p] = pending[p]
    <3>1. Announcing(q, type, id)
      BY <1>3 DEF Death
    <3>2. /\ pending'[q] = [type |-> type, machine |-> id]
          /\ \A p \in Procs \ {q} : pending'[p] = pending[p]
      BY <3>1, AnnouncingType
    <3> QED
      BY <3>2
  <2>2. type = "expired" => Overdue(id, clock)'
    <3> SUFFICES ASSUME type = "expired" PROVE Overdue(id, clock)'
      OBVIOUS
    <3>1. id \in Born /\ Overdue(id, sweep.now) /\ sweep.now <= clock
      BY <1>3 DEF Death, PicksTimely
    <3>2. sweep.now \in Nat
      BY DEF TypeOK
    <3> QED
      BY <3>1, <3>2, OverdueStays DEF Overdue
  <2> QED
    BY <1>1, <2>1, <2>2 DEF HoldsTimely
<1>4. ASSUME NEW q \in Procs, Publish(q) PROVE HoldsTimely'
  BY <1>1, <1>4, PublishFrame DEF HoldsTimely
<1>5. CASE Quiet
  BY <1>1, <1>5 DEF Quiet, HoldsTimely
<1>6. "created" \in QuietEvents
  BY DEF QuietEvents
<1> QED
  BY <1>2, <1>3, <1>4, <1>5, <1>6, StepShape DEF Birth, Remark

\* An event says that a machine has expired only if it is overdue.
LEMMA NeverEarlyStep ==
    ASSUME LifeInv, HoldsTimely, NeverExpiredEarly, [Next]_vars
    PROVE  NeverExpiredEarly'
<1> TypeOK /\ Sequential /\ KnownIds
  BY DEF LifeInv, Accounts
<1>1. ASSUME NEW i \in 1 .. Len(log), log[i].type = "expired"
      PROVE  Overdue(log[i].machine, clock) /\ log[i].machine \in Born
  BY <1>1 DEF NeverExpiredEarly, KnownIds, Overdue
<1>2. CASE log' = log
  BY <1>1, <1>2, OverdueStays DEF NeverExpiredEarly
<1>3. ASSUME NEW q \in Procs, Publish(q) PROVE NeverExpiredEarly'
  <2>1. /\ pending[q] # None /\ pending[q].machine \in Born
        /\ Len(log) \in Nat /\ Len(log') = Len(log) + 1
        /\ \A i \in 1 .. Len(log) : log'[i] = log[i]
        /\ log'[Len(log) + 1] = pending[q]
    BY <1>3, PublishFrame DEF Publish, TypeOK, KnownIds
  <2>2. pending[q].type = "expired" => Overdue(pending[q].machine, clock)
    BY <2>1 DEF HoldsTimely
  <2>3. ASSUME NEW i \in 1 .. Len(log'), log'[i].type = "expired"
        PROVE  Overdue(log'[i].machine, clock) /\ log'[i].machine \in Born
    <3>1. CASE i = Len(log) + 1
      BY <3>1, <2>1, <2>2, <2>3
    <3>2. CASE i # Len(log) + 1
      <4>1. i \in 1 .. Len(log) /\ log'[i] = log[i]
        BY <3>2, <2>1
      <4> QED
        BY <4>1, <2>3, <1>1
    <3> QED
      BY <3>1, <3>2
  <2> QED
    BY <2>3, OverdueStays DEF NeverExpiredEarly
<1>4. CASE \/ \E q \in Procs, id \in Ids : Birth(q, id)
           \/ \E q \in Procs, id \in Ids, type \in Obituaries : Death(q, id, type)
           \/ \E q \in Procs, id \in Ids, type \in QuietEvents : Remark(q, id, type)
           \/ Quiet
  BY <1>2, <1>4 DEF Birth, Death, Remark, Quiet
<1> QED
  BY <1>3, <1>4, StepShape

\* The reconciler's own steps pick what is due, and nothing due escapes them.
LEMMA SweepTimelyStep ==
    ASSUME LifeInv, Deadlined, PicksTimely, SweepMissesNothing, Sweep
    PROVE  PicksTimely' /\ SweepMissesNothing'
<1> TypeOK /\ KnownIds
  BY DEF LifeInv, Accounts
<1>1. CASE SweepStart
  BY <1>1 DEF SweepStart, PicksTimely, SweepMissesNothing, TypeOK, Machine, Live,
              providerVars, historyVars
<1>2. ASSUME NEW p \in Projects, SweepList(p)
      PROVE  PicksTimely' /\ SweepMissesNothing'
  <2>1. /\ UNCHANGED <<machines, clock, deadline>>
        /\ sweep.active /\ sweep.victims = {}
        /\ sweep'.now = sweep.now
        /\ sweep'.projects = sweep.projects \ {p}
        /\ sweep'.victims = {id \in Live : machines[id].project = p
                                           /\ Due(machines[id], sweep.now)}
    BY <1>2 DEF SweepList, TypeOK, providerVars, historyVars
  <2>2. PicksTimely'
    BY <2>1 DEF PicksTimely, Deadlined, KnownIds, Due, Overdue, Born
  <2>3. SweepMissesNothing'
    BY <2>1 DEF SweepMissesNothing, Due, Live
  <2> QED
    BY <2>2, <2>3
<1>3. ASSUME NEW id \in Ids, SweepDelete(id)
      PROVE  PicksTimely' /\ SweepMissesNothing'
  <2>1. /\ UNCHANGED <<clock, deadline>>
        /\ sweep'.active = sweep.active /\ sweep'.now = sweep.now
        /\ sweep'.projects = sweep.projects
        /\ sweep'.victims = sweep.victims \ {id}
    BY <1>3 DEF SweepDelete, TypeOK, historyVars
  <2>2. /\ Live' = Live \ {id}
        /\ \A x \in Live' : machines'[x] = machines[x]
    BY <1>3, RemoveMachineType DEF SweepDelete, Live, providerVars
  <2>3. PicksTimely'
    BY <2>1 DEF PicksTimely, Overdue, Born
  <2>4. SweepMissesNothing'
    BY <2>1, <2>2 DEF SweepMissesNothing
  <2> QED
    BY <2>3, <2>4
<1>4. CASE SweepEnd
  BY <1>4 DEF SweepEnd, Resting, PicksTimely, SweepMissesNothing, TypeOK,
              providerVars, historyVars
<1> QED
  BY <1>1, <1>2, <1>3, <1>4 DEF Sweep

\* While the reconciler stands still nothing becomes due that its pass looks for.
LEMMA OthersTimelyStep ==
    ASSUME LifeInv, PicksTimely, SweepMissesNothing, [Next]_vars, sweep' = sweep
    PROVE  PicksTimely' /\ SweepMissesNothing'
<1> TypeOK /\ KnownIds
  BY DEF LifeInv, Accounts
<1>1. PicksTimely'
  <2>1. sweep.now \in Nat
    BY DEF TypeOK
  <2>2. sweep'.now <= clock'
    BY <2>1, TimePasses DEF PicksTimely
  <2>3. ASSUME NEW id \in sweep'.victims
        PROVE  id \in Born' /\ Overdue(id, sweep.now)'
    BY <2>3, TimePasses DEF PicksTimely, Overdue
  <2> QED
    BY <2>2, <2>3 DEF PicksTimely
<1>2. ASSUME Keeps PROVE SweepMissesNothing'
  BY <1>2 DEF Keeps, SweepMissesNothing
<1>3. ASSUME NEW id \in Ids, NEW p \in Projects, NEW n \in Names, NEW ttl \in TTLs,
             Adds(id, p, n, ttl)
      PROVE  SweepMissesNothing'
  <2>1. /\ Live' = Live \cup {id}
        /\ machines'[id].expires = ExpiresAt(ttl)
        /\ \A x \in Live \ {id} : machines'[x] = machines[x]
    BY <1>3 DEF Adds
  <2>2. ~(ExpiresAt(ttl) # None /\ ExpiresAt(ttl) <= sweep.now)
    <3>1. sweep.now \in Nat /\ clock \in Nat /\ sweep.now <= clock
      BY DEF TypeOK, PicksTimely
    <3> QED
      BY <3>1, NewIsNotDue
  <2> QED
    BY <2>1, <2>2 DEF SweepMissesNothing
<1> QED
  BY <1>1, <1>2, <1>3, MachinesStep

\* Only the reconciler moves its pass.
LEMMA SweepFrame ==
    ASSUME [Next]_vars
    PROVE  Sweep \/ sweep' = sweep
BY DEF Next, Handler, CreateMachine, MachineAction, DeleteMachineGet, DeleteMachine,
       SnapshotMachine, RestoreSnapshot, DeleteSnapshot, Publish, Tick, vars

\* The inductive invariant holds throughout.
LEMMA TimelyInvariant == Spec => []TimelyInv
<1>1. Init => TimelyInv
  <2> SUFFICES ASSUME Init PROVE Timely
    BY InitLife DEF TimelyInv
  <2>1. /\ Live = {} /\ Len(log) = 0 /\ clock = 0 /\ sweep = Resting
        /\ \A q \in Procs : pending[q] = None
    BY DEF Init, Live
  <2> QED
    BY <2>1 DEF Timely, Deadlined, PicksTimely, HoldsTimely, NeverExpiredEarly,
                SweepMissesNothing, Resting
<1>2. TimelyInv /\ [Next]_vars => TimelyInv'
  <2> SUFFICES ASSUME LifeInv, Timely, [Next]_vars PROVE Timely'
    BY NextTypeOK, SequentialStep, AccountsStep DEF TimelyInv, LifeInv
  <2> TypeOK /\ KnownIds
    BY DEF LifeInv, Accounts
  <2>1. Deadlined'
    BY DeadlinedStep DEF Timely
  <2>2. HoldsTimely' /\ NeverExpiredEarly'
    BY HoldsTimelyStep, NeverEarlyStep DEF Timely
  <2>3. PicksTimely' /\ SweepMissesNothing'
    BY SweepFrame, SweepTimelyStep, OthersTimelyStep DEF Timely
  <2> QED
    BY <2>1, <2>2, <2>3 DEF Timely
<1> QED
  BY <1>1, <1>2, PTL DEF Spec

\* No machine is announced as expired before its deadline, or without having one,
\* although runOnce reads the clock once and publishes long after.
THEOREM NeverExpiredEarlyAlways == Spec => []NeverExpiredEarly
<1>1. TimelyInv => NeverExpiredEarly
  BY DEF TimelyInv, Timely
<1> QED
  BY <1>1, TimelyInvariant, PTL

\* A pass of the reconciler leaves no machine that was due when it began, for any
\* number of projects, and whatever handlers create and delete meanwhile.
THEOREM SweepMissesNothingAlways == Spec => []SweepMissesNothing
<1>1. TimelyInv => SweepMissesNothing
  BY DEF TimelyInv, Timely
<1> QED
  BY <1>1, TimelyInvariant, PTL

-----------------------------------------------------------------------------
(***************************************************************************)
(* What the events tell of a machine's power.  The order in which two      *)
(* goroutines publish is not the order in which they changed the machine,  *)
(* so what has to be invariant is that, of a machine that no two requests  *)
(* raced for, one goroutine at most holds a started or stopped event, and  *)
(* that this event tells the machine's state.                              *)
(***************************************************************************)

\* Only requests start and stop machines.
SweeperHasNoSay == \A id \in Ids : ~HoldsPowerEvent(Sweeper, id)

OneSpeaker ==
    \A id \in Live \ raced, q \in Procs :
        HoldsPowerEvent(q, id) =>
            /\ Tells(pending[q].type, id)
            /\ \A p \in Procs : HoldsPowerEvent(p, id) => p = q

PowerInv == LifeInv /\ SweeperHasNoSay /\ OneSpeaker /\ PowerEventsAgree

\* A step that neither switches a machine on or off nor publishes: the machines
\* it leaves keep their state, a new one runs, and what goroutines have to say of
\* power is what they had to say before.
LeavesPower ==
    /\ \A x \in Live' : IF x \in Live THEN machines'[x].state = machines[x].state
                        ELSE x \notin Born /\ machines'[x].state = "running"
    /\ \A q \in Procs, x \in Ids :
          /\ HoldsPowerEvent(q, x)' <=> HoldsPowerEvent(q, x)
          /\ HoldsPowerEvent(q, x) => pending'[q] = pending[q]
    /\ log' = log /\ raced' = raced

\* An event of another kind says nothing of power.
LEMMA OtherEventFrame ==
    ASSUME TypeOK, NEW q \in Procs, NEW id \in Ids, pending[q] = None,
           NEW type \in {"created"} \cup Obituaries \cup SnapshotEvents,
           Announcing(q, type, id)
    PROVE  \A p \in Procs, x \in Ids :
              /\ HoldsPowerEvent(p, x)' <=> HoldsPowerEvent(p, x)
              /\ HoldsPowerEvent(p, x) => pending'[p] = pending[p]
<1>1. /\ pending'[q] = [type |-> type, machine |-> id]
      /\ \A p \in Procs \ {q} : pending'[p] = pending[p]
  BY AnnouncingType
<1>2. pending'[q].type = type /\ type \notin PowerEvents
  BY <1>1 DEF PowerEvents, Obituaries, SnapshotEvents
<1> QED
  BY <1>1, <1>2 DEF HoldsPowerEvent, IsPowerEvent

\* A removal changes no other machine's state.
LEMMA RemovalLeavesPower ==
    ASSUME TypeOK, NEW q \in Procs, NEW id \in Ids, NEW type \in Obituaries,
           pending[q] = None, RemoveMachine(id), Announcing(q, type, id),
           UNCHANGED <<log, raced>>
    PROVE  LeavesPower
BY RemoveMachineType, OtherEventFrame DEF LeavesPower, Live

\* Every step of a handler but a start or a stop leaves power alone.
LEMMA HandlerLeavesPower ==
    ASSUME LifeInv, NEW r \in Requests, Handler(r)
    PROVE  \/ LeavesPower
           \/ \E id \in Ids, type \in PowerEvents : MachineAction(r, id, type)
<1> r \in Procs /\ TypeOK /\ Sequential
  BY DEF Procs, LifeInv
<1>1. ASSUME machines' = machines, UNCHANGED <<log, raced, pending>>
      PROVE  LeavesPower
  BY <1>1 DEF LeavesPower, HoldsPowerEvent, Live
<1>2. ASSUME NEW id \in Ids, NEW type \in SnapshotEvents, Admitted(r),
             Announcing(r, type, id), UNCHANGED <<machines, log, historyVars>>
      PROVE  LeavesPower
  BY <1>2, OtherEventFrame DEF LeavesPower, Admitted, Idle, Live, historyVars
<1>3. ASSUME NEW p \in Projects, NEW n \in Names, NEW ttl \in TTLs,
             CreateMachine(r, p, n, ttl)
      PROVE  LeavesPower
  <2>1. PICK id \in Ids : Adds(id, p, n, ttl) /\ Announcing(r, "created", id)
    BY <1>3, CreateAdds
  <2>2. pending[r] = None /\ raced' = raced
    BY <1>3 DEF CreateMachine, Admitted, Idle
  <2>3. \A x \in Live' : IF x \in Live THEN machines'[x].state = machines[x].state
                        ELSE x \notin Born /\ machines'[x].state = "running"
    <3>1. /\ Live' = Live \cup {id} /\ id \notin Born
          /\ machines'[id].state = "running"
          /\ \A x \in Live \ {id} : machines'[x] = machines[x]
      BY <2>1 DEF Adds
    <3>2. id \notin Live
      BY <3>1 DEF LifeInv, Accounts, KnownIds
    <3> QED
      BY <3>1, <3>2
  <2>4. log' = log
    BY <2>1 DEF Adds
  <2> QED
    BY <2>1, <2>2, <2>3, <2>4, OtherEventFrame DEF LeavesPower
<1>4. ASSUME DeleteMachine(r) PROVE LeavesPower
  <2>1. target[r] \in Ids /\ pending[r] = None /\ UNCHANGED <<log, raced>>
    BY <1>4 DEF DeleteMachine, TypeOK, Sequential, historyVars
  <2>2. CASE RemoveMachine(target[r]) /\ Announcing(r, "deleted", target[r])
    BY <2>1, <2>2, RemovalLeavesPower DEF Obituaries
  <2>3. CASE UNCHANGED <<providerVars, pending>>
    BY <1>1, <2>1, <2>3 DEF providerVars
  <2> QED
    BY <1>4, <2>2, <2>3 DEF DeleteMachine
<1>5. ASSUME NEW id \in Ids, DeleteMachineGet(r, id) PROVE LeavesPower
  BY <1>1, <1>5 DEF DeleteMachineGet, historyVars
<1> QED
  BY <1>2, <1>3, <1>4, <1>5
     DEF Handler, SnapshotMachine, RestoreSnapshot, DeleteSnapshot, SnapshotEvents

\* Every step leaves power alone, switches a machine on or off, or publishes.
LEMMA PowerShape ==
    ASSUME LifeInv, [Next]_vars
    PROVE  \/ LeavesPower
           \/ \E r \in Requests, id \in Ids, type \in PowerEvents :
                 MachineAction(r, id, type)
           \/ \E q \in Procs : Publish(q)
<1> TypeOK
  BY DEF LifeInv
<1>1. ASSUME machines' = machines, UNCHANGED <<log, raced, pending>>
      PROVE  LeavesPower
  BY <1>1 DEF LeavesPower, HoldsPowerEvent, Live
<1>2. ASSUME NEW id \in Ids, SweepDelete(id) PROVE LeavesPower
  <2>1. CASE RemoveMachine(id) /\ Announcing(Sweeper, "expired", id)
    BY <1>2, <2>1, RemovalLeavesPower DEF SweepDelete, Procs, Obituaries, historyVars
  <2>2. CASE UNCHANGED <<providerVars, pending>>
    BY <1>1, <1>2, <2>2 DEF SweepDelete, providerVars, historyVars
  <2> QED
    BY <1>2, <2>1, <2>2 DEF SweepDelete
<1>3. CASE Sweep
  BY <1>1, <1>2, <1>3
     DEF Sweep, SweepStart, SweepList, SweepEnd, providerVars, historyVars
<1>4. CASE Tick \/ UNCHANGED vars
  BY <1>1, <1>4 DEF Tick, vars, providerVars, historyVars
<1> QED
  BY <1>3, <1>4, HandlerLeavesPower DEF Next

\* What the events so far tell of a machine changes with the events, or with the
\* machine's state.
LEMMA LogTellsFrame ==
    ASSUME NEW x, log' = log, machines'[x].state = machines[x].state
    PROVE  LogTells(x)' <=> LogTells(x)
BY DEF LogTells, Tells

\* Of a machine never handed out there are no events.
LEMMA NewLogTells ==
    ASSUME LifeInv, NEW x, x \notin Born, log' = log, machines'[x].state = "running"
    PROVE  LogTells(x)' /\ \A q \in Procs : ~HoldsPowerEvent(q, x)
BY DEF LifeInv, Accounts, KnownIds, LogTells, HoldsPowerEvent, IsPowerEvent

\* A step that leaves power alone keeps the invariant.
LEMMA LeavesPowerStep ==
    ASSUME PowerInv, LeavesPower, TypeOK'
    PROVE  SweeperHasNoSay' /\ OneSpeaker' /\ PowerEventsAgree'
<1> /\ Sweeper \in Procs /\ Live' \subseteq Ids /\ log' = log /\ raced' = raced
    /\ LifeInv
  BY DEF Procs, TypeOK, Live, LeavesPower, PowerInv
<1>1. SweeperHasNoSay'
  BY DEF PowerInv, SweeperHasNoSay, LeavesPower
<1>2. ASSUME NEW x \in Live' \ raced', x \in Live
      PROVE  /\ LogTells(x)' \/ \E q \in Procs : HoldsPowerEvent(q, x)'
             /\ \A q \in Procs : HoldsPowerEvent(q, x)' =>
                   /\ Tells(pending[q].type, x)'
                   /\ \A p \in Procs : HoldsPowerEvent(p, x)' => p = q
  <2>1. machines'[x].state = machines[x].state
    BY <1>2 DEF LeavesPower
  <2> QED
    BY <1>2, <2>1, LogTellsFrame
       DEF LeavesPower, PowerInv, OneSpeaker, PowerEventsAgree, Tells
<1>3. ASSUME NEW x \in Live', x \notin Live
      PROVE  LogTells(x)' /\ \A q \in Procs : ~HoldsPowerEvent(q, x)'
  <2>1. x \notin Born /\ machines'[x].state = "running"
    BY <1>3 DEF LeavesPower
  <2> QED
    BY <1>3, <2>1, NewLogTells DEF LeavesPower
<1> QED
  BY <1>1, <1>2, <1>3 DEF OneSpeaker, PowerEventsAgree

\* A start or stop keeps it: if another request still holds an event of the
\* machine, the machine is one that was raced for.
LEMMA MachineActionPower ==
    ASSUME PowerInv, NEW r \in Requests, NEW id \in Ids, NEW type \in PowerEvents,
           MachineAction(r, id, type)
    PROVE  SweeperHasNoSay' /\ OneSpeaker' /\ PowerEventsAgree'
<1> /\ TypeOK /\ r \in Procs /\ r # Sweeper /\ Sweeper \in Procs
    /\ id \in Live /\ pending[r] = None /\ log' = log
  BY SweeperAssumption
     DEF PowerInv, LifeInv, Procs, MachineAction, Admitted, Idle
<1>1. /\ pending'[r] # None /\ pending'[r].type = type /\ pending'[r].machine = id
      /\ \A q \in Procs \ {r} : pending'[q] = pending[q]
  <2>1. pending'[r] = [type |-> type, machine |-> id] /\ pending'[r] # None
        /\ \A q \in Procs \ {r} : pending'[q] = pending[q]
    BY AnnouncingType DEF MachineAction
  <2> QED
    BY <2>1
<1>2. /\ Live' = Live
      /\ \A x \in Live \ {id} : machines'[x].state = machines[x].state
      /\ machines'[id].state = IF type = "started" THEN "running" ELSE "stopped"
  BY DEF MachineAction, TypeOK, Live, Machine
<1>3. /\ HoldsPowerEvent(r, id)'
      /\ \A q \in Procs, x \in Ids : q # r \/ x # id =>
            (HoldsPowerEvent(q, x)' <=> HoldsPowerEvent(q, x))
  BY <1>1 DEF HoldsPowerEvent, IsPowerEvent
<1>4. raced \subseteq raced' /\ (id \notin raced' => ~PowerEventPending(r, id))
  BY DEF MachineAction
<1>5. SweeperHasNoSay'
  BY <1>3 DEF PowerInv, SweeperHasNoSay
<1>6. id \notin raced' => \A q \in Procs : HoldsPowerEvent(q, id)' => q = r
  <2> SUFFICES ASSUME NEW q \in Procs \ {r}, HoldsPowerEvent(q, id)
               PROVE  PowerEventPending(r, id)
    BY <1>3, <1>4
  <2>1. q \in Requests
    BY DEF Procs, PowerInv, SweeperHasNoSay
  <2> QED
    BY <2>1 DEF PowerEventPending, HoldsPowerEvent, IsPowerEvent
<1>7. Tells(pending[r].type, id)'
  BY <1>1, <1>2 DEF Tells, PowerEvents
<1>8. ASSUME NEW x \in Live \ raced', x # id
      PROVE  /\ LogTells(x)' \/ \E q \in Procs : HoldsPowerEvent(q, x)'
             /\ \A q \in Procs : HoldsPowerEvent(q, x)' =>
                   /\ Tells(pending[q].type, x)'
                   /\ \A p \in Procs : HoldsPowerEvent(p, x)' => p = q
  <2>1. x \in Ids /\ x \in Live \ raced
    BY <1>4, <1>8 DEF TypeOK, Live
  <2>2. /\ \A q \in Procs : /\ HoldsPowerEvent(q, x)' <=> HoldsPowerEvent(q, x)
                            /\ HoldsPowerEvent(q, x) => q # r
        /\ LogTells(x)' <=> LogTells(x)
    BY <1>2, <1>3, <1>8, <2>1, LogTellsFrame DEF HoldsPowerEvent
  <2> QED
    BY <1>1, <1>2, <1>8, <2>1, <2>2
       DEF PowerInv, OneSpeaker, PowerEventsAgree, Tells
<1> QED
  BY <1>2, <1>3, <1>5, <1>6, <1>7, <1>8 DEF OneSpeaker, PowerEventsAgree

\* Publish keeps it: the event becomes the last one, and nobody holds another.
LEMMA PublishPower ==
    ASSUME PowerInv, NEW q \in Procs, Publish(q)
    PROVE  SweeperHasNoSay' /\ OneSpeaker' /\ PowerEventsAgree'
<1> DEFINE n == Len(log)
<1> TypeOK /\ n \in Nat /\ Sweeper \in Procs /\ pending[q] # None
  BY DEF PowerInv, LifeInv, TypeOK, Procs, Publish
<1>1. /\ Len(log') = n + 1 /\ log'[n + 1] = pending[q]
      /\ \A i \in 1 .. n : log'[i] = log[i]
      /\ \A p \in Procs : pending'[p] = IF p = q THEN None ELSE pending[p]
      /\ machines' = machines /\ raced' = raced
  BY PublishFrame DEF Publish, historyVars
<1>2. \A p \in Procs : \A x : HoldsPowerEvent(p, x)' <=> p # q /\ HoldsPowerEvent(p, x)
  BY <1>1 DEF HoldsPowerEvent
<1>3. SweeperHasNoSay'
  BY <1>2 DEF PowerInv, SweeperHasNoSay
<1>4. OneSpeaker'
  <2> SUFFICES ASSUME NEW x \in Live \ raced, NEW p \in Procs, p # q,
                      HoldsPowerEvent(p, x)
               PROVE  /\ Tells(pending[p].type, x)'
                      /\ \A o \in Procs : HoldsPowerEvent(o, x) => o = p
    BY <1>1, <1>2 DEF OneSpeaker, Live
  <2> QED
    BY <1>1 DEF PowerInv, OneSpeaker, Tells
<1>5. ASSUME NEW x \in Live \ raced, HoldsPowerEvent(q, x)
      PROVE  LogTells(x)'
  <2>1. Tells(pending[q].type, x) /\ IsPowerEvent(pending[q], x)
    BY <1>5 DEF PowerInv, OneSpeaker, HoldsPowerEvent
  <2>2. n + 1 \in {i \in 1 .. Len(log') : IsPowerEvent(log'[i], x)}
    BY <1>1, <2>1
  <2>3. log'[n + 1].type = "started" <=> machines'[x].state = "running"
    BY <1>1, <2>1 DEF Tells
  <2>4. \A j \in 1 .. Len(log') : j <= n + 1
    BY <1>1
  <2> QED
    BY <2>2, <2>3, <2>4 DEF LogTells, Tells
<1>6. ASSUME NEW x \in Live \ raced, ~HoldsPowerEvent(q, x), LogTells(x)
      PROVE  LogTells(x)'
  <2> DEFINE told == {i \in 1 .. n : IsPowerEvent(log[i], x)}
  <2>1. ~IsPowerEvent(log'[n + 1], x)
    BY <1>1, <1>6 DEF HoldsPowerEvent
  <2>2. {i \in 1 .. Len(log') : IsPowerEvent(log'[i], x)} = told
    <3>1. 1 .. Len(log') = (1 .. n) \cup {n + 1}
      BY <1>1
    <3> QED
      BY <1>1, <2>1, <3>1
  <2>3. \A i \in told : log'[i] = log[i]
    BY <1>1
  <2>4. CASE told = {}
    BY <1>1, <1>6, <2>2, <2>4 DEF LogTells
  <2>5. CASE told # {}
    <3>1. PICK i \in told : (\A j \in told : j <= i) /\ Tells(log[i].type, x)
      BY <1>6, <2>5 DEF LogTells
    <3>2. log'[i].type = "started" <=> machines'[x].state = "running"
      BY <1>1, <2>3, <3>1 DEF Tells
    <3> QED
      BY <2>2, <2>5, <3>1, <3>2 DEF LogTells, Tells
  <2> QED
    BY <2>4, <2>5
<1>7. PowerEventsAgree'
  BY <1>1, <1>2, <1>5, <1>6 DEF PowerInv, PowerEventsAgree, Live
<1> QED
  BY <1>3, <1>4, <1>7

\* The last started or stopped event of a live machine agrees with its state, for
\* any number of concurrent requests, unless such an event is still on its way or
\* two of these requests overlapped (machineAction calls the provider under its
\* mutex and Publish after it).
THEOREM PowerEventsAgreeAlways == Spec => []PowerEventsAgree
<1>1. Init => PowerInv
  <2> SUFFICES ASSUME Init PROVE SweeperHasNoSay /\ OneSpeaker /\ PowerEventsAgree
    BY InitLife DEF PowerInv
  <2>1. Live = {} /\ \A q \in Procs : pending[q] = None
    BY DEF Init, Live
  <2> QED
    BY <2>1 DEF SweeperHasNoSay, OneSpeaker, PowerEventsAgree, HoldsPowerEvent, Procs
<1>2. PowerInv /\ [Next]_vars => PowerInv'
  <2> SUFFICES ASSUME PowerInv, [Next]_vars PROVE PowerInv'
    OBVIOUS
  <2>1. LifeInv /\ LifeInv' /\ TypeOK'
    BY NextTypeOK, SequentialStep, AccountsStep DEF PowerInv, LifeInv
  <2>2. SweeperHasNoSay' /\ OneSpeaker' /\ PowerEventsAgree'
    BY <2>1, PowerShape, LeavesPowerStep, MachineActionPower, PublishPower
  <2> QED
    BY <2>1, <2>2 DEF PowerInv
<1>3. PowerInv => PowerEventsAgree
  BY DEF PowerInv
<1> QED
  BY <1>1, <1>2, <1>3, PTL DEF Spec

=============================================================================
