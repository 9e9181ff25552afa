------------------------- MODULE ControlPlaneProofs -------------------------
(***************************************************************************)
(* Theorems about ControlPlane, for every set of projects, names, IDs and  *)
(* handlers and every bound.                                               *)
(***************************************************************************)
EXTENDS ControlPlane, TLAPS

-----------------------------------------------------------------------------
\* Facts about the maps.

\* Putting a value of the right kind under a key keeps a map well typed.
LEMMA WithType ==
    ASSUME NEW S, NEW f, f \in [DOMAIN f -> S], NEW k, NEW v \in S
    PROVE  With(f, k, v) \in [DOMAIN f \cup {k} -> S]
BY DEF With

\* Taking keys out of a map leaves the other entries alone.
LEMMA WithoutType ==
    ASSUME NEW S, NEW f, f \in [DOMAIN f -> S], NEW ks
    PROVE  Without(f, ks) \in [DOMAIN f \ ks -> S]
BY DEF Without

\* A new machine's deadline is a deadline.
LEMMA ExpiresAtType ==
    ASSUME TypeOK, NEW ttl \in TTLs
    PROVE  ExpiresAt(ttl) \in Deadlines
BY BoundsAssumption DEF ExpiresAt, Deadlines, TypeOK

\* What a removal does to the provider's maps, whatever its cause.
LEMMA RemoveMachineType ==
    ASSUME TypeOK, NEW id \in Ids, RemoveMachine(id)
    PROVE  /\ DOMAIN machines' = DOMAIN machines \ {id}
           /\ machines' \in [DOMAIN machines' -> Machine]
           /\ \A x \in DOMAIN machines' : machines'[x] = machines[x]
           /\ DOMAIN snapshots' = DOMAIN snapshots \ SnapshotsOf(id)
           /\ snapshots' \in [DOMAIN snapshots' -> Snapshot]
           /\ \A x \in DOMAIN snapshots' : snapshots'[x] = snapshots[x]
           /\ nextIP' = nextIP
<1>1. /\ machines' = Without(machines, {id})
      /\ snapshots' = Without(snapshots, SnapshotsOf(id))
      /\ nextIP' = nextIP
  BY DEF RemoveMachine
<1>2. /\ machines' \in [DOMAIN machines \ {id} -> Machine]
      /\ snapshots' \in [DOMAIN snapshots \ SnapshotsOf(id) -> Snapshot]
  BY <1>1, WithoutType DEF TypeOK
<1>3. /\ \A x \in DOMAIN machines \ {id} : machines'[x] = machines[x]
      /\ \A x \in DOMAIN snapshots \ SnapshotsOf(id) : snapshots'[x] = snapshots[x]
  BY <1>1 DEF Without
<1> QED
  BY <1>1, <1>2, <1>3

\* An event about to be published is an event.
LEMMA AnnouncingType ==
    ASSUME TypeOK, NEW q \in Procs, NEW id \in Ids,
           NEW type \in {"created"} \cup PowerEvents \cup Obituaries \cup SnapshotEvents,
           Announcing(q, type, id)
    PROVE  /\ pending' \in [Procs -> Event \cup {None}]
           /\ pending'[q] = [type |-> type, machine |-> id]
           /\ pending'[q] # None
           /\ \A p \in Procs \ {q} : pending'[p] = pending[p]
<1>1. [type |-> type, machine |-> id] \in Event
  BY DEF Event
<1> QED
  BY <1>1, NoneAssumption DEF TypeOK, Announcing

-----------------------------------------------------------------------------
\* Type correctness.

\* The initial values have their types.
LEMMA InitTypeOK == Init => TypeOK
<1> SUFFICES ASSUME Init PROVE TypeOK
  OBVIOUS
<1>1. DOMAIN machines = {} /\ DOMAIN snapshots = {} /\ DOMAIN deadline = {}
  BY DEF Init
<1>2. /\ machines \in [DOMAIN machines -> Machine]
      /\ snapshots \in [DOMAIN snapshots -> Snapshot]
      /\ deadline \in [DOMAIN deadline -> Deadlines]
  BY <1>1 DEF Init
<1> QED
  BY <1>1, <1>2 DEF Init, TypeOK, Resting

\* Every step of a handler keeps the types.
LEMMA HandlerTypeOK ==
    ASSUME TypeOK, NEW r \in Requests, Handler(r)
    PROVE  TypeOK'
<1> r \in Procs
  BY DEF Procs
<1>1. ASSUME NEW p \in Projects, NEW n \in Names, NEW ttl \in TTLs,
             CreateMachine(r, p, n, ttl)
      PROVE  TypeOK'
  <2>1. PICK id \in Ids \ DOMAIN deadline :
          /\ machines' = With(machines, id,
                              [project |-> p, name |-> n, state |-> "running",
                               ip |-> nextIP, expires |-> ExpiresAt(ttl)])
          /\ deadline' = With(deadline, id, ExpiresAt(ttl))
          /\ Announcing(r, "created", id)
    BY <1>1 DEF CreateMachine
  <2>2. [project |-> p, name |-> n, state |-> "running",
         ip |-> nextIP, expires |-> ExpiresAt(ttl)] \in Machine
    BY ExpiresAtType DEF Machine, TypeOK
  <2>3. /\ DOMAIN machines' \subseteq Ids /\ machines' \in [DOMAIN machines' -> Machine]
        /\ DOMAIN deadline' \subseteq Ids /\ deadline' \in [DOMAIN deadline' -> Deadlines]
    <3>1. /\ machines' \in [DOMAIN machines \cup {id} -> Machine]
          /\ deadline' \in [DOMAIN deadline \cup {id} -> Deadlines]
      BY <2>1, <2>2, ExpiresAtType, WithType DEF TypeOK
    <3> QED
      BY <3>1 DEF TypeOK
  <2>4. pending' \in [Procs -> Event \cup {None}]
    BY <2>1, AnnouncingType
  <2> QED
    BY <1>1, <2>3, <2>4 DEF CreateMachine, TypeOK
<1>2. ASSUME NEW id \in Ids, NEW type \in PowerEvents, MachineAction(r, id, type)
      PROVE  TypeOK'
  <2>1. pending' \in [Procs -> Event \cup {None}]
    BY <1>2, AnnouncingType DEF MachineAction
  <2>2. DOMAIN machines' = DOMAIN machines /\ machines' \in [DOMAIN machines' -> Machine]
    BY <1>2 DEF MachineAction, TypeOK, Machine, Live
  <2> QED
    BY <1>2, <2>1, <2>2 DEF MachineAction, TypeOK
<1>3. ASSUME NEW id \in Ids, DeleteMachineGet(r, id)
      PROVE  TypeOK'
  BY <1>3 DEF DeleteMachineGet, TypeOK, historyVars
<1>4. ASSUME DeleteMachine(r)
      PROVE  TypeOK'
  <2>1. target[r] \in Ids
    BY <1>4 DEF DeleteMachine, TypeOK
  <2>2. CASE target[r] \in Live /\ RemoveMachine(target[r])
             /\ Announcing(r, "deleted", target[r])
    BY <1>4, <2>1, <2>2, RemoveMachineType, AnnouncingType
       DEF DeleteMachine, TypeOK, historyVars, Obituaries
  <2>3. CASE UNCHANGED <<providerVars, pending>>
    BY <1>4, <2>3 DEF DeleteMachine, TypeOK, historyVars, providerVars
  <2> QED
    BY <1>4, <2>2, <2>3 DEF DeleteMachine
<1>5. ASSUME NEW id \in Ids, SnapshotMachine(r, id)
      PROVE  TypeOK'
  <2>1. PICK s \in SnapIds \ DOMAIN snapshots :
          snapshots' = With(snapshots, s, [machine |-> id, state |-> "ready"])
    BY <1>5 DEF SnapshotMachine
  <2>2. [machine |-> id, state |-> "ready"] \in Snapshot
    BY DEF Snapshot
  <2>3. DOMAIN snapshots' \subseteq SnapIds /\ snapshots' \in [DOMAIN snapshots' -> Snapshot]
    <3>1. snapshots' \in [DOMAIN snapshots \cup {s} -> Snapshot]
      BY <2>1, <2>2, WithType DEF TypeOK
    <3> QED
      BY <3>1 DEF TypeOK
  <2>4. pending' \in [Procs -> Event \cup {None}]
    BY <1>5, AnnouncingType DEF SnapshotMachine, SnapshotEvents
  <2> QED
    BY <1>5, <2>3, <2>4 DEF SnapshotMachine, TypeOK, historyVars
<1>6. ASSUME NEW id \in Ids, NEW s \in SnapIds, RestoreSnapshot(r, id, s)
      PROVE  TypeOK'
  <2>1. pending' \in [Procs -> Event \cup {None}]
    BY <1>6, AnnouncingType DEF RestoreSnapshot, SnapshotEvents
  <2>2. DOMAIN snapshots' = DOMAIN snapshots /\ snapshots' \in [DOMAIN snapshots' -> Snapshot]
    BY <1>6 DEF RestoreSnapshot, TypeOK, Snapshot, SnapshotsOf
  <2> QED
    BY <1>6, <2>1, <2>2 DEF RestoreSnapshot, TypeOK, historyVars
<1>7. ASSUME NEW id \in Ids, NEW s \in SnapIds, DeleteSnapshot(r, id, s)
      PROVE  TypeOK'
  <2>1. pending' \in [Procs -> Event \cup {None}]
    BY <1>7, AnnouncingType DEF DeleteSnapshot, SnapshotEvents
  <2>2. DOMAIN snapshots' \subseteq SnapIds /\ snapshots' \in [DOMAIN snapshots' -> Snapshot]
    <3>1. snapshots' \in [DOMAIN snapshots \ {s} -> Snapshot]
      BY <1>7, WithoutType DEF DeleteSnapshot, TypeOK
    <3> QED
      BY <3>1 DEF TypeOK
  <2> QED
    BY <1>7, <2>1, <2>2 DEF DeleteSnapshot, TypeOK, historyVars
<1> QED
  BY <1>1, <1>2, <1>3, <1>4, <1>5, <1>6, <1>7 DEF Handler

\* Every step of the reconciler keeps the types.
LEMMA SweepTypeOK == TypeOK /\ Sweep => TypeOK'
<1> SUFFICES ASSUME TypeOK, Sweep PROVE TypeOK'
  OBVIOUS
<1> Sweeper \in Procs
  BY DEF Procs
<1>1. CASE SweepStart
  BY <1>1 DEF SweepStart, TypeOK, providerVars, historyVars
<1>2. ASSUME NEW p \in Projects, SweepList(p)
      PROVE  TypeOK'
  <2>1. {id \in Live : machines[id].project = p /\ Due(machines[id], sweep.now)}
          \in SUBSET Ids
    BY DEF TypeOK, Live
  <2> QED
    BY <1>2, <2>1 DEF SweepList, TypeOK, providerVars, historyVars
<1>3. ASSUME NEW id \in Ids, SweepDelete(id)
      PROVE  TypeOK'
  <2>1. sweep' \in [active : BOOLEAN, now : Nat, projects : SUBSET Projects,
                    victims : SUBSET Ids]
    BY <1>3 DEF SweepDelete, TypeOK
  <2>2. CASE RemoveMachine(id) /\ Announcing(Sweeper, "expired", id)
    BY <1>3, <2>1, <2>2, RemoveMachineType, AnnouncingType
       DEF SweepDelete, TypeOK, historyVars, Obituaries
  <2>3. CASE UNCHANGED <<providerVars, pending>>
    BY <1>3, <2>1, <2>3 DEF SweepDelete, TypeOK, historyVars, providerVars
  <2> QED
    BY <1>3, <2>2, <2>3 DEF SweepDelete
<1>4. CASE SweepEnd
  BY <1>4 DEF SweepEnd, Resting, TypeOK, providerVars, historyVars
<1> QED
  BY <1>1, <1>2, <1>3, <1>4 DEF Sweep

\* Every step keeps the types.
LEMMA NextTypeOK == TypeOK /\ [Next]_vars => TypeOK'
<1> SUFFICES ASSUME TypeOK, [Next]_vars PROVE TypeOK'
  OBVIOUS
<1>1. ASSUME NEW r \in Requests, Handler(r) PROVE TypeOK'
  BY <1>1, HandlerTypeOK
<1>2. CASE Sweep
  BY <1>2, SweepTypeOK
<1>3. ASSUME NEW q \in Procs, Publish(q) PROVE TypeOK'
  <2>1. pending[q] \in Event
    BY <1>3 DEF Publish, TypeOK
  <2> QED
    BY <1>3, <2>1 DEF Publish, TypeOK, historyVars
<1>4. CASE Tick
  BY <1>4 DEF Tick, TypeOK, providerVars, historyVars
<1>5. CASE UNCHANGED vars
  BY <1>5 DEF vars, TypeOK
<1> QED
  BY <1>1, <1>2, <1>3, <1>4, <1>5 DEF Next

\* The types hold in every reachable state.
THEOREM TypeCorrect == Spec => []TypeOK
BY InitTypeOK, NextTypeOK, PTL DEF Spec


-----------------------------------------------------------------------------
(***************************************************************************)
(* The shape of a step.  For births, deaths and announcements only four    *)
(* kinds of step differ, and every later proof splits on these.            *)
(***************************************************************************)

QuietEvents == {"created"} \cup PowerEvents \cup SnapshotEvents

\* q creates the machine id.
Birth(q, id) ==
    /\ id \in Ids \ Born
    /\ DOMAIN machines' = Live \cup {id}
    /\ DOMAIN deadline' = Born \cup {id}
    /\ \A x \in Born : deadline'[x] = deadline[x]
    /\ pending[q] = None
    /\ Announcing(q, "created", id)
    /\ log' = log

\* q removes the machine id and will say so.
Death(q, id, type) ==
    /\ id \in Live
    /\ DOMAIN machines' = Live \ {id}
    /\ deadline' = deadline
    /\ pending[q] = None
    /\ Announcing(q, type, id)
    /\ log' = log
    /\ type = "expired" => q = Sweeper /\ id \in sweep.victims

\* q has something else to say about the live machine id.
Remark(q, id, type) ==
    /\ id \in Live
    /\ DOMAIN machines' = Live
    /\ deadline' = deadline
    /\ pending[q] = None
    /\ Announcing(q, type, id)
    /\ log' = log

\* Nobody is born, dies or is spoken of.
Quiet ==
    /\ DOMAIN machines' = Live
    /\ UNCHANGED <<deadline, pending, log>>

\* A handler between deleteMachine's two calls has nothing to publish yet.
Sequential == \A r \in Requests : target[r] # None => pending[r] = None

\* A step of a handler is a birth, a death, a remark on a live machine, or quiet.
LEMMA HandlerShape ==
    ASSUME TypeOK, Sequential, NEW r \in Requests, Handler(r)
    PROVE  \/ \E id \in Ids : Birth(r, id)
           \/ \E id \in Ids : Death(r, id, "deleted")
           \/ \E id \in Ids, type \in QuietEvents : Remark(r, id, type)
           \/ Quiet
<1>1. ASSUME NEW p \in Projects, NEW n \in Names, NEW ttl \in TTLs,
             CreateMachine(r, p, n, ttl)
      PROVE  \E id \in Ids : Birth(r, id)
  <2>1. PICK id \in Ids \ DOMAIN deadline :
          /\ machines' = With(machines, id,
                              [project |-> p, name |-> n, state |-> "running",
                               ip |-> nextIP, expires |-> ExpiresAt(ttl)])
          /\ deadline' = With(deadline, id, ExpiresAt(ttl))
          /\ Announcing(r, "created", id)
    BY <1>1 DEF CreateMachine
  <2>2. /\ DOMAIN machines' = Live \cup {id}
        /\ DOMAIN deadline' = Born \cup {id}
        /\ \A x \in Born : deadline'[x] = deadline[x]
    BY <2>1 DEF With, Live, Born
  <2> QED
    BY <1>1, <2>1, <2>2 DEF CreateMachine, Birth, Admitted, Idle, Born
<1>2. ASSUME NEW id \in Ids, NEW type \in PowerEvents, MachineAction(r, id, type)
      PROVE  Remark(r, id, type) /\ type \in QuietEvents
  BY <1>2 DEF MachineAction, Remark, Admitted, Idle, Live, TypeOK, QuietEvents
<1>3. ASSUME NEW id \in Ids, DeleteMachineGet(r, id)
      PROVE  Quiet
  BY <1>3 DEF DeleteMachineGet, Quiet, Live, historyVars
<1>4. ASSUME DeleteMachine(r)
      PROVE  Quiet \/ \E id \in Ids : Death(r, id, "deleted")
  <2>1. target[r] \in Ids /\ pending[r] = None
    BY <1>4 DEF DeleteMachine, TypeOK, Sequential
  <2>2. CASE target[r] \in Live /\ RemoveMachine(target[r])
             /\ Announcing(r, "deleted", target[r])
    <3>1. DOMAIN machines' = Live \ {target[r]}
      BY <2>1, <2>2, RemoveMachineType DEF Live
    <3> QED
      BY <1>4, <2>1, <2>2, <3>1 DEF DeleteMachine, Death, historyVars
  <2>3. CASE UNCHANGED <<providerVars, pending>>
    BY <1>4, <2>3 DEF DeleteMachine, Quiet, Live, historyVars, providerVars
  <2> QED
    BY <1>4, <2>2, <2>3 DEF DeleteMachine
<1>5. ASSUME NEW id \in Ids, SnapshotMachine(r, id)
      PROVE  Remark(r, id, "snapshot.created")
  BY <1>5 DEF SnapshotMachine, Remark, Admitted, Idle, Live, historyVars
<1>6. ASSUME NEW id \in Ids, NEW s \in SnapIds, RestoreSnapshot(r, id, s)
      PROVE  Remark(r, id, "snapshot.restored")
  BY <1>6 DEF RestoreSnapshot, Remark, Admitted, Idle, Live, historyVars
<1>7. ASSUME NEW id \in Ids, NEW s \in SnapIds, DeleteSnapshot(r, id, s)
      PROVE  Remark(r, id, "snapshot.deleted")
  BY <1>7 DEF DeleteSnapshot, Remark, Admitted, Idle, Live, historyVars
<1> QED
  BY <1>1, <1>2, <1>3, <1>4, <1>5, <1>6, <1>7 DEF Handler, QuietEvents, SnapshotEvents


\* A step of the reconciler is a death, by expiry, or quiet.
LEMMA SweepShape ==
    ASSUME TypeOK, Sweep
    PROVE  Quiet \/ \E id \in Ids : Death(Sweeper, id, "expired")
<1>1. CASE SweepStart
  BY <1>1 DEF SweepStart, Quiet, Live, providerVars, historyVars
<1>2. ASSUME NEW p \in Projects, SweepList(p) PROVE Quiet
  BY <1>2 DEF SweepList, Quiet, Live, providerVars, historyVars
<1>3. ASSUME NEW id \in Ids, SweepDelete(id)
      PROVE  Quiet \/ Death(Sweeper, id, "expired")
  <2>1. CASE id \in Live /\ RemoveMachine(id) /\ Announcing(Sweeper, "expired", id)
    <3>1. DOMAIN machines' = Live \ {id}
      BY <2>1, RemoveMachineType DEF Live
    <3> QED
      BY <1>3, <2>1, <3>1 DEF SweepDelete, Death, historyVars
  <2>2. CASE UNCHANGED <<providerVars, pending>>
    BY <1>3, <2>2 DEF SweepDelete, Quiet, Live, historyVars, providerVars
  <2> QED
    BY <1>3, <2>1, <2>2 DEF SweepDelete
<1>4. CASE SweepEnd
  BY <1>4 DEF SweepEnd, Quiet, Live, providerVars, historyVars
<1> QED
  BY <1>1, <1>2, <1>3, <1>4 DEF Sweep

\* Every step is one of these.
LEMMA StepShape ==
    ASSUME TypeOK, Sequential, [Next]_vars
    PROVE  \/ \E q \in Procs, id \in Ids : Birth(q, id)
           \/ \E q \in Procs, id \in Ids, type \in Obituaries : Death(q, id, type)
           \/ \E q \in Procs, id \in Ids, type \in QuietEvents : Remark(q, id, type)
           \/ \E q \in Procs : Publish(q)
           \/ Quiet
<1> /\ \A r \in Requests : r \in Procs
    /\ Sweeper \in Procs
    /\ "deleted" \in Obituaries /\ "expired" \in Obituaries
  BY DEF Procs, Obituaries
<1>1. ASSUME NEW r \in Requests, Handler(r)
      PROVE  \/ \E q \in Procs, id \in Ids : Birth(q, id)
             \/ \E q \in Procs, id \in Ids, type \in Obituaries : Death(q, id, type)
             \/ \E q \in Procs, id \in Ids, type \in QuietEvents : Remark(q, id, type)
             \/ Quiet
  BY <1>1, HandlerShape
<1>2. CASE Sweep
  BY <1>2, SweepShape
<1>3. CASE Tick
  BY <1>3 DEF Tick, Quiet, Live, providerVars, historyVars
<1>4. CASE UNCHANGED vars
  BY <1>4 DEF vars, Quiet, Live
<1> QED
  BY <1>1, <1>2, <1>3, <1>4 DEF Next

\* Every step keeps a goroutine to one thing at a time.
LEMMA SequentialStep == TypeOK /\ Sequential /\ [Next]_vars => Sequential'
<1> SUFFICES ASSUME TypeOK, Sequential, [Next]_vars,
                    NEW r \in Requests, target'[r] # None
             PROVE  pending'[r] = None
  BY DEF Sequential
<1> r \in Procs /\ r # Sweeper
  BY SweeperAssumption DEF Procs
<1>1. ASSUME NEW q \in Requests, Handler(q) PROVE pending'[r] = None
  <2>1. CASE DeleteMachine(q)
    BY <1>1, <2>1 DEF DeleteMachine, Announcing, TypeOK, Sequential, providerVars
  <2>2. CASE \E id \in Ids : DeleteMachineGet(q, id)
    BY <1>1, <2>2 DEF DeleteMachineGet, Admitted, Idle, TypeOK, Sequential
  <2>3. CASE Admitted(q) /\ target' = target
             /\ \E id \in Ids, type \in QuietEvents : Announcing(q, type, id)
    BY <1>1, <2>3 DEF Admitted, Idle, Announcing, TypeOK, Sequential
  <2> QED
    BY <1>1, <2>1, <2>2, <2>3
       DEF Handler, CreateMachine, MachineAction, SnapshotMachine, RestoreSnapshot,
           DeleteSnapshot, QuietEvents, PowerEvents, SnapshotEvents
<1>2. CASE Sweep
  BY <1>2 DEF Sweep, SweepStart, SweepList, SweepDelete, SweepEnd, Announcing,
              TypeOK, Sequential
<1>3. ASSUME NEW q \in Procs, Publish(q) PROVE pending'[r] = None
  BY <1>3 DEF Publish, TypeOK, Sequential
<1>4. CASE Tick \/ UNCHANGED vars
  BY <1>4 DEF Tick, vars, Sequential
<1> QED
  BY <1>1, <1>2, <1>3, <1>4 DEF Next


-----------------------------------------------------------------------------
(***************************************************************************)
(* One obituary for each machine that is gone.  Neither OneObituary nor    *)
(* NoSilentDeath is inductive: what makes them so is that an obituary that *)
(* is still to be published is held by one goroutine only, for a machine   *)
(* that is gone and not announced.                                         *)
(***************************************************************************)

\* Whatever is live or spoken of has been handed out.
KnownIds ==
    /\ Live \subseteq Born
    /\ \A q \in Procs : pending[q] # None => pending[q].machine \in Born
    /\ \A i \in 1 .. Len(log) : log[i].machine \in Born

OneHolder ==
    \A q \in Procs, id \in Ids :
        HoldsObituary(q, id) =>
            /\ id \notin Live
            /\ ~Announced(id)
            /\ \A p \in Procs : HoldsObituary(p, id) => p = q

Accounts == KnownIds /\ OneHolder /\ OneObituary /\ NoSilentDeath

LifeInv == TypeOK /\ Sequential /\ Accounts

\* The inductive invariant holds initially.
LEMMA InitLife == Init => LifeInv
<1> SUFFICES ASSUME Init PROVE LifeInv
  OBVIOUS
<1>1. Live = {} /\ Born = {} /\ Len(log) = 0
  BY DEF Init, Live, Born
<1>2. \A q \in Procs : pending[q] = None
  BY DEF Init
<1> QED
  BY <1>1, <1>2, InitTypeOK
     DEF LifeInv, Accounts, KnownIds, OneHolder, OneObituary, NoSilentDeath,
         HoldsObituary, Announced, Sequential, Procs

\* Whether a machine is announced depends on the history alone.
LEMMA AnnouncedFrame ==
    ASSUME log' = log
    PROVE  \A id : Announced(id)' = Announced(id)
BY DEF Announced

\* What a step that only gives one goroutine something to say changes.
LEMMA HolderFrame ==
    ASSUME TypeOK, NEW q \in Procs, NEW x \in Ids,
           NEW type \in {"created"} \cup PowerEvents \cup Obituaries \cup SnapshotEvents,
           pending[q] = None, Announcing(q, type, x)
    PROVE  /\ \A p \in Procs, id \in Ids : HoldsObituary(p, id) =>
                  p # q /\ HoldsObituary(p, id)'
           /\ \A p \in Procs, id \in Ids : HoldsObituary(p, id)' =>
                  \/ HoldsObituary(p, id)
                  \/ p = q /\ id = x /\ type \in Obituaries
           /\ type \in Obituaries => HoldsObituary(q, x)'
           /\ \A p \in Procs : pending'[p] # None =>
                  \/ pending'[p] = pending[p] /\ pending[p] # None
                  \/ pending'[p].machine = x
<1>1. /\ pending'[q] = [type |-> type, machine |-> x] /\ pending'[q] # None
      /\ \A p \in Procs \ {q} : pending'[p] = pending[p]
  BY AnnouncingType
<1>2. pending'[q].type = type /\ pending'[q].machine = x
  BY <1>1
<1>3. \A p \in Procs, id \in Ids : HoldsObituary(p, id) => p # q
  BY DEF HoldsObituary
<1>4. \A p \in Procs \ {q}, id \in Ids : HoldsObituary(p, id)' = HoldsObituary(p, id)
  BY <1>1 DEF HoldsObituary
<1>5. \A id \in Ids : HoldsObituary(q, id)' <=> id = x /\ type \in Obituaries
  BY <1>1, <1>2 DEF HoldsObituary
<1> QED
  BY <1>1, <1>2, <1>3, <1>4, <1>5

\* After Publish(q) the history is one event longer.
LEMMA PublishFrame ==
    ASSUME TypeOK, NEW q \in Procs, Publish(q)
    PROVE  /\ pending[q] \in Event
           /\ Len(log') = Len(log) + 1
           /\ \A i \in 1 .. Len(log) : log'[i] = log[i]
           /\ log'[Len(log) + 1] = pending[q]
           /\ \A p \in Procs : pending'[p] = IF p = q THEN None ELSE pending[p]
           /\ machines' = machines /\ deadline' = deadline
<1>1. pending[q] \in Event
  BY DEF Publish, TypeOK
<1> QED
  BY <1>1 DEF Publish, TypeOK, historyVars

\* Publish announces the end its event tells of, and no other.
LEMMA PublishAnnounces ==
    ASSUME TypeOK, NEW q \in Procs, Publish(q)
    PROVE  \A id \in Ids : Announced(id)' <=> Announced(id) \/ HoldsObituary(q, id)
<1> DEFINE n == Len(log)
<1> n \in Nat
  BY DEF TypeOK
<1>1. /\ Len(log') = n + 1
      /\ \A i \in 1 .. n : log'[i] = log[i]
      /\ log'[n + 1] = pending[q]
      /\ pending[q] # None
  BY PublishFrame DEF Publish
<1>2. 1 .. (n + 1) = (1 .. n) \cup {n + 1}
  OBVIOUS
<1> QED
  BY <1>1, <1>2 DEF Announced, HoldsObituary

\* Every step keeps the accounts of who was announced and who holds what.
LEMMA AccountsStep == LifeInv /\ [Next]_vars => Accounts'
<1> SUFFICES ASSUME TypeOK, Sequential, Accounts, [Next]_vars PROVE Accounts'
  BY DEF LifeInv
<1> USE DEF Accounts
<1> "created" \notin Obituaries /\ Obituaries \cap QuietEvents = {}
  BY DEF Obituaries, QuietEvents, PowerEvents, SnapshotEvents
<1>1. ASSUME NEW q \in Procs, NEW id \in Ids, Birth(q, id) PROVE Accounts'
  <2>1. /\ Live' = Live \cup {id} /\ Born' = Born \cup {id} /\ log' = log
        /\ id \notin Born
    BY <1>1 DEF Birth, Live, Born
  <2>2. ~Announced(id) /\ \A p \in Procs : ~HoldsObituary(p, id)
    BY <2>1 DEF KnownIds, Announced, HoldsObituary
  <2>3. KnownIds'
    BY <1>1, <2>1, HolderFrame DEF Birth, KnownIds
  <2>4. OneHolder'
    BY <1>1, <2>1, <2>2, HolderFrame, AnnouncedFrame DEF Birth, OneHolder
  <2>5. OneObituary'
    BY <2>1, <2>2, AnnouncedFrame DEF OneObituary
  <2>6. NoSilentDeath'
    BY <1>1, <2>1, HolderFrame, AnnouncedFrame DEF Birth, NoSilentDeath, TypeOK, Born
  <2> QED
    BY <2>3, <2>4, <2>5, <2>6
<1>2. ASSUME NEW q \in Procs, NEW id \in Ids, NEW type \in Obituaries,
             Death(q, id, type)
      PROVE  Accounts'
  <2>1. /\ Live' = Live \ {id} /\ Born' = Born /\ log' = log /\ id \in Live
        /\ type \in {"created"} \cup PowerEvents \cup Obituaries \cup SnapshotEvents
    BY <1>2 DEF Death, Live, Born
  <2>2. ~Announced(id) /\ \A p \in Procs : ~HoldsObituary(p, id)
    BY <2>1 DEF OneHolder, OneObituary
  <2>3. KnownIds'
    BY <1>2, <2>1, HolderFrame DEF Death, KnownIds
  <2>4. OneHolder'
    BY <1>2, <2>1, <2>2, HolderFrame, AnnouncedFrame DEF Death, OneHolder
  <2>5. OneObituary'
    BY <2>1, AnnouncedFrame DEF OneObituary
  <2>6. NoSilentDeath'
    BY <1>2, <2>1, HolderFrame, AnnouncedFrame DEF Death, NoSilentDeath, TypeOK, Born
  <2> QED
    BY <2>3, <2>4, <2>5, <2>6
<1>3. ASSUME NEW q \in Procs, NEW id \in Ids, NEW type \in QuietEvents,
             Remark(q, id, type)
      PROVE  Accounts'
  <2>1. /\ Live' = Live /\ Born' = Born /\ log' = log /\ id \in Live
        /\ type \in {"created"} \cup PowerEvents \cup Obituaries \cup SnapshotEvents
    BY <1>3 DEF Remark, Live, Born, QuietEvents
  <2>2. type \notin Obituaries
    BY DEF QuietEvents, Obituaries, PowerEvents, SnapshotEvents
  <2>3. KnownIds'
    BY <1>3, <2>1, HolderFrame DEF Remark, KnownIds
  <2>4. OneHolder'
    <3>1. \A p \in Procs, x \in Ids : HoldsObituary(p, x)' => HoldsObituary(p, x)
      BY <1>3, <2>1, <2>2, HolderFrame DEF Remark
    <3> QED
      BY <2>1, <3>1, AnnouncedFrame DEF OneHolder
  <2>5. OneObituary'
    BY <2>1, AnnouncedFrame DEF OneObituary
  <2>6. NoSilentDeath'
    BY <1>3, <2>1, HolderFrame, AnnouncedFrame DEF Remark, NoSilentDeath, TypeOK, Born
  <2> QED
    BY <2>3, <2>4, <2>5, <2>6
<1>4. ASSUME NEW q \in Procs, Publish(q) PROVE Accounts'
  <2>1. /\ Live' = Live /\ Born' = Born
        /\ pending[q] \in Event /\ pending[q] # None /\ pending[q].machine \in Ids
        /\ \A p \in Procs : pending'[p] = IF p = q THEN None ELSE pending[p]
    BY <1>4, PublishFrame DEF Live, Born, Publish, Event
  <2>2. /\ Len(log) \in Nat /\ Len(log') = Len(log) + 1
        /\ \A i \in 1 .. Len(log) : log'[i] = log[i]
        /\ log'[Len(log) + 1] = pending[q]
        /\ 1 .. Len(log') = (1 .. Len(log)) \cup {Len(log) + 1}
        /\ Len(log) + 1 \notin 1 .. Len(log)
    BY <1>4, PublishFrame DEF TypeOK
  <2>3. KnownIds'
    <3>1. \A p \in Procs : pending'[p] # None => pending'[p].machine \in Born'
      BY <2>1 DEF KnownIds
    <3>2. ASSUME NEW i \in 1 .. Len(log') PROVE log'[i].machine \in Born'
      BY <2>1, <2>2 DEF KnownIds
    <3> QED
      BY <2>1, <3>1, <3>2 DEF KnownIds
  <2>4. \A p \in Procs, id \in Ids :
            HoldsObituary(p, id)' <=> HoldsObituary(p, id) /\ p # q
    <3>1. \A p \in Procs \ {q} : pending'[p] = pending[p]
      BY <2>1
    <3>2. \A p \in Procs \ {q}, id \in Ids : HoldsObituary(p, id)' = HoldsObituary(p, id)
      BY <3>1 DEF HoldsObituary
    <3>3. \A id \in Ids : ~HoldsObituary(q, id)'
      BY <2>1 DEF HoldsObituary
    <3> QED
      BY <3>2, <3>3
  <2>5. OneHolder'
    BY <1>4, <2>1, <2>4, PublishAnnounces DEF OneHolder
  <2>6. OneObituary'
    <3>1. ASSUME NEW i \in 1 .. Len(log'), NEW j \in 1 .. Len(log'),
                 log'[i].type \in Obituaries, log'[j].type \in Obituaries,
                 log'[i].machine = log'[j].machine
          PROVE  i = j
      <4>1. ASSUME NEW k \in 1 .. Len(log), pending[q].type \in Obituaries,
                   log[k].type \in Obituaries, log[k].machine = pending[q].machine
            PROVE  FALSE
        BY <4>1, <2>1 DEF OneHolder, HoldsObituary, Announced
      <4> QED
        BY <3>1, <4>1, <2>2 DEF OneObituary
    <3>2. ASSUME NEW id \in Live PROVE ~Announced(id)'
      BY <1>4, PublishAnnounces DEF OneObituary, OneHolder, TypeOK, Live
    <3> QED
      BY <2>1, <3>1, <3>2 DEF OneObituary
  <2>7. NoSilentDeath'
    BY <1>4, <2>1, <2>4, PublishAnnounces DEF NoSilentDeath, TypeOK, Born
  <2> QED
    BY <2>3, <2>5, <2>6, <2>7
<1>5. CASE Quiet
  <2>1. Live' = Live /\ Born' = Born /\ log' = log /\ pending' = pending
    BY <1>5 DEF Quiet, Live, Born
  <2> QED
    BY <2>1, AnnouncedFrame
       DEF KnownIds, OneHolder, OneObituary, NoSilentDeath, HoldsObituary
<1> QED
  BY <1>1, <1>2, <1>3, <1>4, <1>5, StepShape

\* The inductive invariant holds throughout.
LEMMA LifeInvariant == Spec => []LifeInv
<1>1. LifeInv /\ [Next]_vars => LifeInv'
  BY NextTypeOK, SequentialStep, AccountsStep DEF LifeInv
<1> QED
  BY InitLife, <1>1, PTL DEF Spec

\* However many handlers race the reconciler for a machine, its end is
\* announced once at most, and never while it lives.
THEOREM OneObituaryAlways == Spec => []OneObituary
<1>1. LifeInv => OneObituary
  BY DEF LifeInv, Accounts
<1> QED
  BY <1>1, LifeInvariant, PTL

\* No machine disappears without an obituary, published or about to be.
THEOREM NoSilentDeathAlways == Spec => []NoSilentDeath
<1>1. LifeInv => NoSilentDeath
  BY DEF LifeInv, Accounts
<1> QED
  BY <1>1, LifeInvariant, PTL


-----------------------------------------------------------------------------
(***************************************************************************)
(* The control plane implements Lifecycle.                                 *)
(***************************************************************************)

\* A step that moves one machine from one stage to another, as Lifecycle sees it.
LEMMA MoveStatus ==
    ASSUME NEW id \in Ids, NEW to,
           Status'[id] = to,
           \A x \in Ids \ {id} : Status'[x] = Status[x]
    PROVE  Status' = [Status EXCEPT ![id] = to]
BY DEF Status

\* No machine is born initially.
LEMMA LifecycleInit == Init => L!Init
BY DEF Init, L!Init, Status, Born

\* Every step moves at most one machine on in its life, by one stage.
LEMMA LifecycleStep == LifeInv /\ [Next]_vars => [L!Next]_Status
<1> SUFFICES ASSUME TypeOK, Sequential, Accounts, [Next]_vars
             PROVE  [L!Next]_Status
  BY DEF LifeInv
<1> USE DEF Accounts
<1>1. ASSUME NEW q \in Procs, NEW id \in Ids, Birth(q, id)
      PROVE  L!Create(id)
  <2>1. /\ Live' = Live \cup {id} /\ Born' = Born \cup {id} /\ log' = log
        /\ id \notin Born
    BY <1>1 DEF Birth, Live, Born
  <2>2. Status[id] = "unborn" /\ Status'[id] = "live"
    BY <2>1 DEF Status
  <2>3. \A x \in Ids \ {id} : Status'[x] = Status[x]
    BY <2>1, AnnouncedFrame DEF Status
  <2> QED
    BY <2>2, <2>3, MoveStatus DEF L!Create, L!Move
<1>2. ASSUME NEW q \in Procs, NEW id \in Ids, NEW type \in Obituaries,
             Death(q, id, type)
      PROVE  L!Remove(id)
  <2>1. /\ Live' = Live \ {id} /\ Born' = Born /\ log' = log
        /\ id \in Live /\ id \in Born /\ ~Announced(id)
    BY <1>2 DEF Death, Live, Born, KnownIds, OneObituary
  <2>2. Status[id] = "live" /\ Status'[id] = "gone"
    BY <2>1, AnnouncedFrame DEF Status
  <2>3. \A x \in Ids \ {id} : Status'[x] = Status[x]
    BY <2>1, AnnouncedFrame DEF Status
  <2> QED
    BY <2>2, <2>3, MoveStatus DEF L!Remove, L!Move
<1>3. ASSUME NEW q \in Procs, NEW id \in Ids, NEW type \in QuietEvents,
             Remark(q, id, type)
      PROVE  UNCHANGED Status
  <2>1. Live' = Live /\ Born' = Born /\ log' = log
    BY <1>3 DEF Remark, Live, Born
  <2> QED
    BY <2>1, AnnouncedFrame DEF Status
<1>4. ASSUME NEW q \in Procs, Publish(q)
      PROVE  UNCHANGED Status \/ \E id \in Ids : L!Announce(id)
  <2> DEFINE id == pending[q].machine
  <2>1. /\ Live' = Live /\ Born' = Born /\ id \in Ids /\ pending[q] # None
    BY <1>4, PublishFrame DEF Live, Born, Publish, Event
  <2>2. \A x \in Ids : Announced(x)' <=> Announced(x) \/ HoldsObituary(q, x)
    BY <1>4, PublishAnnounces
  <2>3. CASE pending[q].type \in Obituaries
    <3>1. HoldsObituary(q, id) /\ id \notin Live /\ id \in Born /\ ~Announced(id)
      BY <2>1, <2>3 DEF HoldsObituary, OneHolder, KnownIds
    <3>2. Status[id] = "gone" /\ Status'[id] = "announced"
      BY <2>1, <2>2, <3>1 DEF Status
    <3>3. \A x \in Ids \ {id} : Announced(x)' <=> Announced(x)
      BY <2>2 DEF HoldsObituary
    <3>4. \A x \in Ids \ {id} : Status'[x] = Status[x]
      BY <2>1, <3>3 DEF Status
    <3> HIDE DEF id
    <3> QED
      BY <2>1, <3>2, <3>4, MoveStatus DEF L!Announce, L!Move
  <2>4. CASE pending[q].type \notin Obituaries
    <3>1. \A x \in Ids : Announced(x)' <=> Announced(x)
      BY <2>2, <2>4 DEF HoldsObituary
    <3> QED
      BY <2>1, <3>1 DEF Status
  <2> QED
    BY <2>3, <2>4
<1>5. CASE Quiet
  <2>1. Live' = Live /\ Born' = Born /\ log' = log
    BY <1>5 DEF Quiet, Live, Born
  <2> QED
    BY <2>1, AnnouncedFrame DEF Status
<1> QED
  BY <1>1, <1>2, <1>3, <1>4, <1>5, StepShape DEF L!Next

\* Handlers, reconciler and history together keep Kryton's promise about every
\* machine: handed out once, removed once, announced after it is gone.
THEOREM ImplementsLifecycleAlways == Spec => ImplementsLifecycle
<1>1. Spec => [][L!Next]_Status
  BY LifeInvariant, LifecycleStep, PTL DEF Spec
<1>2. Spec => L!Init
  BY LifecycleInit DEF Spec
<1> QED
  BY <1>1, <1>2 DEF ImplementsLifecycle, L!Spec

=============================================================================
