---------------------------- MODULE DockurProofs ----------------------------
(***************************************************************************)
(* Theorems about Dockur, for any names, IDs and ports, and any number of  *)
(* failures and kills.                                                     *)
(***************************************************************************)
EXTENDS Dockur, TLAPS

-----------------------------------------------------------------------------
(***************************************************************************)
(* Type correctness, with the shape of the call under way.                 *)
(***************************************************************************)

\* The machine a call is about has been handed out.
CallOK == ~Free /\ call.op # "refresh" => call.id \in born

TypeInv == TypeOK /\ CallOK

\* What the step of a call says about the rest of it.
LEMMA CallKinds ==
    ASSUME TypeInv, ~Free
    PROVE  /\ call.step = "up" => call \in Preparing
           /\ call.step = "remove" => call \in Removing
           /\ call.step \in {"save", "write"} => call \in SavingOne \cup SavingAll
           /\ call.op # "refresh" => call.id \in born
<1>1. call \in Call
  BY DEF TypeInv, TypeOK, Free
<1>2. CASE call \in Preparing
  BY <1>2 DEF Preparing, TypeInv, CallOK
<1>3. CASE call \in Removing
  BY <1>3 DEF Removing, TypeInv, CallOK
<1>4. CASE call \in SavingOne
  BY <1>4 DEF SavingOne, TypeInv, CallOK
<1>5. CASE call \in SavingAll
  BY <1>5 DEF SavingAll, TypeInv, CallOK
<1> QED
  BY <1>1, <1>2, <1>3, <1>4, <1>5 DEF Call

\* Putting an entry into a map, or taking one out, keeps it well typed.
LEMMA MapTypes ==
    ASSUME NEW S, NEW f, f \in [DOMAIN f -> S], NEW k
    PROVE  /\ \A v \in S : With(f, k, v) \in [DOMAIN f \cup {k} -> S]
           /\ Without(f, k) \in [DOMAIN f \ {k} -> S]
BY DEF With, Without

\* The initial values have their types.
LEMMA InitTypeInv == Init => TypeInv
<1> SUFFICES ASSUME Init PROVE TypeInv
  OBVIOUS
<1>1. DOMAIN machines = {} /\ DOMAIN disk = {} /\ DOMAIN containers = {}
  BY DEF Init
<1>2. /\ machines \in [DOMAIN machines -> Machine]
      /\ disk \in [DOMAIN disk -> Machine]
      /\ containers \in [DOMAIN containers -> Container]
  BY <1>1 DEF Init
<1>3. /\ Free /\ dirs = {} /\ foreign = {} /\ born = {} /\ deleted = {}
      /\ faults = 0 /\ stale = FALSE
  BY DEF Init, Free
<1>4. faults \in 0 .. MaxFaults
  BY <1>3, BoundAssumption
<1> QED
  BY <1>1, <1>2, <1>3, <1>4 DEF TypeInv, TypeOK, CallOK, Free

\* Failures are counted up to their bound.
LEMMA FaultType ==
    ASSUME TypeOK, Fault
    PROVE  faults' \in 0 .. MaxFaults
<1>1. faults \in 0 .. MaxFaults /\ MaxFaults \in Nat
  BY BoundAssumption DEF TypeOK
<1>2. faults < MaxFaults /\ faults' = faults + 1
  BY DEF Fault
<1> QED
  BY <1>1, <1>2

\* A return leaves nothing to do and counts a delete that is done.
LEMMA ReturnType ==
    ASSUME TypeInv, ~Free, NEW ok \in BOOLEAN, Return(ok), born' = born
    PROVE  call' = Nobody /\ CallOK' /\ deleted' \subseteq born /\ stale' \in BOOLEAN
<1>1. call.op = "delete" => call.id \in born
  BY CallKinds
<1>2. deleted \subseteq born
  BY DEF TypeInv, TypeOK
<1>3. call' = Nobody /\ CallOK'
  BY DEF Return, CallOK, Free
<1>4. deleted' \subseteq born
  BY <1>1, <1>2 DEF Return
<1>5. stale' \in BOOLEAN
  BY DEF Return
<1> QED
  BY <1>3, <1>4, <1>5

\* The steps of a save keep the types.
LEMMA SaveTypeInv ==
    ASSUME TypeInv, SaveTruncate \/ SaveWrite
    PROVE  TypeInv'
<1> TypeOK /\ CallOK /\ ~Free /\ UNCHANGED <<machines, world, born>>
  BY DEF TypeInv, SaveTruncate, SaveWrite
<1>1. ASSUME NEW ok \in BOOLEAN, Return(ok), disk' \in {disk, machines},
             faults' = faults \/ Fault
      PROVE  TypeInv'
  <2>1. \/ disk' = Torn
        \/ DOMAIN disk' \subseteq born' /\ disk' \in [DOMAIN disk' -> Machine]
    BY <1>1 DEF TypeOK
  <2> QED
    BY <1>1, <2>1, ReturnType, FaultType DEF TypeInv, TypeOK, world
<1>2. CASE SaveTruncate
  <2>1. CASE /\ disk' = Torn
             /\ call' = [call EXCEPT !.step = "write"]
             /\ UNCHANGED <<faults, stale, deleted>>
    <3>1. call \in SavingOne \cup SavingAll
      BY <1>2, CallKinds DEF SaveTruncate
    <3>2. call' \in Call /\ call'.op = call.op
             /\ (call.op # "refresh" => call'.id = call.id)
      BY <2>1, <3>1 DEF SavingOne, SavingAll, Call
    <3>3. CallOK'
      BY <1>2, <3>2, CallKinds DEF SaveTruncate, CallOK
    <3> QED
      BY <2>1, <3>2, <3>3 DEF TypeInv, TypeOK, world
  <2>2. CASE Fault /\ Return(FALSE) /\ UNCHANGED disk
    BY <1>1, <2>2
  <2> QED
    BY <1>2, <2>1, <2>2 DEF SaveTruncate
<1>3. CASE SaveWrite
  BY <1>1, <1>3 DEF SaveWrite
<1> QED
  BY <1>2, <1>3

\* The steps of Create keep the types.
LEMMA CreateTypeInv ==
    ASSUME TypeInv, (\E n \in Names : CreateBegin(n)) \/ CreateUp \/ CreateUpFails
    PROVE  TypeInv'
<1> TypeOK /\ CallOK
  BY DEF TypeInv
<1>1. ASSUME NEW n \in Names, CreateBegin(n) PROVE TypeInv'
  <2>1. PICK id \in Ids \ born, p \in Ports :
          /\ born' = born \cup {id}
          /\ dirs' = dirs \cup {id}
          /\ \/ /\ call' = [op |-> "create", id |-> id, step |-> "up",
                            name |-> n, port |-> p]
                /\ UNCHANGED faults
             \/ Fault /\ UNCHANGED call
    BY <1>1 DEF CreateBegin
  <2>2. /\ Free /\ UNCHANGED <<machines, disk, containers, foreign, deleted, stale>>
    BY <1>1 DEF CreateBegin
  <2>3. CallOK' /\ call' \in Call \cup {Nobody}
    BY <2>1, <2>2 DEF CallOK, Free, Preparing, Call
  <2>4. faults' \in 0 .. MaxFaults
    BY <2>1, FaultType DEF TypeOK
  <2> QED
    BY <2>1, <2>2, <2>3, <2>4 DEF TypeInv, TypeOK
<1>2. CASE CreateUp
  <2>1. call \in Preparing /\ call.op # "refresh" /\ ~Free
    BY <1>2, CallKinds DEF CreateUp, Preparing
  <2>2. /\ call.id \in born /\ call.name \in Names /\ call.port \in Ports
    BY <2>1, CallKinds DEF Preparing
  <2>3. /\ containers' = With(containers, call.id, [port |-> call.port, up |-> TRUE])
        /\ machines' = With(machines, call.id,
                            [name |-> call.name, port |-> call.port,
                             state |-> "provisioning"])
        /\ UNCHANGED <<disk, dirs, foreign, faults, born, deleted, stale>>
    BY <1>2 DEF CreateUp
  <2>4. containers' \in [DOMAIN containers \cup {call.id} -> Container]
    <3>1. [port |-> call.port, up |-> TRUE] \in Container
      BY <2>2 DEF Container
    <3> QED
      BY <2>3, <3>1, MapTypes DEF TypeOK
  <2>5. machines' \in [DOMAIN machines \cup {call.id} -> Machine]
    <3>1. [name |-> call.name, port |-> call.port, state |-> "provisioning"] \in Machine
      BY <2>2 DEF Machine, States
    <3> QED
      BY <2>3, <3>1, MapTypes DEF TypeOK
  <2>6. CallOK' /\ call' \in Call
    BY <1>2, <2>2, <2>3 DEF CreateUp, Saving, CallOK, SavingOne, Call, TypeOK
  <2> QED
    BY <2>2, <2>3, <2>4, <2>5, <2>6 DEF TypeInv, TypeOK
<1>3. CASE CreateUpFails
  <2>1. /\ call \in Preparing /\ call.op # "refresh" /\ ~Free
        /\ UNCHANGED <<machines, disk, foreign, born, deleted, stale>>
    BY <1>3, CallKinds DEF CreateUpFails, Preparing
  <2>2. call.id \in born /\ call.port \in Ports
    BY <2>1, CallKinds DEF Preparing
  <2>3. DOMAIN containers' \subseteq born /\ containers' \in [DOMAIN containers' -> Container]
    <3>1. CASE containers' = containers
      BY <3>1 DEF TypeOK
    <3>2. ASSUME NEW up \in BOOLEAN,
                 containers' = With(containers, call.id, [port |-> call.port, up |-> up])
          PROVE  DOMAIN containers' \subseteq born
                 /\ containers' \in [DOMAIN containers' -> Container]
      <4>1. [port |-> call.port, up |-> up] \in Container
        BY <2>2 DEF Container
      <4>2. containers' \in [DOMAIN containers \cup {call.id} -> Container]
        BY <3>2, <4>1, MapTypes DEF TypeOK
      <4> QED
        BY <2>2, <4>2 DEF TypeOK
    <3>3. {FALSE, ~Listening(call.port)} \subseteq BOOLEAN
      OBVIOUS
    <3> QED
      BY <1>3, <3>1, <3>2, <3>3 DEF CreateUpFails
  <2>4. faults' \in 0 .. MaxFaults
    BY <1>3, FaultType DEF CreateUpFails, TypeOK
  <2>5. dirs' \subseteq born /\ call' = Nobody /\ CallOK'
    BY <1>3 DEF CreateUpFails, TypeOK, Free, CallOK
  <2> QED
    BY <2>1, <2>3, <2>4, <2>5 DEF TypeInv, TypeOK
<1> QED
  BY <1>1, <1>2, <1>3

\* Refreshing, starting, stopping and failing machines keeps the types.
LEMMA PowerTypeInv ==
    ASSUME TypeInv,
           \/ \E id \in Ids : Get(id)
           \/ List
           \/ \E id \in Ids, on \in BOOLEAN : LifecycleDone(id, on) \/ LifecycleFails(id, on)
    PROVE  TypeInv'
<1> TypeOK /\ CallOK
  BY DEF TypeInv
<1>1. ASSUME NEW ids, Refresh(ids) PROVE TypeInv'
  <2>1. /\ DOMAIN machines' = DOMAIN machines
        /\ machines' \in [DOMAIN machines' -> Machine]
    <3>1. PICK ready \in SUBSET {id \in ids : machines[id].state = "provisioning"
                                              /\ Listening(machines[id].port)} :
            machines' = [id \in Live |-> IF id \in ready
                            THEN [machines[id] EXCEPT !.state = "running"]
                            ELSE machines[id]]
      BY <1>1 DEF Refresh
    <3>2. ASSUME NEW id \in Live PROVE [machines[id] EXCEPT !.state = "running"] \in Machine
      BY DEF TypeOK, Live, Machine, States
    <3> QED
      BY <3>1, <3>2 DEF TypeOK, Live
  <2>2. CallOK' /\ call' \in Call
    BY <1>1 DEF Refresh, CallOK, SavingAll, Call
  <2> QED
    BY <1>1, <2>1, <2>2 DEF Refresh, TypeInv, TypeOK, world
<1>2. ASSUME NEW id \in Live, NEW s \in States,
             machines' = [machines EXCEPT ![id].state = s],
             Saving("lifecycle", id),
             NEW on \in BOOLEAN, containers' \in {containers, Powered(id, on)},
             faults' = faults \/ Fault,
             UNCHANGED <<disk, dirs, foreign, born, deleted, stale>>
      PROVE  TypeInv'
  <2>1. /\ DOMAIN machines' = DOMAIN machines
        /\ machines' \in [DOMAIN machines' -> Machine]
    BY <1>2 DEF TypeOK, Live, Machine
  <2>2. /\ DOMAIN containers' = DOMAIN containers
        /\ containers' \in [DOMAIN containers' -> Container]
    BY <1>2 DEF TypeOK, Powered, Container
  <2>3. CallOK' /\ call' \in Call
    BY <1>2 DEF Saving, CallOK, SavingOne, Call, TypeOK, Live
  <2>4. faults' \in 0 .. MaxFaults
    BY <1>2, FaultType DEF TypeOK
  <2> QED
    BY <1>2, <2>1, <2>2, <2>3, <2>4 DEF TypeInv, TypeOK
<1>3. ASSUME NEW id \in Ids, NEW on \in BOOLEAN, LifecycleDone(id, on)
      PROVE  TypeInv'
  <2>1. (IF on THEN "running" ELSE "stopped") \in States
    BY DEF States
  <2> QED
    BY <1>2, <1>3, <2>1 DEF LifecycleDone
<1>4. ASSUME NEW id \in Ids, NEW on \in BOOLEAN, LifecycleFails(id, on)
      PROVE  TypeInv'
  <2>1. "failed" \in States
    BY DEF States
  <2>2. containers' \in {containers, Powered(id, on)} /\ (faults' = faults \/ Fault)
    BY <1>4 DEF LifecycleFails
  <2> QED
    BY <1>2, <1>4, <2>1, <2>2 DEF LifecycleFails
<1> QED
  BY <1>1, <1>3, <1>4 DEF Get, List

\* Delete, kills and other programs keep the types.
LEMMA OtherTypeInv ==
    ASSUME TypeInv,
           \/ \E id \in Ids : DeleteDown(id)
           \/ DeleteRemove
           \/ Restart
           \/ \E p \in Ports : Occupy(p) \/ Vacate(p)
           \/ UNCHANGED vars
    PROVE  TypeInv'
<1> TypeOK /\ CallOK
  BY DEF TypeInv
<1>1. ASSUME NEW id \in Ids, DeleteDown(id) PROVE TypeInv'
  <2>1. DOMAIN containers' \subseteq born /\ containers' \in [DOMAIN containers' -> Container]
    <3>1. Without(containers, id) \in [DOMAIN containers \ {id} -> Container]
      BY MapTypes DEF TypeOK
    <3> QED
      BY <1>1, <3>1 DEF DeleteDown, TypeOK
  <2>2. CallOK' /\ call' \in Call
    BY <1>1 DEF DeleteDown, CallOK, Removing, Call, TypeOK, Live
  <2>3. faults' \in 0 .. MaxFaults
    BY <1>1, FaultType DEF DeleteDown, TypeOK
  <2> QED
    BY <1>1, <2>1, <2>2, <2>3 DEF DeleteDown, TypeInv, TypeOK
<1>2. CASE DeleteRemove
  <2>1. call.id \in born /\ call.id \in Ids
    BY <1>2, CallKinds DEF DeleteRemove, Removing
  <2>2. machines' \in [DOMAIN machines \ {call.id} -> Machine]
    BY <1>2, MapTypes DEF DeleteRemove, TypeOK
  <2>3. CallOK' /\ call' \in Call
    BY <1>2, <2>1 DEF DeleteRemove, Saving, CallOK, SavingOne, Call
  <2> QED
    BY <1>2, <2>2, <2>3 DEF DeleteRemove, TypeInv, TypeOK
<1>3. CASE Restart
  <2>1. DOMAIN machines' \subseteq born /\ machines' \in [DOMAIN machines' -> Machine]
    <3>1. DOMAIN <<>> = {}
      OBVIOUS
    <3>2. CASE disk = Torn
      <4>1. machines' = <<>>
        BY <1>3, <3>2 DEF Restart
      <4> QED
        BY <3>1, <4>1
    <3>3. CASE disk # Torn
      BY <1>3, <3>3 DEF Restart, TypeOK
    <3> QED
      BY <3>2, <3>3
  <2>2. faults' \in 0 .. MaxFaults /\ call' = Nobody /\ CallOK'
    BY <1>3, FaultType DEF Restart, Free, CallOK
  <2> QED
    BY <1>3, <2>1, <2>2 DEF Restart, TypeInv, TypeOK, world
<1>4. ASSUME NEW p \in Ports, Occupy(p) \/ Vacate(p) PROVE TypeInv'
  <2>1. faults' \in 0 .. MaxFaults /\ foreign' \subseteq Ports
    BY <1>4, FaultType DEF Occupy, Vacate, TypeOK
  <2>2. UNCHANGED <<machines, call, disk, dirs, containers, born, deleted, stale>>
    BY <1>4 DEF Occupy, Vacate
  <2>3. CallOK'
    BY <2>2 DEF CallOK, Free
  <2> QED
    BY <2>1, <2>2, <2>3 DEF TypeInv, TypeOK
<1>5. CASE UNCHANGED vars
  BY <1>5 DEF vars, world, TypeInv, TypeOK, CallOK, Free
<1> QED
  BY <1>1, <1>2, <1>3, <1>4, <1>5

\* Every step keeps the types.
LEMMA NextTypeInv == TypeInv /\ [Next]_vars => TypeInv'
BY SaveTypeInv, CreateTypeInv, PowerTypeInv, OtherTypeInv DEF Next, Continue

\* The shape of calls and the types hold throughout.
LEMMA TypeInvariant == Spec => []TypeInv
BY InitTypeInv, NextTypeInv, PTL DEF Spec

\* The types hold in every reachable state.
THEOREM TypeCorrect == Spec => []TypeOK
<1>1. TypeInv => TypeOK
  BY DEF TypeInv
<1> QED
  BY <1>1, TypeInvariant, PTL

-----------------------------------------------------------------------------
(***************************************************************************)
(* The steps, as far as machines and state.json are concerned.             *)
(***************************************************************************)

record == <<machines, disk, deleted, stale>>

\* The mutex is taken, and no more than states of machines change: of the one the
\* call is about, unless it is a refresh.
Restates ==
    /\ Free /\ ~Free'
    /\ call'.op = "refresh" \/ \A id : id = call'.id \/ Same(machines, machines', id)
    /\ call'.step # "up"
    /\ call'.op = "delete" => call'.step = "remove"
    /\ Live' = Live
    /\ \A id \in Live : /\ machines'[id].name = machines[id].name
                        /\ machines'[id].port = machines[id].port
    /\ UNCHANGED <<disk, deleted, stale>>

\* Create settles on an ID, a name and a port.
Begins ==
    /\ Free /\ ~Free'
    /\ call'.step = "up" /\ call'.op = "create"
    /\ call'.id \notin born
    /\ \A id \in Live : /\ machines[id].name # call'.name
                        /\ machines[id].port # call'.port
    /\ UNCHANGED record

\* Create gives up.
Abandons == ~Free /\ Free' /\ call.step = "up" /\ UNCHANGED record

Rests == UNCHANGED <<record, call>>

\* A new call is not the absence of one.
LEMMA CallIsSome ==
    ASSUME call' \in Call
    PROVE  ~Free'
BY NobodyAssumption DEF Free

\* Refreshing a machine, starting or stopping it changes its state only.
LEMMA RestatesShape ==
    ASSUME TypeInv,
           \/ \E id \in Ids : Get(id)
           \/ List
           \/ \E id \in Ids, on \in BOOLEAN : LifecycleDone(id, on) \/ LifecycleFails(id, on)
           \/ \E id \in Ids : DeleteDown(id)
    PROVE  Restates
<1> TypeOK
  BY DEF TypeInv
<1>1. ASSUME NEW ids, Refresh(ids) PROVE Restates
  <2>1. call' \in SavingAll
    BY <1>1 DEF Refresh, SavingAll
  <2>2. ~Free' /\ call'.step # "up" /\ call'.op = "refresh"
    BY <2>1, CallIsSome DEF Call, SavingAll
  <2>3. /\ Live' = Live
        /\ \A id \in Live : /\ machines'[id].name = machines[id].name
                            /\ machines'[id].port = machines[id].port
    BY <1>1 DEF Refresh, TypeOK, Live, Machine
  <2> QED
    BY <1>1, <2>2, <2>3 DEF Refresh, Restates
<1>2. ASSUME NEW id \in Live, NEW s,
             machines' = [machines EXCEPT ![id].state = s],
             Free, Saving("lifecycle", id), UNCHANGED <<disk, deleted, stale>>
      PROVE  Restates
  <2>1. call' = [op |-> "lifecycle", id |-> id, step |-> "save"]
    BY <1>2 DEF Saving
  <2>2. call' \in SavingOne
    BY <2>1 DEF SavingOne, TypeOK, Live
  <2>3. ~Free' /\ call'.step # "up" /\ call'.op # "delete" /\ call'.id = id
    BY <2>1, <2>2, CallIsSome DEF Call
  <2>4. /\ Live' = Live
        /\ \A x \in Live : /\ machines'[x].name = machines[x].name
                           /\ machines'[x].port = machines[x].port
    BY <1>2 DEF TypeOK, Live, Machine
  <2>5. \A x : x = id \/ Same(machines, machines', x)
    BY <1>2 DEF Same, TypeOK
  <2> QED
    BY <1>2, <2>3, <2>4, <2>5 DEF Restates
<1>3. ASSUME NEW id \in Ids, NEW on \in BOOLEAN,
             LifecycleDone(id, on) \/ LifecycleFails(id, on)
      PROVE  Restates
  BY <1>2, <1>3 DEF LifecycleDone, LifecycleFails
<1>4. ASSUME NEW id \in Ids, DeleteDown(id) PROVE Restates
  <2>1. call' = [op |-> "delete", id |-> id, step |-> "remove"]
    BY <1>4 DEF DeleteDown
  <2>2. ~Free' /\ call'.step = "remove"
    BY <2>1, CallIsSome DEF Call, Removing
  <2>3. \A x : Same(machines, machines', x)
    BY <1>4 DEF DeleteDown, Same
  <2> QED
    BY <1>4, <2>2, <2>3 DEF DeleteDown, Restates, Live
<1> QED
  BY <1>1, <1>3, <1>4 DEF Get, List

\* Create begins with a name and a port that are nobody's.
LEMMA BeginsShape ==
    ASSUME TypeInv, NEW n \in Names, CreateBegin(n)
    PROVE  Begins \/ Rests
<1>1. PICK id \in Ids \ born, p \in Ports :
        /\ Usable(p)
        /\ \/ call' = [op |-> "create", id |-> id, step |-> "up", name |-> n, port |-> p]
           \/ UNCHANGED call
  BY DEF CreateBegin
<1>2. Free /\ UNCHANGED record /\ \A id2 \in Live : machines[id2].name # n
  BY DEF CreateBegin, record
<1>3. CASE UNCHANGED call
  BY <1>2, <1>3 DEF Rests
<1>4. CASE call' = [op |-> "create", id |-> id, step |-> "up", name |-> n, port |-> p]
  <2>1. ~Free'
    BY <1>4, CallIsSome DEF Call, Preparing
  <2> QED
    BY <1>1, <1>2, <1>4, <2>1 DEF Begins, Usable
<1> QED
  BY <1>1, <1>3, <1>4

\* Every step is one of these.
LEMMA StepShape ==
    ASSUME TypeInv, [Next]_vars
    PROVE  \/ Restates \/ Begins \/ Abandons \/ Rests
           \/ CreateUp \/ DeleteRemove \/ SaveTruncate \/ SaveWrite \/ Restart
<1>1. CASE CreateUpFails
  BY <1>1 DEF CreateUpFails, Abandons, Free, record
<1>2. CASE (\E p \in Ports : Occupy(p) \/ Vacate(p)) \/ UNCHANGED vars
  BY <1>2 DEF Occupy, Vacate, vars, Rests, record
<1>3. ASSUME NEW n \in Names, CreateBegin(n) PROVE Begins \/ Rests
  BY <1>3, BeginsShape
<1>4. CASE \/ \E id \in Ids : Get(id)
           \/ List
           \/ \E id \in Ids, on \in BOOLEAN : LifecycleDone(id, on) \/ LifecycleFails(id, on)
           \/ \E id \in Ids : DeleteDown(id)
  BY <1>4, RestatesShape
<1> QED
  BY <1>1, <1>2, <1>3, <1>4 DEF Next, Continue

\* What the steps of a call that change the machines leave to be done.
LEMMA CallAfter ==
    ASSUME TypeInv, CreateUp \/ DeleteRemove
    PROVE  /\ ~Free' /\ call'.step = "save"
           /\ call'.op = IF call.step = "up" THEN "create" ELSE "delete"
           /\ call'.id = call.id /\ call.id \in born
<1>1. /\ call.op # "refresh" /\ ~Free
      /\ call' = [op |-> IF call.step = "up" THEN "create" ELSE "delete",
                  id |-> call.id, step |-> "save"]
  <2>1. CASE CreateUp
    BY <2>1, CallKinds DEF CreateUp, Saving, Preparing
  <2>2. CASE DeleteRemove
    BY <2>2, CallKinds DEF DeleteRemove, Saving, Removing
  <2> QED
    BY <2>1, <2>2
<1>2. call.id \in born /\ call.id \in Ids
  BY <1>1, CallKinds DEF TypeInv, TypeOK
<1>3. call' \in Call
  BY <1>1, <1>2 DEF Call, SavingOne
<1> QED
  BY <1>1, <1>2, <1>3, CallIsSome

\* A save goes on or ends.
LEMMA SaveShape ==
    ASSUME TypeInv, SaveTruncate \/ SaveWrite
    PROVE  /\ ~Free /\ call.step \in {"save", "write"}
           /\ UNCHANGED <<machines, born>>
           /\ \/ /\ disk' = Torn /\ ~Free' /\ call'.step = "write"
                 /\ call'.op = call.op
                 /\ call.op # "refresh" => call'.id = call.id
                 /\ UNCHANGED <<deleted, stale>>
              \/ disk' = machines /\ Return(TRUE)
              \/ disk' = disk /\ Return(FALSE)
<1>1. CASE /\ SaveTruncate
           /\ disk' = Torn
           /\ call' = [call EXCEPT !.step = "write"]
           /\ UNCHANGED <<faults, stale, deleted>>
  <2>1. call \in SavingOne \cup SavingAll
    BY <1>1, CallKinds DEF SaveTruncate
  <2>2. /\ call' \in Call /\ call'.step = "write" /\ call'.op = call.op
        /\ call.op # "refresh" => call'.id = call.id
    BY <1>1, <2>1 DEF SavingOne, SavingAll, Call
  <2> QED
    BY <1>1, <2>2, CallIsSome DEF SaveTruncate
<1>2. CASE SaveTruncate /\ Return(FALSE) /\ UNCHANGED disk
  BY <1>2 DEF SaveTruncate
<1>3. CASE SaveWrite
  BY <1>3 DEF SaveWrite
<1> QED
  BY <1>1, <1>2, <1>3 DEF SaveTruncate

-----------------------------------------------------------------------------
(***************************************************************************)
(* A delete is final.  The machine must be gone from state.json as well,   *)
(* and a Delete on its way to its return must have removed it before.      *)
(***************************************************************************)

Buried(id) == id \notin Live /\ (disk # Torn => id \notin DOMAIN disk)

FinalInv ==
    /\ \A id \in deleted : Buried(id)
    /\ ~Free /\ call.step = "up" => call.id \notin deleted
    /\ ~Free /\ call.step \in {"save", "write"} /\ call.op = "delete" =>
           call.id \notin Live

\* Every step keeps the dead buried.
LEMMA FinalStep == TypeInv /\ FinalInv /\ [Next]_vars => FinalInv'
<1> SUFFICES ASSUME TypeInv, FinalInv, [Next]_vars PROVE FinalInv'
  OBVIOUS
<1> TypeOK
  BY DEF TypeInv
<1>1. CASE Restates
  BY <1>1 DEF Restates, FinalInv, Buried
<1>2. CASE Begins
  BY <1>2 DEF Begins, record, FinalInv, Buried, Live, TypeOK
<1>3. CASE Abandons \/ Rests
  BY <1>3 DEF Abandons, Rests, record, FinalInv, Buried, Live, Free
<1>4. CASE CreateUp
  <2>1. ~Free /\ call.step = "up" /\ call.id \notin deleted
    BY <1>4 DEF CreateUp, FinalInv
  <2>2. ~Free' /\ call'.step = "save" /\ call'.op = "create"
    BY <1>4, <2>1, CallAfter
  <2>3. Live' = Live \cup {call.id} /\ UNCHANGED <<disk, deleted>>
    BY <1>4 DEF CreateUp, With, Live
  <2> QED
    BY <2>1, <2>2, <2>3 DEF FinalInv, Buried
<1>5. CASE DeleteRemove
  <2>1. Live' = Live \ {call.id} /\ UNCHANGED <<disk, deleted>>
    BY <1>5 DEF DeleteRemove, Without, Live
  <2>2. ~Free' /\ call'.step = "save" /\ call'.id = call.id
    BY <1>5, CallAfter
  <2> QED
    BY <2>1, <2>2 DEF FinalInv, Buried
<1>6. CASE SaveTruncate \/ SaveWrite
  <2>1. /\ ~Free /\ call.step \in {"save", "write"} /\ Live' = Live
        /\ call.op = "delete" => call.id \notin Live
    BY <1>6, SaveShape DEF FinalInv, Live
  <2>2. CASE disk' = machines /\ Return(TRUE)
    BY <2>1, <2>2 DEF Return, FinalInv, Buried, Live, Free
  <2>3. CASE disk' = disk /\ Return(FALSE)
    BY <2>1, <2>3 DEF Return, FinalInv, Buried, Free
  <2>4. CASE /\ disk' = Torn /\ ~Free' /\ call'.step = "write"
             /\ call'.op = call.op
             /\ call.op # "refresh" => call'.id = call.id
             /\ UNCHANGED <<deleted, stale>>
    BY <2>1, <2>4 DEF FinalInv, Buried
  <2> QED
    BY <1>6, <2>2, <2>3, <2>4, SaveShape
<1>7. CASE Restart
  <2>1. Free' /\ UNCHANGED <<disk, deleted>>
    BY <1>7 DEF Restart, Free
  <2>2. \A id \in deleted : id \notin Live'
    <3>1. CASE disk = Torn
      BY <1>7, <3>1 DEF Restart, Live
    <3>2. CASE disk # Torn
      BY <1>7, <3>2 DEF Restart, Live, FinalInv, Buried
    <3> QED
      BY <3>1, <3>2
  <2> QED
    BY <2>1, <2>2 DEF FinalInv, Buried
<1> QED
  BY <1>1, <1>2, <1>3, <1>4, <1>5, <1>6, <1>7, StepShape

\* A Delete that returned nil is final, whenever krytond is killed and however
\* saves fail: no restart brings the machine back.
THEOREM DeletedForGoodAlways == Spec => []DeletedForGood
<1>1. Init => FinalInv
  BY DEF Init, FinalInv, Free
<1>2. FinalInv => DeletedForGood
  BY DEF FinalInv, Buried, DeletedForGood
<1> QED
  BY <1>1, <1>2, FinalStep, TypeInvariant, PTL DEF Spec

-----------------------------------------------------------------------------
(***************************************************************************)
(* Distinct names and ports, of the machines and of those in state.json.   *)
(***************************************************************************)

Distinct(m) ==
    \A a, b \in DOMAIN m : a # b => m[a].port # m[b].port /\ m[a].name # m[b].name

DistinctInv ==
    /\ Distinct(machines)
    /\ disk # Torn => Distinct(disk)
    /\ ~Free /\ call.step = "up" =>
           \A id \in Live : /\ machines[id].name # call.name
                            /\ machines[id].port # call.port

\* Every step keeps names and ports distinct.
LEMMA DistinctStep == TypeInv /\ DistinctInv /\ [Next]_vars => DistinctInv'
<1> SUFFICES ASSUME TypeInv, DistinctInv, [Next]_vars PROVE DistinctInv'
  OBVIOUS
<1>1. CASE Restates
  BY <1>1 DEF Restates, DistinctInv, Distinct, Live
<1>2. CASE Begins
  BY <1>2 DEF Begins, record, DistinctInv, Live
<1>3. CASE Abandons \/ Rests
  BY <1>3 DEF Abandons, Rests, record, DistinctInv, Live, Free
<1>4. CASE CreateUp
  <2>1. \A id \in Live : machines[id].name # call.name /\ machines[id].port # call.port
    BY <1>4 DEF CreateUp, DistinctInv
  <2>2. /\ Live' = Live \cup {call.id} /\ disk' = disk
        /\ machines'[call.id].name = call.name /\ machines'[call.id].port = call.port
        /\ \A x \in Live \ {call.id} : machines'[x] = machines[x]
    BY <1>4 DEF CreateUp, With, Live
  <2>3. ~Free' /\ call'.step = "save"
    BY <1>4, CallAfter
  <2>4. Distinct(machines)'
    BY <2>1, <2>2 DEF DistinctInv, Distinct, Live
  <2> QED
    BY <2>2, <2>3, <2>4 DEF DistinctInv
<1>5. CASE DeleteRemove
  <2>1. /\ Live' = Live \ {call.id} /\ disk' = disk
        /\ \A x \in Live \ {call.id} : machines'[x] = machines[x]
    BY <1>5 DEF DeleteRemove, Without, Live
  <2>2. ~Free' /\ call'.step = "save"
    BY <1>5, CallAfter
  <2> QED
    BY <2>1, <2>2 DEF DistinctInv, Distinct, Live
<1>6. CASE SaveTruncate \/ SaveWrite
  <2>1. machines' = machines /\ disk' \in {Torn, machines, disk}
    BY <1>6, SaveShape
  <2>2. Free' \/ call'.step = "write"
    BY <1>6, SaveShape DEF Return, Free
  <2> QED
    BY <2>1, <2>2 DEF DistinctInv
<1>7. CASE Restart
  <2>1. Free' /\ disk' = disk
    BY <1>7 DEF Restart, Free
  <2>2. Distinct(machines)'
    <3>1. CASE disk = Torn
      BY <1>7, <3>1 DEF Restart, Distinct
    <3>2. CASE disk # Torn
      BY <1>7, <3>2 DEF Restart, DistinctInv
    <3> QED
      BY <3>1, <3>2
  <2> QED
    BY <2>1, <2>2 DEF DistinctInv
<1> QED
  BY <1>1, <1>2, <1>3, <1>4, <1>5, <1>6, <1>7, StepShape

\* No two machines share a port or a name, stopped machines and those reloaded
\* after a kill included, though a port is tried and released before it is used.
THEOREM DistinctMachinesAlways == Spec => []DistinctMachines
<1>1. Init => DistinctInv
  BY DEF Init, DistinctInv, Distinct, Free
<1>2. DistinctInv => DistinctMachines
  BY DEF DistinctInv, Distinct, DistinctMachines, Live
<1> QED
  BY <1>1, <1>2, DistinctStep, TypeInvariant, PTL DEF Spec

-----------------------------------------------------------------------------
(***************************************************************************)
(* What a kill costs.  While the last save succeeded and no other has      *)
(* begun, state.json differs from the machines by what the call under way  *)
(* has done.  Create may return without a save when compose fails, so      *)
(* while it prepares, state.json has to be the machines as they are.       *)
(***************************************************************************)

Behind ==
    IF Free \/ call.step = "up" THEN disk = machines
    ELSE IF call.op = "refresh" THEN DOMAIN disk = Live
    ELSE \A id : id = call.id \/ Same(disk, machines, id)

BehindInv == ~stale /\ disk # Torn => Behind

\* Every step leaves state.json no further behind than that.
LEMMA BehindStep == TypeInv /\ BehindInv /\ [Next]_vars => BehindInv'
<1> SUFFICES ASSUME TypeInv, BehindInv, [Next]_vars PROVE BehindInv'
  OBVIOUS
<1>1. CASE Restates
  <2>1. ~stale /\ disk # Torn => disk = machines
    BY <1>1 DEF Restates, BehindInv, Behind
  <2> QED
    BY <1>1, <2>1 DEF Restates, BehindInv, Behind, Live
<1>2. CASE Begins
  BY <1>2 DEF Begins, record, BehindInv, Behind
<1>3. CASE Abandons
  BY <1>3 DEF Abandons, record, BehindInv, Behind
<1>4. CASE Rests
  BY <1>4 DEF Rests, record, BehindInv, Behind, Free, Live
<1>5. CASE CreateUp
  <2>1. ~stale /\ disk # Torn => disk = machines
    BY <1>5 DEF CreateUp, BehindInv, Behind
  <2>2. ~Free' /\ call'.step = "save" /\ call'.op = "create" /\ call'.id = call.id
    BY <1>5, CallAfter DEF CreateUp
  <2>3. UNCHANGED <<disk, stale>> /\ \A id : id = call.id \/ Same(machines, machines', id)
    BY <1>5 DEF CreateUp, With, Same
  <2> QED
    BY <2>1, <2>2, <2>3 DEF BehindInv, Behind
<1>6. CASE DeleteRemove
  <2>1. ~Free /\ call.step = "remove" /\ call.op = "delete"
    BY <1>6, CallKinds DEF DeleteRemove, Removing
  <2>2. ~Free' /\ call'.step = "save" /\ call'.op = "delete" /\ call'.id = call.id
    BY <1>6, <2>1, CallAfter
  <2>3. ~stale /\ disk # Torn => \A id : id = call.id \/ Same(disk, machines, id)
    BY <2>1 DEF BehindInv, Behind
  <2>4. UNCHANGED <<disk, stale>> /\ \A id : id = call.id \/ Same(machines, machines', id)
    BY <1>6 DEF DeleteRemove, Without, Same
  <2>5. \A id : Same(disk, machines, id) /\ Same(machines, machines', id)
                  => Same(disk, machines', id)
    BY DEF Same
  <2> QED
    BY <2>2, <2>3, <2>4, <2>5 DEF BehindInv, Behind
<1>7. CASE SaveTruncate \/ SaveWrite
  BY <1>7, SaveShape DEF BehindInv, Behind, Return, Free
<1>8. CASE Restart
  BY <1>8 DEF Restart, BehindInv, Behind, Free
<1> QED
  BY <1>1, <1>2, <1>3, <1>4, <1>5, <1>6, <1>7, <1>8, StepShape

\* When the last save succeeded and the kill is not in the middle of one, a restart
\* finds every machine as it was but the one the interrupted call was about.
THEOREM KillCostsOneCallAlways == Spec => KillCostsOneCall
<1>1. Init => BehindInv
  BY DEF Init, BehindInv, Behind, Free
<1>2. ASSUME TypeInv, BehindInv, Restart, ~stale, disk # Torn
      PROVE  IF ~Free /\ call.op = "refresh" THEN Live' = Live
             ELSE \A id \in Ids : \/ ~Free /\ call.id = id
                                  \/ Same(machines, machines', id)
  <2>1. machines' = disk /\ Behind
    BY <1>2 DEF Restart, BehindInv
  <2>2. \A id : Same(disk, machines, id) => Same(machines, disk, id)
    BY DEF Same
  <2>3. CASE Free \/ call.step = "up"
    <3>1. machines' = machines
      BY <2>1, <2>3 DEF Behind
    <3> QED
      BY <3>1 DEF Same, Live
  <2>4. CASE ~Free /\ call.step # "up" /\ call.op = "refresh"
    BY <2>1, <2>4 DEF Behind, Live
  <2>5. CASE ~Free /\ call.step # "up" /\ call.op # "refresh"
    BY <2>1, <2>2, <2>5 DEF Behind
  <2> QED
    BY <2>3, <2>4, <2>5
<1>3. TypeInv /\ BehindInv /\ [Next]_vars =>
        [Restart /\ ~stale /\ disk # Torn =>
           IF ~Free /\ call.op = "refresh" THEN Live' = Live
           ELSE \A id \in Ids : \/ ~Free /\ call.id = id
                                \/ Same(machines, machines', id)]_vars
  BY <1>2
<1> QED
  BY <1>1, <1>3, BehindStep, TypeInvariant, PTL DEF Spec, KillCostsOneCall

-----------------------------------------------------------------------------
(***************************************************************************)
(* While nothing has gone wrong, machines, containers and directories      *)
(* agree between calls.  A call that is under way has done the part of its *)
(* work that its step says; no other program listens, so that compose      *)
(* never fails for want of a port.                                         *)
(***************************************************************************)

Stands(id) ==
    /\ containers[id].port = machines[id].port
    /\ containers[id].up <=> machines[id].state # "stopped"

UpAt(step) == ~Free /\ call.step = step

AgreeInv ==
    faults = 0 =>
        /\ foreign = {}
        /\ \A id \in Live \cap DOMAIN containers : Stands(id)
        /\ IF UpAt("up")
             THEN /\ DOMAIN containers = Live /\ dirs = Live \cup {call.id}
                  /\ call.id \notin Live
             ELSE IF UpAt("remove")
             THEN DOMAIN containers = Live \ {call.id} /\ dirs = Live
             ELSE DOMAIN containers = Live /\ dirs = Live

\* What goes wrong is counted.
LEMMA FaultShows ==
    ASSUME TypeOK, Fault PROVE faults' # 0
BY DEF Fault, TypeOK

\* Without other programs a port that no machine has is free, and one that a
\* machine has is listened to by that machine's container only.
LEMMA NobodyElseListens ==
    ASSUME TypeInv, DistinctInv, AgreeInv, faults = 0
    PROVE  /\ \A p : (\A id \in Live : machines[id].port # p) => ~Listening(p)
           /\ ~UpAt("up") /\ ~UpAt("remove") =>
                 \A id \in Live, on \in BOOLEAN : Workable(id, on)
<1>1. /\ foreign = {} /\ DOMAIN containers \subseteq Live
      /\ \A id \in DOMAIN containers : containers[id].port = machines[id].port
  BY DEF AgreeInv, Stands
<1>2. ASSUME NEW p, \A id \in Live : machines[id].port # p PROVE ~Listening(p)
  BY <1>1, <1>2 DEF Listening
<1>3. ASSUME ~UpAt("up"), ~UpAt("remove"), NEW id \in Live, NEW on \in BOOLEAN
      PROVE  Workable(id, on)
  <2>1. DOMAIN containers = Live /\ dirs = Live
    BY <1>3 DEF AgreeInv
  <2>2. \A c \in DOMAIN containers : c # id => containers[c].port # containers[id].port
    BY <1>1, <2>1 DEF DistinctInv, Distinct, Live
  <2> QED
    BY <1>1, <2>1, <2>2 DEF Workable, Listening
<1> QED
  BY <1>2, <1>3

\* Starting and stopping, which do not fail while all is well.
LEMMA AgreeLifecycle ==
    ASSUME TypeInv, DistinctInv, AgreeInv, NEW id \in Ids, NEW on \in BOOLEAN,
           LifecycleDone(id, on) \/ LifecycleFails(id, on)
    PROVE  AgreeInv'
<1> TypeOK
  BY DEF TypeInv
<1> SUFFICES ASSUME faults' = 0 PROVE AgreeInv'
  BY DEF AgreeInv
<1>1. Free /\ id \in Live /\ ~UpAt("up") /\ ~UpAt("remove")
  BY DEF LifecycleDone, LifecycleFails, UpAt
<1>2. CASE LifecycleFails(id, on)
  <2>1. ~Fault
    BY FaultShows
  <2>2. ~Workable(id, on) /\ faults = 0
    BY <1>2, <2>1 DEF LifecycleFails
  <2> QED
    BY <1>1, <2>2, NobodyElseListens
<1>3. CASE LifecycleDone(id, on)
  <2>1. /\ faults = 0 /\ UNCHANGED <<dirs, foreign>>
        /\ containers' = Powered(id, on)
        /\ machines' = [machines EXCEPT ![id].state = IF on THEN "running" ELSE "stopped"]
        /\ call' = [op |-> "lifecycle", id |-> id, step |-> "save"]
    BY <1>3 DEF LifecycleDone, Saving
  <2>2. DOMAIN containers = Live /\ dirs = Live /\ foreign = {}
    BY <1>1, <2>1 DEF AgreeInv
  <2>3. ~UpAt("up")' /\ ~UpAt("remove")'
    BY <2>1 DEF UpAt
  <2>4. /\ Live' = Live /\ DOMAIN containers' = DOMAIN containers
        /\ \A x \in Live \ {id} : machines'[x] = machines[x] /\ containers'[x] = containers[x]
    BY <2>1, <2>2 DEF Powered, Live, TypeOK
  <2>5. /\ machines'[id].port = machines[id].port
        /\ machines'[id].state = IF on THEN "running" ELSE "stopped"
    BY <1>1, <2>1 DEF TypeOK, Live, Machine
  <2>6. /\ containers'[id].port = containers[id].port
        /\ containers'[id].up = on
    BY <1>1, <2>1, <2>2 DEF Powered, TypeOK, Container
  <2>7. \A x \in Live : Stands(x)
    BY <2>1, <2>2 DEF AgreeInv
  <2>8. \A x \in Live : Stands(x)'
    BY <1>1, <2>4, <2>5, <2>6, <2>7 DEF Stands
  <2> QED
    BY <2>1, <2>2, <2>3, <2>4, <2>8 DEF AgreeInv
<1> QED
  BY <1>2, <1>3

\* Create: the port it took stays free until its container is up.
LEMMA AgreeCreate ==
    ASSUME TypeInv, DistinctInv, AgreeInv,
           (\E n \in Names : CreateBegin(n)) \/ CreateUp \/ CreateUpFails
    PROVE  AgreeInv'
<1> TypeOK
  BY DEF TypeInv
<1> SUFFICES ASSUME faults' = 0 PROVE AgreeInv'
  BY DEF AgreeInv
<1>1. ASSUME NEW n \in Names, CreateBegin(n) PROVE AgreeInv'
  <2>1. PICK id \in Ids \ born, p \in Ports :
          /\ dirs' = dirs \cup {id}
          /\ \/ /\ call' = [op |-> "create", id |-> id, step |-> "up",
                            name |-> n, port |-> p]
                /\ UNCHANGED faults
             \/ Fault
    BY <1>1 DEF CreateBegin
  <2>2. Free /\ UNCHANGED <<machines, containers, foreign>>
    BY <1>1 DEF CreateBegin
  <2>3. faults = 0 /\ call' = [op |-> "create", id |-> id, step |-> "up",
                               name |-> n, port |-> p]
    BY <2>1, FaultShows
  <2>4. call' \in Call
    BY <2>3 DEF Call, Preparing
  <2>5. UpAt("up")' /\ call'.id = id /\ ~UpAt("up") /\ ~UpAt("remove")
    BY <2>2, <2>3, <2>4, CallIsSome DEF UpAt
  <2>6. id \notin Live
    BY DEF Live, TypeOK
  <2> QED
    BY <2>1, <2>2, <2>3, <2>5, <2>6 DEF AgreeInv, Live, Stands
<1>2. CASE CreateUp
  <2>1. /\ UpAt("up") /\ faults = 0 /\ UNCHANGED <<dirs, foreign>>
        /\ containers' = With(containers, call.id, [port |-> call.port, up |-> TRUE])
        /\ machines' = With(machines, call.id, [name |-> call.name, port |-> call.port,
                                                state |-> "provisioning"])
    BY <1>2 DEF CreateUp, UpAt
  <2>2. call'.step = "save"
    BY <1>2, CallAfter
  <2>3. /\ DOMAIN containers = Live /\ dirs = Live \cup {call.id} /\ foreign = {}
        /\ \A x \in Live : Stands(x)
    BY <2>1 DEF AgreeInv
  <2>4. /\ Live' = Live \cup {call.id} /\ DOMAIN containers' = Live \cup {call.id}
        /\ \A x \in Live \ {call.id} : machines'[x] = machines[x] /\ containers'[x] = containers[x]
        /\ machines'[call.id] = [name |-> call.name, port |-> call.port,
                                 state |-> "provisioning"]
        /\ containers'[call.id] = [port |-> call.port, up |-> TRUE]
    BY <2>1, <2>3 DEF With, Live
  <2>5. \A x \in Live' : Stands(x)'
    BY <2>3, <2>4 DEF Stands
  <2>6. ~UpAt("up")' /\ ~UpAt("remove")'
    BY <2>2 DEF UpAt
  <2> QED
    BY <2>1, <2>3, <2>4, <2>5, <2>6 DEF AgreeInv
<1>3. CASE CreateUpFails
  <2>1. ~Free /\ call.step = "up" /\ Listening(call.port) /\ faults = 0
    BY <1>3, FaultShows DEF CreateUpFails
  <2>2. \A id \in Live : machines[id].port # call.port
    BY <2>1 DEF DistinctInv
  <2> QED
    BY <2>1, <2>2, NobodyElseListens
<1> QED
  BY <1>1, <1>2, <1>3

\* Get, List and Delete.
LEMMA AgreeOthers ==
    ASSUME TypeInv, AgreeInv,
           \/ \E id \in Ids : Get(id)
           \/ List
           \/ \E id \in Ids : DeleteDown(id)
           \/ DeleteRemove
    PROVE  AgreeInv'
<1> TypeOK
  BY DEF TypeInv
<1> SUFFICES ASSUME faults' = 0 PROVE AgreeInv'
  BY DEF AgreeInv
<1>1. ASSUME NEW ids, Refresh(ids) PROVE AgreeInv'
  <2>1. PICK ready \in SUBSET {id \in ids : machines[id].state = "provisioning"
                                            /\ Listening(machines[id].port)} :
          machines' = [id \in Live |-> IF id \in ready
                          THEN [machines[id] EXCEPT !.state = "running"]
                          ELSE machines[id]]
    BY <1>1 DEF Refresh
  <2>2. /\ Free /\ UNCHANGED <<dirs, containers, foreign, faults>>
        /\ call' = [op |-> "refresh", step |-> "save"]
    BY <1>1 DEF Refresh, world
  <2>3. ~UpAt("up") /\ ~UpAt("remove") /\ ~UpAt("up")' /\ ~UpAt("remove")'
    BY <2>2 DEF UpAt
  <2>4. /\ Live' = Live
        /\ \A x \in Live : /\ machines'[x].port = machines[x].port
                           /\ machines'[x].state # "stopped" <=> machines[x].state # "stopped"
    BY <2>1 DEF Live, TypeOK, Machine
  <2>5. \A x \in Live : Stands(x) => Stands(x)'
    BY <2>2, <2>4 DEF Stands
  <2> QED
    BY <2>2, <2>3, <2>4, <2>5 DEF AgreeInv
<1>2. ASSUME NEW id \in Ids, DeleteDown(id) PROVE AgreeInv'
  <2>1. /\ Free /\ id \in Live /\ UNCHANGED <<machines, dirs, foreign>>
        /\ call' = [op |-> "delete", id |-> id, step |-> "remove"]
    BY <1>2 DEF DeleteDown
  <2>2. faults = 0
    BY <1>2, FaultShows DEF DeleteDown
  <2>3. DOMAIN containers = Live /\ dirs = Live /\ foreign = {} /\ \A x \in Live : Stands(x)
    BY <2>1, <2>2 DEF AgreeInv, UpAt
  <2>4. containers' = Without(containers, id)
    BY <1>2, <2>1, <2>3, FaultShows DEF DeleteDown
  <2>5. ~UpAt("up")' /\ UpAt("remove")' /\ call'.id = id
    BY <2>1, CallIsSome DEF UpAt, Call, Removing
  <2>6. /\ DOMAIN containers' = Live \ {id}
        /\ \A x \in Live \ {id} : containers'[x] = containers[x]
    BY <2>3, <2>4 DEF Without
  <2>7. \A x \in Live \ {id} : Stands(x)'
    BY <2>1, <2>3, <2>6 DEF Stands
  <2> QED
    BY <2>1, <2>3, <2>5, <2>6, <2>7 DEF AgreeInv, Live
<1>3. CASE DeleteRemove
  <2>1. /\ UpAt("remove") /\ ~UpAt("up") /\ faults = 0 /\ UNCHANGED <<containers, foreign>>
        /\ dirs' = dirs \ {call.id} /\ machines' = Without(machines, call.id)
    BY <1>3 DEF DeleteRemove, UpAt
  <2>2. ~UpAt("up")' /\ ~UpAt("remove")'
    BY <1>3, CallAfter DEF UpAt
  <2>3. /\ DOMAIN containers = Live \ {call.id} /\ dirs = Live /\ foreign = {}
        /\ \A x \in Live \ {call.id} : Stands(x)
    BY <2>1 DEF AgreeInv
  <2>4. /\ Live' = Live \ {call.id}
        /\ \A x \in Live \ {call.id} : machines'[x] = machines[x]
    BY <2>1 DEF Without, Live
  <2>5. \A x \in Live' : Stands(x)'
    BY <2>1, <2>3, <2>4 DEF Stands
  <2> QED
    BY <2>1, <2>2, <2>3, <2>4, <2>5 DEF AgreeInv
<1> QED
  BY <1>1, <1>2, <1>3 DEF Get, List

\* Every step keeps the world in order, or is counted as a fault.
LEMMA AgreeStep == TypeInv /\ DistinctInv /\ AgreeInv /\ [Next]_vars => AgreeInv'
<1> SUFFICES ASSUME TypeInv, DistinctInv, AgreeInv, [Next]_vars PROVE AgreeInv'
  OBVIOUS
<1> TypeOK
  BY DEF TypeInv
<1>1. CASE SaveTruncate \/ SaveWrite
  <2>1. UNCHANGED <<machines, dirs, containers, foreign>> /\ (faults' = faults \/ Fault)
    BY <1>1 DEF SaveTruncate, SaveWrite, world
  <2>2. /\ ~UpAt("up") /\ ~UpAt("remove")
        /\ ~UpAt("up")' /\ ~UpAt("remove")'
    BY <1>1, SaveShape DEF UpAt, Return, Free
  <2>3. \A x : Stands(x)' <=> Stands(x)
    BY <2>1 DEF Stands
  <2>4. faults' = 0 => faults = 0
    BY <2>1, FaultShows
  <2> QED
    BY <2>1, <2>2, <2>3, <2>4 DEF AgreeInv, Live
<1>2. CASE Restart \/ \E p \in Ports : Occupy(p)
  BY <1>2, FaultShows DEF Restart, Occupy, AgreeInv
<1>3. ASSUME NEW p \in Ports, Vacate(p) PROVE AgreeInv'
  <2>1. UNCHANGED <<machines, call, dirs, containers, faults>> /\ foreign' = foreign \ {p}
    BY <1>3 DEF Vacate
  <2> QED
    BY <2>1 DEF AgreeInv, UpAt, Free, Live, Stands
<1>4. CASE UNCHANGED vars
  BY <1>4 DEF vars, world, AgreeInv, UpAt, Free, Live, Stands
<1> QED
  BY <1>1, <1>2, <1>3, <1>4, AgreeLifecycle, AgreeCreate, AgreeOthers DEF Next, Continue

\* While nothing goes wrong, every machine has its container and its directory,
\* and they have no others, whatever order creates, starts, stops and deletes come in.
THEOREM WorldAgreesAlways == Spec => []WorldAgrees
<1>1. Init => AgreeInv /\ DistinctInv
  BY DEF Init, AgreeInv, UpAt, Free, Live, Stands, DistinctInv, Distinct
<1>2. AgreeInv => WorldAgrees
  BY DEF AgreeInv, WorldAgrees, UpAt, Stands
<1> QED
  BY <1>1, <1>2, DistinctStep, AgreeStep, TypeInvariant, PTL DEF Spec

=============================================================================
