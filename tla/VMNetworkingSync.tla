--------------------------- MODULE VMNetworkingSync ---------------------------
(***************************************************************************)
(* When the agent rests with a running VM, the VM has the routes and the   *)
(* resolvers of its NICs: RestsRouted, for every VM, any NICs, networks,   *)
(* routes and resolvers, and any bounds.                                   *)
(***************************************************************************)
EXTENDS VMNetworkingProofs

\* The list that the agent is about to handle is up to date, and so is the VM
\* of the InstanceFSM once it is handled, unless another list is to come.
Aware ==
  /\ (list # None /\ ~watch) => list = zone
  /\ (Known /\ list = None /\ ~watch) =>
       zone.has = "vm" /\ inst.vm = zone.vm

\* No list and no event is on its way to the InstanceFSM, nor has it put one
\* off until it hears of its vmadm run.
Heard ==
  /\ ~watch /\ list = None /\ ~inst.armed
  /\ ~(inst.st = "update.vm" /\ inst.updated)

\* If so, the InstanceFSM has compared what the VM has with what its NICs
\* bring now, and if vmadm has changed the VM, a list is on its way.
Compares == Heard => Compared(inst, Remote) /\ inst.reply # "ok"

SyncInv == IInv /\ Aware /\ Compares

-----------------------------------------------------------------------------
LEMMA ComparedOf ==
  ASSUME NEW i, NEW j, i.st = j.st, i.vm = j.vm, i.call = j.call,
         NEW remote, Compared(i, remote)
  PROVE  Compared(j, remote)
<1>1. Payload(i, remote) = Payload(j, remote)
  BY PayloadOfVm
<1>2. \A p : NothingToDo(i, p) <=> NothingToDo(j, p)
  BY PayloadOfVm
<1> QED BY <1>1, <1>2 DEF Compared

\* There is nothing to compare without the VM.
LEMMA LeftCompared ==
  ASSUME NEW i, i.st \in {"none", "remove", "crashed"}, NEW remote
  PROVE  Compared(i, remote)
BY DEF Compared

LEMMA StatesOfInst ==
  ASSUME IInv
  PROVE  /\ inst \in Inst /\ InstOk(inst) /\ Remote \in Remotes
         /\ inst.st \in InstStates
         /\ ~Known => inst.st \in {"none", "remove", "crashed"}
         /\ inst.reply # None => inst.st = "update.vm"
         /\ inst.call # None => inst.st = "update.vm"
<1>1. inst \in Inst /\ InstOk(inst) /\ Remote \in Remotes
  BY RemoteTyped DEF IInv, TypeOK
<1>2. inst.st \in InstStates
  BY <1>1 DEF Inst, InstStates
<1> QED BY <1>1, <1>2 DEF InstOk, Known

\* The steps that leave the InstanceFSM and the VM alone: what the NICs bring
\* changes only with a new list on its way.
LEMMA FrameSync ==
  ASSUME SyncInv, UNCHANGED <<inst, list, zone>>, watch => watch',
         (Known /\ zone.has # "gone") => Remote' = Remote \/ watch'
  PROVE  Aware' /\ Compares'
<1>1. Known' <=> Known
  BY DEF Known
<1>2. Aware'
  BY <1>1 DEF SyncInv, Aware
<1>3. ASSUME Heard'
      PROVE  Compared(inst, Remote') /\ inst.reply # "ok"
  <2>1. Heard /\ ~watch'
    BY <1>3 DEF Heard
  <2>2. Compared(inst, Remote) /\ inst.reply # "ok"
    BY <2>1 DEF SyncInv, Compares
  <2>3. CASE Known
    <3>1. Remote' = Remote
      BY <2>1, <2>3 DEF SyncInv, Aware, Heard
    <3> QED BY <2>2, <3>1
  <2>4. CASE ~Known
    BY <2>2, <2>4, StatesOfInst, LeftCompared DEF SyncInv
  <2> QED BY <2>3, <2>4
<1>4. Compares'
  BY <1>3 DEF Compares
<1> QED BY <1>2, <1>4

\* The turns of the InstanceFSM.
LEMMA TurnSync ==
  ASSUME SyncInv, NEW j, inst' = j, j.vm = inst.vm,
         UNCHANGED <<list, zone>>, watch => watch', Remote' = Remote,
         j.st \notin {"none", "remove", "crashed"} => Known,
         Heard' => Compared(j, Remote) /\ j.reply # "ok"
  PROVE  Aware' /\ Compares'
<1>1. Known' => Known
  BY DEF Known
<1>2. Aware'
  BY <1>1 DEF SyncInv, Aware
<1>3. Compares'
  BY DEF Compares
<1> QED BY <1>2, <1>3

LEMMA AssertedSync ==
  ASSUME SyncInv, UpdateAsserted, Remote' = Remote
  PROVE  Aware' /\ Compares'
<1>1. PICK j : j = EmitUpdate(inst, Remote)
  OBVIOUS
<1>2. /\ inst \in Inst /\ InstOk(inst) /\ Remote \in Remotes
      /\ inst.st \in InstStates
  BY StatesOfInst DEF SyncInv
<1>3. inst' = j /\ UNCHANGED <<list, zone, watch>>
  BY <1>1 DEF UpdateAsserted, SettleInst
<1>4. /\ j \in Inst /\ InstOk(j) /\ j.vm = inst.vm /\ ~j.armed
      /\ inst.st \in {"waiting", "update.wait", "remove"} =>
           Compared(j, Remote) /\ ~j.updated /\ j.reply = None
      /\ inst.st = "update.vm" =>
           /\ j.updated
           /\ j.st = inst.st /\ j.call = inst.call /\ j.reply = inst.reply
      /\ inst.st \in {"none", "crashed"} => j.st = inst.st /\ j.call = inst.call
  BY <1>1, <1>2, EmitUpdateTurn
<1>5. j.st \notin {"none", "remove", "crashed"} => Known
  <2>1. j.st \notin {"none", "remove", "crashed"} =>
          j.st \in {"waiting", "update.wait", "update.vm"}
    BY <1>4 DEF Inst
  <2> QED BY <1>2, <1>4, <2>1 DEF InstOk, Known
<1>6. ASSUME Heard'
      PROVE  Compared(j, Remote) /\ j.reply # "ok"
  <2>1. ~(j.st = "update.vm" /\ j.updated)
    BY <1>3, <1>6 DEF Heard
  <2>2. CASE inst.st \in {"waiting", "update.wait", "remove"}
    BY <1>4, <2>2, NoneIsNoVm
  <2>3. CASE inst.st = "update.vm"
    BY <1>4, <2>1, <2>3
  <2>4. CASE inst.st \in {"none", "crashed"}
    <3>1. j.st \in {"none", "remove", "crashed"} /\ j.reply = None
      BY <1>4, <2>4 DEF InstOk
    <3> QED BY <3>1, LeftCompared, NoneIsNoVm
  <2> QED BY <1>2, <2>2, <2>3, <2>4 DEF InstStates
<1> QED BY <1>3, <1>4, <1>5, <1>6, TurnSync

LEMMA StateChangedSync ==
  ASSUME SyncInv, NicStateChanged, Remote' = Remote
  PROVE  Aware' /\ Compares'
<1>1. PICK j : j = EnterUpdateWait(inst, Remote)
  OBVIOUS
<1>2. inst \in Inst /\ InstOk(inst) /\ Remote \in Remotes
  BY StatesOfInst DEF SyncInv
<1>3. /\ inst' = j /\ UNCHANGED <<list, zone, watch>>
      /\ inst.st = "update.wait"
  BY <1>1 DEF NicStateChanged, SettleInst
<1>4. inst.vm \in Vm /\ Known
  BY <1>2, <1>3 DEF InstOk, Inst, Known
<1>5. InstEntered(inst, j, Remote)
  BY <1>1, <1>2, <1>4, UpdateWaitEntered
<1>6. j.vm = inst.vm /\ Compared(j, Remote) /\ j.reply # "ok"
  BY <1>5, NoneIsNoVm DEF InstEntered
<1> QED BY <1>3, <1>4, <1>6, TurnSync

\* The answer to a vmadm run is heard: a success without a list on its way
\* would mean that nothing was changed.
LEMMA CallbackSync ==
  ASSUME SyncInv, VmCallback, Remote' = Remote
  PROVE  Aware' /\ Compares'
<1>1. PICK j : j = AfterVmUpdate(inst, Remote)
  OBVIOUS
<1>2. /\ inst \in Inst /\ InstOk(inst) /\ Remote \in Remotes
      /\ inst.reply # None => inst.st = "update.vm"
  BY StatesOfInst DEF SyncInv
<1>3. /\ inst' = j /\ UNCHANGED <<list, zone>> /\ inst.reply # None
      /\ watch' = (watch \/ inst.reply = "failed")
  BY <1>1 DEF VmCallback, SettleInst, AsksForList
<1>4. /\ j.vm = inst.vm /\ j.armed = inst.armed /\ j.reply = None
      /\ inst.updated => Compared(j, Remote)
      /\ ~inst.updated => j.st = "waiting"
  BY <1>1, <1>2, <1>3, AfterVmTurn
<1>5. Known /\ inst.reply \in {"ok", "failed"}
  BY <1>2, <1>3 DEF Known, Inst
<1>6. ASSUME Heard'
      PROVE  Compared(j, Remote) /\ j.reply # "ok"
  <2>1. inst.updated
    BY <1>3, <1>4, <1>5, <1>6 DEF Heard, SyncInv, Compares
  <2> QED BY <1>4, <2>1, NoneIsNoVm
<1> QED BY <1>3, <1>4, <1>5, <1>6, TurnSync

\* What vmadm makes of a VM that is not gone.
LEMMA UpdatedFields ==
  ASSUME IInv, zone.has # "gone", NEW p, Updated(p) = zone
  PROVE  /\ Applied(zone.vm.routes, p.set, p.remove) = zone.vm.routes
         /\ p.resolvers = zone.vm.resolvers
<1>1. zone.vm \in Vm /\ zone \in [has : {"vm", "hidden"}, vm : Vm]
  BY DEF IInv, TypeOK, Zones
<1>2. PICK r : r = Applied(zone.vm.routes, p.set, p.remove)
  OBVIOUS
<1>3. zone = [zone EXCEPT !.vm.routes = r, !.vm.resolvers = p.resolvers]
  BY <1>2 DEF Updated
<1>4. PICK v : v = [zone.vm EXCEPT !.routes = r, !.resolvers = p.resolvers]
  OBVIOUS
<1>5. v.routes = r /\ v.resolvers = p.resolvers
  BY <1>1, <1>4 DEF Vm
<1>6. zone = [zone EXCEPT !.vm = v]
  BY <1>1, <1>3, <1>4
<1>7. zone.vm = v
  BY <1>1, <1>6
<1> QED BY <1>2, <1>5, <1>7

\* A vmadm run that is worth it changes the VM.
LEMMA ServeSync ==
  ASSUME SyncInv, ServeVm, Remote' = Remote
  PROVE  Aware' /\ Compares'
<1>1. /\ inst \in Inst /\ InstOk(inst) /\ Remote \in Remotes
      /\ inst.call # None => inst.st = "update.vm"
  BY StatesOfInst DEF SyncInv
<1>2. /\ inst.call # None /\ inst.reply = None
      /\ zone' = Updated(inst.call) /\ watch' = (watch \/ zone' # zone)
      /\ UNCHANGED list
  BY DEF ServeVm
<1>3. PICK a : inst' = [inst EXCEPT !.reply = a]
  BY DEF ServeVm
<1>4. /\ inst'.st = inst.st /\ inst'.vm = inst.vm /\ inst'.armed = inst.armed
      /\ inst'.updated = inst.updated
  BY <1>1, <1>3 DEF Inst
<1>5. Known' <=> Known
  BY <1>4 DEF Known
<1>6. Aware'
  BY <1>2, <1>4, <1>5 DEF SyncInv, Aware
<1>7. ~Heard'
  <2> SUFFICES ASSUME Heard' PROVE FALSE
    OBVIOUS
  <2>1. Heard /\ zone' = zone
    BY <1>2, <1>4 DEF Heard
  <2>2. Known /\ zone.has = "vm" /\ inst.vm = zone.vm
    BY <1>1, <1>2, <2>1 DEF SyncInv, Aware, Heard, Known
  <2>3. PICK p : p = inst.call
    OBVIOUS
  <2>4. Offers(Remote) /\ p = Payload(inst, Remote) /\ ~NothingToDo(inst, p)
    BY <1>1, <1>2, <2>1, <2>3 DEF SyncInv, Compares, Compared
  <2>5. /\ Applied(zone.vm.routes, p.set, p.remove) = zone.vm.routes
        /\ p.resolvers = zone.vm.resolvers
    BY <1>2, <2>1, <2>2, <2>3, UpdatedFields DEF SyncInv
  <2>6. inst.vm \in Vm
    BY <2>2 DEF SyncInv, IInv, TypeOK, Zones
  <2>7. NothingToDo(inst, p)
    BY <2>2, <2>4, <2>5, <2>6, PayloadReaches
  <2> QED BY <2>4, <2>7
<1> QED BY <1>6, <1>7 DEF Compares

\* A list is on its way, or due.
LEMMA NoLongerHeard ==
  ASSUME SyncInv
  PROVE  /\ watch' => Aware' /\ Compares'
         /\ (list' # None /\ list' = zone') => Aware' /\ Compares'
BY DEF Aware, Compares, Heard

LEMMA FailSync ==
  ASSUME SyncInv, FailVm, Remote' = Remote
  PROVE  Aware' /\ Compares'
<1>1. inst \in Inst /\ (inst.call # None => inst.st = "update.vm")
  BY StatesOfInst DEF SyncInv
<1>2. /\ inst.call # None /\ inst.reply = None
      /\ UNCHANGED list /\ watch' = (watch \/ zone' # zone)
  BY DEF FailVm
<1>3. PICK j : j = [inst EXCEPT !.reply = "failed"]
  OBVIOUS
<1>4. /\ inst' = j
      /\ j.st = inst.st /\ j.vm = inst.vm /\ j.armed = inst.armed
      /\ j.updated = inst.updated /\ j.call = inst.call /\ j.reply = "failed"
  BY <1>1, <1>3 DEF FailVm, Inst
<1>5. Known
  BY <1>1, <1>2 DEF Known
<1>6. CASE zone' = zone
  <2>1. UNCHANGED <<watch, list, zone>>
    BY <1>2, <1>6 DEF SyncInv, IInv, TypeOK
  <2>2. ASSUME Heard'
        PROVE  Compared(j, Remote) /\ j.reply # "ok"
    <3>1. Heard
      BY <1>4, <2>1, <2>2 DEF Heard
    <3>2. Compared(inst, Remote)
      BY <3>1 DEF SyncInv, Compares
    <3> QED BY <1>4, <3>2, ComparedOf
  <2> QED BY <1>2, <1>4, <1>5, <2>1, <2>2, TurnSync
<1>7. CASE zone' # zone
  BY <1>2, <1>7, NoLongerHeard
<1> QED BY <1>6, <1>7

LEMMA RunSync ==
  ASSUME SyncInv, NEW p \in runs, EndRun(p), Remote' = Remote
  PROVE  Aware' /\ Compares'
<1>1. UNCHANGED <<inst, list>> /\ watch' = (watch \/ zone' # zone)
  BY DEF EndRun
<1>2. CASE zone' = zone
  BY <1>1, <1>2, FrameSync
<1>3. CASE zone' # zone
  BY <1>1, <1>3 DEF Aware, Compares, Heard
<1> QED BY <1>2, <1>3

LEMMA UpdateSync ==
  ASSUME SyncInv, UpdateVM
  PROVE  Aware' /\ Compares'
<1>1. /\ Remote' = Remote /\ list' = None /\ UNCHANGED <<watch, zone>>
      /\ Known => inst'.vm = list.vm /\ inst'.armed
      /\ ~Known => /\ inst'.vm = list.vm /\ inst'.reply = None
                   /\ Compared(inst', Remote)
  BY UpdateVMStep DEF SyncInv
<1>2. list # None /\ list.has = "vm"
  BY DEF UpdateVM
<1>3. Aware'
  BY <1>1, <1>2 DEF SyncInv, Aware
<1>4. Compares'
  <2>1. CASE Known
    BY <1>1, <2>1 DEF Compares, Heard
  <2>2. CASE ~Known
    BY <1>1, <2>2, NoneIsNoVm DEF Compares
  <2> QED BY <2>1, <2>2
<1> QED BY <1>3, <1>4

LEMMA LeaveSync ==
  ASSUME SyncInv, HideVM \/ RemoveVM
  PROVE  Aware' /\ Compares'
<1>1. /\ IInv' /\ list' = None
      /\ inst'.st \in {"none", "remove", "crashed"}
  BY LeaveStep DEF SyncInv
<1>2. inst'.reply = None
  BY <1>1 DEF IInv, InstOk
<1>3. Compared(inst', Remote')
  BY <1>1 DEF Compared
<1>4. ~Known'
  BY <1>1 DEF Known
<1> QED BY <1>1, <1>2, <1>3, <1>4, NoneIsNoVm DEF Aware, Compares

LEMMA SyncInductive == SyncInv /\ [Next]_vars => SyncInv'
<1> SUFFICES ASSUME SyncInv, [Next]_vars PROVE SyncInv'
  OBVIOUS
<1>1. IInv /\ IInv'
  BY Inductive DEF SyncInv
<1>2. ASSUME InstSteps
      PROVE  Aware' /\ Compares'
  <2>1. Remote' = Remote
    BY <1>1, <1>2, InstStep
  <2> QED BY <1>2, <2>1, AssertedSync, StateChangedSync, CallbackSync,
             ServeSync, FailSync, RunSync DEF InstSteps
<1>3. ASSUME NEW m \in Nics, NicSteps(m)
      PROVE  Aware' /\ Compares'
  BY <1>1, <1>3, NicStep, FrameSync
<1>4. ASSUME NEW n \in Networks,
             \/ NetSteps(n) \/ NetChanged(n)
             \/ NetworkChange(n) \/ NetworkDeleted(n)
      PROVE  Aware' /\ Compares'
  <2>1. UNCHANGED <<inst, watch, list, zone>>
    BY <1>1, <1>4, NetStep, ChangedStep, NetworkStep
  <2>2. Remote' = Remote
    <3>1. CASE NetSteps(n)
      <4>1. nic' = nic
        BY <1>1, <3>1, NetStep
      <4> QED BY <4>1 DEF Remote
    <3> QED BY <1>1, <1>4, <3>1, ChangedStep, NetworkStep
  <2> QED BY <2>1, <2>2, FrameSync
<1>5. ASSUME Restart \/ ZoneChange \/ PeriodicLookup
      PROVE  Aware' /\ Compares'
  <2>1. watch' = TRUE
    BY <1>5 DEF Restart, ZoneChange, PeriodicLookup
  <2> QED BY <2>1, NoLongerHeard
<1>6. ASSUME LookupVMs
      PROVE  Aware' /\ Compares'
  <2>1. list' = zone /\ zone' = zone /\ zone # None
    BY <1>1, <1>6, ZoneCases DEF LookupVMs, IInv, TypeOK
  <2> QED BY <2>1, NoLongerHeard
<1>7. ASSUME UNCHANGED vars
      PROVE  Aware' /\ Compares'
  <2>1. UNCHANGED <<nic, inst, watch, list, zone>>
    BY <1>7 DEF vars
  <2>2. Remote' = Remote
    BY <2>1 DEF Remote
  <2> QED BY <2>1, <2>2, FrameSync
<1>8. ASSUME UpdateVM
      PROVE  Aware' /\ Compares'
  BY <1>8, UpdateSync
<1>9. ASSUME HideVM \/ RemoveVM
      PROVE  Aware' /\ Compares'
  BY <1>9, LeaveSync
<1>10. Aware' /\ Compares'
  <2>1. CASE \E m \in Nics : NicSteps(m)
    BY <2>1, <1>3
  <2>2. CASE \E n \in Networks : \/ NetSteps(n) \/ NetChanged(n)
                                 \/ NetworkChange(n) \/ NetworkDeleted(n)
    BY <2>2, <1>4
  <2> QED BY <1>2, <1>5, <1>6, <1>7, <1>8, <1>9, <2>1, <2>2, StepKinds
<1> QED BY <1>1, <1>10 DEF SyncInv

LEMMA SyncRestsRouted == SyncInv => RestsRouted
<1> SUFFICES ASSUME SyncInv, Quiet, inst.vm.state = "running"
             PROVE  /\ \A m \in Nics : Remote[m] # None
                    /\ Routed(TargetRoutes(Remote),
                              TargetResolvers(inst, Remote))
  BY DEF RestsRouted
<1>1. Heard /\ inst.st = "waiting" /\ Known
  BY DEF Quiet, Heard, Known
<1>2. zone.has = "vm" /\ inst.vm = zone.vm /\ zone.vm \in Vm
  BY <1>1 DEF SyncInv, Aware, Heard, IInv, TypeOK, Zones
<1>3. Offers(Remote) /\ NothingToDo(inst, Payload(inst, Remote))
  BY <1>1 DEF SyncInv, Compares, Compared
<1>4. /\ inst.vm.routes = TargetRoutes(Remote)
      /\ inst.vm.own \/ inst.vm.resolvers = TargetResolvers(inst, Remote)
  <2>1. PICK p : p = Payload(inst, Remote)
    OBVIOUS
  <2> QED BY <1>2, <1>3, <2>1, PayloadReaches
<1>5. \A m \in Nics : Remote[m] # None
  BY <1>3, NetworkingAssumption DEF Offers
<1> QED BY <1>2, <1>4, <1>5 DEF Routed

\* The agent never rests with a running VM that has other routes or resolvers
\* than its NICs bring: what reaches a NicFSM reaches the VM, however lists,
\* events and vmadm runs overlap, and though any of them, and the calls to
\* NAPI, may fail, be missed or be overtaken.
THEOREM NetworkingRests == Spec => []RestsRouted
<1>1. Init => SyncInv
  <2>1. Init => Aware /\ Compares
    BY DEF Init, Aware, Compares, Heard
  <2> QED BY <2>1, InitIInv DEF SyncInv
<1>2. SyncInv /\ [Next]_vars => SyncInv'
  BY SyncInductive
<1>3. SyncInv => RestsRouted
  BY SyncRestsRouted
<1> QED BY <1>1, <1>2, <1>3, PTL DEF Spec
=============================================================================
