----------------------------- MODULE InstanceFSM -----------------------------
(***************************************************************************)
(* The class InstanceFSM of lib/inst-fsm.js as operators on a record: the  *)
(* object that keeps one VM's routes and resolvers those of its NICs.      *)
(* (What it does for one NIC, _update() and updateNIC() among them, is in  *)
(* NicTracking.tla.)  remote[m] is the remote attribute of the NicFSM that *)
(* it holds for NIC m, of which VM_FIELDS matter.                          *)
(***************************************************************************)
EXTENDS NicFSM, RouteDiff, Sequences, FiniteSetsExt

CONSTANTS
  NicOrder,      \* the MACs of the VM's NICs, in the order of vm.nics
  Destinations,  \* of routes
  Gateways,
  Addresses      \* of resolvers

Nics == {NicOrder[k] : k \in DOMAIN NicOrder}

ASSUME NicOrderIsASequence == NicOrder \in Seq(Nics)

\* routes: functions from some destinations to gateways.
RouteMaps == UNION {[D -> Gateways] : D \in SUBSET Destinations}
NoRoutes == [dst \in {} |-> dst]

\* resolvers: sequences without repetition.
Resolvers ==
  {rs \in Seq(Addresses) :
     \A j, k \in DOMAIN rs : rs[j] = rs[k] => j = k}

\* VM_FIELDS of a NIC.
VmFields == [routes : RouteMaps, resolvers : Resolvers]

\* The VM as vmadm lists it; own is internal_metadata.no_nic_resolvers.
Vm == [state : {"running", "provisioning"}, own : BOOLEAN,
       routes : RouteMaps, resolvers : Resolvers]

ASSUME NoneIsNoVm == None \notin Vm \cup {"ok", "failed"}

Payloads ==
  [set : RouteMaps, remove : SUBSET Destinations, resolvers : Resolvers]

\* "none": app.insts never had the VM.  call: the vmadm update awaited; reply:
\* whether it failed.  pending: the NIC that update.wait waits for.
Inst == [st      : {"none", "waiting", "update.wait", "update.vm", "remove",
                    "crashed"},
         vm      : Vm \cup {None},
         armed   : BOOLEAN,
         updated : BOOLEAN,
         pending : Nics \cup {None},
         call    : Payloads \cup {None},
         reply   : {"ok", "failed", None}]

NoInst == [st |-> "none", vm |-> None, armed |-> FALSE, updated |-> FALSE,
           pending |-> None, call |-> None, reply |-> None]

InstGoto(i, s) == [i EXCEPT !.st = s, !.updated = FALSE, !.pending = None,
                            !.call = None, !.reply = None]

\* The NICs that bring a route to dst.
Bringing(remote, dst) ==
  {k \in DOMAIN NicOrder : dst \in DOMAIN remote[NicOrder[k]].routes}

\* The routes that the NICs bring: of two to a destination the later NIC's.
TargetRoutes(remote) ==
  [dst \in UNION {DOMAIN remote[m].routes : m \in Nics} |->
     remote[NicOrder[Max(Bringing(remote, dst))]].routes[dst]]

\* Mutant of AddResolver: resolvers are not compared.
AddResolverTwice(acc, r) == Append(acc, r)

AddResolver(acc, r) ==
  IF \E k \in DOMAIN acc : acc[k] = r THEN acc ELSE Append(acc, r)

AddResolvers(acc, rs) ==
  LET upTo[k \in 0 .. Len(rs)] ==
        IF k = 0 THEN acc ELSE AddResolver(upTo[k - 1], rs[k])
  IN  upTo[Len(rs)]

\* The resolvers that the NICs bring: of two equal ones the first.
NicResolvers(remote) ==
  LET upTo[k \in 0 .. Len(NicOrder)] ==
        IF k = 0 THEN <<>>
        ELSE AddResolvers(upTo[k - 1], remote[NicOrder[k]].resolvers)
  IN  upTo[Len(NicOrder)]

TargetResolvers(i, remote) == IF i.vm.own THEN <<>> ELSE NicResolvers(remote)

Payload(i, remote) ==
  LET target == TargetRoutes(remote)
  IN  [set |-> SetRoutes(i.vm.routes, target),
       remove |-> RemoveRoutes(i.vm.routes, target),
       resolvers |-> TargetResolvers(i, remote)]

NothingToDo(i, p) ==
  /\ DOMAIN p.set = {} /\ p.remove = {}
  /\ i.vm.own \/ p.resolvers = i.vm.resolvers

EnterUpdateVm(i, remote) ==
  LET p == Payload(i, remote)
  IN  IF NothingToDo(i, p) THEN InstGoto(i, "waiting")
      ELSE [InstGoto(i, "update.vm") EXCEPT !.call = p]

\* The first NIC without a record is waited for.
EnterUpdateWait(i, remote) ==
  LET unknown == {k \in DOMAIN NicOrder : remote[NicOrder[k]] = None}
  IN  IF unknown = {} THEN EnterUpdateVm(i, remote)
      ELSE [InstGoto(i, "update.wait") EXCEPT
              !.pending = NicOrder[Min(unknown)]]

\* Reading the state of a VM that was removed is a TypeError.
EnterInstUpdate(i, remote) ==
  IF i.vm = None THEN InstGoto(i, "crashed")
  ELSE IF i.vm.state # "running" THEN InstGoto(i, "waiting")
  ELSE EnterUpdateWait(i, remote)

\* remove(): heard in waiting and, from state update, in its sub-states.
RemoveInst(i) ==
  IF i.st \in {"waiting", "update.wait", "update.vm"}
  THEN [InstGoto(i, "remove") EXCEPT !.vm = None] ELSE i

\* Mutants of EmitUpdate: a vmadm update under way is not waited for; the
\* event is dropped while one is.
EmitUpdateEagerly(i, remote) ==
  LET j == [i EXCEPT !.armed = FALSE] IN
  IF i.st \in {"waiting", "update.wait", "update.vm", "remove"}
  THEN EnterInstUpdate(j, remote) ELSE j
EmitUpdateOnce(i, remote) ==
  LET j == [i EXCEPT !.armed = FALSE] IN
  IF i.st \in {"waiting", "update.wait", "remove"}
  THEN EnterInstUpdate(j, remote) ELSE j

\* updateAsserted is emitted.
EmitUpdate(i, remote) ==
  LET j == [i EXCEPT !.armed = FALSE] IN
  IF i.st \in {"waiting", "update.wait", "remove"}
  THEN EnterInstUpdate(j, remote)
  ELSE IF i.st = "update.vm" THEN [j EXCEPT !.updated = TRUE]
  ELSE j

\* Mutant of AsksForList: a failed run is left at that.
AsksForNothing(i) == FALSE

AsksForList(i) == i.reply = "failed"

\* afterUpdate, which asks the watcher for a new list as well if AsksForList.
AfterVmUpdate(i, remote) ==
  IF i.updated THEN EnterInstUpdate(i, remote) ELSE InstGoto(i, "waiting")
=============================================================================
