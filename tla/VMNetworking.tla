----------------------------- MODULE VMNetworking -----------------------------
(***************************************************************************)
(* The way of a route or resolver from NAPI to a VM: the NetworkFSMs, the  *)
(* NicFSMs of one VM's NICs, the VM's InstanceFSM, updateVMs(), vmadm and  *)
(* NAPI.  One action is one turn of the event loop.                        *)
(*                                                                         *)
(* That the watcher hears of what changes on the node is VMSources.tla;    *)
(* who owns a NIC's record is NicTracking.tla.  Here the VM's NICs have    *)
(* their records as long as their networks exist, and the requests for     *)
(* them leave no trace when nobody waits for them any more.                *)
(***************************************************************************)
EXTENDS InstanceFSM, Naturals, Sequences

CONSTANTS
  vm,         \* the VM
  Networks,   \* networks
  NetOf,      \* NetOf[m]: the network that NIC m is on
  StartNet,   \* VM_FIELDS of the networks before anybody changes them
  Starts      \* the VM that the agent may find, each with bounds to what may
              \* happen then, see left

INSTANCE NetworkFSM

\* Changes of the VM and of networks by others, failed calls, feed events, and
\* timers of minutes that fire while something is due or under way.
Kinds == {"moves", "edits", "faults", "events", "timers"}

ASSUME NetworkingAssumption ==
  /\ VMs = {vm} /\ HasEtags = FALSE /\ Cfgs # {} /\ Etags # {}
  /\ Routes \subseteq VmFields /\ None \notin VmFields
  /\ NetOf \in [Nics -> Networks]
  /\ StartNet \in Routes
  /\ Starts \subseteq [zone : [has : {"vm"}, vm : Vm], left : [Kinds -> Nat]]

VARIABLES
  nic,     \* nic[m]: app.nics[m]
  net,     \* net[n]: app.nets[n]
  inst,    \* the VM's InstanceFSM
  watch,   \* the watcher has a lookup of the VMs pending
  list,    \* what the last lookup said of the VM, until updateVMs() is called
  runs,    \* vmadm updates under way that no InstanceFSM waits for
  zone,    \* the VM as it is
  record,  \* record[m]: NAPI's record of NIC m
  network, \* network[n]: VM_FIELDS of network n in NAPI
  left     \* what is left of the budget

vars == <<nic, net, inst, watch, list, runs, zone, record, network, left>>

Zones == [has : {"vm", "hidden"}, vm : Vm] \cup [has : {"gone"}]
Records == [owner : {vm}, state : {"running", "stopped", "provisioning"},
            cfg : Cfgs]

ASSUME NoneIsNoRecord == None \notin Zones \cup Records

TypeOK ==
  /\ nic \in [Nics -> FSM]
  /\ net \in [Networks -> Net]
  /\ inst \in Inst
  /\ watch \in BOOLEAN
  /\ list \in Zones \cup {None}
  /\ runs \in SUBSET Payloads
  /\ zone \in Zones
  /\ record \in [Nics -> Records \cup {None}]
  /\ network \in [Networks -> Routes \cup {None}]
  /\ left \in [Kinds -> Nat]

Init ==
  /\ nic = [m \in Nics |-> Absent]
  /\ net = [n \in Networks |-> NoNet]
  /\ inst = NoInst
  /\ watch = TRUE
  /\ list = None
  /\ runs = {}
  /\ \E s \in Starts : zone = s.zone /\ left = s.left
  /\ record = [m \in Nics |-> [owner |-> vm, state |-> zone.vm.state,
                                cfg |-> CHOOSE c \in Cfgs : TRUE]]
  /\ network = [n \in Networks |-> StartNet]

Spend(kind) ==
  /\ left[kind] > 0
  /\ left' = [left EXCEPT ![kind] = @ - 1]

\* app.insts has the VM.
Known == inst.st \notin {"none", "remove", "crashed"}
insts == IF Known THEN {vm} ELSE {}

\* The process lives and no immediate is due.
Alive == inst.st # "crashed" /\ \A m \in Nics : nic[m].st \notin Crashed
Idle ==
  /\ Alive
  /\ \A m \in Nics : nic[m].st # "init"
  /\ \A n \in Networks : net[n].st # "init"

\* Nothing is due or under way.  Mostly nothing is, when the hour or the five
\* minutes are over that NICs, networks and the watcher spend in waiting.
AtRest ==
  /\ Idle
  /\ \A m \in Nics : nic[m].call = None /\ nic[m].armed = {}
                      /\ nic[m].timer = "none"
  /\ \A n \in Networks : ~net[n].call /\ ~net[n].armed /\ ~net[n].timer
  /\ inst.call = None /\ ~inst.armed /\ runs = {}
  /\ ~watch /\ list = None

\* One of those timers fires: at rest, or in the midst of something.
LongTimer ==
  \/ AtRest /\ UNCHANGED left
  \/ Idle /\ ~AtRest /\ Spend("timers")

-----------------------------------------------------------------------------
(* NicFSM.                                                                 *)

\* setRemote() watches the network of the record.
Watched(m, f) ==
  IF f.remote # None THEN [net EXCEPT ![NetOf[m]] = WatchNet(@)] ELSE net

\* The object of m is f when the turn ends.
RunEnded(m, f) ==
  nic[m].call # None /\ nic[m].call.op = "removeNic" /\ f.call = None

\* owner.refresh(), and any vmadm run for the NIC, ask the watcher for a list.
SettleNic(m, f) ==
  /\ nic' = [nic EXCEPT ![m] = [f EXCEPT !.poke = None]]
  /\ net' = Watched(m, f)
  /\ watch' = (watch \/ f.poke = vm \/ RunEnded(m, f))
  /\ UNCHANGED <<inst, list, runs, zone, network>>

NicImmediate(m) ==
  /\ nic[m].st = "init"
  /\ SettleNic(m, EnterRefresh(nic[m]))
  /\ UNCHANGED <<record, left>>

SetAsserted(m) ==
  /\ Idle
  /\ "set" \in nic[m].armed
  /\ SettleNic(m, EmitSet(nic[m], insts))
  /\ UNCHANGED <<record, left>>

NicHour(m) ==
  /\ LongTimer
  /\ nic[m].st = "waiting"
  /\ SettleNic(m, EnterRefresh(nic[m]))
  /\ UNCHANGED record

NicRetry(m) ==
  /\ Idle
  /\ nic[m].timer # "none"
  /\ SettleNic(m, Retry(nic[m], insts))
  /\ UNCHANGED <<record, left>>

\* The callback that awaits the answer.
Delivered(f) ==
  CASE f.st = "refresh"         -> AfterGet(f, insts)
    [] f.st = "create"          -> AfterCreate(f, insts)
    [] f.st = "update.napi"     -> AfterPut(f, insts)
    [] f.st = "remove.nic"      -> AfterRemove(f, insts)
    [] f.st = "release.refresh" -> AfterReleaseGet(f)

\* NAPI or vmadm answers.  A NIC has the routes and resolvers of its network.
\* Without a record the VM and the network are gone as well: neither can vmadm
\* remove the NIC nor NAPI create it.
Failed(code) == [code |-> code, res |-> None]

Read(m, r) ==
  [code |-> 200,
   res |-> [nic |-> [owner |-> r.owner, state |-> r.state, cfg |-> r.cfg,
                     routes |-> network[NetOf[m]]],
            etag |-> CHOOSE t \in Etags : TRUE]]

PutRecord(m) ==
  IF /\ record[m] # None /\ nic[m].reply = None
     /\ nic[m].call.op = "put" /\ nic[m].call.state # None
  THEN [record EXCEPT ![m] = [@ EXCEPT !.state = nic[m].call.state]]
  ELSE record

\* An answer is read when it is delivered, or before the change that makes it
\* stale.
NicReply(m) ==
  IF nic[m].reply # None THEN nic[m].reply
  ELSE IF record[m] # None THEN Read(m, PutRecord(m)[m])
  ELSE Failed(IF nic[m].call.op \in {"get", "put"} THEN 404 ELSE 500)

NicCallback(m) ==
  /\ Idle
  /\ nic[m].call # None
  /\ record' = PutRecord(m)
  /\ SettleNic(m, Delivered([nic[m] EXCEPT !.reply = NicReply(m)]))
  /\ UNCHANGED left

NicFails(m) ==
  /\ Idle
  /\ nic[m].call # None
  /\ Spend("faults")
  /\ SettleNic(m, Delivered([nic[m] EXCEPT !.reply = Failed(500)]))
  /\ UNCHANGED record

-----------------------------------------------------------------------------
(* NetworkFSM.                                                             *)

SettleNet(n, x) ==
  /\ net' = [net EXCEPT ![n] = x]
  /\ UNCHANGED <<nic, inst, watch, list, runs, zone, record, network>>

NetImmediate(n) ==
  /\ net[n].st = "init"
  /\ SettleNet(n, EnterNetRefresh(net[n]))
  /\ UNCHANGED left

\* Five minutes in waiting.
NetFiveMinutes(n) ==
  /\ LongTimer
  /\ net[n].st = "waiting"
  /\ SettleNet(n, EnterNetRefresh(net[n]))

NetRetry(n) ==
  /\ Idle
  /\ net[n].timer
  /\ SettleNet(n, EnterNetRefresh(net[n]))
  /\ UNCHANGED left

NetReply(n) ==
  IF net[n].reply # None THEN net[n].reply
  ELSE IF network[n] = None THEN [code |-> 404]
  ELSE [code |-> 200, res |-> network[n]]

NetCallback(n) ==
  /\ Idle
  /\ net[n].call
  /\ SettleNet(n, AfterGetNetwork([net[n] EXCEPT !.reply = NetReply(n)]))
  /\ UNCHANGED left

NetFails(n) ==
  /\ Idle
  /\ net[n].call
  /\ Spend("faults")
  /\ SettleNet(n, AfterGetNetwork([net[n] EXCEPT !.reply = [code |-> 500]]))

\* 'changed' is emitted: the NICs in waiting that know their network hear it.
Hears(n, m) ==
  NetOf[m] = n /\ nic[m].st = "waiting" /\ nic[m].remote # None

NetChanged(n) ==
  /\ Idle
  /\ net[n].armed
  /\ net' = [net EXCEPT ![n].armed = FALSE]
  /\ nic' = [m \in Nics |-> IF Hears(n, m) THEN EnterRefresh(nic[m])
                            ELSE nic[m]]
  /\ UNCHANGED <<inst, watch, list, runs, zone, record, network, left>>

\* The changefeed reports the network, or connects again.
FeedNetwork(n) ==
  /\ Idle
  /\ Spend("events")
  /\ SettleNet(n, IF network[n] = None THEN StopNet(net[n])
                  ELSE RefreshNet(net[n]))

-----------------------------------------------------------------------------
(* InstanceFSM and updateVMs().                                            *)

Remote == [m \in Nics |-> IF nic[m].remote = None THEN None
                          ELSE nic[m].remote.routes]

\* The object is i when the turn ends; a vmadm run that it no longer waits for
\* goes on.
SettleInst(i) ==
  /\ inst' = i
  /\ runs' = IF /\ inst.call # None /\ inst.reply = None
                /\ <<i.st, i.call>> # <<inst.st, inst.call>>
             THEN runs \cup {inst.call} ELSE runs

UpdateAsserted ==
  /\ Idle
  /\ inst.armed
  /\ SettleInst(EmitUpdate(inst, Remote))
  /\ UNCHANGED <<nic, net, watch, list, zone, record, network, left>>

\* stateChanged of the NIC that update.wait waits for.
NicStateChanged ==
  /\ Idle
  /\ inst.st = "update.wait" /\ Remote[inst.pending] # None
  /\ SettleInst(EnterUpdateWait(inst, Remote))
  /\ UNCHANGED <<nic, net, watch, list, zone, record, network, left>>

VmCallback ==
  /\ Idle
  /\ inst.reply # None
  /\ SettleInst(AfterVmUpdate(inst, Remote))
  /\ watch' = (watch \/ AsksForList(inst))
  /\ UNCHANGED <<nic, net, list, zone, record, network, left>>

\* The VM as vmadm leaves it, which finds it as long as it exists.
Updated(p) ==
  IF zone.has = "gone" THEN zone
  ELSE [zone EXCEPT !.vm.routes = Applied(@, p.set, p.remove),
                    !.vm.resolvers = p.resolvers]

ServeVm ==
  /\ inst.call # None /\ inst.reply = None
  /\ zone' = Updated(inst.call)
  /\ watch' = (watch \/ zone' # zone)
  /\ inst' = [inst EXCEPT !.reply = IF zone.has = "gone" THEN "failed"
                                    ELSE "ok"]
  /\ UNCHANGED <<nic, net, list, runs, record, network, left>>

\* The run fails, before or after it has changed the VM.
FailVm ==
  /\ inst.call # None /\ inst.reply = None
  /\ Spend("faults")
  /\ zone' \in {zone, Updated(inst.call)}
  /\ watch' = (watch \/ zone' # zone)
  /\ inst' = [inst EXCEPT !.reply = "failed"]
  /\ UNCHANGED <<nic, net, list, runs, record, network>>

EndRun(p) ==
  /\ runs' = runs \ {p}
  /\ zone' = Updated(p)
  /\ watch' = (watch \/ zone' # zone)
  /\ UNCHANGED <<nic, net, inst, list, record, network, left>>

\* The watcher has been waiting for five minutes.
PeriodicLookup ==
  /\ LongTimer
  /\ ~watch /\ list = None
  /\ watch' = TRUE
  /\ UNCHANGED <<nic, net, inst, list, runs, zone, record, network>>

LookupVMs ==
  /\ Alive
  /\ watch /\ list = None
  /\ watch' = FALSE
  /\ list' = zone
  /\ UNCHANGED <<nic, net, inst, runs, zone, record, network, left>>

FmtNic(z) ==
  [owner |-> vm, cfg |-> CHOOSE c \in Cfgs : TRUE,
   state |-> IF z.state = "running" THEN "running" ELSE "stopped"]

\* updateVMs() with the VM listed: update(), or a new InstanceFSM, which is in
\* state update before the turn ends.
UpdateVM ==
  /\ Idle
  /\ list # None /\ list.has = "vm"
  /\ nic' = [m \in Nics |->
               SetLocal(IF nic[m].st = "stopped" THEN NewFSM ELSE nic[m],
                        FmtNic(list.vm))]
  /\ SettleInst(
       IF Known THEN [inst EXCEPT !.vm = list.vm, !.armed = TRUE]
       ELSE EnterInstUpdate([NoInst EXCEPT !.vm = list.vm], Remote))
  /\ list' = None
  /\ UNCHANGED <<net, watch, zone, record, network, left>>

\* With the VM flagged do_not_inventory: stop().
HideVM ==
  /\ Idle
  /\ list # None /\ list.has = "hidden"
  /\ IF Known
     THEN /\ nic' = [m \in Nics |-> StopNic(nic[m])]
          /\ SettleInst(NoInst)
     ELSE UNCHANGED <<nic, inst, runs>>
  /\ list' = None
  /\ UNCHANGED <<net, watch, zone, record, network, left>>

\* Without the VM: remove().
RemoveVM ==
  /\ Idle
  /\ list # None /\ list.has = "gone"
  /\ IF Known
     THEN /\ nic' = [m \in Nics |->
                       IF nic[m].st = "stopped" THEN nic[m]
                       ELSE ReleaseFrom(nic[m], vm)]
          /\ SettleInst(RemoveInst(inst))
     ELSE UNCHANGED <<nic, inst, runs>>
  /\ list' = None
  /\ UNCHANGED <<net, watch, zone, record, network, left>>

\* smf(5) starts the process again after a TypeError.
Restart ==
  /\ ~Alive
  /\ nic' = [m \in Nics |-> Absent]
  /\ net' = [n \in Networks |-> NoNet]
  /\ SettleInst(NoInst)
  /\ watch' = TRUE
  /\ list' = None
  /\ UNCHANGED <<zone, record, network, left>>

-----------------------------------------------------------------------------
(* Everyone else.                                                          *)

\* The VM is booted, hidden and shown, destroyed, or its routes are removed.
MayBecome ==
  IF zone.has = "gone" THEN {}
  ELSE {[has |-> "gone"],
        [zone EXCEPT !.vm.state = "running"],
        [zone EXCEPT !.has = IF @ = "vm" THEN "hidden" ELSE "vm"],
        [zone EXCEPT !.vm.routes = NoRoutes]}

ZoneChange ==
  /\ Spend("moves")
  /\ zone' \in MayBecome \ {zone}
  /\ watch' = TRUE
  /\ UNCHANGED <<nic, net, inst, list, runs, record, network>>

\* Some of the answers were read before.
ReadEarly ==
  /\ \E S \in SUBSET {m \in Nics : nic[m].call # None} :
       nic' = [m \in Nics |->
                 IF m \in S THEN [nic[m] EXCEPT !.reply = NicReply(m)]
                 ELSE nic[m]]
  /\ \E S \in SUBSET {n \in Networks : net[n].call} :
       net' = [n \in Networks |->
                 IF n \in S THEN [net[n] EXCEPT !.reply = NetReply(n)]
                 ELSE net[n]]

NetworkChange(n) ==
  /\ network[n] # None
  /\ Spend("edits")
  /\ ReadEarly
  /\ \E r \in Routes \ {network[n]} : network' = [network EXCEPT ![n] = r]
  /\ UNCHANGED <<inst, watch, list, runs, zone, record>>

\* A network is deleted when the VM is gone and its NICs' records are deleted.
NetworkDeleted(n) ==
  /\ zone.has = "gone" /\ network[n] # None
  /\ ReadEarly
  /\ record' = [m \in Nics |-> IF NetOf[m] = n THEN None ELSE record[m]]
  /\ network' = [network EXCEPT ![n] = None]
  /\ UNCHANGED <<inst, watch, list, runs, zone, left>>

-----------------------------------------------------------------------------
Updates == UpdateVM \/ HideVM \/ RemoveVM

\* What is due or under way goes on: the event loop, NAPI, vmadm, smf(5).
Progress ==
  \/ \E m \in Nics : \/ NicImmediate(m) \/ SetAsserted(m) \/ NicRetry(m)
                     \/ NicCallback(m)
  \/ \E n \in Networks : \/ NetImmediate(n) \/ NetRetry(n) \/ NetCallback(n)
                         \/ NetChanged(n)
  \/ UpdateAsserted \/ NicStateChanged \/ VmCallback
  \/ LookupVMs \/ Updates \/ Restart
  \/ ServeVm \/ \E p \in runs : EndRun(p)

Next ==
  \/ Progress
  \/ \E m \in Nics : NicHour(m) \/ NicFails(m)
  \/ \E n \in Networks : \/ NetFiveMinutes(n) \/ NetFails(n) \/ FeedNetwork(n)
                         \/ NetworkChange(n) \/ NetworkDeleted(n)
  \/ PeriodicLookup \/ FailVm \/ ZoneChange

Spec == Init /\ [][Next]_vars

\* An object that stays in waiting refreshes after an hour.  Every setAsserted
\* takes it through update to waiting, where the hour starts anew: the lookups
\* of every five minutes may keep it from ever passing.
HourPasses(m) ==
  []<>(nic[m].st # "waiting") \/ []<><<SetAsserted(m)>>_vars

\* Every callback, event and timer that is due is handled sooner or later, in
\* whatever order, and so is every call answered.  (In the midst of that long
\* timers fire a bounded number of times only, so they cannot put it off for
\* good.)  Nothing starts the five minutes of a network anew but its refresh.
\* Lookups may go on for ever (WatcherFSM) and need not (VmadmWatcherFSM).
Fairness ==
  /\ WF_vars(Progress)
  /\ \A m \in Nics : HourPasses(m)
  /\ \A n \in Networks : SF_vars(NetFiveMinutes(n))

FairSpec == Spec /\ Fairness
-----------------------------------------------------------------------------
(* What the agent promises.                                                *)

\* An InstanceFSM lets go of a vmadm run only with the VM: "our updates are
\* always ordered one after the other".
VmUpdatesOrdered == [][runs' \subseteq runs \/ inst'.vm = None]_vars

\* Nothing that concerns the VM is pending in the agent or on its way.
Quiet ==
  /\ inst.st = "waiting" /\ ~inst.armed
  /\ ~watch /\ list = None /\ runs = {}

\* With no_nic_resolvers, resolvers are not the agent's.
Routed(target, rs) ==
  /\ zone.vm.routes = target
  /\ zone.vm.own \/ zone.vm.resolvers = rs

\* When the agent has come to rest with a running VM, it knows the record of
\* every NIC, and the VM has the routes and the resolvers of its NICs as the
\* agent last saw them, whatever the NICs did in between and however many of
\* their changes were coalesced into one list.
RestsRouted ==
  (Quiet /\ inst.vm.state = "running") =>
    /\ \A m \in Nics : Remote[m] # None
    /\ Routed(TargetRoutes(Remote), TargetResolvers(inst, Remote))

\* A VM that runs and that the agent looks after.
Served == zone.has = "vm" /\ zone.vm.state = "running"

\* What NAPI says of the VM's NICs gets to the VM, without the changefeed too:
\* from the network's refresh, its 'changed', the NIC's refresh, the watcher's
\* list, to the vmadm update, any of which may fail or be missed.  (A NIC that
\* missed 'changed' is helped by its hour, if no lookups keep it from passing.)
RoutesArrive ==
  \/ []<><<PeriodicLookup>>_vars
  \/ <>[](Served => LET nets == [m \in Nics |-> network[NetOf[m]]]
                    IN  Routed(TargetRoutes(nets), TargetResolvers(zone, nets)))

\* With lookups for ever, too, a running VM gets what its NICs were last seen
\* to bring, after a vmadm run that failed, took effect or not, as well.
KnownRoutesArrive ==
  <>[](Served => /\ \A m \in Nics : Remote[m] # None
                 /\ Routed(TargetRoutes(Remote), TargetResolvers(zone, Remote)))
=============================================================================
