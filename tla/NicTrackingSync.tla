--------------------------- MODULE NicTrackingSync ---------------------------
(***************************************************************************)
(* What the agent promises about one NIC as long as nothing is lost: that  *)
(* a POST is never overtaken by the DELETE of its release, and that the    *)
(* agent rests with NAPI and the host agreed.  Each theorem names what     *)
(* must not happen in its hypotheses; the sets of VMs, configurations and  *)
(* Etags and all other bounds are arbitrary.                               *)
(***************************************************************************)
EXTENDS NicTrackingProofs

\* No call fails at its caller, no late request is lost.
NoCallFails == \A s \in Starts : s.left.faults = 0

\* The process is restarted only after it crashed.
NoKills == \A s \in Starts : s.left.restarts = 0

\* No VM has do_not_inventory set.
NoneHidden ==
  /\ \A s \in Starts : \A h \in Hosts : s.zone[h].has # "hidden"
  /\ \A h \in Hosts : \A m \in ZoneMoves[h] : m[2].has # "hidden"

-----------------------------------------------------------------------------
(* What serving a call does to the node.                                   *)

LEMMA ServedZone ==
  ASSUME TypeOK, NEW c \in Calls, NEW r, Serve(c, r), NEW h \in Hosts
  PROVE  \/ zone'[h] = zone[h]
         \/ RunOf(c) /\ h \in VMs /\ zone'[h].has \in {"nic", "bare"}
<1>1. CASE ~ServeVmadm(c, r)
  BY <1>1 DEF Serve, ServeGet, ServePost, ServePut, ServeDelete
<1>2. CASE ServeVmadm(c, r) /\ zone' # zone
  <2>1. Applies(c) /\ zone' = Configured(c) /\ zone \in [Hosts -> Zones]
    BY <1>2 DEF ServeVmadm, TypeOK
  <2>2. CASE c.op = "updateNic" /\ c.host # CN
    <3>1. c \in UpdateCalls /\ c.host \in VMs /\ c.host \in Hosts
      BY <2>2 DEF Calls, GetCalls, Writes, PostCalls, PutCalls, DeleteCalls,
                  VmadmCalls, UpdateCalls, VmCalls, Hosts
    <3>2. PICK z : z = [zone[c.host] EXCEPT !.cfg = c.cfg]
      OBVIOUS
    <3>3. zone[c.host] \in Zones /\ zone[c.host].has = "nic"
      BY <2>1, <2>2, <3>1 DEF Applies, HasNic
    <3>4. z.has = "nic"
      BY <3>2, <3>3 DEF Zones, ZoneNic
    <3>5. zone' = [zone EXCEPT ![c.host] = z]
      BY <2>1, <2>2, <3>2 DEF Configured
    <3> QED BY <2>1, <3>1, <3>4, <3>5 DEF RunOf
  <2>3. CASE c.op = "removeNic"
    <3>1. c \in VmCalls /\ c.host \in VMs
      BY <2>3 DEF Calls, GetCalls, Writes, PostCalls, PutCalls, DeleteCalls,
                  VmadmCalls, UpdateCalls, VmCalls
    <3>2. zone' = [zone EXCEPT ![c.host] = [has |-> "bare"]]
      BY <2>1, <2>3 DEF Configured
    <3> QED BY <2>1, <3>1, <3>2 DEF RunOf
  <2> QED BY <1>2, <2>1, <2>2, <2>3 DEF Configured
<1> QED BY <1>1, <1>2

-----------------------------------------------------------------------------
(* PostBeforeDelete.                                                       *)

Ordered == {"post", "delete"}

\* A POST or DELETE that f awaits, g awaits too.
Awaited(f, g) ==
  (f.call # None /\ f.reply = None /\ f.call.op \in Ordered) => g.call = f.call

\* Only the states create and release.delete await one, and they hear neither
\* setAsserted nor refreshAsserted nor releaseAsserted.
LEMMA OrderedStates ==
  ASSUME NEW f \in FSM, FSMOk(f), f.call # None, f.call.op \in Ordered
  PROVE  /\ f.st \in {"create", "release.delete"}
         /\ f.timer = "none" /\ ~f.hears
  BY DEF FSMOk, OpOf, Ordered

LEMMA MethodsAwait ==
  ASSUME NEW f \in FSM, FSMOk(f), NEW I \in SUBSET VMs, NEW n, NEW h
  PROVE  /\ Awaited(f, EmitSet(f, I))
         /\ Awaited(f, EmitRefresh(f))
         /\ f.timer # "none" => Awaited(f, Retry(f, I))
         /\ f.st \in {"init", "waiting"} => Awaited(f, EnterRefresh(f))
         /\ Awaited(f, SetLocal(IF f.st = "stopped" THEN NewFSM ELSE f, n))
         /\ Awaited(f, IF f.st = "stopped" THEN NewFSM ELSE RefreshNic(f))
         /\ Awaited(f, RefreshNic(f))
         /\ Awaited(f, ReleaseFrom(f, h))
         /\ f.st \in Crashed => Awaited(f, Absent)
<1>1. CASE f.call # None /\ f.reply = None /\ f.call.op \in Ordered
  <2>1. f.st \in {"create", "release.delete"} /\ f.timer = "none" /\ ~f.hears
    BY <1>1, OrderedStates
  <2>2. PICK s : s = [f EXCEPT !.armed = f.armed \ {"set"}]
    OBVIOUS
  <2>3. PICK k : k = [f EXCEPT !.armed = f.armed \ {"refresh"}]
    OBVIOUS
  <2>4. PICK l : l = [f EXCEPT !.local = n, !.armed = f.armed \cup {"set"}]
    OBVIOUS
  <2>5. PICK a : a = [f EXCEPT !.armed = f.armed \cup {"refresh"}]
    OBVIOUS
  <2>6. PICK g : g = [f EXCEPT !.released = h]
    OBVIOUS
  <2>7. PICK d : d = [g EXCEPT !.deleted = (f.deleted \/ f.st = "create")]
    OBVIOUS
  <2>8. /\ s.call = f.call /\ k.call = f.call /\ l.call = f.call
        /\ a.call = f.call /\ d.call = f.call
    BY <2>2, <2>3, <2>4, <2>5, <2>6, <2>7 DEF FSM
  <2>9. EmitSet(f, I) = s /\ EmitRefresh(f) = k
    BY <2>1, <2>2, <2>3 DEF EmitSet, EmitRefresh
  <2>10. SetLocal(f, n) = l /\ RefreshNic(f) = a
    BY <2>4, <2>5 DEF SetLocal, RefreshNic
  <2>11. ReleaseFrom(f, h) = d
    BY <2>1, <2>6, <2>7 DEF ReleaseFrom, HearsRelease
  <2> QED BY <2>1, <2>8, <2>9, <2>10, <2>11 DEF Awaited, Crashed
<1>2. CASE ~(f.call # None /\ f.reply = None /\ f.call.op \in Ordered)
  BY <1>2 DEF Awaited
<1> QED BY <1>1, <1>2

\* Nothing was lost, so no POST and no DELETE is on its way without its caller.
Lossless ==
  /\ left.faults = 0 /\ left.restarts = 0
  /\ \A h \in Hosts : zone[h].has # "hidden"
  /\ \A v \in VMs : list[v] # None => list[v].has # "hidden"
  /\ \A c \in wire : c.op \notin Ordered

LEMMA AwaitedAbandons ==
  ASSUME NEW g, Awaited(nic, g), NEW c \in Abandoned(g)
  PROVE  c.op \notin Ordered
<1>1. c = nic.call /\ c # None /\ nic.reply = None /\ g.call # nic.call
  BY AbandonedType DEF Abandoned
<1> QED BY <1>1 DEF Awaited

\* The end of a turn of the agent.
LEMMA SettleLossless ==
  ASSUME Lossless, NEW g, Awaited(nic, g), NEW r, NEW w, NEW s,
         SettleAll(g, r, w, s), zone' = zone,
         left'.faults = 0, left'.restarts = 0,
         \A v \in VMs : list'[v] # None => list'[v].has # "hidden"
  PROVE  Lossless'
  BY AwaitedAbandons DEF Lossless, SettleAll

LEMMA SpendOthers ==
  ASSUME TypeOK, Lossless, NEW k \in Kinds, Spend(k)
  PROVE  /\ k \notin {"faults", "restarts"}
         /\ left'.faults = 0 /\ left'.restarts = 0
<1>1. left \in [Kinds -> Nat] /\ left[k] > 0
  BY DEF TypeOK, Spend
<1>2. "faults" \in Kinds /\ "restarts" \in Kinds
  BY DEF Kinds
<1>3. left["faults"] = 0 /\ left["restarts"] = 0
  BY DEF Lossless
<1>4. k \notin {"faults", "restarts"}
  BY <1>1, <1>3
<1> QED BY <1>1, <1>2, <1>3, <1>4 DEF Spend

LEMMA AgentLossless ==
  ASSUME IInv, Lossless, Agent
  PROVE  Lossless'
<1> USE IInvParts
<1>1. insts \in SUBSET VMs /\ TypeOK
  BY InstsType DEF IInv
<1>2. /\ left.faults = 0 /\ left.restarts = 0
      /\ \A v \in VMs : list[v] # None => list[v].has # "hidden"
  BY DEF Lossless
<1>3. ASSUME NEW k \in Kinds, Spend(k)
      PROVE  /\ k \notin {"faults", "restarts"}
             /\ left'.faults = 0 /\ left'.restarts = 0
  BY <1>1, <1>3, SpendOthers
<1>4. CASE Immediate
  BY <1>2, <1>4, MethodsAwait, SettleLossless DEF Immediate, Settle
<1>5. CASE SetAsserted
  BY <1>1, <1>2, <1>5, MethodsAwait, SettleLossless DEF SetAsserted, Settle
<1>6. CASE RefreshAsserted
  BY <1>2, <1>6, MethodsAwait, SettleLossless DEF RefreshAsserted, Settle
<1>7. CASE WaitingRefresh
  BY <1>2, <1>7, MethodsAwait, SettleLossless DEF WaitingRefresh, Settle
<1>8. CASE RetryTimer
  BY <1>1, <1>2, <1>8, MethodsAwait, SettleLossless DEF RetryTimer, Settle
<1>9. CASE Callback
  <2>1. Awaited(nic, Delivered)
    BY <1>9 DEF Callback, Awaited
  <2> QED BY <1>2, <1>9, <2>1, SettleLossless DEF Callback, Settle
<1>10. CASE PeriodicLookup
  BY <1>10 DEF PeriodicLookup, Lossless
<1>11. CASE LookupVMs
  <2>1. \A v \in VMs : list'[v] # None => list'[v].has # "hidden"
    BY <1>11 DEF LookupVMs, Lossless, Hosts
  <2> QED BY <1>11, <2>1 DEF LookupVMs, Lossless
<1>12. CASE BeginUpdateVMs
  BY <1>12 DEF BeginUpdateVMs, Lossless
<1>13. CASE UpdateServer
  <2>1. Awaited(nic, nic) /\ Awaited(nic, ReleaseFrom(nic, CN))
        /\ Awaited(nic, SetLocal(WatchNic, FmtNic(CN, zone[CN])))
    BY MethodsAwait DEF Awaited, WatchNic
  <2> QED BY <1>2, <1>13, <2>1, SettleLossless DEF UpdateServer
<1>14. CASE FeedEvent
  <2>1. left'.faults = 0 /\ left'.restarts = 0
    BY <1>3, <1>14 DEF FeedEvent, Kinds
  <2> QED BY <1>2, <1>14, <2>1, MethodsAwait, SettleLossless
          DEF FeedEvent, Settle
<1>15. CASE FeedRefresh
  <2>1. left'.faults = 0 /\ left'.restarts = 0
    BY <1>3, <1>15 DEF FeedRefresh, Kinds
  <2> QED BY <1>2, <1>15, <2>1, MethodsAwait, SettleLossless
          DEF FeedRefresh, Settle
<1>16. CASE Restart
  <2>1. ~Alive /\ left' = left
    BY <1>3, <1>16 DEF Restart, Kinds
  <2>2. Awaited(nic, Absent)
    BY <2>1, MethodsAwait DEF Alive
  <2>3. \A v \in VMs : list'[v] = None
    BY <1>16 DEF Restart, NoList
  <2> QED BY <1>2, <1>16, <2>1, <2>2, <2>3, SettleLossless DEF Restart
<1>17. ASSUME NEW v \in VMs, UpdateVM(v)
       PROVE  Lossless'
  <2>1. v \in todo /\ list' = [list EXCEPT ![v] = None] /\ zone' = zone
        /\ left' = left
    BY <1>17 DEF UpdateVM, UpdateWithNic, UpdateWithoutNic, HideVM, RemoveVM,
                 Visit
  <2>2. \A u \in VMs : list'[u] # None => list'[u].has # "hidden"
    BY <1>2, <2>1
  <2>3. Awaited(nic, nic) /\ Awaited(nic, ReleaseNic(v))
        /\ Awaited(nic, SetLocal(WatchNic, FmtNic(v, list[v])))
    BY MethodsAwait DEF Awaited, WatchNic, ReleaseNic
  <2>4. ~HideVM(v)
    BY <1>2, <2>1 DEF HideVM, todo
  <2>5. \E g, r : Settle(g, r) /\ Awaited(nic, g)
    <3>1. CASE UpdateWithNic(v)
      BY <2>3, <3>1 DEF UpdateWithNic
    <3>2. CASE UpdateWithoutNic(v)
      BY <2>3, <3>2 DEF UpdateWithoutNic
    <3>3. CASE RemoveVM(v)
      BY <2>3, <3>3 DEF RemoveVM
    <3> QED BY <1>17, <2>4, <3>1, <3>2, <3>3 DEF UpdateVM
  <2> QED BY <1>2, <2>1, <2>2, <2>5, SettleLossless DEF Settle
<1> QED BY <1>4, <1>5, <1>6, <1>7, <1>8, <1>9, <1>10, <1>11, <1>12, <1>13,
           <1>14, <1>15, <1>16, <1>17 DEF Agent

LEMMA OthersLossless ==
  ASSUME NoneHidden, IInv, Lossless, Services \/ Others
  PROVE  Lossless'
<1> USE IInvParts
<1>1. TypeOK /\ wire \subseteq Calls
  BY DEF IInv, TypeOK, Calls
<1>2. ASSUME NEW k \in Kinds, Spend(k)
      PROVE  /\ k \notin {"faults", "restarts"}
             /\ left'.faults = 0 /\ left'.restarts = 0
  BY <1>1, <1>2, SpendOthers
<1>3. CASE ServeCall
  <2>1. PICK r \in Answers : Serve(nic.call, r)
    BY <1>3 DEF ServeCall
  <2>2. nic.call \in Calls
    BY <1>3 DEF ServeCall, Waiting, FSM
  <2>3. \A h \in Hosts : zone'[h].has # "hidden"
    BY <1>1, <2>1, <2>2, ServedZone DEF Lossless
  <2> QED BY <1>3, <2>3 DEF ServeCall, Lossless
<1>4. ASSUME NEW c \in wire, ServeAbandoned(c)
      PROVE  Lossless'
  <2>1. PICK r \in Answers : Serve(c, r)
    BY <1>4 DEF ServeAbandoned
  <2>2. \A h \in Hosts : zone'[h].has # "hidden"
    BY <1>1, <2>1, ServedZone DEF Lossless
  <2> QED BY <1>4, <2>2 DEF ServeAbandoned, Lossless
<1>5. ~FailCall /\ \A c \in wire : ~LoseAbandoned(c)
  BY <1>2 DEF FailCall, LoseAbandoned, Kinds
<1>6. CASE NapiChange
  <2>1. left'.faults = 0 /\ left'.restarts = 0
    BY <1>2, <1>6 DEF NapiChange, Kinds
  <2> QED BY <1>6, <2>1 DEF NapiChange, Lossless
<1>7. ASSUME NEW h \in Hosts, ZoneChange(h)
      PROVE  Lossless'
  <2>1. left'.faults = 0 /\ left'.restarts = 0
    BY <1>2, <1>7 DEF ZoneChange, Kinds
  <2>2. PICK z \in Zones : <<zone[h], z>> \in ZoneMoves[h]
                              /\ zone' = [zone EXCEPT ![h] = z]
    BY <1>7 DEF ZoneChange
  <2>3. z.has # "hidden"
    BY <2>2 DEF NoneHidden
  <2> QED BY <1>7, <2>1, <2>2, <2>3 DEF ZoneChange, Lossless
<1> QED BY <1>3, <1>4, <1>5, <1>6, <1>7 DEF Services, Others

\* Together in NAPI's hands are at most the call of the object, of which there
\* is one, and calls that are neither.
LEMMA LosslessOrders ==
  ASSUME Lossless
  PROVE  PostBeforeDelete
  BY DEF Lossless, PostBeforeDelete, InFlight, Ordered

\* A release asserted while the record is being created waits for the POST,
\* however many VMs share the MAC, whatever is done to them and to the record:
\* as long as no request fails at the agent, nobody kills the agent and no VM
\* is hidden, the POST and the DELETE are never both on their way to NAPI.
THEOREM PostsPrecedeDeletes ==
  ASSUME NoCallFails, NoKills, NoneHidden
  PROVE  Spec => []PostBeforeDelete
<1>1. Init => Lossless
  BY DEF Init, Lossless, NoCallFails, NoKills, NoneHidden, NoList
<1>2. IInv /\ Lossless /\ [Next]_vars => Lossless'
  <2>1. IInv /\ Lossless /\ UNCHANGED vars => Lossless'
    BY DEF vars, Lossless
  <2> QED BY <2>1, AgentLossless, OthersLossless DEF Next
<1>3. Lossless => PostBeforeDelete
  BY LosslessOrders
<1> QED BY <1>1, <1>2, <1>3, Invariant, PTL DEF Spec

-----------------------------------------------------------------------------
(* RestsInSync.                                                            *)

\* The NIC is a VM's: the node itself does not have it and does not get it.
\* (The ServerFSM does not apply updates, and hears of no change of its NICs.)
NotOnServer ==
  /\ \A s \in Starts : s.zone[CN].has = "bare"
  /\ \A m \in ZoneMoves[CN] : m[2].has = "bare"

\* A vmadm run has changed the VM and its InstanceFSM did not hear of it yet.
Unreported == nic.reply # None /\ RunOf(nic.call)

\* The agent will have another look at the VM.
Pending(v) == watch \/ list[v] # None \/ Unreported

\* A list that nothing has outdated tells how the VMs are.
ListFresh ==
  \A v \in VMs :
    (list[v] # None /\ ~watch /\ ~Unreported) => list[v] = zone[v]

\* The local NIC is what its owner has, or the owner is looked at again.
LocalFresh ==
  (nic.local # None /\ ref[nic.local.owner] = "live") =>
    LET v == nic.local.owner IN
      Pending(v) \/ (HasNic(v) /\ nic.local = FmtNic(v, zone[v]))

\* The object waits without setAsserted only in agreement, but for the
\* configuration if the owner is looked at again.
WaitsAgreed ==
  (/\ nic.st = "waiting" /\ "set" \notin nic.armed
   /\ nic.local # None /\ nic.remote # None
   /\ ref[nic.local.owner] = "live") =>
     /\ nic.local.owner = nic.remote.owner
     /\ nic.local.state = nic.remote.state
     /\ nic.local.cfg = nic.remote.cfg \/ Pending(nic.local.owner)

\* The node itself has nothing to do with the NIC.
OnVMsOnly ==
  /\ ref[CN] = "bare" /\ zone[CN].has = "bare"
  /\ nic.local # None => nic.local.owner \in VMs
  /\ (nic.call # None /\ nic.call.op = "updateNic") => nic.call.host \in VMs

\* No PUT fails: update.napi is always left through update, which compares the
\* configuration too.
PutsAnswered ==
  /\ left.faults = 0
  /\ nic.timer # "update.napi"
  /\ (nic.call # None /\ nic.call.op = "put" /\ nic.reply # None) =>
       nic.reply.code \in {200, 404}

SyncInv ==
  ListFresh /\ LocalFresh /\ WaitsAgreed /\ OnVMsOnly /\ PutsAnswered

\* What is pending stays pending until the VM is handled.
LEMMA PendingStays ==
  ASSUME IInv, NEW g, Turned(nic, g), NEW r, NEW w, NEW s, watch => w,
         SettleAll(g, r, w, s)
  PROVE  /\ (watch \/ Unreported) => (watch' \/ Unreported')
         /\ \A v \in VMs : (list'[v] = list[v] /\ Pending(v)) => Pending(v)'
         /\ nic'.reply = g.reply /\ nic'.call = g.call
<1>1. g \in FSM
  BY DEF Turned
<1>2. PICK k : k = [g EXCEPT !.poke = None]
  OBVIOUS
<1>3. k.reply = g.reply /\ k.call = g.call
  BY <1>1, <1>2 DEF FSM
<1>4. nic' = k
  BY <1>2 DEF SettleAll
<1>5. watch' = (w \/ g.poke \in VMs \/ RunEnded(g))
  BY DEF SettleAll
<1>6. CASE g.reply = None
  <2>1. Unreported => RunEnded(g)
    BY <1>6 DEF Unreported, RunEnded
  <2> QED BY <1>3, <1>4, <1>5, <2>1 DEF Pending
<1>7. CASE g.reply # None
  <2>1. nic'.reply = nic.reply /\ nic'.call = nic.call
    BY <1>3, <1>4, <1>7 DEF Turned
  <2>2. Unreported' <=> Unreported
    BY <2>1 DEF Unreported, RunOf
  <2> QED BY <1>3, <1>4, <1>5, <2>2 DEF Pending
<1> QED BY <1>6, <1>7

\* The end of a turn: the local NIC is the one it was, or comes from the list;
\* in waiting the object agrees, or hears of a vmadm run, or was there before.
LEMMA SettleSync ==
  ASSUME IInv, SyncInv, NEW g, Turned(nic, g), NEW r \in [Hosts -> Refs],
         NEW w, NEW s, watch => w, SettleAll(g, r, w, s),
         UNCHANGED zone, left'.faults = 0,
         \A v \in VMs : list'[v] \in {list[v], None},
         g.local # None => g.local.owner \in VMs,
         (g.local # None /\ r[g.local.owner] = "live") =>
           LET v == g.local.owner IN
             \/ /\ g.local = nic.local /\ ref[v] = "live"
                /\ list'[v] = list[v]
             \/ /\ list[v] # None /\ list[v].has = "nic"
                /\ g.local = FmtNic(v, list[v]),
         (/\ g.st = "waiting" /\ "set" \notin g.armed
          /\ g.local # None /\ g.remote # None
          /\ r[g.local.owner] = "live") =>
            \/ Agrees(g)
            \/ /\ g.local.owner = g.remote.owner
               /\ g.local.state = g.remote.state
               /\ RunEnded(g)
            \/ /\ nic.st = "waiting" /\ "set" \notin nic.armed
               /\ g.local = nic.local /\ g.remote = nic.remote
               /\ ref[g.local.owner] = "live"
               /\ list'[g.local.owner] = list[g.local.owner],
         (g.call # None /\ g.call.op = "updateNic") => g.call.host \in VMs,
         g.timer # "update.napi", r[CN] = "bare"
  PROVE  SyncInv'
<1>1. ListFresh /\ LocalFresh /\ WaitsAgreed /\ OnVMsOnly /\ PutsAnswered
  BY DEF SyncInv
<1>2. g \in FSM
  BY DEF Turned
<1>3. PICK k : k = [g EXCEPT !.poke = None]
  OBVIOUS
<1>4. /\ nic'.st = g.st /\ nic'.timer = g.timer /\ nic'.call = g.call
      /\ nic'.reply = g.reply /\ nic'.remote = g.remote
      /\ nic'.local = g.local /\ nic'.armed = g.armed
  <2>1. /\ k.st = g.st /\ k.timer = g.timer /\ k.call = g.call
        /\ k.reply = g.reply /\ k.remote = g.remote
        /\ k.local = g.local /\ k.armed = g.armed
    BY <1>2, <1>3 DEF FSM
  <2>2. nic' = k
    BY <1>3 DEF SettleAll
  <2> QED BY <2>1, <2>2
<1>5. \A h \in Hosts : ref'[h] = "live" => r[h] = "live"
  BY DEF SettleAll, Bury
<1>6. VMs \subseteq Hosts /\ CN \in Hosts
  BY DEF Hosts
<1>7. /\ (watch \/ Unreported) => (watch' \/ Unreported')
      /\ \A v \in VMs : (list'[v] = list[v] /\ Pending(v)) => Pending(v)'
  BY PendingStays
<1>8. ListFresh'
  BY <1>1, <1>7 DEF ListFresh
<1>9. LocalFresh'
  <2>1. SUFFICES ASSUME g.local # None, ref'[g.local.owner] = "live",
                        NEW v, v = g.local.owner, ~Pending(v)'
                 PROVE  zone[v].has = "nic" /\ g.local = FmtNic(v, zone[v])
    BY <1>4 DEF LocalFresh, HasNic, Pending, Unreported
  <2>2. v \in VMs /\ r[v] = "live" /\ ~watch /\ ~Unreported
    BY <1>5, <1>6, <1>7, <2>1 DEF Pending
  <2>3. CASE g.local = nic.local /\ ref[v] = "live" /\ list'[v] = list[v]
    BY <1>1, <1>7, <2>1, <2>2, <2>3 DEF LocalFresh, HasNic
  <2>4. CASE list[v] # None /\ list[v].has = "nic"
               /\ g.local = FmtNic(v, list[v])
    BY <1>1, <2>2, <2>4 DEF ListFresh
  <2> QED BY <2>1, <2>2, <2>3, <2>4
<1>10. WaitsAgreed'
  <2>1. SUFFICES ASSUME g.st = "waiting", "set" \notin g.armed,
                        g.local # None, g.remote # None,
                        ref'[g.local.owner] = "live"
                 PROVE  /\ g.local.owner = g.remote.owner
                        /\ g.local.state = g.remote.state
                        /\ \/ g.local.cfg = g.remote.cfg
                           \/ Pending(g.local.owner)'
    BY <1>4 DEF WaitsAgreed, Pending, Unreported
  <2>2. g.local.owner \in VMs /\ r[g.local.owner] = "live"
    BY <1>5, <1>6, <2>1
  <2>3. RunEnded(g) => watch'
    BY DEF SettleAll
  <2>4. CASE Agrees(g)
    BY <2>4 DEF Agrees
  <2>5. CASE /\ g.local.owner = g.remote.owner
             /\ g.local.state = g.remote.state
             /\ RunEnded(g)
    BY <2>3, <2>5 DEF Pending
  <2>6. CASE /\ nic.st = "waiting" /\ "set" \notin nic.armed
             /\ g.local = nic.local /\ g.remote = nic.remote
             /\ ref[g.local.owner] = "live"
             /\ list'[g.local.owner] = list[g.local.owner]
    BY <1>1, <1>7, <2>1, <2>2, <2>6 DEF WaitsAgreed
  <2> QED BY <2>1, <2>2, <2>4, <2>5, <2>6
<1>11. OnVMsOnly'
  BY <1>1, <1>4, <1>6 DEF OnVMsOnly, SettleAll, Bury
<1>12. PutsAnswered'
  BY <1>1, <1>4 DEF PutsAnswered, Turned
<1> QED BY <1>8, <1>9, <1>10, <1>11, <1>12 DEF SyncInv

\* A turn that leaves the references alone and ends in a state function.
LEMMA AdvancedSync ==
  ASSUME IInv, SyncInv, NEW g, Advanced(nic, g, insts), Settle(g, ref),
         ~PutFailed(nic), UNCHANGED <<zone, list>>, left'.faults = 0
  PROVE  SyncInv'
<1>1. Turned(nic, g) /\ g \in FSM /\ FSMOk(g) /\ ref \in [Hosts -> Refs]
  BY IInvParts DEF Advanced, Turned
<1>2. OnVMsOnly /\ PutsAnswered
  BY DEF SyncInv
<1>3. g.local # None => g.local = nic.local /\ g.local.owner \in VMs
  BY <1>2 DEF Advanced, OnVMsOnly
<1>4. (g.call # None /\ g.call.op = "updateNic") => g.call.host \in VMs
  <2>1. SUFFICES ASSUME g.call # None, g.call.op = "updateNic"
                 PROVE  g.call.host \in VMs
    OBVIOUS
  <2>2. g.local # None
    BY <1>1, <2>1 DEF FSMOk, OpOf
  <2> QED BY <1>2, <1>3, <2>1, <2>2 DEF Advanced, Hosted, OnVMsOnly
<1>5. g.timer # "update.napi"
  BY <1>2 DEF Advanced, PutsAnswered
<1>6. (/\ g.st = "waiting" /\ g.local # None /\ g.remote # None
       /\ ref[g.local.owner] = "live") => Agrees(g)
  BY <1>3 DEF Advanced, InStep, insts
<1>7. Settle(g, ref) <=> SettleAll(g, ref, watch, sysinfo)
  BY DEF Settle
<1>8. (g.local # None /\ ref[g.local.owner] = "live") =>
        LET v == g.local.owner IN
          /\ g.local = nic.local /\ ref[v] = "live"
          /\ list'[v] = list[v]
  BY <1>3
<1> QED BY <1>1, <1>2, <1>3, <1>4, <1>5, <1>6, <1>7, <1>8, SettleSync
        DEF OnVMsOnly

\* No answer to a PUT is a failure.
LEMMA NoPutFailed ==
  ASSUME IInv, SyncInv
  PROVE  ~PutFailed(nic) /\ nic.timer # "update.napi" /\ left.faults = 0
<1>1. nic \in FSM /\ FSMOk(nic) /\ PutsAnswered
  BY IInvParts DEF SyncInv
<1> QED BY <1>1 DEF PutFailed, PutsAnswered, FSMOk, OpOf

\* A turn that neither touches the local NIC nor the state of the object, which
\* v holds no more, or never held.
LEMMA SameSync ==
  ASSUME IInv, SyncInv, NEW g, Turned(nic, g), NEW r \in [Hosts -> Refs],
         Settle(g, r), UNCHANGED zone, left'.faults = 0,
         g.st = nic.st, g.local = nic.local, g.remote = nic.remote,
         g.call = nic.call, g.timer = nic.timer,
         "set" \in nic.armed => "set" \in g.armed,
         \A u \in VMs : \/ list'[u] = list[u] /\ r[u] = ref[u]
                        \/ list'[u] = None /\ r[u] # "live",
         r[CN] = ref[CN]
  PROVE  SyncInv'
<1>1. OnVMsOnly /\ PutsAnswered
  BY DEF SyncInv
<1>2. Settle(g, r) <=> SettleAll(g, r, watch, sysinfo)
  BY DEF Settle
<1>3. \A v \in VMs : list'[v] \in {list[v], None}
  OBVIOUS
<1>4. g.local # None => g.local.owner \in VMs
  BY <1>1 DEF OnVMsOnly
<1>5. (g.local # None /\ r[g.local.owner] = "live") =>
        /\ ref[g.local.owner] = "live"
        /\ list'[g.local.owner] = list[g.local.owner]
  BY <1>4
<1> QED BY <1>1, <1>2, <1>3, <1>4, <1>5, SettleSync
        DEF OnVMsOnly, PutsAnswered

LEMMA EventsSync ==
  ASSUME NoCallFails, IInv, SyncInv,
         \/ Immediate \/ SetAsserted \/ RefreshAsserted \/ WaitingRefresh
         \/ RetryTimer \/ Callback
  PROVE  SyncInv'
<1>1. nic \in FSM /\ FSMOk(nic) /\ insts \in SUBSET VMs
      /\ ref \in [Hosts -> Refs]
  BY IInvParts, InstsType
<1>2. ~PutFailed(nic) /\ nic.timer # "update.napi" /\ left.faults = 0
  BY NoPutFailed
<1>3. Advanced(nic, EnterRefresh(nic), insts)
  BY <1>1, LeavingEntered, EnteredAdvanced DEF FSMOk
<1>4. CASE Immediate
  BY <1>2, <1>3, <1>4, AdvancedSync DEF Immediate
<1>5. CASE SetAsserted
  BY <1>1, <1>2, <1>5, EmitAdvanced, AdvancedSync DEF SetAsserted
<1>6. CASE RefreshAsserted
  BY <1>1, <1>2, <1>6, EmitAdvanced, AdvancedSync DEF RefreshAsserted
<1>7. CASE WaitingRefresh
  BY <1>2, <1>3, <1>7, AdvancedSync DEF WaitingRefresh
<1>8. CASE RetryTimer
  BY <1>1, <1>2, <1>8, RetryAdvanced, AdvancedSync DEF RetryTimer
<1>9. CASE Callback /\ ~(nic.st = "update.local" /\ nic.reply.code = 200)
  <2>1. nic.st \in {"refresh", "create", "update.local", "update.napi",
                    "remove.nic", "remove.reboot", "release.delete",
                    "release.refresh"}
    <3>1. nic.call # None /\ nic.call \in Calls /\ nic.call.op = OpOf(nic.st)
      BY <1>1, <1>9 DEF Callback, FSMOk, FSM
    <3>2. nic.call.op # "none"
      BY <3>1 DEF Calls, GetCalls, Writes, PostCalls, PutCalls, DeleteCalls,
                  VmadmCalls, UpdateCalls, VmCalls
    <3> QED BY <3>1, <3>2 DEF OpOf
  <2>2. Advanced(nic, Delivered, insts)
    BY <1>1, <1>9, <2>1, CallbackAdvanced DEF Delivered, Callback
  <2> QED BY <1>2, <1>9, <2>2, AdvancedSync DEF Callback
<1>10. CASE Callback /\ nic.st = "update.local" /\ nic.reply.code = 200
  <2>1. nic.reply # None /\ UNCHANGED <<zone, list, left>>
    BY <1>10 DEF Callback
  <2>2. PICK g : g = AfterUpdate(nic, insts)
    OBVIOUS
  <2>3. Delivered = g
    BY <1>10, <2>2 DEF Delivered
  <2>4. SettleAll(g, ref, watch, sysinfo)
    BY <1>10, <2>3 DEF Callback, Settle
  <2>5. /\ Turned(nic, g) /\ Hosted(g)
        /\ g.local = nic.local /\ g.timer = "none" /\ g.reply = None
        /\ g.st = "waiting" => /\ g.local.owner = g.remote.owner
                               /\ g.local.state = g.remote.state
    BY <1>1, <1>10, <2>1, <2>2, UpdatedAdvanced
  <2>6. OnVMsOnly /\ nic.call # None /\ nic.local # None
        /\ nic.call.op = "updateNic"
    BY <1>1, <1>10, <2>1 DEF SyncInv, FSMOk, OpOf
  <2>7. RunEnded(g)
    <3>1. nic.call \in UpdateCalls
      BY <1>1, <2>6 DEF FSM, Calls, GetCalls, Writes, PostCalls, PutCalls,
                        DeleteCalls, VmadmCalls, UpdateCalls, VmCalls
    <3> QED BY <2>1, <2>5, <2>6, <3>1 DEF RunEnded, RunOf, OnVMsOnly
  <2>8. /\ nic.local.owner \in VMs
        /\ (g.call # None /\ g.call.op = "updateNic") => g.call.host \in VMs
    BY <2>5, <2>6 DEF OnVMsOnly, Hosted
  <2> QED BY <1>1, <1>2, <2>1, <2>4, <2>5, <2>6, <2>7, <2>8, SettleSync
          DEF OnVMsOnly
<1> QED BY <1>4, <1>5, <1>6, <1>7, <1>8, <1>9, <1>10

LEMMA SpendSync ==
  ASSUME TypeOK, left.faults = 0, NEW k \in Kinds, Spend(k)
  PROVE  k # "faults" /\ left'.faults = 0
<1>1. left \in [Kinds -> Nat] /\ left[k] > 0 /\ "faults" \in Kinds
  BY DEF TypeOK, Spend, Kinds
<1>2. k # "faults"
  BY <1>1
<1> QED BY <1>1, <1>2 DEF Spend

\* A release ends where no vmadm run and no PUT is awaited.
LEMMA ReleaseEntered ==
  ASSUME NEW f \in FSM, FSMOk(f), NEW h \in Owners, f.st \in HearsRelease,
         NEW g, g = ReleaseFrom(f, h)
  PROVE  /\ g.st # "waiting" /\ g.timer = "none"
         /\ g.local \in {f.local, None}
         /\ g.call # None => g.call.op # "updateNic"
<1>1. PICK k : k = [f EXCEPT !.released = h]
  OBVIOUS
<1>2. /\ k \in FSM /\ k.local = f.local
      /\ k.etag # None => k.remote # None
  BY <1>1 DEF FSM, FSMOk
<1>3. Fresh(k, EnterRelease(k))
  BY <1>2, ReleaseFresh
<1>4. g = EnterRelease(k)
  BY <1>1 DEF ReleaseFrom
<1>5. g.st \in {"release.delete", "release.refresh", "stopped"}
  <2>1. PICK d : d = Goto(k, "release.delete")
    OBVIOUS
  <2>2. PICK e : e = Goto(k, "release.refresh")
    OBVIOUS
  <2>3. /\ d \in FSM /\ d.st = "release.delete"
        /\ e \in FSM /\ e.st = "release.refresh"
    BY <1>2, <2>1, <2>2, GotoFields DEF FSMStates
  <2>4. \A c : Await(d, c).st = d.st /\ Await(e, c).st = e.st
    BY <2>3 DEF Await, FSM
  <2> QED BY <1>4, <2>1, <2>2, <2>3, <2>4
          DEF EnterRelease, EnterReleaseRefresh, EnterStopped, Absent
<1>6. FSMOk(g)
  BY <1>3, <1>4 DEF Fresh
<1> QED BY <1>2, <1>3, <1>4, <1>5, <1>6 DEF Fresh, FSMOk, OpOf

\* v does not hold the NIC any more: the object is released from v, stopped, or
\* left to others.
LEMMA DropSync ==
  ASSUME IInv, SyncInv, NEW v \in VMs, Visit(v),
         NEW g \in {nic, ReleaseNic(v), StopNic(nic)},
         NEW r \in {"none", "bare"}, Settle(g, [ref EXCEPT ![v] = r]),
         UNCHANGED <<zone, left>>
  PROVE  SyncInv'
<1>1. nic \in FSM /\ FSMOk(nic) /\ ref \in [Hosts -> Refs] /\ left.faults = 0
      /\ list \in [VMs -> Zones \cup {None}]
  BY IInvParts, NoPutFailed
<1>2. v \in Hosts /\ v \in Owners /\ v # CN
  BY OwnersDistinct DEF Hosts, Owners
<1>3. PICK s : s = [ref EXCEPT ![v] = r]
  OBVIOUS
<1>4. /\ s \in [Hosts -> Refs] /\ s[CN] = ref[CN] /\ s[v] # "live"
      /\ \A u \in VMs : u # v => s[u] = ref[u]
  BY <1>1, <1>2, <1>3 DEF Refs, Hosts
<1>5. \A u \in VMs : IF u = v THEN list'[u] = None ELSE list'[u] = list[u]
  BY <1>1 DEF Visit
<1>6. Turned(nic, g)
  BY <1>1, <1>2, StopNicTurned, ReleaseNicTurned
<1>7. CASE /\ g.st = nic.st /\ g.local = nic.local /\ g.remote = nic.remote
           /\ g.call = nic.call /\ g.timer = nic.timer /\ g.armed = nic.armed
  <2>1. Settle(g, s) /\ left'.faults = 0
    BY <1>1, <1>3
  <2>2. \A u \in VMs : \/ list'[u] = list[u] /\ s[u] = ref[u]
                       \/ list'[u] = None /\ s[u] # "live"
    BY <1>4, <1>5
  <2> QED BY <1>4, <1>6, <1>7, <2>1, <2>2, SameSync
<1>8. CASE /\ g.st # "waiting" /\ g.timer = "none"
           /\ g.local \in {nic.local, None}
           /\ g.call # None => g.call.op # "updateNic"
  <2>1. SettleAll(g, s, watch, sysinfo)
    BY <1>3 DEF Settle
  <2>2. \A u \in VMs : list'[u] \in {list[u], None}
    BY <1>5
  <2>3. OnVMsOnly
    BY DEF SyncInv
  <2>4. g.local # None => g.local = nic.local /\ g.local.owner \in VMs
    BY <1>8, <2>3 DEF OnVMsOnly
  <2>5. (g.local # None /\ s[g.local.owner] = "live") =>
          /\ g.local = nic.local /\ ref[g.local.owner] = "live"
          /\ list'[g.local.owner] = list[g.local.owner]
    BY <1>4, <1>5, <2>4
  <2> QED BY <1>1, <1>4, <1>6, <1>8, <2>1, <2>2, <2>3, <2>4, <2>5, SettleSync
          DEF OnVMsOnly
<1>9. \/ /\ g.st = nic.st /\ g.local = nic.local /\ g.remote = nic.remote
         /\ g.call = nic.call /\ g.timer = nic.timer /\ g.armed = nic.armed
      \/ /\ g.st # "waiting" /\ g.timer = "none"
         /\ g.local \in {nic.local, None}
         /\ g.call # None => g.call.op # "updateNic"
  <2>1. CASE g = nic
    BY <2>1
  <2>2. CASE g = StopNic(nic)
    BY <2>2 DEF StopNic, EnterStopped, Absent
  <2>3. CASE g = ReleaseNic(v) /\ nic.st \in HearsRelease
    BY <1>1, <1>2, <2>3, ReleaseEntered DEF ReleaseNic, HearsRelease
  <2>4. CASE g = ReleaseNic(v) /\ nic.st \notin HearsRelease
    <3>1. PICK k : k = [nic EXCEPT !.released = v]
      OBVIOUS
    <3>2. PICK d : d = [k EXCEPT !.deleted = (nic.deleted \/ nic.st = "create")]
      OBVIOUS
    <3>3. /\ d.st = nic.st /\ d.local = nic.local /\ d.remote = nic.remote
          /\ d.call = nic.call /\ d.timer = nic.timer /\ d.armed = nic.armed
      BY <1>1, <3>1, <3>2 DEF FSM
    <3>4. g \in {nic, d}
      BY <2>4, <3>1, <3>2 DEF ReleaseNic, ReleaseFrom
    <3> QED BY <3>3, <3>4
  <2> QED BY <2>1, <2>2, <2>3, <2>4
<1> QED BY <1>7, <1>8, <1>9

LEMMA UpdateVMSync ==
  ASSUME NoCallFails, IInv, SyncInv, NEW v \in VMs, UpdateVM(v)
  PROVE  SyncInv'
<1>1. /\ nic \in FSM /\ FSMOk(nic) /\ ref \in [Hosts -> Refs]
      /\ list \in [VMs -> Zones \cup {None}] /\ left.faults = 0
      /\ nic.timer # "update.napi"
  BY IInvParts, NoPutFailed
<1>2. v \in Hosts /\ v # CN
  BY OwnersDistinct DEF Hosts
<1>3. Visit(v) /\ UNCHANGED <<zone, left>>
  BY DEF UpdateVM, UpdateWithNic, UpdateWithoutNic, HideVM, RemoveVM
<1>4. \A u \in VMs : IF u = v THEN list'[u] = None ELSE list'[u] = list[u]
  BY <1>1, <1>3 DEF Visit
<1>5. CASE UpdateWithNic(v) /\ ref[v] = "dead"
  <2>1. Settle(nic, ref) /\ Turned(nic, nic)
    BY <1>1, <1>5, StopNicTurned DEF UpdateWithNic
  <2> QED BY <1>1, <1>3, <1>4, <1>5, <2>1, SameSync
<1>6. CASE UpdateWithNic(v) /\ ref[v] # "dead"
  <2>1. list[v] \in Zones /\ list[v].has = "nic" /\ list[v] # None
    BY <1>1, <1>3, <1>6 DEF UpdateWithNic, Visit, todo
  <2>2. PICK n : n = FmtNic(v, list[v])
    OBVIOUS
  <2>3. n.owner = v
    BY <2>2 DEF FmtNic
  <2>4. PICK f : f = WatchNic
    OBVIOUS
  <2>5. /\ f \in FSM
        /\ f.call = nic.call \/ f.call = None
        /\ f.timer \in {nic.timer, "none"}
    BY <1>1, <2>4, NewFSMFields DEF WatchNic
  <2>6. PICK g : g = SetLocal(f, n)
    OBVIOUS
  <2>7. g.local = n /\ "set" \in g.armed /\ g.call = f.call
        /\ g.timer = f.timer
    BY <2>5, <2>6 DEF SetLocal, FSM
  <2>8. Turned(nic, g)
    BY <1>2, <2>1, <2>2, <2>4, <2>6, WatchNicTurned
  <2>9. PICK r : r = [ref EXCEPT ![v] = "live"]
    OBVIOUS
  <2>10. r \in [Hosts -> Refs] /\ r[CN] = ref[CN]
    BY <1>1, <1>2, <2>9 DEF Refs
  <2>11. SettleAll(g, r, watch, sysinfo)
    BY <1>6, <2>2, <2>4, <2>6, <2>9 DEF UpdateWithNic, Settle
  <2>12. OnVMsOnly /\ \A u \in VMs : list'[u] \in {list[u], None}
    BY <1>4 DEF SyncInv
  <2> QED BY <1>1, <1>3, <2>1, <2>2, <2>3, <2>5, <2>7, <2>8, <2>10, <2>11,
             <2>12, SettleSync DEF OnVMsOnly
<1>7. CASE UpdateWithoutNic(v)
  BY <1>3, <1>7, DropSync DEF UpdateWithoutNic
<1>8. CASE HideVM(v)
  BY <1>3, <1>8, DropSync DEF HideVM
<1>9. CASE RemoveVM(v)
  BY <1>3, <1>9, DropSync DEF RemoveVM
<1> QED BY <1>5, <1>6, <1>7, <1>8, <1>9 DEF UpdateVM

LEMMA AgentSync ==
  ASSUME NoCallFails, IInv, SyncInv, Agent
  PROVE  SyncInv'
<1>1. /\ nic \in FSM /\ FSMOk(nic) /\ ref \in [Hosts -> Refs]
      /\ list \in [VMs -> Zones \cup {None}] /\ left.faults = 0
      /\ nic.timer # "update.napi" /\ TypeOK /\ CN \in Hosts
      /\ zone \in [Hosts -> Zones] /\ VMs \subseteq Hosts
  BY IInvParts, NoPutFailed DEF IInv, Hosts
<1>2. ListFresh /\ LocalFresh /\ WaitsAgreed /\ OnVMsOnly /\ PutsAnswered
  BY DEF SyncInv
<1>3. Turned(nic, nic) /\ Turned(nic, NewFSM) /\ Turned(nic, RefreshNic(nic))
  BY <1>1, StopNicTurned, NewFSMTurned, RefreshNicTurned
<1>4. CASE \/ Immediate \/ SetAsserted \/ RefreshAsserted \/ WaitingRefresh
           \/ RetryTimer \/ Callback
  BY <1>4, EventsSync
<1>5. CASE PeriodicLookup \/ BeginUpdateVMs
  BY <1>2, <1>5
     DEF PeriodicLookup, BeginUpdateVMs, SyncInv, ListFresh, LocalFresh,
         WaitsAgreed, OnVMsOnly, PutsAnswered, Pending, Unreported, HasNic
<1>6. CASE LookupVMs
  <2>1. \A v \in VMs : list'[v] = zone[v] /\ list'[v] # None
    BY <1>1, <1>6, NoneIsNoZone DEF LookupVMs
  <2>2. \A v \in VMs : Pending(v)'
    BY <2>1 DEF Pending
  <2> QED BY <1>2, <1>6, <2>1, <2>2
          DEF LookupVMs, SyncInv, ListFresh, LocalFresh, WaitsAgreed,
              OnVMsOnly, PutsAnswered, HasNic
<1>7. CASE UpdateServer
  <2>1. ~HasNic(CN) /\ ref[CN] # "live"
    BY <1>2 DEF OnVMsOnly, HasNic
  <2>2. [ref EXCEPT ![CN] = "bare"] = ref
    BY <1>1, <1>2 DEF OnVMsOnly
  <2>3. SettleAll(nic, ref, watch, FALSE)
    BY <1>7, <2>1, <2>2 DEF UpdateServer
  <2> QED BY <1>1, <1>2, <1>3, <1>7, <2>3, SettleSync
          DEF UpdateServer, OnVMsOnly
<1>8. CASE FeedEvent \/ FeedRefresh
  <2>1. left'.faults = 0 /\ UNCHANGED <<list, zone>>
    BY <1>1, <1>8, SpendSync DEF FeedEvent, FeedRefresh, Kinds
  <2>2. CASE Settle(NewFSM, ref)
    BY <1>1, <1>2, <1>3, <2>1, <2>2, NewFSMFields, SettleSync
       DEF Settle, OnVMsOnly
  <2>3. CASE Settle(RefreshNic(nic), ref)
    <3>1. PICK g : g = RefreshNic(nic)
      OBVIOUS
    <3>2. /\ g.st = nic.st /\ g.local = nic.local /\ g.remote = nic.remote
          /\ g.call = nic.call /\ g.timer = nic.timer
          /\ "set" \in nic.armed => "set" \in g.armed
      BY <1>1, <3>1 DEF RefreshNic, FSM
    <3> QED BY <1>1, <1>3, <2>1, <2>3, <3>1, <3>2, SameSync
  <2> QED BY <1>8, <2>2, <2>3 DEF FeedEvent, FeedRefresh
<1>9. CASE Restart
  <2>1. left'.faults = 0
    BY <1>1, <1>9, SpendSync DEF Restart, Kinds
  <2>2. SettleAll(Absent, NoRefs, TRUE, TRUE) /\ UNCHANGED zone
    BY <1>9 DEF Restart
  <2>3. \A v \in VMs : list'[v] = None
    BY <1>9 DEF Restart, NoList
  <2>4. Turned(nic, Absent)
    BY <1>1, StoppedFresh, FreshTurned
  <2>5. NoRefs \in [Hosts -> Refs] /\ NoRefs[CN] = "bare"
    BY <1>1 DEF NoRefs, Refs
  <2>6. /\ Absent.st # "waiting" /\ Absent.local = None
        /\ Absent.call = None /\ Absent.timer # "update.napi"
    BY DEF Absent
  <2>7. PICK g : g = Absent
    OBVIOUS
  <2> QED BY <2>1, <2>2, <2>3, <2>4, <2>5, <2>6, <2>7, SettleSync
<1>10. ASSUME NEW v \in VMs, UpdateVM(v)
       PROVE  SyncInv'
  BY <1>10, UpdateVMSync
<1> QED BY <1>4, <1>5, <1>6, <1>7, <1>8, <1>9, <1>10 DEF Agent

\* What is served or done by others: the object is the same but for its answer,
\* and a VM that changed is pending.
LEMMA ChangedSync ==
  ASSUME IInv, SyncInv, nic'.st = nic.st, nic'.timer = nic.timer,
         nic'.call = nic.call, nic'.remote = nic.remote,
         nic'.local = nic.local, nic'.armed = nic.armed,
         UNCHANGED <<ref, list>>, left'.faults = 0,
         (watch \/ Unreported) => (watch' \/ Unreported'),
         \A v \in VMs : zone'[v] = zone[v] \/ watch' \/ Unreported',
         zone'[CN].has = "bare",
         nic'.reply = nic.reply
           \/ (nic.call.op = "put" => nic'.reply.code \in {200, 404})
  PROVE  SyncInv'
<1>1. ListFresh /\ LocalFresh /\ WaitsAgreed /\ OnVMsOnly /\ PutsAnswered
  BY DEF SyncInv
<1>2. \A v \in VMs : Pending(v) => Pending(v)'
  BY DEF Pending
<1>3. ListFresh'
  BY <1>1 DEF ListFresh
<1>4. LocalFresh'
  <2>1. SUFFICES ASSUME nic.local # None, ref[nic.local.owner] = "live",
                        NEW v, v = nic.local.owner, ~Pending(v)'
                 PROVE  zone'[v].has = "nic" /\ nic.local = FmtNic(v, zone'[v])
    BY DEF LocalFresh, HasNic, Pending, Unreported
  <2>2. v \in VMs /\ zone'[v] = zone[v]
    BY <1>1, <2>1 DEF OnVMsOnly, Pending
  <2>3. ~Pending(v)
    BY <1>2, <2>1, <2>2
  <2> QED BY <1>1, <2>1, <2>2, <2>3 DEF LocalFresh, HasNic
<1>5. WaitsAgreed'
  <2>1. SUFFICES ASSUME nic.st = "waiting", "set" \notin nic.armed,
                        nic.local # None, nic.remote # None,
                        ref[nic.local.owner] = "live"
                 PROVE  /\ nic.local.owner = nic.remote.owner
                        /\ nic.local.state = nic.remote.state
                        /\ \/ nic.local.cfg = nic.remote.cfg
                           \/ Pending(nic.local.owner)'
    BY DEF WaitsAgreed, Pending, Unreported
  <2>2. nic.local.owner \in VMs
    BY <1>1, <2>1 DEF OnVMsOnly
  <2> QED BY <1>1, <1>2, <2>1, <2>2 DEF WaitsAgreed
<1>6. OnVMsOnly' /\ PutsAnswered'
  BY <1>1 DEF OnVMsOnly, PutsAnswered
<1> QED BY <1>3, <1>4, <1>5, <1>6 DEF SyncInv

LEMMA OthersSync ==
  ASSUME NoCallFails, NotOnServer, IInv, SyncInv, Services \/ Others
  PROVE  SyncInv'
<1>1. /\ nic \in FSM /\ TypeOK /\ left.faults = 0 /\ CN \in Hosts
      /\ CN \notin VMs /\ VMs \subseteq Hosts /\ wire \subseteq Calls
      /\ zone \in [Hosts -> Zones] /\ zone[CN].has = "bare"
  BY IInvParts, NoPutFailed, OwnersDistinct
     DEF IInv, Hosts, SyncInv, OnVMsOnly, TypeOK, Calls
<1>2. CASE ServeCall
  <2>1. PICK r \in Answers : Serve(nic.call, r)
                               /\ nic' = [nic EXCEPT !.reply = r]
    BY <1>2 DEF ServeCall
  <2>2. nic.call \in Calls /\ nic.call # None /\ nic.reply = None
    BY <1>1, <1>2 DEF ServeCall, Waiting, FSM
  <2>3. r \in Replies
    BY <1>1, <2>1, <2>2, ServeFacts
  <2>4. r # None
    BY <2>3, NoneIsNothing
  <2>5. /\ nic'.st = nic.st /\ nic'.timer = nic.timer /\ nic'.call = nic.call
        /\ nic'.reply = r /\ nic'.remote = nic.remote
        /\ nic'.local = nic.local /\ nic'.armed = nic.armed
    BY <1>1, <2>1 DEF FSM
  <2>6. ~Unreported
    BY <2>2 DEF Unreported
  <2>7. RunOf(nic.call) => Unreported'
    BY <2>4, <2>5 DEF Unreported, RunOf
  <2>8. \A h \in Hosts : \/ zone'[h] = zone[h]
                         \/ RunOf(nic.call) /\ h \in VMs
    BY <1>1, <2>1, <2>2, ServedZone
  <2>9. nic.call.op = "put" => r.code \in {200, 404}
    BY <2>1 DEF Serve, ServeGet, ServePost, ServePut, ServeDelete, ServeVmadm,
                Ok, Fail
  <2> QED BY <1>1, <1>2, <2>5, <2>6, <2>7, <2>8, <2>9, ChangedSync
          DEF ServeCall
<1>3. ASSUME NEW c \in wire, ServeAbandoned(c)
      PROVE  SyncInv'
  <2>1. PICK r \in Answers : Serve(c, r)
    BY <1>3 DEF ServeAbandoned
  <2>2. \A h \in Hosts : zone'[h] = zone[h] \/ (RunOf(c) /\ h \in VMs)
    BY <1>1, <2>1, ServedZone
  <2>3. Unreported' <=> Unreported
    BY <1>3 DEF ServeAbandoned, Unreported, RunOf
  <2> QED BY <1>1, <1>3, <2>2, <2>3, ChangedSync DEF ServeAbandoned
<1>4. ~FailCall /\ \A c \in wire : ~LoseAbandoned(c)
  BY <1>1, SpendSync DEF FailCall, LoseAbandoned, Kinds
<1>5. CASE NapiChange
  <2>1. left'.faults = 0
    BY <1>1, <1>5, SpendSync DEF NapiChange, Kinds
  <2>2. Unreported' <=> Unreported
    BY <1>5 DEF NapiChange, Unreported, RunOf
  <2> QED BY <1>1, <1>5, <2>1, <2>2, ChangedSync DEF NapiChange
<1>6. ASSUME NEW h \in Hosts, ZoneChange(h)
      PROVE  SyncInv'
  <2>1. left'.faults = 0
    BY <1>1, <1>6, SpendSync DEF ZoneChange, Kinds
  <2>2. Unreported' <=> Unreported
    BY <1>6 DEF ZoneChange, Unreported, RunOf
  <2>3. PICK z \in Zones : <<zone[h], z>> \in ZoneMoves[h]
                             /\ zone' = [zone EXCEPT ![h] = z]
    BY <1>6 DEF ZoneChange
  <2>4. h = CN => z.has = "bare"
    BY <2>3 DEF NotOnServer
  <2>5. zone'[CN].has = "bare"
    BY <1>1, <2>3, <2>4
  <2>6. \A v \in VMs : zone'[v] = zone[v] \/ watch'
    BY <1>1, <1>6, <2>3 DEF ZoneChange
  <2> QED BY <1>6, <2>1, <2>2, <2>5, <2>6, ChangedSync DEF ZoneChange
<1> QED BY <1>2, <1>3, <1>4, <1>5, <1>6 DEF Services, Others

LEMMA InitSync ==
  ASSUME NoCallFails, NotOnServer, Init
  PROVE  SyncInv
<1>1. nic.local = None /\ nic.call = None /\ nic.timer = "none"
  BY DEF Init, Absent
<1>2. ref[CN] = "bare" /\ zone[CN].has = "bare" /\ left.faults = 0
  BY DEF Init, NoRefs, NotOnServer, NoCallFails, Hosts
<1> QED BY <1>1, <1>2 DEF SyncInv, ListFresh, LocalFresh, WaitsAgreed,
           OnVMsOnly, PutsAnswered, Init, NoList

\* At rest nothing is pending, so what the object waits with is what its owner
\* has now.
LEMMA SyncAtRest ==
  ASSUME IInv, SyncInv
  PROVE  RestsInSync
<1>1. SUFFICES ASSUME Quiet, nic.st = "waiting", nic.local # None,
                      nic.remote # None, ref[nic.local.owner] = "live",
                      NEW h, h = nic.local.owner
               PROVE  /\ HasNic(h)
                      /\ nic.remote.owner = h
                      /\ nic.remote.state = FmtState(zone[h].state)
                      /\ h \in VMs => nic.remote.cfg = zone[h].cfg
  BY DEF RestsInSync
<1>2. nic \in FSM /\ FSMOk(nic)
  BY IInvParts
<1>3. h \in VMs
  BY <1>1 DEF SyncInv, OnVMsOnly
<1>4. nic.call = None
  <2>1. nic.call # None => nic.call.op = "none"
    BY <1>1, <1>2 DEF FSMOk, OpOf
  <2>2. nic.call # None => nic.call \in Calls
    BY <1>2 DEF FSM
  <2> QED BY <2>1, <2>2
          DEF Calls, GetCalls, Writes, PostCalls, PutCalls, DeleteCalls,
              VmadmCalls, UpdateCalls, VmCalls
<1>5. ~Pending(h)
  BY <1>1, <1>2, <1>3, <1>4 DEF Quiet, todo, Pending, Unreported, FSMOk
<1>6. HasNic(h) /\ nic.local = FmtNic(h, zone[h])
  BY <1>1, <1>5 DEF SyncInv, LocalFresh
<1>7. /\ nic.local.owner = nic.remote.owner
      /\ nic.local.state = nic.remote.state
      /\ nic.local.cfg = nic.remote.cfg
  BY <1>1, <1>5 DEF SyncInv, WaitsAgreed, Quiet
<1> QED BY <1>1, <1>6, <1>7 DEF FmtNic

\* Whenever the agent rests with a VM's NIC, NAPI's record as it last saw it and
\* the VM agree in owner, state and configuration, whatever order the changes of
\* the VMs and of NAPI, the answers, events and lookups came in, however often
\* the agent was restarted: as long as no call fails and the node itself has
\* nothing to do with the NIC, no change is lost that was asserted while
\* nobody listened.
THEOREM RestsAgreed ==
  ASSUME NoCallFails, NotOnServer
  PROVE  Spec => []RestsInSync
<1>1. Init => SyncInv
  BY InitSync
<1>2. IInv /\ SyncInv /\ [Next]_vars => SyncInv'
  <2>1. IInv /\ SyncInv /\ UNCHANGED vars => SyncInv'
    BY DEF vars, SyncInv, ListFresh, LocalFresh, WaitsAgreed, OnVMsOnly,
           PutsAnswered, Pending, Unreported, HasNic
  <2> QED BY <2>1, AgentSync, OthersSync DEF Next
<1>3. IInv /\ SyncInv => RestsInSync
  BY SyncAtRest
<1> QED BY <1>1, <1>2, <1>3, Invariant, PTL DEF Spec
=============================================================================
