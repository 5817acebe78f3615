-------------------------- MODULE NicTrackingProofs --------------------------
(***************************************************************************)
(* Type correctness of NicTracking, and the safety of its DELETEs, for     *)
(* every set of VMs, configurations and Etags and every bound.             *)
(***************************************************************************)
EXTENDS NicTracking, NicFSMProofs, TLAPS

-----------------------------------------------------------------------------
(* The inductive invariant.                                                *)

\* An Etag names one version of the record: whoever in the agent holds the
\* Etag of the version that NAPI has, holds that version.
Copies ==
  napi # None =>
    /\ nic.etag = napi.etag => nic.remote = napi.nic
    /\ (/\ nic.reply # None /\ nic.reply.res # None
        /\ nic.reply.res.etag = napi.etag) => nic.reply.res = napi

\* DeletesReleasedOnly, of one request.
DeleteOk(c) ==
  (c.op = "delete" /\ Matches(c)) =>
    napi.nic.owner = c.from /\ napi.nic.state \in Settled

IInv ==
  /\ TypeOK
  /\ FSMOk(nic)
  /\ Copies
  /\ \A c \in wire : DeleteOk(c)

\* A DELETE the object waits for was sent with the Etag of its copy.
LEMMA CallDeleteOk ==
  ASSUME IInv, nic.call # None
  PROVE  DeleteOk(nic.call)
<1>1. FSMOk(nic) /\ Copies
  BY DEF IInv
<1> QED BY <1>1 DEF DeleteOk, FSMOk, Copies, Matches

LEMMA FmtNicType ==
  ASSUME NEW h \in Hosts, NEW z \in Zones, z.has = "nic"
  PROVE  FmtNic(h, z) \in LocalNic
<1>1. z \in ZoneNic
  BY DEF Zones
<1>2. FmtState(z.state) \in {"running", "stopped"}
  BY DEF FmtState
<1> QED BY <1>1, <1>2 DEF FmtNic, LocalNic, ZoneNic

LEMMA SpendType ==
  ASSUME TypeOK, NEW k \in Kinds, Spend(k)
  PROVE  left' \in [Kinds -> Nat]
  BY DEF TypeOK, Spend

LEMMA BuryType ==
  ASSUME NEW r \in [Hosts -> Refs], NEW g
  PROVE  Bury(r, g) \in [Hosts -> Refs]
  BY DEF Bury, Refs

LEMMA AbandonedType ==
  ASSUME NEW g
  PROVE  /\ Abandoned(g) \subseteq Writes \cup VmadmCalls
         /\ \A c \in Abandoned(g) : c = nic.call /\ c # None
  BY NoneIsNothing DEF Abandoned, Calls

\* The end of a turn of the agent.
LEMMA SettleKeeps ==
  ASSUME IInv, NEW g, Turned(nic, g), NEW r \in [Hosts -> Refs],
         NEW w \in BOOLEAN, NEW s \in BOOLEAN, SettleAll(g, r, w, s),
         UNCHANGED <<zone, napi>>, turn' \in BOOLEAN,
         list' \in [VMs -> Zones \cup {None}], left' \in [Kinds -> Nat]
  PROVE  IInv'
<1>1. TypeOK /\ FSMOk(nic) /\ Copies /\ \A c \in wire : DeleteOk(c)
  BY DEF IInv
<1>2. g \in FSM /\ FSMOk(g)
  BY DEF Turned
<1>3. PICK k : k = [g EXCEPT !.poke = None]
  OBVIOUS
<1>4. /\ nic' \in FSM
      /\ nic'.st = g.st /\ nic'.timer = g.timer /\ nic'.call = g.call
      /\ nic'.reply = g.reply /\ nic'.remote = g.remote /\ nic'.etag = g.etag
        /\ nic'.hears = g.hears
      /\ nic'.local = g.local
  <2>1. /\ k \in FSM
        /\ k.st = g.st /\ k.timer = g.timer /\ k.call = g.call
        /\ k.reply = g.reply /\ k.remote = g.remote /\ k.etag = g.etag
        /\ k.hears = g.hears
        /\ k.local = g.local
    BY <1>2, <1>3 DEF FSM
  <2>2. nic' = k
    BY <1>3 DEF SettleAll
  <2> QED BY <2>1, <2>2
<1>5. FSMOk(nic')
  BY <1>2, <1>4 DEF FSMOk
<1>6. watch' \in BOOLEAN /\ sysinfo' \in BOOLEAN
  <2>1. /\ (w \/ g.poke \in VMs \/ RunEnded(g)) \in BOOLEAN
        /\ (s \/ g.poke = CN) \in BOOLEAN
    OBVIOUS
  <2> QED BY <2>1 DEF SettleAll
<1>7. ref' \in [Hosts -> Refs]
  BY BuryType DEF SettleAll
<1>8. wire' \in SUBSET (Writes \cup VmadmCalls)
  BY <1>1, AbandonedType DEF SettleAll, TypeOK
<1>9. TypeOK'
  BY <1>1, <1>4, <1>6, <1>7, <1>8 DEF TypeOK
<1>10. Copies'
  <2>1. CASE Kept(nic, g)
    BY <1>1, <1>4, <2>1, NoneIsNothing DEF Copies, Kept, Turned, TypeOK, Stored
  <2>2. CASE Learned(nic, g)
    <3>1. nic.reply.res \in Stored /\ nic.reply.res # None
      BY <1>1, <2>2 DEF Learned, TypeOK, FSM, Replies
    <3>2. PICK m : m = SetRemote(nic, nic.reply.res)
      OBVIOUS
    <3>3. m.remote = nic.reply.res.nic /\ m.etag \in {None, nic.reply.res.etag}
      BY <1>1, <3>1, <3>2, SetRemoteFields DEF TypeOK
    <3>4. Kept(m, g)
      BY <2>2, <3>2 DEF Learned
    <3>5. napi # None => napi.etag # None
      BY <1>1, NoneIsNothing DEF TypeOK, Stored
    <3> QED BY <1>1, <1>4, <2>2, <3>3, <3>4, <3>5
            DEF Copies, Kept, Turned, Learned
  <2> QED BY <2>1, <2>2 DEF Turned
<1>11. \A c \in wire' : DeleteOk(c)'
  <2>1. SUFFICES ASSUME NEW c \in wire' PROVE DeleteOk(c)
    BY DEF DeleteOk, Matches
  <2>2. CASE c \in wire
    BY <1>1, <2>2
  <2>3. CASE c \in Abandoned(g)
    BY <2>3, CallDeleteOk, AbandonedType
  <2> QED BY <2>2, <2>3 DEF SettleAll
<1> QED BY <1>5, <1>9, <1>10, <1>11 DEF IInv

-----------------------------------------------------------------------------
(* The actions of the agent.                                               *)

LEMMA InstsType == insts \in SUBSET VMs
  BY DEF insts

\* The parts of the invariant that the agent's actions use.
LEMMA IInvParts ==
  ASSUME IInv
  PROVE  /\ nic \in FSM /\ FSMOk(nic)
         /\ ref \in [Hosts -> Refs] /\ list \in [VMs -> Zones \cup {None}]
         /\ watch \in BOOLEAN /\ turn \in BOOLEAN /\ sysinfo \in BOOLEAN
         /\ zone \in [Hosts -> Zones]
         /\ left \in [Kinds -> Nat]
  BY DEF IInv, TypeOK

LEMMA WatchNicTurned ==
  ASSUME IInv, NEW h \in Hosts, NEW z \in Zones, z.has = "nic"
  PROVE  Turned(nic, SetLocal(WatchNic, FmtNic(h, z)))
<1>1. nic \in FSM /\ FSMOk(nic) /\ FmtNic(h, z) \in LocalNic
  BY FmtNicType DEF IInv, TypeOK
<1> QED BY <1>1, SetLocalOrNewTurned DEF WatchNic

LEMMA ReleaseNicTurned ==
  ASSUME IInv, NEW h \in Hosts
  PROVE  Turned(nic, ReleaseNic(h)) /\ Turned(nic, ReleaseFrom(nic, h))
<1>1. nic \in FSM /\ FSMOk(nic) /\ h \in Owners
  BY DEF IInv, TypeOK, Owners
<1> QED BY <1>1, ReleaseFromTurned, StopNicTurned DEF ReleaseNic

LEMMA DeliveredTurned ==
  ASSUME IInv, nic.reply # None
  PROVE  Turned(nic, Delivered)
<1>1. nic \in FSM /\ FSMOk(nic)
  BY IInvParts
<1>2. nic.call \in Calls /\ nic.call.op = OpOf(nic.st) /\ nic.call.op # "none"
  BY <1>1 DEF FSM, FSMOk, Calls, GetCalls, Writes, PostCalls, PutCalls,
              DeleteCalls, VmadmCalls, UpdateCalls, VmCalls
<1>3. nic.st \in {"refresh", "create", "update.local", "update.napi",
                  "remove.nic", "remove.reboot", "release.delete",
                  "release.refresh"}
  BY <1>2 DEF OpOf
<1>4. nic.st = "refresh" => Delivered = AfterGet(nic, insts)
  BY DEF Delivered
<1>5. nic.st = "create" => Delivered = AfterCreate(nic, insts)
  BY DEF Delivered
<1>6. nic.st = "update.local" => Delivered = AfterUpdate(nic, insts)
  BY DEF Delivered
<1>7. nic.st = "update.napi" => Delivered = AfterPut(nic, insts)
  BY DEF Delivered
<1>8. nic.st = "remove.nic" => Delivered = AfterRemove(nic, insts)
  BY DEF Delivered
<1>9. nic.st = "remove.reboot" => Delivered = AfterReboot(nic)
  BY DEF Delivered
<1>10. nic.st = "release.delete" => Delivered = AfterDelete(nic)
  BY DEF Delivered
<1>11. nic.st = "release.refresh" => Delivered = AfterReleaseGet(nic)
  BY DEF Delivered
<1> QED BY <1>1, <1>3, <1>4, <1>5, <1>6, <1>7, <1>8, <1>9, <1>10, <1>11,
           CallbackTurned, InstsType

\* One VM of the list is handled.
LEMMA VisitKeeps ==
  ASSUME IInv, NEW v \in VMs, Visit(v), NEW g, Turned(nic, g),
         NEW r \in [Hosts -> Refs], Settle(g, r),
         UNCHANGED <<zone, napi, left>>
  PROVE  IInv'
<1>1. /\ list \in [VMs -> Zones \cup {None}]
      /\ watch \in BOOLEAN /\ sysinfo \in BOOLEAN /\ left \in [Kinds -> Nat]
  BY IInvParts
<1>2. list' \in [VMs -> Zones \cup {None}]
  BY <1>1 DEF Visit
<1>3. turn' \in BOOLEAN
  <2>1. (todo # {v}) \in BOOLEAN
    OBVIOUS
  <2> QED BY <2>1 DEF Visit
<1> QED BY <1>1, <1>2, <1>3, SettleKeeps DEF Settle

LEMMA AgentKeeps ==
  ASSUME IInv, Agent
  PROVE  IInv'
<1> USE IInvParts
<1>1. CASE Immediate
  <2>1. Turned(nic, EnterRefresh(nic))
    BY RefreshFresh, FreshTurned DEF FSMOk
  <2> QED BY <1>1, <2>1, SettleKeeps DEF Immediate, Settle
<1>2. CASE SetAsserted
  BY <1>2, EmitTurned, InstsType, SettleKeeps DEF SetAsserted, Settle
<1>3. CASE RefreshAsserted
  BY <1>3, EmitTurned, InstsType, SettleKeeps DEF RefreshAsserted, Settle
<1>4. CASE WaitingRefresh
  <2>1. Turned(nic, EnterRefresh(nic))
    BY RefreshFresh, FreshTurned DEF FSMOk
  <2> QED BY <1>4, <2>1, SettleKeeps DEF WaitingRefresh, Settle
<1>5. CASE RetryTimer
  BY <1>5, RetryTurned, InstsType, SettleKeeps DEF RetryTimer, Settle
<1>6. CASE Callback
  BY <1>6, DeliveredTurned, SettleKeeps DEF Callback, Settle
<1>7. CASE PeriodicLookup
  BY <1>7 DEF PeriodicLookup, IInv, TypeOK, Copies, DeleteOk, Matches
<1>8. CASE LookupVMs
  <2>1. list' \in [VMs -> Zones \cup {None}]
    BY <1>8 DEF LookupVMs, Hosts
  <2> QED BY <1>8, <2>1 DEF LookupVMs, IInv, TypeOK, Copies, DeleteOk, Matches
<1>9. CASE UpdateServer
  <2>1. CN \in Hosts /\ zone[CN] \in Zones
    BY DEF Hosts
  <2>2. Turned(nic, nic) /\ Turned(nic, ReleaseFrom(nic, CN))
    BY <2>1, StopNicTurned, ReleaseNicTurned
  <2>3. /\ [ref EXCEPT ![CN] = "live"] \in [Hosts -> Refs]
        /\ [ref EXCEPT ![CN] = "bare"] \in [Hosts -> Refs]
    BY <2>1 DEF Refs
  <2>4. CASE HasNic(CN) /\ ref[CN] = "dead"
    BY <1>9, <2>2, <2>4, SettleKeeps DEF UpdateServer
  <2>5. CASE HasNic(CN) /\ ref[CN] # "dead"
    BY <1>9, <2>1, <2>3, <2>5, WatchNicTurned, SettleKeeps
       DEF UpdateServer, HasNic
  <2>6. CASE ~HasNic(CN)
    BY <1>9, <2>2, <2>3, <2>6, SettleKeeps DEF UpdateServer
  <2> QED BY <2>4, <2>5, <2>6
<1>10. CASE FeedEvent
  <2>1. left' \in [Kinds -> Nat]
    BY <1>10, SpendType DEF FeedEvent, Kinds, IInv
  <2>2. Turned(nic, NewFSM) /\ Turned(nic, RefreshNic(nic))
    BY NewFSMTurned, RefreshNicTurned
  <2> QED BY <1>10, <2>1, <2>2, SettleKeeps DEF FeedEvent, Settle
<1>11. CASE FeedRefresh
  <2>1. left' \in [Kinds -> Nat]
    BY <1>11, SpendType DEF FeedRefresh, Kinds, IInv
  <2> QED BY <1>11, <2>1, RefreshNicTurned, SettleKeeps
          DEF FeedRefresh, Settle
<1>12. CASE Restart
  <2>1. left' \in [Kinds -> Nat]
    BY <1>12, SpendType DEF Restart, Kinds, IInv
  <2>2. Turned(nic, Absent) /\ NoRefs \in [Hosts -> Refs]
        /\ NoList \in [VMs -> Zones \cup {None}]
    BY StoppedFresh, FreshTurned DEF NoRefs, Refs, NoList
  <2> QED BY <1>12, <2>1, <2>2, SettleKeeps DEF Restart
<1>13. ASSUME NEW v \in VMs, UpdateVM(v)
       PROVE  IInv'
  <2>1. v \in Hosts
    BY DEF Hosts
  <2>2. /\ [ref EXCEPT ![v] = "none"] \in [Hosts -> Refs]
        /\ [ref EXCEPT ![v] = "bare"] \in [Hosts -> Refs]
        /\ [ref EXCEPT ![v] = "live"] \in [Hosts -> Refs]
    BY <2>1 DEF Refs
  <2>3. Turned(nic, nic) /\ Turned(nic, StopNic(nic))
        /\ Turned(nic, ReleaseNic(v))
    BY <2>1, StopNicTurned, ReleaseNicTurned
  <2>4. CASE UpdateWithNic(v)
    <3>1. Visit(v) /\ UNCHANGED <<zone, napi, left>>
      BY <2>4 DEF UpdateWithNic
    <3>2. CASE ref[v] = "dead"
      BY <2>3, <2>4, <3>1, <3>2, VisitKeeps DEF UpdateWithNic
    <3>3. CASE ref[v] # "dead"
      <4>1. list[v] \in Zones /\ list[v].has = "nic"
        BY <2>4, <3>1 DEF UpdateWithNic, Visit, todo
      <4>2. Turned(nic, SetLocal(WatchNic, FmtNic(v, list[v])))
        BY <2>1, <4>1, WatchNicTurned
      <4> QED BY <2>2, <2>4, <3>1, <3>3, <4>2, VisitKeeps DEF UpdateWithNic
    <3> QED BY <3>2, <3>3
  <2>5. CASE UpdateWithoutNic(v)
    BY <2>2, <2>3, <2>5, VisitKeeps DEF UpdateWithoutNic
  <2>6. CASE HideVM(v)
    BY <2>2, <2>3, <2>6, VisitKeeps DEF HideVM
  <2>7. CASE RemoveVM(v)
    BY <2>2, <2>3, <2>7, VisitKeeps DEF RemoveVM
  <2> QED BY <1>13, <2>4, <2>5, <2>6, <2>7 DEF UpdateVM
<1>14. CASE BeginUpdateVMs
  BY <1>14 DEF BeginUpdateVMs, IInv, TypeOK, Copies, DeleteOk, Matches
<1> QED BY <1>1, <1>2, <1>3, <1>4, <1>5, <1>6, <1>7, <1>8, <1>9, <1>10,
           <1>11, <1>12, <1>13, <1>14 DEF Agent

-----------------------------------------------------------------------------
(* NAPI, vmadm and the others.                                             *)

\* A change of the record: none, its deletion, or a version with an Etag that
\* nobody holds.
Changed ==
  \/ napi' = napi
  \/ napi' = None
  \/ napi' \in Stored /\ napi'.etag \in FreshEtags

LEMMA FreshIsNotHeld ==
  ASSUME IInv, NEW t \in FreshEtags
  PROVE  /\ t # nic.etag
         /\ (nic.reply # None /\ nic.reply.res # None) => t # nic.reply.res.etag
         /\ \A c \in wire : c.op = "delete" => t # c.match
<1>1. t \notin HeldEtags
  BY DEF FreshEtags
<1>2. \A c \in wire : c # None
  BY NoneIsNothing DEF IInv, TypeOK, Calls
<1> QED BY <1>1, <1>2 DEF HeldEtags, TagsOf

LEMMA StoreType ==
  ASSUME NEW n \in RemoteNic, Store(n)
  PROVE  napi' \in Stored /\ Changed /\ napi' # None
<1>1. (CHOOSE t \in FreshEtags : TRUE) \in FreshEtags
  BY DEF Store
<1>2. FreshEtags \subseteq Etags
  BY DEF FreshEtags
<1>3. napi' \in Stored /\ napi'.etag \in FreshEtags
  BY <1>1, <1>2 DEF Store, Stored
<1> QED BY <1>3, NoneIsNothing DEF Changed

\* A change of the record leaves what the agent holds and has sent harmless.
LEMMA ChangedKeeps ==
  ASSUME IInv, Changed, wire' \subseteq wire,
         nic'.etag = nic.etag, nic'.remote = nic.remote,
         nic'.reply = nic.reply \/ nic'.reply.res \in {napi', None}
  PROVE  Copies' /\ \A c \in wire' : DeleteOk(c)'
<1>1. Copies /\ \A c \in wire : DeleteOk(c)
  BY DEF IInv
<1>2. CASE napi' = napi
  BY <1>1, <1>2 DEF Copies, DeleteOk, Matches
<1>3. CASE napi' = None
  BY <1>3 DEF Copies, DeleteOk, Matches
<1>4. CASE napi' \in Stored /\ napi'.etag \in FreshEtags
  <2>1. Copies'
    BY <1>4, FreshIsNotHeld DEF Copies
  <2>2. \A c \in wire' : DeleteOk(c)'
    BY <1>4, FreshIsNotHeld DEF DeleteOk, Matches
  <2> QED BY <2>1, <2>2
<1> QED BY <1>2, <1>3, <1>4 DEF Changed

\* What serving a call does to the node and to NAPI, and what it answers.
LEMMA ServeFacts ==
  ASSUME TypeOK, NEW c \in Calls, NEW r, Serve(c, r)
  PROVE  /\ zone' \in [Hosts -> Zones]
         /\ napi' \in Stored \cup {None}
         /\ Changed
         /\ r \in Replies
         /\ r.res # None => r.res = napi'
         /\ (r.code = 200 /\ c.op \in {"get", "post", "put"}) => r.res # None
<1> USE DEF Ok, Fail, Replies
<1>1. zone \in [Hosts -> Zones] /\ napi \in Stored \cup {None}
  BY DEF TypeOK
<1>2. CASE ServeGet(c, r)
  BY <1>1, <1>2 DEF ServeGet, Changed
<1>3. CASE ServePost(c, r)
  <2>1. c.nic \in LocalNic
    BY <1>3 DEF ServePost, Calls, GetCalls, Writes, PostCalls, PutCalls,
                DeleteCalls, VmadmCalls, UpdateCalls, VmCalls
  <2>2. Created(c) \subseteq RemoteNic
    BY <2>1 DEF Created, LocalNic, RemoteNic, Owners
  <2>3. CASE napi = None /\ (\E n \in Created(c) : Store(n)) /\ r = Ok(napi')
    <3>1. napi' \in Stored /\ Changed /\ napi' # None
      BY <2>2, <2>3, StoreType
    <3> QED BY <1>1, <1>3, <2>3, <3>1 DEF ServePost
  <2>4. CASE napi # None /\ r = Fail(500) /\ UNCHANGED napi
    BY <1>1, <1>3, <2>4 DEF ServePost, Changed
  <2> QED BY <1>3, <2>3, <2>4 DEF ServePost
<1>4. CASE ServePut(c, r)
  <2>1. /\ c.owner \in Hosts \cup {None}
        /\ c.state \in {"running", "stopped", None}
    BY <1>4 DEF ServePut, Calls, GetCalls, Writes, PostCalls, PutCalls,
                DeleteCalls, VmadmCalls, UpdateCalls, VmCalls
  <2>2. CASE napi # None /\ Store(Put(c)) /\ r = Ok(napi')
    <3>1. napi.nic \in RemoteNic
      BY <1>1, <2>2 DEF Stored
    <3>2. Put(c) \in RemoteNic
      BY <2>1, <3>1 DEF Put, RemoteNic, Owners
    <3>3. napi' \in Stored /\ Changed /\ napi' # None
      BY <2>2, <3>2, StoreType
    <3> QED BY <1>1, <1>4, <2>2, <3>3 DEF ServePut
  <2>3. CASE napi = None /\ r = Fail(404) /\ UNCHANGED napi
    BY <1>1, <1>4, <2>3 DEF ServePut, Changed
  <2> QED BY <1>4, <2>2, <2>3 DEF ServePut
<1>5. CASE ServeDelete(c, r)
  BY <1>1, <1>5 DEF ServeDelete, Changed
<1>6. CASE ServeVmadm(c, r)
  <2>1. napi' = napi /\ Changed
    BY <1>6 DEF ServeVmadm, Changed
  <2>2. r \in {Ok(None), Fail(500)} /\ c.op \notin {"get", "post", "put"}
    BY <1>6 DEF ServeVmadm
  <2>3. zone' \in [Hosts -> Zones]
    <3>1. CASE zone' = zone
      BY <1>1, <3>1
    <3>2. CASE Applies(c) /\ zone' = Configured(c)
      <4>1. CASE c.op = "updateNic" /\ c.host # CN
        <5>1. c.host \in Hosts /\ c.cfg \in Cfgs
          BY <4>1 DEF Calls, GetCalls, Writes, PostCalls, PutCalls,
                      DeleteCalls, VmadmCalls, UpdateCalls, VmCalls
        <5>2. zone[c.host] \in ZoneNic
          BY <1>1, <3>2, <4>1, <5>1 DEF Applies, HasNic, Zones
        <5>3. PICK z : z = [zone[c.host] EXCEPT !.cfg = c.cfg]
          OBVIOUS
        <5>4. z \in Zones
          BY <5>1, <5>2, <5>3 DEF ZoneNic, Zones
        <5>5. zone' = [zone EXCEPT ![c.host] = z]
          BY <3>2, <4>1, <5>3 DEF Configured
        <5> QED BY <1>1, <5>4, <5>5
      <4>2. CASE c.op = "removeNic"
        <5>1. [has |-> "bare"] \in Zones
          BY DEF Zones
        <5>2. zone' = [zone EXCEPT ![c.host] = [has |-> "bare"]]
          BY <3>2, <4>2 DEF Configured
        <5> QED BY <1>1, <5>1, <5>2
      <4>3. CASE c.op # "removeNic" /\ ~(c.op = "updateNic" /\ c.host # CN)
        BY <1>1, <3>2, <4>3 DEF Configured
      <4> QED BY <4>1, <4>2, <4>3
    <3> QED BY <1>6, <3>1, <3>2 DEF ServeVmadm
  <2> QED BY <1>1, <2>1, <2>2, <2>3
<1> QED BY <1>2, <1>3, <1>4, <1>5, <1>6 DEF Serve

LEMMA ServicesKeep ==
  ASSUME IInv, Services
  PROVE  IInv'
<1>1. /\ TypeOK /\ FSMOk(nic) /\ Copies /\ \A c \in wire : DeleteOk(c)
      /\ nic \in FSM
  BY DEF IInv, TypeOK
<1>2. CASE ServeCall
  <2>1. nic.call \in Calls /\ nic.call # None /\ nic.reply = None
    BY <1>1, <1>2 DEF ServeCall, Waiting, FSM
  <2>2. PICK r \in Answers :
          Serve(nic.call, r) /\ nic' = [nic EXCEPT !.reply = r]
    BY <1>2 DEF ServeCall
  <2>3. /\ zone' \in [Hosts -> Zones] /\ napi' \in Stored \cup {None}
        /\ Changed
        /\ r \in Replies
        /\ r.res # None => r.res = napi'
        /\ (r.code = 200 /\ nic.call.op \in {"get", "post", "put"})
             => r.res # None
    BY <1>1, <2>1, <2>2, ServeFacts
  <2>4. /\ nic' \in FSM
        /\ nic'.st = nic.st /\ nic'.timer = nic.timer /\ nic'.call = nic.call
        /\ nic'.reply = r /\ nic'.remote = nic.remote /\ nic'.etag = nic.etag
        /\ nic'.hears = nic.hears
        /\ nic'.local = nic.local
    BY <1>1, <2>2, <2>3 DEF FSM
  <2>5. FSMOk(nic')
    BY <1>1, <2>1, <2>3, <2>4 DEF FSMOk
  <2>6. TypeOK'
    BY <1>1, <1>2, <2>3, <2>4 DEF ServeCall, TypeOK
  <2>7. Copies' /\ \A c \in wire' : DeleteOk(c)'
    BY <1>2, <2>3, <2>4, ChangedKeeps DEF ServeCall
  <2> QED BY <2>5, <2>6, <2>7 DEF IInv
<1>3. CASE FailCall
  <2>1. nic.call \in Calls /\ nic.call # None /\ nic.reply = None
    BY <1>1, <1>3 DEF FailCall, Waiting, FSM
  <2>2. Fail(500) \in Replies /\ Fail(500).code = 500 /\ Fail(500).res = None
    BY DEF Fail, Replies
  <2>3. PICK r : r = Fail(500)
    OBVIOUS
  <2>4. /\ nic' \in FSM
        /\ nic'.st = nic.st /\ nic'.timer = nic.timer /\ nic'.call = nic.call
        /\ nic'.reply = r /\ nic'.remote = nic.remote /\ nic'.etag = nic.etag
        /\ nic'.hears = nic.hears
        /\ nic'.local = nic.local
    BY <1>1, <1>3, <2>2, <2>3 DEF FailCall, FSM
  <2>5. FSMOk(nic')
    BY <1>1, <2>1, <2>2, <2>3, <2>4 DEF FSMOk
  <2>6. left' \in [Kinds -> Nat]
    BY <1>1, <1>3, SpendType DEF FailCall, Kinds
  <2>7. TypeOK'
    BY <1>1, <1>3, <2>4, <2>6 DEF FailCall, TypeOK
  <2>8. Copies'
    BY <1>1, <1>3, <2>2, <2>3, <2>4 DEF FailCall, Copies
  <2>9. \A c \in wire' : DeleteOk(c)'
    BY <1>1, <1>3, <2>1, CallDeleteOk DEF FailCall, DeleteOk, Matches
  <2> QED BY <2>5, <2>7, <2>8, <2>9 DEF IInv
<1>4. ASSUME NEW c \in wire, ServeAbandoned(c)
      PROVE  IInv'
  <2>1. PICK r \in Answers : Serve(c, r)
    BY <1>4 DEF ServeAbandoned
  <2>2. c \in Calls
    BY <1>1 DEF TypeOK, Calls
  <2>3. zone' \in [Hosts -> Zones] /\ napi' \in Stored \cup {None} /\ Changed
    BY <1>1, <2>1, <2>2, ServeFacts
  <2>4. watch' \in BOOLEAN
    <3>1. (watch \/ RunOf(c)) \in BOOLEAN
      OBVIOUS
    <3> QED BY <1>4, <3>1 DEF ServeAbandoned
  <2>5. TypeOK'
    BY <1>1, <1>4, <2>3, <2>4 DEF ServeAbandoned, TypeOK
  <2>6. Copies' /\ \A d \in wire' : DeleteOk(d)'
    BY <1>4, <2>3, ChangedKeeps DEF ServeAbandoned
  <2>7. FSMOk(nic')
    BY <1>1, <1>4 DEF ServeAbandoned
  <2> QED BY <2>5, <2>6, <2>7 DEF IInv
<1>5. ASSUME NEW c \in wire, LoseAbandoned(c)
      PROVE  IInv'
  <2>1. left' \in [Kinds -> Nat]
    BY <1>1, <1>5, SpendType DEF LoseAbandoned, Kinds
  <2>2. TypeOK'
    BY <1>1, <1>5, <2>1 DEF LoseAbandoned, TypeOK
  <2>3. Copies' /\ \A d \in wire' : DeleteOk(d)'
    BY <1>5, ChangedKeeps DEF LoseAbandoned, Changed
  <2>4. FSMOk(nic')
    BY <1>1, <1>5 DEF LoseAbandoned
  <2> QED BY <2>2, <2>3, <2>4 DEF IInv
<1> QED BY <1>2, <1>3, <1>4, <1>5 DEF Services

LEMMA OthersKeep ==
  ASSUME IInv, Others
  PROVE  IInv'
<1>1. TypeOK /\ FSMOk(nic)
  BY DEF IInv
<1>2. CASE NapiChange
  <2>1. left' \in [Kinds -> Nat]
    BY <1>1, <1>2, SpendType DEF NapiChange, Kinds
  <2>2. PICK m \in NapiMoves :
          IF m[2] = None THEN napi # None /\ napi' = None ELSE Store(m[2])
    BY <1>2 DEF NapiChange
  <2>3. napi' \in Stored \cup {None} /\ Changed
    <3>1. m[2] # None => m[2] \in RemoteNic
      BY MovesAssumption
    <3> QED BY <2>2, <3>1, StoreType DEF Changed
  <2>4. TypeOK'
    BY <1>1, <1>2, <2>1, <2>3 DEF NapiChange, TypeOK
  <2>5. Copies' /\ \A c \in wire' : DeleteOk(c)'
    BY <1>2, <2>3, ChangedKeeps DEF NapiChange
  <2>6. FSMOk(nic')
    BY <1>1, <1>2 DEF NapiChange
  <2> QED BY <2>4, <2>5, <2>6 DEF IInv
<1>3. ASSUME NEW h \in Hosts, ZoneChange(h)
      PROVE  IInv'
  <2>1. left' \in [Kinds -> Nat]
    BY <1>1, <1>3, SpendType DEF ZoneChange, Kinds
  <2>2. zone' \in [Hosts -> Zones]
    <3>1. PICK z \in Zones : zone' = [zone EXCEPT ![h] = z]
      BY <1>3 DEF ZoneChange
    <3> QED BY <1>1, <3>1 DEF TypeOK
  <2>3. watch' \in BOOLEAN
    <3>1. (watch \/ h \in VMs) \in BOOLEAN
      OBVIOUS
    <3> QED BY <1>3, <3>1 DEF ZoneChange
  <2>4. TypeOK'
    BY <1>1, <1>3, <2>1, <2>2, <2>3 DEF ZoneChange, TypeOK
  <2>5. Copies' /\ \A c \in wire' : DeleteOk(c)'
    BY <1>3, ChangedKeeps DEF ZoneChange, Changed
  <2>6. FSMOk(nic')
    BY <1>1, <1>3 DEF ZoneChange
  <2> QED BY <2>4, <2>5, <2>6 DEF IInv
<1> QED BY <1>2, <1>3 DEF Others

LEMMA InitHolds ==
  ASSUME Init
  PROVE  IInv
<1>1. PICK f : f = Absent
  OBVIOUS
<1>2. f \in FSM /\ f.st = "stopped" /\ f.timer = "none" /\ f.etag = None
      /\ f.call = None /\ f.reply = None /\ ~f.hears
  BY <1>1 DEF Absent, FSM, FSMStates
<1>3. NoRefs \in [Hosts -> Refs] /\ NoList \in [VMs -> Zones \cup {None}]
  BY DEF NoRefs, Refs, NoList
<1>4. left \in [Kinds -> Nat]
  BY StartAssumption DEF Init
<1>5. TypeOK
  BY <1>1, <1>2, <1>3, <1>4, StartAssumption DEF Init, TypeOK
<1>6. FSMOk(f)
  BY <1>2 DEF FSMOk
<1>7. nic = f /\ wire = {}
  BY <1>1 DEF Init
<1>8. Copies
  BY <1>2, <1>5, <1>7, NoneIsNothing DEF Copies, TypeOK, Stored
<1> QED BY <1>5, <1>6, <1>7, <1>8 DEF IInv

LEMMA Inductive ==
  ASSUME IInv, [Next]_vars
  PROVE  IInv'
<1>1. CASE Next
  BY <1>1, AgentKeeps, ServicesKeep, OthersKeep DEF Next
<1>2. CASE UNCHANGED vars
  BY <1>2 DEF vars, IInv, TypeOK, Copies, DeleteOk, Matches
<1> QED BY <1>1, <1>2

LEMMA InvariantImpliesSafety ==
  ASSUME IInv
  PROVE  TypeOK /\ DeletesReleasedOnly
<1>1. ASSUME NEW c \in InFlight
      PROVE  DeleteOk(c)
  <2>1. CASE c \in wire
    BY <2>1 DEF IInv
  <2>2. CASE c = nic.call /\ c # None
    BY <2>2, CallDeleteOk
  <2> QED BY <1>1, <2>1, <2>2 DEF InFlight
<1> QED BY <1>1 DEF IInv, DeletesReleasedOnly, DeleteOk, Settled

-----------------------------------------------------------------------------
(* The theorems.                                                           *)

\* The inductive invariant holds in every state of every behaviour.
THEOREM Invariant == Spec => []IInv
<1>1. Init => IInv
  BY InitHolds
<1>2. IInv /\ [Next]_vars => IInv'
  BY Inductive
<1> QED BY <1>1, <1>2, PTL DEF Spec

\* Every variable keeps its type: the object of app.nics, the references to
\* it, the node's configuration, NAPI's record and the requests on the wire,
\* whatever the sets of VMs, configurations and Etags are.
THEOREM TypeCorrect == Spec => []TypeOK
<1>1. IInv => TypeOK
  BY InvariantImpliesSafety
<1> QED BY <1>1, Invariant, PTL

\* A DELETE that the agent sent takes effect only on a record that belongs to
\* the owner the NIC was released from and is settled, however many VMs there
\* are, however stale the agent's copy is, whatever other clients of NAPI do
\* and whatever is lost, late, or left behind by an agent that died.
THEOREM DeleteSafety == Spec => []DeletesReleasedOnly
<1>1. IInv => DeletesReleasedOnly
  BY InvariantImpliesSafety
<1> QED BY <1>1, Invariant, PTL
=============================================================================
