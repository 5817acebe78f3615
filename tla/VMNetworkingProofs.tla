------------------------- MODULE VMNetworkingProofs -------------------------
(***************************************************************************)
(* Type correctness of VMNetworking and VmUpdatesOrdered, for every VM,    *)
(* any NICs, networks, routes and resolvers, and any bounds.               *)
(***************************************************************************)
EXTENDS VMNetworking, InstanceFSMProofs

Cfg0 == CHOOSE c \in Cfgs : TRUE

\* The NIC is the VM's, on the node and in the copy of NAPI's record.
Own(f) ==
  /\ f.etag = None
  /\ f.local # None /\ f.local.owner = vm /\ f.local.cfg = Cfg0
  /\ f.remote # None => f.remote.owner = vm /\ f.remote.cfg = Cfg0

\* The states that an object never rests in where owner and configuration
\* agree and records have no Etag.
Elsewhere == {"stopped", "update.local", "remove.reboot", "release.delete"}

Plain(f) == FSMOk(f) /\ (f = Absent \/ (Own(f) /\ f.st \notin Elsewhere))

LEMMA OnlyVm ==
  /\ vm \in VMs /\ vm \in Hosts /\ vm \in Owners /\ VMs = {vm} /\ vm # CN
  /\ Cfg0 \in Cfgs /\ ~HasEtags
BY NetworkingAssumption, OwnersDistinct DEF Hosts, Owners, Cfg0

LEMMA AbsentPlain ==
  /\ Absent \in FSM /\ Plain(Absent) /\ Absent.st = "stopped"
  /\ Absent.remote = None /\ Absent.reply = None /\ Absent.call = None
  /\ Absent.poke = None
BY DEF Absent, FSM, FSMStates, Plain, FSMOk

-----------------------------------------------------------------------------
(* The state functions of the VM's NICs.                                   *)

LEMMA OwnGoto ==
  ASSUME NEW f \in FSM, Own(f), NEW s \in FSMStates, NEW g,
         g = Goto(f, s) \/ g = GotoSub(f, s)
  PROVE  /\ g \in FSM /\ Own(g) /\ g.st = s /\ g.reply = None
         /\ g.remote = f.remote /\ g.poke = f.poke /\ g.local = f.local
         /\ g.needVm = f.needVm
BY GotoFields DEF Own

LEMMA OwnAwait ==
  ASSUME NEW f \in FSM, Own(f), NEW c \in Calls, NEW g, g = Await(f, c)
  PROVE  /\ g \in FSM /\ Own(g) /\ g.st = f.st /\ g.reply = f.reply
         /\ g.remote = f.remote /\ g.poke = f.poke
BY DEF Await, FSM, Own

\* f goes to one of the states S, with the copy of the record it has.
Goes(f, g, S) ==
  /\ g \in FSM /\ FSMOk(g) /\ Own(g) /\ g.st \in S
  /\ g.reply = None /\ g.remote = f.remote

LEMMA RefreshGoes ==
  ASSUME NEW f \in FSM, Own(f), NEW g, g = EnterRefresh(f)
  PROVE  Goes(f, g, {"refresh"}) /\ g.poke = f.poke
<1>1. PICK h : h = Goto(f, "refresh")
  OBVIOUS
<1>2. PICK c \in Calls : c = [op |-> "get"]
  BY DEF Calls, GetCalls
<1>3. Fresh(f, g)
  BY RefreshFresh DEF Own
<1>4. /\ h \in FSM /\ Own(h) /\ h.st = "refresh" /\ h.reply = None
      /\ h.remote = f.remote /\ h.poke = f.poke
  BY <1>1, OwnGoto DEF FSMStates
<1>5. g = Await(h, c)
  BY <1>1, <1>2 DEF EnterRefresh
<1> QED BY <1>3, <1>4, <1>5, OwnAwait DEF Fresh, Goes

LEMMA ReleaseRefreshGoes ==
  ASSUME NEW f \in FSM, Own(f), NEW g, g = EnterReleaseRefresh(f)
  PROVE  Goes(f, g, {"release.refresh"}) /\ g.poke = f.poke
<1>1. PICK h : h = Goto(f, "release.refresh")
  OBVIOUS
<1>2. PICK c \in Calls : c = [op |-> "get"]
  BY DEF Calls, GetCalls
<1>3. Fresh(f, g)
  BY ReleaseRefreshFresh DEF Own
<1>4. /\ h \in FSM /\ Own(h) /\ h.st = "release.refresh" /\ h.reply = None
      /\ h.remote = f.remote /\ h.poke = f.poke
  BY <1>1, OwnGoto DEF FSMStates
<1>5. g = Await(h, c)
  BY <1>1, <1>2 DEF EnterReleaseRefresh
<1> QED BY <1>3, <1>4, <1>5, OwnAwait DEF Fresh, Goes

\* Without an Etag there is nothing to delete.
LEMMA ReleaseGoes ==
  ASSUME NEW f \in FSM, Own(f), NEW g, g = EnterRelease(f)
  PROVE  g = Absent \/ (Goes(f, g, {"release.refresh"}) /\ g.poke = f.poke)
BY ReleaseRefreshGoes DEF EnterRelease, MayDelete, EnterStopped, Own

LEMMA RemoveGoes ==
  ASSUME NEW f \in FSM, Own(f), NEW I \in SUBSET VMs, NEW g,
         g = EnterRemove(f, I)
  PROVE  g = Absent \/ Goes(f, g, {"remove.nic"})
<1>1. CASE f.local.owner \notin I
  BY <1>1 DEF EnterRemove, Own, EnterStopped
<1>2. CASE f.local.owner \in I
  <2>1. PICK h : h = Goto(f, "remove.nic")
    OBVIOUS
  <2>2. PICK c \in Calls : c = [op |-> "removeNic", host |-> f.local.owner]
    BY <1>2 DEF Calls, VmadmCalls, VmCalls
  <2>3. Fresh(f, g)
    BY RemoveFresh DEF Own
  <2>4. /\ h \in FSM /\ Own(h) /\ h.st = "remove.nic" /\ h.reply = None
        /\ h.remote = f.remote
    BY <2>1, OwnGoto DEF FSMStates
  <2>5. g = Await(h, c)
    BY <1>2, <2>1, <2>2 DEF EnterRemove, Own
  <2> QED BY <2>3, <2>4, <2>5, OwnAwait DEF Fresh, Goes
<1> QED BY <1>1, <1>2

LEMMA CreateGoes ==
  ASSUME NEW f \in FSM, Own(f), NEW g, g = EnterCreate(f)
  PROVE  Goes(f, g, {"create"})
<1>1. PICK h : h = Goto(f, "create")
  OBVIOUS
<1>2. PICK c \in Calls : c = [op |-> "post", nic |-> f.local]
  BY DEF Calls, Writes, PostCalls, FSM, Own
<1>3. Fresh(f, g)
  BY CreateFresh DEF Own
<1>4. /\ h \in FSM /\ Own(h) /\ h.st = "create" /\ h.reply = None
      /\ h.remote = f.remote
  BY <1>1, OwnGoto DEF FSMStates
<1>5. g = Await(h, c)
  BY <1>1, <1>2 DEF EnterCreate, Own
<1> QED BY <1>3, <1>4, <1>5, OwnAwait DEF Fresh, Goes

LEMMA UpdateNapiGoes ==
  ASSUME NEW f \in FSM, Own(f), f.remote # None, NEW g, g = EnterUpdateNapi(f)
  PROVE  Goes(f, g, {"waiting", "update.napi"}) /\ g.poke = f.poke
<1>1. Fresh(f, g)
  BY UpdateNapiFresh DEF Own
<1>2. CASE ~LocalDiffers(f)
  <2>1. g = Goto(f, "waiting")
    BY <1>2 DEF EnterUpdateNapi, EnterWaiting
  <2> QED BY <1>1, <2>1, OwnGoto DEF Fresh, Goes, FSMStates
<1>3. CASE LocalDiffers(f)
  <2>1. PICK h : h = GotoSub(f, "update.napi")
    OBVIOUS
  <2>2. PICK c \in Calls : c = PutCall(f)
    <3>1. f.local \in LocalNic
      BY DEF FSM, Own
    <3>2. PICK c : c = PutCall(f)
      OBVIOUS
    <3>3. c \in Calls
      BY <3>1, <3>2 DEF PutCall, Calls, Writes, PutCalls, LocalNic
    <3> QED BY <3>2, <3>3
  <2>3. /\ h \in FSM /\ Own(h) /\ h.st = "update.napi" /\ h.reply = None
        /\ h.remote = f.remote /\ h.poke = f.poke
    BY <2>1, OwnGoto DEF FSMStates
  <2>4. g = Await(h, c)
    BY <1>3, <2>1, <2>2 DEF EnterUpdateNapi
  <2> QED BY <1>1, <2>3, <2>4, OwnAwait DEF Fresh, Goes
<1> QED BY <1>2, <1>3

\* A copy with other routes makes the VM's InstanceFSM ask for a list.
LEMMA UpdateGoes ==
  ASSUME NEW f \in FSM, Own(f), NEW I \in SUBSET VMs, NEW g,
         g = EnterUpdate(f, I)
  PROVE  /\ Goes(f, g, {"crashed.update", "waiting", "update.napi"})
         /\ (f.remote # None /\ f.needVm /\ vm \in I) => g.poke = vm
<1>1. CASE f.remote = None
  <2>1. g = Goto(f, "crashed.update")
    BY <1>1 DEF EnterUpdate, Own
  <2>2. Fresh(f, g)
    BY UpdateFresh DEF Own
  <2> QED BY <1>1, <2>1, <2>2, OwnGoto DEF Fresh, Goes, FSMStates
<1>2. CASE f.remote # None
  <2>1. PICK h : h = Goto(f, "update.local")
    OBVIOUS
  <2>2. /\ h \in FSM /\ Own(h) /\ h.remote = f.remote /\ h.poke = f.poke
        /\ h.needVm = f.needVm
    BY <2>1, OwnGoto DEF FSMStates
  <2>3. PICK k : k = [h EXCEPT !.hears = TRUE]
    OBVIOUS
  <2>4. /\ k \in FSM /\ Own(k) /\ k.remote = f.remote /\ k.poke = f.poke
        /\ k.needVm = f.needVm
    BY <2>2, <2>3 DEF FSM, Own
  <2>5. f.local.owner = vm /\ f.remote.owner = vm /\ f.local # None
    BY <1>2 DEF Own
  <2>6. g = EnterUpdateLocal(k, I)
    BY <1>2, <2>1, <2>3, <2>5, OnlyVm DEF EnterUpdate, Unclaimed
  <2>7. PICK x : x = [k EXCEPT !.needVm = FALSE]
    OBVIOUS
  <2>8. PICK y : y = [x EXCEPT !.poke = k.local.owner]
    OBVIOUS
  <2>9. x \in FSM /\ Own(x) /\ x.remote = f.remote
    BY <2>4, <2>7 DEF FSM, Own
  <2>10. y \in FSM /\ Own(y) /\ y.remote = f.remote /\ y.poke = vm
    BY <2>4, <2>9, <2>8, OnlyVm DEF FSM, Own
  <2>11. ~RemoteDiffers(k)
    BY <1>2, <2>4 DEF RemoteDiffers, Own
  <2>12. \/ g = EnterUpdateNapi(x) /\ ~f.needVm
         \/ g = EnterWaiting(x) /\ vm \notin I
         \/ g = EnterUpdateNapi(y)
    BY <2>4, <2>6, <2>7, <2>8, <2>11 DEF EnterUpdateLocal, HasOwner, Own
  <2>13. ASSUME g = EnterWaiting(x)
         PROVE  Goes(x, g, {"waiting"})
    <3>1. Fresh(x, g)
      BY <2>9, <2>13, WaitingFresh DEF Own
    <3>2. g = Goto(x, "waiting")
      BY <2>13 DEF EnterWaiting
    <3> QED BY <2>9, <3>1, <3>2, OwnGoto DEF Fresh, Goes, FSMStates
  <2>14. ASSUME g = EnterUpdateNapi(x)
         PROVE  Goes(x, g, {"waiting", "update.napi"})
    BY <1>2, <2>9, <2>14, UpdateNapiGoes
  <2>15. ASSUME g = EnterUpdateNapi(y)
         PROVE  Goes(y, g, {"waiting", "update.napi"}) /\ g.poke = vm
    BY <1>2, <2>10, <2>15, UpdateNapiGoes
  <2> QED BY <2>9, <2>10, <2>12, <2>13, <2>14, <2>15 DEF Goes
<1> QED BY <1>1, <1>2

LEMMA BackOffGoes ==
  ASSUME NEW f \in FSM, FSMOk(f), Own(f), NEW s \in Timers,
         s \in {f.st, "refresh"}, NEW g, g = BackOff(f, s)
  PROVE  Goes(f, g, {f.st})
<1>1. Turned(f, g)
  BY BackOffTurned
<1>2. /\ g.st = f.st /\ g.reply = None /\ g.remote = f.remote
      /\ g.local = f.local /\ g.etag = f.etag
  BY DEF BackOff, FSM
<1> QED BY <1>1, <1>2 DEF Goes, Turned, Own

-----------------------------------------------------------------------------
(* A turn of a NIC's object.                                               *)

RoutesOf(f) == IF f.remote = None THEN None ELSE f.remote.routes

\* The states of an object whose VM is gone.
Going == {"create", "remove.nic", "release.refresh"}

NotFound(f) == f.reply # None /\ f.reply.code = 404

\* f becomes g in a turn in which the VMs in I have their InstanceFSMs.
Moved(f, g, I) ==
  /\ g \in FSM /\ Plain(g)
  /\ g.reply = None \/ (g.reply = f.reply /\ g.call = f.call)
  /\ g.st \in {"create", "remove.nic"} => g.st = f.st \/ NotFound(f)
  /\ g.st = "release.refresh" => f.st \in {"create", "release.refresh"}
  /\ \/ f.st \in Going \/ NotFound(f)
     \/ RoutesOf(g) = RoutesOf(f)
     \/ vm \in I => g.poke = vm

LEMMA GoesMoved ==
  ASSUME NEW f, NEW I, NEW g, NEW S,
         Goes(f, g, S), S \cap (Elsewhere \cup Going) = {}
  PROVE  Moved(f, g, I)
BY DEF Goes, Moved, Plain, RoutesOf, Going

\* Where the VM is known to be gone, routes no longer matter.
LEMMA GoneMoved ==
  ASSUME NEW f, NEW I, NEW g,
         g = Absent \/ (g \in FSM /\ FSMOk(g) /\ Own(g) /\ g.reply = None),
         g = Absent \/ g.st \in Going,
         f.st \in Going \/ NotFound(f),
         g.st \in {"create", "remove.nic"} => g.st = f.st \/ NotFound(f),
         g.st = "release.refresh" => f.st \in {"create", "release.refresh"}
  PROVE  Moved(f, g, I)
BY AbsentPlain DEF Moved, Plain, Going, Elsewhere

LEMMA SetRemoteOwn ==
  ASSUME NEW f \in FSM, Own(f), NEW res \in Stored, NEW k,
         k = SetRemote(f, res), res.nic.owner = vm, res.nic.cfg = Cfg0
  PROVE  /\ k \in FSM /\ Own(k) /\ k.remote = res.nic /\ k.remote # None
         /\ k.needVm <=> f.remote = None \/ f.remote.routes # res.nic.routes
<1>1. /\ k \in FSM /\ k.remote = res.nic /\ k.remote # None
      /\ k.local = f.local
  BY SetRemoteFields
<1>2. k.etag = None /\ (k.needVm <=>
        f.remote = None \/ f.remote.routes # res.nic.routes)
  BY OnlyVm DEF SetRemote, FSM
<1> QED BY <1>1, <1>2 DEF Own

\* The answer that f is about to hear is about the VM's NIC.
Trusted(f) ==
  /\ f.reply # None
  /\ f.reply.code = 200 => f.call.op # "removeNic"
  /\ f.reply.res # None =>
       f.reply.res.nic.owner = vm /\ f.reply.res.nic.cfg = Cfg0

\* An answer with a record.
LEMMA LearnedMoved ==
  ASSUME NEW f \in FSM, FSMOk(f), Own(f), Trusted(f), f.reply.code = 200,
         f.st \in {"refresh", "create", "update.napi", "release.refresh"},
         NEW I \in SUBSET VMs, NEW k, k = SetRemote(f, f.reply.res)
  PROVE  /\ Moved(f, EnterUpdate(k, I), I)
         /\ EnterRelease(k) = Absent
<1>1. f.reply.res \in Stored /\ f.reply.res # None
  BY AnswerHasRecord DEF Trusted
<1>2. /\ k \in FSM /\ Own(k) /\ k.remote # None
      /\ k.needVm <=> f.remote = None \/ f.remote.routes # k.remote.routes
  BY <1>1, SetRemoteOwn DEF Trusted
<1>3. PICK g : g = EnterUpdate(k, I)
  OBVIOUS
<1>4. /\ Goes(k, g, {"crashed.update", "waiting", "update.napi"})
      /\ (k.needVm /\ vm \in I) => g.poke = vm
  BY <1>2, <1>3, UpdateGoes
<1>5. RoutesOf(g) = RoutesOf(f) \/ (vm \in I => g.poke = vm)
  BY <1>2, <1>4 DEF Goes, RoutesOf
<1>6. Moved(f, g, I)
  BY <1>4, <1>5 DEF Goes, Moved, Plain, Elsewhere
<1>7. EnterRelease(k) = Absent
  BY <1>2 DEF EnterRelease, MayDelete, EnterStopped, Own
<1> QED BY <1>3, <1>6, <1>7

LEMMA DeliveredMoved ==
  ASSUME NEW f \in FSM, Plain(f), Trusted(f)
  PROVE  Moved(f, Delivered(f), insts)
<1>1. FSMOk(f) /\ f.reply # None
  BY DEF Plain, Trusted
<1>2. f.call # None /\ f.call.op = OpOf(f.st) /\ f.call \in Calls
  BY <1>1 DEF FSMOk, FSM
<1>3. Own(f) /\ f.st \notin Elsewhere
  BY <1>2, AbsentPlain DEF Plain
<1>4. f.st \in {"refresh", "create", "update.napi"} \cup Going
  <2>1. f.call.op # "none"
    BY <1>2 DEF Calls, GetCalls, Writes, PostCalls, PutCalls, DeleteCalls,
                VmadmCalls, UpdateCalls, VmCalls
  <2> QED BY <1>2, <1>3, <2>1 DEF OpOf, Elsewhere, Going
<1>5. PICK I \in SUBSET VMs : I = insts
  BY OnlyVm DEF insts
<1>6. PICK k : k = SetRemote(f, f.reply.res)
  OBVIOUS
<1>7. f.reply.code = 200 /\ f.st # "remove.nic" =>
        Moved(f, EnterUpdate(k, I), I) /\ EnterRelease(k) = Absent
  BY <1>1, <1>3, <1>4, <1>6, LearnedMoved DEF Going
<1>8. ASSUME NEW s \in Timers, s \in {f.st, "refresh"}
      PROVE  Moved(f, BackOff(f, s), I)
  <2>1. PICK g : g = BackOff(f, s)
    OBVIOUS
  <2>2. Goes(f, g, {f.st})
    BY <1>1, <1>3, <1>8, <2>1, BackOffGoes
  <2>3. Plain(g)
    BY <1>3, <2>2 DEF Goes, Plain
  <2> QED BY <2>1, <2>2, <2>3 DEF Goes, Moved, RoutesOf
<1>9. PICK rel : rel = EnterRelease(f)
  OBVIOUS
<1>10. PICK rem : rem = EnterRemove(f, I)
  OBVIOUS
<1>11. PICK cre : cre = EnterCreate(f)
  OBVIOUS
<1>12. /\ rel = Absent \/ Goes(f, rel, {"release.refresh"})
       /\ rem = Absent \/ Goes(f, rem, {"remove.nic"})
       /\ Goes(f, cre, {"create"})
  BY <1>3, <1>9, <1>10, <1>11, ReleaseGoes, RemoveGoes, CreateGoes
<1>13. f.st = "create" => Moved(f, rel, I)
  BY <1>12, GoneMoved, AbsentPlain DEF Goes, Going
<1>14. NotFound(f) => Moved(f, rem, I) /\ Moved(f, cre, I)
  BY <1>12, GoneMoved, AbsentPlain DEF Goes, Going
<1>15. f.st = "release.refresh" => Moved(f, Absent, I)
  BY GoneMoved, AbsentPlain DEF Going
<1>16. CASE f.st = "refresh"
  <2>1. Delivered(f) = AfterGet(f, I)
    BY <1>5, <1>16 DEF Delivered
  <2> QED BY <1>1, <1>5, <1>6, <1>7, <1>8, <1>10, <1>11, <1>14, <1>16, <2>1
          DEF AfterGet, NotFound, Timers
<1>17. CASE f.st = "create"
  <2>1. Delivered(f) = AfterCreate(f, I)
    BY <1>5, <1>17 DEF Delivered
  <2> QED BY <1>5, <1>6, <1>7, <1>8, <1>9, <1>13, <1>17, <2>1
          DEF AfterCreate, Timers
<1>18. CASE f.st = "update.napi"
  <2>1. Delivered(f) = AfterPut(f, I)
    BY <1>5, <1>18 DEF Delivered
  <2> QED BY <1>1, <1>5, <1>6, <1>7, <1>8, <1>10, <1>14, <1>18, <2>1
          DEF AfterPut, NotFound, Timers
<1>19. CASE f.st = "remove.nic"
  <2>1. Delivered(f) = AfterRemove(f, I)
    BY <1>5, <1>19 DEF Delivered
  <2>2. f.reply.code # 200
    BY <1>2, <1>19 DEF Trusted, OpOf
  <2> QED BY <1>5, <1>8, <1>19, <2>1, <2>2 DEF AfterRemove, Timers
<1>20. CASE f.st = "release.refresh"
  <2>1. Delivered(f) = AfterReleaseGet(f)
    BY <1>20 DEF Delivered
  <2> QED BY <1>5, <1>6, <1>7, <1>8, <1>15, <1>20, <2>1
          DEF AfterReleaseGet, Timers, EnterStopped
<1> QED BY <1>4, <1>16, <1>17, <1>18, <1>19, <1>20 DEF Going

LEMMA RetryMoved ==
  ASSUME NEW f \in FSM, Plain(f), f.timer # "none"
  PROVE  Moved(f, Retry(f, insts), insts)
<1>1. Own(f) /\ f.st \notin Elsewhere /\ FSMOk(f)
  <2>1. f # Absent
    BY DEF Absent
  <2> QED BY <2>1 DEF Plain
<1>2. f.timer \in Timers /\ f.timer \in {f.st, "refresh"}
  BY <1>1 DEF FSM, FSMOk
<1>3. PICK I \in SUBSET VMs : I = insts
  BY OnlyVm DEF insts
<1>4. CASE f.timer = "refresh"
  <2>1. PICK g : g = EnterRefresh(f)
    OBVIOUS
  <2>2. Retry(f, insts) = g
    BY <1>4, <2>1 DEF Retry
  <2> QED BY <1>1, <2>1, <2>2, RefreshGoes, GoesMoved DEF Elsewhere, Going
<1>5. CASE f.timer = "update.napi"
  <2>1. PICK g : g = EnterUpdateNapi(f)
    OBVIOUS
  <2>2. Retry(f, insts) = g /\ f.remote # None
    BY <1>1, <1>2, <1>5, <2>1 DEF Retry, FSMOk
  <2> QED BY <1>1, <2>1, <2>2, UpdateNapiGoes, GoesMoved DEF Elsewhere, Going
<1>6. CASE f.timer = "remove.nic"
  <2>1. PICK g : g = EnterRemove(f, I)
    OBVIOUS
  <2>2. Retry(f, insts) = g /\ f.st = "remove.nic"
    BY <1>2, <1>3, <1>6, <2>1 DEF Retry
  <2>3. g = Absent \/ Goes(f, g, {"remove.nic"})
    BY <1>1, <2>1, RemoveGoes
  <2> QED BY <2>2, <2>3, GoneMoved, AbsentPlain DEF Goes, Going
<1>7. CASE f.timer = "release.refresh"
  <2>1. PICK g : g = EnterReleaseRefresh(f)
    OBVIOUS
  <2>2. Retry(f, insts) = g /\ f.st = "release.refresh"
    BY <1>2, <1>7, <2>1 DEF Retry
  <2>3. Goes(f, g, {"release.refresh"})
    BY <1>1, <2>1, ReleaseRefreshGoes
  <2> QED BY <2>2, <2>3, GoneMoved DEF Goes, Going
<1> QED BY <1>1, <1>2, <1>4, <1>5, <1>6, <1>7 DEF Timers, Elsewhere

\* In any state but stopped an object has the VM's NIC.
LEMMA PlainOwn ==
  ASSUME NEW f, Plain(f), f.st # "stopped"
  PROVE  Own(f) /\ f.st \notin Elsewhere /\ FSMOk(f)
BY AbsentPlain DEF Plain

LEMMA RefreshMoved ==
  ASSUME NEW f \in FSM, Plain(f), f.st # "stopped", NEW g,
         g = EnterRefresh(f)
  PROVE  Moved(f, g, insts) /\ g.poke = f.poke
BY PlainOwn, RefreshGoes, GoesMoved DEF Elsewhere, Going

LEMMA EmitSetMoved ==
  ASSUME NEW f \in FSM, Plain(f), "set" \in f.armed
  PROVE  Moved(f, EmitSet(f, insts), insts)
<1>1. Own(f) /\ f.st \notin Elsewhere /\ FSMOk(f)
  <2>1. f # Absent
    BY DEF Absent
  <2> QED BY <2>1 DEF Plain
<1>2. PICK g : g = [f EXCEPT !.armed = f.armed \ {"set"}]
  OBVIOUS
<1>3. /\ g \in FSM
      /\ g.st = f.st /\ g.timer = f.timer /\ g.call = f.call
      /\ g.reply = f.reply /\ g.remote = f.remote /\ g.etag = f.etag
      /\ g.hears = f.hears /\ g.local = f.local
  BY <1>2 DEF FSM
<1>4. Own(g)
  BY <1>1, <1>3 DEF Own
<1>5. FSMOk(g)
  BY <1>1, <1>3, SameStateTurned DEF Turned
<1>6. CASE f.st = "waiting"
  <2>1. PICK k : k = EnterUpdate(g, insts)
    OBVIOUS
  <2>2. Goes(g, k, {"crashed.update", "waiting", "update.napi"})
    BY <1>3, <1>4, <2>1, UpdateGoes, OnlyVm DEF insts
  <2>3. EmitSet(f, insts) = k
    BY <1>2, <1>6, <2>1 DEF EmitSet
  <2> QED BY <1>3, <2>2, <2>3 DEF Goes, Moved, Plain, RoutesOf, Elsewhere
<1>7. CASE f.st # "waiting"
  <2>1. EmitSet(f, insts) = g
    BY <1>2, <1>7 DEF EmitSet
  <2>2. Plain(g)
    BY <1>1, <1>3, <1>4, <1>5 DEF Plain
  <2>3. g.st \in {"create", "remove.nic"} => g.st = f.st
    BY <1>3
  <2> QED BY <1>3, <2>1, <2>2 DEF Moved, RoutesOf
<1> QED BY <1>6, <1>7

-----------------------------------------------------------------------------
(* NetworkFSM, and what vmadm leaves.                                      *)

NetStates == {"none", "init", "refresh", "waiting", "stopped"}
NetReplies == [code : {200}, res : Routes] \cup [code : {404, 500}]
NetAnswers == NetReplies \cup {None}

LEMMA NetFields ==
  Net = [st    : NetStates,
         old   : Routes \cup {None},
         cur   : Routes \cup {None},
         armed : BOOLEAN,
         call  : BOOLEAN,
         reply : NetAnswers,
         timer : BOOLEAN]
BY DEF Net, NetStates, NetReplies, NetAnswers

LEMMA NetGotoTyped ==
  ASSUME NEW n \in Net, NEW s \in NetStates, NEW g, g = NetGoto(n, s)
  PROVE  g \in Net
<1>1. g = [n EXCEPT !.st = s, !.call = FALSE, !.reply = None, !.timer = FALSE]
  BY DEF NetGoto
<1>2. None \in NetAnswers
  BY DEF NetAnswers
<1> QED BY <1>1, <1>2, NetFields

LEMMA NetTyped ==
  ASSUME NEW n \in Net
  PROVE  /\ NoNet \in Net /\ WatchNet(n) \in Net
         /\ EnterNetRefresh(n) \in Net /\ RefreshNet(n) \in Net
         /\ StopNet(n) \in Net /\ [n EXCEPT !.armed = FALSE] \in Net
<1>1. NoNet \in Net
  BY DEF NoNet, Net
<1>2. WatchNet(n) \in Net
  <2>1. PICK x : x = [NoNet EXCEPT !.st = "init"]
    OBVIOUS
  <2>2. x \in Net
    BY <1>1, <2>1, NetFields DEF NetStates
  <2> QED BY <2>1, <2>2 DEF WatchNet
<1>3. EnterNetRefresh(n) \in Net
  <2>1. PICK x : x = NetGoto(n, "refresh")
    OBVIOUS
  <2>2. x \in Net
    BY <2>1, NetGotoTyped DEF NetStates
  <2>3. PICK y : y = [x EXCEPT !.old = n.cur, !.call = TRUE]
    OBVIOUS
  <2>4. y \in Net
    BY <2>2, <2>3, NetFields
  <2> QED BY <2>1, <2>3, <2>4 DEF EnterNetRefresh
<1>4. NetGoto(n, "stopped") \in Net
  BY NetGotoTyped DEF NetStates
<1>5. [n EXCEPT !.armed = FALSE] \in Net
  <2>1. PICK x : x = [n EXCEPT !.armed = FALSE]
    OBVIOUS
  <2>2. x \in Net
    BY <2>1, NetFields
  <2> QED BY <2>1, <2>2
<1> QED BY <1>1, <1>2, <1>3, <1>4, <1>5 DEF RefreshNet, StopNet

LEMMA AfterGetTyped ==
  ASSUME NEW n \in Net, NEW r \in NetReplies, NEW k,
         k = AfterGetNetwork([n EXCEPT !.reply = r])
  PROVE  k \in Net
<1>1. PICK x : x = [n EXCEPT !.reply = r]
  OBVIOUS
<1>2. x \in Net /\ x.reply = r
  BY <1>1, NetFields DEF NetAnswers
<1>3. CASE r.code = 404
  <2>1. k = NetGoto(x, "stopped")
    BY <1>1, <1>2, <1>3 DEF AfterGetNetwork
  <2> QED BY <1>2, <2>1, NetGotoTyped DEF NetStates
<1>4. CASE r.code = 500
  <2>1. k = [x EXCEPT !.call = FALSE, !.reply = None, !.timer = TRUE]
    BY <1>1, <1>2, <1>4 DEF AfterGetNetwork
  <2>2. None \in NetAnswers
    BY DEF NetAnswers
  <2> QED BY <1>2, <2>1, <2>2, NetFields
<1>5. CASE r.code = 200
  <2>1. r.res \in Routes
    BY <1>5 DEF NetReplies
  <2>2. PICK y : y = [x EXCEPT !.cur = r.res]
    OBVIOUS
  <2>3. y \in Net
    BY <1>2, <2>1, <2>2, NetFields
  <2>4. k = EnterNetWaiting(y)
    BY <1>1, <1>2, <1>5, <2>2 DEF AfterGetNetwork
  <2>5. PICK a : a = (y.armed \/ NetHasChanged(y))
    OBVIOUS
  <2>7. a \in BOOLEAN
    BY <2>5
  <2>8. PICK z : z = NetGoto(y, "waiting")
    OBVIOUS
  <2>9. z \in Net
    BY <2>3, <2>8, NetGotoTyped DEF NetStates
  <2>10. k = [z EXCEPT !.armed = a]
    BY <2>4, <2>5, <2>8 DEF EnterNetWaiting
  <2> QED BY <2>7, <2>9, <2>10, NetFields
<1> QED BY <1>3, <1>4, <1>5 DEF NetReplies

LEMMA ZoneCases ==
  ASSUME NEW z \in Zones
  PROVE  /\ z # None
         /\ z.has \in {"vm", "hidden", "gone"}
         /\ z.has # "gone" => z.vm \in Vm /\ z = [has |-> z.has, vm |-> z.vm]
         /\ z.has = "gone" => z = [has |-> "gone"]
BY NoneIsNoRecord DEF Zones

LEMMA UpdatedTyped ==
  ASSUME TypeOK, NEW p \in Payloads
  PROVE  /\ Updated(p) \in Zones
         /\ (Updated(p)).has = zone.has
<1>1. CASE zone.has = "gone"
  BY <1>1 DEF Updated, TypeOK
<1>2. CASE zone.has # "gone"
  <2>1. zone.vm \in Vm /\ zone \in [has : {"vm", "hidden"}, vm : Vm]
    BY <1>2 DEF TypeOK, Zones
  <2>2. PICK r \in RouteMaps : r = Applied(zone.vm.routes, p.set, p.remove)
    BY <2>1, AppliedTyped DEF Vm, Payloads
  <2>3. PICK v : v = [zone.vm EXCEPT !.routes = r, !.resolvers = p.resolvers]
    OBVIOUS
  <2>4. v \in Vm
    BY <2>1, <2>2, <2>3 DEF Vm, Payloads
  <2>5. PICK z : z = [zone EXCEPT !.vm = v]
    OBVIOUS
  <2>6. z \in Zones /\ z.has = zone.has
    BY <2>1, <2>4, <2>5 DEF Zones
  <2>7. Updated(p) = z
    BY <1>2, <2>1, <2>2, <2>3, <2>5 DEF Updated, Vm
  <2> QED BY <2>6, <2>7
<1> QED BY <1>1, <1>2

-----------------------------------------------------------------------------
(* The inductive invariant of types.                                       *)

\* f may be the object of NIC m: it only creates or removes a NIC that has no
\* record, and only leaves a VM that is gone.
Fits(f, m) ==
  /\ Plain(f) /\ f.poke = None
  /\ f.reply # None => Trusted(f)
  /\ NotFound(f) => record[m] = None
  /\ f.st \in {"create", "remove.nic"} => record[m] = None
  /\ f.st = "release.refresh" => zone.has = "gone"

NicOk(m) == Fits(nic[m], m)

\* A NIC has its record, and the record its network, as long as the VM exists.
RecordOk(m) ==
  /\ record[m] # None => record[m].cfg = Cfg0 /\ network[NetOf[m]] # None
  /\ record[m] = None => zone.has = "gone"

IInv ==
  /\ TypeOK
  /\ InstOk(inst)
  /\ \A m \in Nics : NicOk(m) /\ RecordOk(m)
  /\ (list # None /\ list.has = "gone") => zone.has = "gone"

\* No record comes or goes, or changes its configuration.
RecordsKept ==
  /\ record' \in [Nics -> Records \cup {None}]
  /\ \A k \in Nics : /\ record'[k] = None <=> record[k] = None
                     /\ record'[k] # None => record'[k].cfg = record[k].cfg

LEMMA PutRecordFields ==
  ASSUME IInv, NEW m \in Nics, nic[m].call # None, NEW new,
         new = PutRecord(m)
  PROVE  /\ new \in [Nics -> Records \cup {None}]
         /\ \A k \in Nics : /\ new[k] = None <=> record[k] = None
                            /\ new[k] # None => new[k].cfg = record[k].cfg
<1>1. record \in [Nics -> Records \cup {None}] /\ nic[m] \in FSM
  BY DEF IInv, TypeOK
<1>2. CASE new = record
  BY <1>1, <1>2
<1>3. CASE new # record
  <2>1. /\ record[m] # None /\ nic[m].call.op = "put"
        /\ nic[m].call.state # None
        /\ new = [record EXCEPT ![m] =
                    [record[m] EXCEPT !.state = nic[m].call.state]]
    BY <1>3 DEF PutRecord
  <2>2. nic[m].call.state \in {"running", "stopped"}
    <3>1. nic[m].call \in Calls
      BY <1>1 DEF FSM
    <3> QED BY <2>1, <3>1 DEF Calls, GetCalls, Writes, PostCalls, PutCalls,
                              DeleteCalls, VmadmCalls, UpdateCalls, VmCalls
  <2>3. PICK r : r = [record[m] EXCEPT !.state = nic[m].call.state]
    OBVIOUS
  <2>4. record[m] \in Records
    BY <1>1, <2>1
  <2>5. r \in Records /\ r.cfg = record[m].cfg
    BY <2>2, <2>3, <2>4 DEF Records
  <2>6. r # None
    BY <2>5, NoneIsNoRecord
  <2>7. new = [record EXCEPT ![m] = r]
    BY <2>1, <2>3
  <2> QED BY <1>1, <2>1, <2>5, <2>6, <2>7
<1> QED BY <1>2, <1>3

LEMMA UnchangedKeeps ==
  ASSUME IInv, record' = record
  PROVE  RecordsKept
BY DEF IInv, TypeOK, RecordsKept

\* The answer that NIC m hears, in time or early, or the failure.
LEMMA NicAnswered ==
  ASSUME IInv, NEW m \in Nics, nic[m].call # None, NEW r,
         r = NicReply(m) \/ r = Failed(500),
         NEW f, f = [nic[m] EXCEPT !.reply = r]
  PROVE  /\ f \in FSM /\ Plain(f) /\ Trusted(f) /\ f.poke = None
         /\ f.st = nic[m].st /\ f.remote = nic[m].remote
         /\ f.call = nic[m].call /\ f.reply = r
         /\ NotFound(f) => record[m] = None
<1>1. nic[m] \in FSM /\ NicOk(m) /\ RecordOk(m)
  BY DEF IInv, TypeOK
<1>2. FSMOk(nic[m]) /\ Own(nic[m]) /\ nic[m].st \notin Elsewhere
  BY <1>1, AbsentPlain DEF NicOk, Fits, Plain
<1>3. /\ f.st = nic[m].st /\ f.remote = nic[m].remote
      /\ f.call = nic[m].call /\ f.reply = r /\ f.local = nic[m].local
      /\ f.etag = nic[m].etag /\ f.timer = nic[m].timer
      /\ f.hears = nic[m].hears /\ f.poke = nic[m].poke
  BY <1>1 DEF FSM
<1>4. CASE nic[m].reply # None /\ r = nic[m].reply
  <2>1. f = nic[m]
    BY <1>1, <1>4 DEF FSM
  <2> QED BY <1>1, <1>3, <1>4, <2>1 DEF NicOk, Fits
<1>5. ASSUME r \in Replies,
             r.code = 404 => record[m] = None,
             r.code = 200 => r.res # None /\ nic[m].call.op # "removeNic",
             r.res # None => r.res.nic.owner = vm /\ r.res.nic.cfg = Cfg0
      PROVE  /\ f \in FSM /\ Plain(f) /\ Trusted(f)
             /\ NotFound(f) => record[m] = None
  <2>1. r # None
    BY <1>5, NoneIsNothing
  <2>2. f \in FSM
    BY <1>1, <1>5 DEF FSM
  <2>3. FSMOk(f)
    BY <1>2, <1>3, <1>5 DEF FSMOk
  <2>4. Own(f)
    BY <1>2, <1>3 DEF Own
  <2> QED BY <1>2, <1>3, <1>5, <2>1, <2>2, <2>3, <2>4
          DEF Plain, Trusted, NotFound
<1>6. ASSUME NEW c \in {404, 500}, r = Failed(c), c = 404 => record[m] = None
      PROVE  /\ f \in FSM /\ Plain(f) /\ Trusted(f)
             /\ NotFound(f) => record[m] = None
  <2>1. r \in Replies /\ r.code = c /\ r.res = None
    BY <1>6 DEF Replies, Failed
  <2> QED BY <1>5, <1>6, <2>1
<1>7. ASSUME record[m] # None, nic[m].reply = None,
             r = Read(m, PutRecord(m)[m])
      PROVE  /\ f \in FSM /\ Plain(f) /\ Trusted(f)
             /\ NotFound(f) => record[m] = None
  <2>1. PICK x : x = PutRecord(m)[m]
    OBVIOUS
  <2>2. x \in Records /\ x.cfg = Cfg0 /\ x.owner = vm
    <3>1. PICK new : new = PutRecord(m)
      OBVIOUS
    <3>2. /\ new \in [Nics -> Records \cup {None}]
          /\ new[m] # None /\ new[m].cfg = record[m].cfg
      BY <1>7, <3>1, PutRecordFields
    <3> QED BY <1>1, <1>7, <2>1, <3>1, <3>2 DEF RecordOk, Records
  <2>3. PICK t \in Etags : t = CHOOSE u \in Etags : TRUE
    BY NetworkingAssumption
  <2>4. network[NetOf[m]] \in Routes
    BY <1>1, <1>7, NetworkingAssumption DEF RecordOk, IInv, TypeOK
  <2>5. PICK y : y = [owner |-> x.owner, state |-> x.state, cfg |-> x.cfg,
                      routes |-> network[NetOf[m]]]
    OBVIOUS
  <2>6. y \in RemoteNic /\ y.owner = vm /\ y.cfg = Cfg0
    BY <2>2, <2>4, <2>5, OnlyVm DEF RemoteNic, Records
  <2>7. PICK z : z = [nic |-> y, etag |-> t]
    OBVIOUS
  <2>8. z \in Stored /\ z # None /\ z.nic = y
    <3>1. z \in Stored /\ z.nic = y
      BY <2>3, <2>6, <2>7 DEF Stored
    <3> QED BY <3>1, NoneIsNothing
  <2>9. r = [code |-> 200, res |-> z]
    BY <1>7, <2>1, <2>3, <2>5, <2>7 DEF Read
  <2>10. r \in Replies /\ r.code = 200 /\ r.res = z
    BY <2>8, <2>9 DEF Replies
  <2>11. nic[m].call.op # "removeNic"
    <3>1. nic[m].st # "remove.nic"
      BY <1>1, <1>7 DEF NicOk, Fits
    <3> QED BY <1>2, <3>1 DEF FSMOk, OpOf
  <2> QED BY <1>5, <2>6, <2>8, <2>10, <2>11
<1>8. \/ nic[m].reply # None /\ r = nic[m].reply
      \/ \E c \in {404, 500} : r = Failed(c) /\ (c = 404 => record[m] = None)
      \/ /\ record[m] # None /\ nic[m].reply = None
         /\ r = Read(m, PutRecord(m)[m])
  BY DEF NicReply
<1> QED BY <1>1, <1>3, <1>4, <1>6, <1>7, <1>8 DEF NicOk, Fits

-----------------------------------------------------------------------------
(* The steps.                                                              *)

\* A turn of NIC m's object: what the VM's InstanceFSM knows of its NICs is
\* the same, or the watcher is asked for a list.
LEMMA NicTurn ==
  ASSUME IInv, NEW m \in Nics, NEW f, NEW g, Moved(f, g, insts),
         f.st = nic[m].st, f.remote = nic[m].remote,
         f.reply # None => Trusted(f),
         NotFound(f) => record[m] = None,
         SettleNic(m, g), RecordsKept, left' \in [Kinds -> Nat]
  PROVE  /\ IInv'
         /\ (Known /\ zone.has # "gone") => Remote' = Remote \/ watch'
<1>1. PICK h : h = [g EXCEPT !.poke = None]
  OBVIOUS
<1>2. g \in FSM /\ Plain(g)
  BY DEF Moved
<1>3. /\ h \in FSM /\ h.poke = None
      /\ h.st = g.st /\ h.timer = g.timer /\ h.call = g.call
      /\ h.reply = g.reply /\ h.remote = g.remote /\ h.etag = g.etag
      /\ h.hears = g.hears /\ h.local = g.local
  BY <1>1, <1>2 DEF FSM
<1>4. Plain(h)
  <2>1. CASE g = Absent
    BY <1>1, <2>1 DEF Absent, Plain, FSMOk
  <2>2. CASE g # Absent
    BY <1>2, <1>3, <2>2 DEF Plain, FSMOk, Own
  <2> QED BY <2>1, <2>2
<1>5. /\ nic' = [nic EXCEPT ![m] = h] /\ nic \in [Nics -> FSM]
      /\ UNCHANGED <<inst, list, runs, zone, network>>
  BY <1>1 DEF SettleNic, IInv, TypeOK
<1>6. NicOk(m) /\ RecordOk(m)
  BY DEF IInv
<1>7. ASSUME NEW k \in Nics
      PROVE  NicOk(k)' /\ RecordOk(k)'
  <2>1. NicOk(k) /\ RecordOk(k)
    BY DEF IInv
  <2>2. RecordOk(k)'
    BY <1>5, <2>1 DEF RecordOk, RecordsKept
  <2>3. CASE k # m
    <3>1. nic'[k] = nic[k]
      BY <1>5, <2>3
    <3> QED BY <1>5, <2>1, <2>2, <3>1 DEF NicOk, Fits, RecordsKept
  <2>4. CASE k = m
    <3>1. nic'[k] = h /\ (record'[k] = None <=> record[k] = None)
      BY <1>5, <2>4 DEF RecordsKept
    <3>2. h.reply # None => Trusted(h)
      BY <1>3 DEF Moved, Trusted
    <3>3. NotFound(h) => record[m] = None
      BY <1>3 DEF Moved, NotFound
    <3>4. h.st \in {"create", "remove.nic"} => record[m] = None
      BY <1>3, <1>6 DEF Moved, NicOk, Fits
    <3>5. h.st = "release.refresh" => zone.has = "gone"
      BY <1>3, <1>6 DEF Moved, NicOk, Fits, RecordOk
    <3> QED BY <1>3, <1>4, <1>5, <2>2, <2>4, <3>1, <3>2, <3>3, <3>4, <3>5
            DEF NicOk, Fits
  <2> QED BY <2>3, <2>4
<1>8. net' \in [Networks -> Net]
  <2>1. net \in [Networks -> Net] /\ NetOf[m] \in Networks
    BY NetworkingAssumption DEF IInv, TypeOK
  <2>2. WatchNet(net[NetOf[m]]) \in Net
    BY <2>1, NetTyped
  <2> QED BY <2>1, <2>2 DEF SettleNic, Watched
<1>9. TypeOK'
  BY <1>3, <1>5, <1>8 DEF IInv, TypeOK, RecordsKept, SettleNic
<1>10. IInv'
  BY <1>5, <1>7, <1>9 DEF IInv
<1>11. ASSUME Known, zone.has # "gone"
       PROVE  Remote' = Remote \/ watch'
  <2>1. record[m] # None /\ f.st \notin Going /\ ~NotFound(f)
    BY <1>6, <1>11 DEF RecordOk, NicOk, Fits, Going
  <2>2. vm \in insts
    BY <1>11 DEF insts
  <2>3. CASE RoutesOf(g) = RoutesOf(f)
    <3>1. \A k \in Nics : RoutesOf(nic'[k]) = RoutesOf(nic[k])
      BY <1>3, <1>5, <2>3 DEF RoutesOf
    <3> QED BY <3>1 DEF Remote, RoutesOf
  <2>4. CASE g.poke = vm
    BY <2>4 DEF SettleNic
  <2> QED BY <2>1, <2>2, <2>3, <2>4 DEF Moved
<1> QED BY <1>10, <1>11

LEMMA Spends ==
  ASSUME IInv, NEW kind \in Kinds, Spend(kind)
  PROVE  left' \in [Kinds -> Nat]
BY DEF Spend, IInv, TypeOK

LEMMA LongTimerBound ==
  ASSUME IInv, LongTimer
  PROVE  left' \in [Kinds -> Nat]
BY Spends DEF LongTimer, Kinds, IInv, TypeOK

\* The turns of NICs.
NicSteps(m) ==
  \/ NicImmediate(m) \/ SetAsserted(m) \/ NicHour(m) \/ NicRetry(m)
  \/ NicCallback(m) \/ NicFails(m)

LEMMA NicStep ==
  ASSUME IInv, NEW m \in Nics, NicSteps(m)
  PROVE  /\ IInv'
         /\ (Known /\ zone.has # "gone") => Remote' = Remote \/ watch'
         /\ UNCHANGED <<inst, list, runs, zone>> /\ (watch => watch')
<1>1. nic[m] \in FSM /\ NicOk(m) /\ Plain(nic[m]) /\ left \in [Kinds -> Nat]
  BY DEF IInv, TypeOK, NicOk, Fits
<1>2. ASSUME NEW g, Moved(nic[m], g, insts), SettleNic(m, g),
             UNCHANGED record, left' \in [Kinds -> Nat]
      PROVE  /\ IInv'
             /\ (Known /\ zone.has # "gone") => Remote' = Remote \/ watch'
  BY <1>1, <1>2, NicTurn, UnchangedKeeps DEF NicOk, Fits
<1>3. ASSUME NEW g, SettleNic(m, g)
      PROVE  UNCHANGED <<inst, list, runs, zone>> /\ (watch => watch')
  BY <1>3 DEF SettleNic
<1>4. CASE NicImmediate(m) \/ NicHour(m)
  <2>1. PICK g : g = EnterRefresh(nic[m])
    OBVIOUS
  <2>2. /\ nic[m].st # "stopped" /\ SettleNic(m, g) /\ UNCHANGED record
        /\ left' \in [Kinds -> Nat]
    BY <1>1, <1>4, <2>1, LongTimerBound DEF NicImmediate, NicHour
  <2>3. Moved(nic[m], g, insts)
    BY <1>1, <2>1, <2>2, RefreshMoved
  <2> QED BY <1>2, <1>3, <2>2, <2>3
<1>5. CASE SetAsserted(m)
  <2>1. PICK g : g = EmitSet(nic[m], insts)
    OBVIOUS
  <2>2. SettleNic(m, g) /\ UNCHANGED <<record, left>> /\ "set" \in nic[m].armed
    BY <1>5, <2>1 DEF SetAsserted
  <2>3. Moved(nic[m], g, insts)
    BY <1>1, <2>1, <2>2, EmitSetMoved
  <2> QED BY <1>1, <1>2, <1>3, <2>2, <2>3
<1>6. CASE NicRetry(m)
  <2>1. PICK g : g = Retry(nic[m], insts)
    OBVIOUS
  <2>2. SettleNic(m, g) /\ UNCHANGED <<record, left>> /\ nic[m].timer # "none"
    BY <1>6, <2>1 DEF NicRetry
  <2>3. Moved(nic[m], g, insts)
    BY <1>1, <2>1, <2>2, RetryMoved
  <2> QED BY <1>1, <1>2, <1>3, <2>2, <2>3
<1>7. ASSUME NEW r, r = NicReply(m) \/ r = Failed(500), nic[m].call # None,
             SettleNic(m, Delivered([nic[m] EXCEPT !.reply = r])),
             RecordsKept, left' \in [Kinds -> Nat]
      PROVE  /\ IInv'
             /\ (Known /\ zone.has # "gone") => Remote' = Remote \/ watch'
             /\ UNCHANGED <<inst, list, runs, zone>> /\ (watch => watch')
  <2>1. PICK f : f = [nic[m] EXCEPT !.reply = r]
    OBVIOUS
  <2>2. PICK g : g = Delivered(f)
    OBVIOUS
  <2>3. /\ f \in FSM /\ Plain(f) /\ Trusted(f)
        /\ f.st = nic[m].st /\ f.remote = nic[m].remote
        /\ NotFound(f) => record[m] = None
    BY <1>7, <2>1, NicAnswered
  <2>4. Moved(f, g, insts)
    BY <2>2, <2>3, DeliveredMoved
  <2>5. SettleNic(m, g)
    BY <1>7, <2>1, <2>2
  <2> QED BY <1>3, <1>7, <2>3, <2>4, <2>5, NicTurn
<1>8. CASE NicCallback(m)
  <2>1. RecordsKept
    <3>1. nic[m].call # None /\ record' = PutRecord(m)
      BY <1>8 DEF NicCallback
    <3> QED BY <3>1, PutRecordFields DEF RecordsKept
  <2> QED BY <1>1, <1>7, <1>8, <2>1 DEF NicCallback
<1>9. CASE NicFails(m)
  <2>1. RecordsKept /\ left' \in [Kinds -> Nat]
    BY <1>9, UnchangedKeeps, Spends DEF NicFails, Kinds
  <2> QED BY <1>7, <1>9, <2>1 DEF NicFails
<1> QED BY <1>4, <1>5, <1>6, <1>8, <1>9 DEF NicSteps
\* Objects that fit, whatever becomes of the records of a VM that is gone.
LEMMA NicsFit ==
  ASSUME IInv, NEW h, nic' = h,
         zone.has = "gone" => zone'.has = "gone",
         \A m \in Nics :
           /\ Fits(h[m], m)
           /\ \/ record'[m] = record[m]
              \/ record'[m] = None /\ zone'.has = "gone"
           /\ record'[m] # None => network'[NetOf[m]] # None
  PROVE  \A m \in Nics : NicOk(m)' /\ RecordOk(m)'
<1> SUFFICES ASSUME NEW m \in Nics PROVE NicOk(m)' /\ RecordOk(m)'
  OBVIOUS
<1>1. RecordOk(m) /\ Fits(h[m], m)
  BY DEF IInv
<1>2. RecordOk(m)'
  BY <1>1 DEF RecordOk
<1>3. NicOk(m)'
  BY <1>1 DEF NicOk, Fits
<1> QED BY <1>2, <1>3

LEMMA NicsSame ==
  ASSUME IInv
  PROVE  \A m \in Nics : nic[m] \in FSM /\ Fits(nic[m], m) /\ RecordOk(m)
BY DEF IInv, TypeOK, NicOk

\* The steps that concern no NIC.
LEMMA NicsRest ==
  ASSUME IInv, UNCHANGED <<nic, record, network>>,
         zone.has = "gone" => zone'.has = "gone"
  PROVE  \A m \in Nics : NicOk(m)' /\ RecordOk(m)'
<1>1. \A m \in Nics : /\ Fits(nic[m], m)
                      /\ record[m] # None => network[NetOf[m]] # None
  BY NicsSame DEF RecordOk
<1> QED BY <1>1, NicsFit

LEMMA AbsentFits ==
  ASSUME NEW m
  PROVE  Fits(Absent, m) /\ Absent \in FSM
BY AbsentPlain DEF Fits, NotFound

LEMMA RemoteTyped ==
  ASSUME IInv
  PROVE  Remote \in Remotes
<1>1. \A m \in Nics : nic[m].remote # None => nic[m].remote.routes \in VmFields
  BY NetworkingAssumption DEF IInv, TypeOK, FSM, RemoteNic
<1> QED BY <1>1 DEF Remote, Remotes

-----------------------------------------------------------------------------
(* Networks.                                                               *)

NetSteps(n) ==
  \/ NetImmediate(n) \/ NetFiveMinutes(n) \/ NetRetry(n) \/ NetCallback(n)
  \/ NetFails(n) \/ FeedNetwork(n)

LEMMA NetReplyTyped ==
  ASSUME IInv, NEW n \in Networks, NEW r,
         r = NetReply(n) \/ r = [code |-> 500]
  PROVE  r \in NetReplies
<1>1. net[n] \in Net /\ network[n] \in Routes \cup {None}
  BY DEF IInv, TypeOK
<1>2. net[n].reply # None => net[n].reply \in NetReplies
  BY <1>1, NetFields DEF NetAnswers
<1> QED BY <1>1, <1>2 DEF NetReply, NetReplies

LEMMA NetStep ==
  ASSUME IInv, NEW n \in Networks, NetSteps(n)
  PROVE  IInv' /\ UNCHANGED <<nic, inst, watch, list, runs, zone>>
<1>1. net[n] \in Net /\ left \in [Kinds -> Nat] /\ net \in [Networks -> Net]
  BY DEF IInv, TypeOK
<1>2. ASSUME NEW x \in Net, SettleNet(n, x), left' \in [Kinds -> Nat]
      PROVE  IInv' /\ UNCHANGED <<nic, inst, watch, list, runs, zone>>
  <2>1. /\ net' \in [Networks -> Net]
        /\ UNCHANGED <<nic, inst, watch, list, runs, zone, record, network>>
    BY <1>1, <1>2 DEF SettleNet
  <2>2. TypeOK'
    BY <1>2, <2>1 DEF IInv, TypeOK
  <2>3. \A m \in Nics : NicOk(m)' /\ RecordOk(m)'
    BY <2>1, NicsRest
  <2> QED BY <2>1, <2>2, <2>3 DEF IInv
<1>3. ASSUME NEW r, r = NetReply(n) \/ r = [code |-> 500],
             SettleNet(n, AfterGetNetwork([net[n] EXCEPT !.reply = r])),
             left' \in [Kinds -> Nat]
      PROVE  IInv' /\ UNCHANGED <<nic, inst, watch, list, runs, zone>>
  <2>1. PICK x : x = AfterGetNetwork([net[n] EXCEPT !.reply = r])
    OBVIOUS
  <2>2. x \in Net
    BY <1>1, <1>3, <2>1, NetReplyTyped, AfterGetTyped
  <2> QED BY <1>2, <1>3, <2>1, <2>2
<1>4. CASE NetImmediate(n) \/ NetFiveMinutes(n) \/ NetRetry(n)
  BY <1>1, <1>2, <1>4, NetTyped, LongTimerBound
     DEF NetImmediate, NetFiveMinutes, NetRetry
<1>5. CASE NetCallback(n)
  BY <1>1, <1>3, <1>5 DEF NetCallback
<1>6. CASE NetFails(n)
  BY <1>3, <1>6, Spends DEF NetFails, Kinds
<1>7. CASE FeedNetwork(n)
  <2>1. PICK x \in Net : SettleNet(n, x)
    BY <1>1, <1>7, NetTyped DEF FeedNetwork
  <2> QED BY <1>2, <1>7, <2>1, Spends DEF FeedNetwork, Kinds
<1> QED BY <1>4, <1>5, <1>6, <1>7 DEF NetSteps

LEMMA ChangedStep ==
  ASSUME IInv, NEW n \in Networks, NetChanged(n)
  PROVE  IInv' /\ Remote' = Remote /\ UNCHANGED <<inst, watch, list, runs, zone>>
<1>1. PICK h : h = [m \in Nics |-> IF Hears(n, m) THEN EnterRefresh(nic[m])
                                  ELSE nic[m]]
  OBVIOUS
<1>2. /\ nic' = h /\ net' = [net EXCEPT ![n] = [net[n] EXCEPT !.armed = FALSE]]
      /\ UNCHANGED <<inst, watch, list, runs, zone, record, network, left>>
  BY <1>1 DEF NetChanged
<1>3. ASSUME NEW m \in Nics
      PROVE  /\ h[m] \in FSM /\ Fits(h[m], m)
             /\ h[m].remote = nic[m].remote
  <2>1. nic[m] \in FSM /\ Fits(nic[m], m)
    BY NicsSame
  <2>2. CASE Hears(n, m)
    <3>1. PICK g : g = EnterRefresh(nic[m])
      OBVIOUS
    <3>2. nic[m].st = "waiting"
      BY <2>2 DEF Hears
    <3>3. Goes(nic[m], g, {"refresh"}) /\ g.poke = nic[m].poke
      BY <2>1, <3>1, <3>2, PlainOwn, RefreshGoes DEF Fits
    <3>4. h[m] = g
      BY <1>1, <2>2, <3>1
    <3> QED BY <2>1, <3>3, <3>4 DEF Goes, Fits, Plain, NotFound, Elsewhere
  <2>3. CASE ~Hears(n, m)
    BY <1>1, <2>1, <2>3
  <2> QED BY <2>2, <2>3
<1>4. \A m \in Nics : record[m] # None => network[NetOf[m]] # None
  BY NicsSame DEF RecordOk
<1>5. \A m \in Nics : NicOk(m)' /\ RecordOk(m)'
  BY <1>2, <1>3, <1>4, NicsFit
<1>6. nic' \in [Nics -> FSM] /\ net' \in [Networks -> Net]
  <2>1. net \in [Networks -> Net] /\ [net[n] EXCEPT !.armed = FALSE] \in Net
    BY NetTyped DEF IInv, TypeOK
  <2> QED BY <1>1, <1>2, <1>3, <2>1
<1>7. TypeOK'
  BY <1>2, <1>6 DEF IInv, TypeOK
<1>8. Remote' = Remote
  BY <1>2, <1>3 DEF Remote
<1> QED BY <1>2, <1>5, <1>7, <1>8 DEF IInv

\* Answers that are read before the change that makes them stale.
LEMMA EarlyAnswer ==
  ASSUME IInv, NEW m \in Nics, nic[m].call # None, NEW f,
         f = [nic[m] EXCEPT !.reply = NicReply(m)]
  PROVE  f \in FSM /\ Fits(f, m) /\ f.remote = nic[m].remote
<1>1. PICK r : r = NicReply(m)
  OBVIOUS
<1>2. PICK x : x = [nic[m] EXCEPT !.reply = r]
  OBVIOUS
<1>3. /\ f \in FSM /\ Plain(f) /\ Trusted(f) /\ f.poke = None
      /\ f.st = nic[m].st /\ f.remote = nic[m].remote
      /\ NotFound(f) => record[m] = None
  <2>1. r = NicReply(m) \/ r = Failed(500)
    BY <1>1
  <2>2. /\ x \in FSM /\ Plain(x) /\ Trusted(x)
        /\ x.st = nic[m].st /\ x.remote = nic[m].remote
        /\ NotFound(x) => record[m] = None
    BY <1>2, <2>1, NicAnswered
  <2>3. x.poke = None
    BY <1>2, NicsSame DEF Fits, FSM
  <2> QED BY <1>1, <1>2, <2>2, <2>3
<1>4. Fits(nic[m], m)
  BY NicsSame
<1> QED BY <1>3, <1>4 DEF Fits

LEMMA EarlyNetAnswer ==
  ASSUME IInv, NEW n \in Networks, NEW x,
         x = net[n] \/ x = [net[n] EXCEPT !.reply = NetReply(n)]
  PROVE  x \in Net
<1>1. net[n] \in Net
  BY DEF IInv, TypeOK
<1>2. PICK r : r = NetReply(n)
  OBVIOUS
<1>3. r \in NetAnswers
  BY <1>2, NetReplyTyped DEF NetAnswers
<1>4. x = net[n] \/ x = [net[n] EXCEPT !.reply = r]
  BY <1>2
<1> QED BY <1>1, <1>3, <1>4, NetFields

LEMMA EarlyRead ==
  ASSUME IInv, ReadEarly
  PROVE  /\ nic' \in [Nics -> FSM] /\ net' \in [Networks -> Net]
         /\ \A m \in Nics : Fits(nic'[m], m) /\ nic'[m].remote = nic[m].remote
<1>1. PICK h : /\ nic' = [m \in Nics |-> h[m]]
               /\ \A m \in Nics :
                    \/ h[m] = nic[m]
                    \/ /\ nic[m].call # None
                       /\ h[m] = [nic[m] EXCEPT !.reply = NicReply(m)]
  <2>1. PICK S \in SUBSET {m \in Nics : nic[m].call # None} :
          nic' = [m \in Nics |->
                    IF m \in S THEN [nic[m] EXCEPT !.reply = NicReply(m)]
                    ELSE nic[m]]
    BY DEF ReadEarly
  <2>2. nic' = [m \in Nics |-> nic'[m]]
    BY <2>1
  <2> QED BY <2>1, <2>2
<1>2. PICK k : /\ net' = [n \in Networks |-> k[n]]
               /\ \A n \in Networks :
                    \/ k[n] = net[n]
                    \/ k[n] = [net[n] EXCEPT !.reply = NetReply(n)]
  <2>1. PICK T \in SUBSET {n \in Networks : net[n].call} :
          net' = [n \in Networks |->
                    IF n \in T THEN [net[n] EXCEPT !.reply = NetReply(n)]
                    ELSE net[n]]
    BY DEF ReadEarly
  <2>2. net' = [n \in Networks |-> net'[n]]
    BY <2>1
  <2> QED BY <2>1, <2>2
<1>3. ASSUME NEW m \in Nics
      PROVE  h[m] \in FSM /\ Fits(h[m], m) /\ h[m].remote = nic[m].remote
  <2>1. PICK f : f = h[m]
    OBVIOUS
  <2>2. CASE f = nic[m]
    BY <2>1, <2>2, NicsSame
  <2>3. CASE /\ nic[m].call # None
             /\ f = [nic[m] EXCEPT !.reply = NicReply(m)]
    BY <2>1, <2>3, EarlyAnswer
  <2> QED BY <1>1, <2>1, <2>2, <2>3
<1>4. ASSUME NEW n \in Networks
      PROVE  k[n] \in Net
  <2>1. PICK x : x = k[n]
    OBVIOUS
  <2> QED BY <1>2, <2>1, EarlyNetAnswer
<1>5. \A m \in Nics : nic'[m] = h[m]
  BY <1>1
<1> QED BY <1>1, <1>2, <1>3, <1>4, <1>5

LEMMA NetworkStep ==
  ASSUME IInv, NEW n \in Networks, NetworkChange(n) \/ NetworkDeleted(n)
  PROVE  IInv' /\ Remote' = Remote /\ UNCHANGED <<inst, watch, list, runs, zone>>
<1>1. /\ nic' \in [Nics -> FSM] /\ net' \in [Networks -> Net]
      /\ \A m \in Nics : Fits(nic'[m], m) /\ nic'[m].remote = nic[m].remote
      /\ UNCHANGED <<inst, watch, list, runs, zone>>
  BY EarlyRead DEF NetworkChange, NetworkDeleted
<1>2. \A m \in Nics : record[m] # None => network[NetOf[m]] # None
  BY NicsSame DEF RecordOk
<1>3. record \in [Nics -> Records \cup {None}]
      /\ network \in [Networks -> Routes \cup {None}]
      /\ left \in [Kinds -> Nat] /\ NetOf \in [Nics -> Networks]
      /\ None \notin Routes
  BY NetworkingAssumption DEF IInv, TypeOK
<1>4. /\ record' \in [Nics -> Records \cup {None}]
      /\ network' \in [Networks -> Routes \cup {None}]
      /\ left' \in [Kinds -> Nat]
      /\ \A m \in Nics :
           /\ \/ record'[m] = record[m]
              \/ record'[m] = None /\ zone'.has = "gone"
           /\ record'[m] # None => network'[NetOf[m]] # None
  <2>1. CASE NetworkChange(n)
    <3>1. PICK r \in Routes : network' = [network EXCEPT ![n] = r]
      BY <2>1 DEF NetworkChange
    <3>2. r # None /\ UNCHANGED record
      BY <1>3, <2>1, <3>1 DEF NetworkChange
    <3>3. left' \in [Kinds -> Nat]
      BY <2>1, Spends DEF NetworkChange, Kinds
    <3>4. /\ network' \in [Networks -> Routes \cup {None}]
          /\ \A m \in Nics : network[NetOf[m]] # None =>
                              network'[NetOf[m]] # None
      BY <1>3, <3>1, <3>2
    <3> QED BY <1>2, <1>3, <3>2, <3>3, <3>4
  <2>2. CASE NetworkDeleted(n)
    BY <1>1, <1>2, <1>3, <2>2 DEF NetworkDeleted
  <2> QED BY <2>1, <2>2
<1>5. \A m \in Nics : NicOk(m)' /\ RecordOk(m)'
  <2>1. PICK h : h = nic'
    OBVIOUS
  <2> QED BY <1>1, <1>4, <2>1, NicsFit
<1>6. TypeOK'
  BY <1>1, <1>4 DEF IInv, TypeOK
<1>7. Remote' = Remote
  BY <1>1 DEF Remote
<1> QED BY <1>1, <1>5, <1>6, <1>7 DEF IInv

-----------------------------------------------------------------------------
(* The VM and its InstanceFSM.                                             *)

LEMMA SettleTyped ==
  ASSUME IInv, NEW j \in Inst, SettleInst(j)
  PROVE  inst' = j /\ runs' \in SUBSET Payloads
<1>1. inst \in Inst /\ runs \in SUBSET Payloads
  BY DEF IInv, TypeOK
<1>2. inst.call # None => inst.call \in Payloads
  BY <1>1 DEF Inst
<1> QED BY <1>1, <1>2 DEF SettleInst

\* The steps of the InstanceFSM and of vmadm.
InstSteps ==
  \/ UpdateAsserted \/ NicStateChanged \/ VmCallback
  \/ ServeVm \/ FailVm \/ \E p \in runs : EndRun(p)

LEMMA AfterVmTurn ==
  ASSUME NEW i \in Inst, InstOk(i), i.reply # None, NEW remote \in Remotes,
         NEW j, j = AfterVmUpdate(i, remote)
  PROVE  /\ j \in Inst /\ InstOk(j) /\ j.vm = i.vm /\ j.armed = i.armed
         /\ j.reply = None
         /\ i.updated => Compared(j, remote)
         /\ ~i.updated => j.st = "waiting"
<1>1. CASE i.updated
  <2>1. InstEntered(i, j, remote)
    BY <1>1, InstUpdateEntered DEF AfterVmUpdate
  <2> QED BY <1>1, <2>1 DEF InstEntered
<1>2. CASE ~i.updated
  <2>1. j = InstGoto(i, "waiting")
    BY <1>2 DEF AfterVmUpdate
  <2>2. i.vm # None
    BY DEF InstOk
  <2> QED BY <1>2, <2>1, <2>2, InstGotoFields DEF InstStates, InstOk
<1> QED BY <1>1, <1>2

LEMMA InstStep ==
  ASSUME IInv, InstSteps
  PROVE  IInv' /\ Remote' = Remote
<1>1. inst \in Inst /\ InstOk(inst) /\ Remote \in Remotes
  BY RemoteTyped DEF IInv, TypeOK
<1>2. zone \in Zones /\ watch \in BOOLEAN /\ runs \in SUBSET Payloads
  BY DEF IInv, TypeOK
<1>3. UNCHANGED <<nic, net, list, record, network>>
  BY DEF InstSteps, UpdateAsserted, NicStateChanged, VmCallback, ServeVm,
         FailVm, EndRun
<1>4. Remote' = Remote
  BY <1>3 DEF Remote
<1>5. ASSUME inst' \in Inst, InstOk(inst'), runs' \in SUBSET Payloads,
             zone' \in Zones, zone'.has = zone.has, watch' \in BOOLEAN,
             left' \in [Kinds -> Nat]
      PROVE  IInv'
  <2>1. TypeOK'
    BY <1>3, <1>5 DEF IInv, TypeOK
  <2>2. \A m \in Nics : NicOk(m)' /\ RecordOk(m)'
    BY <1>3, <1>5, NicsRest
  <2>3. InstOk(inst)'
    BY <1>5
  <2> QED BY <1>3, <1>5, <2>1, <2>2, <2>3 DEF IInv
<1>6. ASSUME NEW j \in Inst, InstOk(j), SettleInst(j), UNCHANGED zone,
             watch' \in BOOLEAN, UNCHANGED left
      PROVE  IInv'
  <2>1. inst' = j /\ runs' \in SUBSET Payloads
    BY <1>6, SettleTyped
  <2>2. left' \in [Kinds -> Nat]
    BY <1>6 DEF IInv, TypeOK
  <2> QED BY <1>2, <1>5, <1>6, <2>1, <2>2
<1>7. CASE UpdateAsserted
  <2>1. PICK j : j = EmitUpdate(inst, Remote)
    OBVIOUS
  <2>2. SettleInst(j) /\ UNCHANGED <<watch, zone, left>>
    BY <1>7, <2>1 DEF UpdateAsserted
  <2> QED BY <1>1, <1>2, <1>4, <1>6, <2>1, <2>2, EmitUpdateTurn
<1>8. CASE NicStateChanged
  <2>1. PICK j : j = EnterUpdateWait(inst, Remote)
    OBVIOUS
  <2>2. /\ SettleInst(j) /\ UNCHANGED <<watch, zone, left>>
        /\ inst.st = "update.wait"
    BY <1>8, <2>1 DEF NicStateChanged
  <2>3. inst.vm \in Vm
    BY <1>1, <2>2 DEF InstOk, Inst
  <2>4. j \in Inst /\ InstOk(j)
    BY <1>1, <2>1, <2>3, UpdateWaitEntered DEF InstEntered
  <2> QED BY <1>2, <1>4, <1>6, <2>2, <2>4
<1>9. CASE VmCallback
  <2>1. PICK j : j = AfterVmUpdate(inst, Remote)
    OBVIOUS
  <2>2. SettleInst(j) /\ UNCHANGED <<zone, left>> /\ inst.reply # None
    BY <1>9, <2>1 DEF VmCallback
  <2>3. watch' \in BOOLEAN
    BY <1>9 DEF VmCallback
  <2>4. j \in Inst /\ InstOk(j)
    BY <1>1, <2>1, <2>2, AfterVmTurn
  <2> QED BY <1>4, <1>6, <2>2, <2>3, <2>4
<1>10. ASSUME NEW x \in {"ok", "failed"}, inst' = [inst EXCEPT !.reply = x],
              inst.call # None
       PROVE  inst' \in Inst /\ InstOk(inst')
  <2>1. PICK j : j = [inst EXCEPT !.reply = x]
    OBVIOUS
  <2>2. /\ j \in Inst
        /\ j.st = inst.st /\ j.call = inst.call /\ j.vm = inst.vm
    BY <1>1, <2>1 DEF Inst
  <2>3. InstOk(j)
    BY <1>1, <1>10, <2>2 DEF InstOk
  <2> QED BY <1>10, <2>1, <2>2, <2>3
<1>11. CASE ServeVm
  <2>1. inst.call \in Payloads
    BY <1>1, <1>11 DEF ServeVm, Inst
  <2>2. /\ zone' = Updated(inst.call) /\ UNCHANGED <<runs, left>>
        /\ watch' \in BOOLEAN
    BY <1>11 DEF ServeVm
  <2>3. inst' \in Inst /\ InstOk(inst')
    BY <1>10, <1>11 DEF ServeVm
  <2>4. zone' \in Zones /\ zone'.has = zone.has
    BY <2>1, <2>2, UpdatedTyped DEF IInv
  <2>5. left' \in [Kinds -> Nat]
    BY <2>2 DEF IInv, TypeOK
  <2> QED BY <1>2, <1>4, <1>5, <2>2, <2>3, <2>4, <2>5
<1>12. CASE FailVm
  <2>1. inst.call \in Payloads
    BY <1>1, <1>12 DEF FailVm, Inst
  <2>2. /\ zone' = zone \/ zone' = Updated(inst.call)
        /\ UNCHANGED runs /\ watch' \in BOOLEAN
    BY <1>2, <1>12 DEF FailVm
  <2>3. left' \in [Kinds -> Nat]
    BY <1>12, Spends DEF FailVm, Kinds
  <2>4. inst' \in Inst /\ InstOk(inst')
    BY <1>10, <1>12 DEF FailVm
  <2>5. zone' \in Zones /\ zone'.has = zone.has
    BY <1>2, <2>1, <2>2, UpdatedTyped DEF IInv
  <2> QED BY <1>2, <1>4, <1>5, <2>2, <2>3, <2>4, <2>5
<1>13. ASSUME NEW p \in runs, EndRun(p)
       PROVE  IInv'
  <2>1. /\ zone' = Updated(p) /\ UNCHANGED <<inst, left>>
        /\ watch' \in BOOLEAN /\ runs' \in SUBSET Payloads
    BY <1>2, <1>13 DEF EndRun
  <2>2. zone' \in Zones /\ zone'.has = zone.has
    BY <1>2, <2>1, UpdatedTyped DEF IInv
  <2>3. left' \in [Kinds -> Nat]
    BY <2>1 DEF IInv, TypeOK
  <2> QED BY <1>1, <1>5, <2>1, <2>2, <2>3
<1> QED BY <1>4, <1>7, <1>8, <1>9, <1>11, <1>12, <1>13 DEF InstSteps

-----------------------------------------------------------------------------
(* The lists of VMs.                                                       *)

LEMMA ListedFits ==
  ASSUME IInv, NEW m \in Nics, NEW z \in Vm, NEW g,
         g = SetLocal(IF nic[m].st = "stopped" THEN NewFSM ELSE nic[m],
                      FmtNic(z))
  PROVE  g \in FSM /\ Fits(g, m) /\ g.remote = nic[m].remote
<1>1. nic[m] \in FSM /\ Fits(nic[m], m)
  BY NicsSame
<1>2. PICK n : n = FmtNic(z)
  OBVIOUS
<1>3. n \in LocalNic /\ n.owner = vm /\ n.cfg = Cfg0 /\ n # None
  <2>1. /\ n.owner = vm /\ n.cfg = Cfg0
        /\ n = [owner |-> vm, cfg |-> Cfg0, state |-> n.state]
        /\ n.state \in {"running", "stopped"}
    BY <1>2 DEF FmtNic, Cfg0
  <2>2. n \in LocalNic
    BY <2>1, OnlyVm DEF LocalNic
  <2> QED BY <2>1, <2>2, NoneIsNothing
<1>4. PICK f : f = IF nic[m].st = "stopped" THEN NewFSM ELSE nic[m]
  OBVIOUS
<1>5. /\ f \in FSM /\ FSMOk(f) /\ f.etag = None /\ f.poke = None
      /\ f.remote = nic[m].remote /\ f.st \notin Elsewhere
      /\ f.remote # None => f.remote.owner = vm /\ f.remote.cfg = Cfg0
      /\ f.reply = nic[m].reply /\ f.call = nic[m].call
      /\ f.st = nic[m].st \/ f.st = "init"
  <2>1. CASE nic[m].st = "stopped"
    <3>1. nic[m] = Absent
      BY <1>1, <2>1 DEF Fits, Plain, Elsewhere
    <3>2. /\ f = NewFSM /\ f.st = "init" /\ f.remote = None /\ f.etag = None
          /\ f.poke = None /\ f.reply = None /\ f.call = None
      BY <1>4, <2>1 DEF NewFSM, Absent
    <3>3. f \in FSM /\ FSMOk(f)
      BY <3>2, NewFSMFields
    <3> QED BY <3>1, <3>2, <3>3, AbsentPlain DEF Elsewhere
  <2>2. CASE nic[m].st # "stopped"
    BY <1>1, <1>4, <2>2, PlainOwn DEF Fits, Own
  <2> QED BY <2>1, <2>2
<1>6. /\ g \in FSM /\ g.local = n
      /\ g.st = f.st /\ g.timer = f.timer /\ g.call = f.call
      /\ g.reply = f.reply /\ g.remote = f.remote /\ g.etag = f.etag
      /\ g.hears = f.hears /\ g.poke = f.poke
  <2>1. g = [f EXCEPT !.local = n, !.armed = f.armed \cup {"set"}]
    BY <1>2, <1>4 DEF SetLocal
  <2>2. PICK a : a = f.armed \cup {"set"}
    OBVIOUS
  <2>3. a \in SUBSET {"set", "refresh"}
    BY <1>5, <2>2 DEF FSM
  <2>4. g = [f EXCEPT !.local = n, !.armed = a]
    BY <2>1, <2>2
  <2> QED BY <1>3, <1>5, <2>3, <2>4 DEF FSM
<1>7. Own(g) /\ FSMOk(g)
  BY <1>3, <1>5, <1>6 DEF Own, FSMOk
<1> QED BY <1>1, <1>5, <1>6, <1>7 DEF Fits, Plain, NotFound, Trusted

LEMMA ReleasedFits ==
  ASSUME IInv, NEW m \in Nics, nic[m].st # "stopped", zone.has = "gone",
         NEW g, g = ReleaseFrom(nic[m], vm)
  PROVE  g \in FSM /\ Fits(g, m)
<1>1. nic[m] \in FSM /\ Fits(nic[m], m)
  BY NicsSame
<1>2. Own(nic[m]) /\ nic[m].st \notin Elsewhere /\ FSMOk(nic[m])
  BY <1>1, PlainOwn DEF Fits
<1>3. PICK f : f = [nic[m] EXCEPT !.released = vm]
  OBVIOUS
<1>4. /\ f \in FSM
      /\ f.st = nic[m].st /\ f.timer = nic[m].timer /\ f.call = nic[m].call
      /\ f.reply = nic[m].reply /\ f.remote = nic[m].remote
      /\ f.etag = nic[m].etag /\ f.local = nic[m].local
      /\ f.hears = nic[m].hears /\ f.poke = nic[m].poke
  BY <1>1, <1>3, OnlyVm DEF FSM
<1>5. Own(f) /\ FSMOk(f)
  BY <1>2, <1>4 DEF Own, FSMOk
<1>6. CASE nic[m].st \in HearsRelease
  <2>1. PICK h : h = EnterRelease(f)
    OBVIOUS
  <2>2. h = Absent \/ (Goes(f, h, {"release.refresh"}) /\ h.poke = f.poke)
    BY <1>4, <1>5, <2>1, ReleaseGoes
  <2>3. g = h
    BY <1>3, <1>6, <2>1 DEF ReleaseFrom
  <2>4. CASE h = Absent
    BY <2>3, <2>4, AbsentFits
  <2>5. CASE Goes(f, h, {"release.refresh"}) /\ h.poke = f.poke
    BY <1>1, <1>4, <2>3, <2>5 DEF Goes, Fits, Plain, NotFound, Elsewhere
  <2> QED BY <2>2, <2>4, <2>5
<1>7. CASE nic[m].st \notin HearsRelease
  <2>1. PICK d : d = (nic[m].deleted \/ nic[m].st = "create")
    OBVIOUS
  <2>2. d \in BOOLEAN
    BY <2>1
  <2>3. g = [f EXCEPT !.deleted = d]
    BY <1>3, <1>7, <2>1 DEF ReleaseFrom
  <2>4. /\ g \in FSM
        /\ g.st = f.st /\ g.timer = f.timer /\ g.call = f.call
        /\ g.reply = f.reply /\ g.remote = f.remote /\ g.etag = f.etag
        /\ g.local = f.local /\ g.hears = f.hears /\ g.poke = f.poke
    BY <1>4, <2>2, <2>3 DEF FSM
  <2>5. Own(g) /\ FSMOk(g)
    BY <1>5, <2>4 DEF Own, FSMOk
  <2> QED BY <1>1, <1>2, <1>4, <2>4, <2>5
          DEF Fits, Plain, NotFound, Trusted
<1> QED BY <1>6, <1>7

\* A turn that gives every NIC another object.
LEMMA NicsTurn ==
  ASSUME IInv, NEW h, nic' = [m \in Nics |-> h[m]],
         \A m \in Nics : h[m] \in FSM /\ Fits(h[m], m),
         UNCHANGED <<zone, record, network>>
  PROVE  nic' \in [Nics -> FSM] /\ \A m \in Nics : NicOk(m)' /\ RecordOk(m)'
<1>1. \A m \in Nics : record[m] # None => network[NetOf[m]] # None
  BY NicsSame DEF RecordOk
<1>2. PICK g : g = nic'
  OBVIOUS
<1>3. \A m \in Nics : g[m] = h[m]
  BY <1>2
<1> QED BY <1>1, <1>2, <1>3, NicsFit

LEMMA UpdateVMStep ==
  ASSUME IInv, UpdateVM
  PROVE  /\ IInv' /\ Remote' = Remote /\ list' = None
         /\ UNCHANGED <<watch, zone>>
         /\ Known => /\ inst'.vm = list.vm /\ inst'.armed
                     /\ inst'.st = inst.st /\ inst'.reply = inst.reply
                     /\ inst'.call = inst.call
         /\ ~Known => /\ inst'.vm = list.vm /\ inst'.reply = None
                      /\ Compared(inst', Remote)
<1>1. /\ list # None /\ list.has = "vm" /\ list' = None
      /\ UNCHANGED <<net, watch, zone, record, network, left>>
  BY DEF UpdateVM
<1>2. list.vm \in Vm /\ list.vm # None
  BY <1>1, NoneIsNoVm DEF IInv, TypeOK, Zones
<1>3. PICK h : h = [m \in Nics |->
                     SetLocal(IF nic[m].st = "stopped" THEN NewFSM ELSE nic[m],
                              FmtNic(list.vm))]
  OBVIOUS
<1>4. ASSUME NEW m \in Nics
      PROVE  h[m] \in FSM /\ Fits(h[m], m) /\ h[m].remote = nic[m].remote
  <2>1. PICK g : g = SetLocal(IF nic[m].st = "stopped" THEN NewFSM ELSE nic[m],
                              FmtNic(list.vm))
    OBVIOUS
  <2>2. g \in FSM /\ Fits(g, m) /\ g.remote = nic[m].remote
    BY <1>2, <2>1, ListedFits
  <2>3. h[m] = g
    BY <1>3, <2>1
  <2> QED BY <2>2, <2>3
<1>5. nic' = [m \in Nics |-> h[m]]
  BY <1>3 DEF UpdateVM
<1>6. nic' \in [Nics -> FSM] /\ \A m \in Nics : NicOk(m)' /\ RecordOk(m)'
  BY <1>1, <1>4, <1>5, NicsTurn
<1>7. Remote' = Remote
  BY <1>4, <1>5 DEF Remote
<1>8. PICK j : /\ j \in Inst /\ InstOk(j) /\ SettleInst(j) /\ j.vm = list.vm
               /\ Known => /\ j.armed /\ j.st = inst.st
                           /\ j.reply = inst.reply /\ j.call = inst.call
               /\ ~Known => j.reply = None /\ Compared(j, Remote)
  <2>1. inst \in Inst /\ InstOk(inst) /\ Remote \in Remotes
    BY RemoteTyped DEF IInv, TypeOK
  <2>2. CASE Known
    <3>1. PICK j : j = [inst EXCEPT !.vm = list.vm, !.armed = TRUE]
      OBVIOUS
    <3>2. /\ j \in Inst /\ j.vm = list.vm /\ j.armed /\ j.st = inst.st
          /\ j.reply = inst.reply /\ j.call = inst.call
      BY <1>2, <2>1, <3>1 DEF Inst
    <3>3. InstOk(j)
      BY <1>2, <2>1, <2>2, <3>2 DEF InstOk, Known
    <3>4. SettleInst(j)
      BY <2>2, <3>1 DEF UpdateVM
    <3> QED BY <2>2, <3>2, <3>3, <3>4
  <2>3. CASE ~Known
    <3>1. PICK i : i = [NoInst EXCEPT !.vm = list.vm]
      OBVIOUS
    <3>2. i \in Inst /\ i.vm = list.vm
      BY <1>2, <3>1 DEF NoInst, Inst
    <3>3. PICK j : j = EnterInstUpdate(i, Remote)
      OBVIOUS
    <3>4. InstEntered(i, j, Remote)
      BY <2>1, <3>2, <3>3, InstUpdateEntered
    <3>5. SettleInst(j)
      BY <2>3, <3>1, <3>3 DEF UpdateVM
    <3> QED BY <2>3, <3>2, <3>4, <3>5 DEF InstEntered
  <2> QED BY <2>2, <2>3
<1>9. inst' = j /\ runs' \in SUBSET Payloads
  BY <1>8, SettleTyped
<1>10. TypeOK'
  BY <1>1, <1>6, <1>8, <1>9 DEF IInv, TypeOK
<1>11. InstOk(inst)'
  BY <1>8, <1>9
<1> QED BY <1>1, <1>6, <1>7, <1>8, <1>9, <1>10, <1>11 DEF IInv

LEMMA NoInstTyped == NoInst \in Inst /\ InstOk(NoInst)
BY DEF NoInst, Inst, InstOk

\* The VM is hidden or gone: its InstanceFSM and its NICs leave.
LEMMA LeaveStep ==
  ASSUME IInv, HideVM \/ RemoveVM
  PROVE  /\ IInv' /\ list' = None /\ UNCHANGED <<watch, zone>>
         /\ inst'.st \in {"none", "remove", "crashed"}
<1>1. /\ list # None /\ list' = None
      /\ UNCHANGED <<net, watch, zone, record, network, left>>
  BY DEF HideVM, RemoveVM
<1>2. inst \in Inst /\ InstOk(inst) /\ runs \in SUBSET Payloads
  BY DEF IInv, TypeOK
<1>3. ASSUME NEW h, nic' = [m \in Nics |-> h[m]],
             \A m \in Nics : h[m] \in FSM /\ Fits(h[m], m),
             NEW j \in Inst, InstOk(j), SettleInst(j),
             j.st \in {"none", "remove", "crashed"}
      PROVE  IInv' /\ inst'.st \in {"none", "remove", "crashed"}
  <2>1. nic' \in [Nics -> FSM] /\ \A m \in Nics : NicOk(m)' /\ RecordOk(m)'
    BY <1>1, <1>3, NicsTurn
  <2>2. inst' = j /\ runs' \in SUBSET Payloads
    BY <1>3, SettleTyped
  <2>3. TypeOK'
    BY <1>1, <1>3, <2>1, <2>2 DEF IInv, TypeOK
  <2>4. InstOk(inst)'
    BY <1>3, <2>2
  <2> QED BY <1>1, <1>3, <2>1, <2>2, <2>3, <2>4 DEF IInv
<1>4. CASE ~Known
  <2>1. UNCHANGED <<nic, inst, runs>>
    BY <1>4 DEF HideVM, RemoveVM
  <2>2. \A m \in Nics : NicOk(m)' /\ RecordOk(m)'
    BY <1>1, <2>1, NicsRest
  <2>3. TypeOK'
    BY <1>1, <2>1 DEF IInv, TypeOK
  <2>4. InstOk(inst)'
    BY <1>2, <2>1
  <2> QED BY <1>1, <1>4, <2>1, <2>2, <2>3, <2>4 DEF IInv, Known
<1>5. CASE HideVM /\ Known
  <2>1. PICK h : h = [m \in Nics |-> StopNic(nic[m])]
    OBVIOUS
  <2>2. \A m \in Nics : h[m] \in FSM /\ Fits(h[m], m)
    BY <2>1, NicsSame, AbsentFits DEF StopNic, EnterStopped
  <2>3. nic' = [m \in Nics |-> h[m]] /\ SettleInst(NoInst)
    BY <1>5, <2>1 DEF HideVM
  <2>4. NoInst.st = "none"
    BY DEF NoInst
  <2> QED BY <1>1, <1>3, <2>2, <2>3, <2>4, NoInstTyped
<1>6. CASE RemoveVM /\ Known
  <2>1. zone.has = "gone"
    BY <1>1, <1>6 DEF IInv, RemoveVM
  <2>2. PICK h : h = [m \in Nics |-> IF nic[m].st = "stopped" THEN nic[m]
                                    ELSE ReleaseFrom(nic[m], vm)]
    OBVIOUS
  <2>3. ASSUME NEW m \in Nics
        PROVE  h[m] \in FSM /\ Fits(h[m], m)
    <3>1. CASE nic[m].st = "stopped"
      BY <2>2, <3>1, NicsSame
    <3>2. CASE nic[m].st # "stopped"
      <4>1. PICK g : g = ReleaseFrom(nic[m], vm)
        OBVIOUS
      <4>2. g \in FSM /\ Fits(g, m)
        BY <2>1, <3>2, <4>1, ReleasedFits
      <4>3. h[m] = g
        BY <2>2, <3>2, <4>1
      <4> QED BY <4>2, <4>3
    <3> QED BY <3>1, <3>2
  <2>4. PICK j : j = RemoveInst(inst)
    OBVIOUS
  <2>5. nic' = [m \in Nics |-> h[m]] /\ SettleInst(j)
    BY <1>6, <2>2, <2>4 DEF RemoveVM
  <2>6. j \in Inst /\ InstOk(j) /\ j.st \in {"none", "remove", "crashed"}
    BY <1>2, <2>4, RemoveInstTurn
  <2> QED BY <1>1, <1>3, <2>3, <2>5, <2>6
<1> QED BY <1>1, <1>4, <1>5, <1>6

LEMMA RestartStep ==
  ASSUME IInv, Restart
  PROVE  IInv' /\ inst' = NoInst
<1>1. /\ list' = None /\ watch' = TRUE
      /\ UNCHANGED <<zone, record, network, left>>
      /\ SettleInst(NoInst)
  BY DEF Restart
<1>2. PICK h : h = [m \in Nics |-> Absent]
  OBVIOUS
<1>3. nic' = [m \in Nics |-> h[m]]
  BY <1>2 DEF Restart
<1>4. \A m \in Nics : h[m] \in FSM /\ Fits(h[m], m)
  BY <1>2, AbsentFits
<1>5. nic' \in [Nics -> FSM] /\ \A m \in Nics : NicOk(m)' /\ RecordOk(m)'
  BY <1>1, <1>3, <1>4, NicsTurn
<1>6. inst' = NoInst /\ runs' \in SUBSET Payloads
  BY <1>1, NoInstTyped, SettleTyped
<1>7. net' \in [Networks -> Net]
  <2>1. NoNet \in Net
    BY DEF NoNet, Net
  <2> QED BY <2>1 DEF Restart
<1>8. TypeOK'
  BY <1>1, <1>5, <1>6, <1>7, NoInstTyped DEF IInv, TypeOK
<1>9. InstOk(inst)'
  BY <1>6, NoInstTyped
<1> QED BY <1>1, <1>5, <1>6, <1>8, <1>9 DEF IInv

LEMMA LookupStep ==
  ASSUME IInv, LookupVMs
  PROVE  IInv' /\ Remote' = Remote
<1>1. /\ list' = zone /\ watch' = FALSE
      /\ UNCHANGED <<nic, net, inst, runs, zone, record, network, left>>
  BY DEF LookupVMs
<1>2. \A m \in Nics : NicOk(m)' /\ RecordOk(m)'
  BY <1>1, NicsRest
<1>3. TypeOK'
  BY <1>1 DEF IInv, TypeOK
<1>4. InstOk(inst)'
  BY <1>1 DEF IInv
<1>5. Remote' = Remote
  BY <1>1 DEF Remote
<1> QED BY <1>1, <1>2, <1>3, <1>4, <1>5 DEF IInv

LEMMA ZoneStep ==
  ASSUME IInv, ZoneChange
  PROVE  IInv' /\ Remote' = Remote
<1>1. /\ zone' \in MayBecome /\ watch' = TRUE
      /\ UNCHANGED <<nic, net, inst, list, runs, record, network>>
  BY DEF ZoneChange
<1>2. left' \in [Kinds -> Nat]
  BY Spends DEF ZoneChange, Kinds
<1>3. /\ zone.has # "gone" /\ zone.vm \in Vm
      /\ zone \in [has : {"vm", "hidden"}, vm : Vm]
  BY <1>1 DEF MayBecome, IInv, TypeOK, Zones
<1>4. NoRoutes \in RouteMaps
  BY DEF NoRoutes, RouteMaps
<1>5. ASSUME NEW v \in Vm, zone' = [zone EXCEPT !.vm = v]
      PROVE  zone' \in Zones
  BY <1>3, <1>5 DEF Zones
<1>6. zone' \in Zones
  <2>1. CASE zone' = [has |-> "gone"]
    BY <2>1 DEF Zones
  <2>2. CASE zone' = [zone EXCEPT !.vm.state = "running"]
    <3>1. PICK v : v = [zone.vm EXCEPT !.state = "running"]
      OBVIOUS
    <3>2. v \in Vm
      BY <1>3, <3>1 DEF Vm
    <3> QED BY <1>5, <2>2, <3>1, <3>2
  <2>3. CASE zone' = [zone EXCEPT !.has = IF @ = "vm" THEN "hidden" ELSE "vm"]
    BY <1>3, <2>3 DEF Zones
  <2>4. CASE zone' = [zone EXCEPT !.vm.routes = NoRoutes]
    <3>1. PICK v : v = [zone.vm EXCEPT !.routes = NoRoutes]
      OBVIOUS
    <3>2. v \in Vm
      BY <1>3, <1>4, <3>1 DEF Vm
    <3> QED BY <1>5, <2>4, <3>1, <3>2
  <2> QED BY <1>1, <2>1, <2>2, <2>3, <2>4 DEF MayBecome
<1>7. \A m \in Nics : NicOk(m)' /\ RecordOk(m)'
  BY <1>1, <1>3, NicsRest
<1>8. TypeOK'
  BY <1>1, <1>2, <1>6 DEF IInv, TypeOK
<1>9. InstOk(inst)'
  BY <1>1 DEF IInv
<1>10. Remote' = Remote
  BY <1>1 DEF Remote
<1> QED BY <1>1, <1>3, <1>7, <1>8, <1>9, <1>10 DEF IInv

LEMMA PeriodicStep ==
  ASSUME IInv, PeriodicLookup
  PROVE  IInv' /\ watch' = TRUE
<1>1. /\ watch' = TRUE
      /\ UNCHANGED <<nic, net, inst, list, runs, zone, record, network>>
  BY DEF PeriodicLookup
<1>2. left' \in [Kinds -> Nat]
  BY LongTimerBound DEF PeriodicLookup
<1>3. \A m \in Nics : NicOk(m)' /\ RecordOk(m)'
  BY <1>1, NicsRest
<1>4. TypeOK'
  BY <1>1, <1>2 DEF IInv, TypeOK
<1>5. InstOk(inst)'
  BY <1>1 DEF IInv
<1> QED BY <1>1, <1>3, <1>4, <1>5 DEF IInv

-----------------------------------------------------------------------------
(* The invariant.                                                          *)

LEMMA InitIInv == Init => IInv
<1> SUFFICES ASSUME Init PROVE IInv
  OBVIOUS
<1>1. PICK s \in Starts : zone = s.zone /\ left = s.left
  BY DEF Init
<1>2. /\ zone \in [has : {"vm"}, vm : Vm] /\ zone \in Zones
      /\ zone.vm.state \in {"running", "provisioning"}
      /\ left \in [Kinds -> Nat]
  BY <1>1, NetworkingAssumption DEF Zones, Vm
<1>3. PICK r : r = [owner |-> vm, state |-> zone.vm.state, cfg |-> Cfg0]
  OBVIOUS
<1>4. r \in Records /\ r # None /\ r.cfg = Cfg0
  <2>1. r \in Records /\ r.cfg = Cfg0
    BY <1>2, <1>3, OnlyVm DEF Records
  <2> QED BY <2>1, NoneIsNoRecord
<1>5. record = [m \in Nics |-> r]
  BY <1>3 DEF Init, Cfg0
<1>6. /\ nic = [m \in Nics |-> Absent] /\ net = [n \in Networks |-> NoNet]
      /\ inst = NoInst /\ watch = TRUE /\ list = None /\ runs = {}
      /\ network = [n \in Networks |-> StartNet]
  BY DEF Init
<1>7. StartNet \in Routes /\ StartNet # None /\ NetOf \in [Nics -> Networks]
  BY NetworkingAssumption
<1>8. NoNet \in Net
  BY DEF NoNet, Net
<1>9. TypeOK
  BY <1>2, <1>4, <1>5, <1>6, <1>7, <1>8, NoInstTyped, AbsentFits DEF TypeOK
<1>10. \A m \in Nics : NicOk(m) /\ RecordOk(m)
  BY <1>4, <1>5, <1>6, <1>7, AbsentFits DEF NicOk, RecordOk
<1> QED BY <1>6, <1>9, <1>10, NoInstTyped DEF IInv

LEMMA StutterStep ==
  ASSUME IInv, UNCHANGED vars
  PROVE  IInv'
<1>1. UNCHANGED vars
  OBVIOUS
<1>2. TypeOK'
  BY DEF IInv, TypeOK, vars
<1>3. \A m \in Nics : NicOk(m)' /\ RecordOk(m)'
  BY NicsRest DEF vars
<1>4. InstOk(inst)'
  BY DEF IInv, vars
<1> QED BY <1>2, <1>3, <1>4 DEF IInv, vars

\* Every step is of one of the kinds that the lemmas above are about.
LEMMA StepKinds ==
  ASSUME [Next]_vars
  PROVE  \/ \E m \in Nics : NicSteps(m)
         \/ \E n \in Networks : \/ NetSteps(n) \/ NetChanged(n)
                                \/ NetworkChange(n) \/ NetworkDeleted(n)
         \/ InstSteps \/ UpdateVM \/ HideVM \/ RemoveVM \/ Restart
         \/ PeriodicLookup \/ LookupVMs \/ ZoneChange \/ UNCHANGED vars
BY DEF Next, Progress, Updates, NicSteps, NetSteps, InstSteps

LEMMA Inductive == IInv /\ [Next]_vars => IInv'
<1> SUFFICES ASSUME IInv, [Next]_vars PROVE IInv'
  OBVIOUS
<1> QED BY StepKinds, NicStep, NetStep, ChangedStep, NetworkStep, InstStep,
           UpdateVMStep, LeaveStep, RestartStep, LookupStep, ZoneStep,
           PeriodicStep, StutterStep

\* Every variable has its type in every reachable state: no answer, list,
\* failure or restart, in whatever order, leads NicFSM, NetworkFSM or
\* InstanceFSM to a state, a call or a payload that is none of theirs.
THEOREM NetworkingTyped == Spec => []TypeOK
<1>1. Init => IInv
  BY InitIInv
<1>2. IInv /\ [Next]_vars => IInv'
  BY Inductive
<1>3. IInv => TypeOK
  BY DEF IInv
<1> QED BY <1>1, <1>2, <1>3, PTL DEF Spec

-----------------------------------------------------------------------------
(* One vmadm update after the other.                                       *)

LEMMA SettleOrdered ==
  ASSUME NEW j, SettleInst(j),
         \/ inst.call = None \/ inst.reply # None
         \/ j.st = inst.st /\ j.call = inst.call
         \/ j.vm = None
  PROVE  runs' \subseteq runs \/ inst'.vm = None
BY DEF SettleInst, NoInst

LEMMA StepOrdered ==
  ASSUME IInv, [Next]_vars
  PROVE  runs' \subseteq runs \/ inst'.vm = None
<1>1. inst \in Inst /\ InstOk(inst) /\ Remote \in Remotes
  BY RemoteTyped DEF IInv, TypeOK
<1>2. inst.st # "update.vm" => inst.call = None
  BY <1>1 DEF InstOk
<1>3. CASE UpdateAsserted
  <2>1. PICK j : j = EmitUpdate(inst, Remote)
    OBVIOUS
  <2>2. SettleInst(j)
    BY <1>3, <2>1 DEF UpdateAsserted
  <2>3. inst.st = "update.vm" => j.st = inst.st /\ j.call = inst.call
    BY <1>1, <2>1, EmitUpdateTurn
  <2> QED BY <1>2, <2>2, <2>3, SettleOrdered
<1>4. CASE NicStateChanged
  BY <1>2, <1>4, SettleOrdered DEF NicStateChanged
<1>5. CASE VmCallback
  BY <1>5, SettleOrdered DEF VmCallback
<1>6. CASE UpdateVM
  <2>1. CASE Known
    <3>1. PICK j : j = [inst EXCEPT !.vm = list.vm, !.armed = TRUE]
      OBVIOUS
    <3>2. j.st = inst.st /\ j.call = inst.call /\ SettleInst(j)
      BY <1>1, <1>6, <2>1, <3>1 DEF Inst, UpdateVM
    <3> QED BY <3>2, SettleOrdered
  <2>2. CASE ~Known
    BY <1>2, <1>6, <2>2, SettleOrdered DEF UpdateVM, Known
  <2> QED BY <2>1, <2>2
<1>7. CASE HideVM
  BY <1>7, SettleOrdered DEF HideVM, NoInst
<1>8. CASE RemoveVM
  <2>1. PICK j : j = RemoveInst(inst)
    OBVIOUS
  <2>2. SettleInst(j) \/ UNCHANGED runs
    BY <1>8, <2>1 DEF RemoveVM
  <2>3. j.vm = None \/ j = inst
    BY <1>1, <2>1, RemoveInstTurn
  <2> QED BY <2>2, <2>3, SettleOrdered
<1>9. CASE Restart
  BY <1>9, SettleOrdered DEF Restart, NoInst
<1>10. ASSUME NEW m \in Nics, NicSteps(m)
       PROVE  runs' \subseteq runs
  BY <1>10, NicStep
<1>11. ASSUME NEW n \in Networks,
              \/ NetSteps(n) \/ NetChanged(n)
              \/ NetworkChange(n) \/ NetworkDeleted(n)
       PROVE  runs' \subseteq runs
  BY <1>11, NetStep, ChangedStep, NetworkStep
<1>12. ServeVm \/ FailVm \/ (\E p \in runs : EndRun(p)) => runs' \subseteq runs
  BY DEF ServeVm, FailVm, EndRun
<1>13. PeriodicLookup \/ LookupVMs \/ ZoneChange \/ UNCHANGED vars
         => runs' \subseteq runs
  BY DEF PeriodicLookup, LookupVMs, ZoneChange, vars
<1> QED BY <1>3, <1>4, <1>5, <1>6, <1>7, <1>8, <1>9, <1>10, <1>11, <1>12, <1>13,
           StepKinds DEF InstSteps

\* Whatever lists, events, failures and restarts come, an InstanceFSM lets go of
\* a vmadm update under way only with the VM: InstanceFSM.state_update.vm never
\* starts one before it has the answer to the last.
THEOREM UpdatesOrdered == Spec => VmUpdatesOrdered
<1>1. Init => IInv
  BY InitIInv
<1>2. IInv /\ [Next]_vars => IInv'
  BY Inductive
<1>3. IInv /\ [Next]_vars => [runs' \subseteq runs \/ inst'.vm = None]_vars
  BY StepOrdered
<1> QED BY <1>1, <1>2, <1>3, PTL DEF Spec, VmUpdatesOrdered

=============================================================================
