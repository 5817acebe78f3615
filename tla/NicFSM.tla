------------------------------- MODULE NicFSM -------------------------------
(***************************************************************************)
(* The class NicFSM of lib/nic-fsm.js as operators on a record, the object *)
(* that tracks one NIC between its owner on this compute node (a VM, or    *)
(* the compute node itself) and NAPI.                                      *)
(*                                                                         *)
(* Node.js runs one callback at a time, to completion.  A state function   *)
(* of the class is therefore an operator: it takes the object, does all    *)
(* the code does in that turn (the states it passes through included), and *)
(* returns the object in the state where it comes to rest.  What it leaves *)
(* behind is the call it made and is waiting for (call), or the timer it   *)
(* set (timer).  NicTracking.tla has the variables and the actions.        *)
(*                                                                         *)
(* Data: of the fields compared with NAPI, owner stands for                *)
(* belongs_to_uuid and belongs_to_type (which follows from it), state is   *)
(* state, cfg stands for REMOTE_FIELDS and routes for VM_FIELDS.           *)
(***************************************************************************)
CONSTANTS
  VMs,      \* the VMs of this compute node, by uuid
  CN,       \* this compute node (app.cn_uuid)
  Admin,    \* the admin user (app.admin_uuid)
  Foreign,  \* any owner that is not on this compute node
  Cfgs,     \* values of REMOTE_FIELDS: address, gateway, MTU, spoofing ...
  Routes,   \* values of VM_FIELDS: routes and resolvers
  Etags,    \* the opaque tags NAPI gives the versions of a record
  HasEtags, \* NAPI is new enough to answer with them
  None      \* null, undefined

ASSUME OwnersDistinct ==
  /\ CN \notin VMs /\ Admin \notin VMs /\ Foreign \notin VMs
  /\ CN # Admin /\ CN # Foreign /\ Admin # Foreign
  /\ None \notin VMs /\ None \notin {CN, Admin, Foreign}

ASSUME HasEtagsIsBoolean == HasEtags \in BOOLEAN

Hosts == VMs \cup {CN}
Owners == Hosts \cup {Admin, Foreign}

\* What an owner on this node reports, and what NAPI stores.
LocalNic == [owner : Hosts, state : {"running", "stopped"}, cfg : Cfgs]
RemoteNic == [owner : Owners, state : {"running", "stopped", "provisioning"},
              cfg : Cfgs, routes : Routes]

\* A version of the record, as NAPI stores it and answers with it.
Stored == [nic : RemoteNic, etag : Etags]
-----------------------------------------------------------------------------
(* The calls the object waits for, and their answers.                      *)

GetCalls    == [op : {"get"}]
PostCalls   == [op : {"post"}, nic : LocalNic]
PutCalls    == [op : {"put"}, owner : Hosts \cup {None},
                state : {"running", "stopped", None}]
DeleteCalls == [op : {"delete"}, match : Etags, from : Owners]
UpdateCalls == [op : {"updateNic"}, host : Hosts, cfg : Cfgs]
VmCalls     == [op : {"removeNic", "reboot"}, host : VMs]

Writes == PostCalls \cup PutCalls \cup DeleteCalls  \* they change NAPI
VmadmCalls == UpdateCalls \cup VmCalls              \* they change the node
Calls == GetCalls \cup Writes \cup VmadmCalls

Replies == [code : {200, 404, 412, 500}, res : Stored \cup {None}]

ASSUME NoneIsNothing ==
  None \notin LocalNic \cup RemoteNic \cup Stored \cup Etags \cup Calls
                \cup Replies

\* The states the object rests in.  An object is "stopped" when app.nics has
\* none for this MAC.  The last two are the TypeErrors of states update and
\* remove.nic, which take the whole process down.
FSMStates ==
  {"init", "waiting", "refresh", "create", "update.local", "update.napi",
   "remove.nic", "remove.reboot", "release.delete", "release.refresh",
   "stopped", "crashed.update", "crashed.remove"}

Crashed == {"crashed.update", "crashed.remove"}

Timers == {"refresh", "update.napi", "remove.nic", "remove.reboot",
           "release.delete", "release.refresh"}

FSM == [st       : FSMStates,
        local    : LocalNic \cup {None},
        remote   : RemoteNic \cup {None},
        etag     : Etags \cup {None},
        released : Owners \cup {None},
        needVm   : BOOLEAN,                   \* needVmUpdate
        armed    : SUBSET {"set", "refresh"}, \* emitDelayed()s pending
        call     : Calls \cup {None},         \* its S.callback() is awaited
        reply    : Replies \cup {None},       \* its answer, not delivered yet
        timer    : Timers \cup {"none"},      \* where a gotoStateTimeout leads
        deleted  : BOOLEAN,                   \* the flag of state create
        hears    : BOOLEAN,  \* state update listens for refreshAsserted
        poke     : Hosts \cup {None}]         \* owner.refresh() was called

Absent == [st |-> "stopped", local |-> None, remote |-> None, etag |-> None,
           released |-> None, needVm |-> FALSE, armed |-> {}, call |-> None,
           reply |-> None, timer |-> "none", deleted |-> FALSE,
           hears |-> FALSE, poke |-> None]

\* new NicFSM(): state init, which an immediate leaves.
NewFSM == [Absent EXCEPT !.st = "init"]

\* S.gotoState(s): the handle of the old state is disposed of, and with it
\* its listeners, its timer and the callback it was waiting for.
Goto(f, s) == [f EXCEPT !.st = s, !.call = None, !.reply = None,
                        !.timer = "none", !.deleted = FALSE, !.hears = FALSE]

\* S.gotoState(s) to a sub-state of update, which keeps update's listener.
GotoSub(f, s) == [Goto(f, s) EXCEPT !.hears = f.hears]

Await(f, c) == [f EXCEPT !.call = c]

\* S.gotoStateTimeout(5000, s) in an error path: the callback is done with.
BackOff(f, s) == [f EXCEPT !.call = None, !.reply = None, !.timer = s]

\* setRemote(nic, etag)
SetRemote(f, res) ==
  [f EXCEPT !.needVm = (f.remote = None \/ f.remote.routes # res.nic.routes),
            !.remote = res.nic,
            !.etag = IF HasEtags THEN res.etag ELSE None]

-----------------------------------------------------------------------------
(* Leaving: the end of the object, release and remove.                     *)

EnterStopped(f) == Absent

EnterReleaseRefresh(f) ==
  Await(Goto(f, "release.refresh"), [op |-> "get"])

DeleteCall(f) == [op |-> "delete", match |-> f.etag, from |-> f.released]

\* Mutants of MayDelete: the owner, or the state, is not looked at.
MayDeleteOfAnyone(f) ==
  f.remote.state \in {"running", "stopped"} /\ f.etag # None
MayDeleteUnsettled(f) == f.released = f.remote.owner /\ f.etag # None

\* The DELETE is skipped unless our copy of the record says that it belongs to
\* the owner it was released from and is settled.
MayDelete(f) ==
  /\ f.released = f.remote.owner
  /\ f.remote.state \in {"running", "stopped"}
  /\ f.etag # None

EnterRelease(f) ==
  IF f.remote = None THEN EnterReleaseRefresh(f)
  ELSE IF MayDelete(f)
       THEN Await(Goto(f, "release.delete"), DeleteCall(f))
       ELSE EnterStopped(f)

EnterRemoveReboot(f, insts) ==
  IF f.local.owner \in insts
  THEN Await(Goto(f, "remove.reboot"),
             [op |-> "reboot", host |-> f.local.owner])
  ELSE EnterStopped(f)

\* The owner of the local NIC is looked up before anything else: without a
\* local NIC that is a TypeError.
EnterRemove(f, insts) ==
  IF f.local = None THEN Goto(f, "crashed.remove")
  ELSE IF f.local.owner \in insts
       THEN Await(Goto(f, "remove.nic"),
                  [op |-> "removeNic", host |-> f.local.owner])
       ELSE EnterStopped(f)

-----------------------------------------------------------------------------
(* Tracking: waiting, update and its sub-states, refresh, create.          *)

EnterWaiting(f) == Goto(f, "waiting")

\* getDifferences(LOCAL_FIELDS, local, remote)
LocalDiffers(f) ==
  f.local.owner # f.remote.owner \/ f.local.state # f.remote.state

PutCall(f) ==
  [op |-> "put",
   owner |-> IF f.local.owner # f.remote.owner THEN f.local.owner ELSE None,
   state |-> IF f.local.state # f.remote.state THEN f.local.state ELSE None]

EnterUpdateNapi(f) ==
  IF LocalDiffers(f)
  THEN Await(GotoSub(f, "update.napi"), PutCall(f))
  ELSE EnterWaiting(f)

\* getDifferences(REMOTE_FIELDS, remote, local)
RemoteDiffers(f) == f.remote.cfg # f.local.cfg

\* The owner that has to apply the change: a tracked VM, or this node.
HasOwner(f, insts) == f.local.owner \in insts \cup {CN}

EnterUpdateLocal(f, insts) ==
  LET g == [f EXCEPT !.needVm = FALSE] IN
  IF ~RemoteDiffers(f) /\ ~f.needVm THEN EnterUpdateNapi(g)
  ELSE IF ~HasOwner(f, insts) THEN EnterWaiting(g)
  ELSE IF ~RemoteDiffers(f)
       THEN EnterUpdateNapi([g EXCEPT !.poke = f.local.owner])
       ELSE Await(GotoSub(g, "update.local"),
                  [op |-> "updateNic", host |-> f.local.owner,
                   cfg |-> f.remote.cfg])

\* Mutant of Unclaimed: only a settled record is claimed.
UnclaimedIfSettled(f) ==
  /\ f.remote.owner = Admin /\ f.local.owner = CN
  /\ f.remote.state \in {"running", "stopped"}

\* booter created the record of this node's NIC for the admin user.
Unclaimed(f) == f.remote.owner = Admin /\ f.local.owner = CN

\* Reading the owner of a record never fetched is a TypeError.
EnterUpdate(f, insts) ==
  LET g == Goto(f, "update.local") IN
  IF f.local = None THEN EnterWaiting(f)
  ELSE IF f.remote = None THEN Goto(f, "crashed.update")
  ELSE IF Unclaimed(f) THEN EnterUpdateNapi(g)
  ELSE IF f.local.owner # f.remote.owner THEN EnterRemove(f, insts)
  ELSE EnterUpdateLocal([g EXCEPT !.hears = TRUE], insts)

EnterRefresh(f) == Await(Goto(f, "refresh"), [op |-> "get"])

EnterCreate(f) ==
  IF f.local = None THEN EnterWaiting(f)
  ELSE Await(Goto(f, "create"), [op |-> "post", nic |-> f.local])

-----------------------------------------------------------------------------
(* The callbacks: f.reply is delivered to the state that made f.call.      *)

AfterGet(f, insts) ==
  IF f.reply.code = 200
  THEN EnterUpdate(SetRemote(f, f.reply.res), insts)
  ELSE IF f.reply.code # 404 THEN BackOff(f, "refresh")
  ELSE IF f.remote = None THEN EnterCreate(f)
  ELSE EnterRemove(f, insts)

AfterCreate(f, insts) ==
  IF f.deleted THEN EnterRelease(f)
  ELSE IF f.reply.code # 200 THEN BackOff(f, "refresh")
  ELSE EnterUpdate(SetRemote(f, f.reply.res), insts)

\* A failed vmadm run is tried again at once.
AfterUpdate(f, insts) ==
  IF f.reply.code # 200 THEN EnterUpdateLocal(f, insts)
  ELSE EnterUpdateNapi(f)

\* Mutant of AfterPut: the new copy is not compared.
AfterPutUncompared(f, insts) ==
  IF f.reply.code = 404 THEN EnterRemove(f, insts)
  ELSE IF f.reply.code # 200 THEN BackOff(f, "update.napi")
  ELSE EnterWaiting(SetRemote(f, f.reply.res))

AfterPut(f, insts) ==
  IF f.reply.code = 404 THEN EnterRemove(f, insts)
  ELSE IF f.reply.code # 200 THEN BackOff(f, "update.napi")
  ELSE EnterUpdate(SetRemote(f, f.reply.res), insts)

\* Mutant of AfterRemove: a failure is final.
AfterRemoveOnce(f, insts) ==
  IF f.reply.code # 200 THEN EnterStopped(f) ELSE EnterRemoveReboot(f, insts)

AfterRemove(f, insts) ==
  IF f.reply.code # 200 THEN BackOff(f, "remove.nic")
  ELSE EnterRemoveReboot(f, insts)

AfterReboot(f) ==
  IF f.reply.code # 200 THEN BackOff(f, "remove.reboot") ELSE EnterStopped(f)

\* Mutant of AfterDelete: a stale Etag ends the release.
AfterDeleteOnce(f) ==
  IF f.reply.code \in {200, 404, 412} THEN EnterStopped(f)
  ELSE BackOff(f, "release.delete")

AfterDelete(f) ==
  IF f.reply.code \in {200, 404} THEN EnterStopped(f)
  ELSE IF f.reply.code = 412 THEN EnterReleaseRefresh(f)
  ELSE BackOff(f, "release.delete")

AfterReleaseGet(f) ==
  IF f.reply.code = 200 THEN EnterRelease(SetRemote(f, f.reply.res))
  ELSE IF f.reply.code = 404 THEN EnterStopped(f)
  ELSE BackOff(f, "release.refresh")

\* The five-second timer fires.
Retry(f, insts) ==
  CASE f.timer = "refresh"         -> EnterRefresh(f)
    [] f.timer = "update.napi"     -> EnterUpdateNapi(f)
    [] f.timer = "remove.nic"      -> EnterRemove(f, insts)
    [] f.timer = "remove.reboot"   -> EnterRemoveReboot(f, insts)
    [] f.timer = "release.delete"  -> EnterRelease(f)
    [] f.timer = "release.refresh" -> EnterReleaseRefresh(f)

-----------------------------------------------------------------------------
(* The methods, and the events they emit at once or arm.                   *)

\* Mutant of SetLocal: the event is forgotten.
SetLocalQuietly(f, nic) == [f EXCEPT !.local = nic]

SetLocal(f, nic) ==
  [f EXCEPT !.local = nic, !.armed = f.armed \cup {"set"}]

\* refresh(): the changefeed never passes an Etag.
RefreshNic(f) == [f EXCEPT !.armed = f.armed \cup {"refresh"}]

\* Mutant of HearsRelease: state create does not wait for its POST.
HearsReleaseSooner ==
  {"waiting", "refresh", "create", "update.local", "update.napi"}

HearsRelease == {"waiting", "refresh", "update.local", "update.napi"}

ReleaseFrom(f, host) ==
  LET g == [f EXCEPT !.released = host] IN
  IF f.st \in HearsRelease THEN EnterRelease(g)
  ELSE [g EXCEPT !.deleted = (f.deleted \/ f.st = "create")]

\* Every state but init listens for stopAsserted.
StopNic(f) == IF f.st = "init" THEN f ELSE EnterStopped(f)

\* setAsserted is emitted: only waiting listens.
EmitSet(f, insts) ==
  LET g == [f EXCEPT !.armed = f.armed \ {"set"}] IN
  IF f.st = "waiting" THEN EnterUpdate(g, insts) ELSE g

\* refreshAsserted is emitted: waiting, refresh, and the sub-states that
\* were entered through update's listener.
EmitRefresh(f) ==
  LET g == [f EXCEPT !.armed = f.armed \ {"refresh"}] IN
  IF f.st \in {"waiting", "refresh"} \/ f.hears THEN EnterRefresh(g) ELSE g
=============================================================================
