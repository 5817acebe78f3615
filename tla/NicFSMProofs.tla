---------------------------- MODULE NicFSMProofs ----------------------------
(***************************************************************************)
(* What a turn of the event loop makes of a NicFSM, for every object and   *)
(* every answer: the lemmas about NicFSM.tla's operators that the proofs   *)
(* about NicTracking and VMNetworking rest on.                             *)
(***************************************************************************)
EXTENDS NicFSM, TLAPS

Settled == {"running", "stopped"}

\* The operation that each state awaits the answer of.
OpOf(st) ==
  IF st \in {"refresh", "release.refresh"} THEN "get"
  ELSE IF st = "create" THEN "post"
  ELSE IF st = "update.local" THEN "updateNic"
  ELSE IF st = "update.napi" THEN "put"
  ELSE IF st = "remove.nic" THEN "removeNic"
  ELSE IF st = "remove.reboot" THEN "reboot"
  ELSE IF st = "release.delete" THEN "delete"
  ELSE "none"

\* What each state of an object relies on.
FSMOk(f) ==
  /\ f.st \in {"update.local", "update.napi"} =>
       f.local # None /\ f.remote # None
  /\ f.st \in {"create", "remove.nic", "remove.reboot"} => f.local # None
  /\ f.timer # "none" => f.timer \in {f.st, "refresh"} /\ f.call = None
  /\ f.hears => f.st \in {"update.local", "update.napi"}
  /\ f.etag # None => f.remote # None
  /\ f.call # None => f.call.op = OpOf(f.st)
  /\ (f.call # None /\ f.call.op = "delete") =>
       /\ f.remote # None
       /\ f.call.match = f.etag
       /\ f.call.from = f.remote.owner
       /\ f.remote.state \in Settled
  /\ f.reply # None => f.call # None
  /\ (/\ f.reply # None /\ f.reply.code = 200
      /\ f.call.op \in {"get", "post", "put"})
       => f.reply.res # None

\* g has the copy of NAPI's record that f has, or none.
Kept(f, g) ==
  \/ g.etag = f.etag /\ g.remote = f.remote
  \/ g.etag = None /\ g.remote = None

\* The object after a turn that ends in a state function.
Fresh(f, g) ==
  /\ g \in FSM
  /\ FSMOk(g)
  /\ g.reply = None
  /\ g.timer = "none"
  /\ g.local \in {f.local, None}
  /\ Kept(f, g)

\* g has the copy that the answer delivered to f holds.
Learned(f, g) ==
  f.reply # None /\ f.reply.res # None /\ Kept(SetRemote(f, f.reply.res), g)

\* The object after any turn: it awaits what it awaited or something new.
Turned(f, g) ==
  /\ g \in FSM
  /\ FSMOk(g)
  /\ g.reply = None \/ (g.reply = f.reply /\ g.call = f.call)
  /\ Kept(f, g) \/ Learned(f, g)

-----------------------------------------------------------------------------
(* The state functions.                                                    *)

LEMMA StoppedFresh ==
  ASSUME NEW f \in FSM
  PROVE  Fresh(f, Absent)
  BY DEF Fresh, Absent, FSM, FSMOk, FSMStates, Timers, Kept, OpOf

\* What gotoState leaves of the object, and what it disposes of.
LEMMA GotoFields ==
  ASSUME NEW f \in FSM, NEW s \in FSMStates, NEW g,
         g = Goto(f, s) \/ g = GotoSub(f, s)
  PROVE  /\ g \in FSM
         /\ g.st = s /\ g.call = None /\ g.reply = None /\ g.timer = "none"
         /\ g.local = f.local /\ g.remote = f.remote /\ g.etag = f.etag
         /\ g.released = f.released /\ g.poke = f.poke /\ g.needVm = f.needVm
         /\ g.armed = f.armed /\ g.hears \in BOOLEAN
         /\ g = Goto(f, s) => ~g.hears
<1>1. CASE g = Goto(f, s)
  BY <1>1 DEF Goto, FSM
<1>2. CASE g = GotoSub(f, s)
  <2>1. PICK h : h = Goto(f, s)
    OBVIOUS
  <2>2. /\ h \in FSM
        /\ h.st = s /\ h.call = None /\ h.reply = None /\ h.timer = "none"
        /\ h.local = f.local /\ h.remote = f.remote /\ h.etag = f.etag
        /\ h.released = f.released /\ h.poke = f.poke /\ h.needVm = f.needVm
        /\ h.armed = f.armed
    BY <2>1 DEF Goto, FSM
  <2>3. g = [h EXCEPT !.hears = f.hears] /\ f.hears \in BOOLEAN
    BY <1>2, <2>1 DEF GotoSub, FSM
  <2>4. g \in FSM
    BY <2>2, <2>3 DEF FSM
  <2>5. g = Goto(f, s) => ~g.hears
    BY DEF Goto, FSM
  <2> QED BY <2>2, <2>3, <2>4, <2>5 DEF FSM
<1> QED BY <1>1, <1>2

LEMMA GotoFresh ==
  ASSUME NEW f \in FSM, NEW s \in FSMStates, NEW g,
         g = Goto(f, s) \/ g = GotoSub(f, s),
         s \notin {"update.local", "update.napi"} => g = Goto(f, s),
         f.etag # None => f.remote # None,
         s \in {"update.local", "update.napi"} =>
           f.local # None /\ f.remote # None,
         s \in {"create", "remove.nic", "remove.reboot"} => f.local # None
  PROVE  Fresh(f, g)
  BY GotoFields DEF Fresh, FSMOk, Kept

LEMMA AwaitFresh ==
  ASSUME NEW f \in FSM, NEW s \in FSMStates, NEW c \in Calls, NEW h, NEW g,
         h = Goto(f, s) \/ h = GotoSub(f, s),
         s \notin {"update.local", "update.napi"} => h = Goto(f, s),
         g = Await(h, c),
         f.etag # None => f.remote # None,
         s \in {"update.local", "update.napi"} =>
           f.local # None /\ f.remote # None,
         s \in {"create", "remove.nic", "remove.reboot"} => f.local # None,
         c.op = OpOf(s),
         c.op = "delete" => /\ f.remote # None
                            /\ c.match = f.etag
                            /\ c.from = f.remote.owner
                            /\ f.remote.state \in Settled
  PROVE  Fresh(f, g)
<1>1. /\ h \in FSM
      /\ h.st = s /\ h.reply = None /\ h.timer = "none"
      /\ h.local = f.local /\ h.remote = f.remote /\ h.etag = f.etag
      /\ h.hears => s \in {"update.local", "update.napi"}
  BY GotoFields
<1>2. g \in FSM /\ g.call = c /\ g.st = s /\ g.reply = None /\ g.timer = "none"
      /\ g.local = f.local /\ g.remote = f.remote /\ g.etag = f.etag
      /\ g.hears = h.hears
  BY <1>1 DEF Await, FSM
<1> QED BY <1>1, <1>2 DEF Fresh, FSMOk, Kept

LEMMA ReleaseRefreshFresh ==
  ASSUME NEW f \in FSM, f.etag # None => f.remote # None
  PROVE  Fresh(f, EnterReleaseRefresh(f))
<1>1. [op |-> "get"] \in Calls /\ "release.refresh" \in FSMStates
  BY DEF Calls, GetCalls, FSMStates
<1>2. /\ [op |-> "get"].op = OpOf("release.refresh")
      /\ [op |-> "get"].op # "delete"
  BY DEF OpOf
<1> QED BY <1>1, <1>2, AwaitFresh DEF EnterReleaseRefresh

LEMMA ReleaseFresh ==
  ASSUME NEW f \in FSM, f.etag # None => f.remote # None
  PROVE  Fresh(f, EnterRelease(f))
<1>1. CASE f.remote = None
  BY <1>1, ReleaseRefreshFresh DEF EnterRelease
<1>2. CASE f.remote # None /\ ~MayDelete(f)
  BY <1>2, StoppedFresh DEF EnterRelease, EnterStopped
<1>3. CASE f.remote # None /\ MayDelete(f)
  <2>1. PICK c : c = DeleteCall(f)
    OBVIOUS
  <2>2. /\ c \in Calls /\ c.op = "delete"
        /\ c.match = f.etag /\ c.from = f.remote.owner
        /\ f.remote.state \in Settled
    BY <1>3, <2>1 DEF DeleteCall, MayDelete, FSM, Calls, Writes, DeleteCalls,
                      RemoteNic, Settled
  <2>3. "release.delete" \in FSMStates /\ OpOf("release.delete") = "delete"
    BY DEF FSMStates, OpOf
  <2>4. EnterRelease(f) = Await(Goto(f, "release.delete"), c)
    BY <1>3, <2>1 DEF EnterRelease
  <2> QED BY <1>3, <2>2, <2>3, <2>4, AwaitFresh
<1> QED BY <1>1, <1>2, <1>3

LEMMA RemoveRebootFresh ==
  ASSUME NEW f \in FSM, f.etag # None => f.remote # None, f.local # None,
         NEW I \in SUBSET VMs
  PROVE  Fresh(f, EnterRemoveReboot(f, I))
<1>1. CASE f.local.owner \in I
  <2>1. PICK c : c = [op |-> "reboot", host |-> f.local.owner]
    OBVIOUS
  <2>2. c \in Calls /\ c.op = "reboot"
    BY <1>1, <2>1 DEF Calls, VmadmCalls, VmCalls
  <2>3. "remove.reboot" \in FSMStates /\ OpOf("remove.reboot") = "reboot"
    BY DEF FSMStates, OpOf
  <2>4. EnterRemoveReboot(f, I) = Await(Goto(f, "remove.reboot"), c)
    BY <1>1, <2>1 DEF EnterRemoveReboot
  <2> QED BY <2>2, <2>3, <2>4, AwaitFresh
<1>2. CASE f.local.owner \notin I
  BY <1>2, StoppedFresh DEF EnterRemoveReboot, EnterStopped
<1> QED BY <1>1, <1>2

LEMMA RemoveFresh ==
  ASSUME NEW f \in FSM, f.etag # None => f.remote # None,
         NEW I \in SUBSET VMs
  PROVE  Fresh(f, EnterRemove(f, I))
<1>1. CASE f.local = None
  <2>1. "crashed.remove" \in FSMStates
    BY DEF FSMStates
  <2> QED BY <1>1, <2>1, GotoFresh DEF EnterRemove
<1>2. CASE f.local # None /\ f.local.owner \in I
  <2>1. PICK c : c = [op |-> "removeNic", host |-> f.local.owner]
    OBVIOUS
  <2>2. c \in Calls /\ c.op = "removeNic"
    BY <1>2, <2>1 DEF Calls, VmadmCalls, VmCalls
  <2>3. "remove.nic" \in FSMStates /\ OpOf("remove.nic") = "removeNic"
    BY DEF FSMStates, OpOf
  <2>4. EnterRemove(f, I) = Await(Goto(f, "remove.nic"), c)
    BY <1>2, <2>1 DEF EnterRemove
  <2> QED BY <1>2, <2>2, <2>3, <2>4, AwaitFresh
<1>3. CASE f.local # None /\ f.local.owner \notin I
  BY <1>3, StoppedFresh DEF EnterRemove, EnterStopped
<1> QED BY <1>1, <1>2, <1>3

LEMMA WaitingFresh ==
  ASSUME NEW f \in FSM, f.etag # None => f.remote # None
  PROVE  Fresh(f, EnterWaiting(f))
<1>1. "waiting" \in FSMStates
  BY DEF FSMStates
<1> QED BY <1>1, GotoFresh DEF EnterWaiting

LEMMA UpdateNapiFresh ==
  ASSUME NEW f \in FSM, f.local # None, f.remote # None
  PROVE  Fresh(f, EnterUpdateNapi(f))
<1>1. CASE LocalDiffers(f)
  <2>1. PICK c : c = PutCall(f)
    OBVIOUS
  <2>2. f.local \in LocalNic
    BY DEF FSM
  <2>3. c \in Calls /\ c.op = "put"
    BY <2>1, <2>2 DEF PutCall, LocalNic, Calls, Writes, PutCalls
  <2>4. "update.napi" \in FSMStates /\ OpOf("update.napi") = "put"
    BY DEF FSMStates, OpOf
  <2>5. EnterUpdateNapi(f) = Await(GotoSub(f, "update.napi"), c)
    BY <1>1, <2>1 DEF EnterUpdateNapi
  <2> QED BY <2>3, <2>4, <2>5, AwaitFresh
<1>2. CASE ~LocalDiffers(f)
  BY <1>2, WaitingFresh DEF EnterUpdateNapi
<1> QED BY <1>1, <1>2

LEMMA UpdateLocalFresh ==
  ASSUME NEW f \in FSM, f.local # None, f.remote # None,
         NEW I \in SUBSET VMs
  PROVE  Fresh(f, EnterUpdateLocal(f, I))
<1>1. PICK g : g = [f EXCEPT !.needVm = FALSE]
  OBVIOUS
<1>2. /\ g \in FSM
      /\ g.local = f.local /\ g.remote = f.remote /\ g.etag = f.etag
  BY <1>1 DEF FSM
<1>3. f.local \in LocalNic /\ f.remote \in RemoteNic
  BY DEF FSM
<1>4. PICK h : h = [g EXCEPT !.poke = f.local.owner]
  OBVIOUS
<1>5. /\ h \in FSM
      /\ h.local = f.local /\ h.remote = f.remote /\ h.etag = f.etag
  BY <1>2, <1>3, <1>4 DEF FSM, LocalNic
<1>6. Fresh(f, EnterUpdateNapi(g)) /\ Fresh(f, EnterUpdateNapi(h))
  BY <1>2, <1>5, UpdateNapiFresh DEF Fresh, Kept
<1>7. Fresh(f, EnterWaiting(g))
  BY <1>2, WaitingFresh DEF Fresh, Kept
<1>8. PICK c : c = [op |-> "updateNic", host |-> f.local.owner,
                    cfg |-> f.remote.cfg]
  OBVIOUS
<1>9. c \in Calls /\ c.op = "updateNic"
  BY <1>3, <1>8 DEF LocalNic, RemoteNic, Calls, VmadmCalls, UpdateCalls
<1>10. "update.local" \in FSMStates /\ OpOf("update.local") = "updateNic"
  BY DEF FSMStates, OpOf
<1>11. Fresh(f, Await(GotoSub(g, "update.local"), c))
  BY <1>2, <1>9, <1>10, AwaitFresh DEF Fresh, Kept
<1>12. \/ EnterUpdateLocal(f, I) = EnterUpdateNapi(g)
       \/ EnterUpdateLocal(f, I) = EnterUpdateNapi(h)
       \/ EnterUpdateLocal(f, I) = EnterWaiting(g)
       \/ EnterUpdateLocal(f, I) = Await(GotoSub(g, "update.local"), c)
  BY <1>1, <1>4, <1>8 DEF EnterUpdateLocal
<1> QED BY <1>6, <1>7, <1>11, <1>12

LEMMA UpdateFresh ==
  ASSUME NEW f \in FSM, f.etag # None => f.remote # None,
         NEW I \in SUBSET VMs
  PROVE  Fresh(f, EnterUpdate(f, I))
<1>1. "update.local" \in FSMStates /\ "crashed.update" \in FSMStates
  BY DEF FSMStates
<1>2. PICK g : g = Goto(f, "update.local")
  OBVIOUS
<1>3. /\ g \in FSM
      /\ g.local = f.local /\ g.remote = f.remote /\ g.etag = f.etag
  BY <1>1, <1>2, GotoFields
<1>4. PICK h : h = [g EXCEPT !.hears = TRUE]
  OBVIOUS
<1>5. /\ h \in FSM
      /\ h.local = f.local /\ h.remote = f.remote /\ h.etag = f.etag
  BY <1>3, <1>4 DEF FSM
<1>6. Fresh(f, EnterWaiting(f)) /\ Fresh(f, EnterRemove(f, I))
  BY WaitingFresh, RemoveFresh
<1>7. Fresh(f, Goto(f, "crashed.update"))
  BY <1>1, GotoFresh
<1>8. ASSUME f.local # None, f.remote # None
      PROVE  Fresh(f, EnterUpdateNapi(g)) /\ Fresh(f, EnterUpdateLocal(h, I))
  BY <1>3, <1>5, <1>8, UpdateNapiFresh, UpdateLocalFresh DEF Fresh, Kept
<1> QED BY <1>2, <1>4, <1>6, <1>7, <1>8 DEF EnterUpdate

LEMMA RefreshFresh ==
  ASSUME NEW f \in FSM, f.etag # None => f.remote # None
  PROVE  Fresh(f, EnterRefresh(f))
<1>1. [op |-> "get"] \in Calls /\ "refresh" \in FSMStates
  BY DEF Calls, GetCalls, FSMStates
<1>2. [op |-> "get"].op = OpOf("refresh") /\ [op |-> "get"].op # "delete"
  BY DEF OpOf
<1> QED BY <1>1, <1>2, AwaitFresh DEF EnterRefresh

LEMMA CreateFresh ==
  ASSUME NEW f \in FSM, f.etag # None => f.remote # None
  PROVE  Fresh(f, EnterCreate(f))
<1>1. CASE f.local = None
  BY <1>1, WaitingFresh DEF EnterCreate
<1>2. CASE f.local # None
  <2>1. PICK c : c = [op |-> "post", nic |-> f.local]
    OBVIOUS
  <2>2. c \in Calls /\ c.op = "post"
    BY <1>2, <2>1 DEF FSM, Calls, Writes, PostCalls
  <2>3. "create" \in FSMStates /\ OpOf("create") = "post"
    BY DEF FSMStates, OpOf
  <2>4. EnterCreate(f) = Await(Goto(f, "create"), c)
    BY <1>2, <2>1 DEF EnterCreate
  <2> QED BY <1>2, <2>2, <2>3, <2>4, AwaitFresh
<1> QED BY <1>1, <1>2

-----------------------------------------------------------------------------
(* The callbacks and the retries.                                          *)

LEMMA FreshTurned ==
  ASSUME NEW f, NEW g, Fresh(f, g)
  PROVE  Turned(f, g)
  BY DEF Fresh, Turned

LEMMA BackOffTurned ==
  ASSUME NEW f \in FSM, FSMOk(f), NEW s \in Timers, s \in {f.st, "refresh"}
  PROVE  Turned(f, BackOff(f, s))
<1>1. PICK g : g = BackOff(f, s)
  OBVIOUS
<1>2. /\ g \in FSM
      /\ g.st = f.st /\ g.call = None /\ g.reply = None /\ g.timer = s
      /\ g.local = f.local /\ g.remote = f.remote /\ g.etag = f.etag
      /\ g.hears = f.hears
  BY <1>1 DEF BackOff, FSM
<1>3. FSMOk(g)
  BY <1>2 DEF FSMOk
<1> QED BY <1>1, <1>2, <1>3 DEF Turned, Kept

LEMMA SetRemoteFields ==
  ASSUME NEW f \in FSM, NEW res \in Stored
  PROVE  /\ SetRemote(f, res) \in FSM
         /\ SetRemote(f, res).remote = res.nic
         /\ SetRemote(f, res).remote # None
         /\ SetRemote(f, res).etag \in {None, res.etag}
         /\ SetRemote(f, res).local = f.local
<1>1. PICK g : g = SetRemote(f, res)
  OBVIOUS
<1>2. res.nic \in RemoteNic /\ res.etag \in Etags /\ res.nic # None
  BY NoneIsNothing DEF Stored
<1>3. (f.remote = None \/ f.remote.routes # res.nic.routes) \in BOOLEAN
  OBVIOUS
<1>4. PICK n \in BOOLEAN :
        n = (f.remote = None \/ f.remote.routes # res.nic.routes)
  BY <1>3
<1>5. PICK e \in Etags \cup {None} :
        e = (IF HasEtags THEN res.etag ELSE None)
  BY <1>2, HasEtagsIsBoolean
<1>6. g = [f EXCEPT !.needVm = n, !.remote = res.nic, !.etag = e]
  BY <1>1, <1>4, <1>5 DEF SetRemote
<1>7. /\ g \in FSM
      /\ g.remote = res.nic /\ g.etag = e /\ g.local = f.local
  BY <1>2, <1>6 DEF FSM
<1> QED BY <1>1, <1>2, <1>5, <1>7

\* The answer of a GET, POST or PUT that succeeded has a record.
LEMMA AnswerHasRecord ==
  ASSUME NEW f \in FSM, FSMOk(f), f.reply # None, f.reply.code = 200,
         f.st \in {"refresh", "release.refresh", "create", "update.napi"}
  PROVE  f.reply.res \in Stored /\ f.reply.res # None
<1>1. f.call # None /\ f.call.op \in {"get", "post", "put"}
  BY DEF FSMOk, OpOf
<1>2. f.reply.res # None
  BY <1>1 DEF FSMOk
<1>3. f.reply \in Replies
  BY DEF FSM
<1> QED BY <1>2, <1>3 DEF Replies

LEMMA AnswerTurned ==
  ASSUME NEW f \in FSM, FSMOk(f), f.reply # None, f.reply.code = 200,
         f.st \in {"refresh", "release.refresh", "create", "update.napi"},
         NEW I \in SUBSET VMs
  PROVE  /\ Turned(f, EnterUpdate(SetRemote(f, f.reply.res), I))
         /\ Turned(f, EnterRelease(SetRemote(f, f.reply.res)))
<1>1. f.reply.res \in Stored /\ f.reply.res # None
  BY AnswerHasRecord
<1>2. PICK g : g = SetRemote(f, f.reply.res)
  OBVIOUS
<1>3. g \in FSM /\ g.remote # None
  BY <1>1, <1>2, SetRemoteFields
<1>4. Fresh(g, EnterUpdate(g, I)) /\ Fresh(g, EnterRelease(g))
  BY <1>3, UpdateFresh, ReleaseFresh
<1> QED BY <1>1, <1>2, <1>4 DEF Fresh, Turned, Learned

LEMMA RetryTurned ==
  ASSUME NEW f \in FSM, FSMOk(f), f.timer # "none", NEW I \in SUBSET VMs
  PROVE  Turned(f, Retry(f, I))
<1>1. f.timer \in Timers /\ f.timer \in {f.st, "refresh"}
      /\ (f.etag # None => f.remote # None)
  BY DEF FSM, FSMOk
<1>2. CASE f.timer = "refresh"
  BY <1>1, <1>2, RefreshFresh, FreshTurned DEF Retry
<1>3. CASE f.timer = "update.napi"
  BY <1>1, <1>3, UpdateNapiFresh, FreshTurned DEF Retry, FSMOk
<1>4. CASE f.timer = "remove.nic"
  BY <1>1, <1>4, RemoveFresh, FreshTurned DEF Retry
<1>5. CASE f.timer = "remove.reboot"
  BY <1>1, <1>5, RemoveRebootFresh, FreshTurned DEF Retry, FSMOk
<1>6. CASE f.timer = "release.delete"
  BY <1>1, <1>6, ReleaseFresh, FreshTurned DEF Retry
<1>7. CASE f.timer = "release.refresh"
  BY <1>1, <1>7, ReleaseRefreshFresh, FreshTurned DEF Retry
<1> QED BY <1>1, <1>2, <1>3, <1>4, <1>5, <1>6, <1>7 DEF Timers

\* Each callback, in the state that made the call.
LEMMA CallbackTurned ==
  ASSUME NEW f \in FSM, FSMOk(f), f.reply # None, NEW I \in SUBSET VMs
  PROVE  /\ f.st = "refresh"         => Turned(f, AfterGet(f, I))
         /\ f.st = "create"          => Turned(f, AfterCreate(f, I))
         /\ f.st = "update.local"    => Turned(f, AfterUpdate(f, I))
         /\ f.st = "update.napi"     => Turned(f, AfterPut(f, I))
         /\ f.st = "remove.nic"      => Turned(f, AfterRemove(f, I))
         /\ f.st = "remove.reboot"   => Turned(f, AfterReboot(f))
         /\ f.st = "release.delete"  => Turned(f, AfterDelete(f))
         /\ f.st = "release.refresh" => Turned(f, AfterReleaseGet(f))
<1> USE DEF FSMOk
<1>1. f.etag # None => f.remote # None
  OBVIOUS
<1>2. Turned(f, Absent) /\ EnterStopped(f) = Absent
  BY StoppedFresh, FreshTurned DEF EnterStopped
<1>3. \A s \in Timers : s \in {f.st, "refresh"} => Turned(f, BackOff(f, s))
  BY BackOffTurned
<1>4. Turned(f, EnterRemove(f, I)) /\ Turned(f, EnterRelease(f))
      /\ Turned(f, EnterCreate(f)) /\ Turned(f, EnterReleaseRefresh(f))
  BY <1>1, RemoveFresh, ReleaseFresh, CreateFresh, ReleaseRefreshFresh,
     FreshTurned
<1>5. CASE f.st = "refresh"
  BY <1>3, <1>4, <1>5, AnswerTurned DEF AfterGet, Timers
<1>6. CASE f.st = "create"
  BY <1>3, <1>4, <1>6, AnswerTurned DEF AfterCreate, Timers
<1>7. CASE f.st = "update.local"
  BY <1>1, <1>7, UpdateLocalFresh, UpdateNapiFresh, FreshTurned DEF AfterUpdate
<1>8. CASE f.st = "update.napi"
  BY <1>3, <1>4, <1>8, AnswerTurned DEF AfterPut, Timers
<1>9. CASE f.st = "remove.nic"
  BY <1>1, <1>3, <1>9, RemoveRebootFresh, FreshTurned DEF AfterRemove, Timers
<1>10. CASE f.st = "remove.reboot"
  BY <1>2, <1>3, <1>10 DEF AfterReboot, Timers
<1>11. CASE f.st = "release.delete"
  BY <1>2, <1>3, <1>4, <1>11 DEF AfterDelete, Timers
<1>12. CASE f.st = "release.refresh"
  BY <1>2, <1>3, <1>12, AnswerTurned DEF AfterReleaseGet, Timers
<1> QED BY <1>5, <1>6, <1>7, <1>8, <1>9, <1>10, <1>11, <1>12

-----------------------------------------------------------------------------
(* The methods and the events.                                             *)

\* What a method changes without leaving the state.
LEMMA SameStateTurned ==
  ASSUME NEW f \in FSM, FSMOk(f), NEW g \in FSM,
         g.st = f.st, g.timer = f.timer, g.call = f.call, g.reply = f.reply,
         g.remote = f.remote, g.etag = f.etag, g.hears = f.hears,
         f.local # None => g.local # None
  PROVE  Turned(f, g)
<1>1. FSMOk(g)
  BY DEF FSMOk
<1> QED BY <1>1 DEF Turned, Kept

LEMMA SetLocalTurned ==
  ASSUME NEW f \in FSM, FSMOk(f), NEW n \in LocalNic
  PROVE  Turned(f, SetLocal(f, n))
<1>1. PICK g : g = SetLocal(f, n)
  OBVIOUS
<1>2. /\ g \in FSM
      /\ g.st = f.st /\ g.timer = f.timer /\ g.call = f.call
      /\ g.reply = f.reply /\ g.remote = f.remote /\ g.etag = f.etag
      /\ g.hears = f.hears
      /\ g.local = n
  BY <1>1 DEF SetLocal, FSM
<1>3. n # None
  BY NoneIsNothing
<1> QED BY <1>1, <1>2, <1>3, SameStateTurned

LEMMA RefreshNicTurned ==
  ASSUME NEW f \in FSM, FSMOk(f)
  PROVE  Turned(f, RefreshNic(f))
<1>1. PICK g : g = RefreshNic(f)
  OBVIOUS
<1>2. /\ g \in FSM
      /\ g.st = f.st /\ g.timer = f.timer /\ g.call = f.call
      /\ g.reply = f.reply /\ g.remote = f.remote /\ g.etag = f.etag
      /\ g.hears = f.hears
      /\ g.local = f.local
  BY <1>1 DEF RefreshNic, FSM
<1> QED BY <1>1, <1>2, SameStateTurned

LEMMA ReleaseFromTurned ==
  ASSUME NEW f \in FSM, FSMOk(f), NEW h \in Owners
  PROVE  Turned(f, ReleaseFrom(f, h))
<1>1. PICK g : g = [f EXCEPT !.released = h]
  OBVIOUS
<1>2. /\ g \in FSM
      /\ g.st = f.st /\ g.timer = f.timer /\ g.call = f.call
      /\ g.reply = f.reply /\ g.remote = f.remote /\ g.etag = f.etag
      /\ g.hears = f.hears
      /\ g.local = f.local
  BY <1>1 DEF FSM
<1>3. f.etag # None => f.remote # None
  BY DEF FSMOk
<1>4. Fresh(g, EnterRelease(g))
  BY <1>2, <1>3, ReleaseFresh
<1>5. Turned(f, EnterRelease(g))
  BY <1>2, <1>4 DEF Fresh, Turned, Kept
<1>6. PICK d \in BOOLEAN : d = (f.deleted \/ f.st = "create")
  OBVIOUS
<1>7. PICK k : k = [g EXCEPT !.deleted = d]
  OBVIOUS
<1>8. /\ k \in FSM
      /\ k.st = f.st /\ k.timer = f.timer /\ k.call = f.call
      /\ k.reply = f.reply /\ k.remote = f.remote /\ k.etag = f.etag
      /\ k.hears = f.hears
      /\ k.local = f.local
  BY <1>2, <1>7 DEF FSM
<1>9. Turned(f, k)
  BY <1>8, SameStateTurned
<1> QED BY <1>1, <1>5, <1>6, <1>7, <1>9 DEF ReleaseFrom

LEMMA StopNicTurned ==
  ASSUME NEW f \in FSM, FSMOk(f)
  PROVE  Turned(f, f) /\ Turned(f, StopNic(f))
<1>1. Turned(f, f)
  BY SameStateTurned
<1> QED BY <1>1, StoppedFresh, FreshTurned DEF StopNic, EnterStopped

LEMMA EmitTurned ==
  ASSUME NEW f \in FSM, FSMOk(f), NEW I \in SUBSET VMs
  PROVE  Turned(f, EmitSet(f, I)) /\ Turned(f, EmitRefresh(f))
<1>1. PICK g : g = [f EXCEPT !.armed = f.armed \ {"set"}]
  OBVIOUS
<1>2. PICK k : k = [f EXCEPT !.armed = f.armed \ {"refresh"}]
  OBVIOUS
<1>3. /\ g \in FSM
      /\ g.st = f.st /\ g.timer = f.timer /\ g.call = f.call
      /\ g.reply = f.reply /\ g.remote = f.remote /\ g.etag = f.etag
      /\ g.hears = f.hears
      /\ g.local = f.local
  BY <1>1 DEF FSM
<1>4. /\ k \in FSM
      /\ k.st = f.st /\ k.timer = f.timer /\ k.call = f.call
      /\ k.reply = f.reply /\ k.remote = f.remote /\ k.etag = f.etag
      /\ k.hears = f.hears
      /\ k.local = f.local
  BY <1>2 DEF FSM
<1>5. Turned(f, g) /\ Turned(f, k)
  BY <1>3, <1>4, SameStateTurned
<1>6. f.etag # None => f.remote # None
  BY DEF FSMOk
<1>7. Fresh(g, EnterUpdate(g, I)) /\ Fresh(k, EnterRefresh(k))
  BY <1>3, <1>4, <1>6, UpdateFresh, RefreshFresh
<1>8. Turned(f, EnterUpdate(g, I)) /\ Turned(f, EnterRefresh(k))
  BY <1>3, <1>4, <1>7 DEF Fresh, Turned, Kept
<1> QED BY <1>1, <1>2, <1>5, <1>8 DEF EmitSet, EmitRefresh

\* What the object is before its first turn.
LEMMA NewFSMFields ==
  /\ NewFSM \in FSM /\ FSMOk(NewFSM)
  /\ NewFSM.st = "init" /\ NewFSM.call = None /\ NewFSM.reply = None
  /\ NewFSM.local = None /\ NewFSM.remote = None /\ NewFSM.etag = None
  /\ NewFSM.timer = "none"
<1>1. PICK a : a = Absent
  OBVIOUS
<1>2. /\ a \in FSM /\ a.call = None /\ a.reply = None /\ a.timer = "none"
      /\ a.local = None /\ a.remote = None /\ a.etag = None /\ ~a.hears
  BY <1>1 DEF Absent, FSM, FSMStates
<1>3. PICK g : g = NewFSM
  OBVIOUS
<1>4. /\ g \in FSM /\ g.st = "init" /\ g.call = None /\ g.reply = None
      /\ g.timer = "none" /\ g.local = None /\ g.remote = None
      /\ g.etag = None /\ ~g.hears
  BY <1>1, <1>2, <1>3 DEF NewFSM, FSM, FSMStates
<1>5. FSMOk(g)
  BY <1>4 DEF FSMOk
<1> QED BY <1>3, <1>4, <1>5

LEMMA NewFSMTurned ==
  ASSUME NEW f \in FSM
  PROVE  Turned(f, NewFSM)
  BY NewFSMFields DEF Turned, Kept

\* watchNic(): app.nics' object, or a new one, with the local NIC of its holder.
LEMMA SetLocalOrNewTurned ==
  ASSUME NEW f \in FSM, FSMOk(f), NEW n \in LocalNic
  PROVE  Turned(f, SetLocal(IF f.st = "stopped" THEN NewFSM ELSE f, n))
<1>1. CASE f.st # "stopped"
  BY <1>1, SetLocalTurned
<1>2. CASE f.st = "stopped"
  <2>1. Turned(NewFSM, SetLocal(NewFSM, n))
    BY NewFSMFields, SetLocalTurned
  <2>2. PICK k : k = NewFSM
    OBVIOUS
  <2>3. PICK g : g = SetLocal(k, n)
    OBVIOUS
  <2>4. g.reply = None /\ g.etag = None /\ g.remote = None
    BY <2>2, <2>3, NewFSMFields DEF SetLocal, FSM
  <2>5. Turned(f, g)
    BY <2>1, <2>2, <2>3, <2>4 DEF Turned, Kept
  <2> QED BY <1>2, <2>2, <2>3, <2>5
<1> QED BY <1>1, <1>2

-----------------------------------------------------------------------------
(* In what agreement the object waits.                                     *)

\* The local NIC and the copy of NAPI's record say the same.
Agrees(f) ==
  /\ f.local.owner = f.remote.owner
  /\ f.local.state = f.remote.state
  /\ f.local.cfg = f.remote.cfg

\* The object waits only in agreement, unless its owner is not there.
InStep(g, I) ==
  (/\ g.st = "waiting" /\ g.local # None /\ g.remote # None
   /\ g.local.owner \in I \cup {CN}) => Agrees(g)

\* A vmadm run to update the NIC is started on the local NIC's owner.
Hosted(g) ==
  (g.call # None /\ g.call.op = "updateNic") => g.call.host = g.local.owner

\* The object after it entered a state.
Entered(f, g, I) == Fresh(f, g) /\ InStep(g, I) /\ Hosted(g)

LEMMA LeavingEntered ==
  ASSUME NEW f \in FSM, f.etag # None => f.remote # None, NEW I \in SUBSET VMs
  PROVE  /\ Entered(f, Absent, I)
         /\ Entered(f, EnterReleaseRefresh(f), I)
         /\ Entered(f, EnterRelease(f), I)
         /\ Entered(f, EnterRemove(f, I), I)
         /\ f.local # None => Entered(f, EnterRemoveReboot(f, I), I)
         /\ Entered(f, EnterRefresh(f), I)
<1> USE DEF Entered, InStep, Hosted
<1>1. Entered(f, Absent, I)
  BY StoppedFresh DEF Absent
<1>2. Entered(f, EnterReleaseRefresh(f), I)
  BY ReleaseRefreshFresh DEF EnterReleaseRefresh, Await, Goto, FSM
<1>3. Entered(f, EnterRelease(f), I)
  BY <1>1, <1>2, ReleaseFresh
     DEF EnterRelease, Await, Goto, FSM, DeleteCall, EnterStopped
<1>4. Entered(f, EnterRemove(f, I), I)
  BY <1>1, RemoveFresh DEF EnterRemove, Await, Goto, FSM, EnterStopped
<1>5. f.local # None => Entered(f, EnterRemoveReboot(f, I), I)
  BY <1>1, RemoveRebootFresh
     DEF EnterRemoveReboot, Await, Goto, FSM, EnterStopped
<1>6. Entered(f, EnterRefresh(f), I)
  BY RefreshFresh DEF EnterRefresh, Await, Goto, FSM
<1> QED BY <1>1, <1>2, <1>3, <1>4, <1>5, <1>6

LEMMA CreateEntered ==
  ASSUME NEW f \in FSM, f.etag # None => f.remote # None, NEW I \in SUBSET VMs
  PROVE  Entered(f, EnterCreate(f), I)
  BY CreateFresh DEF Entered, InStep, Hosted, EnterCreate, EnterWaiting, Await,
     Goto, FSM

\* From update.napi the object goes to waiting if owner and state agree.
LEMMA UpdateNapiEntered ==
  ASSUME NEW f \in FSM, f.local # None, f.remote # None, NEW I \in SUBSET VMs,
         NEW g, g = EnterUpdateNapi(f)
  PROVE  /\ Fresh(f, g) /\ Hosted(g)
         /\ g.local = f.local /\ g.remote = f.remote
         /\ g.st = "waiting" => ~LocalDiffers(f)
         /\ f.local.cfg = f.remote.cfg => Entered(f, g, I)
<1>1. Fresh(f, g)
  BY UpdateNapiFresh
<1>2. CASE LocalDiffers(f)
  <2>1. PICK c : c = PutCall(f)
    OBVIOUS
  <2>2. c.op = "put"
    BY <2>1 DEF PutCall
  <2>3. PICK h : h = GotoSub(f, "update.napi")
    OBVIOUS
  <2>4. h \in FSM /\ h.st = "update.napi" /\ h.local = f.local
        /\ h.remote = f.remote
    BY <2>3, GotoFields DEF FSMStates
  <2>5. g = [h EXCEPT !.call = c]
    BY <1>2, <2>1, <2>3 DEF EnterUpdateNapi, Await
  <2>6. g.st = "update.napi" /\ g.call = c /\ g.local = f.local
        /\ g.remote = f.remote
    BY <2>4, <2>5 DEF FSM
  <2> QED BY <1>1, <2>2, <2>6 DEF Entered, InStep, Hosted
<1>3. CASE ~LocalDiffers(f)
  <2>1. g = Goto(f, "waiting")
    BY <1>3 DEF EnterUpdateNapi, EnterWaiting
  <2>2. g.st = "waiting" /\ g.call = None /\ g.local = f.local
        /\ g.remote = f.remote
    BY <2>1, GotoFields DEF FSMStates
  <2> QED BY <1>1, <1>3, <2>2
          DEF Entered, InStep, Hosted, Agrees, LocalDiffers
<1> QED BY <1>2, <1>3

LEMMA UpdateLocalEntered ==
  ASSUME NEW f \in FSM, f.local # None, f.remote # None, NEW I \in SUBSET VMs
  PROVE  Entered(f, EnterUpdateLocal(f, I), I)
<1>1. PICK g : g = [f EXCEPT !.needVm = FALSE]
  OBVIOUS
<1>2. /\ g \in FSM
      /\ g.local = f.local /\ g.remote = f.remote /\ g.etag = f.etag
  BY <1>1 DEF FSM
<1>3. f.local \in LocalNic /\ f.remote \in RemoteNic
  BY DEF FSM
<1>4. PICK h : h = [g EXCEPT !.poke = f.local.owner]
  OBVIOUS
<1>5. /\ h \in FSM
      /\ h.local = f.local /\ h.remote = f.remote /\ h.etag = f.etag
  BY <1>2, <1>3, <1>4 DEF FSM, LocalNic
<1>6. Fresh(f, EnterUpdateLocal(f, I))
  BY UpdateLocalFresh
<1>7. CASE (RemoteDiffers(f) \/ f.needVm) /\ ~HasOwner(f, I)
  <2>1. EnterUpdateLocal(f, I) = Goto(g, "waiting")
    BY <1>1, <1>7 DEF EnterUpdateLocal, EnterWaiting
  <2>2. PICK k : k = Goto(g, "waiting")
    OBVIOUS
  <2>3. k.call = None /\ k.local = f.local
    BY <1>2, <2>2, GotoFields DEF FSMStates
  <2> QED BY <1>6, <1>7, <2>1, <2>2, <2>3
          DEF Entered, InStep, Hosted, HasOwner
<1>8. CASE ~RemoteDiffers(f) /\ (~f.needVm \/ HasOwner(f, I))
  <2>1. PICK k \in {g, h} : EnterUpdateLocal(f, I) = EnterUpdateNapi(k)
    BY <1>1, <1>4, <1>8 DEF EnterUpdateLocal
  <2>2. /\ k \in FSM
        /\ k.local = f.local /\ k.remote = f.remote /\ k.etag = f.etag
    BY <1>2, <1>5
  <2>3. PICK m : m = EnterUpdateNapi(k)
    OBVIOUS
  <2>4. Entered(k, m, I)
    BY <1>8, <2>2, <2>3, UpdateNapiEntered DEF RemoteDiffers
  <2> QED BY <1>6, <2>1, <2>3, <2>4 DEF Entered
<1>9. CASE RemoteDiffers(f) /\ HasOwner(f, I)
  <2>1. PICK c : c = [op |-> "updateNic", host |-> f.local.owner,
                      cfg |-> f.remote.cfg]
    OBVIOUS
  <2>2. PICK k : k = GotoSub(g, "update.local")
    OBVIOUS
  <2>3. k \in FSM /\ k.st = "update.local" /\ k.local = f.local
    BY <1>2, <2>2, GotoFields DEF FSMStates
  <2>4. PICK m : m = Await(k, c)
    OBVIOUS
  <2>5. m.st = "update.local" /\ m.call = c /\ m.local = f.local
    BY <2>3, <2>4 DEF Await, FSM
  <2>6. EnterUpdateLocal(f, I) = m
    BY <1>1, <1>9, <2>1, <2>2, <2>4 DEF EnterUpdateLocal
  <2> QED BY <1>6, <2>1, <2>5, <2>6 DEF Entered, InStep, Hosted
<1> QED BY <1>7, <1>8, <1>9

LEMMA UpdateEntered ==
  ASSUME NEW f \in FSM, f.etag # None => f.remote # None,
         NEW I \in SUBSET VMs
  PROVE  Entered(f, EnterUpdate(f, I), I)
<1>1. "update.local" \in FSMStates /\ "crashed.update" \in FSMStates
      /\ "waiting" \in FSMStates
  BY DEF FSMStates
<1>2. PICK g : g = Goto(f, "update.local")
  OBVIOUS
<1>3. /\ g \in FSM
      /\ g.local = f.local /\ g.remote = f.remote /\ g.etag = f.etag
  BY <1>1, <1>2, GotoFields
<1>4. PICK h : h = [g EXCEPT !.hears = TRUE]
  OBVIOUS
<1>5. /\ h \in FSM
      /\ h.local = f.local /\ h.remote = f.remote /\ h.etag = f.etag
  BY <1>3, <1>4 DEF FSM
<1>6. Fresh(f, EnterUpdate(f, I))
  BY UpdateFresh
<1>7. CASE f.local = None
  <2>1. PICK k : k = Goto(f, "waiting")
    OBVIOUS
  <2>2. k.local = None /\ k.call = None
    BY <1>1, <1>7, <2>1, GotoFields
  <2> QED BY <1>6, <1>7, <2>1, <2>2
          DEF Entered, InStep, Hosted, EnterUpdate, EnterWaiting
<1>8. CASE f.local # None /\ f.remote = None
  <2>1. PICK k : k = Goto(f, "crashed.update")
    OBVIOUS
  <2>2. k.st = "crashed.update" /\ k.call = None
    BY <1>1, <2>1, GotoFields
  <2> QED BY <1>6, <1>8, <2>1, <2>2 DEF Entered, InStep, Hosted, EnterUpdate
<1>9. CASE f.local # None /\ f.remote # None /\ Unclaimed(f)
  <2>1. LocalDiffers(g)
    BY <1>3, <1>9, OwnersDistinct DEF Unclaimed, LocalDiffers
  <2>2. PICK k : k = EnterUpdateNapi(g)
    OBVIOUS
  <2>3. Hosted(k) /\ k.st # "waiting"
    BY <1>3, <1>9, <2>1, <2>2, UpdateNapiEntered
  <2> QED BY <1>2, <1>6, <1>9, <2>2, <2>3 DEF Entered, InStep, EnterUpdate
<1>10. CASE /\ f.local # None /\ f.remote # None /\ ~Unclaimed(f)
            /\ f.local.owner # f.remote.owner
  BY <1>10, LeavingEntered DEF EnterUpdate
<1>11. CASE /\ f.local # None /\ f.remote # None /\ ~Unclaimed(f)
            /\ f.local.owner = f.remote.owner
  <2>1. PICK k : k = EnterUpdateLocal(h, I)
    OBVIOUS
  <2>2. Entered(h, k, I)
    BY <1>5, <1>11, <2>1, UpdateLocalEntered
  <2>3. EnterUpdate(f, I) = k
    BY <1>2, <1>4, <1>11, <2>1 DEF EnterUpdate
  <2> QED BY <1>6, <2>2, <2>3 DEF Entered
<1> QED BY <1>7, <1>8, <1>9, <1>10, <1>11

\* The PUT that was answered failed.
PutFailed(f) ==
  f.st = "update.napi" /\ f.reply # None /\ f.reply.code \notin {200, 404}

\* The object after a callback, a retry or an event: unless a vmadm run was
\* awaited and succeeded, it waits only in agreement.
Advanced(f, g, I) ==
  /\ Turned(f, g)
  /\ g.local \in {f.local, None}
  /\ InStep(g, I)
  /\ g.call = f.call \/ Hosted(g)
  /\ g.timer = "update.napi" => f.timer = "update.napi" \/ PutFailed(f)

LEMMA EnteredAdvanced ==
  ASSUME NEW f, NEW I, NEW g, Entered(f, g, I)
  PROVE  Advanced(f, g, I)
  BY DEF Entered, Fresh, Turned, Advanced

LEMMA BackOffAdvanced ==
  ASSUME NEW f \in FSM, FSMOk(f), f.st # "waiting", NEW I \in SUBSET VMs,
         NEW s \in Timers, s \in {f.st, "refresh"},
         s = "update.napi" => PutFailed(f)
  PROVE  Advanced(f, BackOff(f, s), I)
<1>1. PICK g : g = BackOff(f, s)
  OBVIOUS
<1>2. g.st = f.st /\ g.call = None /\ g.timer = s /\ g.local = f.local
  BY <1>1 DEF BackOff, FSM
<1> QED BY <1>1, <1>2, BackOffTurned DEF Advanced, InStep, Hosted

LEMMA LearnedAdvanced ==
  ASSUME NEW f \in FSM, FSMOk(f), f.reply # None, f.reply.code = 200,
         f.st \in {"refresh", "release.refresh", "create", "update.napi"},
         NEW I \in SUBSET VMs
  PROVE  /\ Advanced(f, EnterUpdate(SetRemote(f, f.reply.res), I), I)
         /\ Advanced(f, EnterRelease(SetRemote(f, f.reply.res)), I)
<1>1. f.reply.res \in Stored /\ f.reply.res # None
  BY AnswerHasRecord
<1>2. PICK k : k = SetRemote(f, f.reply.res)
  OBVIOUS
<1>3. k \in FSM /\ k.remote # None /\ k.local = f.local
  BY <1>1, <1>2, SetRemoteFields
<1>4. Entered(k, EnterUpdate(k, I), I) /\ Entered(k, EnterRelease(k), I)
  BY <1>3, UpdateEntered, LeavingEntered
<1>5. /\ Turned(f, EnterUpdate(k, I))
      /\ Turned(f, EnterRelease(k))
  BY <1>2, AnswerTurned
<1> QED BY <1>2, <1>3, <1>4, <1>5 DEF Entered, Fresh, Advanced

LEMMA CallbackAdvanced ==
  ASSUME NEW f \in FSM, FSMOk(f), f.reply # None, NEW I \in SUBSET VMs
  PROVE  /\ f.st = "refresh"         => Advanced(f, AfterGet(f, I), I)
         /\ f.st = "create"          => Advanced(f, AfterCreate(f, I), I)
         /\ (f.st = "update.local" /\ f.reply.code # 200)
                                     => Advanced(f, AfterUpdate(f, I), I)
         /\ f.st = "update.napi"     => Advanced(f, AfterPut(f, I), I)
         /\ f.st = "remove.nic"      => Advanced(f, AfterRemove(f, I), I)
         /\ f.st = "remove.reboot"   => Advanced(f, AfterReboot(f), I)
         /\ f.st = "release.delete"  => Advanced(f, AfterDelete(f), I)
         /\ f.st = "release.refresh" => Advanced(f, AfterReleaseGet(f), I)
<1>1. /\ f.etag # None => f.remote # None
      /\ f.st = "update.local" => f.local # None /\ f.remote # None
      /\ f.st = "remove.nic" => f.local # None
  BY DEF FSMOk
<1>2. /\ Advanced(f, Absent, I)
      /\ Advanced(f, EnterReleaseRefresh(f), I)
      /\ Advanced(f, EnterRelease(f), I)
      /\ Advanced(f, EnterRemove(f, I), I)
      /\ f.local # None => Advanced(f, EnterRemoveReboot(f, I), I)
      /\ Advanced(f, EnterCreate(f), I)
  BY <1>1, LeavingEntered, CreateEntered, EnteredAdvanced
<1>3. \A s \in Timers :
        (/\ s \in {f.st, "refresh"} /\ f.st # "waiting"
         /\ s = "update.napi" => PutFailed(f)) => Advanced(f, BackOff(f, s), I)
  BY BackOffAdvanced
<1>4. CASE f.st = "refresh"
  BY <1>2, <1>3, <1>4, LearnedAdvanced DEF AfterGet, Timers
<1>5. CASE f.st = "create"
  BY <1>2, <1>3, <1>5, LearnedAdvanced DEF AfterCreate, Timers
<1>6. CASE f.st = "update.local"
  BY <1>1, <1>6, UpdateLocalEntered, EnteredAdvanced DEF AfterUpdate
<1>7. CASE f.st = "update.napi"
  BY <1>2, <1>3, <1>7, LearnedAdvanced DEF AfterPut, Timers, PutFailed
<1>8. CASE f.st = "remove.nic"
  BY <1>1, <1>2, <1>3, <1>8 DEF AfterRemove, Timers
<1>9. CASE f.st = "remove.reboot"
  BY <1>2, <1>3, <1>9 DEF AfterReboot, Timers, EnterStopped
<1>10. CASE f.st = "release.delete"
  BY <1>2, <1>3, <1>10 DEF AfterDelete, Timers, EnterStopped
<1>11. CASE f.st = "release.refresh"
  BY <1>2, <1>3, <1>11, LearnedAdvanced DEF AfterReleaseGet, Timers,
     EnterStopped
<1> QED BY <1>4, <1>5, <1>6, <1>7, <1>8, <1>9, <1>10, <1>11

\* The turn that hears of a vmadm run's success compares owner and state only.
LEMMA UpdatedAdvanced ==
  ASSUME NEW f \in FSM, FSMOk(f), f.reply # None, f.reply.code = 200,
         f.st = "update.local", NEW I \in SUBSET VMs, NEW g,
         g = AfterUpdate(f, I)
  PROVE  /\ Turned(f, g) /\ Hosted(g)
         /\ g.local = f.local /\ g.timer = "none" /\ g.reply = None
         /\ g.st = "waiting" => /\ g.local.owner = g.remote.owner
                                /\ g.local.state = g.remote.state
<1>1. f.local # None /\ f.remote # None
  BY DEF FSMOk
<1>2. g = EnterUpdateNapi(f)
  BY DEF AfterUpdate
<1> QED BY <1>1, <1>2, UpdateNapiEntered, FreshTurned
        DEF Fresh, LocalDiffers

LEMMA RetryAdvanced ==
  ASSUME NEW f \in FSM, FSMOk(f), f.timer \notin {"none", "update.napi"},
         NEW I \in SUBSET VMs
  PROVE  Advanced(f, Retry(f, I), I)
<1>1. /\ f.timer \in Timers /\ f.timer \in {f.st, "refresh"}
      /\ (f.etag # None => f.remote # None)
      /\ f.st = "remove.reboot" => f.local # None
  BY DEF FSM, FSMOk
<1>2. CASE f.timer = "refresh"
  BY <1>1, <1>2, LeavingEntered, EnteredAdvanced DEF Retry
<1>3. CASE f.timer = "remove.nic"
  BY <1>1, <1>3, LeavingEntered, EnteredAdvanced DEF Retry
<1>4. CASE f.timer = "remove.reboot"
  BY <1>1, <1>4, LeavingEntered, EnteredAdvanced DEF Retry
<1>5. CASE f.timer = "release.delete"
  BY <1>1, <1>5, LeavingEntered, EnteredAdvanced DEF Retry
<1>6. CASE f.timer = "release.refresh"
  BY <1>1, <1>6, LeavingEntered, EnteredAdvanced DEF Retry
<1> QED BY <1>1, <1>2, <1>3, <1>4, <1>5, <1>6 DEF Timers

LEMMA EmitAdvanced ==
  ASSUME NEW f \in FSM, FSMOk(f), NEW I \in SUBSET VMs
  PROVE  /\ Advanced(f, EmitSet(f, I), I)
         /\ Advanced(f, EmitRefresh(f), I)
<1>1. PICK g : g = [f EXCEPT !.armed = f.armed \ {"set"}]
  OBVIOUS
<1>2. PICK k : k = [f EXCEPT !.armed = f.armed \ {"refresh"}]
  OBVIOUS
<1>3. /\ g \in FSM
      /\ g.st = f.st /\ g.timer = f.timer /\ g.call = f.call
      /\ g.reply = f.reply /\ g.remote = f.remote /\ g.etag = f.etag
      /\ g.local = f.local
  BY <1>1 DEF FSM
<1>4. /\ k \in FSM
      /\ k.st = f.st /\ k.timer = f.timer /\ k.call = f.call
      /\ k.reply = f.reply /\ k.remote = f.remote /\ k.etag = f.etag
      /\ k.local = f.local
  BY <1>2 DEF FSM
<1>5. Turned(f, EmitSet(f, I)) /\ Turned(f, EmitRefresh(f))
  BY EmitTurned
<1>6. f.etag # None => f.remote # None
  BY DEF FSMOk
<1>7. Entered(g, EnterUpdate(g, I), I) /\ Entered(k, EnterRefresh(k), I)
  BY <1>3, <1>4, <1>6, UpdateEntered, LeavingEntered
<1>8. Advanced(f, EmitSet(f, I), I)
  <2>1. CASE f.st = "waiting"
    BY <1>1, <1>3, <1>5, <1>7, <2>1 DEF EmitSet, Advanced, Entered, Fresh
  <2>2. CASE f.st # "waiting"
    BY <1>1, <1>3, <1>5, <2>2 DEF EmitSet, Advanced, InStep
  <2> QED BY <2>1, <2>2
<1>9. Advanced(f, EnterRefresh(k), I)
  BY <1>4, <1>5, <1>7 DEF Advanced, Entered, Fresh, Turned, Kept
<1>10. f.st # "waiting" => Advanced(f, k, I)
  <2>1. Turned(f, k)
    BY <1>2, <1>4, SameStateTurned DEF FSM
  <2> QED BY <1>4, <2>1 DEF Advanced, InStep
<1>11. \/ EmitRefresh(f) = EnterRefresh(k)
       \/ EmitRefresh(f) = k /\ f.st # "waiting"
  BY <1>2 DEF EmitRefresh
<1> QED BY <1>8, <1>9, <1>10, <1>11
=============================================================================
