----------------------------- MODULE NicTracking -----------------------------
(***************************************************************************)
(* One MAC address and everything that touches it: the NicFSM that tracks  *)
(* it, the InstanceFSMs of this node's VMs and the ServerFSM that hold     *)
(* references to that object, the agent's tables, the node's own NIC       *)
(* configuration (vmadm, sysinfo), and NAPI with its requests, answers and *)
(* changefeed.                                                             *)
(*                                                                         *)
(* One action is one turn of the Node.js event loop: a callback, a timer   *)
(* or an event, run to completion.  updateVMs() alone is one action per VM *)
(* of the list it is called with, and everything else waits for its end.   *)
(***************************************************************************)
EXTENDS NicFSM, Naturals

CONSTANTS
  Starts,     \* what the node and NAPI may have when the agent first starts,
              \* and the bounds of what happens from there: changes of the
              \* node and of NAPI by others, failed calls and lost requests,
              \* restarts that no crash calls for, changefeed events
  ZoneMoves,  \* ZoneMoves[h]: pairs, what the configuration of h may become
  NapiMoves   \* pairs: what others may make of NAPI's record

\* What a host has for this MAC: it does not exist, it is flagged
\* do_not_inventory, it exists without the NIC, or it has the NIC.
ZoneNic == [has : {"nic"}, state : {"running", "halted"}, cfg : Cfgs]
Zones == ZoneNic \cup [has : {"gone", "hidden", "bare"}]

ASSUME NoneIsNoZone == None \notin Zones

Kinds == {"moves", "edits", "faults", "restarts", "events"}

ASSUME StartAssumption ==
  /\ Starts \subseteq [zone : [Hosts -> Zones], napi : Stored \cup {None},
                      left : [Kinds -> Nat]]
  /\ \A s \in Starts : s.zone[CN].has \in {"bare", "nic"}

ASSUME MovesAssumption ==
  /\ ZoneMoves \in [Hosts -> SUBSET (Zones \X Zones)]
  /\ \A m \in ZoneMoves[CN] : m[2].has \in {"bare", "nic"}
  /\ NapiMoves \subseteq (RemoteNic \cup {None}) \X (RemoteNic \cup {None})

VARIABLES
  nic,     \* app.nics[mac]; Absent when the table has no entry
  ref,     \* ref[h]: what the FSM of host h has for this MAC in its nics
  watch,   \* the watcher has a lookup of the VMs pending
  list,    \* list[v]: what the last lookup said of v, until v is handled
  turn,    \* updateVMs() is running
  sysinfo, \* the ServerFSM has a load of the sysinfo pending
  zone,    \* zone[h]: the NIC as the node has it configured
  napi,    \* NAPI's record of the NIC, or None
  wire,    \* requests whose caller no longer waits, still to be served
  left     \* what is left of the bounds

vars == <<nic, ref, watch, list, turn, sysinfo, zone, napi, wire, left>>

\* "none" is a VM not in app.insts, "bare" one without the NIC, "live" one
\* that holds the object of app.nics, "dead" one that holds a stopped object.
Refs == {"none", "bare", "live", "dead"}

TypeOK ==
  /\ nic \in FSM
  /\ ref \in [Hosts -> Refs]
  /\ watch \in BOOLEAN
  /\ list \in [VMs -> Zones \cup {None}]
  /\ turn \in BOOLEAN
  /\ sysinfo \in BOOLEAN
  /\ zone \in [Hosts -> Zones]
  /\ napi \in Stored \cup {None}
  /\ wire \in SUBSET (Writes \cup VmadmCalls)
  /\ left \in [Kinds -> Nat]

\* app.insts
insts == {v \in VMs : ref[v] # "none"}

\* The VMs of the list that are not handled yet.
todo == {v \in VMs : list[v] # None}

HasNic(h) == zone[h].has = "nic"

\* Mutant of FmtState: the VM's state as it is.
FmtStateRaw(s) == s

FmtState(s) == IF s = "running" THEN "running" ELSE "stopped"
FmtNic(h, z) == [owner |-> h, state |-> FmtState(z.state), cfg |-> z.cfg]

\* The agent's process starts: empty tables, the watcher about to look up the
\* VMs and the ServerFSM about to load the sysinfo.
NoList == [v \in VMs |-> None]
NoRefs == [h \in Hosts |-> IF h = CN THEN "bare" ELSE "none"]

Init ==
  /\ nic = Absent
  /\ ref = NoRefs
  /\ watch = TRUE
  /\ list = NoList
  /\ turn = FALSE
  /\ sysinfo = TRUE
  /\ wire = {}
  /\ \E s \in Starts : zone = s.zone /\ napi = s.napi /\ left = s.left

Spend(kind) ==
  /\ left[kind] > 0
  /\ left' = [left EXCEPT ![kind] = @ - 1]

-----------------------------------------------------------------------------
(* How a turn of the agent ends.                                           *)

Alive == nic.st \notin Crashed

\* No turn is running.  An object in state init is left by setImmediate,
\* which runs before the next timer or I/O callback.
Idle == Alive /\ ~turn /\ nic.st # "init"

\* A request of nic's that g no longer waits for stays on its way.
Abandoned(g) ==
  IF /\ nic.call \in Writes \cup VmadmCalls
     /\ nic.reply = None /\ g.call # nic.call
  THEN {nic.call} ELSE {}

\* A vmadm run of nic's is over and its InstanceFSM hears of it in this turn.
\* It refreshes, whether its caller still waits or not.
RunOf(c) == c \in UpdateCalls \cup VmCalls /\ c.host \in VMs
RunEnded(g) == nic.reply # None /\ g.reply = None /\ RunOf(nic.call)

\* Holders of the object that stops keep it.
Bury(r, g) ==
  [h \in Hosts |-> IF g.st = "stopped" /\ r[h] = "live" THEN "dead" ELSE r[h]]

\* The object is g and the references are r when the turn ends; w and s: the
\* turn itself leaves a lookup or a sysinfo load pending.  owner.refresh()
\* asks the watcher for a VM, and the ServerFSM for the server.
SettleAll(g, r, w, s) ==
  /\ nic' = [g EXCEPT !.poke = None]
  /\ ref' = Bury(r, g)
  /\ watch' = (w \/ g.poke \in VMs \/ RunEnded(g))
  /\ sysinfo' = (s \/ g.poke = CN)
  /\ wire' = wire \cup Abandoned(g)

Settle(g, r) == SettleAll(g, r, watch, sysinfo)

\* watchNic(mac): the object of app.nics, made if there is none.
WatchNic == IF nic.st = "stopped" THEN NewFSM ELSE nic

\* releaseNic(mac, host): nothing unless app.nics has an object.
ReleaseNic(host) ==
  IF nic.st = "stopped" THEN nic ELSE ReleaseFrom(nic, host)

-----------------------------------------------------------------------------
(* NicFSM: timers, events and callbacks.                                   *)

Immediate ==
  /\ nic.st = "init"
  /\ ~turn
  /\ Settle(EnterRefresh(nic), ref)
  /\ UNCHANGED <<list, turn, zone, napi, left>>

SetAsserted ==
  /\ Idle
  /\ "set" \in nic.armed
  /\ Settle(EmitSet(nic, insts), ref)
  /\ UNCHANGED <<list, turn, zone, napi, left>>

RefreshAsserted ==
  /\ Idle
  /\ "refresh" \in nic.armed
  /\ Settle(EmitRefresh(nic), ref)
  /\ UNCHANGED <<list, turn, zone, napi, left>>

\* The hour in waiting is over, or the NIC's network emits 'changed'.  The hour
\* is counted from the last entry to waiting.
WaitingRefresh ==
  /\ Idle
  /\ nic.st = "waiting"
  /\ Settle(EnterRefresh(nic), ref)
  /\ UNCHANGED <<list, turn, zone, napi, left>>

RetryTimer ==
  /\ Idle
  /\ nic.timer # "none"
  /\ Settle(Retry(nic, insts), ref)
  /\ UNCHANGED <<list, turn, zone, napi, left>>

\* The state that awaits an answer, and its callback.
Delivered ==
  CASE nic.st = "refresh"         -> AfterGet(nic, insts)
    [] nic.st = "create"          -> AfterCreate(nic, insts)
    [] nic.st = "update.local"    -> AfterUpdate(nic, insts)
    [] nic.st = "update.napi"     -> AfterPut(nic, insts)
    [] nic.st = "remove.nic"      -> AfterRemove(nic, insts)
    [] nic.st = "remove.reboot"   -> AfterReboot(nic)
    [] nic.st = "release.delete"  -> AfterDelete(nic)
    [] nic.st = "release.refresh" -> AfterReleaseGet(nic)

Callback ==
  /\ Idle
  /\ nic.reply # None
  /\ Settle(Delivered, ref)
  /\ UNCHANGED <<list, turn, zone, napi, left>>

-----------------------------------------------------------------------------
(* NetAgent: updateVMs(), the changefeed; ServerFSM: the sysinfo.          *)

\* The watcher has been waiting for five minutes.  (On a platform with vminfod
\* there is no such timer: lookups may go on for ever, and need not.)
PeriodicLookup ==
  /\ Idle
  /\ ~watch /\ todo = {}
  /\ watch' = TRUE
  /\ UNCHANGED <<nic, ref, list, turn, sysinfo, zone, napi, wire, left>>

\* vmadm reads the VMs for the watcher, which gets the list in a later turn.
LookupVMs ==
  /\ Alive /\ ~turn
  /\ watch /\ todo = {}
  /\ watch' = FALSE
  /\ list' = [v \in VMs |-> zone[v]]
  /\ UNCHANGED <<nic, ref, turn, sysinfo, zone, napi, wire, left>>

\* The watcher has the list and calls updateVMs() with it.
BeginUpdateVMs ==
  /\ Idle
  /\ todo # {}
  /\ turn' = TRUE
  /\ UNCHANGED <<nic, ref, watch, list, sysinfo, zone, napi, wire, left>>

Visit(v) ==
  /\ turn
  /\ v \in todo
  /\ list' = [list EXCEPT ![v] = None]
  /\ turn' = (todo # {v})

\* The VM has the NIC.  Its InstanceFSM sets the local NIC of the object it
\* holds, be that stopped or not, and takes app.nics' if it holds none.
UpdateWithNic(v) ==
  /\ Visit(v)
  /\ list[v].has = "nic"
  /\ IF ref[v] = "dead"
     THEN Settle(nic, ref)
     ELSE Settle(SetLocal(WatchNic, FmtNic(v, list[v])),
                 [ref EXCEPT ![v] = "live"])
  /\ UNCHANGED <<zone, napi, left>>

\* The VM is there without the NIC.
UpdateWithoutNic(v) ==
  /\ Visit(v)
  /\ list[v].has = "bare"
  /\ LET held == ref[v] \in {"live", "dead"}
     IN  Settle(IF held THEN ReleaseNic(v) ELSE nic,
                [ref EXCEPT ![v] = "bare"])
  /\ UNCHANGED <<zone, napi, left>>

\* The VM has do_not_inventory set: its InstanceFSM is stopped, which stops
\* the NIC object that it holds.
HideVM(v) ==
  /\ Visit(v)
  /\ list[v].has = "hidden"
  /\ Settle(IF ref[v] = "live" THEN StopNic(nic) ELSE nic,
            [ref EXCEPT ![v] = "none"])
  /\ UNCHANGED <<zone, napi, left>>

\* The VM is not listed any more.  Those are handled after the listed ones.
RemoveVM(v) ==
  /\ Visit(v)
  /\ list[v].has = "gone"
  /\ \A u \in todo : list[u].has = "gone"
  /\ LET held == ref[v] \in {"live", "dead"}
     IN  Settle(IF held THEN ReleaseNic(v) ELSE nic,
                [ref EXCEPT ![v] = "none"])
  /\ UNCHANGED <<zone, napi, left>>

\* The sysinfo was loaded and has the NIC, or lacks it.
UpdateServer ==
  /\ Idle
  /\ sysinfo
  /\ IF HasNic(CN)
     THEN IF ref[CN] = "dead"
          THEN SettleAll(nic, ref, watch, FALSE)
          ELSE SettleAll(SetLocal(WatchNic, FmtNic(CN, zone[CN])),
                         [ref EXCEPT ![CN] = "live"], watch, FALSE)
     ELSE SettleAll(IF ref[CN] = "live" THEN ReleaseFrom(nic, CN) ELSE nic,
                    [ref EXCEPT ![CN] = "bare"], watch, FALSE)
  /\ UNCHANGED <<list, turn, zone, napi, left>>

\* The changefeed reports this MAC with our cn_uuid.
FeedEvent ==
  /\ Idle
  /\ Spend("events")
  /\ Settle(IF nic.st = "stopped" THEN NewFSM ELSE RefreshNic(nic), ref)
  /\ UNCHANGED <<list, turn, zone, napi>>

\* It reports it with another cn_uuid, or deleted; or the feed reconnects.
FeedRefresh ==
  /\ Idle
  /\ nic.st # "stopped"
  /\ Spend("events")
  /\ Settle(RefreshNic(nic), ref)
  /\ UNCHANGED <<list, turn, zone, napi>>

\* The process starts again, after a crash or a kill.
Restart ==
  /\ IF Alive THEN Spend("restarts") ELSE UNCHANGED left
  /\ SettleAll(Absent, NoRefs, TRUE, TRUE)
  /\ list' = NoList
  /\ turn' = FALSE
  /\ UNCHANGED <<zone, napi>>

-----------------------------------------------------------------------------
(* NAPI and vmadm serve a call: Answer(c) is what it answers and Effect(c) *)
(* what it does.  A call is served at once for the one who waits for it,   *)
(* or later, when nobody waits any more.                                   *)

Ok(res) == [code |-> 200, res |-> res]
Fail(code) == [code |-> code, res |-> None]

\* Etags that somebody still holds.  A write gives the record another one.
TagsOf(c) == IF c # None /\ c.op = "delete" THEN {c.match} ELSE {}
HeldEtags ==
  {nic.etag} \cup (IF napi = None THEN {} ELSE {napi.etag})
    \cup (IF nic.reply = None \/ nic.reply.res = None THEN {}
          ELSE {nic.reply.res.etag})
    \cup TagsOf(nic.call) \cup UNION {TagsOf(c) : c \in wire}
FreshEtags == Etags \ HeldEtags

\* NAPI stores n as a new version of the record.
Store(n) ==
  /\ FreshEtags # {}
  /\ napi' = [nic |-> n, etag |-> CHOOSE t \in FreshEtags : TRUE]

Put(c) ==
  [napi.nic EXCEPT !.owner = IF c.owner = None THEN @ ELSE c.owner,
                   !.state = IF c.state = None THEN @ ELSE c.state]

\* The If-Match header names the stored version.
Matches(c) == napi # None /\ napi.etag = c.match

\* The record made for a POST: NAPI fills in the network's attributes.
Created(c) ==
  [owner : {c.nic.owner}, state : {c.nic.state}, cfg : Cfgs, routes : Routes]

\* vmadm finds the NIC on the host, unless the call is about the server.
Applies(c) ==
  IF c.op = "updateNic" THEN c.host = CN \/ HasNic(c.host)
  ELSE IF c.op = "removeNic" THEN HasNic(c.host)
  ELSE zone[c.host].has # "gone"

Configured(c) ==
  IF c.op = "updateNic" /\ c.host # CN
  THEN [zone EXCEPT ![c.host] = [@ EXCEPT !.cfg = c.cfg]]
  ELSE IF c.op = "removeNic" THEN [zone EXCEPT ![c.host] = [has |-> "bare"]]
  ELSE zone

ServeGet(c, r) ==
  /\ c.op = "get"
  /\ r = (IF napi = None THEN Fail(404) ELSE Ok(napi))
  /\ UNCHANGED <<zone, napi>>

ServePost(c, r) ==
  /\ c.op = "post"
  /\ \/ /\ napi = None
        /\ \E n \in Created(c) : Store(n)
        /\ r = Ok(napi')
     \/ /\ napi # None
        /\ r = Fail(500)
        /\ UNCHANGED napi
  /\ UNCHANGED zone

ServePut(c, r) ==
  /\ c.op = "put"
  /\ \/ /\ napi # None
        /\ Store(Put(c))
        /\ r = Ok(napi')
     \/ /\ napi = None
        /\ r = Fail(404)
        /\ UNCHANGED napi
  /\ UNCHANGED zone

ServeDelete(c, r) ==
  /\ c.op = "delete"
  /\ \/ /\ Matches(c)
        /\ napi' = None
        /\ r = Ok(None)
     \/ /\ ~Matches(c)
        /\ r = Fail(IF napi = None THEN 404 ELSE 412)
        /\ UNCHANGED napi
  /\ UNCHANGED zone

\* The ServerFSM answers that it does not support updates, and does nothing.
ServeVmadm(c, r) ==
  /\ c.op \in {"updateNic", "removeNic", "reboot"}
  /\ \/ /\ Applies(c)
        /\ zone' = Configured(c)
        /\ r = Ok(None)
     \/ /\ ~Applies(c)
        /\ r = Fail(500)
        /\ UNCHANGED zone
  /\ UNCHANGED napi

Serve(c, r) ==
  \/ ServeGet(c, r) \/ ServePost(c, r) \/ ServePut(c, r) \/ ServeDelete(c, r)
  \/ ServeVmadm(c, r)

Answers == {Fail(404), Fail(412), Fail(500), Ok(None)}
             \cup {Ok(n) : n \in Stored}

Waiting == ~turn /\ nic.call # None /\ nic.reply = None

ServeCall ==
  /\ Waiting
  /\ \E r \in Answers : Serve(nic.call, r) /\ nic' = [nic EXCEPT !.reply = r]
  /\ UNCHANGED <<ref, watch, list, turn, sysinfo, wire, left>>

ServeAbandoned(c) ==
  /\ ~turn
  /\ c \in wire
  /\ wire' = wire \ {c}
  /\ \E r \in Answers : Serve(c, r)
  /\ watch' = (watch \/ RunOf(c))
  /\ UNCHANGED <<nic, ref, list, turn, sysinfo, left>>

\* The call fails at the caller.  A request to NAPI may still be on its way.
FailCall ==
  /\ Waiting
  /\ Spend("faults")
  /\ nic' = [nic EXCEPT !.reply = Fail(500)]
  /\ wire' = IF nic.call \in Writes THEN wire \cup {nic.call} ELSE wire
  /\ UNCHANGED <<ref, watch, list, turn, sysinfo, zone, napi>>

LoseAbandoned(c) ==
  /\ ~turn
  /\ c \in wire
  /\ Spend("faults")
  /\ wire' = wire \ {c}
  /\ UNCHANGED <<nic, ref, watch, list, turn, sysinfo, zone, napi>>

-----------------------------------------------------------------------------
(* Everyone else.  A turn reads neither the node nor NAPI after its start, *)
(* so what changes during a turn may as well change after it.              *)

\* An operator, a VM's boot or halt, or VMAPI changes the node.  A VM's
\* change reaches the watcher (zoneevent, /etc/zones, vminfod events).
ZoneChange(h) ==
  /\ ~turn
  /\ Spend("moves")
  /\ \E z \in Zones \ {zone[h]} :
       <<zone[h], z>> \in ZoneMoves[h] /\ zone' = [zone EXCEPT ![h] = z]
  /\ watch' = (watch \/ h \in VMs)
  /\ UNCHANGED <<nic, ref, list, turn, sysinfo, napi, wire>>

\* Another client of NAPI writes or deletes the record.
NapiChange ==
  /\ ~turn
  /\ Spend("edits")
  /\ \E m \in NapiMoves :
       /\ m[1] = IF napi = None THEN None ELSE napi.nic
       /\ IF m[2] = None THEN napi # None /\ napi' = None ELSE Store(m[2])
  /\ UNCHANGED <<nic, ref, watch, list, turn, sysinfo, zone, wire>>

-----------------------------------------------------------------------------
UpdateVM(v) ==
  UpdateWithNic(v) \/ UpdateWithoutNic(v) \/ HideVM(v) \/ RemoveVM(v)

Agent ==
  \/ Immediate \/ SetAsserted \/ RefreshAsserted \/ WaitingRefresh
  \/ RetryTimer \/ Callback \/ PeriodicLookup \/ LookupVMs \/ BeginUpdateVMs
  \/ UpdateServer \/ FeedEvent \/ FeedRefresh \/ Restart
  \/ \E v \in VMs : UpdateVM(v)

Services ==
  \/ ServeCall \/ FailCall
  \/ \E c \in wire : ServeAbandoned(c) \/ LoseAbandoned(c)

Others == NapiChange \/ \E h \in Hosts : ZoneChange(h)

Next == Agent \/ Services \/ Others

Spec == Init /\ [][Next]_vars

\* The event loop gets to every callback, event and timer that is ready, after
\* the turns that are ahead of it (hence SF: a turn disables the others while it
\* runs); NAPI and vmadm answer; smf(5) starts a crashed agent again.  Nobody
\* else has to do anything.  (Where two steps are never ready together, one
\* fairness condition on either of them is enough.)
\*
\* An object that stays in waiting refreshes after an hour.  Every setAsserted
\* makes it leave waiting and come back, and the hour starts anew: fairness of
\* WaitingRefresh would deny that the lookups of every five minutes, which all
\* end in a setAsserted, keep the hour from ever passing.
HourPasses == []<>(nic.st # "waiting") \/ []<><<SetAsserted>>_vars

Fairness ==
  /\ WF_vars(Immediate)
  /\ SF_vars(SetAsserted \/ RefreshAsserted)
  /\ HourPasses
  /\ SF_vars(ServeCall \/ Callback \/ RetryTimer)
  /\ SF_vars(LookupVMs \/ BeginUpdateVMs)
  /\ WF_vars(\E v \in VMs : UpdateVM(v))
  /\ SF_vars(UpdateServer)
  /\ SF_vars(\E c \in wire : ServeAbandoned(c))
  /\ WF_vars(~Alive /\ Restart)

FairSpec == Spec /\ Fairness
-----------------------------------------------------------------------------
(* What the agent promises.                                                *)

\* Nothing that concerns this NIC is pending in the agent or on its way.
Quiet ==
  /\ nic.st \in {"waiting", "stopped"} /\ nic.armed = {}
  /\ ~watch /\ todo = {} /\ ~sysinfo /\ wire = {}

\* The calls that are on their way to NAPI or vmadm.
InFlight == wire \cup (IF nic.reply = None THEN {nic.call} \ {None} ELSE {})

\* A DELETE that would take effect if it were served now is for a record that
\* belongs to the owner that the NIC was released from, and is settled, be the
\* agent's copy as old as it may and NAPI's clients as busy as they like: the
\* VM that the record was given to meanwhile does not lose it.
DeletesReleasedOnly ==
  \A c \in InFlight :
    (c.op = "delete" /\ Matches(c)) =>
      napi.nic.owner = c.from /\ napi.nic.state \in {"running", "stopped"}

\* When the agent has come to rest with a NIC that a host still holds, what it
\* last saw of NAPI agrees with what the host has now: state and owner were
\* pushed up and, for a VM, the configuration was brought down.  No setAsserted
\* that was coalesced with another, or emitted while nobody listened, lost a
\* change of the host (the comment on state update.napi says none does).
RestsInSync ==
  (Quiet /\ nic.st = "waiting" /\ nic.local # None /\ nic.remote # None) =>
    LET h == nic.local.owner IN
      ref[h] = "live" =>
        /\ HasNic(h)
        /\ nic.remote.owner = h
        /\ nic.remote.state = FmtState(zone[h].state)
        /\ h \in VMs => nic.remote.cfg = zone[h].cfg

\* The POST that creates the record and the DELETE of its release are never in
\* NAPI's hands together: a release asserted during state create waits.
PostBeforeDelete ==
  ~(\E c, d \in InFlight : c.op = "post" /\ d.op = "delete")

InSync(h) ==
  /\ napi # None
  /\ napi.nic.owner = h
  /\ napi.nic.state = FmtState(zone[h].state)
  /\ h \in VMs => napi.nic.cfg = zone[h].cfg

\* NAPI's record of the node's own NIC belongs to someone else: the ServerFSM
\* removes no NIC, and the object gives up.
Disputed(h) == h = CN /\ napi # None /\ napi.nic.owner \notin {CN, Admin}

\* NAPI's record and the configuration of every host that keeps it agree for
\* good.
StaysInSync == <>[](\A h \in Hosts : HasNic(h) => InSync(h) \/ Disputed(h))

\* Once the others leave the NIC alone, and unless the watcher looks up the VMs
\* every five minutes, record and configuration come to agree: the record was
\* made if it was missing and claimed if booter had made it, state went up,
\* configuration came down, and a VM that NAPI says is not the owner lost its
\* NIC.
Converges == []<><<PeriodicLookup>>_vars \/ StaysInSync

\* The agent's copy of the record and the host's configuration agree.
CopyInSync(h) ==
  /\ nic.remote # None
  /\ nic.remote.owner = h
  /\ nic.remote.state = FmtState(zone[h].state)
  /\ h \in VMs => nic.remote.cfg = zone[h].cfg

\* With those lookups too, what the agent knows of NAPI and what the host has
\* come to agree, be it after failed calls, lost answers and restarts.
Settles == <>[](\A h \in Hosts : HasNic(h) => CopyInSync(h) \/ Disputed(h))

OwnsSettled(h) ==
  napi # None /\ napi.nic.owner = h /\ napi.nic.state \in {"running", "stopped"}

\* A VM is destroyed whose NIC the agent tracks: NAPI's record of the NIC does
\* not stay with the VM, whoever rewrites it while the agent deletes it.  (An
\* agent that is restarted meanwhile knows nothing of a VM that is gone.)
ReleaseCompletes ==
  \A v \in VMs : (ref[v] = "live" /\ zone[v].has = "gone") ~> ~OwnsSettled(v)

-----------------------------------------------------------------------------
(* What comments and tests promise and the code does not keep.  Each is    *)
(* the property of one run that shows how.                                 *)

\* State remove "takes care of removing a local NIC": it has one to remove.
\* And state update has a copy of NAPI's record to compare the local NIC with.
StatesHaveTheirNics == nic.st \notin {"crashed.remove", "crashed.update"}

\* A NIC that was removed from its owner is not put into NAPI any more.
NoCreateAfterRelease ==
  [][(nic'.call \in PostCalls /\ nic.call \notin PostCalls)
        => ref'[nic'.call.nic.owner] = "live"]_vars

\* When a release races with a PUT and the PUT wins, the record is deleted all
\* the same: none is left, settled, with a VM that is gone.
RacingPutIsDeleted ==
  (Quiet /\ nic.st = "stopped") =>
    \A v \in VMs : zone[v].has = "gone" => ~OwnsSettled(v)

\* The record is fetched again "periodically for installations w/o changefeed".
\* A record that was reconfigured, with no event of the changefeed to tell,
\* reaches the VM some time: "we'll eventually fix" it.
EventuallyFixed == StaysInSync
=============================================================================
