# net-agent in TLA+

net-agent runs on every Triton compute node. It keeps three pictures of the
node's networking equal: what NAPI (the Networking API) has recorded, what the
node and its VMs are configured with, and what the node actually has. State
and ownership go *up* to NAPI; addresses, routes and resolvers come *down* to
the VMs; a NIC that disappears from a VM is deleted from NAPI; a NIC that
belongs to someone else is taken away from the VM that has it.

This directory holds TLA+ models of that program, TLC configurations that
check them on small instances, and TLAPS proofs about them.

    tlc -workers 2 -config ownership.cfg MCNicTracking    # one run
    tlapm NicTrackingProofs.tla                           # one module's proofs

`PROJECT.json` lists components, runs, mutants, findings, hazards and theorems
and maps every definition to the source lines it stands for.

## 1. The system

Everything runs in one Node.js process: one callback at a time, each to
completion. Concurrency is between callbacks: calls to NAPI and to vmadm are
answered later, in any order, after anything else may have happened. The FSMs
are built on mooremachine: a state's listeners, timers and `S.callback()`s die
when the state is left, so an answer that comes late is dropped while the
request itself goes on.

| Component | State it keeps | Operations | Talks to |
|---|---|---|---|
| **NicFSM** `lib/nic-fsm.js` | `local` (what the owner reports), `remote` and `etag` (NAPI's record), `released`, `needVmUpdate`, `network`, FSM state | `setLocal`, `setRemote`, `refresh`, `releaseFrom`, `stop`; states waiting, refresh, create, update.local, update.napi, remove.nic, remove.reboot, release.delete, release.refresh, stopped | NAPI (GET, POST, PUT, DELETE with `If-Match`), the InstanceFSM or ServerFSM that owns the NIC, its NetworkFSM |
| **NetAgent** `lib/net-agent.js` | tables `nics`, `insts`, `nets`, `aggrs`; the changefeed | `updateVMs`, `watchNic`, `releaseNic`, `watchNet`, `watchAggr`, `_cfdrain`, `_cfbootstrap`, start, stop | every FSM |
| **InstanceFSM** `lib/inst-fsm.js` | `nics` (references to NicFSMs), `vm` | `_update`, `update`, `remove`, `stop`, `updateNIC`, `removeNIC`, `reboot`; states waiting, update.wait, update.vm, remove, stop | vmadm, NicFSMs, the watcher |
| **ServerFSM** `lib/server-fsm.js` | `nics`, `aggrs`, `nictags` | `refresh`, `_update`, `updateNIC` (does nothing) | sysinfo, NicFSMs, AggrFSMs |
| **NetworkFSM** `lib/net-fsm.js` | `remote` (the network), FSM state | `refresh`, `stop`; emits `changed` | NAPI |
| **AggrFSM** `lib/aggr-fsm.js` | `local`, `remote`, FSM state | as NicFSM, with fewer states | NAPI |
| **WatcherFSM**, **ZoneEventFSM** `lib/watcher-fsm.js` | refresh pending or running | `refresh` (five seconds apart), `vmadm lookup`, then `updateVMs` | vmadm, zoneevent, `/etc/zones` |
| **VmadmWatcherFSM**, **VmadmEventsFSM** `lib/vmadm-watcher-fsm.js` | a list of VMs kept up to date from vminfod's events | as WatcherFSM | vmadm events |
| **CommonFSM** `lib/common.js` | events pending, time of the last emit | `emitDelayed`, `hasChanged` | all of the above |
| **determineEventSource** `lib/event-source.js` | none | one probe at the start that selects the watcher | vmadm |
| `bin/net-agent.js`, `dummy/net-agent.js`, tests, packaging | | start the agent, or many of them against mocks | |

External: NAPI and its changefeed, vmadm and the zones, sysinfo, mooremachine,
restify clients (NAPI's client is made with `retry: false`), SMF, which starts
a crashed agent again. They are modelled from how the code uses them.

### What is hard

* **Stale copies.** `remote` and `etag` are as old as the last answer, and the
  list given to `updateVMs()` is as old as the lookup. Decisions (delete this
  record? remove this NIC?) are taken on them.
* **Ordering.** `setAsserted` and `refreshAsserted` are emitted in a later
  turn, coalesced, and dropped by every state that does not listen at that
  moment. Listeners of a parent state stay in force in its sub-states.
* **Abandoned calls.** Leaving a state drops its callback, not its request.
  DELETE, PUT, POST and vmadm runs may take effect long afterwards.
* **Failure.** Calls fail and are retried five seconds later, with whatever
  happened in between; the process dies and starts again with empty tables.
* **References.** An InstanceFSM keeps the NicFSM it was given; NetAgent's
  table forgets it when it stops.
* **Other writers.** VMAPI, operators and other nodes' agents write the same
  records in NAPI and the same zones.

### What makes each component correct

* NicFSM: never deletes a record that is not the released owner's; comes to
  rest only in agreement with what the owner reports; the POST and the DELETE
  of one NIC are ordered; every failed step is done again until NAPI and the
  node agree; a released NIC's record goes away.
* NetAgent, InstanceFSM, ServerFSM: every NIC of every tracked VM is tracked by
  exactly the object in `nics`; a NIC that is gone is released from the right
  owner.
* Watchers, `emitDelayed`: no change is lost, and lookups keep their distance.
* NetworkFSM: NICs that use a network are refreshed when it changes.
* InstanceFSM `update.*`: routes and resolvers of the VM become those of its
  NICs; vmadm runs are ordered.

## 2. The modules

Four groups, each of which takes the others at their word.

| Module | What it is |
|---|---|
| **One NIC and its record** | |
| `NicFSM` | The class NicFSM as operators on a record: for each state function what it does on entry, for each callback, timer and method what it does to the object. No variables. |
| `NicTracking` | One MAC address and everything that touches it: variables, one action per turn of the event loop, NAPI and vmadm, faults, fairness, properties. |
| `MCNicTracking` | Values for TLC: what the node and NAPI start with, what others may do. |
| `NicFSMProofs` | Lemmas on the operators of `NicFSM`: what each returns, keeps and arms. |
| `NicTrackingProofs` | The inductive invariant, types and the safety of DELETE. |
| `NicTrackingSync` | What holds as long as nothing is lost: the POST precedes the DELETE, and the agent rests in agreement. |
| **Where the lists of VMs come from** | |
| `EmitDelayed` | `CommonFSM.emitDelayed()` with its window, for one event. |
| `VMHistory` | The versions of the node's VMs, and what `updateVMs()` was told of them. |
| `Watcher`, `VmadmEvents` | WatcherFSM with ZoneEventFSM, and VmadmWatcherFSM with VmadmEventsFSM. |
| `VMSources` | NetAgent's start: the probe, and one of the two sources. |
| `VMFeed` | The abstract specification: what any source promises `updateVMs()`. |
| `VMSourcesProofs` | `VMSources` implements `VMFeed`; lookups keep their distance. |
| **Routes and resolvers** | |
| `NetworkFSM`, `InstanceFSM` | Two classes as operators on records, as `NicFSM`. |
| `RouteDiff` | The difference of two route tables that InstanceFSM computes, and what vmadm makes of it. |
| `VMNetworking` | One VM, its InstanceFSM, the NicFSMs of its NICs (the operators of `NicFSM`), their NetworkFSMs, vmadm, NAPI and the changefeed. |
| `MCVMNetworking` | Values for TLC. |
| `InstanceFSMProofs` | Route tables, lists of resolvers, and the operators of `InstanceFSM`: theorems and lemmas. |
| `VMNetworkingProofs` | The inductive invariant, types, and the order of vmadm runs. |
| `VMNetworkingSync` | The agent rests only when the VM has what its NICs bring. |
| **Link aggregations** | |
| `AggrFSM`, `AggrTracking` | The class, and one aggregation with the ServerFSM, the changefeed and NAPI. |
| `AggrTrackingProofs` | The inductive invariant and the theorems. |

What one group leaves open, another closes. `NicTracking` takes it that a list
of VMs may be old but that the last change of the node arrives in the end:
`VMSources` shows that (`FeedSpec`, `Delivered`). In `NicTracking` a NIC may
refresh at any time for its network's sake: `VMNetworking` says when it does.
`VMNetworking` takes it that the VM's NICs have their records:
`NicTracking` is about how they get them.

### State

`NicTracking`:

| Variable | In the code |
|---|---|
| `nic` | `app.nics[mac]`: the NicFSM; the record `Absent` when the table has none. `st` is the state it rests in, `local`, `remote`, `etag`, `released`, `needVm` its attributes, `armed` the `emitDelayed()`s pending, `call`/`reply` the `S.callback()` under way and its answer before delivery, `timer` the target of a `gotoStateTimeout(5000)`, `deleted` the flag of state create, `hears` whether `update`'s `refreshAsserted` listener is in force, `poke` an `owner.refresh()` made in this turn |
| `ref[h]` | what host `h` (a VM's InstanceFSM, or the ServerFSM) has for the MAC in its `nics`: not tracked, tracked without the NIC, the object of `app.nics`, or an object that has stopped |
| `watch`, `list`, `turn` | the watcher's pending lookup; the list it was given; `updateVMs()` running |
| `sysinfo` | ServerFSM has a refresh to do |
| `zone[h]` | the NIC as the node has it configured; a VM may also be gone or flagged `do_not_inventory` |
| `napi` | NAPI's record and its Etag |
| `wire` | requests nobody waits for any more, not yet served |
| `left` | what remains of the bounds |

`VMSources`:

| Variable | In the code |
|---|---|
| `past`, `told`, `empty` | the node's VMs through time; the version of the list last given to `updateVMs()`, or that it was empty |
| `watcher`, `lookups`, `refresh` | WatcherFSM's state, the `vmadm lookup` under way, `emitDelayed('refreshAsserted', REFRESH_DELAY)` |
| `gap`, `delayed` | when and by what the last lookup was started (for `LookupsSpaced`) |
| `events`, `vms`, `setup` | VmadmEventsFSM's state, `self.vms`, the second before `setup` is entered again |
| `update`, `ask` | `emitDelayed('vms-update', UPDATE_DELAY)`, VmadmWatcherFSM's `refreshAsserted` |
| `agent`, `failures`, `breaks`, `probes` | NetAgent's start; bounds |

`VMNetworking`: `nic[m]`, `net[n]`, `inst` are the FSMs of the VM's NICs, of
their networks and of the VM; `watch`, `list` as above; `runs` the vmadm updates
that go on though nobody waits; `zone`, `record[m]`, `network[n]` the VM and
NAPI's records. `AggrTracking`: `aggr`, `server` are the FSMs, `load` the sysinfo
being read, `node` and `napi` the aggregation on the node and in NAPI.

### Actions

| Action | Code |
|---|---|
| **NicTracking** | |
| `Immediate` | `state_init`'s setImmediate |
| `SetAsserted`, `RefreshAsserted` | `emitDelayed`'s timers fire; which states listen is in `EmitSet`, `EmitRefresh` |
| `WaitingRefresh` | the hour in state waiting, or the network's `changed` |
| `RetryTimer` | the five-second retries |
| `Callback` | an answer is delivered (`AfterGet`, `AfterCreate`, `AfterUpdate`, `AfterPut`, `AfterRemove`, `AfterReboot`, `AfterDelete`, `AfterReleaseGet`) and everything the code does in that turn |
| `PeriodicLookup`, `LookupVMs` | the watcher's timeout; vmadm reads the VMs |
| `BeginUpdateVMs`, `UpdateVM(v)` | `NetAgent.updateVMs` with that list, VM by VM: `UpdateWithNic`, `UpdateWithoutNic` (`InstanceFSM._update`), `HideVM` (`stop`), `RemoveVM` (`remove`, after all the listed VMs) |
| `UpdateServer` | `ServerFSM._update` |
| `FeedEvent`, `FeedRefresh` | `NetAgent._processNic`, `_cfbootstrap` |
| `Restart` | the process dies, or has died of a TypeError, and starts |
| `ServeCall`, `ServeAbandoned`, `FailCall`, `LoseAbandoned` | NAPI and vmadm serve a call; a call fails at the caller while its request may still arrive; a request is lost |
| `ZoneChange`, `NapiChange` | everyone else |
| **VMSources** | |
| `ProbeError`, `ProbeAgain`, `StartDefault`, `StartVmadmEvents` | `determineEventSource()` and the states `starting.*` of NetAgent |
| `LookupReads`, `AfterLookup`, `LookupFails` | `vmadm lookup` and `afterLookup`: `updateVMs()`, or another lookup at once |
| `Alert`, `WaitingTimeout`, `RefreshAsserted`, `Reschedule` | zoneevent, `/etc/zones` and InstanceFSMs; five minutes; what waiting and refresh do with `refreshAsserted` |
| `Ready`, `HandleEvent`, `StreamError`, `SetupTimeout` | `ready()`, `handleEvent()`, a stream that fails or breaks, a second later |
| `VmsUpdate`, `Refresh`, `EventsRefreshAsserted` | `updateVMs()` with `getCurrentVMs()`, debounced or asked for |
| **VMNetworking** | |
| `NicImmediate` … `NicCallback`, `NicHour`, `NicRetry`, `NicFails` | turns of the NicFSMs |
| `NetImmediate`, `NetCallback`, `NetFiveMinutes`, `NetRetry`, `NetFails`, `FeedNetwork` | turns of the NetworkFSMs |
| `NetChanged` | `changed` is emitted; the NICs that are in waiting and know the network hear it |
| `UpdateAsserted`, `NicStateChanged`, `VmCallback` | turns of the InstanceFSM: `update`, `update.wait`, `update.vm` |
| `UpdateVM`, `HideVM`, `RemoveVM`, `Restart` | `updateVMs()`, and the start after a TypeError |
| `PeriodicLookup`, `LookupVMs` | the watcher's timeout; vmadm reads the VM |
| `ServeVm`, `FailVm`, `EndRun` | vmadm update: it answers; it fails, before or after it changed the VM; it ends with nobody waiting |
| **AggrTracking** | |
| `AggrImmediate`, `SetAsserted`, `RefreshAsserted`, `RefreshTimer`, `Callback` | turns of the AggrFSM |
| `ServerImmediate`, `LoadReads`, `OnSysinfo`, `LoadFails`, `LoadAgain`, `ServerRefresh` | ServerFSM |
| `FeedEvent`, `FeedRefresh` | `NetAgent._processAggr`, `_cfbootstrap` |

### Modelling decisions

* *One turn, one action.* A state function that goes on to another state in the
  same turn is followed to the state where the object rests. In `NicTracking`,
  `updateVMs()` is the exception: one action per VM of the list, because the
  order of vmadm's list is not defined; everything that could observe it waits
  for its end.
* *Data.* Of the fields compared with NAPI: `owner` stands for
  `belongs_to_uuid` and `belongs_to_type`, `state` for `state`, `cfg` for
  `REMOTE_FIELDS`, `routes` for `VM_FIELDS`. The other `LOCAL_FIELDS`
  (`owner_uuid`, `cn_uuid`, `primary`) are compared and sent as `state` is, and
  are left out. In `VMNetworking` `routes` is a record of a route table (a
  function) and a list of resolvers (a sequence), and the operators on them are
  the code's. Of an aggregation only the owner matters: `LOCAL_FIELDS` and
  `REMOTE_FIELDS` of `aggr-fsm.js` are empty.
* *Etags* are opaque: a write gives the record some tag that nobody holds. With
  `HasEtags = FALSE`, NAPI is too old to send them.
* *wire* is a set: two identical abandoned requests count as one. GETs are not
  kept, for they change nothing.
* *Lists of VMs.* In `VMSources` a list is known by its version, the position
  in the history of the node's VMs. Time passes in ticks; a window of `Delay`
  ticks is the five seconds, and an emit or a lookup may come any time after it
  is due. An alert may come at any time and is never certain: zoneevent may be
  down, and not all changes touch a zone's state or file. vminfod sends a list
  when a stream starts and then every change, in order, until the stream
  breaks.
* *Lookup in NicTracking.* vmadm's answer is a snapshot delivered in a later
  turn. The load of sysinfo is one action: no VM list depends on it, and
  `_update` compares with what the previous load left. (In `AggrTracking` it is
  read, delivered and retried.)
* *Changefeed.* An event may come at any time the bound allows, whether NAPI's
  record has changed or not; this includes late, repeated, lost and merged
  events.
* *Answers in VMNetworking* are read when they are delivered, or just before a
  change of the network that they then lack (`ReadEarly`): every interleaving
  that a reader can tell apart, with far fewer states.
* *Long timers in VMNetworking.* The hour of a NIC, the five minutes of a
  network and those between two lookups may end at any time. When nothing else
  is due or under way, which is the usual case, they end as often as they like;
  in the midst of something as often as the bound `timers` says (`LongTimer`).
  Of the hour in `waiting`, only that it ends while the object is there is an
  action; that it starts anew with each entry is in the fairness (section 3).
* *Crash.* A TypeError is a state that only `Restart` leaves: `remove.nic`
  without a local NIC, `update` without a remote one, InstanceFSM's `update`
  without a VM, AggrFSM's `update` without a record.
* *vmadm.* Removing a NIC that is not there fails; a VM with
  `do_not_inventory` cannot be seen or, in `NicTracking`, updated. The end of a
  vmadm run makes its InstanceFSM call `refresh()`, whether the NicFSM still
  waits or not. A run started by a process that has died has the same effect on
  the watcher of the next one, through `/etc/zones` or vminfod.
* mooremachine's own assertions (`validTransitions`) are not modelled.

## 3. What is checked

The passing runs:

| Run | Question | Instance |
|---|---|---|
| `ownership` | Can a DELETE take a record that is not the released owner's? Does the agent rest only in agreement with the node? Is a POST ever overtaken by the DELETE? | One or two VMs with the MAC, 1 change of the node, 2 of NAPI |
| `lifecycle` | The same when a NIC is removed and put back, halted or destroyed while its record is made, given away or rewritten: is any change lost? | 1 VM; 2 changes of the node and 1 of NAPI; or 1 change, 1 failure or lost request, 1 restart, 1 event and a record that is still provisioning; or a record that is there, an event, and a change of NAPI, which may delete it |
| `recovery` | Do NAPI and the node agree in the end, and does the agent's copy, however often VMs are looked up? Does the record of a destroyed VM go away? | Records that are missing, not settled, the node's, the admin user's or someone else's: 2 failures and a restart; or a VM that halts, and a failure; or one that is destroyed, with a rewritten record and a failure |
| `sources` | What is `updateVMs()` told, and when? | Both sources, 2 VMs, 2 changes, a window of 2 ticks, 1 failed lookup, 1 broken stream, 1 failed probe |
| `networking` | Has the VM what its NICs bring when the agent rests? Are vmadm runs ordered? | 2 NICs on 2 networks; a change of a network, or a failure and an event, or a failure and a long timer in the midst of something, or a change of the VM, or a VM with `no_nic_resolvers` |
| `routes_arrive` | Do the routes of a network get to the VM? | 2 NICs on 1 network; one change of it, or a failure and an event, or a failure and a long timer in the midst of something |
| `aggr` | Is an aggregation that the agent tracks the node's in NAPI? | 1 change of the node, 1 of NAPI, 2 failures, 2 events |

The bounds limit only what *others* do and what fails: the agent itself may
take as many steps as it can. Each change by another party opens one window
between a copy and what it is a copy of; two of them at once are enough for a
copy to be wrong in a way that the first repair does not see, and one failure
with one late request is enough for a retry to meet what it retries. Bounds are
part of the start (`Starts`), so that one run checks several worlds, each with
what it needs. Five Etags are more than the object, its answer, NAPI and the
DELETEs on their way hold together in these runs, so that NAPI always has
another one. Two ticks are enough for an emit to fall inside the window, at its
end and after it; the route tables have two destinations and two gateways, so
that a route can be right, wrong, missing or too many, and the NICs' routes can
clash; resolvers overlap and come in two orders.

Deadlock is not an error in `networking`, `routes_arrive` and `aggr`: an agent
whose VM is gone, or a node without the aggregation, has nothing left to do.

Properties:

* `TypeOK` of each module: the type invariant.
* `DeletesReleasedOnly`: whatever DELETE is on its way, waited for or
  abandoned, even by a process that has died, would if it were served now only
  take a record of the owner that was released, in state running or stopped.
* `RestsInSync`: when nothing is pending and the object waits with a NIC that
  its host holds, its copy of NAPI's record has the host's state and owner, and
  the VM has the record's configuration.
* `PostBeforeDelete`: never a POST and a DELETE on their way together.
* `Converges` (liveness): once the others stop, and unless the VMs are looked up
  every five minutes for ever, every host that has the NIC agrees with NAPI's
  record, for good. The exception, `Disputed`, is in the code: the node's own
  NIC is not taken away when its record is someone else's.
* `Settles` (liveness): once the others stop, the agent's copy of the record and
  every host that has the NIC agree, for good, lookups or not.
* `ReleaseCompletes` (liveness): a destroyed VM that was tracked does not keep a
  settled record.
* `FeedSpec` (refinement): `VMSources` implements `VMFeed` with the number of
  versions for `node`. Each list is empty or a version, never an older one than
  before, whatever is late, repeated or broken.
* `Delivered` (liveness): once the VMs stop changing, the agent knows what they
  are. This holds without any alert, through the five-minute timeout.
* `LookupsSpaced`: a lookup that follows one started by an event starts a whole
  window later.
* `RestsRouted`: when nothing is pending, the agent knows the record of each NIC
  of a running VM, and the VM has the routes and resolvers of its NICs as the
  agent last saw them (with `no_nic_resolvers`, the routes).
* `VmUpdatesOrdered`: the InstanceFSM lets go of a vmadm run only with the VM.
* `RoutesArrive` (liveness): unless lookups go on for ever, a running VM has, in
  the end, the routes and resolvers that NAPI has for its NICs' networks;
  without the changefeed, with missed `changed` events and with failed calls.
* `KnownRoutesArrive` (liveness): lookups or not, a running VM has, in the end,
  the routes and resolvers that its NICs were last seen to bring.
* `RestsAsOwner`, `AggrConverges`: the same for an aggregation, at rest and in
  the end.

### Fairness

The specifications named `FairSpec` assume that the event loop reaches every
callback, event and timer that stays ready. In `NicTracking` strong fairness for
these, because a running turn disables all the others again and again; weak
fairness suffices for `Immediate` and for the VMs inside `updateVMs()`, which
nothing disables. Steps that are never ready together (a call's service, its
callback, its retry) share one condition, which asks for less than one each. In
`VMNetworking` one weak fairness condition covers all that is due or under way;
in the midst of it long timers fire a bounded number of times only, and strong
fairness says that a network's five minutes end: only a refresh starts them
anew. In `VMSources` each source's timers and
callbacks are weakly fair, and time passes. NAPI and vmadm answer calls, also
abandoned ones; vminfod's stream becomes ready and sends its events; SMF restarts
a dead agent. Nothing is assumed of operators, other writers of NAPI, the
changefeed, alerts, the end of a VM's changes, or failures (except that they are
bounded).

The hour of a NIC in `waiting` (`nic-fsm.js:201`) has no fairness of its own. It
starts anew whenever the object enters `waiting`, and each `setAsserted` makes it
do so; `updateVMs()` arms one for each NIC of each VM it is given. What is
assumed is `HourPasses`: an object does not stay in `waiting` for ever unless it
gets one `setAsserted` after the other. WatcherFSM looks up the VMs every five
minutes, VmadmWatcherFSM does not; so `PeriodicLookup` may happen for ever and
need not, and with it the hour may pass or never pass. `Converges` and
`RoutesArrive` are about the second source: what is wrong without anything
armed, due or under way (NAPI's record was rewritten, a `changed` was missed) is
found by the hour only. `Settles`, `KnownRoutesArrive` and `ReleaseCompletes`
need no hour and hold for both. AggrFSM's hour does pass: sysinfo is not loaded
periodically.

### What the code does not keep

Five runs are expected to fail; each checks one sentence of a comment or a test
against the model (details in `PROJECT.json`, "findings").

| Run | What happens |
|---|---|
| `agent_dies` | An object made by a changefeed event, without a local NIC and without a record, goes from `create` to `waiting`; its first local NIC takes it to `update`, which dereferences the missing record: the process dies. |
| `release_lost` | POST fails, the NIC is removed in the next five seconds: the release is forgotten and the record is created. |
| `put_wins` | DELETE racing a PUT that settles a provisioning record: the DELETE is skipped for good. |
| `vms_emptied` | The stream of vmadm events breaks: until the next one is ready `updateVMs()` may be given the empty list, and every VM is removed. |
| `hour_starves` | A record is reconfigured and no event tells: each lookup of the VMs starts the hour in `waiting` anew, and the record is not fetched again, where the comment at `nic-fsm.js:194` has it refreshed periodically without a changefeed. (`RoutesArrive` fails likewise for a NIC that missed `changed`, if lookups go on for ever.) |

The passing runs choose starts and environments in which the first three do not
matter (`RestsInSync` is checked without a failure, or with one move only; the
worlds that check `Converges` never put a NIC back that was removed), and hold
in spite of everything else. In `lifecycle` the agent does die of its TypeErrors,
and restarts.

More departures are visible in the models and have no run of their own:

* The object of `agent_dies` may also get a 404 on a later refresh and go to
  `remove`, which dereferences its local NIC (`nic-fsm.js:550`):
  `StatesHaveTheirNics` excludes both, `agent_dies` shows the one and the agent
  dies of the other in `lifecycle`. InstanceFSM has the same kind of
  crash when `updateAsserted` is emitted after `remove()` (`inst-fsm.js:116`),
  AggrFSM when a local aggregation is set on an object without a record
  (`aggr-fsm.js:233`). The models have all of them as states that only
  `Restart` leaves.
* A NIC object that stopped stays in its InstanceFSM: when the NIC is plumbed
  again nobody tracks it (`inst-fsm.js:312`).
* After a failed PUT the retry compares only `LOCAL_FIELDS`: with two changes of
  the VM in the five seconds, the `setAsserted` that was ignored is lost
  (`nic-fsm.js:515`).
* A `refreshAsserted` takes the object out of `update.napi` while its PUT is
  under way, so that a second PUT may be sent (the comment at `nic-fsm.js:467`
  says PUTs are ordered).
* The VM to reboot in `remove.reboot` is looked up again after the removal, when
  another VM with the same MAC may have set its NIC.
* A VM that is destroyed while the agent is down keeps its record: only VMs in
  the table of the running process are removed (`net-agent.js:286`).
* A failed lookup is repeated without delay (`watcher-fsm.js:239`).
* A VM with `no_nic_resolvers` gets an empty list of resolvers with its next
  change of routes (`inst-fsm.js:240`; the comment at line 300 wants its own
  honoured).
* A removed aggregation stays in NAPI: `releaseAggr()` has no caller.

## 4. What is proved

Every safety and action property of a passing run is a theorem, for all values
of the constants that satisfy the assumptions; TLC evaluates those in the runs.
Three modules need more than the constants' types, and say so in the theorem.

### One NIC and its record

`NicTrackingProofs`, for every set of VMs, configurations, routes and Etags,
every start, every move others may make and every bound:

* `TypeCorrect`: `Spec => []TypeOK`.
* `DeleteSafety`: `Spec => []DeletesReleasedOnly`.
* `Invariant`: `Spec => []IInv`, from which both follow.

Assumptions: `OwnersDistinct` (uuids of VMs, node, admin and others differ),
`HasEtagsIsBoolean`, `NoneIsNothing` and `NoneIsNoZone` (null is no value),
`StartAssumption` and `MovesAssumption` (the constants have their types).

`DeletesReleasedOnly` is not inductive: it says nothing of how the object got
the Etag it sends. `IInv` adds

* `FSMOk(nic)`: what each state relies on: a reply or a timer only where the
  code awaits one, an awaited call of the kind that the state makes, a remote
  NIC whenever there is an Etag or a DELETE under way, a local NIC in the
  states that read it;
* `Copies`: *an Etag names one version of the record*: if the object, or an
  undelivered answer, has the Etag that NAPI has now, it has NAPI's record too;
* `DeleteOk(c)` for every abandoned DELETE: if its Etag is NAPI's, then NAPI's
  record belongs to the owner it was sent for and is settled.

The argument: a DELETE is sent only when the copy belongs to the released owner
and is settled, with that copy's Etag, so by `Copies` it is harmless if the
Etag still matches. Every write of the record takes a fresh Etag, so it can
only make a DELETE miss. Each action that ends a turn of the agent goes through
`SettleAll`; the lemmas show that each operator of `NicFSM` returns a good
object and that abandoning a call keeps the DELETE's guarantee.

`NicTrackingSync`, for the same constants, about agents to which certain things
do not happen. The hypotheses are about the starts and moves only. The run
`ownership` satisfies those of `RestsAgreed`, and those of `PostsPrecedeDeletes`
but for hidden VMs, for which its one move is too little to matter.

* `PostsPrecedeDeletes`: `Spec => []PostBeforeDelete` if no call fails
  (`NoCallFails`), the agent is not killed (`NoKills`; a TypeError may end it) and
  no VM gets `do_not_inventory` (`NoneHidden`). Each hypothesis is needed: a
  POST whose caller saw a failure, whose process died, or whose object was
  stopped with its VM may be served at any later time. Without these the only
  POST or DELETE there can be is the one the object awaits, and it leaves the
  state only with the answer; the invariant, `Lossless`, says that none is
  abandoned.
* `RestsAgreed`: `Spec => []RestsInSync` if no call fails and the node itself
  never has the MAC of a VM (`NotOnServer`). A failed PUT is retried with the
  state and owner alone, so that a change of the configuration may be forgotten
  (section 3); and the ServerFSM does not bring down what NAPI has (its
  `updateNIC` does nothing) and hears of no change of its NICs between two
  refreshes. The agent may be killed and restarted at any time.

`RestsInSync` speaks of the state at rest only; its invariant, `SyncInv`, says
for every state who still owes the change:

* the list that the watcher gave is what the node has now, or another lookup is
  due;
* the object's local NIC is what its host has now, or a list, a turn of
  `updateVMs()` or a vmadm run whose end will ask for a list is on its way;
* the record of an object in waiting agrees with its local NIC, or a
  `setAsserted` is armed; the configuration may differ if the host is to be
  looked at again;
* no PUT fails, so that `update.napi` is left only through `update`, which
  compares the configuration too.

The lemmas of `NicFSMProofs` supply the third part for each state: what an
answer, a timer or an event leaves undone, it leaves armed.

### Routes and resolvers

`InstanceFSMProofs`, for all route tables, NICs and lists of resolvers:

* `UpdateReachesTarget`: vmadm with the computed difference gives the VM the
  target, whatever routes it had.
* `NothingToSetOrRemove`: the difference is empty only if the routes are the
  target's.
* `EveryResolverOnce`: the resolvers of the payload are those of all the NICs,
  all of them and no others, each once. `addResolver` in two nested loops is a
  recursive function of the index; the proof takes it that the set of indices
  up to which the claim holds has 0 and, with each number, the next
  (`NatInduction` has an operator as parameter, so a set takes its place).

`VMNetworkingProofs` and `VMNetworkingSync`, for any NICs, networks, routes,
resolvers, starts, bounds, changes and failures, without further hypotheses:

* `NetworkingTyped`: `Spec => []TypeOK`.
* `UpdatesOrdered`: `Spec => VmUpdatesOrdered`. The InstanceFSM awaits a run only
  in state `update.vm`, which it leaves with the answer or with the VM.
* `NetworkingRests`: `Spec => []RestsRouted`.

Assumptions: `NicOrderIsASequence`; `NoneIsNoVm`, `NoneIsNoRecord` and the
assumptions of `NicFSM` (null is no value; uuids differ); `NetworkingAssumption` (the
constants have their types, there is a configuration and an Etag, one VM).

The invariant `IInv` has, besides the types, `InstOk` (what each state of the
InstanceFSM relies on), `NicOk` (a NIC is the VM's, as local and as remote NIC
and in each call and answer, so that its NicFSM has nothing to push up but the
state) and `RecordOk` (a record is missing only when the network, and so the VM,
is gone). It is what rules out the answers that would take a NicFSM out of the
states in which the VM's routes can be read.

`RestsRouted` needs `SyncInv`, which adds to `IInv`

* `Aware`: the list to be handled is the VM as it is, and the InstanceFSM's VM
  is the VM as it is when no list is left, unless a lookup is due;
* `Compares`: if the InstanceFSM will hear of nothing more (no lookup due, no
  list, no `updateAsserted` armed, none that state `update.vm` has put off), then
  it has compared the VM with what the NICs bring *now* (`Compared`): in waiting
  there is nothing to do, in `update.wait` a NIC is without record, in
  `update.vm` the payload is the one it would send now and there is something
  to do; and no successful answer is due.

The argument: a NIC's change asks for a list (`owner.refresh()`), a list arms
`updateAsserted`, and each state either compares on hearing it or sets `updated`.
The step that is not obvious is a successful vmadm run (`ServeSync`): if it
changed the VM, a lookup is due; if it did not, then by `UpdateReachesTarget` the
VM had the target before, and the InstanceFSM, which knows the VM as it is,
would not have asked.

### Where the lists come from, and aggregations

`VMSourcesProofs`, for every set of VMs and configurations, every window and
bound:

* `FeedImplemented`: `Spec => FeedSpec`, the refinement of `VMFeed`: the start
  maps to its start, every step to `Change`, `Tell`, `TellNothing` or a stutter.
* `LookupDistance`: `Spec => LookupsSpaced`.
* `SourcesTypeCorrect` and `SourcesInvariant`, from which they follow.

The refinement needs that no lookup that has read, and no list that
VmadmEventsFSM holds, is older than the last list told (`WatcherOk`, `EventsOk`),
and that only one of the two sources was made (`OneSource`). The distance
needs `Windowed`: what an armed `refreshAsserted` still waits and what has passed
since the last emit make up a window. The second emit is what `emitDelayed()`
spaces; the invariant carries that over to the lookups (`delayed => gap >=
refresh.since`).

`AggrTrackingProofs`: `AggrTypeCorrect` and `AggrRestsAsOwner`, for every bound,
from `AggrInvariant`: an object that waits with a local aggregation has seen a
record of the node, *unless its `setAsserted` is still to come*, which is what
makes the property inductive.

### Only model-checked

* The liveness properties (`Converges`, `Settles`, `ReleaseCompletes`,
  `Delivered`, `RoutesArrive`, `KnownRoutesArrive`, `AggrConverges`), which are
  out of the prover's reach.
* `RestsInSync` and `PostBeforeDelete` in worlds with failures, kills or hidden
  VMs. There is no theorem to be had: neither holds in every environment that
  the constants allow.
* The counterexamples.

## 5. What is not modelled

* The stop of NetAgent and of its watchers: only the main program of tests uses
  it, and nothing is kept that an orderly stop would save.
* The release of aggregations (`AggrFSM.releaseFrom`, `state_release`),
  `InstanceFSM.addNIC`, `restartAsserted` of VmadmEventsFSM: they have no caller.
* The formatting of VNICs, pNICs and aggregations beyond what is compared, the
  command line, logging, the dummy agent, packaging: I/O and data layout, with
  no order of events to get wrong.
* `internal_metadata`: whether a VM has `no_nic_resolvers` is fixed in the model.
  The code does not watch the field.
* Events of vminfod that contradict its list (a create of a VM that is in it):
  assertions of the code about a program outside of it.
* Several MACs whose objects affect one another other than through the VM's
  routes: a swap of two NICs between VMs is two instances of `NicTracking`.

What would come next, in this order: an abstract specification of `NicTracking`
(a record, a NIC, who may delete) and its refinement; what of `RestsInSync` is
left after a failed PUT, as a property and a theorem; the safety halves of the
liveness properties (that whatever is not in order is armed, due or under way).
