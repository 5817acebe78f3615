---------------------------- MODULE VmadmEvents ----------------------------
(***************************************************************************)
(* VmadmWatcherFSM and its VmadmEventsFSM (lib/vmadm-watcher-fsm.js), the  *)
(* source of VM information on platforms with vminfod: a list of the VMs   *)
(* when the stream of `vmadm events` is ready, an event for each change    *)
(* after it.                                                               *)
(***************************************************************************)
EXTENDS VMHistory, EmitDelayed

CONSTANT Breaks  \* bound: streams that fail to start, or break

ASSUME BreaksAssumption == Breaks \in Nat

VARIABLES
  events,  \* the VmadmEventsFSM's state; "off" when it was not made
  vms,     \* self.vms: the version of the VMs it holds; 0: {}
  setup,   \* gotoStateTimeout(1000, 'setup') is running: the stream is dead
  update,  \* emitDelayed('vms-update', UPDATE_DELAY)
  ask,     \* emitDelayed('refreshAsserted', 0) of the VmadmWatcherFSM
  breaks   \* what is left of Breaks

eventsVars == <<events, vms, setup, update, ask, breaks>>

EventsTypeOK ==
  /\ events \in {"off", "setup", "running"}
  /\ vms \in 0 .. now
  /\ setup \in BOOLEAN
  /\ update \in Event /\ ask \in Event
  /\ breaks \in Nat

EventsInit ==
  /\ events = "off"
  /\ vms = 0
  /\ setup = FALSE
  /\ update = NeverEmitted /\ ask = NeverEmitted
  /\ breaks = Breaks

\* state_setup: {} for the VMs, and a new stream.
EnterSetup ==
  /\ events' = "setup"
  /\ vms' = 0
  /\ setup' = FALSE

\* start()
EventsStart ==
  /\ events = "off"
  /\ EnterSetup
  /\ UNCHANGED <<update, ask, breaks, history>>

\* Mutant of Ready: a new stream starts from the list of the first.
ReadyWithFirstList ==
  /\ events = "setup" /\ ~setup
  /\ vms' = 1
  /\ update' = EmitDelayed(update, Delay)
  /\ events' = "running"
  /\ UNCHANGED <<setup, ask, breaks, history>>

\* ready(null, obj): the list of all VMs, as it was when vminfod sent it.
Ready ==
  /\ events = "setup" /\ ~setup
  /\ vms' = now
  /\ update' = EmitDelayed(update, Delay)
  /\ events' = "running"
  /\ UNCHANGED <<setup, ask, breaks, history>>

\* ready(err), or the stream's 'error' in state setup or running.
StreamError ==
  /\ events # "off" /\ ~setup
  /\ breaks > 0 /\ breaks' = breaks - 1
  /\ setup' = TRUE
  /\ UNCHANGED <<events, vms, update, ask, history>>

\* The second is over.
SetupTimeout ==
  /\ setup
  /\ EnterSetup
  /\ UNCHANGED <<update, ask, breaks, history>>

\* Mutant of NeedsUpdate: events with do_not_inventory are but remembered.
NeedsUpdateUnlessHidden(old, new) == new.has # "hidden" /\ old # new

\* An event that turns old into new is worth an update of the agent.
\* WATCHED_FIELDS are what two listed entries may differ in.
NeedsUpdate(old, new) ==
  IF new.has = "hidden" THEN old.has = "listed" ELSE old # new

\* handleEvent(ev): the stream's events come in the order of the changes.
HandleEvent ==
  /\ events = "running" /\ ~setup
  /\ vms < now
  /\ vms' = vms + 1
  /\ update' = IF \E v \in VMs : /\ past[vms][v] # past[vms + 1][v]
                                 /\ NeedsUpdate(past[vms][v], past[vms + 1][v])
               THEN EmitDelayed(update, Delay) ELSE update
  /\ UNCHANGED <<events, setup, ask, breaks, history>>

\* 'vms-update' is emitted.
VmsUpdate ==
  /\ Due(update)
  /\ update' = Emitted(update)
  /\ UpdateVMs(vms)
  /\ UNCHANGED <<events, vms, setup, ask, breaks>>

\* refresh() by an InstanceFSM: there has been a list.
Refresh ==
  /\ events # "off" /\ told # 0
  /\ ask' = EmitDelayed(ask, 0)
  /\ UNCHANGED <<events, vms, setup, update, breaks, history>>

\* The VmadmWatcherFSM's refreshAsserted is emitted.
EventsRefreshAsserted ==
  /\ Due(ask)
  /\ ask' = Emitted(ask)
  /\ UpdateVMs(vms)
  /\ UNCHANGED <<events, vms, setup, update, breaks>>

\* Time passes.
EventsElapse ==
  /\ update' = Elapse(update)
  /\ ask' = Elapse(ask)
  /\ UNCHANGED <<events, vms, setup, breaks>>
=============================================================================
