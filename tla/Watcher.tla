------------------------------- MODULE Watcher -------------------------------
(***************************************************************************)
(* WatcherFSM and its ZoneEventFSM (lib/watcher-fsm.js), the source of VM  *)
(* information on platforms without vminfod: vmadm lookups, started by     *)
(* zoneevent, by changes under /etc/zones and every five minutes.          *)
(***************************************************************************)
EXTENDS VMHistory, EmitDelayed

CONSTANT Failures  \* bound: failed runs of vmadm

ASSUME FailuresAssumption == Failures \in Nat

VARIABLES
  watcher,  \* the FSM's state; "off" when it was not made
  lookups,  \* runs of vmadm lookup whose callback is awaited: the version
            \* each has read, 0 if it has not read yet
  refresh,  \* emitDelayed('refreshAsserted', REFRESH_DELAY)
  gap,      \* ticks since the last run was started, Delay at most
  delayed,  \* that run was started by refreshAsserted
  failures  \* what is left of Failures

watcherVars == <<watcher, lookups, refresh, gap, delayed, failures>>

WatcherTypeOK ==
  /\ watcher \in {"off", "refresh", "waiting"}
  /\ lookups \in SUBSET (0 .. now)
  /\ refresh \in Event
  /\ gap \in 0 .. Delay
  /\ delayed \in BOOLEAN
  /\ failures \in Nat

WatcherInit ==
  /\ watcher = "off"
  /\ lookups = {}
  /\ refresh = NeverEmitted
  /\ gap = Delay
  /\ delayed = FALSE
  /\ failures = Failures

\* state_refresh: a run is started, by refreshAsserted or not.
EnterRefresh(byEvent) ==
  /\ watcher' = "refresh"
  /\ gap' = 0
  /\ delayed' = byEvent

\* start()
WatcherStart ==
  /\ watcher = "off"
  /\ EnterRefresh(FALSE)
  /\ lookups' = {0}
  /\ UNCHANGED <<refresh, failures, history>>

\* vmadm reads the VMs.
LookupReads ==
  /\ 0 \in lookups
  /\ lookups' = (lookups \ {0}) \cup {now}
  /\ UNCHANGED <<watcher, refresh, gap, delayed, failures, history>>

\* afterLookup(null, vms)
AfterLookup ==
  /\ watcher = "refresh"
  /\ \E i \in lookups \ {0} : UpdateVMs(i) /\ lookups' = lookups \ {i}
  /\ watcher' = "waiting"
  /\ UNCHANGED <<refresh, gap, delayed, failures>>

\* afterLookup(err): the next run is started at once.
LookupFails ==
  /\ watcher = "refresh"
  /\ failures > 0 /\ failures' = failures - 1
  /\ \E i \in lookups : lookups' = (lookups \ {i}) \cup {0}
  /\ EnterRefresh(FALSE)
  /\ UNCHANGED <<refresh, history>>

\* A zone_state event, a change under /etc/zones, or refresh() by an
\* InstanceFSM.  Nothing says that a change of a VM causes one: the zoneevent
\* process may be down, and not all changes touch a zone's state or its file.
Alert ==
  /\ watcher # "off"
  /\ refresh' = EmitDelayed(refresh, Delay)
  /\ UNCHANGED <<watcher, lookups, gap, delayed, failures, history>>

\* STATE_WATCHER_TIMEOUT
WaitingTimeout ==
  /\ watcher = "waiting"
  /\ refresh' = EmitDelayed(refresh, Delay)
  /\ UNCHANGED <<watcher, lookups, gap, delayed, failures, history>>

\* refreshAsserted is emitted while the watcher waits.
RefreshAsserted ==
  /\ Due(refresh)
  /\ watcher = "waiting"
  /\ refresh' = Emitted(refresh)
  /\ EnterRefresh(TRUE)
  /\ lookups' = {0}
  /\ UNCHANGED <<failures, history>>

\* refreshAsserted is emitted while a lookup runs: refresh() once more.
Reschedule ==
  /\ Due(refresh)
  /\ watcher = "refresh"
  /\ refresh' = EmitDelayed(Emitted(refresh), Delay)
  /\ UNCHANGED <<watcher, lookups, gap, delayed, failures, history>>

\* Time passes.
WatcherElapse ==
  /\ refresh' = Elapse(refresh)
  /\ gap' = IF gap = Delay THEN Delay ELSE gap + 1
  /\ UNCHANGED <<watcher, lookups, delayed, failures>>
=============================================================================
