------------------------------ MODULE VMSources ------------------------------
(***************************************************************************)
(* NetAgent's start (lib/net-agent.js): determineEventSource() probes for  *)
(* vminfod, one of the two sources of VM information is made and started,  *)
(* and from then on calls updateVMs().  Seen from there both are a VMFeed. *)
(***************************************************************************)
EXTENDS Watcher, VmadmEvents

CONSTANT ProbeErrors  \* bound: probes that end with an error

ASSUME ProbeErrorsAssumption == ProbeErrors \in Nat

VARIABLES
  agent,  \* probing, about to probe again, or running
  probes  \* what is left of ProbeErrors

agentVars == <<agent, probes>>
vars == <<history, watcherVars, eventsVars, agentVars>>

TypeOK ==
  /\ past \in Seq([VMs -> Entries]) /\ past # <<>>
  /\ told \in 0 .. now
  /\ empty \in BOOLEAN
  /\ WatcherTypeOK
  /\ EventsTypeOK
  /\ agent \in {"probing", "retry", "running"}
  /\ probes \in Nat

Init ==
  /\ HistoryInit
  /\ WatcherInit
  /\ EventsInit
  /\ agent = "probing"
  /\ probes = ProbeErrors

\* The probe's stream reports an error: state_starting.determineEventSource is
\* entered again in a second.
ProbeError ==
  /\ agent = "probing"
  /\ probes > 0 /\ probes' = probes - 1
  /\ agent' = "retry"
  /\ UNCHANGED <<history, watcherVars, eventsVars>>

ProbeAgain ==
  /\ agent = "retry"
  /\ agent' = "probing"
  /\ UNCHANGED <<probes, history, watcherVars, eventsVars>>

\* The probe is not ready, vminfod being missing or down, or it is: the
\* states starting.startWatcher and starting.watchfeeds are passed.
StartDefault ==
  /\ agent = "probing" /\ agent' = "running"
  /\ WatcherStart
  /\ UNCHANGED <<probes, eventsVars>>

StartVmadmEvents ==
  /\ agent = "probing" /\ agent' = "running"
  /\ EventsStart
  /\ UNCHANGED <<probes, watcherVars>>

Tick ==
  /\ WatcherElapse
  /\ EventsElapse
  /\ UNCHANGED <<history, agentVars>>

\* A step of one component, which leaves the others alone.
OfWatcher(step) == step /\ UNCHANGED <<eventsVars, agentVars>>
OfEvents(step) == step /\ UNCHANGED <<watcherVars, agentVars>>
OfNode(step) == step /\ UNCHANGED <<watcherVars, eventsVars, agentVars>>

Next ==
  \/ ProbeError \/ ProbeAgain \/ StartDefault \/ StartVmadmEvents
  \/ OfWatcher(LookupReads) \/ OfWatcher(AfterLookup)
  \/ OfWatcher(LookupFails) \/ OfWatcher(Alert)
  \/ OfWatcher(WaitingTimeout) \/ OfWatcher(RefreshAsserted)
  \/ OfWatcher(Reschedule)
  \/ OfEvents(Ready) \/ OfEvents(StreamError) \/ OfEvents(SetupTimeout)
  \/ OfEvents(HandleEvent) \/ OfEvents(VmsUpdate) \/ OfEvents(Refresh)
  \/ OfEvents(EventsRefreshAsserted)
  \/ OfNode(Change)
  \/ Tick

Spec == Init /\ [][Next]_vars

\* Time passes; the event loop gets to each timer and callback that stays
\* ready; vmadm answers, and vminfod's stream becomes ready and sends its
\* events.  No alert is ever certain, and the VMs need not change.
Fairness ==
  /\ WF_vars(ProbeAgain)
  /\ WF_vars(StartDefault \/ StartVmadmEvents)
  /\ WF_vars(Tick)
  /\ WF_vars(OfWatcher(LookupReads))
  /\ WF_vars(OfWatcher(AfterLookup))
  /\ WF_vars(OfWatcher(WaitingTimeout))
  /\ WF_vars(OfWatcher(RefreshAsserted))
  /\ WF_vars(OfWatcher(Reschedule))
  /\ WF_vars(OfEvents(Ready))
  /\ WF_vars(OfEvents(SetupTimeout))
  /\ WF_vars(OfEvents(HandleEvent))
  /\ WF_vars(OfEvents(VmsUpdate))
  /\ WF_vars(OfEvents(EventsRefreshAsserted))

FairSpec == Spec /\ Fairness

-----------------------------------------------------------------------------
(* What updateVMs() is promised.                                           *)

\* Whichever source runs, the lists it hands over are versions of the node's
\* VMs in their order, be a lookup slow or repeated and a stream late or
\* broken.  (The theorem FeedImplemented says so for every constant.)
Feed == INSTANCE VMFeed WITH node <- Len(past)
FeedSpec == Feed!Spec

\* What a version, or the empty list, makes the agent track of v.
Tracked(i, v) ==
  IF past[i][v].has = "listed" THEN past[i][v] ELSE [has |-> "gone"]
Told(v) == IF told = 0 \/ empty THEN [has |-> "gone"] ELSE Tracked(told, v)

\* No change is lost for good: once the VMs stop changing, the agent gets to
\* know what they are, though alerts are missed and events debounced, ignored
\* or interrupted by a new stream.
Delivered == <>[](\A v \in VMs : Told(v) = Tracked(now, v))

\* "We ensure that all `vmadm lookup` runs are separated by at least 5 seconds"
\* (watcher-fsm.js): a run that follows one started by the same event does not
\* start sooner, however alerts, timeouts and slow runs meet.  (A failed run is
\* repeated at once, and the one of start() counts for nothing.)
LookupsSpaced ==
  [][(watcher = "waiting" /\ watcher' = "refresh" /\ delayed)
        => gap = Delay]_vars

-----------------------------------------------------------------------------
(* What a comment promises and the code does not keep.                     *)

\* "An internal object (self.vms) is maintained by this state which contains
\* all VMs on the system": the list that updateVMs() was last given has every
\* VM that the list before had and that has been there ever since.
ListHasAllVMs ==
  (empty /\ told # 0) =>
    \A v \in VMs : \E i \in told .. now : past[i][v].has # "listed"
=============================================================================
