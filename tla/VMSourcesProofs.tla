--------------------------- MODULE VMSourcesProofs ---------------------------
(***************************************************************************)
(* VMSources implements VMFeed and keeps lookups their distance, for every *)
(* set of VMs, delay and bound.                                            *)
(***************************************************************************)
EXTENDS VMSources, SequenceTheorems, TLAPS

(* The invariant. *)

\* An armed refreshAsserted will not be emitted before the window is over.
Windowed == refresh.pending => refresh.wait + refresh.since >= Delay

WatcherOk ==
  /\ watcher = "off" => ~refresh.pending
  /\ watcher # "refresh" => lookups = {}
  /\ \A i, j \in lookups : i = j
  /\ \A i \in lookups : i # 0 => told <= i
  /\ Windowed
  /\ delayed => gap >= refresh.since

EventsOk ==
  /\ events = "off" => vms = 0 /\ ~setup /\ ~update.pending /\ ~ask.pending
  /\ events = "running" => vms # 0
  /\ vms # 0 => told <= vms

OneSource ==
  /\ agent # "running" => watcher = "off" /\ events = "off"
  /\ watcher = "off" \/ events = "off"

IInv == TypeOK /\ WatcherOk /\ EventsOk /\ OneSource
-----------------------------------------------------------------------------
(* emitDelayed() *)

\* What emitDelayed(), its timer and time make of a record is a record.
LEMMA EventTypes ==
  ASSUME NEW e \in Event, NEW delay \in {0, Delay}
  PROVE  /\ EmitDelayed(e, delay) \in Event
         /\ Emitted(e) \in Event
         /\ Elapse(e) \in Event
<1>1. e.pending \in BOOLEAN /\ e.wait \in 0 .. Delay /\ e.since \in 0 .. Delay
  BY DEF Event
<1>2. EmitDelayed(e, delay) \in Event
  <2> DEFINE w == IF delay > e.since THEN delay - e.since ELSE 0
  <2>1. w \in 0 .. Delay
    BY <1>1, DelayAssumption
  <2>2. [pending |-> TRUE, wait |-> w, since |-> e.since] \in Event
    BY <1>1, <2>1 DEF Event
  <2> QED BY <2>2 DEF EmitDelayed
<1>3. Emitted(e) \in Event
  BY DelayAssumption DEF Emitted, Event
<1>4. Elapse(e) \in Event
  <2> DEFINE w == IF e.wait = 0 THEN 0 ELSE e.wait - 1
             s == IF e.since = Delay THEN Delay ELSE e.since + 1
  <2>1. w \in 0 .. Delay /\ s \in 0 .. Delay
    BY <1>1, DelayAssumption
  <2>2. [pending |-> e.pending, wait |-> w, since |-> s] \in Event
    BY <1>1, <2>1 DEF Event
  <2> QED BY <2>2 DEF Elapse
<1> QED BY <1>2, <1>3, <1>4

\* Arming, emitting and time keep the window.
LEMMA EventWindow ==
  ASSUME NEW e \in Event, e.pending => e.wait + e.since >= Delay
  PROVE  /\ LET f == EmitDelayed(e, Delay)
            IN  f.pending => f.wait + f.since >= Delay
         /\ LET f == Elapse(e) IN f.pending => f.wait + f.since >= Delay
         /\ LET f == EmitDelayed(Emitted(e), Delay)
            IN  f.pending => f.wait + f.since >= Delay
         /\ EmitDelayed(e, Delay).since = e.since
BY DelayAssumption DEF Event, EmitDelayed, Emitted, Elapse

LEMMA NeverEmittedType == NeverEmitted \in Event /\ ~NeverEmitted.pending
BY DelayAssumption DEF NeverEmitted, Event

-----------------------------------------------------------------------------
LEMMA InitInv == Init => IInv
<1> SUFFICES ASSUME Init PROVE IInv
  OBVIOUS
<1>1. past \in Seq([VMs -> Entries]) /\ Len(past) = 1 /\ past # <<>>
  BY DEF Init, HistoryInit
<1>a. now = 1 /\ 0 \in 0 .. now
  BY <1>1 DEF now
<1>2. TypeOK
  <2>1. /\ told \in 0 .. now /\ empty \in BOOLEAN
        /\ agent \in {"probing", "retry", "running"} /\ probes \in Nat
    BY <1>a, ProbeErrorsAssumption DEF Init, HistoryInit
  <2>2. WatcherTypeOK
    <3>1. lookups \in SUBSET (0 .. now)
      BY DEF Init, WatcherInit
    <3>2. gap \in 0 .. Delay /\ failures \in Nat
      BY DelayAssumption, FailuresAssumption DEF Init, WatcherInit
    <3> QED BY <3>1, <3>2, NeverEmittedType
            DEF Init, WatcherInit, WatcherTypeOK
  <2>3. EventsTypeOK
    BY <1>a, BreaksAssumption, NeverEmittedType
    DEF Init, EventsInit, EventsTypeOK
  <2> QED BY <1>1, <2>1, <2>2, <2>3 DEF TypeOK
<1>3. WatcherOk /\ EventsOk /\ OneSource
  BY DEF Init, HistoryInit, WatcherInit, EventsInit, WatcherOk, EventsOk,
         OneSource, Windowed, NeverEmitted
<1> QED BY <1>2, <1>3 DEF IInv

-----------------------------------------------------------------------------
(* The steps.                                                              *)

\* What a step that leaves the node's VMs alone need not say again.
LEMMA SamePast ==
  ASSUME TypeOK, past' = past
  PROVE  /\ past' \in Seq([VMs -> Entries]) /\ past' # <<>>
         /\ now' = now /\ now \in Nat \ {0}
BY DEF TypeOK, now

\* A step of the WatcherFSM.
LEMMA WatcherStepInv ==
  ASSUME IInv, UNCHANGED <<eventsVars, agentVars>>, watcher # "off", past' = past,
         WatcherTypeOK', WatcherOk', watcher' # "off",
         told' \in 0 .. now, empty' \in BOOLEAN
  PROVE  IInv'
<1>1. TypeOK'
  <2>1. EventsTypeOK'
    BY SamePast DEF IInv, TypeOK, EventsTypeOK, eventsVars
  <2> QED BY <2>1, SamePast DEF IInv, TypeOK, agentVars
<1>2. events = "off" /\ events' = "off" /\ vms' = 0
  BY DEF IInv, OneSource, EventsOk, eventsVars
<1>3. EventsOk'
  BY <1>2 DEF IInv, EventsOk, eventsVars
<1>4. OneSource'
  BY <1>2 DEF IInv, OneSource, agentVars
<1> QED BY <1>1, <1>3, <1>4 DEF IInv

\* A step of the VmadmEventsFSM.
LEMMA EventsStepInv ==
  ASSUME IInv, UNCHANGED <<watcherVars, agentVars>>, events # "off", past' = past,
         EventsTypeOK', EventsOk', events' # "off",
         told' \in 0 .. now, empty' \in BOOLEAN
  PROVE  IInv'
<1>1. TypeOK'
  <2>1. WatcherTypeOK'
    BY SamePast DEF IInv, TypeOK, WatcherTypeOK, watcherVars
  <2> QED BY <2>1, SamePast DEF IInv, TypeOK, agentVars
<1>2. watcher = "off" /\ watcher' = "off" /\ lookups' = {}
  BY DEF IInv, OneSource, WatcherOk, watcherVars
<1>3. WatcherOk'
  BY <1>2 DEF IInv, WatcherOk, Windowed, watcherVars
<1>4. OneSource'
  BY <1>2 DEF IInv, OneSource, agentVars
<1> QED BY <1>1, <1>3, <1>4 DEF IInv

\* The WatcherFSM, action by action.
LEMMA WatcherNextInv ==
  ASSUME IInv,
         \/ OfWatcher(LookupReads) \/ OfWatcher(AfterLookup)
         \/ OfWatcher(LookupFails) \/ OfWatcher(Alert)
         \/ OfWatcher(WaitingTimeout) \/ OfWatcher(RefreshAsserted)
         \/ OfWatcher(Reschedule)
  PROVE  IInv'
<1>1. /\ TypeOK /\ WatcherTypeOK /\ WatcherOk
      /\ now \in Nat \ {0} /\ told \in 0 .. now /\ empty \in BOOLEAN
      /\ lookups \in SUBSET (0 .. now) /\ refresh \in Event
      /\ watcher = "off" => lookups = {} /\ ~refresh.pending
  BY DEF IInv, TypeOK, now, WatcherTypeOK, WatcherOk
<1>2. CASE OfWatcher(LookupReads)
  <2>1. watcher = "refresh"
    BY <1>1, <1>2 DEF OfWatcher, LookupReads, WatcherOk
  <2>2. lookups' = {now}
    BY <1>1, <1>2 DEF OfWatcher, LookupReads, WatcherOk
  <2>3. UNCHANGED <<watcher, refresh, gap, delayed, failures, history>>
    BY <1>2 DEF OfWatcher, LookupReads
  <2>4. now' = now
    BY <2>3 DEF history, now
  <2>5. WatcherTypeOK'
    BY <1>1, <2>2, <2>3, <2>4 DEF WatcherTypeOK
  <2>6. WatcherOk'
    BY <1>1, <2>1, <2>2, <2>3 DEF WatcherOk, Windowed, history
  <2> QED BY <1>1, <1>2, <2>1, <2>3, <2>5, <2>6, WatcherStepInv
          DEF OfWatcher, history
<1>3. CASE OfWatcher(AfterLookup)
  <2>1. PICK i \in lookups \ {0} : UpdateVMs(i) /\ lookups' = lookups \ {i}
    BY <1>3 DEF OfWatcher, AfterLookup
  <2>2. lookups' = {} /\ told' = i /\ i \in 0 .. now /\ empty' = FALSE
    BY <1>1, <2>1 DEF WatcherOk, UpdateVMs
  <2>3. /\ UNCHANGED <<refresh, gap, delayed, failures, past>>
        /\ watcher = "refresh" /\ watcher' = "waiting"
    BY <1>3, <2>1 DEF OfWatcher, AfterLookup, UpdateVMs
  <2>4. now' = now
    BY <2>3 DEF now
  <2>5. WatcherTypeOK'
    BY <1>1, <2>2, <2>3, <2>4 DEF WatcherTypeOK
  <2>6. WatcherOk'
    BY <1>1, <2>2, <2>3 DEF WatcherOk, Windowed
  <2> QED BY <1>3, <2>2, <2>3, <2>5, <2>6, WatcherStepInv DEF OfWatcher
<1>4. CASE OfWatcher(LookupFails)
  <2>1. /\ UNCHANGED <<refresh, history>> /\ gap' = 0 /\ ~delayed'
        /\ watcher = "refresh" /\ watcher' = "refresh" /\ delayed' \in BOOLEAN
        /\ failures > 0 /\ failures' = failures - 1
    BY <1>4 DEF OfWatcher, LookupFails, EnterRefresh
  <2>2. PICK i \in lookups : lookups' = (lookups \ {i}) \cup {0}
    BY <1>4 DEF OfWatcher, LookupFails
  <2>3. lookups' = {0}
    BY <1>1, <2>2 DEF WatcherOk
  <2>4. now' = now
    BY <2>1 DEF history, now
  <2>5. WatcherTypeOK'
    BY <1>1, <2>1, <2>3, <2>4, DelayAssumption DEF WatcherTypeOK
  <2>6. WatcherOk'
    BY <1>1, <2>1, <2>3 DEF WatcherOk, Windowed
  <2> QED BY <1>1, <1>4, <2>1, <2>5, <2>6, WatcherStepInv
          DEF OfWatcher, history
<1>5. CASE OfWatcher(Alert) \/ OfWatcher(WaitingTimeout)
  <2>1. /\ UNCHANGED <<watcher, lookups, gap, delayed, failures, history>>
        /\ watcher # "off" /\ refresh' = EmitDelayed(refresh, Delay)
    BY <1>5 DEF OfWatcher, Alert, WaitingTimeout
  <2>2. refresh' \in Event /\ Windowed' /\ refresh'.since = refresh.since
    BY <1>1, <2>1, EventTypes, EventWindow DEF WatcherOk, Windowed
  <2>3. now' = now
    BY <2>1 DEF history, now
  <2>4. WatcherTypeOK'
    BY <1>1, <2>1, <2>2, <2>3 DEF WatcherTypeOK
  <2>5. WatcherOk'
    BY <1>1, <2>1, <2>2 DEF WatcherOk, history
  <2> QED BY <1>1, <1>5, <2>1, <2>4, <2>5, WatcherStepInv
          DEF OfWatcher, history
<1>6. CASE OfWatcher(RefreshAsserted)
  <2>1. /\ UNCHANGED <<failures, history>>
        /\ watcher = "waiting" /\ watcher' = "refresh" /\ lookups' = {0}
        /\ gap' = 0 /\ delayed' = TRUE /\ refresh' = Emitted(refresh)
    BY <1>6 DEF OfWatcher, RefreshAsserted, EnterRefresh
  <2>2. refresh' \in Event /\ ~refresh'.pending /\ refresh'.since = 0
    BY <1>1, <2>1, EventTypes DEF Emitted
  <2>3. now' = now
    BY <2>1 DEF history, now
  <2>4. WatcherTypeOK'
    BY <1>1, <2>1, <2>2, <2>3, DelayAssumption DEF WatcherTypeOK
  <2>5. WatcherOk'
    BY <1>1, <2>1, <2>2 DEF WatcherOk, Windowed
  <2> QED BY <1>1, <1>6, <2>1, <2>4, <2>5, WatcherStepInv
          DEF OfWatcher, history
<1>7. CASE OfWatcher(Reschedule)
  <2>1. /\ UNCHANGED <<watcher, lookups, gap, delayed, failures, history>>
        /\ watcher = "refresh"
        /\ refresh' = EmitDelayed(Emitted(refresh), Delay)
    BY <1>7 DEF OfWatcher, Reschedule
  <2>2. Emitted(refresh) \in Event /\ refresh' \in Event
    BY <1>1, <2>1, EventTypes
  <2>3. Windowed' /\ refresh'.since = 0
    BY <1>1, <2>1, EventWindow DEF WatcherOk, Windowed, Emitted, EmitDelayed
  <2>4. now' = now
    BY <2>1 DEF history, now
  <2>5. WatcherTypeOK'
    BY <1>1, <2>1, <2>2, <2>4 DEF WatcherTypeOK
  <2>6. WatcherOk'
    <3>1. gap' >= 0
      BY <1>1, <2>1 DEF WatcherTypeOK
    <3> QED BY <1>1, <2>1, <2>3, <3>1 DEF WatcherOk, history
  <2> QED BY <1>1, <1>7, <2>1, <2>5, <2>6, WatcherStepInv
          DEF OfWatcher, history
<1> QED BY <1>2, <1>3, <1>4, <1>5, <1>6, <1>7

\* updateVMs(self.vms), by either event of the VmadmWatcherFSM.
LEMMA UpdateVMsOk ==
  ASSUME TypeOK, EventsOk, UpdateVMs(vms)
  PROVE  /\ told' \in 0 .. now /\ empty' \in BOOLEAN /\ past' = past
         /\ vms # 0 => told' <= vms
BY DEF TypeOK, EventsTypeOK, EventsOk, UpdateVMs, now

\* The VmadmEventsFSM and the VmadmWatcherFSM, action by action.
LEMMA EventsNextInv ==
  ASSUME IInv,
         \/ OfEvents(Ready) \/ OfEvents(StreamError)
         \/ OfEvents(SetupTimeout) \/ OfEvents(HandleEvent)
         \/ OfEvents(VmsUpdate) \/ OfEvents(Refresh)
         \/ OfEvents(EventsRefreshAsserted)
  PROVE  IInv'
<1>1. /\ TypeOK /\ EventsTypeOK /\ EventsOk
      /\ now \in Nat \ {0} /\ told \in 0 .. now /\ empty \in BOOLEAN
      /\ vms \in 0 .. now /\ update \in Event /\ ask \in Event
      /\ past' = past => now' = now
  BY DEF IInv, TypeOK, now, EventsTypeOK
<1>2. CASE OfEvents(Ready)
  <2>1. /\ UNCHANGED <<setup, ask, breaks, history>>
        /\ events = "setup" /\ events' = "running" /\ vms' = now
        /\ update' = EmitDelayed(update, Delay)
    BY <1>2 DEF OfEvents, Ready
  <2>2. update' \in Event
    BY <1>1, <2>1, EventTypes
  <2>3. EventsTypeOK' /\ EventsOk'
    BY <1>1, <2>1, <2>2 DEF EventsTypeOK, EventsOk, history
  <2> QED BY <1>1, <1>2, <2>1, <2>3, EventsStepInv DEF OfEvents, history
<1>3. CASE OfEvents(StreamError)
  <2>1. /\ UNCHANGED <<events, vms, update, ask, history>>
        /\ events # "off" /\ setup' = TRUE
        /\ breaks > 0 /\ breaks' = breaks - 1
    BY <1>3 DEF OfEvents, StreamError
  <2>2. EventsTypeOK' /\ EventsOk'
    BY <1>1, <2>1 DEF EventsTypeOK, EventsOk, history
  <2> QED BY <1>1, <1>3, <2>1, <2>2, EventsStepInv DEF OfEvents, history
<1>4. CASE OfEvents(SetupTimeout)
  <2>1. /\ UNCHANGED <<update, ask, breaks, history>>
        /\ events' = "setup" /\ vms' = 0 /\ setup' \in BOOLEAN
    BY <1>4 DEF OfEvents, SetupTimeout, EnterSetup
  <2>2. events # "off"
    BY <1>1, <1>4, Zenon DEF EventsOk, OfEvents, SetupTimeout
  <2>3. EventsTypeOK' /\ EventsOk'
    BY <1>1, <2>1 DEF EventsTypeOK, EventsOk, history
  <2> QED BY <1>1, <1>4, <2>1, <2>2, <2>3, EventsStepInv DEF OfEvents, history
<1>5. CASE OfEvents(HandleEvent)
  <2>1. /\ UNCHANGED <<events, setup, ask, breaks, history>>
        /\ events = "running" /\ vms < now /\ vms' = vms + 1
        /\ update' \in {update, EmitDelayed(update, Delay)}
    BY <1>5 DEF OfEvents, HandleEvent
  <2>2. update' \in Event
    BY <1>1, <2>1, EventTypes
  <2>3. EventsTypeOK' /\ EventsOk'
    BY <1>1, <2>1, <2>2 DEF EventsTypeOK, EventsOk, history
  <2> QED BY <1>1, <1>5, <2>1, <2>3, EventsStepInv DEF OfEvents, history
<1>6. CASE OfEvents(VmsUpdate)
  <2>1. /\ UNCHANGED <<events, vms, setup, ask, breaks>>
        /\ Due(update) /\ UpdateVMs(vms) /\ update' = Emitted(update)
    BY <1>6 DEF OfEvents, VmsUpdate
  <2>2. update' \in Event /\ events # "off"
    BY <1>1, <2>1, EventTypes DEF Due, EventsOk
  <2>3. EventsTypeOK' /\ EventsOk'
    BY <1>1, <2>1, <2>2, UpdateVMsOk DEF EventsTypeOK, EventsOk
  <2> QED BY <1>1, <1>6, <2>1, <2>2, <2>3, UpdateVMsOk, EventsStepInv
          DEF OfEvents
<1>7. CASE OfEvents(Refresh)
  <2>1. /\ UNCHANGED <<events, vms, setup, update, breaks, history>>
        /\ events # "off" /\ ask' = EmitDelayed(ask, 0)
    BY <1>7 DEF OfEvents, Refresh
  <2>2. ask' \in Event
    BY <1>1, <2>1, EventTypes
  <2>3. EventsTypeOK' /\ EventsOk'
    BY <1>1, <2>1, <2>2 DEF EventsTypeOK, EventsOk, history
  <2> QED BY <1>1, <1>7, <2>1, <2>3, EventsStepInv DEF OfEvents, history
<1>8. CASE OfEvents(EventsRefreshAsserted)
  <2>1. /\ UNCHANGED <<events, vms, setup, update, breaks>>
        /\ Due(ask) /\ UpdateVMs(vms) /\ ask' = Emitted(ask)
    BY <1>8 DEF OfEvents, EventsRefreshAsserted
  <2>2. ask' \in Event /\ events # "off"
    BY <1>1, <2>1, EventTypes DEF Due, EventsOk
  <2>3. EventsTypeOK' /\ EventsOk'
    BY <1>1, <2>1, <2>2, UpdateVMsOk DEF EventsTypeOK, EventsOk
  <2> QED BY <1>1, <1>8, <2>1, <2>2, <2>3, UpdateVMsOk, EventsStepInv
          DEF OfEvents
<1> QED BY <1>2, <1>3, <1>4, <1>5, <1>6, <1>7, <1>8

\* NetAgent, the node and time.
LEMMA OtherNextInv ==
  ASSUME IInv,
         \/ ProbeError \/ ProbeAgain \/ StartDefault \/ StartVmadmEvents
         \/ OfNode(Change) \/ Tick
  PROVE  IInv'
<1>1. /\ TypeOK /\ WatcherTypeOK /\ WatcherOk /\ EventsTypeOK /\ EventsOk
      /\ OneSource /\ now \in Nat \ {0} /\ told \in 0 .. now /\ 0 \in 0 .. now
      /\ past' = past => now' = now /\ past' \in Seq([VMs -> Entries])
                         /\ past' # <<>>
  BY DEF IInv, TypeOK, now
<1>2. CASE ProbeError \/ ProbeAgain
  <2>1. /\ UNCHANGED <<history, watcherVars, eventsVars>>
        /\ agent # "running" /\ agent' \in {"probing", "retry"}
        /\ \/ probes' = probes
           \/ probes > 0 /\ probes' = probes - 1
    BY <1>2 DEF ProbeError, ProbeAgain
  <2>2. WatcherTypeOK' /\ EventsTypeOK'
    BY <1>1, <2>1 DEF WatcherTypeOK, EventsTypeOK, history, watcherVars,
                      eventsVars
  <2>3. TypeOK'
    <3>1. probes' \in Nat
      BY <1>1, <2>1 DEF TypeOK
    <3> QED BY <1>1, <2>1, <2>2, <3>1 DEF TypeOK, history
  <2>4. WatcherOk' /\ EventsOk' /\ OneSource'
    BY <1>1, <2>1 DEF WatcherOk, Windowed, EventsOk, OneSource, history,
                      watcherVars, eventsVars
  <2> QED BY <2>3, <2>4 DEF IInv
<1>3. CASE StartDefault
  <2>1. /\ UNCHANGED <<probes, eventsVars, refresh, failures, history>>
        /\ agent = "probing" /\ agent' = "running"
        /\ watcher = "off" /\ watcher' = "refresh" /\ lookups' = {0}
        /\ gap' = 0 /\ delayed' \in BOOLEAN /\ ~delayed'
    BY <1>3 DEF StartDefault, WatcherStart, EnterRefresh
  <2>2. WatcherTypeOK' /\ EventsTypeOK'
    <3>1. WatcherTypeOK'
      BY <1>1, <2>1, DelayAssumption DEF WatcherTypeOK, history
    <3>2. EventsTypeOK'
      BY <1>1, <2>1 DEF EventsTypeOK, history, eventsVars
    <3> QED BY <3>1, <3>2
  <2>3. TypeOK'
    BY <1>1, <2>1, <2>2 DEF TypeOK, history
  <2>4. WatcherOk'
    BY <1>1, <2>1 DEF WatcherOk, Windowed
  <2>5. EventsOk' /\ OneSource'
    BY <1>1, <2>1 DEF EventsOk, OneSource, history, eventsVars
  <2> QED BY <2>3, <2>4, <2>5 DEF IInv
<1>4. CASE StartVmadmEvents
  <2>1. /\ UNCHANGED <<probes, watcherVars, update, ask, breaks, history>>
        /\ agent = "probing" /\ agent' = "running"
        /\ events = "off" /\ events' = "setup" /\ vms' = 0 /\ setup' = FALSE
    BY <1>4 DEF StartVmadmEvents, EventsStart, EnterSetup
  <2>2. WatcherTypeOK' /\ EventsTypeOK'
    <3>1. WatcherTypeOK'
      BY <1>1, <2>1 DEF WatcherTypeOK, history, watcherVars
    <3>2. EventsTypeOK'
      BY <1>1, <2>1 DEF EventsTypeOK, history
    <3> QED BY <3>1, <3>2
  <2>3. TypeOK'
    BY <1>1, <2>1, <2>2 DEF TypeOK, history
  <2>4. EventsOk'
    BY <1>1, <2>1 DEF EventsOk
  <2>5. WatcherOk' /\ OneSource'
    BY <1>1, <2>1 DEF WatcherOk, Windowed, OneSource, history, watcherVars
  <2> QED BY <2>3, <2>4, <2>5 DEF IInv
<1>5. CASE OfNode(Change)
  <2>1. PICK v \in VMs, e \in Entries :
               past' = Append(past, [past[now] EXCEPT ![v] = e])
    BY <1>5 DEF OfNode, Change
  <2>2. UNCHANGED <<watcherVars, eventsVars, agentVars, told, empty>>
    BY <1>5 DEF OfNode, Change
  <2>3. past[now] \in [VMs -> Entries]
    BY <1>1, ElementOfSeq DEF TypeOK, now
  <2>4. past' \in Seq([VMs -> Entries]) /\ now' = now + 1 /\ past' # <<>>
    BY <1>1, <2>1, <2>3 DEF TypeOK, now
  <2>5. WatcherTypeOK' /\ EventsTypeOK'
    <3>1. 0 .. now \subseteq 0 .. now'
      BY <1>1, <2>4
    <3> QED BY <1>1, <2>2, <3>1 DEF WatcherTypeOK, EventsTypeOK, watcherVars,
                                   eventsVars
  <2>6. TypeOK'
    BY <1>1, <2>2, <2>4, <2>5 DEF TypeOK, agentVars
  <2>7. WatcherOk' /\ EventsOk' /\ OneSource'
    BY <1>1, <2>2 DEF WatcherOk, Windowed, EventsOk, OneSource, watcherVars,
                      eventsVars, agentVars
  <2> QED BY <2>6, <2>7 DEF IInv
<1>6. CASE Tick
  <2>1. /\ UNCHANGED <<history, agentVars, watcher, lookups, delayed, failures,
                      events, vms, setup, breaks>>
        /\ refresh' = Elapse(refresh)
        /\ update' = Elapse(update) /\ ask' = Elapse(ask)
        /\ gap' = IF gap = Delay THEN Delay ELSE gap + 1
    BY <1>6 DEF Tick, WatcherElapse, EventsElapse
  <2>2. refresh \in Event /\ update \in Event /\ ask \in Event /\ gap \in 0 .. Delay
    BY <1>1 DEF WatcherTypeOK, EventsTypeOK
  <2>3. refresh' \in Event /\ update' \in Event /\ ask' \in Event
    BY <2>1, <2>2, EventTypes
  <2>4. gap' \in 0 .. Delay
    BY <2>1, <2>2, DelayAssumption
  <2>5. WatcherTypeOK' /\ EventsTypeOK'
    BY <1>1, <2>1, <2>3, <2>4 DEF WatcherTypeOK, EventsTypeOK, history
  <2>6. TypeOK'
    BY <1>1, <2>1, <2>5 DEF TypeOK, history, agentVars
  <2>7. Windowed'
    BY <1>1, <2>1, <2>2, EventWindow DEF WatcherOk, Windowed
  <2>8. delayed' => gap' >= refresh'.since
    <3>1. refresh'.since =
            IF refresh.since = Delay THEN Delay ELSE refresh.since + 1
      BY <2>1 DEF Elapse
    <3>2. refresh.since \in 0 .. Delay
      BY <2>2 DEF Event
    <3> QED BY <1>1, <2>1, <2>2, <3>1, <3>2, DelayAssumption DEF WatcherOk
  <2>9. refresh'.pending = refresh.pending /\ update'.pending = update.pending
        /\ ask'.pending = ask.pending
    BY <2>1 DEF Elapse
  <2>10. WatcherOk'
    BY <1>1, <2>1, <2>7, <2>8, <2>9 DEF WatcherOk, history
  <2>11. EventsOk' /\ OneSource'
    BY <1>1, <2>1, <2>9 DEF EventsOk, OneSource, history, agentVars
  <2> QED BY <2>6, <2>10, <2>11 DEF IInv
<1> QED BY <1>2, <1>3, <1>4, <1>5, <1>6

\* vars does not change.
LEMMA StutterInv == IInv /\ UNCHANGED vars => IInv'
BY DEF IInv, TypeOK, WatcherTypeOK, EventsTypeOK, WatcherOk, Windowed,
       EventsOk, OneSource, now, vars, history, watcherVars, eventsVars,
       agentVars

\* The invariant holds in every behaviour.
THEOREM SourcesInvariant == Spec => []IInv
<1>1. IInv /\ [Next]_vars => IInv'
  BY WatcherNextInv, EventsNextInv, OtherNextInv, StutterInv DEF Next
<1> QED BY InitInv, <1>1, PTL DEF Spec

\* Every variable keeps its type: the windows of the emitDelayed()s stay
\* windows, the lists stay versions of the node's VMs.
THEOREM SourcesTypeCorrect == Spec => []TypeOK
<1>1. IInv => TypeOK
  BY DEF IInv
<1> QED BY SourcesInvariant, <1>1, PTL

-----------------------------------------------------------------------------
(* The two promises.                                                       *)

\* A run of vmadm lookup that refreshAsserted starts is Delay ticks or more
\* after one that it started before, whatever happens in between: its timer
\* fires in no other window.
THEOREM LookupDistance == Spec => LookupsSpaced
<1> DEFINE Apart == (watcher = "waiting" /\ watcher' = "refresh" /\ delayed)
                      => gap = Delay
<1>1. IInv /\ [Next]_vars => [Apart]_vars
  <2> SUFFICES ASSUME IInv, Next, watcher = "waiting", watcher' = "refresh",
                      delayed
               PROVE  gap = Delay
    BY DEF Apart
  <2>1. OfWatcher(RefreshAsserted)
    <3>1. events = "off" /\ agent = "running" /\ watcher # "refresh"
          /\ watcher # "off" /\ 0 \notin lookups
      BY DEF IInv, OneSource, WatcherOk
    <3> QED BY <3>1 DEF Next, ProbeError, ProbeAgain, StartDefault,
          StartVmadmEvents, WatcherStart, EventsStart, OfWatcher, OfEvents,
          OfNode, LookupReads, AfterLookup, LookupFails, Alert, WaitingTimeout,
          Reschedule, Tick, WatcherElapse, watcherVars
  <2>2. refresh \in Event /\ Windowed /\ gap >= refresh.since
        /\ gap \in 0 .. Delay
    BY DEF IInv, TypeOK, WatcherTypeOK, WatcherOk
  <2>3. refresh.pending /\ refresh.wait = 0
    BY <2>1 DEF OfWatcher, RefreshAsserted, Due
  <2>4. refresh.since \in 0 .. Delay /\ refresh.since >= Delay
    BY <2>2, <2>3, DelayAssumption DEF Event, Windowed
  <2> QED BY <2>2, <2>4, DelayAssumption
<1> QED BY SourcesInvariant, <1>1, PTL DEF Spec, LookupsSpaced, Apart

\* Initial states map to initial states.
LEMMA FeedInit == Init => Feed!Init
BY DEF Init, HistoryInit, Feed!Init

\* Every step of a source, of the agent or of the node is a step of the feed,
\* or none.
LEMMA FeedStep == IInv /\ [Next]_vars => [Feed!Next]_Feed!vars
<1> SUFFICES ASSUME IInv, [Next]_vars PROVE [Feed!Next]_Feed!vars
  OBVIOUS
<1> USE DEF Feed!vars
<1>1. /\ past \in Seq([VMs -> Entries]) /\ now \in Nat /\ Len(past) = now
      /\ told \in 0 .. now
  BY DEF IInv, TypeOK, now
<1>2. CASE UNCHANGED vars
  BY <1>2 DEF vars, history
<1>3. CASE ProbeError \/ ProbeAgain \/ StartDefault \/ StartVmadmEvents \/ Tick
  BY <1>3 DEF ProbeError, ProbeAgain, StartDefault, StartVmadmEvents, Tick,
              WatcherStart, EventsStart, history
<1>4. CASE OfWatcher(AfterLookup)
  <2>1. PICK i \in lookups \ {0} : UpdateVMs(i)
    BY <1>4 DEF OfWatcher, AfterLookup
  <2>2. i \in told .. now
    BY <1>1, <2>1 DEF IInv, TypeOK, WatcherTypeOK, WatcherOk
  <2>3. told' \in told .. Len(past) /\ empty' = FALSE /\ Len(past') = Len(past)
    BY <1>1, <2>1, <2>2 DEF UpdateVMs
  <2> QED BY <2>3 DEF Feed!Next, Feed!Tell
<1>5. CASE \/ OfWatcher(LookupReads) \/ OfWatcher(LookupFails)
           \/ OfWatcher(Alert) \/ OfWatcher(WaitingTimeout)
           \/ OfWatcher(RefreshAsserted) \/ OfWatcher(Reschedule)
  BY <1>5 DEF OfWatcher, LookupReads, LookupFails, Alert, WaitingTimeout,
              RefreshAsserted, Reschedule, history
<1>6. CASE \/ OfEvents(Ready) \/ OfEvents(StreamError)
           \/ OfEvents(SetupTimeout) \/ OfEvents(HandleEvent)
           \/ OfEvents(Refresh)
  BY <1>6 DEF OfEvents, Ready, StreamError, SetupTimeout, HandleEvent, Refresh,
              history
<1>7. CASE OfEvents(VmsUpdate) \/ OfEvents(EventsRefreshAsserted)
  <2>1. UpdateVMs(vms)
    BY <1>7 DEF OfEvents, VmsUpdate, EventsRefreshAsserted
  <2>2. CASE vms = 0
    <3>1. empty' = TRUE /\ told' = told /\ past' = past
      BY <2>1, <2>2 DEF UpdateVMs
    <3> QED BY <3>1 DEF Feed!Next, Feed!TellNothing
  <2>3. CASE vms # 0
    <3>1. vms \in told .. now
      BY <1>1, <2>3 DEF IInv, TypeOK, EventsTypeOK, EventsOk
    <3>2. told' \in told .. Len(past) /\ empty' = FALSE
          /\ Len(past') = Len(past)
      BY <1>1, <2>1, <2>3, <3>1 DEF UpdateVMs
    <3> QED BY <3>2 DEF Feed!Next, Feed!Tell
  <2> QED BY <2>2, <2>3
<1>8. CASE OfNode(Change)
  <2>1. PICK v \in VMs, e \in Entries :
               past' = Append(past, [past[now] EXCEPT ![v] = e])
    BY <1>8 DEF OfNode, Change
  <2>2. past[now] \in [VMs -> Entries]
    BY <1>1, ElementOfSeq DEF IInv, TypeOK, now
  <2>3. Len(past') = Len(past) + 1
    BY <1>1, <2>1, <2>2
  <2>4. UNCHANGED <<told, empty>>
    BY <1>8 DEF OfNode, Change
  <2> QED BY <2>3, <2>4 DEF Feed!Next, Feed!Change
<1> QED BY <1>2, <1>3, <1>4, <1>5, <1>6, <1>7, <1>8 DEF Next

\* Whatever source the probe selects, what NetAgent.updateVMs() is given is a
\* VMFeed: the node's VMs in the order of their versions, or nothing at all.
THEOREM FeedImplemented == Spec => FeedSpec
<1> QED BY FeedInit, FeedStep, SourcesInvariant, PTL
        DEF Spec, FeedSpec, Feed!Spec
=============================================================================
