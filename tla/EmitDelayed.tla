----------------------------- MODULE EmitDelayed -----------------------------
(***************************************************************************)
(* CommonFSM.emitDelayed() of lib/common.js for one event of one FSM, as   *)
(* operators on a record.  Time passes in ticks; Delay of them are the     *)
(* five seconds of REFRESH_DELAY and UPDATE_DELAY.                         *)
(***************************************************************************)
EXTENDS Naturals

CONSTANT Delay

ASSUME DelayAssumption == Delay \in Nat

\* pending[name]; what its setTimeout still waits; how long ago last[name]
\* was, of which only the Delay last ticks matter.
Event == [pending : BOOLEAN, wait : 0 .. Delay, since : 0 .. Delay]

NeverEmitted == [pending |-> FALSE, wait |-> 0, since |-> Delay]

\* Mutant of EmitDelayed: the window may be over, the difference negative.
EmitDelayedAnyhow(e, delay) ==
  IF e.pending THEN e
  ELSE [e EXCEPT !.pending = TRUE, !.wait = delay - e.since]

EmitDelayed(e, delay) ==
  IF e.pending THEN e
  ELSE [pending |-> TRUE,
        wait |-> IF delay > e.since THEN delay - e.since ELSE 0,
        since |-> e.since]

\* The timer may fire, now or later.
Due(e) == e.pending /\ e.wait = 0

\* Mutant of Emitted: the time of the emit is not kept.
EmittedUntimed(e) == [e EXCEPT !.pending = FALSE]

\* The timer fires: the event can be armed again while it is emitted.
Emitted(e) == [pending |-> FALSE, wait |-> 0, since |-> 0]

\* A tick passes.
Elapse(e) ==
  [pending |-> e.pending,
   wait |-> IF e.wait = 0 THEN 0 ELSE e.wait - 1,
   since |-> IF e.since = Delay THEN Delay ELSE e.since + 1]
=============================================================================
