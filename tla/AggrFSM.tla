------------------------------- MODULE AggrFSM -------------------------------
(***************************************************************************)
(* The class AggrFSM of lib/aggr-fsm.js as operators on a record: the      *)
(* object that tracks one link aggregation of the global zone in NAPI.     *)
(*                                                                         *)
(* LOCAL_FIELDS and REMOTE_FIELDS are empty, so that of an aggregation     *)
(* only its owner matters, and state update passes through update.local    *)
(* and update.napi, which make no call, to waiting.  Nobody calls          *)
(* releaseFrom(), so there are no releases.                                *)
(***************************************************************************)
CONSTANTS
  CN,    \* this compute node, the owner of every local aggregation
  Other, \* any other owner of a record
  None   \* null

Owners == {CN, Other}

\* What NAPI answers: the owner in its record, or an error.
Replies == Owners \cup {404, 500}

\* "stopped": app.aggrs has no entry.  "crashed": the TypeError of state
\* update.
Aggr == [st     : {"init", "waiting", "refresh", "create", "stopped",
                   "crashed"},
         local  : BOOLEAN,                     \* local is set
         remote : Owners \cup {None},
         armed  : SUBSET {"set", "refresh"},   \* emitDelayed()s pending
         call   : BOOLEAN,                     \* an answer is awaited
         reply  : Replies \cup {None},
         timer  : BOOLEAN]                     \* gotoStateTimeout(5000)

NoAggr == [st |-> "stopped", local |-> FALSE, remote |-> None, armed |-> {},
           call |-> FALSE, reply |-> None, timer |-> FALSE]

\* watchAggr(name)
WatchAggr(a) == IF a.st = "stopped" THEN [NoAggr EXCEPT !.st = "init"] ELSE a

\* setLocal(aggr)
SetLocalAggr(a) ==
  [a EXCEPT !.local = TRUE, !.armed = a.armed \cup {"set"}]

\* refresh(): no caller passes an Etag.
RefreshAggr(a) == [a EXCEPT !.armed = a.armed \cup {"refresh"}]

AggrGoto(a, s) ==
  [a EXCEPT !.st = s, !.call = FALSE, !.reply = None, !.timer = FALSE]

AggrAwait(a, s) == [AggrGoto(a, s) EXCEPT !.call = TRUE]

AggrRefresh(a) == AggrAwait(a, "refresh")

\* Mutant of AggrUpdate: the owner of the record is not looked at.
AggrUpdateAnyOwner(a) ==
  IF a.local /\ a.remote = None THEN AggrGoto(a, "crashed")
  ELSE AggrGoto(a, "waiting")

\* An aggregation whose record belongs to another goes through remove.
AggrUpdate(a) ==
  IF ~a.local THEN AggrGoto(a, "waiting")
  ELSE IF a.remote = None THEN AggrGoto(a, "crashed")
  ELSE IF a.remote # CN THEN NoAggr
  ELSE AggrGoto(a, "waiting")

AggrBackOff(a) == [a EXCEPT !.call = FALSE, !.reply = None, !.timer = TRUE]

\* Mutant of AfterGetAggr: a 404 is taken for a record.
AfterGetAggrUnchecked(a) ==
  IF a.reply # 500 THEN AggrUpdate([a EXCEPT !.remote = a.reply])
  ELSE AggrBackOff(a)

\* afterGet
AfterGetAggr(a) ==
  IF a.reply \in Owners THEN AggrUpdate([a EXCEPT !.remote = a.reply])
  ELSE IF a.reply # 404 THEN AggrBackOff(a)
  ELSE IF a.remote # None THEN NoAggr
  ELSE IF a.local THEN AggrAwait(a, "create")
  ELSE AggrGoto(a, "waiting")

\* Mutant of AfterCreateAggr: a failure is final.
AfterCreateAggrOnce(a) ==
  IF a.reply \in Owners THEN AggrUpdate([a EXCEPT !.remote = a.reply])
  ELSE [a EXCEPT !.call = FALSE, !.reply = None]

\* afterCreate
AfterCreateAggr(a) ==
  IF a.reply \in Owners THEN AggrUpdate([a EXCEPT !.remote = a.reply])
  ELSE AggrBackOff(a)

\* setAsserted is emitted: only waiting listens.
EmitAggrSet(a) ==
  LET b == [a EXCEPT !.armed = a.armed \ {"set"}]
  IN  IF a.st = "waiting" THEN AggrUpdate(b) ELSE b

\* refreshAsserted is emitted: waiting and refresh listen.
EmitAggrRefresh(a) ==
  LET b == [a EXCEPT !.armed = a.armed \ {"refresh"}]
  IN  IF a.st \in {"waiting", "refresh"} THEN AggrRefresh(b) ELSE b
=============================================================================
