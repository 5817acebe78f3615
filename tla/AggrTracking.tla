---------------------------- MODULE AggrTracking ----------------------------
(***************************************************************************)
(* One link aggregation of the compute node and what touches it: its       *)
(* AggrFSM, the ServerFSM that finds it in the sysinfo                     *)
(* (lib/server-fsm.js), NetAgent's changefeed (lib/net-agent.js) and NAPI. *)
(* One action is one turn of the event loop.                               *)
(***************************************************************************)
EXTENDS AggrFSM, Naturals

CONSTANTS
  Moves,  \* bound: times the aggregation is made or destroyed on the node
  Edits,  \* bound: changes of NAPI by others
  Faults, \* bound: failed calls and loads
  Asks    \* bound: changefeed events, and refresh()es of the ServerFSM

ASSUME AggrAssumption ==
  /\ CN # Other /\ None \notin {CN, Other, 404, 500}
  /\ {CN, Other} \cap {404, 500} = {}
  /\ {Moves, Edits, Faults, Asks} \subseteq Nat

VARIABLES
  aggr,   \* app.aggrs[name]
  server, \* the ServerFSM's state; "retry": it waits in refresh to try again
  load,   \* what the sysinfo being loaded says: is the aggregation there?
  node,   \* the node has the aggregation
  napi,   \* the owner in NAPI's record of it, or None
  left    \* what is left of the bounds

vars == <<aggr, server, load, node, napi, left>>

TypeOK ==
  /\ aggr \in Aggr
  /\ server \in {"init", "refresh", "retry", "waiting"}
  /\ load \in BOOLEAN \cup {None}
  /\ node \in BOOLEAN
  /\ napi \in Owners \cup {None}
  /\ left \in [{"moves", "edits", "faults", "asks"} -> Nat]

Init ==
  /\ aggr = NoAggr
  /\ server = "init"
  /\ load = None
  /\ node \in BOOLEAN
  /\ napi \in Owners \cup {None}
  /\ left = [moves |-> Moves, edits |-> Edits, faults |-> Faults,
             asks |-> Asks]

Spend(kind) ==
  /\ left[kind] > 0
  /\ left' = [left EXCEPT ![kind] = @ - 1]

\* The process lives, and no immediate is due.
Idle == aggr.st \notin {"init", "crashed"} /\ server # "init"

-----------------------------------------------------------------------------
(* AggrFSM and NAPI.                                                       *)

Become(a) == aggr' = a /\ UNCHANGED <<server, load, node, napi>>

AggrImmediate ==
  /\ aggr.st = "init"
  /\ Become(AggrRefresh(aggr))
  /\ UNCHANGED left

SetAsserted ==
  /\ Idle
  /\ "set" \in aggr.armed
  /\ Become(EmitAggrSet(aggr))
  /\ UNCHANGED left

RefreshAsserted ==
  /\ Idle
  /\ "refresh" \in aggr.armed
  /\ Become(EmitAggrRefresh(aggr))
  /\ UNCHANGED left

\* An hour in waiting, or five seconds after a failed call.
RefreshTimer ==
  /\ Idle
  /\ aggr.st = "waiting" \/ aggr.timer
  /\ Become(AggrRefresh(aggr))
  /\ UNCHANGED left

Callback ==
  /\ Idle
  /\ aggr.reply # None
  /\ Become(IF aggr.st = "create" THEN AfterCreateAggr(aggr)
            ELSE AfterGetAggr(aggr))
  /\ UNCHANGED left

Waits == aggr.call /\ aggr.reply = None

\* NAPI makes no second record of an aggregation.
ServeCall ==
  /\ Waits
  /\ aggr' = [aggr EXCEPT !.reply =
                IF aggr.st = "create" THEN IF napi = None THEN CN ELSE 500
                ELSE IF napi = None THEN 404
                ELSE napi]
  /\ napi' = IF aggr.st = "create" /\ napi = None THEN CN ELSE napi
  /\ UNCHANGED <<server, load, node, left>>

\* The call fails at the caller; a POST may have been served all the same.
FailCall ==
  /\ Waits
  /\ Spend("faults")
  /\ aggr' = [aggr EXCEPT !.reply = 500]
  /\ \/ UNCHANGED napi
     \/ aggr.st = "create" /\ napi = None /\ napi' = CN
  /\ UNCHANGED <<server, load, node>>

-----------------------------------------------------------------------------
(* ServerFSM: the sysinfo is loaded once, and again when it is asked to.   *)

ServerImmediate ==
  /\ server = "init"
  /\ server' = "refresh"
  /\ UNCHANGED <<aggr, load, node, napi, left>>

LoadReads ==
  /\ server = "refresh" /\ load = None
  /\ load' = node
  /\ UNCHANGED <<aggr, server, node, napi, left>>

\* _update(sysinfo).  An aggregation that is gone is not released.
OnSysinfo ==
  /\ Idle
  /\ load # None
  /\ aggr' = IF load THEN SetLocalAggr(WatchAggr(aggr)) ELSE aggr
  /\ server' = "waiting"
  /\ load' = None
  /\ UNCHANGED <<node, napi, left>>

LoadFails ==
  /\ Idle
  /\ server = "refresh"
  /\ Spend("faults")
  /\ server' = "retry"
  /\ load' = None
  /\ UNCHANGED <<aggr, node, napi>>

LoadAgain ==
  /\ Idle
  /\ server = "retry"
  /\ server' = "refresh"
  /\ UNCHANGED <<aggr, load, node, napi, left>>

\* refresh(), by a NicFSM of the node: heard in waiting only.
ServerRefresh ==
  /\ Idle
  /\ Spend("asks")
  /\ server' = IF server = "waiting" THEN "refresh" ELSE server
  /\ UNCHANGED <<aggr, load, node, napi>>

-----------------------------------------------------------------------------
(* The changefeed, and everyone else.                                      *)

\* It reports the record, as this node's or not.
FeedEvent ==
  /\ Idle
  /\ Spend("asks")
  /\ \E mine \in BOOLEAN :
       Become(IF aggr.st # "stopped" THEN RefreshAggr(aggr)
              ELSE IF mine THEN WatchAggr(aggr) ELSE aggr)

\* It reports that the record was deleted, or it connects again.
FeedRefresh ==
  /\ Idle
  /\ aggr.st # "stopped"
  /\ Spend("asks")
  /\ Become(RefreshAggr(aggr))

NodeChange ==
  /\ Spend("moves")
  /\ node' = ~node
  /\ UNCHANGED <<aggr, server, load, napi>>

NapiChange ==
  /\ Spend("edits")
  /\ napi' \in (Owners \cup {None}) \ {napi}
  /\ UNCHANGED <<aggr, server, load, node>>

\* smf(5) starts the process again after the TypeError.
Restart ==
  /\ aggr.st = "crashed"
  /\ aggr' = NoAggr
  /\ server' = "init"
  /\ load' = None
  /\ UNCHANGED <<node, napi, left>>

-----------------------------------------------------------------------------
Next ==
  \/ AggrImmediate \/ SetAsserted \/ RefreshAsserted \/ RefreshTimer
  \/ Callback \/ ServeCall \/ FailCall
  \/ ServerImmediate \/ LoadReads \/ OnSysinfo \/ LoadFails \/ LoadAgain
  \/ ServerRefresh
  \/ FeedEvent \/ FeedRefresh \/ NodeChange \/ NapiChange \/ Restart

Spec == Init /\ [][Next]_vars

\* The event loop gets to every callback, event and timer, NAPI and sysinfo
\* answer, smf(5) restarts.  (SF where an immediate goes first.)
Fairness ==
  /\ WF_vars(AggrImmediate) /\ WF_vars(ServerImmediate)
  /\ SF_vars(SetAsserted) /\ SF_vars(RefreshAsserted) /\ SF_vars(RefreshTimer)
  /\ SF_vars(Callback) /\ WF_vars(ServeCall)
  /\ WF_vars(LoadReads) /\ SF_vars(OnSysinfo) /\ SF_vars(LoadAgain)
  /\ WF_vars(Restart)

FairSpec == Spec /\ Fairness
-----------------------------------------------------------------------------
(* What the agent promises.                                                *)

\* An aggregation that the agent tracks at rest is, as far as it was told, the
\* node's in NAPI: no event that was coalesced, or emitted while nobody
\* listened, left one that has no record or another's.
RestsAsOwner ==
  (aggr.st = "waiting" /\ aggr.local /\ aggr.armed = {}) => aggr.remote = CN

\* Once NAPI is left alone, an aggregation that the agent found on the node and
\* goes on tracking has its record there for good, be calls lost, or served and
\* their answers lost, and records deleted or given away.
AggrConverges == <>[](aggr.local => napi = CN)

=============================================================================
