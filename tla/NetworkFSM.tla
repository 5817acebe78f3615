----------------------------- MODULE NetworkFSM -----------------------------
(***************************************************************************)
(* The class NetworkFSM of lib/net-fsm.js as operators on a record: the    *)
(* object that follows one network in NAPI and emits 'changed'.            *)
(***************************************************************************)
CONSTANTS
  Routes,  \* values of DIFF_FIELDS; routes and resolvers are among them
  None     \* null

\* "none": app.nets has no entry.  call: a getNetwork() is awaited; reply: its
\* answer.  armed: emitDelayed('changed', 0).
Net == [st    : {"none", "init", "refresh", "waiting", "stopped"},
        old   : Routes \cup {None},
        cur   : Routes \cup {None},
        armed : BOOLEAN,
        call  : BOOLEAN,
        reply : [code : {200}, res : Routes] \cup [code : {404, 500}]
                  \cup {None},
        timer : BOOLEAN]

NoNet == [st |-> "none", old |-> None, cur |-> None, armed |-> FALSE,
          call |-> FALSE, reply |-> None, timer |-> FALSE]

\* watchNet(uuid)
WatchNet(n) == IF n.st = "none" THEN [NoNet EXCEPT !.st = "init"] ELSE n

NetGoto(n, s) ==
  [n EXCEPT !.st = s, !.call = FALSE, !.reply = None, !.timer = FALSE]

EnterNetRefresh(n) ==
  [NetGoto(n, "refresh") EXCEPT !.old = n.cur, !.call = TRUE]

\* hasChanged(DIFF_FIELDS, cur, old)
NetHasChanged(n) == n.old = None \/ n.cur # n.old

EnterNetWaiting(n) ==
  [NetGoto(n, "waiting") EXCEPT !.armed = n.armed \/ NetHasChanged(n)]

\* afterGet
AfterGetNetwork(n) ==
  IF n.reply.code = 404 THEN NetGoto(n, "stopped")
  ELSE IF n.reply.code # 200
       THEN [n EXCEPT !.call = FALSE, !.reply = None, !.timer = TRUE]
  ELSE EnterNetWaiting([n EXCEPT !.cur = n.reply.res])

\* refresh() emits at once; only waiting and stopped listen.
RefreshNet(n) ==
  IF n.st \in {"waiting", "stopped"} THEN EnterNetRefresh(n) ELSE n

\* stop() emits at once; only refresh listens.
StopNet(n) == IF n.st = "refresh" THEN NetGoto(n, "stopped") ELSE n
=============================================================================
