------------------------- MODULE AggrTrackingProofs -------------------------
(***************************************************************************)
(* The type invariant of AggrTracking and RestsAsOwner, for every bound:   *)
(* every operator of AggrFSM keeps an object good, and every action of the *)
(* agent and of NAPI makes the object one of those that they return.       *)
(***************************************************************************)
EXTENDS AggrTracking, TLAPS

ObjectStates ==
  {"init", "waiting", "refresh", "create", "stopped", "crashed"}

\* An object in waiting that has a local aggregation, and no setAsserted to
\* come, has seen the node's own record.
Settled(a) ==
  (a.st = "waiting" /\ a.local /\ "set" \notin a.armed) => a.remote = CN

Good(a) == a \in Aggr /\ Settled(a)

IInv == TypeOK /\ Good(aggr)
-----------------------------------------------------------------------------
LEMMA NoAggrGood == Good(NoAggr)
<1>1. NoAggr \in Aggr
  BY DEF NoAggr, Aggr
<1>2. NoAggr.st # "waiting"
  BY DEF NoAggr
<1> QED BY <1>1, <1>2 DEF Good, Settled

LEMMA WatchGood ==
  ASSUME NEW a, Good(a), NEW b, b = WatchAggr(a)
  PROVE  Good(b)
<1>1. CASE a.st = "stopped"
  <2>1. b = [NoAggr EXCEPT !.st = "init"]
    BY <1>1 DEF WatchAggr
  <2>2. b \in Aggr /\ b.st = "init"
    BY <2>1 DEF NoAggr, Aggr
  <2> QED BY <2>2 DEF Good, Settled
<1> QED BY <1>1 DEF WatchAggr

LEMMA SetLocalGood ==
  ASSUME NEW a, Good(a), NEW b, b = SetLocalAggr(a)
  PROVE  Good(b)
<1>1. b \in Aggr /\ "set" \in b.armed
  BY DEF SetLocalAggr, Good, Aggr
<1> QED BY <1>1 DEF Good, Settled

LEMMA GotoFields ==
  ASSUME NEW a \in Aggr, NEW s \in ObjectStates, NEW b, b = AggrGoto(a, s)
  PROVE  /\ b \in Aggr
         /\ b.st = s
         /\ b.local = a.local /\ b.remote = a.remote /\ b.armed = a.armed
  BY DEF AggrGoto, Aggr, ObjectStates

\* A state other than waiting asks nothing of the object.
LEMMA GotoGood ==
  ASSUME NEW a \in Aggr, NEW s \in ObjectStates, NEW b, b = AggrGoto(a, s),
         s # "waiting" \/ ~a.local \/ a.remote = CN
  PROVE  Good(b)
  BY GotoFields DEF Good, Settled

LEMMA RefreshGood ==
  ASSUME NEW a, a \in Aggr, NEW b, b = AggrRefresh(a)
  PROVE  Good(b)
<1>1. PICK g : g = AggrGoto(a, "refresh")
  OBVIOUS
<1>2. g \in Aggr /\ g.st = "refresh"
  BY <1>1, GotoFields DEF ObjectStates
<1>3. b = [g EXCEPT !.call = TRUE]
  BY <1>1 DEF AggrRefresh, AggrAwait
<1>4. b \in Aggr /\ b.st = "refresh"
  BY <1>2, <1>3 DEF Aggr
<1> QED BY <1>4 DEF Good, Settled

LEMMA AskGood ==
  ASSUME NEW a, Good(a), NEW b, b = RefreshAggr(a)
  PROVE  Good(b)
<1>1. /\ b \in Aggr
      /\ b.st = a.st /\ b.local = a.local /\ b.remote = a.remote
      /\ b.armed = a.armed \cup {"refresh"}
  BY DEF RefreshAggr, Good, Aggr
<1> QED BY <1>1 DEF Good, Settled

\* State update leaves in waiting an object without a local aggregation, or
\* one whose record is the node's, whatever the object was.
LEMMA UpdateGood ==
  ASSUME NEW a \in Aggr, NEW b, b = AggrUpdate(a)
  PROVE  Good(b)
<1>1. CASE ~a.local
  <2>1. b = AggrGoto(a, "waiting")
    BY <1>1 DEF AggrUpdate
  <2> QED BY <1>1, <2>1, GotoGood DEF ObjectStates
<1>2. CASE a.local /\ a.remote = None
  <2>1. b = AggrGoto(a, "crashed")
    BY <1>2 DEF AggrUpdate
  <2> QED BY <2>1, GotoGood DEF ObjectStates
<1>3. CASE a.local /\ a.remote # None /\ a.remote # CN
  BY <1>3, NoAggrGood DEF AggrUpdate
<1>4. CASE a.local /\ a.remote # None /\ a.remote = CN
  <2>1. b = AggrGoto(a, "waiting")
    BY <1>4 DEF AggrUpdate
  <2> QED BY <1>4, <2>1, GotoGood DEF ObjectStates
<1> QED BY <1>1, <1>2, <1>3, <1>4

LEMMA BackOffGood ==
  ASSUME NEW a, Good(a), NEW b, b = AggrBackOff(a)
  PROVE  Good(b)
<1>1. /\ b \in Aggr
      /\ b.st = a.st /\ b.local = a.local /\ b.remote = a.remote
      /\ b.armed = a.armed
  BY DEF AggrBackOff, Good, Aggr
<1> QED BY <1>1 DEF Good, Settled

\* The answer holds a record: the object takes it and goes to update.
LEMMA TakenGood ==
  ASSUME NEW a, Good(a), a.reply \in Owners,
         NEW b, b = AggrUpdate([a EXCEPT !.remote = a.reply])
  PROVE  Good(b)
<1>1. PICK c : c = [a EXCEPT !.remote = a.reply]
  OBVIOUS
<1>2. c \in Aggr
  BY <1>1 DEF Good, Aggr
<1> QED BY <1>1, <1>2, UpdateGood

LEMMA AfterCreateGood ==
  ASSUME NEW a, Good(a), NEW b, b = AfterCreateAggr(a)
  PROVE  Good(b)
  BY TakenGood, BackOffGood DEF AfterCreateAggr

LEMMA AfterGetGood ==
  ASSUME NEW a, Good(a), NEW b, b = AfterGetAggr(a)
  PROVE  Good(b)
<1>1. a \in Aggr
  BY DEF Good
<1>2. CASE a.reply \in Owners
  BY <1>2, TakenGood DEF AfterGetAggr
<1>3. CASE a.reply \notin Owners /\ a.reply # 404
  BY <1>3, BackOffGood DEF AfterGetAggr
<1>4. CASE a.reply \notin Owners /\ a.reply = 404 /\ a.remote # None
  BY <1>4, NoAggrGood DEF AfterGetAggr
<1>5. CASE a.reply \notin Owners /\ a.reply = 404 /\ a.remote = None /\ a.local
  <2>1. b = AggrAwait(a, "create")
    BY <1>5 DEF AfterGetAggr
  <2>2. PICK g : g = AggrGoto(a, "create")
    OBVIOUS
  <2>3. g \in Aggr /\ g.st = "create"
    BY <1>1, <2>2, GotoFields DEF ObjectStates
  <2>4. b = [g EXCEPT !.call = TRUE]
    BY <2>1, <2>2 DEF AggrAwait
  <2>5. b \in Aggr /\ b.st = "create"
    BY <2>3, <2>4 DEF Aggr
  <2> QED BY <2>5 DEF Good, Settled
<1>6. CASE a.reply \notin Owners /\ a.reply = 404 /\ a.remote = None /\ ~a.local
  <2>1. b = AggrGoto(a, "waiting")
    BY <1>6 DEF AfterGetAggr
  <2> QED BY <1>1, <1>6, <2>1, GotoGood DEF ObjectStates
<1> QED BY <1>2, <1>3, <1>4, <1>5, <1>6

LEMMA SetGood ==
  ASSUME NEW a, Good(a), NEW b, b = EmitAggrSet(a)
  PROVE  Good(b)
<1>1. PICK c : c = [a EXCEPT !.armed = a.armed \ {"set"}]
  OBVIOUS
<1>2. c \in Aggr /\ c.st = a.st
  BY <1>1 DEF Good, Aggr
<1>3. CASE a.st = "waiting"
  BY <1>1, <1>2, <1>3, UpdateGood DEF EmitAggrSet
<1>4. CASE a.st # "waiting"
  <2>1. b = c
    BY <1>1, <1>4 DEF EmitAggrSet
  <2> QED BY <1>2, <1>4, <2>1 DEF Good, Settled
<1> QED BY <1>3, <1>4

LEMMA EmitRefreshGood ==
  ASSUME NEW a, Good(a), NEW b, b = EmitAggrRefresh(a)
  PROVE  Good(b)
<1>1. PICK c : c = [a EXCEPT !.armed = a.armed \ {"refresh"}]
  OBVIOUS
<1>2. /\ c \in Aggr
      /\ c.st = a.st /\ c.local = a.local /\ c.remote = a.remote
      /\ c.armed = a.armed \ {"refresh"}
  BY <1>1 DEF Good, Aggr
<1>3. CASE a.st \in {"waiting", "refresh"}
  BY <1>1, <1>2, <1>3, RefreshGood DEF EmitAggrRefresh
<1>4. CASE a.st \notin {"waiting", "refresh"}
  <2>1. b = c
    BY <1>1, <1>4 DEF EmitAggrRefresh
  <2> QED BY <1>2, <1>4, <2>1 DEF Good, Settled
<1> QED BY <1>3, <1>4

-----------------------------------------------------------------------------
(* The actions.                                                            *)

Kinds == {"moves", "edits", "faults", "asks"}

LEMMA SpendType ==
  ASSUME TypeOK, NEW kind \in Kinds, Spend(kind)
  PROVE  left' \in [Kinds -> Nat]
<1>1. left \in [Kinds -> Nat] /\ left[kind] - 1 \in Nat
  BY DEF TypeOK, Spend, Kinds
<1> QED BY <1>1 DEF Spend

\* A turn that ends with a good object, and touches nothing else.
LEMMA BecomeKeeps ==
  ASSUME IInv, NEW a, Good(a), Become(a), left' \in [Kinds -> Nat]
  PROVE  IInv'
<1>1. aggr' = a /\ a \in Aggr
  BY DEF Become, Good
<1>2. TypeOK'
  BY <1>1 DEF IInv, TypeOK, Become, Kinds
<1> QED BY <1>1, <1>2 DEF IInv

LEMMA AggrKeeps ==
  ASSUME IInv,
         AggrImmediate \/ SetAsserted \/ RefreshAsserted \/ RefreshTimer
           \/ Callback
  PROVE  IInv'
<1>1. Good(aggr) /\ aggr \in Aggr
  BY DEF IInv, Good
<1>2. left' \in [Kinds -> Nat]
  BY DEF IInv, TypeOK, Kinds, AggrImmediate, SetAsserted, RefreshAsserted,
         RefreshTimer, Callback
<1>3. CASE AggrImmediate
  <2>1. Become(AggrRefresh(aggr))
    BY <1>3 DEF AggrImmediate
  <2> QED BY <1>1, <1>2, <2>1, RefreshGood, BecomeKeeps
<1>4. CASE SetAsserted
  <2>1. Become(EmitAggrSet(aggr))
    BY <1>4 DEF SetAsserted
  <2> QED BY <1>1, <1>2, <2>1, SetGood, BecomeKeeps
<1>5. CASE RefreshAsserted
  <2>1. Become(EmitAggrRefresh(aggr))
    BY <1>5 DEF RefreshAsserted
  <2> QED BY <1>1, <1>2, <2>1, EmitRefreshGood, BecomeKeeps
<1>6. CASE RefreshTimer
  <2>1. Become(AggrRefresh(aggr))
    BY <1>6 DEF RefreshTimer
  <2> QED BY <1>1, <1>2, <2>1, RefreshGood, BecomeKeeps
<1>7. CASE Callback
  <2>1. Become(AfterCreateAggr(aggr)) \/ Become(AfterGetAggr(aggr))
    BY <1>7 DEF Callback
  <2> QED BY <1>1, <1>2, <2>1, AfterCreateGood, AfterGetGood, BecomeKeeps
<1> QED BY <1>3, <1>4, <1>5, <1>6, <1>7

LEMMA FeedKeeps ==
  ASSUME IInv, FeedEvent \/ FeedRefresh
  PROVE  IInv'
<1>1. Good(aggr)
  BY DEF IInv
<1>2. left' \in [Kinds -> Nat]
  BY SpendType DEF IInv, Kinds, FeedEvent, FeedRefresh
<1>3. \/ Become(RefreshAggr(aggr)) \/ Become(WatchAggr(aggr))
      \/ Become(aggr)
  BY DEF FeedEvent, FeedRefresh
<1> QED BY <1>1, <1>2, <1>3, AskGood, WatchGood, BecomeKeeps

\* NAPI's answer arrives.
LEMMA ReplyGood ==
  ASSUME NEW a, Good(a), NEW r \in Replies, NEW b, b = [a EXCEPT !.reply = r]
  PROVE  Good(b)
<1>1. /\ b \in Aggr
      /\ b.st = a.st /\ b.local = a.local /\ b.remote = a.remote
      /\ b.armed = a.armed
  BY DEF Good, Aggr
<1> QED BY <1>1 DEF Good, Settled

LEMMA CallsKeep ==
  ASSUME IInv, ServeCall \/ FailCall
  PROVE  IInv'
<1>1. /\ Good(aggr)
      /\ server' = server /\ load' = load /\ node' = node
  BY DEF IInv, ServeCall, FailCall
<1>2. left' \in [Kinds -> Nat]
  BY SpendType DEF IInv, TypeOK, Kinds, ServeCall, FailCall
<1>3. napi' \in Owners \cup {None}
  BY DEF IInv, TypeOK, ServeCall, FailCall, Owners
<1>4. PICK r \in Replies : aggr' = [aggr EXCEPT !.reply = r]
  <2>1. CASE FailCall
    BY <2>1 DEF FailCall, Replies
  <2>2. CASE ServeCall
    <3>1. /\ CN \in Replies /\ 404 \in Replies /\ 500 \in Replies
          /\ napi # None => napi \in Replies
      BY DEF IInv, TypeOK, Replies, Owners
    <3>2. PICK r : /\ aggr' = [aggr EXCEPT !.reply = r]
                   /\ r = CN \/ r = 500 \/ r = 404
                        \/ (napi # None /\ r = napi)
      BY <2>2 DEF ServeCall
    <3> QED BY <3>1, <3>2
  <2> QED BY <2>1, <2>2
<1>5. Good(aggr')
  BY <1>1, <1>4, ReplyGood
<1>6. TypeOK'
  BY <1>1, <1>2, <1>3, <1>5 DEF IInv, TypeOK, Kinds, Good
<1> QED BY <1>5, <1>6 DEF IInv

LEMMA ServerKeeps ==
  ASSUME IInv,
         ServerImmediate \/ LoadReads \/ OnSysinfo \/ LoadFails
           \/ LoadAgain \/ ServerRefresh
  PROVE  IInv'
<1>1. Good(aggr)
  BY DEF IInv
<1>2. left' \in [Kinds -> Nat]
  BY SpendType DEF IInv, TypeOK, Kinds, ServerImmediate, LoadReads, OnSysinfo,
         LoadFails, LoadAgain, ServerRefresh
<1>3. Good(aggr')
  <2>1. CASE OnSysinfo
    <3>1. aggr' = SetLocalAggr(WatchAggr(aggr)) \/ aggr' = aggr
      BY <2>1 DEF OnSysinfo
    <3> QED BY <1>1, <3>1, WatchGood, SetLocalGood
  <2>2. CASE aggr' = aggr
    BY <1>1, <2>2
  <2> QED BY <2>1, <2>2 DEF ServerImmediate, LoadReads, LoadFails, LoadAgain,
                            ServerRefresh
<1>4. server' \in {"init", "refresh", "retry", "waiting"}
  BY DEF IInv, TypeOK, ServerImmediate, LoadReads, OnSysinfo, LoadFails,
         LoadAgain, ServerRefresh
<1>5. load' \in BOOLEAN \cup {None} /\ node' = node /\ napi' = napi
  BY DEF IInv, TypeOK, ServerImmediate, LoadReads, OnSysinfo, LoadFails,
         LoadAgain, ServerRefresh
<1>6. TypeOK'
  BY <1>2, <1>3, <1>4, <1>5 DEF IInv, TypeOK, Kinds, Good
<1> QED BY <1>3, <1>6 DEF IInv

LEMMA OthersKeep ==
  ASSUME IInv, NodeChange \/ NapiChange \/ Restart
  PROVE  IInv'
<1>1. left' \in [Kinds -> Nat]
  BY SpendType DEF IInv, TypeOK, Kinds, NodeChange, NapiChange, Restart
<1>2. Good(aggr')
  BY NoAggrGood DEF IInv, NodeChange, NapiChange, Restart
<1>3. /\ server' \in {"init", "refresh", "retry", "waiting"}
      /\ load' \in BOOLEAN \cup {None}
  BY DEF IInv, TypeOK, NodeChange, NapiChange, Restart
<1>4. node' \in BOOLEAN
  <2>1. (~node) \in BOOLEAN
    OBVIOUS
  <2> QED BY <2>1 DEF IInv, TypeOK, NodeChange, NapiChange, Restart
<1>5. napi' \in Owners \cup {None}
  BY DEF IInv, TypeOK, NodeChange, NapiChange, Restart
<1>6. TypeOK'
  BY <1>1, <1>2, <1>3, <1>4, <1>5 DEF TypeOK, Kinds, Good
<1> QED BY <1>2, <1>6 DEF IInv

LEMMA InitHolds ==
  ASSUME Init
  PROVE  IInv
<1>1. Good(aggr)
  BY NoAggrGood DEF Init
<1>2. left \in [Kinds -> Nat]
  BY AggrAssumption DEF Init, Kinds
<1>3. TypeOK
  BY <1>1, <1>2 DEF Init, TypeOK, Good, Kinds
<1> QED BY <1>1, <1>3 DEF IInv

LEMMA Inductive ==
  ASSUME IInv, [Next]_vars
  PROVE  IInv'
<1>1. CASE Next
  BY <1>1, AggrKeeps, FeedKeeps, CallsKeep, ServerKeeps, OthersKeep DEF Next
<1>2. CASE UNCHANGED vars
  BY <1>2 DEF vars, IInv, TypeOK, Good, Settled
<1> QED BY <1>1, <1>2

-----------------------------------------------------------------------------
\* The inductive invariant of AggrTracking: types, and the object is good.
THEOREM AggrInvariant == Spec => []IInv
<1>1. Init => IInv
  BY InitHolds
<1>2. IInv /\ [Next]_vars => IInv'
  BY Inductive
<1> QED BY <1>1, <1>2, PTL DEF Spec

\* Every variable of AggrTracking keeps its type (AggrFSM's states and fields,
\* lib/aggr-fsm.js), for every bound.
THEOREM AggrTypeCorrect == Spec => []TypeOK
<1>1. IInv => TypeOK
  BY DEF IInv
<1> QED BY <1>1, AggrInvariant, PTL

\* An aggregation at rest has been seen as the node's own in NAPI, however
\* many events, failures and restarts came before (lib/aggr-fsm.js, states
\* waiting and update).
THEOREM AggrRestsAsOwner == Spec => []RestsAsOwner
<1>1. IInv => RestsAsOwner
  BY DEF IInv, Good, Settled, RestsAsOwner
<1> QED BY <1>1, AggrInvariant, PTL
=============================================================================
