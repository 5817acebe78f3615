---------------------------- MODULE MCNicTracking ----------------------------
(***************************************************************************)
(* Instances of NicTracking for TLC: what the node and NAPI start with and *)
(* what others may make of them, for each question the runs ask.           *)
(***************************************************************************)
EXTENDS NicTracking

CONSTANTS v1, v2, c1, c2, r1

With(s, c) == [has |-> "nic", state |-> s, cfg |-> c]
Gone   == [has |-> "gone"]
Hidden == [has |-> "hidden"]
Bare   == [has |-> "bare"]

Rec(o, s, c) == [owner |-> o, state |-> s, cfg |-> c, routes |-> r1]
First(n) == [nic |-> n, etag |-> 1]

Running(o) == Rec(o, "running", c1)
Provisioning(o) == Rec(o, "provisioning", c1)

\* The node with the NIC on v1, on every VM, or on the node itself.
OnV1(s) == [h \in Hosts |-> IF h = v1 THEN With(s, c1) ELSE Bare]
OnVMs   == [h \in Hosts |-> IF h = CN THEN Bare ELSE With("running", c1)]
OnCN    == [h \in Hosts |-> IF h = CN THEN With("running", c1) ELSE Bare]

Bounds(m, e, f, r, v) ==
  [moves |-> m, edits |-> e, faults |-> f, restarts |-> r, events |-> v]

StartsOf(zones, records, bounds) ==
  {[zone |-> z, napi |-> n, left |-> bounds] : z \in zones, n \in records}

\* A VM that is one of zs may become one of ys.
VMsMay(zs, ys) == [h \in Hosts |-> IF h = CN THEN {} ELSE zs \X ys]

\* NAPI's record, whatever it is now, may become one of ns.
NapiMay(ns) == (RemoteNic \cup {None}) \X ns
NoEdits == {}

\* A NIC whose record is there, on one VM or on two, that is hidden, destroyed
\* or unplumbed; the record is taken away, or given to the other VM or to
\* another node.
SharedStarts ==
  StartsOf({OnV1("running"), OnVMs}, {First(Running(v1))},
           Bounds(1, 2, 0, 0, 0))
AnyMoves == VMsMay(Zones, {Gone, Hidden, Bare})
Taken == NapiMay({None, Running(v2), Running(Foreign)})

\* A NIC whose record is missing or behind, that comes and goes, and its VM
\* with it; the record is given to another node, or rewritten.  Or the record is
\* not settled, a call fails, the agent is restarted and the changefeed reports
\* it.  Or the changefeed reports it before the VM is listed, and the record is
\* deleted.
LifeStarts ==
  StartsOf({OnV1("running")}, {None, First(Rec(v1, "stopped", c1))},
           Bounds(2, 1, 0, 0, 0))
  \cup StartsOf({OnV1("running")}, {First(Provisioning(v1))},
                Bounds(1, 0, 1, 1, 1))
  \cup StartsOf({OnV1("running")}, {First(Running(v1))},
                Bounds(0, 1, 0, 0, 1))
LifeMoves ==
  VMsMay(Zones, {Gone, Bare, With("running", c1), With("halted", c1)})
Rewritten ==
  NapiMay({Running(Foreign), Rec(v1, "running", c2)})
    \cup {<<Running(v1), None>>}

\* A running VM whose record is missing or not settled; one whose record is
\* someone else's, the node's own NIC likewise, and a restart; a halted VM
\* whose record is settled, which is the one that may be destroyed.
RecoveryStarts ==
  StartsOf({OnV1("running")}, {None, First(Rec(v1, "provisioning", c2))},
           Bounds(1, 0, 1, 0, 0))
  \cup StartsOf({OnV1("running")}, {First(Running(v1)), First(Running(Foreign))},
                Bounds(0, 0, 2, 1, 0))
  \cup StartsOf({OnCN}, {None, First(Provisioning(Admin)), First(Running(CN)),
                         First(Running(Foreign))},
                Bounds(0, 0, 2, 1, 0))
  \cup StartsOf({OnV1("halted")}, {First(Rec(v1, "stopped", c1))},
                Bounds(1, 1, 1, 0, 0))
RecoveryMoves ==
  [h \in Hosts |->
    IF h = CN THEN {} ELSE {<<With("running", c1), With("halted", c1)>>,
                            <<With("halted", c1), Gone>>}]
Reconfigured == {<<Rec(v1, s, c1), Rec(v1, s, c2)>> : s \in {"running", "stopped"}}

\* For the runs that end in a violation.
MissingStart(bounds) == StartsOf({OnV1("running")}, {None}, bounds)
UnseenStart == MissingStart(Bounds(0, 0, 0, 0, 1))
UnmadeStart == MissingStart(Bounds(1, 0, 1, 0, 0))
UnsettledStart ==
  StartsOf({OnV1("running")}, {First(Provisioning(v1))}, Bounds(1, 0, 0, 0, 0))
SettledStart ==
  StartsOf({OnV1("running")}, {First(Running(v1))}, Bounds(0, 1, 0, 0, 0))
NoMoves == VMsMay({}, {})
LeaveMoves == VMsMay(Zones, {Gone, Bare})
=============================================================================
