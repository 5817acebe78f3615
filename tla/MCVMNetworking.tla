---------------------------- MODULE MCVMNetworking ----------------------------
(***************************************************************************)
(* Instances of VMNetworking for TLC: one VM with two NICs.                *)
(***************************************************************************)
EXTENDS VMNetworking, TLC

CONSTANTS m1, m2, n1, n2, d1, d2, g1, g2, a, b

TwoNics == <<m1, m2>>
OneNetwork == [m \in Nics |-> n1]
TwoNetworks == [m \in {m1, m2} |-> IF m = m1 THEN n1 ELSE n2]

To(d, g) == [x \in {d} |-> g]
Fields(r, rs) == [routes |-> r, resolvers |-> rs]

\* Routes that clash, or come and go, and resolvers that overlap.
FirstFields == Fields(To(d1, g1), <<a>>)
NetFields == {FirstFields, Fields(To(d1, g2) @@ To(d2, g1), <<a, b>>)}

VmWith(s, own) ==
  [has |-> "vm",
   vm |-> [state |-> s, own |-> own, routes |-> To(d2, g1),
           resolvers |-> <<b>>]]
Booting == VmWith("provisioning", FALSE)
Booted == VmWith("running", FALSE)

Bound(z, m, e, f, v, t) ==
  [zone |-> z,
   left |-> [moves |-> m, edits |-> e, faults |-> f, events |-> v,
             timers |-> t]]

\* A network changes; or a call fails, and the changefeed reports or a long timer
\* fires in the midst of it.
Edited == {Bound(Booted, 0, 1, 0, 0, 0)}
Faulty == {Bound(Booted, 0, 0, 1, 1, 0), Bound(Booted, 0, 0, 1, 0, 1)}
Moved == {Bound(Booting, 1, 0, 0, 0, 0), Bound(Booted, 1, 0, 0, 0, 0)}
OwnVm == {Bound(VmWith("running", TRUE), 0, 0, 0, 0, 0)}

Changes == Edited \cup Faulty
ChangesAndMoves == Changes \cup Moved \cup OwnVm
=============================================================================
