------------------------------ MODULE VMHistory ------------------------------
(***************************************************************************)
(* The VMs of the node as vmadm and vminfod know them, through time, and   *)
(* what NetAgent.updateVMs() was told of them.  A list of VMs is known by  *)
(* its position in that history.                                           *)
(***************************************************************************)
EXTENDS Naturals, Sequences

CONSTANTS
  VMs,     \* the VMs that this node has or may have
  Cfgs,    \* values of a VM's watched fields: nics, routes, resolvers, state
  Changes  \* bound: changes of the node's VMs

ASSUME ChangesAssumption == Changes \in Nat

VARIABLES
  past,  \* past[i]: the i-th version of the node's VMs; the last is now
  told,  \* version of the last list given to updateVMs(); 0: none yet
  empty  \* updateVMs() was last given {} instead of a version

history == <<past, told, empty>>

\* What there is to know of a VM: it does not exist, it is flagged
\* do_not_inventory, or it is listed with its configuration.
Entries == [has : {"gone", "hidden"}] \cup [has : {"listed"}, cfg : Cfgs]

now == Len(past)

HistoryInit ==
  /\ \E node \in [VMs -> Entries] : past = <<node>>
  /\ told = 0
  /\ empty = FALSE

\* vmadm creates, modifies, hides, shows or deletes a VM.
Change ==
  /\ now <= Changes
  /\ \E v \in VMs, e \in Entries :
       /\ e # past[now][v]
       /\ past' = Append(past, [past[now] EXCEPT ![v] = e])
  /\ UNCHANGED <<told, empty>>

\* app.updateVMs(list), the list being version i or, for 0, an empty array.
UpdateVMs(i) ==
  /\ told' = IF i = 0 THEN told ELSE i
  /\ empty' = (i = 0)
  /\ UNCHANGED past
=============================================================================
