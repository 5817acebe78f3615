------------------------------- MODULE VMFeed -------------------------------
(***************************************************************************)
(* What a source of VM information promises NetAgent.updateVMs(), be it    *)
(* WatcherFSM or VmadmWatcherFSM: the node's VMs go through versions, and  *)
(* each list handed over is one of them, never older than the one before.  *)
(* The only other list it may hand over is the empty one.                  *)
(***************************************************************************)
EXTENDS Naturals

VARIABLES
  node,  \* the version of the node's VMs
  told,  \* the version of the last list that was one; 0: no list yet
  empty  \* the last list was empty for want of information

vars == <<node, told, empty>>

Init == node = 1 /\ told = 0 /\ empty = FALSE

\* The node's VMs change.
Change == node' = node + 1 /\ UNCHANGED <<told, empty>>

\* updateVMs() with the list of a version.
Tell == told' \in told .. node /\ empty' = FALSE /\ UNCHANGED node

\* updateVMs() with the empty list.
TellNothing == empty' = TRUE /\ UNCHANGED <<node, told>>

Next == Change \/ Tell \/ TellNothing

Spec == Init /\ [][Next]_vars
=============================================================================
