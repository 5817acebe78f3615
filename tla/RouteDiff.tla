------------------------------ MODULE RouteDiff ------------------------------
(***************************************************************************)
(* The difference between the routes that a VM has and the routes that its *)
(* NICs bring, as InstanceFSM.state_update.vm computes it for vmadm update *)
(* (lib/inst-fsm.js).  Routes are functions from destination to gateway.   *)
(***************************************************************************)
EXTENDS Naturals

\* set_routes: what is left of target.
SetRoutes(current, target) ==
  [dst \in {d \in DOMAIN target : d \notin DOMAIN current
                                    \/ current[d] # target[d]} |-> target[dst]]

\* remove_routes: what is left of current.
RemoveRoutes(current, target) == DOMAIN current \ DOMAIN target

\* vmadm update with set_routes and remove_routes, on a VM that has routes.
Applied(routes, set, remove) ==
  [dst \in (DOMAIN routes \ remove) \cup DOMAIN set |->
     IF dst \in DOMAIN set THEN set[dst] ELSE routes[dst]]
=============================================================================
