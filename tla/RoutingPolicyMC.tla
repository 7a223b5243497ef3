---------------------------- MODULE RoutingPolicyMC ----------------------------
(***************************************************************************)
(* RoutingPolicy for TLC: an HTTPRoute and a GRPCRoute, each reconciled by *)
(* its own controller, and the Gateway share one policy.  A route has one  *)
(* rule name that is absent or forwards to one of two backends, which is   *)
(* enough to add, change and remove a rule; the default rule may be found  *)
(* drifted.  One work request outlives its wait.                           *)
(***************************************************************************)
EXTENDS RoutingPolicy, TLC

CONSTANTS httpRoute, grpcRoute, http, grpc

MCReconciles ==
  [w \in RouteWorkers |-> IF w = http THEN {httpRoute} ELSE {grpcRoute}]

\* Exchanging the two routes together with their controllers changes nothing.
Exchange ==
  {f \in Permutations(Routes \cup RouteWorkers) :
     /\ \A r \in Routes : f[r] \in Routes
     /\ \A w \in RouteWorkers : Reconciles[f[w]] = {f[r] : r \in Reconciles[w]}}

=============================================================================
