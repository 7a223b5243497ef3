------------------------------- MODULE L7RouteMC -------------------------------
(***************************************************************************)
(* L7Route for TLC, two instances with one parent.                         *)
(*   L7RouteMC      an HTTPRoute of another namespace with two listeners   *)
(*                  and two services, so that it moves and is closed out;  *)
(*                  users make two edits; with fairness;                   *)
(*   L7RouteShared  an HTTPRoute and a GRPCRoute, whose controllers share  *)
(*                  a listener and a backend set; the controller restarts  *)
(*                  once.                                                  *)
(***************************************************************************)
EXTENDS L7Route, TLC

CONSTANTS http, grpc, gw, a, b, s1, s2

KindEach == [r \in Routes |-> IF r = 1 THEN http ELSE grpc]
AllToFirst == [r \in Routes |-> s1]
TwoListeners == [p \in Parents |-> {a, b}]
OneListener == [p \in Parents |-> {a}]

=============================================================================
