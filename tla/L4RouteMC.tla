------------------------------- MODULE L4RouteMC -------------------------------
(***************************************************************************)
(* L4Route for TLC, two instances.                                         *)
(*   L4RouteMC     two TCPRoutes and two listeners; a route is attached    *)
(*                 to b, which refuses the older one, and may join and     *)
(*                 leave a; users make one edit, the controller restarts   *)
(*                 once;                                                   *)
(*   L4RouteKinds  one listener that changes its protocol, for which       *)
(*                 there are either two TCPRoutes, of which the younger    *)
(*                 takes over from the older, or a TCPRoute and a          *)
(*                 UDPRoute, whose controllers share it; users make one    *)
(*                 edit; with fairness.                                    *)
(***************************************************************************)
EXTENDS L4Route, TLC

CONSTANTS tcp, udp, a, b

OneKind == [r \in Routes |-> tcp]
LastIsUDP == [r \in Routes |-> IF r = 3 THEN udp ELSE tcp]
Everyone == {Routes}
HeirOrOtherKind == {{1, 2}, {1, 3}}
AllPermitted == [l \in Listeners |-> Routes]
OlderRefused == [l \in Listeners |-> IF l = b THEN {2} ELSE Routes]
AnySpecs == SUBSET Listeners \ {{}}
AtB == {spec \in AnySpecs : b \in spec}

=============================================================================
