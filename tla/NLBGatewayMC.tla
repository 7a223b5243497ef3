------------------------------ MODULE NLBGatewayMC ------------------------------
(***************************************************************************)
(* NLBGateway for TLC: two listeners, the first of which has one of two    *)
(* ports or the unsupported protocol HTTP, while the second, a TLS or TCP  *)
(* listener, may be missing, and someone else's listener may have its      *)
(* name.                                                                   *)
(*   NLBGatewayMC      with ListenerSets, whose listeners are merged when  *)
(*                     the request is resolved; two generations, a restart *)
(*   NLBGatewayReport  without ListenerSets; two generations, no restart   *)
(***************************************************************************)
EXTENDS NLBGateway, TLC

CONSTANTS port1, port2, tls, http

MCSpecs ==
  {[l \in Names |-> IF l = 1 THEN s[1] ELSE s[2]] :
     s \in {<<port1, Nil>>, <<port2, Nil>>, <<port1, port1>>, <<port1, tls>>, <<http, Nil>>}}

SecondForeign == {{}, {2}}
NoneForeign == {{}}

=============================================================================
