------------------------- MODULE ALBGatewayMC -------------------------
(***************************************************************************)
(* A Gateway with an HTTPS listener, 1, that a GRPCRoute uses, and a TLS   *)
(* listener, 2; either may be taken away and put back.  Users make two     *)
(* changes: edits of the Gateway, new versions of the Secret, with or      *)
(* without its having been missing meanwhile, or a deletion.               *)
(***************************************************************************)
EXTENDS ALBGateway, TLC

AnyListeners == {{1, 2}, {1}, {2}}

=============================================================================
