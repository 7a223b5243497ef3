------------------------------- MODULE TLSRouteMC ------------------------------
(***************************************************************************)
(* TLSRoute for TLC, with a terminating listener a and a passthrough       *)
(* listener n.  Two routes are created at the listener of the Load         *)
(* Balancer, where the younger takes over from the older, or one route is  *)
(* alone.                                                                  *)
(*   TLSRouteMC     one of the two may move once; the one alone starts at  *)
(*                  both listeners, and there is one change of any kind;   *)
(*   TLSRouteHeirs  the two stay where they are until they are deleted;    *)
(*                  the one alone starts at either listener, and there is  *)
(*                  one change of any kind; with fairness;                 *)
(*   TLSRouteMoves  what the tests say of a moved route.                   *)
(***************************************************************************)
EXTENDS TLSRoute, TLC

CONSTANTS a, n

OneEach == {{a}, {n}}
OneOrBoth == {{a}, {n}, {a, n}}

TwoAtA == {[r \in {1, 2} |-> {a}]}
TwoOrOneAtBoth == TwoAtA \cup [{1} -> {{a, n}}]
TwoOrOneAtEither == TwoAtA \cup [{1} -> {{a}, {n}}]

AnyIfAlone == [group \in SUBSET Routes |-> IF group = {1} THEN EditKinds ELSE {}]
MovesOnly == [group \in SUBSET Routes |-> {"route"}]
MovesOrAnyIfAlone == [AnyIfAlone EXCEPT ![{1, 2}] = {"route"}]

=============================================================================
