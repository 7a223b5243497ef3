------------------------------ MODULE KeyedMutex ------------------------------
(***************************************************************************)
(* What the per-key locks of the OCI load balancer model promise to their  *)
(* callers: at most one operation runs under a key at a time, operations   *)
(* under different keys do not exclude each other, and nothing of how the  *)
(* lock objects are created, counted and discarded is visible.             *)
(* KeyedLocks implements this specification.                               *)
(***************************************************************************)
CONSTANTS
  Workers, \* reconciler goroutines
  Keys,    \* lock keys: a routing policy or a certificate of one load balancer
  Nil      \* no worker

VARIABLE
  holder   \* the worker that runs an operation under each key, or Nil

Init == holder = [k \in Keys |-> Nil]

Enter(w, k) ==
  /\ holder[k] = Nil
  /\ holder' = [holder EXCEPT ![k] = w]

Leave(w, k) ==
  /\ holder[k] = w
  /\ holder' = [holder EXCEPT ![k] = Nil]

Next == \E w \in Workers, k \in Keys : Enter(w, k) \/ Leave(w, k)

Spec == Init /\ [][Next]_holder

=============================================================================
