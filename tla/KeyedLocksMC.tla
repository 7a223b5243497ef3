----------------------------- MODULE KeyedLocksMC -----------------------------
(***************************************************************************)
(* KeyedLocks for TLC: three workers (the HTTPRoute, the GRPCRoute and the *)
(* Gateway controller each run one reconcile at a time) contend for two    *)
(* keys.  One lock object per worker is enough: a worker that allocates    *)
(* one holds none, and every other object in use is some other worker's.   *)
(***************************************************************************)
EXTENDS KeyedLocks

=============================================================================
