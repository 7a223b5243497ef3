------------------------------ MODULE KeyedLocks ------------------------------
(***************************************************************************)
(* The reference-counted per-key locks of oci_load_balancer_model.go       *)
(* (routingPolicyLocks and loadBalancerCertificateLocks, which share their *)
(* acquire and release code).  A worker that calls withLock(key, op)       *)
(*                                                                         *)
(*   - acquires the key's entry: under the map's own mutex it installs a   *)
(*     new lock object when the key has none, and counts a reference;      *)
(*   - locks the object's mutex, runs op, and unlocks it;                  *)
(*   - releases the entry: under the map's mutex it drops the reference    *)
(*     and, when that was the last one, deletes the key's entry.           *)
(*                                                                         *)
(* acquire and release run wholly under the map's mutex and block nowhere, *)
(* so each is one step; everything between them interleaves.  The unlock   *)
(* and the release are deferred, so an operation that fails or panics      *)
(* leaves like one that succeeds.                                          *)
(*                                                                         *)
(* certificate is the field only loadBalancerCertificateLock has: the      *)
(* certificate a successful operation left on the lock object for those    *)
(* who wait behind it.                                                     *)
(***************************************************************************)
EXTENDS Naturals, FiniteSets

CONSTANTS
  Workers, \* reconciler goroutines
  Keys,    \* load balancer id and policy (or certificate) name
  Locks,   \* lock objects the allocator can hand out
  Nil      \* no lock, no worker

ASSUME KeyedLocksAssumption ==
  /\ IsFiniteSet(Workers)
  /\ Nil \notin Workers
  /\ Nil \notin Locks

VARIABLES
  locks,       \* the map: key -> lock object, or Nil
  refs,        \* lock object -> its reference count
  owner,       \* lock object -> the worker holding its mutex, or Nil
  certificate, \* lock object -> whether it carries a cached certificate
  pc,          \* worker -> where it is in withLock
  key,         \* worker -> the key it was called with
  lock,        \* worker -> the lock object acquire returned to it
  created      \* history: key -> certificates created since the key's entry was installed

vars == <<locks, refs, owner, certificate, pc, key, lock, created>>

Stages == {"idle", "acquired", "locked", "unlocked"}

TypeOK ==
  /\ locks \in [Keys -> Locks \cup {Nil}]
  /\ refs \in [Locks -> Nat]
  /\ owner \in [Locks -> Workers \cup {Nil}]
  /\ certificate \in [Locks -> BOOLEAN]
  /\ pc \in [Workers -> Stages]
  /\ key \in [Workers -> Keys \cup {Nil}]
  /\ lock \in [Workers -> Locks \cup {Nil}]
  /\ created \in [Keys -> Nat]

(***************************************************************************)
(* UnlockForgotten, CacheIgnored, DroppedTwice and CountedBeforeDrop below *)
(* are not part of the specification: each is what a bug would make of the *)
(* operator after it, and shows which property would notice.               *)
(***************************************************************************)

\* The workers that hold a reference to lock object o.
Users(o) == {w \in Workers : pc[w] # "idle" /\ lock[w] = o}

\* A lock object that &routingPolicyLock{} may return: no one can reach it.
Fresh(o) == Users(o) = {} /\ \A k \in Keys : locks[k] # o

Init ==
  /\ locks = [k \in Keys |-> Nil]
  /\ refs = [o \in Locks |-> 0]
  /\ owner = [o \in Locks |-> Nil]
  /\ certificate = [o \in Locks |-> FALSE]
  /\ pc = [w \in Workers |-> "idle"]
  /\ key = [w \in Workers |-> Nil]
  /\ lock = [w \in Workers |-> Nil]
  /\ created = [k \in Keys |-> 0]

\* acquire finds the key's entry and counts the reference.
AcquireKnown(w, k) ==
  /\ pc[w] = "idle"
  /\ locks[k] # Nil
  /\ refs' = [refs EXCEPT ![locks[k]] = @ + 1]
  /\ lock' = [lock EXCEPT ![w] = locks[k]]
  /\ key' = [key EXCEPT ![w] = k]
  /\ pc' = [pc EXCEPT ![w] = "acquired"]
  /\ UNCHANGED <<locks, owner, certificate, created>>

\* acquire finds no entry: it installs a new lock object with one reference.
AcquireNew(w, k) ==
  /\ pc[w] = "idle"
  /\ locks[k] = Nil
  /\ \E o \in Locks :
       /\ Fresh(o)
       /\ locks' = [locks EXCEPT ![k] = o]
       /\ refs' = [refs EXCEPT ![o] = 1]
       /\ owner' = [owner EXCEPT ![o] = Nil]
       /\ certificate' = [certificate EXCEPT ![o] = FALSE]
       /\ lock' = [lock EXCEPT ![w] = o]
  /\ created' = [created EXCEPT ![k] = 0]
  /\ key' = [key EXCEPT ![w] = k]
  /\ pc' = [pc EXCEPT ![w] = "acquired"]

\* lock.mu.Lock() returns once no one else holds the mutex.
Lock(w) ==
  /\ pc[w] = "acquired"
  /\ owner[lock[w]] = Nil
  /\ owner' = [owner EXCEPT ![lock[w]] = w]
  /\ pc' = [pc EXCEPT ![w] = "locked"]
  /\ UNCHANGED <<locks, refs, certificate, key, lock, created>>

\* The deferred lock.mu.Unlock().
UnlockForgotten(w) == owner' = owner
Unlock(w) == owner' = [owner EXCEPT ![lock[w]] = Nil]

\* The certificate an earlier holder of the lock left behind, if any.
CacheIgnored(w) == FALSE
Cached(w) == certificate[lock[w]]

\* The operation succeeds.  For a certificate it returns the cached one, or
\* creates one and leaves it on the lock object.
Succeed(w) ==
  /\ pc[w] = "locked"
  /\ created' = [created EXCEPT ![key[w]] = IF Cached(w) THEN @ ELSE @ + 1]
  /\ certificate' = [certificate EXCEPT ![lock[w]] = TRUE]
  /\ Unlock(w)
  /\ pc' = [pc EXCEPT ![w] = "unlocked"]
  /\ UNCHANGED <<locks, refs, key, lock>>

\* The operation fails or panics: the mutex is unlocked, nothing is cached.
Fail(w) ==
  /\ pc[w] = "locked"
  /\ Unlock(w)
  /\ pc' = [pc EXCEPT ![w] = "unlocked"]
  /\ UNCHANGED <<locks, refs, certificate, key, lock, created>>

\* The references left once this worker has dropped its own.
DroppedTwice(w) == refs[lock[w]] - 2
Remaining(w) == refs[lock[w]] - 1

\* release deletes the key's entry when no reference is left and the entry is
\* still this lock object.
EntryIsOurs(w) == locks[key[w]] = lock[w]
CountedBeforeDrop(w) == refs[lock[w]] = 0 /\ EntryIsOurs(w)
LastReference(w) == Remaining(w) = 0 /\ EntryIsOurs(w)

Release(w) ==
  /\ pc[w] = "unlocked"
  /\ refs' = [refs EXCEPT ![lock[w]] = Remaining(w)]
  /\ locks' = IF LastReference(w) THEN [locks EXCEPT ![key[w]] = Nil] ELSE locks
  /\ pc' = [pc EXCEPT ![w] = "idle"]
  /\ lock' = [lock EXCEPT ![w] = Nil]
  /\ key' = [key EXCEPT ![w] = Nil]
  /\ UNCHANGED <<owner, certificate, created>>

Acquire(w) == \E k \in Keys : AcquireKnown(w, k) \/ AcquireNew(w, k)

Next ==
  \E w \in Workers :
    Acquire(w) \/ Lock(w) \/ Succeed(w) \/ Fail(w) \/ Release(w)

(***************************************************************************)
(* sync.Mutex hands a starving waiter the lock (starvation mode), hence    *)
(* strong fairness of Lock; an operation ends because every OCI wait in it *)
(* has a deadline (work_requests_watcher.go), and then the deferred calls  *)
(* run.  Nothing makes a worker call withLock again.                       *)
(***************************************************************************)
Fairness ==
  \A w \in Workers :
    /\ SF_vars(Lock(w))
    /\ WF_vars(Succeed(w) \/ Fail(w))
    /\ WF_vars(Release(w))

Spec == Init /\ [][Next]_vars
FairSpec == Spec /\ Fairness

----------------------------------------------------------------------------
\* Two operations never run under the same key at once, although the key's lock
\* object may have been deleted from the map and replaced while workers waited.
MutualExclusion ==
  \A w1, w2 \in Workers :
    pc[w1] = "locked" /\ pc[w2] = "locked" /\ key[w1] = key[w2] => w1 = w2

\* The map holds an entry exactly for the keys some worker is using: nothing
\* leaks when policies and certificates come and go, and no entry disappears
\* under a worker that still counts on it.
EntriesAreInUse ==
  \A k \in Keys :
    locks[k] # Nil <=> \E w \in Workers : pc[w] # "idle" /\ key[w] = k

\* While the entry of a certificate lives, the certificate is created at most
\* once: who waited behind the creator takes the cached certificate.
CreatedAtMostOnce == \A k \in Keys : locks[k] # Nil => created[k] <= 1

\* The mapping to KeyedMutex: who runs an operation under each key.
holderOf ==
  [k \in Keys |->
     IF \E w \in Workers : pc[w] = "locked" /\ key[w] = k
     THEN CHOOSE w \in Workers : pc[w] = "locked" /\ key[w] = k
     ELSE Nil]

Mutex == INSTANCE KeyedMutex WITH holder <- holderOf

\* The reference-counted locks implement one plain mutex per key.
ImplementsMutex == Mutex!Spec

\* Every caller gets its turn: a worker that acquired the entry eventually runs.
EveryCallerRuns ==
  \A w \in Workers : pc[w] = "acquired" ~> pc[w] = "locked"

=============================================================================
