-------------------------------- MODULE L4Route --------------------------------
(***************************************************************************)
(* TCPRoutes and UDPRoutes on one OCI Network Load Balancer                *)
(* (tcproute_model.go, udproute_model.go, tcproute_controller.go).  Every  *)
(* listener of the Gateway has one backend set, and the oldest route       *)
(* attached to the listener fills it; the others are rejected and wait.    *)
(*                                                                         *)
(*   - programming a route fills the backend set first and records it in   *)
(*     the route's finalizer and annotation afterwards;                    *)
(*   - deleting a recorded route hands the listener to the next oldest     *)
(*     route, or empties the set, and then removes the finalizer;          *)
(*   - a recorded route that no listener matches any more is detached: its *)
(*     recorded sets are emptied and the finalizer is removed.             *)
(*                                                                         *)
(* Each kind of route has a controller with one worker.  It reads routes   *)
(* from an informer cache that lags behind the API server; an Update of a  *)
(* copy that is out of date is a conflict.  Any call to Kubernetes or OCI  *)
(* may fail, and the route is then queued again.                           *)
(*                                                                         *)
(* The finalizer and the annotation of recorded sets are always written    *)
(* together, so a route has the finalizer exactly when `recorded' is not   *)
(* empty.  Status conditions are left out.  The backends of a route are    *)
(* represented by the route itself.                                        *)
(***************************************************************************)
EXTENDS Naturals, FiniteSets, FiniteSetsExt

CONSTANTS
  Kinds,      \* the kinds of route, each with its controller
  Routes,     \* the routes; a smaller number is an older route
  KindOf,     \* route -> its kind
  Listeners,  \* names of listeners, and of their backend sets
  Permits,    \* listener -> the routes its namespace rules allow
  Specs,      \* the sets of listeners that users attach routes to
  Together,   \* bound: the sets of routes that users create together
  MaxEdits,   \* bound: changes of routes, endpoints and listeners by users
  MaxCrashes, \* bound: restarts of the controller
  Nil

ASSUME L4RouteAssumption ==
  /\ Routes \subseteq Nat /\ IsFiniteSet(Routes)
  /\ KindOf \in [Routes -> Kinds]
  /\ Permits \in [Listeners -> SUBSET Routes]
  /\ Specs \subseteq SUBSET Listeners /\ Together \subseteq SUBSET Routes
  /\ MaxEdits \in Nat /\ MaxCrashes \in Nat
  /\ Nil \notin Kinds \cup Routes \cup Listeners

VARIABLES
  server,    \* route -> the object at the API server, or Nil
  cache,     \* route -> the object as the informers have it, or Nil
  born,      \* the routes that have been created
  endpoints, \* the routes whose backend references resolve
  protocol,  \* listener -> the kind of route it takes, or Nil if it is not in the Gateway
  sets,      \* listener -> whose backends are in its backend set, or Nil if there is none
  holder,    \* the lock of the load balancer: the kind whose worker has it, or Nil
  queue,     \* the routes to reconcile
  work,      \* kind -> what its worker is doing
  edits, crashes, \* how much of the bounds is used
  lost       \* history: the listeners that a route left without handing them over, or
             \* whose set a route wrote that has no part there, until their owner is
             \* programmed

vars == <<server, cache, born, endpoints, protocol, sets, holder, queue, work,
          edits, crashes, lost>>

----------------------------------------------------------------------------
Route == [spec : Specs, deleting : BOOLEAN, recorded : SUBSET Listeners]
Finalized(x) == x.recorded # {}

PCs == {"listeners", "program", "reject", "backends", "update", "clear", "lock",
        "sync", "record", "release"}

Job == [pc : PCs,
        route : Routes,          \* the reconcile request
        copy : Route,            \* the route as it was read for the request
        open : SUBSET Listeners, \* the listeners of this kind in the Gateway, as read then
        todo : SUBSET Listeners, \* the listeners still to reconcile the route with
        at : Listeners \cup {Nil}, \* the listener being reconciled
        as : Routes,             \* the route being programmed: itself or its successor
        asCopy : Route,
        names : SUBSET Listeners, \* the backend sets still to empty
        cur : Listeners \cup {Nil}, \* the backend set being written
        seen : SUBSET Routes,    \* its backends in the snapshot, as far as not yet synced
        want : SUBSET Routes,    \* its backends as they should be
        then : {"reject", "backends", "release"}] \* what follows the emptying

ASSUME NilAssumption ==
  Nil \notin Route /\ Nil \notin Job /\ \A s \in SUBSET Routes : s # Nil

Idle == Nil
Busy(k) == work[k] # Idle
At(k, pc) == Busy(k) /\ work[k].pc = pc

\* desiredTCPRouteBackendSetNames
Desired(x, open) == x.spec \cap open

\* matchingL4RoutesForListener: the undeleted routes attached to listener l, in a
\* given view of the routes.
Claimants(view, k, l) ==
  {x \in Routes : /\ KindOf[x] = k
                  /\ view[x] # Nil
                  /\ ~view[x].deleting
                  /\ l \in view[x].spec}

\* The route that should fill listener l.
Owner(l) == IF Claimants(server, protocol[l], l) = {} THEN Nil
            ELSE Min(Claimants(server, protocol[l], l))

----------------------------------------------------------------------------
(* Reconciling a request: reconcileL4Route, resolveL4RouteRequest.         *)

Goto(k, pc) == work' = [work EXCEPT ![k].pc = pc]
Finish(k) == work' = [work EXCEPT ![k] = Idle]
NoWrite == UNCHANGED <<server, sets, holder, lost>>
NoEvent == UNCHANGED <<cache, born, endpoints, protocol, queue, edits, crashes>>

NewJob(k, r) ==
  LET open == {l \in Listeners : protocol[l] = k}
  IN [pc |-> "listeners", route |-> r, copy |-> cache[r], open |-> open,
      todo |-> Desired(cache[r], open), at |-> Nil, as |-> r, asCopy |-> cache[r],
      names |-> {}, cur |-> Nil, seen |-> {}, want |-> {}, then |-> "release"]

\* Mutant: a route that is not being deleted keeps what it no longer matches.
DetachedIfDeleted(job) == job.todo = {} /\ Finalized(job.copy) /\ job.copy.deleting

\* deprovisionDetachedRoute: no listener matches a recorded route.
Detached(job) == job.todo = {} /\ Finalized(job.copy)

Take(k, r) ==
  /\ ~Busy(k) /\ r \in queue /\ KindOf[r] = k
  /\ queue' = queue \ {r}
  /\ \/ cache[r] = Nil /\ UNCHANGED work
     \/ /\ cache[r] # Nil
        /\ LET job == NewJob(k, r)
           IN work' = [work EXCEPT ![k] =
                IF Detached(job)
                THEN [job EXCEPT !.pc = "clear", !.names = job.copy.recorded]
                ELSE job]
  /\ NoWrite
  /\ UNCHANGED <<cache, born, endpoints, protocol, edits, crashes>>

\* nextEligibleRouteForListener
Successors(k, r, l) == Claimants(cache, k, l) \ {r}

\* reconcileResolvedL4Route for the next listener of the request.
NextListener(k) ==
  /\ At(k, "listeners")
  /\ LET job == work[k] IN
     \/ job.todo = {} /\ Finish(k)
     \/ \E l \in job.todo :
          LET on == [job EXCEPT !.at = l]
              next == Min(Successors(k, job.route, l))
          IN work' = [work EXCEPT ![k] =
               IF ~job.copy.deleting THEN [on EXCEPT !.pc = "program"]
               ELSE IF ~Finalized(job.copy) THEN [job EXCEPT !.todo = @ \ {l}]
               ELSE IF Successors(k, job.route, l) # {}
                    THEN [on EXCEPT !.pc = "program", !.as = next, !.asCopy = cache[next]]
                    ELSE [on EXCEPT !.pc = "clear", !.names = {l}, !.then = "release"]]
  /\ NoWrite /\ NoEvent

\* Any error: the worker gives up and the request is queued again.
Fail(k) ==
  /\ Busy(k)
  /\ Finish(k)
  /\ queue' = queue \cup {work[k].route}
  /\ holder' = IF holder = k THEN Nil ELSE holder
  /\ UNCHANGED <<server, sets, lost, cache, born, endpoints, protocol, edits, crashes>>

----------------------------------------------------------------------------
(* Programming a route: programL4Route.                                    *)

Empty(k, names, then) ==
  work' = [work EXCEPT ![k].pc = IF names = {} THEN then ELSE "clear",
                       ![k].names = names, ![k].then = then]

\* Mutant: every route may fill the backend set.
MayAllOwn(k, x, l) == TRUE

\* ensureExclusiveL4ListenerOwner
MayOwn(k, x, l) ==
  LET matches == Claimants(cache, k, l)
  IN matches # {} => x \in matches /\ \A y \in matches : x <= y

\* Claimants that the cache still has, but that are gone or attached elsewhere.
Ghosts(k, l) ==
  {y \in Claimants(cache, k, l) : server[y] = Nil \/ l \notin server[y].spec}

Stale(job) == job.asCopy.recorded \ Desired(job.asCopy, job.open)

ProgramRoute(k) ==
  /\ At(k, "program")
  /\ LET job == work[k] IN
     \/ /\ job.as \notin Permits[job.at]
        /\ Empty(k, IF Finalized(job.asCopy) THEN {job.at} ELSE {}, "reject")
        /\ UNCHANGED lost
     \/ /\ job.as \in Permits[job.at]
        /\ ~MayOwn(k, job.as, job.at)
        /\ Goto(k, "reject")
        /\ lost' = IF Ghosts(k, job.at) # {} THEN lost \cup {job.at} ELSE lost
     \/ /\ job.as \in Permits[job.at]
        /\ MayOwn(k, job.as, job.at)
        /\ Empty(k, Stale(job), "backends")
        /\ UNCHANGED lost
  /\ UNCHANGED <<server, sets, holder>> /\ NoEvent

ResolveBackends(k) ==
  /\ At(k, "backends")
  /\ IF work[k].as \in endpoints THEN Goto(k, "update")
     ELSE Empty(k, {work[k].at}, "reject")
  /\ NoWrite /\ NoEvent

\* A rejected route has its status set; a rejected successor is an error (Fail).
Reject(k) ==
  /\ At(k, "reject") /\ work[k].as = work[k].route
  /\ work' = [work EXCEPT ![k].pc = "listeners", ![k].todo = @ \ {work[k].at}]
  /\ NoWrite /\ NoEvent

\* updateBackendSet takes the lock, then reads the load balancer; a missing set is
\* an error (Fail).
UpdateBackendSet(k) ==
  LET l == work[k].at
      backends == {work[k].as}
  IN
  /\ At(k, "update") /\ holder = Nil /\ sets[l] # Nil
  /\ \/ /\ sets[l] = backends
        /\ Goto(k, "record")
        /\ UNCHANGED holder
     \/ /\ sets[l] # backends
        /\ holder' = k
        /\ work' = [work EXCEPT ![k].pc = "sync", ![k].cur = l,
                                ![k].seen = sets[l], ![k].want = backends]
  /\ UNCHANGED <<server, sets, lost>> /\ NoEvent

----------------------------------------------------------------------------
(* Writing a backend set: clearBackendSetByName and                        *)
(* updateNetworkLoadBalancerBackendSet with its sync.                      *)

\* Mutant: an update without backends is taken to empty the set; nothing is deleted.
ReadWithoutBackends(k, n) ==
  /\ At(k, "clear") /\ n \in work[k].names
  /\ LET left == work[k].names \ {n} IN
     IF sets[n] = Nil
     THEN Empty(k, left, work[k].then)
     ELSE work' = [work EXCEPT ![k].pc = "lock", ![k].names = left, ![k].cur = n,
                               ![k].seen = {}, ![k].want = {}]
  /\ NoWrite /\ NoEvent

\* The load balancer is read before the lock is taken.
ReadToClear(k, n) ==
  /\ At(k, "clear") /\ n \in work[k].names
  /\ LET left == work[k].names \ {n} IN
     IF sets[n] = Nil
     THEN Empty(k, left, work[k].then)
     ELSE work' = [work EXCEPT ![k].pc = "lock", ![k].names = left, ![k].cur = n,
                               ![k].seen = sets[n], ![k].want = {}]
  /\ NoWrite /\ NoEvent

\* Mutant: the lock is not waited for.
ClearUnlocked(k) ==
  /\ At(k, "lock") /\ sets[work[k].cur] # Nil
  /\ holder' = k
  /\ Goto(k, "sync")
  /\ UNCHANGED <<server, sets, lost>> /\ NoEvent

LockToClear(k) ==
  /\ At(k, "lock") /\ holder = Nil /\ sets[work[k].cur] # Nil
  /\ holder' = k
  /\ Goto(k, "sync")
  /\ UNCHANGED <<server, sets, lost>> /\ NoEvent

\* The route whose worker writes set n is not, or no longer, one that may fill it.
Outsider(k, n) ==
  protocol[n] # k \/ work[k].as \notin Claimants(server, k, n) \cap Permits[n]

CreateBackend(k) ==
  LET n == work[k].cur IN
  /\ At(k, "sync") /\ ~(work[k].want \subseteq work[k].seen)
  /\ sets' = [sets EXCEPT ![n] = @ \cup work[k].want]
  /\ work' = [work EXCEPT ![k].seen = @ \cup work[k].want]
  /\ lost' = IF Outsider(k, n) THEN lost \cup {n} ELSE lost
  /\ UNCHANGED <<server, holder>> /\ NoEvent

\* Deleting a backend that is not there succeeds.
DeleteBackend(k, x) ==
  LET n == work[k].cur IN
  /\ At(k, "sync") /\ work[k].want \subseteq work[k].seen
  /\ x \in work[k].seen \ work[k].want
  /\ sets' = [sets EXCEPT ![n] = @ \ {x}]
  /\ work' = [work EXCEPT ![k].seen = @ \ {x}]
  /\ lost' = IF (Outsider(k, n) \/ n # work[k].at) /\ x = Owner(n)
             THEN lost \cup {n} ELSE lost
  /\ UNCHANGED <<server, holder>> /\ NoEvent

Synced(k) ==
  /\ At(k, "sync") /\ work[k].seen = work[k].want
  /\ holder' = Nil
  /\ IF work[k].want = {} THEN Empty(k, work[k].names, work[k].then)
     ELSE Goto(k, "record")
  /\ UNCHANGED <<server, sets, lost>> /\ NoEvent

----------------------------------------------------------------------------
(* Recording a route, and releasing it.                                    *)

\* The sets with the route's backends that its record says nothing of any more: they were
\* not on record of the copy, so they were not emptied.
Forgotten(job) ==
  {n \in server[job.as].recorded \ Desired(job.asCopy, job.open) :
     sets[n] # Nil /\ job.as \in sets[n]}

\* Mutant: a route that has handed its listener over is not released.
AfterRecordKept(job) == [job EXCEPT !.pc = "listeners", !.todo = @ \ {job.at}]

\* When the successor has been programmed, the deleted route is released.
AfterRecord(job) ==
  IF job.as = job.route
  THEN [job EXCEPT !.pc = "listeners", !.todo = @ \ {job.at}]
  ELSE [job EXCEPT !.pc = "release"]

\* setL4RouteProgrammed: a conflict is retried once, on the cached route.
SetProgrammed(k) ==
  LET job == work[k] IN
  /\ At(k, "record")
  /\ server[job.as] # Nil
  /\ server[job.as] \in {job.asCopy, cache[job.as]}
  /\ server' = [server EXCEPT ![job.as].recorded = Desired(job.asCopy, job.open)]
  /\ work' = [work EXCEPT ![k] = AfterRecord(job)]
  /\ lost' = (IF Owner(job.at) = job.as /\ sets[job.at] = {job.as}
              THEN lost \ {job.at} ELSE lost) \cup Forgotten(job)
  /\ UNCHANGED <<sets, holder>> /\ NoEvent

\* What this reconcile has emptied or handed over.
Released(job) == IF job.at = Nil THEN job.copy.recorded ELSE {job.at}

\* The end of deprovisionL4Route and of the detached cleanup: the finalizer and the
\* record are removed from the copy; a conflict is an error (Fail).
RemoveFinalizer(k) ==
  LET job == work[k]
      r == job.route
  IN
  /\ At(k, "release")
  /\ server[r] = job.copy
  /\ server' = [server EXCEPT ![r] =
       IF job.copy.deleting THEN Nil ELSE [job.copy EXCEPT !.recorded = {}]]
  /\ lost' = IF job.copy.deleting
             THEN lost \cup ((job.copy.spec \cup job.copy.recorded) \ Released(job))
             ELSE lost
  /\ work' = [work EXCEPT ![k].pc = "listeners", ![k].todo = @ \ {job.at}]
  /\ UNCHANGED <<sets, holder>> /\ NoEvent

----------------------------------------------------------------------------
(* The users, the informers, the Gateway's controller and the process.     *)

Edit == edits < MaxEdits /\ edits' = edits + 1

Create(r, s) ==
  /\ r \notin born /\ \E group \in Together : born \cup {r} \subseteq group
  /\ born' = born \cup {r}
  /\ server' = [server EXCEPT ![r] = [spec |-> s, deleting |-> FALSE, recorded |-> {}]]
  /\ UNCHANGED <<cache, endpoints, protocol, sets, holder, queue, work, edits, crashes, lost>>

\* The API server removes an object without finalizers at once.
Delete(r) ==
  /\ server[r] # Nil /\ ~server[r].deleting
  /\ IF Finalized(server[r])
     THEN /\ server' = [server EXCEPT ![r].deleting = TRUE]
          /\ UNCHANGED lost
     ELSE /\ server' = [server EXCEPT ![r] = Nil]
          /\ lost' = lost \cup server[r].spec
  /\ UNCHANGED <<cache, born, endpoints, protocol, sets, holder, queue, work, edits, crashes>>

Attach(r, s) ==
  /\ Edit
  /\ server[r] # Nil /\ ~server[r].deleting /\ s # server[r].spec
  /\ server' = [server EXCEPT ![r].spec = s]
  /\ lost' = lost \cup (server[r].spec \ s)
  /\ UNCHANGED <<cache, born, endpoints, protocol, sets, holder, queue, work, crashes>>

\* The events of EndpointSlices and ReferenceGrants queue the routes that refer to them.
ChangeEndpoints(r) ==
  /\ Edit
  /\ endpoints' = IF r \in endpoints THEN endpoints \ {r} ELSE endpoints \cup {r}
  /\ queue' = queue \cup {r}
  /\ UNCHANGED <<server, cache, born, protocol, sets, holder, work, crashes, lost>>

\* The routes whose backends are in set l without being recorded.
Unrecorded(l) ==
  {x \in IF sets[l] = Nil THEN {} ELSE sets[l] :
     server[x] = Nil \/ l \notin server[x].recorded}

\* An event of the Gateway queues the routes that refer to it.
EditListener(l, p) ==
  /\ Edit
  /\ protocol[l] # p
  /\ protocol' = [protocol EXCEPT ![l] = p]
  /\ queue' = queue \cup {r \in Routes : cache[r] # Nil}
  /\ lost' = IF Unrecorded(l) # {} THEN lost \cup {l} ELSE lost
  /\ UNCHANGED <<server, cache, born, endpoints, sets, holder, work, crashes>>

\* Every difference between cache and server is one the watch predicates let pass.
Observe(r) ==
  /\ cache[r] # server[r]
  /\ cache' = [cache EXCEPT ![r] = server[r]]
  /\ queue' = queue \cup {r}
  /\ UNCHANGED <<server, born, endpoints, protocol, sets, holder, work, edits, crashes, lost>>

\* The Gateway's controller creates and deletes backend sets under the lock.
GatewayCreatesSet(l) ==
  /\ holder = Nil /\ protocol[l] # Nil /\ sets[l] = Nil
  /\ sets' = [sets EXCEPT ![l] = {}]
  /\ UNCHANGED <<server, cache, born, endpoints, protocol, holder, queue, work, edits, crashes, lost>>

GatewayDeletesSet(l) ==
  /\ holder = Nil /\ protocol[l] = Nil /\ sets[l] # Nil
  /\ sets' = [sets EXCEPT ![l] = Nil]
  /\ UNCHANGED <<server, cache, born, endpoints, protocol, holder, queue, work, edits, crashes, lost>>

Crash ==
  /\ crashes < MaxCrashes
  /\ crashes' = crashes + 1
  /\ work' = [k \in Kinds |-> Idle]
  /\ holder' = Nil
  /\ cache' = server
  /\ queue' = {r \in Routes : server[r] # Nil}
  /\ UNCHANGED <<server, born, endpoints, protocol, sets, edits, lost>>

----------------------------------------------------------------------------
Init ==
  /\ server = [r \in Routes |-> Nil]
  /\ cache = server
  /\ born = {}
  /\ endpoints = Routes
  /\ protocol \in [Listeners -> Kinds]
  /\ sets = [l \in Listeners |-> Nil]
  /\ holder = Nil
  /\ queue = {}
  /\ work = [k \in Kinds |-> Idle]
  /\ edits = 0 /\ crashes = 0
  /\ lost = {}

Step(k) ==
  \/ \E r \in Routes : Take(k, r) \/ DeleteBackend(k, r)
  \/ \E n \in Listeners : ReadToClear(k, n)
  \/ NextListener(k) \/ ProgramRoute(k) \/ ResolveBackends(k) \/ Reject(k)
  \/ UpdateBackendSet(k) \/ LockToClear(k) \/ CreateBackend(k) \/ Synced(k)
  \/ SetProgrammed(k) \/ RemoveFinalizer(k)

Gateway == \E l \in Listeners : GatewayCreatesSet(l) \/ GatewayDeletesSet(l)

Users ==
  \/ \E r \in Routes, s \in Specs : Create(r, s) \/ Attach(r, s)
  \/ \E r \in Routes : Delete(r) \/ ChangeEndpoints(r)
  \/ \E l \in Listeners, p \in Kinds \cup {Nil} : EditListener(l, p)

Next ==
  \/ \E k \in Kinds : Step(k) \/ Fail(k)
  \/ \E r \in Routes : Observe(r)
  \/ Gateway \/ Users \/ Crash

Spec == Init /\ [][Next]_vars

\* The call that the worker is about to make cannot succeed: the backend set is missing,
\* the route is gone or the copy out of date, or the successor was rejected.
Refused(k) ==
  LET job == work[k] IN
  \/ At(k, "update") /\ sets[job.at] = Nil
  \/ At(k, "lock") /\ sets[job.cur] = Nil
  \/ /\ At(k, "record")
     /\ server[job.as] = Nil \/ server[job.as] \notin {job.asCopy, cache[job.as]}
  \/ At(k, "release") /\ server[job.route] # job.copy
  \/ At(k, "reject") /\ job.as # job.route

\* Workers, informers and the Gateway's controller go on, requests are taken in turn,
\* and from some time on Kubernetes and OCI fail only the calls they have to refuse.
Fairness ==
  /\ \A k \in Kinds : WF_vars(Step(k) \/ (Refused(k) /\ Fail(k)))
  /\ \A r \in Routes : WF_vars(Observe(r)) /\ SF_vars(\E k \in Kinds : Take(k, r))
  /\ WF_vars(Gateway)
  /\ <>[][\A k \in Kinds : Fail(k) => Refused(k)]_vars

FairSpec == Spec /\ Fairness

----------------------------------------------------------------------------
(* Properties.                                                             *)

(***************************************************************************)
(* The types of the variables; a worker that writes backends, and no other *)
(* worker, has the lock; a route being released has been recorded; and a   *)
(* route is in a cache or a queue only if it has been created.             *)
(***************************************************************************)
TypeOK ==
  /\ server \in [Routes -> Route \cup {Nil}] /\ cache \in [Routes -> Route \cup {Nil}]
  /\ born \subseteq Routes /\ endpoints \subseteq Routes /\ queue \subseteq Routes
  /\ protocol \in [Listeners -> Kinds \cup {Nil}]
  /\ sets \in [Listeners -> {Nil} \cup SUBSET Routes]
  /\ holder \in Kinds \cup {Nil}
  /\ \A k \in Kinds : (holder = k) = At(k, "sync")
  /\ work \in [Kinds -> Job \cup {Idle}]
  /\ \A k \in Kinds : Busy(k) => /\ KindOf[work[k].route] = k
                                 /\ At(k, "release") => Finalized(work[k].copy)
  /\ \A r \in Routes \ born : server[r] = Nil /\ cache[r] = Nil
  /\ edits \in 0..MaxEdits /\ crashes \in 0..MaxCrashes /\ lost \subseteq Listeners

\* Nothing is left to do: no request, no event and no write is outstanding.
Settled ==
  /\ queue = {} /\ cache = server
  /\ \A k \in Kinds : ~Busy(k)
  /\ \A l \in Listeners : (protocol[l] = Nil) = (sets[l] = Nil)

\* The listener is on record of route x, but takes another kind now.
Elsewhere(x, l) ==
  server[x] # Nil /\ l \in server[x].recorded /\ KindOf[x] # protocol[l]

\* Listeners match route x, but none of them is its own.
Unprogrammed(x) ==
  LET matched == {m \in server[x].spec : protocol[m] = KindOf[x]} IN
  /\ matched # {}
  /\ \A m \in matched : x \notin Permits[m] \/ x # Owner(m) \/ m \in lost

(***************************************************************************)
(* When everything has settled, the backend set of every listener holds    *)
(* the backends of the oldest route attached to it, which is recorded as   *)
(* programmed there, and is empty if there is no such route or its         *)
(* references do not resolve.  This is what exclusive ownership            *)
(* (ensureExclusiveL4ListenerOwner), the hand-over by a deleted route      *)
(* (deprovisionL4Route) and requeueing promise together, over failures,    *)
(* conflicts, restarts and stale reads.  Excepted are the listeners in     *)
(* `lost', where the code hands nothing over: a route left or was cut off  *)
(* before it was recorded, was attached elsewhere, released its finalizer  *)
(* at another listener, or wrote a record from a copy that did not have    *)
(* the listener; or a route that is not attached there, or not permitted,  *)
(* wrote the set, or one that cleaned up after itself emptied it; or a     *)
(* route was rejected for one that was gone already.  And a listener that  *)
(* was given to the other kind keeps the backends of a route on record     *)
(* there that other listeners match, but none takes: such a route is       *)
(* rejected before programL4Route comes to clearStaleBackendSets.          *)
(***************************************************************************)
ListenersServed ==
  Settled =>
    \A l \in {l \in Listeners : protocol[l] # Nil} \ lost :
      LET o == Owner(l) IN
      /\ o = Nil => \A x \in sets[l] : Elsewhere(x, l) /\ Unprogrammed(x)
      /\ o # Nil /\ o \in Permits[l] =>
           IF o \in endpoints THEN sets[l] = {o} /\ l \in server[o].recorded
           ELSE sets[l] = {}

(***************************************************************************)
(* A route loses its finalizer only when none of the backends it was       *)
(* recorded for at the listener it releases - or, for a detached route, at *)
(* any recorded listener - is left in the load balancer                    *)
(* (deprovisionL4Route, cleanupDetachedRouteParent).                       *)
(***************************************************************************)
ReleasedMeansEmptied ==
  [][\A r \in Routes :
       /\ server[r] # Nil /\ Finalized(server[r])
       /\ server'[r] = Nil \/ ~Finalized(server'[r])
       => \A n \in Released(work[KindOf[r]]) : sets[n] = Nil \/ r \notin sets[n]]_vars

\* The route that should take listener l over from route r cannot be programmed there: its
\* references do not resolve, or the listener does not permit it.
Heirless(r, l) ==
  LET heirs == Claimants(server, KindOf[r], l) \ {r} IN
  /\ protocol[l] = KindOf[r] /\ l \in server[r].spec
  /\ heirs # {} /\ Min(heirs) \notin endpoints \cap Permits[l]

(***************************************************************************)
(* A deleted route goes away, however its hand-over to the next oldest     *)
(* route is interrupted: by failures, by conflicts with what the other     *)
(* reconcile writes, or by a successor that leaves or is deleted itself.   *)
(* It stays only while a listener of its has a successor that cannot be    *)
(* programmed: then the hand-over fails and is retried                     *)
(* (deprovisionL4Route returns the error of programRoute).  In other       *)
(* words, again and again there is a moment at which every route that is   *)
(* being deleted has such a listener.                                      *)
(***************************************************************************)
DeletionsEnd ==
  []<>(\A r \in Routes :
         server[r] # Nil /\ server[r].deleting => \E l \in Listeners : Heirless(r, l))

=============================================================================
