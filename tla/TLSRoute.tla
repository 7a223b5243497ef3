-------------------------------- MODULE TLSRoute -------------------------------
(***************************************************************************)
(* TLSRoutes (tlsroute_model.go, tlsroute_controller.go).  A TLS listener  *)
(* of an OCI Load Balancer terminates TLS and forwards to a backend set of *)
(* the route's own; one of an OCI Network Load Balancer passes TLS through *)
(* to the backend set of the listener.  The oldest route attached to a     *)
(* listener owns it.                                                       *)
(*                                                                         *)
(*   - programming a route marks it pending, cleans up what it has on the  *)
(*     other kind of load balancer, programs its own, and records it in a  *)
(*     finalizer and annotations, one per kind of load balancer;           *)
(*   - deleting a recorded route hands the listener to the next oldest     *)
(*     route, or cleans it up, and then removes the finalizer;             *)
(*   - a recorded route that no listener matches any more is detached: the *)
(*     recorded resources are cleaned up and the finalizers are removed.   *)
(*                                                                         *)
(* The controller has one worker.  It reads routes from an informer cache  *)
(* that lags behind the API server; an Update of a copy that is out of     *)
(* date is a conflict.  Any call may fail, and the route is queued again.  *)
(*                                                                         *)
(* The status of a route is kept because writing it makes the worker's own *)
(* copy out of date.  The finalizer of the Network Load Balancer is there  *)
(* exactly when `nlb' is not empty; that of the Load Balancer comes with   *)
(* the annotation of the backend set (`albHeld'), while the annotation of  *)
(* its resources (`alb') may be missing.  A write of a backend set of the  *)
(* Network Load Balancer is atomic here: L4Route is about its parts.       *)
(***************************************************************************)
EXTENDS Naturals, FiniteSets, FiniteSetsExt

CONSTANTS
  Routes,      \* the routes; a smaller number is an older route
  Listeners,   \* names of the TLS listeners
  Terminating, \* those of the Load Balancer; the others are of the Network Load Balancer
  Specs,       \* the sets of listeners that users attach routes to
  Moves,       \* those that they move routes to
  Rosters,     \* bound: which routes users create together, and attached to what
  Edits,       \* by the routes created, what users change then: some of EditKinds
  MaxEdits,    \* bound: the number of those changes
  Nil

EditKinds == {"route", "endpoints", "listener", "gateway"}

ASSUME TLSRouteAssumption ==
  /\ Routes \subseteq Nat /\ IsFiniteSet(Routes)
  /\ Terminating \subseteq Listeners
  /\ Specs \subseteq SUBSET Listeners /\ Moves \subseteq Specs
  /\ MaxEdits \in Nat
  /\ Nil \notin Routes \cup Listeners

ASSUME UsersAssumption ==
  /\ Rosters \subseteq UNION {[group -> Specs] : group \in SUBSET Routes}
  /\ Edits \in [SUBSET Routes -> SUBSET EditKinds]

VARIABLES
  server,    \* route -> the object at the API server, or Nil
  cache,     \* route -> the object as the informers have it, or Nil
  born,      \* the routes that have been created
  endpoints, \* the routes whose backend references resolve
  admits,    \* listener -> the routes it admits (by mode and namespace), or Nil if it is
             \* not in its Gateway
  there,     \* whether the Gateway of the Load Balancer exists
  nlbSets,   \* passthrough listener -> whose backends are in its set, or Nil if there is none
  targets,   \* terminating listener -> the route whose set it forwards to, or Nil if there is none
  albSets,   \* the backend sets in the Load Balancer: <<route, listener>>
  queue,     \* the routes to reconcile
  work,      \* what the worker is doing
  edits,     \* how many changes users have made
  lost       \* history: the listeners left without being handed over, or written by a
             \* route that may not, until their owner is programmed

lbs == <<nlbSets, targets, albSets>>
users == <<endpoints, admits, there>>
vars == <<server, cache, born, users, lbs, queue, work, edits, lost>>

----------------------------------------------------------------------------
Balancers == {"alb", "nlb"}
BalancerOf(l) == IF l \in Terminating THEN "alb" ELSE "nlb"

States == {"none", "pending", "programmed", "rejected"}
NoStatus == [b \in Balancers |-> "none"]

Route == [spec : Specs, deleting : BOOLEAN,
          nlb : SUBSET (Listeners \ Terminating), alb : SUBSET Terminating,
          albHeld : BOOLEAN,
          status : [Balancers -> States]]  \* as written for the current generation

Finalized(x) == x.nlb # {} \/ x.albHeld
Recorded(x) == x.nlb \cup x.alb

PCs == {"unmatched", "pending", "program", "clean", "unset", "forget", "set", "listen",
        "record", "report", "reject", "release", "detach"}

Job == [pc : PCs,
        route : Routes,          \* the reconcile request
        copy : Route,            \* the route as it was read for the request
        todo : SUBSET Listeners, \* the listeners still to reconcile the route with
        at : Listeners \cup {Nil}, \* the listener being reconciled
        as : Routes,             \* the route being programmed: itself or its successor
        asCopy : Route,
        names : SUBSET Listeners, \* the listeners whose resources are still to clean up
        cur : Listeners \cup {Nil}, \* the one whose listener is deleted, but not yet its set
        then : {"forget", "reject", "release", "detach"}] \* what follows

ASSUME NilAssumption ==
  Nil \notin Route /\ Nil \notin Job /\ \A s \in SUBSET Routes : s # Nil

Idle == Nil
Busy == work # Idle
At(pc) == Busy /\ work.pc = pc
Goto(pc) == work' = [work EXCEPT !.pc = pc]

Open == {l \in Listeners : admits[l] # Nil /\ (l \in Terminating => there)}

\* matchingRoutesForListener: the undeleted routes attached to listener l, in a given
\* view of the routes.
Claimants(view, l) ==
  {x \in Routes : view[x] # Nil /\ ~view[x].deleting /\ l \in view[x].spec}

\* The route that should be served at listener l.
Owner(l) == IF Claimants(server, l) = {} THEN Nil ELSE Min(Claimants(server, l))

NoServerWrite == UNCHANGED <<server, lost>>
NoEvent == UNCHANGED <<cache, born, users, queue, edits>>

\* An Update of a copy is accepted if the object has not changed since; the code then
\* tries again with the cached route, at most once.
Fresh(r, copy) == server[r] # Nil /\ server[r] = copy
Retried(r, copy) == server[r] # Nil /\ server[r] # copy /\ server[r] = cache[r]

----------------------------------------------------------------------------
(* Reconciling a request: resolveRequest, reconcileResolvedRoute.          *)

NewJob(r) ==
  [pc |-> "unmatched", route |-> r, copy |-> cache[r],
   todo |-> cache[r].spec \cap Open, at |-> Nil, as |-> r, asCopy |-> cache[r],
   names |-> {}, cur |-> Nil, then |-> "detach"]

\* reconcileResolvedRoute for one listener; the finalizer asked for is that of the
\* listener's load balancer (tlsRouteFinalizerForDetails).
Holds(x, l) == IF l \in Terminating THEN x.albHeld ELSE x.nlb # {}

\* nextEligibleRouteForListener
Successors(r, l) == Claimants(cache, l) \ {r}

\* Mutant: a deleted route without a record is released without a cleanup.
CleanIfRecorded(job, l) ==
  LET on == [job EXCEPT !.todo = @ \ {l}, !.at = l, !.as = job.route, !.asCopy = job.copy]
      next == Min(Successors(job.route, l))
  IN IF ~job.copy.deleting THEN [on EXCEPT !.pc = "pending"]
     ELSE IF Successors(job.route, l) # {}
     THEN [on EXCEPT !.pc = "program", !.as = next, !.asCopy = cache[next]]
     ELSE IF l \in Recorded(job.copy)
     THEN [on EXCEPT !.pc = "clean", !.names = {l}, !.then = "release"]
     ELSE [on EXCEPT !.pc = "release"]

Reconciled(job, l) ==
  LET on == [job EXCEPT !.todo = @ \ {l}, !.at = l, !.as = job.route, !.asCopy = job.copy]
      next == Min(Successors(job.route, l))
  IN IF ~job.copy.deleting THEN [on EXCEPT !.pc = "pending"]
     ELSE IF Successors(job.route, l) # {}
     THEN [on EXCEPT !.pc = "program", !.as = next, !.asCopy = cache[next]]
     ELSE [on EXCEPT !.pc = "clean", !.names = {l}, !.then = "release"]

\* Mutant: a deleted route is reconciled with listeners whose finalizer it does not have.
TurnsUnasked(job) ==
  IF job.todo = {} THEN {Idle} ELSE {Reconciled(job, l) : l \in job.todo}

\* The next listener to reconcile, or the end of the request.
Turns(job) ==
  LET todo == {l \in job.todo : job.copy.deleting => Holds(job.copy, l)}
  IN IF todo = {} THEN {Idle} ELSE {Reconciled(job, l) : l \in todo}

Take(r) ==
  /\ ~Busy /\ r \in queue
  /\ queue' = queue \ {r}
  /\ work' \in IF cache[r] = Nil THEN {Idle}
              ELSE IF NewJob(r).todo = {} THEN {NewJob(r)} ELSE Turns(NewJob(r))
  /\ NoServerWrite
  /\ UNCHANGED <<cache, born, users, lbs, edits>>

\* Any error: the worker gives up and the request is queued again.
Fail ==
  /\ Busy
  /\ work' = Idle
  /\ queue' = queue \cup {work.route}
  /\ NoServerWrite
  /\ UNCHANGED <<cache, born, users, lbs, edits>>

\* updateParentStatus: on a conflict the cached route is written.
SetStatus(r, copy, b, status) ==
  /\ Fresh(r, copy) \/ Retried(r, copy)
  /\ server' = [server EXCEPT ![r].status[b] = status]

\* A route that has the finalizer of the Load Balancer without the record of resources is
\* left as it is, as is one whose Gateway is gone.
DetachedLoadBalancerRoute(job) ==
  IF job.copy.alb # {} /\ there
  THEN [job EXCEPT !.pc = "clean", !.names = job.copy.alb] ELSE Idle

\* What a detached route is cleaned up for: deprovisionDetachedRoute looks at the
\* annotations of the Network Load Balancer first.
Detached(job) ==
  IF job.copy.nlb # {} THEN [job EXCEPT !.pc = "clean", !.names = job.copy.nlb]
  ELSE DetachedLoadBalancerRoute(job)

\* rejectNoMatchingListener for the parents of a live route, and then the cleanup of a
\* recorded one.
Unmatched ==
  LET job == work
      parents == {BalancerOf(l) : l \in {l \in job.copy.spec : l \in Terminating => there}}
  IN
  /\ At("unmatched")
  /\ IF job.copy.deleting \/ parents = {} THEN UNCHANGED server
     ELSE /\ Fresh(job.route, job.copy) \/ Retried(job.route, job.copy)
          /\ server' = [server EXCEPT ![job.route].status =
               [b \in Balancers |-> IF b \in parents THEN "rejected" ELSE @[b]]]
  /\ work' = Detached(job)
  /\ UNCHANGED <<lbs, lost>> /\ NoEvent

\* The status goes to a copy: the one that programming works with keeps its version.
SetPending ==
  /\ At("pending")
  /\ SetStatus(work.route, work.copy, BalancerOf(work.at), "pending")
  /\ Goto("program")
  /\ UNCHANGED <<lbs, lost>> /\ NoEvent

\* A successor that is rejected is an error (Fail).
SetRejected ==
  /\ At("reject") /\ work.as = work.route
  /\ SetStatus(work.route, work.copy, BalancerOf(work.at), "rejected")
  /\ work' \in Turns(work)
  /\ UNCHANGED <<lbs, lost>> /\ NoEvent

----------------------------------------------------------------------------
(* Programming a route: programRoute.                                      *)

\* Mutant: any route may take a listener.
AlwaysOwn(x, l) == TRUE

\* ensureExclusiveListenerOwner
MayOwn(x, l) ==
  LET matches == Claimants(cache, l)
  IN matches # {} => x \in matches /\ \A y \in matches : x <= y

\* Claimants that the cache still has, but that are gone or attached elsewhere, or deleted
\* without a finalizer to hand the listener over for.
Ghosts(l) ==
  {y \in Claimants(cache, l) :
     \/ server[y] = Nil
     \/ l \notin server[y].spec
     \/ server[y].deleting /\ ~Holds(server[y], l)}

\* Mutant: the listener is pointed to a backend set that has not been made.
ListenFirst(job) ==
  IF job.as \in endpoints
  THEN [job EXCEPT !.pc = IF job.at \in Terminating THEN "listen" ELSE "set"]
  ELSE IF job.at \in Terminating THEN [job EXCEPT !.pc = "reject"]
  ELSE [job EXCEPT !.pc = "clean", !.names = {job.at}, !.then = "reject"]

\* The route's backend references resolve or not.  The Network Load Balancer's set is
\* emptied for a route whose references do not (programL4Route); the Load Balancer keeps
\* what it has.
ResolveBackends(job) ==
  IF job.as \in endpoints THEN [job EXCEPT !.pc = "set"]
  ELSE IF job.at \in Terminating THEN [job EXCEPT !.pc = "reject"]
  ELSE [job EXCEPT !.pc = "clean", !.names = {job.at}, !.then = "reject"]

\* cleanupStaleNetworkLoadBalancerProgrammedState and
\* cleanupStaleLoadBalancerProgrammedState: what the route has on the other kind of load
\* balancer is cleaned up and forgotten.
Sweep(job) ==
  LET x == job.asCopy IN
  IF job.at \in Terminating /\ x.nlb # {}
  THEN [job EXCEPT !.pc = "clean", !.names = x.nlb, !.then = "forget"]
  ELSE IF job.at \notin Terminating /\ x.alb # {} /\ there
  THEN [job EXCEPT !.pc = "clean", !.names = x.alb, !.then = "forget"]
  ELSE IF job.at \notin Terminating /\ x.alb = {} /\ x.albHeld
  THEN [job EXCEPT !.pc = "forget"]
  ELSE ResolveBackends(job)

ProgramRoute ==
  /\ At("program")
  /\ LET admitted == admits[work.at] # Nil /\ work.as \in admits[work.at]
         owner == MayOwn(work.as, work.at)
     IN /\ work' = IF admitted /\ owner THEN Sweep(work) ELSE [work EXCEPT !.pc = "reject"]
        /\ lost' = IF admitted /\ ~owner /\ Ghosts(work.at) # {}
                   THEN lost \cup {work.at} ELSE lost
  /\ UNCHANGED <<server, lbs>> /\ NoEvent

\* removeProgrammedState: a conflict is an error (Fail).  The copy that programming
\* works with keeps its version.
Forget ==
  LET b == BalancerOf(work.at) IN
  /\ At("forget")
  /\ Fresh(work.as, work.asCopy)
  /\ server' = [server EXCEPT ![work.as] =
       IF b = "alb" THEN [@ EXCEPT !.nlb = {}] ELSE [@ EXCEPT !.alb = {}, !.albHeld = FALSE]]
  /\ work' = ResolveBackends(work)
  /\ UNCHANGED <<lbs, lost>> /\ NoEvent

\* The route that is programmed is not, or no longer, one that the listener takes.
Outsider(r, l) == admits[l] = Nil \/ r \notin Claimants(server, l) \cap admits[l]

\* updateNLBBackendSet; a missing set is an error (Fail).
UpdateNLBBackendSet ==
  LET l == work.at IN
  /\ At("set") /\ l \notin Terminating /\ nlbSets[l] # Nil
  /\ nlbSets' = [nlbSets EXCEPT ![l] = {work.as}]
  /\ lost' = IF Outsider(work.as, l) THEN lost \cup {l} ELSE lost
  /\ Goto("record")
  /\ UNCHANGED <<server, targets, albSets>> /\ NoEvent

\* reconcileLoadBalancerBackendSet
ReconcileBackendSet ==
  /\ At("set") /\ work.at \in Terminating
  /\ albSets' = albSets \cup {<<work.as, work.at>>}
  /\ Goto("listen")
  /\ UNCHANGED <<server, nlbSets, targets, lost>> /\ NoEvent

\* reconcileLoadBalancerTLSListener: the set of the route that had the listener stays.
ReconcileTLSListener ==
  LET l == work.at IN
  /\ At("listen")
  /\ targets' = [targets EXCEPT ![l] = work.as]
  /\ lost' = IF Outsider(work.as, l) THEN lost \cup {l} ELSE lost
  /\ Goto("record")
  /\ UNCHANGED <<server, nlbSets, albSets>> /\ NoEvent

----------------------------------------------------------------------------
(* Cleaning up: clearBackendSetByName, and                                 *)
(* deleteLoadBalancerRouteResourcesByName for the listener and then the    *)
(* backend set.  What is missing already is no error.                      *)

Cleaned(names) ==
  IF names = {} THEN [work EXCEPT !.pc = work.then, !.names = {}, !.cur = Nil]
  ELSE [work EXCEPT !.pc = "clean", !.names = names, !.cur = Nil]

\* The owner of listener l is served there, and it is another route than the one that is
\* reconciled, or than the successor that is programmed at l itself.
ServedToAnother(l) ==
  /\ Owner(l) \notin {Nil, work.route}
  /\ Owner(l) # work.as \/ l # work.at
  /\ IF l \in Terminating THEN targets[l] = Owner(l) ELSE Owner(l) \in nlbSets[l]

ClearBackendSet(l) ==
  /\ At("clean") /\ l \in work.names \ Terminating
  /\ nlbSets' = [nlbSets EXCEPT ![l] = IF @ = Nil THEN Nil ELSE {}]
  /\ lost' = IF nlbSets[l] # Nil /\ ServedToAnother(l) THEN lost \cup {l} ELSE lost
  /\ work' = Cleaned(work.names \ {l})
  /\ UNCHANGED <<server, targets, albSets>> /\ NoEvent

DeleteListener(l) ==
  /\ At("clean") /\ l \in work.names \cap Terminating
  /\ targets' = [targets EXCEPT ![l] = Nil]
  /\ lost' = IF ServedToAnother(l) THEN lost \cup {l} ELSE lost
  /\ work' = [work EXCEPT !.pc = "unset", !.cur = l]
  /\ UNCHANGED <<server, nlbSets, albSets>> /\ NoEvent

\* OCI refuses to delete a backend set that a listener forwards to (Fail).
DeleteBackendSet ==
  /\ At("unset")
  /\ targets[work.cur] # work.as
  /\ albSets' = albSets \ {<<work.as, work.cur>>}
  /\ work' = Cleaned(work.names \ {work.cur})
  /\ UNCHANGED <<server, nlbSets, targets, lost>> /\ NoEvent

----------------------------------------------------------------------------
(* Recording a route, and releasing it.                                    *)

\* setProgrammed: what the copy is given, and what the cached route is given after a
\* conflict (applyL4RouteProgrammedMetadata), which leaves out the resources of the Load
\* Balancer and what the other kind of load balancer has recorded.
RecordOnCopy(x, l) ==
  IF l \in Terminating THEN [x EXCEPT !.nlb = {}, !.alb = {l}, !.albHeld = TRUE]
  ELSE [x EXCEPT !.nlb = {l}, !.alb = {}, !.albHeld = FALSE]

RecordOnLatest(x, l) ==
  IF l \in Terminating THEN [x EXCEPT !.albHeld = TRUE] ELSE [x EXCEPT !.nlb = {l}]

SetProgrammed ==
  LET job == work
      r == job.as
      onCopy == RecordOnCopy(job.asCopy, job.at)
  IN
  /\ At("record")
  /\ \/ /\ Fresh(r, job.asCopy)
        /\ server' = [server EXCEPT ![r] = onCopy]
        /\ work' = [job EXCEPT !.pc = "report", !.asCopy = onCopy]
     \/ /\ Retried(r, job.asCopy)
        /\ server' = [server EXCEPT ![r] = RecordOnLatest(@, job.at)]
        /\ Goto("report")
  /\ UNCHANGED <<lbs, lost>> /\ NoEvent

\* The owner of listener l is served there.
Served(r, l) ==
  IF l \in Terminating THEN targets[l] = r /\ <<r, l>> \in albSets ELSE nlbSets[l] = {r}

\* Mutant: a deleted route that has handed its listener over is not released.
NotReleased(job) == Idle

\* The successor is programmed: the deleted route is released.
Releasing(job) == [job EXCEPT !.pc = "release", !.as = job.route, !.asCopy = job.copy]

\* The end of setL4RouteProgrammed.
Report ==
  LET job == work IN
  /\ At("report")
  /\ SetStatus(job.as, job.asCopy, BalancerOf(job.at), "programmed")
  /\ work' \in IF job.as = job.route THEN Turns(job) ELSE {Releasing(job)}
  /\ lost' = IF Owner(job.at) = job.as /\ Served(job.as, job.at)
             THEN lost \ {job.at} ELSE lost
  /\ UNCHANGED lbs /\ NoEvent

\* An object that is being deleted goes with its last finalizer.
Update(r, x) ==
  server' = [server EXCEPT ![r] = IF x.deleting /\ ~Finalized(x) THEN Nil ELSE x]

\* The end of deprovisionLoadBalancerRoute and of deprovisionL4Route; a conflict is an
\* error (Fail).
RemoveFinalizer ==
  LET job == work IN
  /\ At("release")
  /\ Fresh(job.route, job.copy)
  /\ Update(job.route, IF job.at \in Terminating
                       THEN [job.copy EXCEPT !.alb = {}, !.albHeld = FALSE]
                       ELSE [job.copy EXCEPT !.nlb = {}])
  /\ lost' = lost \cup ((job.copy.spec \cup Recorded(job.copy)) \ {job.at})
  /\ work' \in Turns(job)
  /\ UNCHANGED lbs /\ NoEvent

\* removeDetachedRouteFinalizers
RemoveDetachedFinalizers ==
  LET job == work IN
  /\ At("detach")
  /\ Fresh(job.route, job.copy)
  /\ Update(job.route, [job.copy EXCEPT !.nlb = {}, !.alb = {}, !.albHeld = FALSE])
  /\ work' = Idle
  /\ UNCHANGED <<lbs, lost>> /\ NoEvent

----------------------------------------------------------------------------
(* The users, the informers, the Gateways' controllers and the process.    *)

Edit(kind) == kind \in Edits[born] /\ edits < MaxEdits /\ edits' = edits + 1
Known == {r \in Routes : cache[r] # Nil}

\* The bound on who is created: roster f has route r next to those that are there, and
\* nothing has been changed yet.
Rostered(f, r, s) ==
  /\ edits = 0
  /\ born \cup {r} \subseteq DOMAIN f /\ f[r] = s
  /\ \A x \in born : server[x] # Nil /\ server[x].spec = f[x]

Create(r, s) ==
  /\ r \notin born /\ \A x \in Routes : x < r => x \in born
  /\ \E f \in Rosters : Rostered(f, r, s)
  /\ born' = born \cup {r}
  /\ server' = [server EXCEPT ![r] =
       [spec |-> s, deleting |-> FALSE, nlb |-> {}, alb |-> {}, albHeld |-> FALSE,
        status |-> NoStatus]]
  /\ UNCHANGED <<cache, users, lbs, queue, work, edits, lost>>

\* The API server removes an object without finalizers at once.
Delete(r) ==
  /\ server[r] # Nil /\ ~server[r].deleting
  /\ Update(r, [server[r] EXCEPT !.deleting = TRUE, !.status = NoStatus])
  /\ lost' = lost \cup {l \in server[r].spec : ~Holds(server[r], l)}
  /\ UNCHANGED <<cache, born, users, lbs, queue, work, edits>>

Attach(r, s) ==
  /\ Edit("route")
  /\ server[r] # Nil /\ ~server[r].deleting /\ s # server[r].spec
  /\ server' = [server EXCEPT ![r].spec = s, ![r].status = NoStatus]
  /\ lost' = lost \cup (server[r].spec \ s)
  /\ UNCHANGED <<cache, born, users, lbs, queue, work>>

\* The events of EndpointSlices and ReferenceGrants queue the routes that refer to them.
ChangeEndpoints(r) ==
  /\ Edit("endpoints")
  /\ endpoints' = IF r \in endpoints THEN endpoints \ {r} ELSE endpoints \cup {r}
  /\ queue' = queue \cup {r}
  /\ UNCHANGED <<server, cache, born, admits, there, lbs, work, lost>>

\* An event of a Gateway queues the routes that refer to it.
EditListener(l, p) ==
  /\ Edit("listener")
  /\ admits[l] # p
  /\ admits' = [admits EXCEPT ![l] = p]
  /\ queue' = queue \cup Known
  /\ lost' = lost \cup {l}
  /\ UNCHANGED <<server, cache, born, endpoints, there, lbs, work>>

EditGateway ==
  /\ Edit("gateway")
  /\ there' = ~there
  /\ queue' = queue \cup Known
  /\ lost' = lost \cup Terminating
  /\ UNCHANGED <<server, cache, born, endpoints, admits, lbs, work>>

\* Mutant: changes of the parents are not watched.
WatchedMetadata(x) == [deleting |-> x.deleting, nlb |-> x.nlb, alb |-> x.alb, held |-> x.albHeld]

\* What the watch predicate lets pass (l4RouteObjectPredicate): not the status.
Watched(x) == [spec |-> x.spec, deleting |-> x.deleting, nlb |-> x.nlb, alb |-> x.alb,
               held |-> x.albHeld]

Observe(r) ==
  /\ cache[r] # server[r]
  /\ cache' = [cache EXCEPT ![r] = server[r]]
  /\ queue' = IF cache[r] # Nil /\ server[r] # Nil /\ Watched(cache[r]) = Watched(server[r])
              THEN queue ELSE queue \cup {r}
  /\ UNCHANGED <<server, born, users, lbs, work, edits, lost>>

\* The Gateway's controller keeps a backend set for each passthrough listener.
GatewaySyncsSet(l) ==
  /\ l \notin Terminating /\ (admits[l] = Nil) # (nlbSets[l] = Nil)
  /\ nlbSets' = [nlbSets EXCEPT ![l] = IF @ = Nil THEN {} ELSE Nil]
  /\ UNCHANGED <<server, cache, born, users, targets, albSets, queue, work, edits, lost>>

Crash ==
  /\ work' = Idle
  /\ cache' = server
  /\ queue' = {r \in Routes : server[r] # Nil}
  /\ UNCHANGED <<server, born, users, lbs, edits, lost>>

----------------------------------------------------------------------------
Init ==
  /\ server = [r \in Routes |-> Nil]
  /\ cache = server
  /\ born = {}
  /\ endpoints = Routes
  /\ admits = [l \in Listeners |-> Routes]
  /\ there = TRUE
  /\ nlbSets = [l \in Listeners \ Terminating |-> Nil]
  /\ targets = [l \in Terminating |-> Nil]
  /\ albSets = {}
  /\ queue = {}
  /\ work = Idle
  /\ edits = 0
  /\ lost = {}

Step ==
  \/ \E r \in Routes : Take(r)
  \/ \E l \in Listeners : ClearBackendSet(l) \/ DeleteListener(l)
  \/ Unmatched \/ SetPending \/ SetRejected \/ ProgramRoute \/ Forget
  \/ UpdateNLBBackendSet \/ ReconcileBackendSet \/ ReconcileTLSListener
  \/ DeleteBackendSet \/ SetProgrammed \/ Report
  \/ RemoveFinalizer \/ RemoveDetachedFinalizers

Gateway == \E l \in Listeners : GatewaySyncsSet(l)

Users ==
  \/ \E r \in Routes : (\E s \in Specs : Create(r, s)) \/ (\E s \in Moves : Attach(r, s))
  \/ \E r \in Routes : Delete(r) \/ ChangeEndpoints(r)
  \/ \E l \in Listeners, p \in {Nil, {}, Routes} : EditListener(l, p)
  \/ EditGateway

Next == Step \/ Fail \/ (\E r \in Routes : Observe(r)) \/ Gateway \/ Users \/ Crash

Spec == Init /\ [][Next]_vars

\* The call that the worker is about to make cannot succeed: the copy is out of date (and
\* so is the cached route), the backend set is missing or in use, or the successor was
\* rejected.
Refused ==
  \/ /\ At("unmatched") /\ ~work.copy.deleting
     /\ ~Fresh(work.route, work.copy) /\ ~Retried(work.route, work.copy)
  \/ /\ At("pending") \/ At("reject")
     /\ ~Fresh(work.route, work.copy) /\ ~Retried(work.route, work.copy)
  \/ /\ At("record") \/ At("report")
     /\ ~Fresh(work.as, work.asCopy) /\ ~Retried(work.as, work.asCopy)
  \/ At("reject") /\ work.as # work.route
  \/ At("forget") /\ ~Fresh(work.as, work.asCopy)
  \/ (At("release") \/ At("detach")) /\ ~Fresh(work.route, work.copy)
  \/ At("set") /\ work.at \notin Terminating /\ nlbSets[work.at] = Nil
  \/ At("unset") /\ targets[work.cur] = work.as

\* The worker, the informers and the Gateway's controller go on, requests are taken in
\* turn, and from some time on there are no restarts and Kubernetes and OCI fail only the
\* calls they have to refuse.
Fairness ==
  /\ WF_vars(Step \/ (Refused /\ Fail))
  /\ \A r \in Routes : WF_vars(Observe(r)) /\ SF_vars(Take(r))
  /\ WF_vars(Gateway)
  /\ <>[][Crash => Fail]_vars /\ <>[][Fail => Refused]_vars

FairSpec == Spec /\ Fairness

----------------------------------------------------------------------------
(* Properties.                                                             *)

(***************************************************************************)
(* The types of the variables; the finalizer of the Load Balancer comes    *)
(* with every record of its resources; a route being programmed at a       *)
(* listener is attached to it in the copy that was read; and a route is    *)
(* released at a listener only with the finalizer of its load balancer.    *)
(***************************************************************************)
TypeOK ==
  /\ server \in [Routes -> Route \cup {Nil}] /\ cache \in [Routes -> Route \cup {Nil}]
  /\ born \subseteq Routes /\ endpoints \subseteq Routes /\ queue \subseteq Routes
  /\ admits \in [Listeners -> (SUBSET Routes) \cup {Nil}]
  /\ there \in BOOLEAN
  /\ nlbSets \in [Listeners \ Terminating -> (SUBSET Routes) \cup {Nil}]
  /\ targets \in [Terminating -> Routes \cup {Nil}]
  /\ albSets \subseteq Routes \X Terminating
  /\ \A r \in Routes : server[r] # Nil => (server[r].alb # {} => server[r].albHeld)
  /\ Busy => /\ work \in Job
             /\ At("record") => work.at \in work.asCopy.spec
             /\ At("release") => Holds(work.copy, work.at)
             /\ At("detach") => Finalized(work.copy)
  /\ edits \in 0..MaxEdits /\ lost \subseteq Listeners

(***************************************************************************)
(* Whenever a terminating listener forwards to a backend set, that set is  *)
(* in the Load Balancer: programming makes the set before the listener     *)
(* points to it, and no cleanup - of a deleted route, of a detached one or *)
(* of one that moved to the other kind of load balancer - takes a set away *)
(* while a listener still uses it (programLoadBalancerTerminateRoute,      *)
(* deleteLoadBalancerRouteResourcesByName).                                *)
(***************************************************************************)
TargetsExist ==
  \A l \in Terminating : targets[l] # Nil => <<targets[l], l>> \in albSets

\* Nothing is left to do: no request, no event and no write is outstanding.
Settled ==
  /\ queue = {} /\ ~Busy
  /\ cache = server
  /\ \A l \in Listeners \ Terminating : (admits[l] = Nil) = (nlbSets[l] = Nil)

(***************************************************************************)
(* When everything has settled, every listener serves the oldest route     *)
(* attached to it, which has the finalizer of the listener's load          *)
(* balancer; and a listener without routes serves none.  This is what      *)
(* exclusive ownership (ensureExclusiveListenerOwner), the hand-over by a  *)
(* deleted route and requeueing promise together, over failures,           *)
(* conflicts, restarts and stale reads.  Excepted are the listeners in     *)
(* `lost', where the code hands nothing over: a route left it or lost its  *)
(* Gateway, or was deleted without the listener's finalizer or with it     *)
(* released at another listener; or the cleanup of a route, or its         *)
(* programming from a stale read, wrote over another route's; or a route   *)
(* was rejected for one that was gone already.                             *)
(***************************************************************************)
OwnersServed ==
  Settled =>
    \A l \in Open \ lost :
      LET o == Owner(l) IN
      /\ o = Nil => IF l \in Terminating THEN targets[l] = Nil ELSE nlbSets[l] = {}
      /\ o # Nil /\ o \in admits[l] \cap endpoints =>
           /\ IF l \in Terminating THEN targets[l] = o ELSE nlbSets[l] = {o}
           /\ IF l \in Terminating THEN server[o].albHeld ELSE l \in server[o].nlb

(***************************************************************************)
(* A route loses a finalizer in deletion only when the listener it         *)
(* releases serves it no more: the successor is served, or the resources   *)
(* are gone (deprovisionLoadBalancerRoute, deprovisionL4Route).            *)
(***************************************************************************)
ReleasedMeansUnserved ==
  [][At("release") /\ server' # server =>
       LET l == work.at IN
       IF l \in Terminating THEN targets[l] # work.route
       ELSE nlbSets[l] = Nil \/ work.route \notin nlbSets[l]]_vars

\* Finalizers that nothing removes: that of a kind of load balancer of which no listener
\* matches the route, while one of the other kind does; and, if none matches, that of the
\* Load Balancer without the record of its resources or without their Gateway.
Stuck(x) ==
  LET matched == {BalancerOf(l) : l \in x.spec \cap Open} IN
  \/ x.albHeld /\ matched = {"nlb"}
  \/ x.nlb # {} /\ matched = {"alb"}
  \/ x.albHeld /\ x.nlb = {} /\ matched = {} /\ (x.alb = {} \/ ~there)

\* The route that should take listener l over from route r cannot be programmed there: its
\* references do not resolve, or the listener does not admit it.
Heirless(r, l) ==
  LET heirs == Claimants(server, l) \ {r} IN
  /\ l \in server[r].spec \cap Open /\ Holds(server[r], l)
  /\ heirs # {} /\ Min(heirs) \notin endpoints \cap admits[l]

(***************************************************************************)
(* A deleted route goes away, however its hand-over to the next oldest     *)
(* route or its cleanup is interrupted: by failures, conflicts, restarts,  *)
(* or a successor that is deleted itself.  It stays only if it has been    *)
(* moved to the other kind of load balancer and not been programmed there  *)
(* (reconcileResolvedRoute asks for the finalizer of the new one); or if   *)
(* no listener matches it and the record of its resources is missing or    *)
(* their Gateway is gone (deprovisionDetachedLoadBalancerRoute returns     *)
(* without an error); or while a listener of its has a successor that      *)
(* cannot be programmed (the hand-over fails and is retried).  In other    *)
(* words, again and again there is a moment at which every route that is   *)
(* being deleted has one of these reasons to stay.                         *)
(***************************************************************************)
DeletionsEnd ==
  []<>(\A r \in Routes :
         server[r] # Nil /\ server[r].deleting =>
           Stuck(server[r]) \/ \E l \in Listeners : Heirless(r, l))

(***************************************************************************)
(* What the tests say of a route that moves from a Load Balancer to a      *)
(* Network Load Balancer ("stale ALB programmed state is cleared before    *)
(* NLB programming"): when the backends of a route with the Load           *)
(* Balancer's finalizer are put into a passthrough listener's set, no      *)
(* terminating listener that it is not attached to any more forwards to    *)
(* it.  The code breaks this: the record of a route that was marked        *)
(* pending just before is written after a conflict, it lacks the           *)
(* resources, and without them only the finalizer is removed.              *)
(***************************************************************************)
StaleStateCleared ==
  [][\A l \in Listeners \ Terminating, r \in Routes :
       nlbSets'[l] = {r} /\ nlbSets[l] # {r} /\ there /\ work.asCopy.albHeld =>
         \A a \in Terminating \ work.copy.spec : targets[a] # r]_vars

=============================================================================
