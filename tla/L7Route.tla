-------------------------------- MODULE L7Route --------------------------------
(***************************************************************************)
(* HTTPRoutes and GRPCRoutes on one OCI Load Balancer (httproute_model.go, *)
(* grpcroute_model.go and their controllers).  A route has rules in the    *)
(* routing policy of every listener it is attached to, and they forward to *)
(* the backend set of its service.  Routes may share a backend set.        *)
(*                                                                         *)
(*   - programming a route creates its backend set, commits its rules at   *)
(*     every matched listener, removes them from the recorded listeners    *)
(*     that no longer match, and records the rest in the route's           *)
(*     annotations and finalizer; then the set's endpoints are filled in;  *)
(*   - a route that no listener allows, or whose service is missing, loses *)
(*     its rules and gets a status;                                        *)
(*   - deleting a recorded route removes its rules, its backend set unless *)
(*     some rule uses it, and at last the finalizer.                       *)
(*                                                                         *)
(* Each kind of route has a controller with one worker.  It reads routes   *)
(* from an informer cache that lags behind the API server; an Update of a  *)
(* copy that is out of date is a conflict.  Any call to Kubernetes or OCI  *)
(* may fail, and the route is then queued again.  The drift interval is    *)
(* its default, zero.                                                      *)
(*                                                                         *)
(* The finalizer and the annotations are written together, so a route has  *)
(* the finalizer exactly when `recorded' is not empty.  Of the conditions  *)
(* only ResolvedRefs is kept.  A route stands for its rules and has one    *)
(* service.  Commits are atomic: RoutingPolicy is about what they do to    *)
(* each other.  The protocol of the listeners is the Gateway's.            *)
(***************************************************************************)
EXTENDS Naturals

CONSTANTS
  Kinds,      \* the kinds of route, each with its controller
  Routes,
  KindOf,     \* route -> its kind
  Guests,     \* the routes of other namespaces than the Gateway's
  Parents,    \* the Gateway and its ListenerSets
  ListenersOf,  \* parent -> the names of its listeners
  Services,   \* the services, which name the backend sets
  FirstTo,    \* route -> the service it is created with
  MaxEdits,   \* bound: changes of routes, listeners and services by users
  MaxCrashes, \* bound: restarts of the controller
  Nil

Listeners == UNION {ListenersOf[p] : p \in Parents}

ASSUME L7RouteAssumption ==
  /\ KindOf \in [Routes -> Kinds]
  /\ Guests \subseteq Routes
  /\ FirstTo \in [Routes -> Services]
  /\ MaxEdits \in Nat /\ MaxCrashes \in Nat
  /\ Nil \notin Kinds \cup Routes \cup Parents \cup Listeners \cup Services

VARIABLES
  server,    \* route -> the object at the API server, or Nil
  cache,     \* route -> the object as the informers have it, or Nil
  born,      \* the routes that have been created
  gateway,   \* listener -> whether it exists, and the namespaces it allows routes from
  services,  \* the services that exist, and that routes may refer to
  rules,     \* listener -> route -> where its rules forward to, or Nil if there are none
  sets,      \* service -> its backend set in the load balancer
  queue,     \* the routes to reconcile
  work,      \* kind -> what its worker is doing
  edits, crashes, \* how much of the bounds is used
  lost,      \* history: <<route, listener>> whose rules were removed, or never made,
             \* while the route's record or status says nothing of it
  slipped    \* history: <<route, listener>> with rules that the route does not record

vars == <<server, cache, born, gateway, services, rules, sets, queue, work, edits,
          crashes, lost, slipped>>

----------------------------------------------------------------------------
\* A user's change, and the deletion, is a new generation.
Gens == 0..(MaxEdits + 2)

Route == [gen : Gens,                \* metadata.generation
          on : SUBSET Parents,       \* parentRefs
          to : Services,             \* backendRefs
          deleting : BOOLEAN,
          resolved : [Parents -> Gens], \* the generation for which ResolvedRefs is True
          recorded : SUBSET Listeners,  \* the annotation of programmed rules
          sets : SUBSET Services]       \* the annotation of programmed backend sets
Finalized(x) == x.recorded # {}

PCs == {"parents", "pending", "backends", "ensure", "commit", "unrule", "drop",
        "status", "record", "sync", "deny", "refuse", "clear", "delete", "release"}

Job == [pc : PCs,
        route : Routes,
        copy : Route,                  \* the route as it was read
        seen : [Listeners -> {"absent", "same", "all"}], \* the Gateway as it was read
        todo : SUBSET Parents,         \* the parents still to reconcile the route with
        at : Parents \cup {Nil},       \* the parent being reconciled
        left : SUBSET Listeners,       \* the routing policies still to commit
        then : {"drop", "deny", "refuse", "clear"}] \* what follows the removal of rules

ASSUME NilAssumption == Nil \notin Route /\ Nil \notin Job

Idle == Nil
Busy(k) == work[k] # Idle
At(k, pc) == Busy(k) /\ work[k].pc = pc

\* effectiveListenersForParentRef and allowedRouteListeners
Matching(seen, p) == {l \in ListenersOf[p] : seen[l] # "absent"}
Allowed(r, seen, l) == seen[l] = "all" \/ (seen[l] = "same" /\ r \notin Guests)
Matched(r, seen, p) == {l \in Matching(seen, p) : Allowed(r, seen, l)}

MatchedNow(job) == Matched(job.route, job.seen, job.at)

----------------------------------------------------------------------------
(* Reconciling a request: resolveRequest, reconcileResolvedRoute.          *)

Goto(k, pc) == work' = [work EXCEPT ![k].pc = pc]
Finish(k) == work' = [work EXCEPT ![k] = Idle]
Done(k) == work' = [work EXCEPT ![k].pc = "parents", ![k].todo = @ \ {work[k].at}]
NoOCI == UNCHANGED <<rules, sets, lost, slipped>>
NoEvent == UNCHANGED <<cache, born, gateway, services, queue, edits, crashes>>

\* The job, removing rules at `names' before it goes on.
Unruling(job, names, then) ==
  [job EXCEPT !.pc = IF names = {} THEN then ELSE "unrule", !.left = names, !.then = then]

NewJob(r) ==
  [pc |-> "parents", route |-> r, copy |-> cache[r], seen |-> gateway,
   todo |-> {p \in cache[r].on : Matching(gateway, p) # {}},
   at |-> Nil, left |-> {}, then |-> "clear"]

\* Mutants: no detached route is cleaned up; or every one is.
NeverDetached(copy) == FALSE
AlwaysDetached(copy) == TRUE

\* A deleted route without a relevant parent is cleaned up by its record
\* (deprovisionDetachedRoute); a live one is left alone.
Detached(copy) == copy.deleting

Take(k, r) ==
  /\ ~Busy(k) /\ r \in queue /\ KindOf[r] = k
  /\ queue' = queue \ {r}
  /\ \/ cache[r] = Nil /\ UNCHANGED work
     \/ /\ cache[r] # Nil
        /\ LET job == NewJob(r) IN
           IF job.todo # {} THEN work' = [work EXCEPT ![k] = job]
           ELSE IF Detached(job.copy)
                THEN work' = [work EXCEPT ![k] = Unruling(job, job.copy.recorded, "clear")]
                ELSE UNCHANGED work
  /\ NoOCI
  /\ UNCHANGED <<server, cache, born, gateway, services, edits, crashes>>

\* Mutant: only the status counts.
RequiredByStatus(x, p, listeners) == x.resolved[p] # x.gen

\* l7ProgrammedListenersChanged
ListenersChanged(x, listeners) == x.recorded # listeners

\* isProgrammingRequired
Required(x, p, listeners) == ListenersChanged(x, listeners) \/ x.resolved[p] # x.gen

\* acceptRoute: the attachment is denied.
Denied(listeners) == listeners = {}

\* Mutant: rules are removed only at the listeners that the route matches.
RemovableIfMatched(job) == job.copy.recorded \cap MatchedNow(job)

\* The rules that deprovisionRoute and rejectRoute remove.
Removable(job) == job.copy.recorded

\* One parent: deprovisioning, rejection by acceptRoute, programming, or only the
\* endpoints.
NextParent(k) ==
  /\ At(k, "parents")
  /\ LET job == work[k] IN
     \/ job.todo = {} /\ Finish(k)
     \/ \E p \in job.todo :
          LET on == [job EXCEPT !.at = p]
              listeners == MatchedNow(on)
          IN work' = [work EXCEPT ![k] =
               IF job.copy.deleting THEN Unruling(on, Removable(on), "clear")
               ELSE IF Denied(listeners) THEN Unruling(on, Removable(on), "deny")
               ELSE IF Required(job.copy, p, listeners) THEN [on EXCEPT !.pc = "pending"]
               ELSE [on EXCEPT !.pc = "sync"]]
  /\ NoOCI /\ NoEvent /\ UNCHANGED server

\* Any error: the worker gives up and the request is queued again.
Fail(k) ==
  /\ Busy(k)
  /\ Finish(k)
  /\ queue' = queue \cup {work[k].route}
  /\ NoOCI
  /\ UNCHANGED <<server, cache, born, gateway, services, edits, crashes>>

----------------------------------------------------------------------------
(* Writing the route: setCondition, which retries a conflict once with the *)
(* cached route, and direct updates, which do not retry.                   *)

Current(k) ==
  LET job == work[k] IN
  server[job.route] # Nil /\ server[job.route] \in {job.copy, cache[job.route]}

\* ResolvedRefs at parent `at': True for the generation of the copy, or 0.
SetCondition(k, gen) ==
  LET job == work[k] IN
  /\ Current(k)
  /\ server' = [server EXCEPT ![job.route].resolved[job.at] = gen]

SetPending(k) ==
  /\ At(k, "pending")
  /\ SetCondition(k, 0)
  /\ Goto(k, "backends")
  /\ NoOCI /\ NoEvent

\* What programming puts on record: the copy's listeners and the matched ones
\* (mergeL7ProgrammedPolicyRules).
Merged(job) == job.copy.recorded \cup MatchedNow(job)

\* Listeners on record that the copy does not have, with rules to another service: the
\* worker has not looked at them.
Overlooked(job) ==
  {l \in server[job.route].recorded \ Merged(job) : rules[l][job.route] # job.copy.to}

\* setProgrammed: the condition first ...
SetStatus(k) ==
  LET job == work[k] IN
  /\ At(k, "status")
  /\ SetCondition(k, job.copy.gen)
  /\ lost' = lost \cup ({job.route} \X Overlooked(job))
  /\ work' = [work EXCEPT ![k].pc = "record",
                ![k].copy = IF server[job.route] = job.copy THEN server'[job.route] ELSE @]
  /\ UNCHANGED <<rules, sets, slipped>> /\ NoEvent

\* ... then finalizer and annotations, which come from the copy in either case.

Ruled(r) == {l \in Listeners : rules[l][r] # Nil}

Record(k) ==
  LET job == work[k]
      r == job.route
  IN
  /\ At(k, "record")
  /\ Current(k)
  /\ server' = [server EXCEPT ![r].recorded = Merged(job), ![r].sets = {job.copy.to}]
  /\ slipped' = (slipped \ ({r} \X Merged(job))) \cup ({r} \X (Ruled(r) \ Merged(job)))
  /\ Goto(k, "sync")
  /\ UNCHANGED <<rules, sets, lost>> /\ NoEvent

\* rejectRoute: a conflict is an error (Fail).
Deny(k) ==
  /\ At(k, "deny")
  /\ server[work[k].route] = work[k].copy
  /\ Done(k)
  /\ NoOCI /\ NoEvent /\ UNCHANGED server

\* setRejected
Refuse(k) ==
  LET job == work[k] IN
  /\ At(k, "refuse")
  /\ SetCondition(k, 0)
  /\ lost' = lost \cup ({job.route} \X MatchedNow(job))
  /\ Done(k)
  /\ UNCHANGED <<rules, sets, slipped>> /\ NoEvent

----------------------------------------------------------------------------
(* Programming: programL7RoutePolicy, and the endpoints.                   *)

\* resolveBackendRefs
BackendsResolve(x) == x.to \in services

ResolveBackends(k) ==
  LET job == work[k] IN
  /\ At(k, "backends")
  /\ work' = [work EXCEPT ![k] =
       IF BackendsResolve(job.copy) THEN [job EXCEPT !.pc = "ensure"]
       ELSE Unruling(job, job.copy.recorded, "refuse")]
  /\ NoOCI /\ NoEvent /\ UNCHANGED server

\* reconcileL7BackendSets
EnsureSet(k) ==
  LET job == work[k] IN
  /\ At(k, "ensure")
  /\ sets' = [sets EXCEPT ![job.copy.to] = IF @ = "none" THEN "empty" ELSE @]
  /\ work' = [work EXCEPT ![k].pc = "commit", ![k].left = MatchedNow(job)]
  /\ UNCHANGED <<server, rules, lost, slipped>> /\ NoEvent

\* The route is no longer as the worker takes it to be.
Outdated(job, l) ==
  LET x == server[job.route] IN
  \/ x = Nil
  \/ x.deleting \/ job.at \notin x.on \/ l \notin Matched(job.route, gateway, job.at)

\* Mutant: the rules stay where the listeners do not match any more.
NoStaleListeners(job) == {}

\* The listeners that removeStaleL7PolicyRules cleans up.
StaleListeners(job) == job.copy.recorded \ MatchedNow(job)

\* OCI refuses a rule that forwards to a missing backend set.
CommitRules(k, l) ==
  LET job == work[k]
      r == job.route
  IN
  /\ At(k, "commit") /\ l \in job.left
  /\ sets[job.copy.to] # "none"
  /\ rules' = [rules EXCEPT ![l][r] = job.copy.to]
  /\ lost' = lost \ {<<r, l>>}
  /\ slipped' = IF Outdated(job, l) /\ (server[r] # Nil => l \notin server[r].recorded)
                THEN slipped \cup {<<r, l>>} ELSE slipped
  /\ work' = [work EXCEPT ![k] =
       IF job.left # {l} THEN [job EXCEPT !.left = @ \ {l}]
       ELSE Unruling(job, StaleListeners(job), "drop")]
  /\ UNCHANGED <<server, sets>> /\ NoEvent

\* removeL7RoutePolicyRules, removeStaleL7PolicyRules, and the rules of deprovisionRoute
RemoveRules(k, l) ==
  LET job == work[k]
      r == job.route
  IN
  /\ At(k, "unrule") /\ l \in job.left
  /\ rules' = [rules EXCEPT ![l][r] = Nil]
  /\ lost' = lost \cup {<<r, l>>}
  /\ slipped' = slipped \ {<<r, l>>}
  /\ work' = [work EXCEPT ![k] = Unruling(job, job.left \ {l}, job.then)]
  /\ UNCHANGED <<server, sets>> /\ NoEvent

\* backendSetReferenced; OCI refuses to delete a backend set that a rule uses.
Used(s) == \E l \in Listeners, r \in Routes : rules[l][r] = s

\* Mutant: a set in use is deleted too.
WithoutAnySets(names) == [s \in Services |-> IF s \in names THEN "none" ELSE sets[s]]

\* deprovisionBackendSetByName: a set in use is skipped.
WithoutSets(names) ==
  [s \in Services |-> IF s \in names /\ ~Used(s) THEN "none" ELSE sets[s]]

\* deprovisionStaleL7BackendSets
DropStaleSets(k) ==
  /\ At(k, "drop")
  /\ sets' = WithoutSets(work[k].copy.sets \ {work[k].copy.to})
  /\ Goto(k, "status")
  /\ UNCHANGED <<server, rules, lost, slipped>> /\ NoEvent

\* syncRouteEndpoints
SyncEndpoints(k) ==
  LET s == work[k].copy.to IN
  /\ At(k, "sync")
  /\ sets[s] # "none"
  /\ sets' = [sets EXCEPT ![s] = "filled"]
  /\ Done(k)
  /\ UNCHANGED <<server, rules, lost, slipped>> /\ NoEvent

----------------------------------------------------------------------------
(* Deprovisioning: deprovisionRoute, deprovisionDetachedL7Route.           *)

\* deprovisionL7BackendSets asks for references first ...
CheckSet(k) ==
  LET copy == work[k].copy IN
  /\ At(k, "clear")
  /\ Goto(k, IF copy.to \in copy.sets /\ Used(copy.to) THEN "release" ELSE "delete")
  /\ NoOCI /\ NoEvent /\ UNCHANGED server

\* ... and deletes the set of the route's service.
DeleteSet(k) ==
  /\ At(k, "delete")
  /\ sets' = WithoutSets({work[k].copy.to})
  /\ Goto(k, "release")
  /\ UNCHANGED <<server, rules, lost, slipped>> /\ NoEvent

\* The finalizer is removed from the copy; a conflict is an error (Fail).
RemoveFinalizer(k) ==
  LET r == work[k].route IN
  /\ At(k, "release")
  /\ server[r] = work[k].copy
  /\ server' = [server EXCEPT ![r] = Nil]
  /\ Done(k)
  /\ NoOCI /\ NoEvent

----------------------------------------------------------------------------
(* The users, the informers, the Gateway's controller and the process.     *)

Edit == edits < MaxEdits /\ edits' = edits + 1

\* The rules that are in the load balancer but not on record.
Unrecorded(r) ==
  {r} \X {l \in Ruled(r) : server[r] # Nil => l \notin server[r].recorded}

Create(r) ==
  /\ r \notin born
  /\ born' = born \cup {r}
  /\ server' = [server EXCEPT ![r] =
       [gen |-> 1, on |-> Parents, to |-> FirstTo[r], deleting |-> FALSE,
        resolved |-> [p \in Parents |-> 0], recorded |-> {}, sets |-> {}]]
  /\ NoOCI
  /\ UNCHANGED <<cache, gateway, services, queue, work, edits, crashes>>

\* The API server removes an object without finalizers at once.
Delete(r) ==
  /\ server[r] # Nil /\ ~server[r].deleting
  /\ server' = [server EXCEPT ![r] =
       IF ~Finalized(server[r]) THEN Nil
       ELSE [server[r] EXCEPT !.deleting = TRUE, !.gen = server[r].gen + 1]]
  /\ slipped' = slipped \cup Unrecorded(r)
  /\ UNCHANGED <<rules, sets, lost>>
  /\ UNCHANGED <<cache, born, gateway, services, queue, work, edits, crashes>>

Redirect(r, s) ==
  /\ Edit
  /\ server[r] # Nil /\ ~server[r].deleting /\ s # server[r].to
  /\ server' = [server EXCEPT ![r].to = s, ![r].gen = @ + 1]
  /\ NoOCI
  /\ UNCHANGED <<cache, born, gateway, services, queue, work, crashes>>

Attach(r, on) ==
  /\ Edit
  /\ server[r] # Nil /\ ~server[r].deleting /\ on # server[r].on
  /\ server' = [server EXCEPT ![r].on = on, ![r].gen = @ + 1]
  /\ slipped' = slipped \cup Unrecorded(r)
  /\ UNCHANGED <<rules, sets, lost>>
  /\ UNCHANGED <<cache, born, gateway, services, queue, work, crashes>>

\* MapGatewayToHTTPRoute, MapListenerSetToHTTPRoute: deleted routes are not queued.
EditListener(l, st) ==
  /\ Edit
  /\ gateway[l] # st
  /\ gateway' = [gateway EXCEPT ![l] = st]
  /\ queue' = queue \cup {r \in Routes : /\ cache[r] # Nil /\ ~cache[r].deleting
                                         /\ \E p \in cache[r].on : l \in ListenersOf[p]}
  /\ slipped' = slipped \cup UNION {Unrecorded(r) : r \in Routes}
  /\ UNCHANGED <<rules, sets, lost>>
  /\ UNCHANGED <<server, cache, born, services, work, crashes>>

\* indexHTTPRouteByBackendService: the routes that an event of a service queues.
Indexed(s) ==
  {r \in Routes : /\ cache[r] # Nil /\ ~cache[r].deleting /\ cache[r].to = s
                  /\ \E p \in Parents : cache[r].resolved[p] # 0}

EditService(s) ==
  /\ Edit
  /\ services' = IF s \in services THEN services \ {s} ELSE services \cup {s}
  /\ queue' = queue \cup Indexed(s)
  /\ NoOCI
  /\ UNCHANGED <<server, cache, born, gateway, work, crashes>>

\* l7RouteObjectPredicate: a change of status alone is no event.
Eventful(old, new) ==
  \/ old = Nil \/ new = Nil
  \/ old.gen # new.gen \/ old.recorded # new.recorded \/ old.sets # new.sets

\* MapHTTPRouteToGRPCRoute, MapGRPCRouteToHTTPRoute
Paired(r, x) ==
  {y \in Routes : /\ KindOf[y] # KindOf[r]
                  /\ cache[y] # Nil /\ ~cache[y].deleting /\ cache[y].on \cap x.on # {}}

Observe(r) ==
  /\ cache[r] # server[r]
  /\ cache' = [cache EXCEPT ![r] = server[r]]
  /\ queue' = IF Eventful(cache[r], server[r])
              THEN queue \cup {r} \cup Paired(r, IF server[r] = Nil THEN cache[r] ELSE server[r])
              ELSE queue
  /\ NoOCI
  /\ UNCHANGED <<server, born, gateway, services, work, edits, crashes>>

\* The Gateway's controller removes the routing policy of a listener that is gone.
GatewayRemoves(l) ==
  /\ gateway[l] = "absent" /\ \E r \in Routes : rules[l][r] # Nil
  /\ rules' = [rules EXCEPT ![l] = [r \in Routes |-> Nil]]
  /\ lost' = lost \cup {<<r, l>> : r \in {r \in Routes : rules[l][r] # Nil}}
  /\ slipped' = slipped \ (Routes \X {l})
  /\ UNCHANGED sets
  /\ UNCHANGED <<server, cache, born, gateway, services, queue, work, edits, crashes>>

Crash ==
  /\ crashes < MaxCrashes
  /\ crashes' = crashes + 1
  /\ work' = [k \in Kinds |-> Idle]
  /\ cache' = server
  /\ queue' = {r \in Routes : server[r] # Nil}
  /\ NoOCI
  /\ UNCHANGED <<server, born, gateway, services, edits>>

----------------------------------------------------------------------------
Init ==
  /\ server = [r \in Routes |-> Nil]
  /\ cache = server
  /\ born = {}
  /\ gateway = [l \in Listeners |-> "all"]
  /\ services = Services
  /\ rules = [l \in Listeners |-> [r \in Routes |-> Nil]]
  /\ sets = [s \in Services |-> "none"]
  /\ queue = {}
  /\ work = [k \in Kinds |-> Idle]
  /\ edits = 0 /\ crashes = 0
  /\ lost = {} /\ slipped = {}

Step(k) ==
  \/ \E r \in Routes : Take(k, r)
  \/ \E l \in Listeners : CommitRules(k, l) \/ RemoveRules(k, l)
  \/ NextParent(k) \/ SetPending(k) \/ ResolveBackends(k) \/ EnsureSet(k)
  \/ DropStaleSets(k) \/ SetStatus(k) \/ Record(k) \/ SyncEndpoints(k)
  \/ Deny(k) \/ Refuse(k) \/ CheckSet(k) \/ DeleteSet(k) \/ RemoveFinalizer(k)

Users ==
  \/ \E r \in Routes : Create(r) \/ Delete(r)
  \/ \E r \in Routes, s \in Services : Redirect(r, s)
  \/ \E r \in Routes, on \in SUBSET Parents : Attach(r, on)
  \/ \E l \in Listeners, st \in {"absent", "same", "all"} : EditListener(l, st)
  \/ \E s \in Services : EditService(s)

Next ==
  \/ \E k \in Kinds : Step(k) \/ Fail(k)
  \/ \E r \in Routes : Observe(r)
  \/ \E l \in Listeners : GatewayRemoves(l)
  \/ Users \/ Crash

Spec == Init /\ [][Next]_vars

\* The call that the worker is about to make cannot succeed: the backend set is missing,
\* or the route is gone or the copy out of date.
Refused(k) ==
  LET job == work[k] IN
  \/ (At(k, "commit") \/ At(k, "sync")) /\ sets[job.copy.to] = "none"
  \/ /\ At(k, "pending") \/ At(k, "status") \/ At(k, "record") \/ At(k, "refuse")
     /\ ~Current(k)
  \/ (At(k, "deny") \/ At(k, "release")) /\ server[job.route] # job.copy

\* Workers and informers go on, requests are taken in turn, and from some time on
\* Kubernetes and OCI fail only the calls they have to refuse.
Fairness ==
  /\ \A k \in Kinds : WF_vars(Step(k) \/ (Refused(k) /\ Fail(k)))
  /\ \A r \in Routes : WF_vars(Observe(r)) /\ SF_vars(\E k \in Kinds : Take(k, r))
  /\ <>[][\A k \in Kinds : Fail(k) => Refused(k)]_vars

FairSpec == Spec /\ Fairness

----------------------------------------------------------------------------
(* Properties.                                                             *)

(***************************************************************************)
(* The types of the variables; a worker only has routes of its kind; and   *)
(* one that releases a route has a deleted, recorded one.                  *)
(***************************************************************************)
TypeOK ==
  /\ server \in [Routes -> Route \cup {Nil}] /\ cache \in [Routes -> Route \cup {Nil}]
  /\ born \subseteq Routes /\ queue \subseteq Routes /\ services \subseteq Services
  /\ gateway \in [Listeners -> {"absent", "same", "all"}]
  /\ rules \in [Listeners -> [Routes -> Services \cup {Nil}]]
  /\ sets \in [Services -> {"none", "empty", "filled"}]
  /\ work \in [Kinds -> Job \cup {Idle}]
  /\ \A k \in Kinds : Busy(k) => /\ KindOf[work[k].route] = k
                                 /\ At(k, "release") => /\ work[k].copy.deleting
                                                        /\ Finalized(work[k].copy)
  /\ edits \in 0..MaxEdits /\ crashes \in 0..MaxCrashes
  /\ lost \subseteq Routes \X Listeners /\ slipped \subseteq Routes \X Listeners

\* Nothing is left to do: no request, no event and no write is outstanding.
Settled == queue = {} /\ cache = server /\ \A k \in Kinds : ~Busy(k)

\* The listeners route r should have rules at, given that it exists.
Home(r) == UNION {{l \in ListenersOf[p] :
                     gateway[l] = "all" \/ (gateway[l] = "same" /\ r \notin Guests)}
                  : p \in server[r].on}

(***************************************************************************)
(* When everything has settled, a live route has its rules, forwarding to  *)
(* its current service, at every listener that takes it, they are on       *)
(* record, and the backend set of the service exists and has its           *)
(* endpoints.  This is what requeueing, the order of the writes and the    *)
(* deletion of unused backend sets only promise together, over failures,   *)
(* conflicts, restarts, stale reads and the other controller's worker.     *)
(* Excepted is what is in `lost', where the code has nothing to bring the  *)
(* rules back: a route that no listener allowed keeps its record and its   *)
(* condition, a listener that went away or was closed stays in the merged  *)
(* record, a route whose service was missing is not in the index that the  *)
(* events of the service are mapped with, and a worker whose copy lacks    *)
(* listeners on record - another worker's write, retried after a conflict, *)
(* put them there - sets the condition for rules it has not looked at.     *)
(***************************************************************************)
RoutesServed ==
  Settled =>
    \A r \in Routes : server[r] # Nil /\ ~server[r].deleting =>
      \A l \in Home(r) : <<r, l>> \notin lost =>
        /\ rules[l][r] = server[r].to
        /\ l \in server[r].recorded
        /\ sets[server[r].to] = "filled"

(***************************************************************************)
(* When everything has settled, a live route has no rules at a listener of *)
(* the Gateway that does not take it, as long as one of its parents has a  *)
(* listener (rejectRoute, removeStaleL7PolicyRules).                       *)
(***************************************************************************)
NoForeignRules ==
  Settled =>
    \A r \in Routes : server[r] # Nil /\ ~server[r].deleting =>
      \A l \in Listeners :
        /\ gateway[l] # "absent" /\ l \notin Home(r)
        /\ \E p \in server[r].on, m \in Listeners : m \in ListenersOf[p] /\ gateway[m] # "absent"
        => rules[l][r] = Nil \/ <<r, l>> \in slipped

(***************************************************************************)
(* A route loses its finalizer only when none of its rules are left in the *)
(* load balancer (deprovisionRoute, deprovisionDetachedL7Route), except    *)
(* for those in `slipped': the finalizer and the record are written after  *)
(* the rules, and what users change in between cuts the record off.        *)
(***************************************************************************)
ReleasedMeansUnruled ==
  [][\A r \in Routes :
       server[r] # Nil /\ Finalized(server[r]) /\ server'[r] = Nil =>
         \A l \in Listeners : rules[l][r] = Nil \/ <<r, l>> \in slipped]_vars

(***************************************************************************)
(* A deleted route goes away, however its deprovisioning is interrupted,   *)
(* also when its parents or their listeners are gone (resolveRequest,      *)
(* deprovisionRoute).                                                      *)
(***************************************************************************)
DeletionsEnd ==
  \A r \in Routes : (server[r] # Nil /\ server[r].deleting) ~> server[r] = Nil

=============================================================================
