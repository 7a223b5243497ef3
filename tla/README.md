# TLA+ models and proofs of the OKE Gateway API controller

The program is a Kubernetes controller in Go. It watches Gateway API objects and
makes Oracle Cloud (OCI) load balancers match them: Gateways of the class
`oke-alb-gateway-controller` become listeners of a layer-7 Load Balancer,
those of `oke-nlb-gateway-controller` listeners of a Network Load Balancer.
What is hard about it is that the wanted state is spread over many objects, each
reconciled by a controller of its own, while the actual state is a handful of
shared OCI objects that can only be read, and then written as a whole, by calls
that take minutes and may fail half-way.

This directory holds TLA+ modules of that behaviour, TLC configurations that
check them on small instances, and proofs that TLAPS checks. Line numbers refer
to `src/internal/app/` unless a path says otherwise.

## 1. Inventory

How the parts fit together:

```
 API server --watch--> informer cache --predicates, mappings--> one queue per controller
                            |                                        | 1 worker each
                            +---------- reads --------------> reconcilers (controller + model)
                                                                     |
   status, finalizers, annotations <--- resources model <-----------+
                                                                     |
        per-key locks --> load balancer model / NLB helpers --> OCI API --> work requests
```

Every controller is a goroutine with one worker (`src/internal/k8s/start_manager.go`
sets no `MaxConcurrentReconciles`), there is no leader election, and the client
reads from the informer cache. Controllers therefore interleave with each other,
with users, and with work that OCI carries out later; one controller never
overlaps with itself.

| Component | State it keeps | Operations | What is hard about it | What makes it correct |
|---|---|---|---|---|
| Routing policy and certificate locks (`oci_load_balancer_model.go` 1703-1803) | map from key to a lock object with mutex, reference count and (certificates) a cached value | acquire, lock, run, unlock, release | the entry is deleted while others wait on its mutex; counts kept by hand | one operation per key; an entry lives exactly while someone uses it; a certificate is created once; every caller gets its turn |
| Listener routing policies (`oci_load_balancer_model.go` 758-955, 1497-1660, 1805-1955) | the policy's rule list at OCI | commit a route's rules, create, repair the default rule, remove an orphan, delete | read-merge-write of a list shared by routes of two kinds and the Gateway; waits that end before the write does; snapshots taken before the lock | reported rules stay, removed ones stay away, the default rule is served |
| TCPRoute and UDPRoute reconcilers (`tcproute_model.go`, `udproute_model.go`, their controllers) | finalizer and annotation of recorded backend sets on the route; backends at OCI | resolve, program, reject, deprovision with hand-over, clean up when detached | exclusive ownership of a listener is decided from a lagging cache; OCI is written before the record | the oldest attached route is served; a released route left nothing behind; deletions end |
| NLB Gateway reconciler (`network_load_balancer_gateway_model.go`) | generation and listeners annotations, listeners and backend sets at OCI | resolve, program, remove missing listeners, report, deprovision | object read again between programming and reporting | what is reported as programmed at a generation is what that generation asks for; nothing recorded is forgotten |
| ALB Gateway reconciler (`gateway_model.go`) | the same on a Load Balancer, with certificates | default backend set, certificates, listeners, policies, conditions | order of creation and deletion among objects that refer to each other | OCI is never asked to delete what is in use; no object is left behind |
| HTTPRoute and GRPCRoute reconcilers (`httproute_model.go`, `grpcroute_model.go`) | annotations of programmed rules and backend sets, finalizer | resolve, accept or reject, program, deprovision | rules found by index names recorded earlier; backend sets shared between routes; conflicts between the kinds on one listener | recorded rules are in the policy, unrecorded ones are gone, a shared set is deleted by the last user |
| Backend sets of L7 routes (`httpbackend_model.go`) | backends at OCI | compare with endpoints, write | read-compare-write without a lock | the set ends as the endpoints last were |
| TLSRoute reconciler (`tlsroute_model.go`) | like L4 routes on an NLB, a listener on an ALB | passthrough, terminate, switch between them | a route may change platform | nothing is left on the platform it left |
| ListenerSets (`listenerset_model.go`) | none; status | merge listeners, find conflicts, count routes | precedence of equal ports and names | each listener has one owner, chosen the same way by everyone |
| Resources model (`resources_model.go`) | conditions, annotations, finalizers of any object | set condition, retry on conflict | two writes for one report; a retry on a newer object | a condition never speaks of a generation that was not handled |
| BackendTLSPolicy and frontend mTLS (`backend_tls_policy_model.go`, `frontend_mtls_model.go`) | OCI CA bundles found by name and tag, a cache of ids with expiry | ensure, share, clean up | cached id of a deleted bundle; clean-up by whoever deletes last | a bundle lives as long as a policy refers to it |
| Watches (`watches_model.go`) | field indexes | map an event to requests, filter updates | an object that refers to what does not exist yet | every change that alters a result queues whom it concerns |
| Work request watcher (`src/internal/services/ociapi/work_requests_watcher.go`) | none | poll until done, failed, deadline, error | the write outlives the wait | an error is not taken for a write that did not happen |
| Rule mapper, reference grants, route policies, drift intervals, status addresses | none | pure functions | boundaries | as in the code |
| GatewayClass, configuration, servers, logging, deployment | none to speak of | start, stop, one condition | - | - |

`PROJECT.json` lists the same components with their files and how far each is
modelled, and 40 places where this code can go wrong in a way a unit test
would hardly reach, each with the property that would notice or the reason why there is
none yet.

## 2. What is modelled now

### KeyedMutex, KeyedLocks, KeyedLocksProofs

`KeyedMutex` is the abstract promise: per key, at most one holder. `KeyedLocks`
is the code behind `withLock`: `AcquireKnown` and `AcquireNew` are the two paths
of `acquire` (1723-1737, 1779-1793), `Lock` the mutex, `Succeed` and `Fail` the
operation with its deferred unlock, `Release` the release with the conditional
delete (1739-1747, 1795-1803). `acquire` and `release` hold the map's mutex from
beginning to end, so each is one step; between them everything interleaves. The
lock objects are a finite pool that can be reused once no one can reach them,
as the garbage collector would.

`routingPolicyLocks` and `loadBalancerCertificateLocks` differ only in the
certificate cached on the lock object. The module has that field, and a routing policy's
lock is the case in which nobody looks at it. `created` is a history variable.

### RoutingPolicy, RoutingPolicyProofs

One policy of one listener. State at OCI: the policy as a set of named rules,
the listener, and the queue of accepted work requests. State of the workers:
where they are, what they were called for and what they last read. The map from
actions to code:

| Action | Code |
|---|---|
| `Commit`, `EnterCommit`, `GetPolicy`, `SkipCommit`, `WriteCommit`, `CommitSucceeds`, `CommitFails` | `commitRoutingPolicy` with its create, update and delete branches |
| `EnterReconcile`, `TrustSnapshot`, `Refresh`, `NothingToRepair`, `Repair`, `Repaired` | `reconcileListenerRoutingPolicy` and what it calls under the lock |
| `Attach`, `Detach`, `DeletePolicy`, `Detached`, `GatewayFails` | creating the listener, `removeMissingListeners`, `deleteMissingRoutingPolicy`, orphan removal |
| `GiveUp` | the watcher's deadline and its first polling error |
| `CarryOut`, `Refuse` | OCI (external) |

The lock is an instance of `KeyedMutex`, which `KeyedLocks` is proved to
implement. A route's rule has a name (owner and index) and a backend, which is
all that merging looks at. OCI refuses at once what could not be carried out,
keeps requests of a load balancer in order, and may let any of them fail.

History variables say what callers were told: `settled` is the last commit of a
route that was reported successful, unless it raced with a late request
(`overtaken`); `abandoned` is whose waits ended early.

### L4Route, L4RouteProofs

TCPRoutes and UDPRoutes, the API server and the informer cache as two copies of
every route, the listeners with their protocol, the backend sets at OCI, the
lock of the load balancer, and one worker per kind. The actions follow a
request from `Take` (queue, cache read, resolution against the listeners,
detached clean-up) over `NextListener`, `ProgramRoute`, `ResolveBackends`,
`UpdateBackendSet`, the synchronisation one backend at a time
(`CreateBackend`, `DeleteBackend`, `Synced`), to `SetProgrammed` with its
single conflict retry, or `RemoveFinalizer`. `ReadToClear` and `LockToClear` are
separate because `clearBackendSetByName` reads the load balancer before it takes the
lock. `Fail` stands for any error return: the lock is released by its defer and
the request is queued again. `Crash` loses the workers and the queue, keeps OCI
and the API server, and lists everything again. The Gateway is there as far as
it creates and deletes backend sets.

Abstractions: a route's backends are represented by the route, so that weights
and ports play no part; the listener's namespace and kind rules are the constant
`Permits`; reference grants and missing Services are the variable `endpoints`;
status conditions are left out, so a rejection has no effect of its own; one
Gateway.

### NLBGateway, NLBGatewayProofs, NLBGatewayRecordProofs

One Gateway on a Network Load Balancer that others use too. State: the Gateway
at the API server and in the informer cache (generation, specification, deletion,
finalizer, the conditions Accepted and Programmed with the generation each
speaks of, the recorded listener names); listeners, backend sets and the one work
request at OCI; the controller's single worker with its copy of the Gateway.

| Action | Code |
|---|---|
| `Take`, `Accept`, `CheckProgrammed`, `MarkPending`, `Protect` | `resolveReconcileRequest` and the controller's `Reconcile` up to programming; `MarkPending` and `Protect` are the status and the metadata write of one `setCondition` |
| `ReadLoadBalancer`, `Submit`, `Waited`, `Written` | `programGateway` and `deprovisionGateway`: a plan from one read of the load balancer, its requests one at a time, each awaited |
| `Refresh`, `Report`, `Record` | `setProgrammed`: the Gateway read again, status write, metadata write |
| `Reject`, `RemoveFinalizer`, `Fail` | `processResourceError`, the end of `deprovisionGateway`, any error return |
| `Carry`, `RequestFails`, `Edit`, `Delete`, `Observe`, `Crash` | OCI, users, the informer with `gatewayObjectPredicate`, a restart (external but for the predicate) |

`Update` is what `setCondition` and its two conflict retries do to the API server:
a write counts only if the worker's copy or the cached object is the current
one. With ListenerSets installed, the listeners are merged when the request is
resolved; without, they are computed from the Gateway read last (`Reported`).
A backend set is there or not, because `reconcileListenerBackendSet` only
creates what is missing; its backends are `L4Route`'s.

### L7Route, L7RouteProofs

HTTPRoutes and GRPCRoutes: the API server and the informer cache as two copies of every
route (specification, generation, recorded listeners with the finalizer, ResolvedRefs per
parent), the Gateway's listeners and whom they admit, Services, the rules each route has
at each listener, the backend sets, the queue, and one worker per kind.

| Action | Code |
|---|---|
| `Take`, `NextParent` | `resolveRequest` and the loop of `Reconcile` over the parents: reject, deprovision, skip what `isProgrammingRequired` finds done, or program |
| `SetPending`, `ResolveBackends`, `EnsureSet`, `CommitRules`, `RemoveRules`, `DropStaleSets` | `setL7RoutePending`, `resolveBackendRefs`, `programL7Route` with `programL7RoutePolicy`, `removeStaleL7PolicyRules` and `deprovisionStaleL7BackendSets` |
| `SetStatus`, `Record`, `SyncEndpoints` | the two writes of `setL7RouteProgrammed`'s `setCondition`, then `syncL7RouteEndpoints` |
| `Deny`, `Refuse` | `rejectL7Route`, and `setL7RouteRejected` after a missing reference |
| `RemoveRules`, `CheckSet`, `DeleteSet`, `RemoveFinalizer` | `deprovisionRoute`, `deprovisionDetachedL7Route`: rules, then every set that no rule uses, then the finalizer |
| `Create`, `Delete`, `Redirect`, `Attach`, `EditListener`, `EditService`, `Observe`, `GatewayRemoves`, `Fail`, `Crash` | users, the informer with `l7RouteObjectPredicate` and the mappings, `removeMissingListeners`, any error return, a restart |

`CheckSet` and `DeleteSet` are separate, because the rules are read in one call and the
set is deleted in another, while the other controller may commit a rule in between.
OCI refuses to delete a set that a rule uses.

Abstractions: a route stands for its rules and has one Service, "exists" meaning that it
exists and may be referred to; every rule set of a listener is one element; commits are
atomic, since `RoutingPolicy` is about what they do to each other; the Accepted condition
is left out; the listener's protocol is `ALBGateway`'s. The instances have one parent.

### TLSRoute, TLSRouteProofs

TLSRoutes at a listener of a Load Balancer (a backend set per route and listener, which the
TLS listener forwards to) and at one of a Network Load Balancer (the backend set of the
listener). The route's records for the two kinds are separate: `nlb` with its finalizer,
`albHeld` (finalizer and backend sets), and `alb` (the annotation of the resources).

| Action | Code |
|---|---|
| `Take`, `Unmatched`, `RemoveDetachedFinalizers` | `Reconcile`, `resolveRequest`, `rejectNoMatchingListener`, `deprovisionDetachedRoute` |
| `SetPending`, `SetRejected` | the status writes, which leave the worker's own copy with an old resource version |
| `ProgramRoute` | `ensureExclusiveListenerOwner`, reference resolution, and the choice of what to clean up first (`Sweep`) |
| `DeleteListener`, `DeleteBackendSet`, `ClearBackendSet`, `Forget` | `cleanupStale...ProgrammedState` and `removeProgrammedState`; also the clean-up of deleted and detached routes |
| `UpdateNLBBackendSet`, `ReconcileBackendSet`, `ReconcileTLSListener` | programming at either kind of load balancer |
| `SetProgrammed`, `Report` | the metadata write with its conflict retry, the status write |
| `RemoveFinalizer` | the end of `deprovisionRoute`, after a hand-over to the next oldest route or a clean-up |
| `Create`, `Delete`, `Attach`, `ChangeEndpoints`, `EditListener`, `EditGateway`, `Observe`, `GatewaySyncsSet`, `Fail`, `Crash` | users, informers with `l4RouteObjectPredicate`, the Gateway's creation and deletion of backend sets, any error return, a restart |

Abstractions: a write of a Network Load Balancer's set is one step (`L4Route` has its
parts); reads that nothing can fall between are merged; routes are created in the order
of their age; the drift interval is its default, zero; the TLS settings of listener and
backends are left out.

### ALBGateway, ALBGatewayProofs

One Gateway on a Load Balancer, and the two route controllers that write its listeners.
State: the Gateway at the API server and in the cache (generation, listeners, deletion,
finalizer, conditions, recorded listeners and certificates), the Secret and its version,
at OCI the listeners with certificate and protocol, the routing policies, the
certificates and the default backend set; the worker and its snapshot; the GRPCRoutes that have
their rules on record, and their worker with the listener it has read.

| Action | Code |
|---|---|
| `Take`, `Accept`, `CheckProgrammed`, `MarkPending`, `Protect`, `Reject` | `resolveReconcileRequest`, `Reconcile` up to programming, `processResourceError` |
| `ReadLoadBalancer`, `EnsureCertificate`, `EnsurePolicy`, `WriteListener`, `ListenersWritten`, `DeleteNext` | `programGateway`: snapshot and default set, certificates, per listener its policy and itself, then missing listeners with their policies and certificates that are not used any more |
| `Report`, `Record` | the status and the metadata write of `setProgrammed` |
| `ReadLoadBalancer`, `DeleteNext`, `RemoveFinalizer` | `deprovisionGateway`, in the order listeners, policies, certificates, default set |
| `GrpcRead`, `GrpcWrite` | `ensureGRPCListenerProtocol` at every reconcile, which reads the listener and writes all of it back |
| `GrpcPend`, `GrpcCommit`, `GrpcRecord` | only if `isProgrammingRequired`: `setPending`, the commit of the route's rules, `setProgrammed` |
| `TlsWrite`, `TlsDelete` | the certificate and the listener of a TLSRoute, one reconcile per step |
| `Edit`, `Delete`, `Rotate`, `DeleteSecret`, `Observe`, `Fail`, `GrpcFail`, `Crash` | users, the informer with `gatewayObjectPredicate`, any error return, a restart |

Abstractions: a call to OCI and its wait are one step (`RoutingPolicy` and `NLBGateway` have
waits that end early); all listeners refer to one Secret, read from the informer; ports,
frontend mTLS, ListenerSets and certificates that OCI manages are left out; a listener has
at most one GRPCRoute. One without a record is programmed. One with a record may be too, because
it was edited, has another status in the informer's copy, or is due for drift repair: that is the
choice `required`. The annotations of certificates and of the Secrets they came from are one
field.

## 3. Runs, and why the bounds are enough

| Run | Instance | Checks |
|---|---|---|
| `keyed_locks` | 3 workers, 2 keys, 3 lock objects; about 15,000 states | `TypeOK`, `MutualExclusion`, `EntriesAreInUse`, `CreatedAtMostOnce`, refinement `ImplementsMutex`, liveness `EveryCallerRuns` |
| `routing_policy` | an HTTPRoute, a GRPCRoute, the Gateway, one rule name per route, two backends, one abandoned wait; 4.4 million states | `TypeOK`, `CommittedRulesStay`, `RemovedRulesStayGone`, `DefaultRuleServed`, `WritesAreAtomic` |
| `l7_routes` | an HTTPRoute of another namespace, two listeners, two services, two edits, fairness; 390,000 states | `TypeOK`, `RoutesServed`, `NoForeignRules`, `ReleasedMeansUnruled`, liveness `DeletionsEnd` |
| `l7_shared` | an HTTPRoute and a GRPCRoute at one listener with one service, one restart; 1 million states | `RoutesServed` |
| `tls_routes` | two TLSRoutes that start at a listener of the Load Balancer, one of which may move to the other kind, or one at a listener of each kind and one change of any sort; 5.6 million states | `TypeOK`, `TargetsExist`, `OwnersServed`, `ReleasedMeansUnserved` |
| `tls_heirs` | two TLSRoutes at a listener, the younger of which takes over from the older, or one at either listener and one change of any sort, fairness; 680,000 states | `OwnersServed`, liveness `DeletionsEnd` |
| `tls_moves` | as `tls_routes` | violated: `StaleStateCleared` (section 7) |
| `l4_routes` | two TCPRoutes at a listener that refuses the older one, and at another that they join and leave; one edit, one restart; 3.2 million states | `ListenersServed`, `ReleasedMeansEmptied` |
| `l4_kinds` | a listener that changes its protocol, with two TCPRoutes, the younger of which takes over from the older, or with a TCPRoute and a UDPRoute; one edit, fairness; 286,000 states | `TypeOK`, `ListenersServed`, liveness `DeletionsEnd` |
| `nlb_gateway` | two listener names, five specifications, with ListenerSets, two generations, one restart, fairness; 610,000 states | `TypeOK`, `SettledIsServed`, `WritesAreProtected`, `ReleasedMeansDeleted`, `RecordKeepsWhatIsThere`, `ForeignKept`, liveness `DeletionEnds` |
| `nlb_gateway_report` | the same without ListenerSets, no restart | violated: `ProgrammedIsServed` (section 7) |
| `alb_gateway` | an HTTPS listener with a GRPCRoute, a TLS listener; two changes among edits, a rotation of the Secret, and a deletion; 6.5 million states | `TypeOK`, `SettledIsServed`, `GrpcStays`, `RecordKeepsWhatIsThere`, `ReleasedMeansDeleted` |

*keyed_locks.* Three workers are the fewest with which one holds a lock, one
waits on the old object and one arrives after the release. Two keys show that keys do
not disturb each other. There are never more reachable lock objects than
workers, so three lock objects never run out. The bound is on the pool only: any number
of calls is made one after another. The theorems below have no bounds.

*routing_policy.* Two routes of different kinds are what runs concurrently in
the code, because one kind has one worker. A rule that is absent or has one of
two backends is enough to add, change, and remove it, and to tell an old version
from a new one. The number of commits is unbounded. `MaxLate = 1` is the bound on
abandoned waits; with 0 the run would never meet a late write.

*l7_routes, l7_shared.* Two listeners are what a route needs to move between them, to be
admitted by one and not the other, and to keep rules at one while it loses them at the
other; two services, to leave a backend set behind. Two edits are a change and another one during
its programming, or a change and its return; the theorems are for any number. What routes do to each other goes through the
listener's rule list and the backend set, so the second instance has one of each and two
routes with a worker each. They are created and deleted at any moment, the controller
restarts once, and nothing is edited. There is one parent: with two on one load balancer the
code does not settle (section 6).

*tls_routes, tls_heirs.* A hand-over needs two routes, a route that leaves one kind of load
balancer a listener of each kind. One route alone meets every sort of change: of its parents, its
endpoints, whom a listener admits, the Gateway. Both instances choose among groups of routes
(`Rosters`), each with the changes allowed to it (`Edits`). Users create the group before they change or delete
anything; the controllers may see a creation much later, so that nothing is lost by it. In `tls_heirs` the two
routes stay where they are and either may be deleted at any moment, so that neither exception of
`DeletionsEnd` ever applies to them: every hand-over, interrupted wherever it may be, has to end. Failures and
restarts are not bounded.

*l4_routes, l4_kinds.* Each route is created and deleted at most once
(a new object has a new identity). A successor needs two routes; a route on two
listeners, or joining or leaving one, needs two listeners. `MaxEdits`
bounds changes of routes, endpoints and listeners by users, and failures are
not bounded. The instances split what would be too large together: two
listeners with a restart; one listener with fairness. In `l4_kinds` a successor needs two routes of one kind, and
a shared listener two routes of different kinds; routes of all three are never there at once
(`Together`). The listener permits every route, so a deleted route may stay only while the
references of its successor do not resolve.

*nlb_gateway.* Two names give an order of creation, a listener that is kept
while another goes, and a name that someone else uses. The first listener has one of two
ports or is unsupported; the second is missing, TCP or TLS. Two generations are
a specification and an edit during its programming. Failures,
failed work requests and waits that end early are not bounded.

*alb_gateway.* One listener of each kind shows who may write and delete what; the TLS listener
keeps a certificate in use that the Gateway wants to delete. The first specification has
both; with three generations a listener is taken out, deleted or not, and put back. Two versions of the Secret are the old and the new
certificate, with the Secret missing in between or not. Failures and restarts are not
bounded.

Runs other than `keyed_locks` and `routing_policy` switch deadlock checking off: users' edits
are bounded, deleted objects do not come back, and the system then settles.

Each property has a mutant in `PROJECT.json`: a change of one definition such
as a programmer could make, which makes TLC report the property as violated.
Those variants stand next to the operator they change and are commented as such.

## 4. Fairness

- *Locks.* `Lock` is strongly fair: Go's `sync.Mutex` hands the lock to a waiter
  that has starved for a millisecond. An operation ends, because every OCI wait
  in it has a deadline, and the deferred calls then run. Nobody is obliged to
  call again.
- *L4 routes.* Workers, informers and the Gateway's controller go on. A
  request in the queue is taken in turn (controller-runtime's queue is
  first-in, first-out after back-off; strong fairness of `Take` per route).
  From some time on the API server and OCI fail only calls that they must refuse
  (`Refused`: a missing set, an outdated copy, a rejected successor). Without
  this, endless failures would excuse anything. Users and restarts are not fair.
- *L7 routes* and *TLS routes*. The same: workers, informers and, for TLSRoutes, the Gateway's
  controller go on, requests are taken in turn, and from some time on only what must be
  refused fails. For TLSRoutes restarts are not bounded, so that the assumption is that they end
  too (`Crash => Fail` from some time on).
- *NLB Gateway.* The worker, the informer and OCI go on, and from some time on only
  what must be refused fails, as for routes. Users and restarts are not fair.
- `DeletionsEnd` of the L4 and TLS routes says that again and again there is a moment at which all routes
  being deleted are excused. A deletion is never taken back, so this is at least as strong as that
  each of them goes away or is excused again and again, and spares TLC a temporal formula per route.
- *Routing policies* and *ALB Gateway* have safety properties only, and no fairness. A Gateway on a
  Load Balancer need not settle (section 6), so no liveness property would hold.

## 5. What is proved

`KeyedLocksProofs` proves for every finite set of workers, and any set of keys and
lock objects:

| Theorem | Statement |
|---|---|
| `TypeCorrect` | `Spec => []TypeOK` |
| `MutualExclusionHolds` | two operations never run under one key at once |
| `EntriesAreInUseHolds` | the map has exactly the keys in use |
| `CreatedAtMostOnceHolds` | a certificate is created at most once while its entry lives |
| `LocksImplementMutex` | `Spec => Mutex!Spec`: the reference-counted locks implement `KeyedMutex` |

The only assumption is `KeyedLocksAssumption`: workers are finitely many, and
`Nil` is neither a worker nor a lock object. Finiteness is needed because the
code counts users with a number.

None of the three invariants is inductive. Mutual exclusion says nothing of the
lock objects: two workers under one key might hold the mutexes of two different
objects if one had been deleted from the map under a waiting worker. What
prevents it is the count. `IInv` therefore adds to `TypeOK`:

- `RefsCountUsers`: the count of a lock object is the number of workers between
  acquire and release that have it;
- `UserHasEntry`: while a worker is there, its lock object is its key's entry;
- `EntryHasUser`, `EntriesDiffer`: an entry has a user, and belongs to one key;
- `OwnerIsLocked`: the owner of a mutex is the worker running under it;
- `CachedIsCreated`: the number of created certificates is what the cache says.

The argument turns at `Release`. The count falls to zero only if the worker was the
last user (`RefsCountUsers`, with facts on cardinality), so the entry that is
deleted is nobody else's. There is one lemma per action, `NextIInv` combines them,
`IInvExcludes` derives mutual exclusion. The refinement maps `Lock` to the
abstract `Enter`, `Succeed` and `Fail` to the abstract exit, and the other actions
to stuttering (`StepSimulation`).

`RoutingPolicyProofs` proves for any routes, numbers of rules and backends, and any commits:

| Theorem | Statement |
|---|---|
| `TypeCorrect` | `Spec => []TypeOK` |
| `WritesAreAtomicHolds` | while nobody gave up waiting, what OCI carries out was computed from the policy it replaces |
| `RemovedRulesStayGoneHolds` | while nobody gave up waiting, removed and replaced rules do not come back |
| `DefaultRuleServedHolds` | a Gateway that reports success, and did not give up, leaves a policy with its default rule |
| `CommittedRulesStayHolds` | if `MaxLate <= 1`, the rules of a reported commit stay |

`Staged` is the discipline of the lock: whoever is between reading and the end of its wait holds it, and
a queued request belongs to the holder or to someone who gave up on it. From it follows `Current`,
that what the holder has read and what is queued is computed from the policy as it is, unless someone
gave up; the Gateway deletes without the lock, but what is updated after that is refused, because
the policy is gone. `DefaultInv` follows the default rule through
everything that is read, queued or there. `KeepInv` drops the condition that nobody gave up: with one
late request, the late one leaves the rules of other routes as they are, or is refused. The
hypothesis `MaxLate <= 1` is the weakest: TLC finds reported rules lost with two late requests (section 6).

`L4RouteProofs` proves for any kinds, routes, listeners, specifications and namespace rules, and any
bounds:

| Theorem | Statement |
|---|---|
| `TypeCorrect` | `Spec => []TypeOK`, with it that the lock is held by exactly the worker that writes backends |
| `ReleasedMeansEmptiedHolds` | a route loses its finalizer only when the sets it releases hold none of its backends |

A clearing worker writes from a snapshot that it read before it had the lock. What saves it
(`Emptied`) is that a route's backends are added by the worker of its kind and by nobody else, so that the snapshot misses
none of them, and that a set cannot be taken away from under the lock. `Planned` says what a job must be like
for the rest: a route hands over only when it is deleted and on record, and what is programmed is a
listener that the programmed route claims, so that `SetProgrammed` never writes an empty record. That only
`RemoveFinalizer` takes a finalizer away is a lemma of its own (`FinalizersStay`).

`NLBGatewayProofs` and `NLBGatewayRecordProofs` prove for any listener names, shapes and specifications,
and any bounds on generations and restarts:

| Theorem | Statement |
|---|---|
| `TypeCorrect` | `Spec => []TypeOK` |
| `WritesAreProtectedHolds` | while the worker writes to the load balancer, the Gateway exists and has the finalizer |
| `ForeignKeptHolds` | a name that no specification of the Gateway has had is never touched |
| `ReleasedMeansDeletedHolds` | the finalizer goes only when nothing on record is left on the load balancer |
| `RecordKeepsWhatIsThereHolds` | a name leaves the record only when it has left the load balancer |
| `SettledIsServedHolds` | once settled, the Gateway is served as specified or says that it is not accepted |

`WritesAreProtected` is not inductive for two reasons. A reconcile that programs reaches the
writes through four earlier steps, so `ProgramsProtected` carries the finalizer from `Protect` on.
A reconcile that cleans up has not written anything itself. It trusts the informer, whose copy may outlive
the Gateway. `GoneIsNotQueued` says that such a copy is never reconciled: when the finalizer
goes, the informer has seen everything up to then and nothing has queued the Gateway since
(`CleansUpProtected`), because only the current copy can be written back.

`ForeignKept` follows from `NamedInv`: the names in every copy of the Gateway, in the record, in
the plan and in the pending request are names that some specification has had.

The two about the record follow the names that a reconcile cleans up: from the read of the load balancer on,
what exists of such a name has its deletion among the requests still to make, and no request brings it back
(`GoesAway`). That this is also the plan of the Gateway on which the reconcile ends needs that a generation
has one specification (`SpecOfGeneration`) and that the worker's copy is the one it took until it
reads again (`CopyIsResolved`). A late request is harmless, because a read waits for it (`NothingElsePending`).

`SettledIsServed` follows in the same way what a reconcile sets up (`GetsServed`) and then what it reports. A
settled state can be one in which the last reconcile did nothing, because it found the Gateway programmed
(`isProgrammed`) or not worth writing to. So no copy may report a generation that nobody has programmed
(`ReportsAreKnown`), what the API server reports of its last generation must be true and stay so
(`ReportIsTrue`), and every reconcile that ends with nothing queued must have taken what the informer
has (`NothingNew`). `IdleIsServed` puts the three together for a Gateway with no reconcile to come. A request
that landed late belongs to the plan of the last specification (`PendingFits`).

`ALBGatewayProofs` proves for any listeners of the three kinds, specifications, generations and
versions of the Secret:

| Theorem | Statement |
|---|---|
| `TypeCorrect` | `Spec => []TypeOK`: no listener without its certificate, policy and default backend set |
| `ReleasedMeansDeletedHolds` | the finalizer goes only when the listeners and recorded certificates are gone |
| `RecordKeepsWhatIsThereHolds` | a listener or certificate leaves the record only when it has left the load balancer |
| `GrpcStaysHolds` | once settled, a listener with a GRPCRoute speaks GRPC, and has the route's rules unless the Gateway deleted them |
| `SettledIsServedHolds` | once settled, every HTTPS listener has the certificate of the last Secret |

`Planned` follows a reconcile to its last write: the informer and the record never run ahead (`Older`), what
others add after the snapshot is nothing that this reconcile would have to delete (`SnapshotShows`), and
what has to go and is still there has its deletion among those to be made (`RecordGoes`,
`AllGoes`). `GrpcStays` speaks of settled states only. `GrpcKept` says of every state that a listener whose route
has been reconciled speaks GRPC, in terms of what the informer has. That the rules are there cannot follow from
the reconcile, which may find nothing to program. It follows from the record: a route that has been reconciled is
on record, or will be programmed (`ReconciledIsRecorded`), and what is on record is there, or the Gateway has deleted
it (`RecordedIsThere`); together they are `RulesKept`.

`SettledIsServed` has the shape of the one for the NLB Gateway. What is new is the Secret, whose version a
reconcile resolves at its start and reads again later, and the GRPCRoute, which may give a listener back the
certificate it had. Three things can come of that. The certificate is off record, which is the exception. Or it is the
last one. Or it is one that the reconcile at work is about to delete, which OCI refuses (`Refuted`), so that this
reconcile never reports. A report of the last generation and the last Secret is known to every reconcile
that could undo it (`ReportedSays`).

`L7RouteProofs` proves for any kinds, routes, parents, listeners and services, and any edits:

| Theorem | Statement |
|---|---|
| `TypeCorrect` | `Spec => []TypeOK` |
| `NoForeignRulesHolds` | once settled, a live route has no rules at a listener where it does not belong |
| `ReleasedMeansUnruledHolds` | a route loses its finalizer only when none of its rules is left |
| `RoutesServedHolds` | once settled, a live route has its rules wherever it is admitted, on record, with a filled backend set |

A state that is not settled may have foreign rules, so what is inductive is why they will go: the route has
a request or an event to come, or a worker that is about to remove them (`ForeignNoticed`), and a worker
about to make some has another request to come (`OutdatedQueued`). The record that finds them is merged,
and `StaleGone` says that a merge never covers rules that the same reconcile was to remove. `CleanedUp` is the
same of a deletion: the worker that deprovisions the object as it is now has before it all rules that are left.

`RoutesServed` is the counterpart: rules that should be there are there, or a worker will come to them
(`Served`). The hard part is the worker that does nothing because `isProgrammingRequired` finds the record
and the condition in order: it believes what an earlier worker, perhaps one whose copy was older, has
written. So the condition must be true of every version of the route that somebody may read, the object, the
informer's and the worker's copy (`ResolvedMeans`), and what a worker says on its way to that write must
be so (`Committed`). `Fresh` bounds how old a copy can be without a request to come: a change of the
specification, the record or the finalizer is an event, a change of the condition is none. The proof failed at
the write of the condition after a conflict, which may cover listeners that the copy does not have on record; TLC
then found the counterexample with three edits, one more than the run has, and the property excepts them now
(section 6). It also showed that nothing about the Service has to be assumed: a backend set stays
filled after its Service has gone.

`TLSRouteProofs` proves for any routes, listeners of both kinds of load balancer and changes:

| Theorem | Statement |
|---|---|
| `TypeCorrect` | `Spec => []TypeOK` |
| `TargetsExistHolds` | no TLS listener forwards to a backend set that is not there |
| `ReleasedMeansUnservedHolds` | a route loses a finalizer in deletion only when its listener serves it no more |
| `OwnersServedHolds` | settled, every listener that the code hands over serves its oldest route and no other |

`Planned` says of a job what its branches have made true of it, `Effects` what its calls have brought about
and nobody undoes: the set is made before the listener uses it, the listener to record serves the
programmed route, the listener to release does not serve the deleted one.

`OwnersServed` speaks of settled states only, and the route whose request is to come need not be the one
that the listener misses: a younger route may be programmed for a deleted one. Its invariant, `Sheltered`,
says of every state and listener outside `lost` who will see to it (`Covered`). Each live route
that claims it in the informers' eyes is queued, or its record has changed and the update will
queue it, or it is at work there, or an older one claims the listener, or it is served; or a deleted
route has yet to hand the listener over and is queued or at it (`Hander`). A listener that nobody
claims is bare, or has such a route.

- `Fitting` makes old reads harmless: whatever makes a job's copies, or the claim that its route is the
  oldest, untrue has queued the route that is concerned. A job that has found older routes none can
  so be overtaken by a hand-over, but not unnoticed.
- `Aimed` says where a job is on its way through the listeners that it still has to do.
- `Heir` and `Marked` carry the route at the listener over the two writes of its record: between
  them the route may be deleted, and then its deletion, which the informers have not
  seen, will hand the listener over.

When nothing is left to do, only `served` and `bare` remain (`ShelteredServes`). The proof failed at two
places where the property was false. A hand-over cleans up what the successor holds on the
other kind of load balancer, and then fails; if an older route takes over meanwhile, nothing queues the successor,
and its other listener stays empty (`ServedToAnother`; TLC has the counterexample with three routes, one
more than the run). And a route is rejected for an older one that its informers still show, but
which was deleted without a finalizer: nobody will hand over (`Ghosts`). Section 6 lists both.

*Assumptions.* Each module has one on its constants (the sets are what they are called, routes are
numbered by age, kinds and `Nil` are apart) and `NilAssumption`: `Nil` is none of the
records or sets that the variables hold; `TLSRoute` has `UsersAssumption` too, that the groups of routes and what
users may change are given as sets. TLC evaluates them in every run. The bounds on edits,
generations and restarts are constants in the theorems and may have any value. No proof assumes fairness.

*Only model-checked.* Of the safety properties only `ListenersServed` of `L4Route`: what settled states
promise to the owners of its listeners. Its invariant would be that of `OwnersServed`, for several workers at
once and for writes of a backend set that read, compare and write in steps of their own,
so that the copy of one worker may be made old by another's write. All liveness (`EveryCallerRuns`, `DeletionsEnd`, `DeletionEnds`) stays with
TLC too, since the prover does not handle ENABLED and so not fairness; and so do the two violations
of section 7. Induction over data and RECURSIVE operators are out of its reach; the modules use
neither.

## 6. Exceptions: what the properties except, and why

Where the code does not give a guarantee one would expect, the property names the
exception instead of leaving the case out of the model. No comment or document
of the repository promises these cases, so they are observations; where one does, section 7
has a run.

Routing policies:

- A Gateway that finds the policy missing when it reads it again under the lock keeps its old
  snapshot (842). If a late create then arrives, an update from that snapshot can bring
  back rules a route has removed. `RemovedRulesStayGone` holds while nobody gave up waiting.
- With two late requests, rules already reported can be lost; `MaxLate = 1` is the
  largest bound with which `CommittedRulesStay` holds.
- The Gateway skips the repair when its snapshot has a good default rule. After a wait of its
  own that ended early, the snapshot may not be what remains: `DefaultRuleServed` excepts
  a Gateway that gave up.

L4 routes (the variable `lost`, and the exception of `DeletionsEnd`):

- a route deleted before it was recorded has no finalizer: its backends stay and its
  successor is not queued;
- a route that is attached elsewhere hands nothing over; if another route
  occupies its new listener, it keeps serving the old one; and its later clean-up of sets it left
  behind empties a set by name even if another route fills it by now. The same
  goes for the clean-up of detached routes and of routes no longer permitted;
- a route attached to several listeners loses its finalizer after the first of them
  was released (1157);
- a route rejected in favour of one that is gone already (the cache lags) is not
  queued again;
- a listener that changes its protocol while an unrecorded route's backends are in its
  set keeps them. A recorded route cleans up, but only when it is programmed elsewhere or detached:
  one that is rejected at its other listeners, for its age or its namespace, is rejected before
  `clearStaleBackendSets` (994-1023). The property allows its backends;
- the record that the conflict retry writes comes from the older copy, which may lack a listener that an
  earlier worker has put there meanwhile: its set then keeps the route's backends unrecorded;
- a deleted route stays as long as the route that should take over a listener of its cannot be
  programmed, because its references do not resolve or the listener does not permit it (1135; `Heirless`).

NLB Gateway:

- `SettledIsServed` excepts a Gateway whose last report was about another generation
  than the one programmed, the first finding below. It speaks of the record and of
  the listeners, and not of the condition: a retry that starts from an outdated cache can
  find the Gateway programmed and stop while the server's condition is still the
  Unknown of the attempt before. Nothing queues the Gateway again, since changes of the
  status are not watched.
- `RecordKeepsWhatIsThere` excepts the same, and a name that was not on record yet
  in the copy from which the reconcile started. A listener created by a reconcile that fails
  before `setProgrammed` is on no record: if the user then takes it out of the specification,
  nothing removes it, and neither does the Gateway's deletion.

L7 routes (the variables `lost` and `slipped`):

- a route that no listener admits loses its rules and keeps its record and its condition. Once it
  is admitted again, `isProgrammingRequired` finds nothing to do and the rules do not come
  back (`lost`). A listener that was closed to a route or went away stays in the merged
  record, with the same effect;
- a route whose Service is missing is not in the index by Service, so the creation of
  the Service queues nobody; `WithEventFilter(l7RouteObjectPredicate())` (start_manager.go:636-686)
  applies to all objects that the controllers watch, which drops updates of Services too (`lost`);
- rules are committed before the finalizer and the record are written. A route deleted or moved
  in between leaves rules that are on no record; and the conflict retry of `setProgrammed`
  writes the annotation from the older copy over what the cache has by now (`slipped`);
- the same retry lets a record of an older specification outlive a newer one. The next worker's copy may
  not have those listeners yet, and its condition then covers rules that it has not looked at, which
  may still forward to the former Service (`lost`);
- a live route none of whose parents has a listener keeps its rules (`NoForeignRules`);
- two parents on one load balancer take each other's rules away in turns, since the second
  parent's programming takes the first one's listeners for stale (`httproute_model.go:1423`), and the
  finalizer goes after the first parent's clean-up. The instances have one parent;
- a change of a BackendTLSPolicy is not among the reasons to program a route again.

TLS routes (the variable `lost` and the disjuncts of `DeletionsEnd`):

- a listener whose route left it, lost its Gateway, or was deleted without the
  listener's finalizer, is handed to nobody; a route on several listeners loses the finalizer
  after the first was released, and records only the last one programmed;
- a route that moves between listeners of a Network Load Balancer leaves the old set filled, because
  `clearStale` does nothing for TLSRoutes (`tlsroute_model.go:530`);
- the cleanup before a hand-over, or before a route is programmed, empties what the successor has on the other
  kind of load balancer. If the hand-over then fails and an older route takes over, nothing programs
  the successor at its other listener again (`ServedToAnother`);
- a route that is rejected for an older one is queued again only by that one's hand-over. If the older
  one was gone, had moved, or was deleted without the finalizer when the informers still showed it, there is
  none (`Ghosts`);
- on a Load Balancer, the hand-over to a successor does not delete the deleted route's own
  backend set (1105-1126). `ReleasedMeansUnserved` speaks of what listeners forward to;
- a listener that admits a route no longer, or a route whose references do not resolve, keeps the
  backends it has;
- a deleted route that was moved to the other kind of load balancer and not programmed there, or
  whose Gateway on a Load Balancer is gone, or that lacks the record of its resources, keeps
  its finalizer (`Stuck`), and so does one at a listener whose successor cannot be programmed there
  (`Heirless`).

ALB Gateway (the variables `demoted`, `stranded`, `reverted` and `remade`):

- a Gateway whose snapshot is older than a GRPCRoute's rules writes HTTP over GRPC
  (`oci_load_balancer_model.go:1064`), and nothing repairs it before the next
  reconcile (`demoted`);
- a user takes a listener out and puts it back while the Gateway still carries out the removal.
  Both generations queue the GRPCRoute, which finds its listener there and speaking GRPC; then
  the Gateway deletes it, and its next reconcile makes it again, as HTTP. Routes see a Gateway
  only when its generation or labels change (`src/internal/k8s/start_manager.go:652`), so that
  nothing tells the route (`demoted`);
- a user takes a listener out, the Gateway deletes it with its policy, and the user puts it back. The
  Gateway makes the policy again with its default rule alone. The GRPCRoute is queued and sets the protocol,
  but its record and its condition are as they were, so that `isProgrammingRequired` finds nothing to
  do (grpcroute_controller.go:125-128) and its rules do not come back until it is edited or drift is
  repaired (`stranded`);
- `ensureGRPCListenerProtocol` (1133) writes back the whole listener it has read, including a certificate
  that the Gateway has replaced since. This heals, because the old certificate cannot be deleted while
  it is in use, unless that certificate is on no record (`reverted`);
- a certificate or listener made by a reconcile that failed before `Record` is on no
  record, and if the specification or the Secret changes then, it stays. A listener that stays this way and
  uses the recorded certificate makes OCI refuse the certificate's deletion (2001): the Gateway
  then retries without end and is never reported as programmed. This is why no liveness property
  is stated;
- a TLSRoute makes the certificates of its Gateway again while that Gateway is being
  deleted (`remade`);
- the certificate on record is the one of the Secret that was resolved, and the one in use may be
  that of a newer Secret read later; the Secret's event then brings another reconcile;
- as for the NLB Gateway, a retry from an outdated cache may find the Gateway programmed and
  leave the condition at Unknown, and `RecordKeepsWhatIsThere` excepts what the outdated
  copy did not have on record.

## 7. Findings

- *nlb_gateway_report.* `setProgrammed` (864) reads the Gateway again. A port that a user
  changes after the requests were planned is reported as programmed at its own
  generation, and `isProgrammed` ends every later reconcile: the old listener stays. README.md:273
  of the repository says the controller reconciles the listeners, and `isConditionSet` is to check that a
  condition is "observed at the correct generation". A non-zero drift interval hides it.
- *tls_moves.* `setPending` writes the status through a copy, so the route that `setProgrammed`
  (tlsroute_model.go:1667) updates next has an old resource version: the update conflicts, and the retry,
  which it shares with the L4 routes (`applyL4RouteProgrammedMetadata`, tcproute_model.go:1503), writes
  the finalizer and the backend sets but not the annotation with the Load Balancer's
  resources. When the route moves to a Network Load Balancer, nothing is on record and its
  listener keeps forwarding to it. `tlsroute_model_test.go:3268` says "stale ALB programmed state is
  cleared before NLB programming" and `constants.go:177` that the annotation "tracks ALB
  listener/backend set resources programmed by a TLSRoute".

## 8. Plan

Next, the most important first:

1. Pure algorithms, checked against reference definitions over bounded inputs: effective
   listeners and their conflicts (ListenerSets), hostname intersection, rule order,
   backend weights, drift intervals.
2. *CABundles*: BackendTLSPolicy and frontend mTLS, with shared bundles, cached ids that expire and
   clean-up by the last user.
3. *L7Route* with two parents on one load balancer, whose rules the code removes in turns today.
4. The endpoints of a backend set, read, compared and written by two controllers
   (`httpbackend_model.go:266`).

Theorem to come: `ListenersServed`, along the lines of `OwnersServed`.

## 9. Not modelled, and why

The wording of OCI conditions (`oci_load_balancer_routing_rules.go`) would be a
property about an external language. PEM parsing, tags, names and display addresses carry no
protocol state. GatewayClass sets one condition on one object. Configuration, dependency
injection, logging, servers, manifests and the end-to-end harness are start-up and
I/O. The OCI and Kubernetes clients are external, and modelled by what the code relies on.

Not modelled yet: the merging of ListenerSets and their status, the BackendTLSPolicy
reconciler and frontend mTLS, the contents of the backend sets of HTTP and GRPC routes, the rule
mapper, drift intervals and status addresses. The reference grants and route policies are
constants or variables of the route modules; the predicates and mappings of the watches are modelled for
the objects the modules have.
