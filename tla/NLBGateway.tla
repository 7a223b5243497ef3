------------------------------ MODULE NLBGateway ------------------------------
(***************************************************************************)
(* One Gateway on an OCI Network Load Balancer                             *)
(* (network_load_balancer_gateway_controller.go, _model.go) and the writes *)
(* of its conditions, finalizer and annotations (resources_model.go).      *)
(*                                                                         *)
(*   - a reconcile reads the Gateway from the informer cache, accepts it,  *)
(*     and returns if it is programmed already;                            *)
(*   - it marks the Gateway as being programmed, with a finalizer, reads   *)
(*     the load balancer, creates and updates the listeners and backend    *)
(*     sets of the specification and deletes those that are on record but  *)
(*     not in the specification;                                           *)
(*   - it reads the Gateway again, reports it programmed, and records the  *)
(*     names of its listeners for later clean-up;                          *)
(*   - a Gateway being deleted has what it recorded and what it specifies  *)
(*     deleted, and then loses the finalizer.                              *)
(*                                                                         *)
(* The controller has one worker.  A write of a copy that is out of date   *)
(* is a conflict, retried once on the cached object.  OCI works on one     *)
(* request of a load balancer at a time, and a load balancer read in the   *)
(* meantime is busy.                                                       *)
(*                                                                         *)
(* The annotations of listeners and of backend sets always name the same   *)
(* listeners and are one field here.  The other annotations and the        *)
(* addresses are left out; the GatewayConfig names one load balancer, and  *)
(* the interval of drift reconciles is zero, its default.                  *)
(***************************************************************************)
EXTENDS Naturals, FiniteSets

CONSTANTS
  Names,       \* listener names, numbered in the order of the specification
  Managed,     \* what a TCP or UDP listener may look like (protocol and port)
  Preserved,   \* TLS listeners, which a TLSRoute programs
  Unsupported, \* HTTP and HTTPS listeners
  Specs,       \* the specifications that users write
  Foreign,     \* the sets of listeners that others may have on the load balancer
  ListenerSetEnabled, \* whether the ListenerSet resource is installed
  MaxGeneration, \* bound: generations of the Gateway
  MaxCrashes,  \* bound: restarts of the controller
  Nil

Shapes == Managed \cup Preserved \cup Unsupported
Spec0 == [Names -> Shapes \cup {Nil}]

ASSUME NLBGatewayAssumption ==
  /\ Names \subseteq Nat /\ IsFiniteSet(Names)
  /\ Specs \subseteq Spec0 /\ Specs # {}
  /\ Foreign \subseteq SUBSET Names
  /\ ListenerSetEnabled \in BOOLEAN
  /\ MaxGeneration \in Nat \ {0} /\ MaxCrashes \in Nat
  /\ Managed \cap (Preserved \cup Unsupported) = {}
  /\ Nil \notin Shapes
  /\ \A x \in SUBSET Names : x # Nil

VARIABLES
  server,    \* the Gateway at the API server, or Nil
  cache,     \* the Gateway as the informer has it, or Nil
  listeners, \* at OCI: name -> what the listener looks like, or Nil
  sets,      \* at OCI: the listeners whose backend sets exist
  pending,   \* at OCI: the work request in progress, or Nil
  queued,    \* whether the Gateway is to be reconciled
  job,       \* what the worker is doing, or Nil
  crashes,   \* how much of the bound is used
  misreported, \* history: the last report was about a generation it had not programmed
  named      \* history: the listeners that some specification of the Gateway has had

history == <<misreported, named>>
vars == <<server, cache, listeners, sets, pending, queued, job, crashes, history>>

----------------------------------------------------------------------------
Generations == 1..MaxGeneration
Condition == [status : {"Unknown", "False", "True"}, generation : 0..MaxGeneration]

Gateway == [generation : Generations, spec : Spec0, deleting : BOOLEAN,
            finalizer : BOOLEAN, accepted : Condition, programmed : Condition,
            recorded : (SUBSET Names) \cup {Nil}]

Kinds == {"set", "listener", "delete listener", "delete set"}
Request == [kind : Kinds, name : Names]

\* A request that OCI has accepted, with what the listener is to look like.
WorkRequest == [request : Request, shape : Shapes \cup {Nil}]

PCs == {"accept", "check", "pend", "protect", "read", "write", "wait",
        "refresh", "report", "record", "reject", "release"}

Job == [pc : PCs,
        copy : Gateway,   \* the Gateway as last read, or as written since
        resolved : Gateway, \* the Gateway as read for the request
        todo : SUBSET Request] \* the requests to OCI still to make

ASSUME NilAssumption == Nil \notin Gateway /\ Nil \notin WorkRequest /\ Nil \notin Job

\* desiredNetworkLoadBalancerListenerNames
Desired(spec) == {l \in Names : spec[l] \in Managed \cup Preserved}

\* gatewayManagedOCIListenersForNetworkLoadBalancer
ManagedNames(spec) == {l \in Names : spec[l] \in Managed}

Recorded(g) == IF g.recorded = Nil THEN {} ELSE g.recorded

\* isConditionSet
IsSet(condition, g) == condition = [status |-> "True", generation |-> g.generation]

\* isProgrammed
Programmed(g) == IsSet(g.programmed, g) /\ g.recorded = Desired(g.spec)

New(spec) ==
  [generation |-> 1, spec |-> spec, deleting |-> FALSE, finalizer |-> FALSE,
   accepted |-> [status |-> "Unknown", generation |-> 0],
   programmed |-> [status |-> "Unknown", generation |-> 0],
   recorded |-> Nil]

Init ==
  /\ server \in {New(spec) : spec \in Specs}
  /\ cache = server
  /\ \E foreign \in Foreign, shape \in Managed :
       /\ listeners = [l \in Names |-> IF l \in foreign THEN shape ELSE Nil]
       /\ sets = foreign
  /\ pending = Nil
  /\ queued = TRUE
  /\ job = Nil
  /\ crashes = 0
  /\ misreported = FALSE
  /\ named = Desired(server.spec)

Busy == job # Nil
At(pc) == Busy /\ job.pc = pc
Goto(pc) == job' = [job EXCEPT !.pc = pc]
Finish == job' = Nil

oci == <<listeners, sets, pending>>

----------------------------------------------------------------------------
(* Conditions, finalizer and annotations: setCondition.                    *)

\* The object that an Update of the worker's copy can change: the copy itself, or
\* after a conflict the cached object.  Either has to be the current one.
Current == server # Nil /\ server \in {job.copy, cache}

\* An update writes `new' and leaves it in the copy; the retry does not touch the copy.
Update(new, pc) ==
  /\ Current
  /\ server' = new
  /\ job' = [job EXCEPT !.pc = pc, !.copy = IF server = job.copy THEN new ELSE job.copy]
  /\ UNCHANGED <<cache, oci, queued, crashes>>

SetAccepted(status, pc) ==
  Update([server EXCEPT !.accepted =
            [status |-> status, generation |-> job.copy.generation]], pc)

SetProgrammed(status, pc) ==
  Update([server EXCEPT !.programmed =
            [status |-> status, generation |-> job.copy.generation]], pc)

----------------------------------------------------------------------------
(* A reconcile.                                                            *)

Take ==
  /\ ~Busy /\ queued
  /\ queued' = FALSE
  /\ job' = IF cache = Nil \/ (cache.deleting /\ ~cache.finalizer) THEN Nil
            ELSE [pc |-> IF cache.deleting THEN "read" ELSE "accept",
                  copy |-> cache, resolved |-> cache, todo |-> {}]
  /\ UNCHANGED <<server, cache, oci, crashes, history>>

Accept ==
  /\ At("accept")
  /\ IF IsSet(job.copy.accepted, job.copy)
     THEN Goto("check") /\ UNCHANGED <<server, cache, oci, queued, crashes>>
     ELSE SetAccepted("True", "check")
  /\ UNCHANGED history

CheckProgrammed ==
  /\ At("check")
  /\ IF Programmed(job.copy) THEN Finish ELSE Goto("pend")
  /\ UNCHANGED <<server, cache, oci, queued, crashes, history>>

\* The condition is set to Unknown first, and the finalizer added in a second write.
MarkPending ==
  /\ At("pend")
  /\ SetProgrammed("Unknown", "protect")
  /\ UNCHANGED history

\* Mutant: the condition is all that is written before the programming.
ProtectLater ==
  /\ At("protect")
  /\ Update(server, "read")
  /\ UNCHANGED history

\* Finalizer and annotations are a second write, after the condition.
Protect ==
  /\ At("protect")
  /\ Update([server EXCEPT !.finalizer = TRUE], "read")
  /\ UNCHANGED history

\* Mutant: a listener that exists is not updated.
ToReconcileMissing(spec) ==
  {[kind |-> "set", name |-> l] : l \in ManagedNames(spec) \ sets}
  \cup {[kind |-> "listener", name |-> l] :
          l \in {l \in ManagedNames(spec) : listeners[l] = Nil}}

\* reconcileListener: what the load balancer lacks of the specification.
ToReconcile(spec) ==
  {[kind |-> "set", name |-> l] : l \in ManagedNames(spec) \ sets}
  \cup {[kind |-> "listener", name |-> l] :
          l \in {l \in ManagedNames(spec) : listeners[l] # spec[l]}}

\* removeMissingListeners and removeMissingBackendSets, of these names.
ToDelete(names) ==
  {[kind |-> "delete listener", name |-> l] : l \in {l \in names : listeners[l] # Nil}}
  \cup {[kind |-> "delete set", name |-> l] : l \in names \cap sets}

\* Mutant: a load balancer that is being updated is read all the same.
NotBusyIgnored == TRUE

\* networkLoadBalancerBusyErrorFromState
NotBusy == pending = Nil

\* Mutant: nothing is cleaned up.
StaleForgotten(g) == {}

\* Mutant: every name that is not in the specification may be deleted.
StaleOfAnyone(g) == Names \ Desired(g.spec)

\* Names on record that are not in the specification.
Stale(g) == Recorded(g) \ Desired(g.spec)

\* What a Gateway that is being deleted takes with it.
Owned(g) == Recorded(g) \cup Desired(g.spec)

\* programGateway and deprovisionGateway plan from one snapshot of the load balancer.
\* An unsupported listener stops the programming before anything is written.
ReadLoadBalancer ==
  /\ At("read") /\ NotBusy
  /\ LET g == job.copy
         todo == IF g.deleting THEN ToDelete(Owned(g))
                 ELSE ToReconcile(g.spec) \cup ToDelete(Stale(g))
     IN IF ~g.deleting /\ \E l \in Names : g.spec[l] \in Unsupported
        THEN Goto("reject")
        ELSE job' = [job EXCEPT !.pc = "write", !.todo = todo]
  /\ UNCHANGED <<server, cache, oci, queued, crashes, history>>

\* x is requested before y: listeners in their order, each after its backend set; then
\* the deletions of listeners; then those of backend sets.
Before(x, y) ==
  \/ x.kind \in {"set", "listener"} /\ y.kind \notin {"set", "listener"}
  \/ x.kind = "delete listener" /\ y.kind = "delete set"
  \/ x.kind \in {"set", "listener"} /\ y.kind \in {"set", "listener"} /\ x.name < y.name
  \/ x.kind = "set" /\ y.kind = "listener" /\ x.name = y.name

\* OCI accepts a request unless it is busy with another, deletes no backend set that
\* has a listener and creates no listener without its backend set.
Acceptable(x) ==
  /\ pending = Nil
  /\ x.kind = "listener" => x.name \in sets
  /\ x.kind = "delete set" => listeners[x.name] = Nil

Submit(x) ==
  /\ At("write") /\ x \in job.todo
  /\ \A y \in job.todo : ~Before(y, x)
  /\ Acceptable(x)
  /\ pending' = [request |-> x, shape |-> job.copy.spec[x.name]]
  /\ job' = [job EXCEPT !.pc = "wait", !.todo = @ \ {x}]
  /\ UNCHANGED <<server, cache, listeners, sets, queued, crashes, history>>

\* WaitFor returns.
Waited ==
  /\ At("wait") /\ pending = Nil
  /\ Goto("write")
  /\ UNCHANGED <<server, cache, oci, queued, crashes, history>>

\* Mutant: the report does not wait for the deletions.
WrittenEarly ==
  /\ At("write") /\ \A x \in job.todo : x.kind \notin {"set", "listener"}
  /\ Goto(IF job.copy.deleting THEN "release" ELSE "refresh")
  /\ UNCHANGED <<server, cache, oci, queued, crashes, history>>

Written ==
  /\ At("write") /\ job.todo = {}
  /\ Goto(IF job.copy.deleting THEN "release" ELSE "refresh")
  /\ UNCHANGED <<server, cache, oci, queued, crashes, history>>

\* setProgrammed reads the Gateway again before it reports.
Refresh ==
  /\ At("refresh") /\ cache # Nil
  /\ job' = [job EXCEPT !.pc = "report", !.copy = cache]
  /\ UNCHANGED <<server, cache, oci, queued, crashes, history>>

Report ==
  /\ At("report")
  /\ SetProgrammed("True", "record")
  /\ misreported' = (job.copy.generation # job.resolved.generation)
  /\ UNCHANGED named

\* With ListenerSets the listeners were merged when the request was resolved; without,
\* they are those of the Gateway as it was read last.
Reported == IF ListenerSetEnabled THEN job.resolved.spec ELSE job.copy.spec

Record ==
  /\ At("record")
  /\ Current
  /\ server' = [server EXCEPT !.finalizer = TRUE, !.recorded = Desired(Reported)]
  /\ Finish
  /\ UNCHANGED <<cache, oci, queued, crashes, history>>

\* processResourceError: the Gateway is not accepted, and not queued again.
Reject ==
  /\ At("reject")
  /\ Current
  /\ server' = [server EXCEPT !.accepted =
                  [status |-> "False", generation |-> job.copy.generation]]
  /\ Finish
  /\ UNCHANGED <<cache, oci, queued, crashes, history>>

\* The end of deprovisionGateway.  No one else removes the finalizer, so that the
\* Gateway is still there.
RemoveFinalizer ==
  /\ At("release")
  /\ server = job.copy
  /\ server' = Nil
  /\ Finish
  /\ UNCHANGED <<cache, oci, queued, crashes, history>>

\* Mutant: the request is not queued again.
FailForgotten ==
  /\ Busy
  /\ Finish
  /\ UNCHANGED <<server, cache, oci, queued, crashes, history>>

\* Any error, a busy load balancer and a wait that ends early included: the worker
\* gives up and the Gateway is queued again.
Fail ==
  /\ Busy
  /\ Finish
  /\ queued' = TRUE
  /\ UNCHANGED <<server, cache, oci, crashes, history>>

----------------------------------------------------------------------------
(* OCI, the users, the informer and the process.                           *)

Carry ==
  /\ pending # Nil
  /\ LET l == pending.request.name IN
     CASE pending.request.kind = "set" ->
            sets' = sets \cup {l} /\ UNCHANGED listeners
       [] pending.request.kind = "listener" ->
            listeners' = [listeners EXCEPT ![l] = pending.shape] /\ UNCHANGED sets
       [] pending.request.kind = "delete listener" ->
            listeners' = [listeners EXCEPT ![l] = Nil] /\ UNCHANGED sets
       [] pending.request.kind = "delete set" ->
            sets' = sets \ {l} /\ UNCHANGED listeners
  /\ pending' = Nil
  /\ UNCHANGED <<server, cache, queued, job, crashes, history>>

\* The work request fails; a worker that waits for it gets an error.
RequestFails ==
  /\ pending # Nil
  /\ pending' = Nil
  /\ IF At("wait") THEN Finish /\ queued' = TRUE ELSE UNCHANGED <<job, queued>>
  /\ UNCHANGED <<server, cache, listeners, sets, crashes, history>>

Edit(spec) ==
  /\ server # Nil /\ ~server.deleting
  /\ server.generation < MaxGeneration
  /\ spec # server.spec
  /\ server' = [server EXCEPT !.spec = spec, !.generation = @ + 1]
  /\ named' = named \cup Desired(spec)
  /\ UNCHANGED <<cache, oci, queued, job, crashes, misreported>>

\* The API server removes an object without finalizers at once.
Delete ==
  /\ server # Nil /\ ~server.deleting
  /\ server' = IF server.finalizer THEN [server EXCEPT !.deleting = TRUE] ELSE Nil
  /\ UNCHANGED <<cache, oci, queued, job, crashes, history>>

\* gatewayObjectPredicate: the differences that queue the Gateway.  The identifier of
\* the load balancer, a watched annotation, is written with the finalizer.
Watched(old, new) ==
  \/ old = Nil \/ new = Nil
  \/ old.generation # new.generation
  \/ old.deleting # new.deleting
  \/ old.finalizer # new.finalizer
  \/ old.recorded # new.recorded

Observe ==
  /\ cache # server
  /\ cache' = server
  /\ queued' = (queued \/ Watched(cache, server))
  /\ UNCHANGED <<server, oci, job, crashes, history>>

Crash ==
  /\ crashes < MaxCrashes
  /\ crashes' = crashes + 1
  /\ Finish
  /\ cache' = server
  /\ queued' = (server # Nil)
  /\ UNCHANGED <<server, oci, history>>

----------------------------------------------------------------------------
Step ==
  \/ Take \/ Accept \/ CheckProgrammed \/ MarkPending \/ Protect \/ ReadLoadBalancer
  \/ \E x \in Request : Submit(x)
  \/ Waited \/ Written \/ Refresh \/ Report \/ Record \/ Reject \/ RemoveFinalizer

Users == Delete \/ \E spec \in Specs : Edit(spec)

Next == Step \/ Fail \/ Carry \/ RequestFails \/ Users \/ Observe \/ Crash

Spec == Init /\ [][Next]_vars

\* The call that the worker is about to make cannot succeed.
Refused ==
  \/ (At("accept") \/ At("pend") \/ At("protect") \/ At("report") \/ At("record")
      \/ At("reject")) /\ ~Current
  \/ At("release") /\ server # job.copy
  \/ At("read") /\ pending # Nil
  \/ At("refresh") /\ cache = Nil

\* The worker, the informer and OCI go on, and from some time on Kubernetes and OCI fail
\* only the calls they have to refuse.
Fairness ==
  /\ WF_vars(Step \/ (Refused /\ Fail))
  /\ WF_vars(Observe)
  /\ WF_vars(Carry)
  /\ <>[][(Fail => Refused) /\ ~RequestFails]_vars

FairSpec == Spec /\ Fairness

----------------------------------------------------------------------------
(***************************************************************************)
(* The types of the variables; what is being deleted has a finalizer; and  *)
(* no request is left over when a worker goes on.                          *)
(***************************************************************************)
TypeOK ==
  /\ server \in Gateway \cup {Nil} /\ cache \in Gateway \cup {Nil}
  /\ \A g \in {server, cache} \ {Nil} : g.deleting => g.finalizer
  /\ listeners \in [Names -> Shapes \cup {Nil}]
  /\ sets \subseteq Names
  /\ pending \in WorkRequest \cup {Nil}
  /\ queued \in BOOLEAN
  /\ Busy => job \in Job /\ (job.todo # {} => job.pc \in {"write", "wait"})
  /\ crashes \in 0..MaxCrashes
  /\ misreported \in BOOLEAN /\ named \subseteq Names

\* No request, event, reconcile or OCI work is outstanding.
Settled == ~queued /\ ~Busy /\ cache = server /\ pending = Nil

Serves(g) ==
  \A l \in ManagedNames(g.spec) : listeners[l] = g.spec[l] /\ l \in sets

(***************************************************************************)
(* When everything has settled, the load balancer has the listeners of the *)
(* Gateway's last specification and the Gateway says so, or the Gateway    *)
(* says that it does not accept it (Reconcile, programGateway,             *)
(* setProgrammed).  Excepted is a Gateway whose last report was about a    *)
(* generation it had not programmed.                                       *)
(***************************************************************************)
SettledIsServed ==
  Settled /\ server # Nil /\ ~misreported =>
    IF \E l \in Names : server.spec[l] \in Unsupported
    THEN server.accepted = [status |-> "False", generation |-> server.generation]
    ELSE server.recorded = Desired(server.spec) /\ Serves(server)

\* A Gateway that says it is programmed at its generation is served: what isProgrammed
\* relies on when it ends a reconcile.
ProgrammedIsServed ==
  Settled /\ server # Nil /\ Programmed(server) => Serves(server)

(***************************************************************************)
(* While the worker writes to the load balancer, the Gateway has the       *)
(* finalizer: however the user's deletion, conflicts and restarts fall,    *)
(* nothing is created for a Gateway that can go away without a clean-up.   *)
(***************************************************************************)
WritesAreProtected ==
  At("write") \/ At("wait") => server # Nil /\ server.finalizer

(***************************************************************************)
(* A Gateway loses its finalizer only when nothing that it recorded or     *)
(* specifies is left on the load balancer, or is still to appear there     *)
(* from a request whose wait had ended early (deprovisionGateway).         *)
(***************************************************************************)
ReleasedMeansDeleted ==
  [][server # Nil /\ server' = Nil /\ server.finalizer =>
       /\ pending = Nil
       /\ \A l \in Recorded(server) \cup Desired(server.spec) :
            listeners[l] = Nil /\ l \notin sets]_vars

\* A report drops from the record a listener that is still on the load balancer.
Drops(l) ==
  /\ server # Nil /\ server' # Nil
  /\ l \in Recorded(server) \ Recorded(server')
  /\ listeners[l] # Nil \/ l \in sets

(***************************************************************************)
(* What is on record stays on record until it is deleted: otherwise no     *)
(* later reconcile would delete it.  Excepted are a report about another   *)
(* generation than the one programmed, and a name that was not on record   *)
(* in the outdated Gateway that the reconcile started from.                *)
(***************************************************************************)
RecordKeepsWhatIsThere ==
  [][\A l \in Names :
       Drops(l) => \/ job.copy.generation # job.resolved.generation
                   \/ l \notin Recorded(job.resolved)]_vars

(***************************************************************************)
(* What others have on the load balancer is not touched: a listener or a   *)
(* backend set changes only if some specification of the Gateway has had   *)
(* its name (removeMissingListeners, namedNetworkLoadBalancerListeners).   *)
(***************************************************************************)
ForeignKept ==
  [][\A l \in Names \ named :
       listeners'[l] = listeners[l] /\ (l \in sets' <=> l \in sets)]_vars

(***************************************************************************)
(* A deleted Gateway goes away, however its clean-up is interrupted.       *)
(***************************************************************************)
DeletionEnds == (server # Nil /\ server.deleting) ~> server = Nil

=============================================================================
