------------------------------ MODULE ALBGateway ------------------------------
(***************************************************************************)
(* One Gateway on an OCI Load Balancer (gateway_controller.go,             *)
(* gateway_model.go, oci_load_balancer_model.go) and those who write to    *)
(* its listeners: the controllers of a GRPCRoute and of a TLSRoute.        *)
(*                                                                         *)
(*   - HTTPS listeners are the Gateway's: it gives them a certificate made *)
(*     from the Secret, a routing policy and the default backend set;      *)
(*   - a GRPCRoute turns the protocol of its HTTPS listener into GRPC,     *)
(*     writing the whole listener back as it read it, and adds its rules   *)
(*     unless they are on its record;                                      *)
(*   - a TLS listener is the TLSRoute's, with the same certificates;       *)
(*   - the Gateway deletes the certificates that it recorded and does not  *)
(*     want any more, which OCI refuses while a listener uses them.        *)
(*                                                                         *)
(* All controllers plan from a snapshot of the load balancer.  A call to   *)
(* OCI and the wait for its work request are one step here (RoutingPolicy  *)
(* and NLBGateway have the waits that end early); any step may fail.  Left *)
(* out are ports, frontend mTLS and its CA bundles, ListenerSets, and      *)
(* certificates that OCI manages; all listeners refer to one Secret, which *)
(* the workers read from the informer.                                     *)
(***************************************************************************)
EXTENDS Naturals, FiniteSets

CONSTANTS
  Https,        \* names of HTTPS listeners, numbered in the order of the specification
  Grpc,         \* those of them that have a GRPCRoute
  Tls,          \* names of TLS listeners, which have a TLSRoute each
  Specs,        \* the sets of listeners that users specify
  MaxGeneration, \* bound: generations of the Gateway
  MaxVersion,   \* bound: versions of the Secret
  MaxChanges,   \* bound: edits of the Gateway, new versions of the Secret and a deletion
  Nil

Names == Https \cup Tls

ASSUME ALBGatewayAssumption ==
  /\ Names \subseteq Nat /\ Https \cap Tls = {} /\ Grpc \subseteq Https
  /\ Specs \subseteq SUBSET Names \ {{}} /\ Specs # {}
  /\ MaxGeneration \in Nat \ {0} /\ MaxVersion \in Nat \ {0} /\ MaxChanges \in Nat

VARIABLES
  server,    \* the Gateway at the API server, or Nil
  cache,     \* the Gateway as the informer has it, or Nil
  secret,    \* the Secret, as the informer has it
  lb,        \* the load balancer at OCI
  queued,    \* whether the Gateway is to be reconciled
  job,       \* what the Gateway's worker is doing, or Nil
  routeQueued, \* the listeners whose GRPCRoutes are to be reconciled
  routeRecorded, \* the listeners where the informer's GRPCRoutes have rules on record
  grpcJob,   \* what the worker of the GRPCRoutes is doing, or Nil
  demoted,   \* history: listeners whose protocol the Gateway last took from a policy without
             \* the rules, or that it deleted after the user had put them back
  stranded,  \* history: listeners where the Gateway has deleted the rules of the route
  reverted,  \* history: listeners that a route gave back a certificate not on record
  remade     \* history: certificates that a route has made for a Gateway being deleted

routes == <<routeQueued, routeRecorded, grpcJob>>
history == <<demoted, stranded, reverted, remade>>
vars == <<server, cache, secret, lb, queued, job, routes, history>>

----------------------------------------------------------------------------
Generations == 1..MaxGeneration
Versions == 1..MaxVersion

\* The two conditions are the generation they are True of, or 0.  The annotations of
\* certificates and of Secrets name the same versions and are one field.
Gateway == [generation : Generations, spec : SUBSET Names, deleting : BOOLEAN,
            finalizer : BOOLEAN, accepted : 0..MaxGeneration,
            programmed : 0..MaxGeneration,
            recorded : SUBSET Https, certificates : SUBSET Versions]

Listener == [certificate : Versions, grpc : BOOLEAN]
LoadBalancer == [listeners : [Names -> Listener \cup {Nil}],
                 policies : [Https -> {"none", "default", "rules"}],
                 certificates : SUBSET Versions,
                 defaultSet : BOOLEAN]

Kinds == {"listener", "policy", "certificate", "default set"}
Deletion == [kind : Kinds, of : Names \cup Versions \cup {0}]

PCs == {"accept", "pend", "protect", "read", "certificate",
        "policy", "listener", "delete", "report", "record", "reject", "release"}
Job == [pc : PCs,
        copy : Gateway,    \* the Gateway as read, or as written since
        resolved : Versions, \* the version of the Secret when the request was resolved
        seen : LoadBalancer \cup {Nil}, \* the snapshot
        used : 0..MaxVersion, \* the version that the listeners are to have
        todo : SUBSET Https,  \* listeners still to be written
        gone : SUBSET Deletion] \* deletions still to be made

\* What the worker of the GRPCRoutes does about a listener, as it has read it.
GrpcJob == [pc : {"write"}, of : Grpc, seen : Listener,
            required : BOOLEAN] \* whether the rules are to be committed
           \cup [pc : {"pend", "commit", "record"}, of : Grpc]

ASSUME NilAssumption ==
  /\ Nil \notin Gateway /\ Nil \notin Listener /\ Nil \notin LoadBalancer
  /\ Nil \notin Job /\ Nil \notin GrpcJob

New(spec) ==
  [generation |-> 1, spec |-> spec, deleting |-> FALSE, finalizer |-> FALSE,
   accepted |-> 0, programmed |-> 0, recorded |-> {}, certificates |-> {}]

\* Bound: at first every listener is specified.
Init ==
  /\ server = New(Names)
  /\ cache = server
  /\ secret = [version |-> 1, present |-> TRUE]
  /\ lb = [listeners |-> [l \in Names |-> Nil], policies |-> [l \in Https |-> "none"],
           certificates |-> {}, defaultSet |-> FALSE]
  /\ queued = TRUE /\ job = Nil
  /\ routeQueued = Grpc /\ routeRecorded = {} /\ grpcJob = Nil
  /\ demoted = {} /\ stranded = {} /\ reverted = {} /\ remade = {}

Busy == job # Nil
At(pc) == Busy /\ job.pc = pc
Goto(pc) == job' = [job EXCEPT !.pc = pc]
Finish == job' = Nil
Managed(spec) == spec \cap Https

\* The Gateway that the routes see has the listener.
Attached(l) == cache # Nil /\ l \in cache.spec

NoWrite == UNCHANGED <<server, cache, secret>>
NoCall == UNCHANGED <<lb, history>>
NoEvent == UNCHANGED <<queued, routes>>

----------------------------------------------------------------------------
(* Reading the Gateway and its Secret; conditions and finalizer.           *)

\* A deleted Gateway is resolved without its Secret; another one is rejected without.
Take ==
  /\ ~Busy /\ queued
  /\ queued' = FALSE
  /\ LET pc == IF cache.deleting THEN "read"
               ELSE IF secret.present THEN "accept" ELSE "reject"
     IN job' = IF cache = Nil \/ (cache.deleting /\ ~cache.finalizer) THEN Nil
               ELSE [pc |-> pc, copy |-> cache, resolved |-> secret.version,
                     seen |-> Nil, used |-> 0, todo |-> {}, gone |-> {}]
  /\ NoWrite /\ NoCall /\ UNCHANGED <<routes>>

\* setCondition: the worker's copy is written, or after a conflict the cached object,
\* which leaves the copy as it is.
Current == server # Nil /\ server \in {job.copy, cache}
Update(new) ==
  /\ Current
  /\ server' = new
  /\ UNCHANGED <<cache, secret>> /\ NoCall /\ NoEvent
Proceed(pc) ==
  job' = [job EXCEPT !.pc = pc, !.copy = IF server = job.copy THEN server' ELSE @]

\* Mutant: a new version of the Secret is no reason to program the listeners.
ProgrammedOnce(g) ==
  g.programmed = g.generation /\ g.recorded = Managed(g.spec)

\* isProgrammed
Programmed(g) ==
  /\ g.programmed = g.generation
  /\ g.recorded = Managed(g.spec) /\ g.certificates = {job.resolved}

Accept ==
  /\ At("accept") /\ job.copy.accepted # job.copy.generation
  /\ Update([server EXCEPT !.accepted = job.copy.generation])
  /\ IF Programmed(job.copy) THEN Finish ELSE Proceed("pend")

CheckProgrammed ==
  /\ At("accept") /\ job.copy.accepted = job.copy.generation
  /\ IF Programmed(job.copy) THEN Finish ELSE Goto("pend")
  /\ NoWrite /\ NoCall /\ NoEvent

MarkPending ==
  /\ At("pend")
  /\ Update([server EXCEPT !.programmed = 0])
  /\ Proceed("protect")

Protect ==
  /\ At("protect")
  /\ Update([server EXCEPT !.finalizer = TRUE])
  /\ Proceed("read")

----------------------------------------------------------------------------
(* programGateway and deprovisionGateway, from one snapshot.               *)

\* removeMissingListeners: of these names, the listeners that the specification lacks,
\* each with its policy, and policies without a listener that only have the default rule.
Missing(seen, names, spec) ==
  LET there == {l \in names \ spec : seen.listeners[l] # Nil}
      orphans == {l \in names \ spec : seen.listeners[l] = Nil /\ seen.policies[l] = "default"}
  IN {[kind |-> "listener", of |-> l] : l \in there}
     \cup {[kind |-> "policy", of |-> l] : l \in there \cup orphans}

\* Mutant: every certificate that the Gateway does not want is deleted from the record only.
NeverUnused(g, seen, wanted) == {}

\* removeUnusedCertificates: what is on record, exists and is not wanted.
Unused(g, seen, wanted) ==
  {[kind |-> "certificate", of |-> v] :
     v \in (g.certificates \cap seen.certificates) \ wanted}

\* Mutant: only what is specified is cleaned up.
CleanupSpecified(g) == Managed(g.spec)

\* gatewayCleanupListenerNames
Cleanup(g) == g.recorded \cup Managed(g.spec)

\* loadBalancerListenerCertificatesOutsideCleanup
UsedOutside(seen, names) ==
  {seen.listeners[l].certificate : l \in {l \in Names \ names : seen.listeners[l] # Nil}}

\* deprovisionGatewayLoadBalancerResources
Everything(g, seen) ==
  Missing(seen, Cleanup(g), {})
  \cup Unused(g, seen, UsedOutside(seen, Cleanup(g)))
  \cup {[kind |-> "default set", of |-> 0]}

\* What follows when these deletions are still to be made.
DeleteAll(gone) ==
  [job EXCEPT !.gone = gone,
     !.pc = IF gone # {} THEN "delete" ELSE IF job.copy.deleting THEN "release" ELSE "report"]

\* Nobody else touches the default backend set.
EnsureDefaultSet == lb' = [lb EXCEPT !.defaultSet = TRUE]

ReadLoadBalancer ==
  /\ At("read")
  /\ IF job.copy.deleting
     THEN job' = [DeleteAll(Everything(job.copy, lb)) EXCEPT !.seen = lb] /\ UNCHANGED lb
     ELSE job' = [job EXCEPT !.pc = "certificate", !.seen = lb] /\ EnsureDefaultSet
  /\ NoWrite /\ NoEvent /\ UNCHANGED history

\* The Secret is read again, and may have a newer version than when it was resolved.
EnsureCertificate ==
  /\ At("certificate")
  /\ secret.present
  /\ secret.version \in lb.certificates => secret.version \in job.seen.certificates
  /\ lb' = [lb EXCEPT !.certificates = @ \cup {secret.version}]
  /\ job' = [job EXCEPT !.pc = "policy", !.used = secret.version, !.todo = Managed(job.copy.spec)]
  /\ NoWrite /\ NoEvent /\ UNCHANGED history

\* The listeners are written in their order.
Writing(l) == l \in job.todo /\ \A k \in job.todo : l <= k

\* A policy that the snapshot lacks is looked up again before it is created.
EnsurePolicy(l) ==
  /\ At("policy") /\ Writing(l)
  /\ lb' = IF job.seen.policies[l] = "none" /\ lb.policies[l] = "none"
           THEN [lb EXCEPT !.policies[l] = "default"] ELSE lb
  /\ Goto("listener")
  /\ NoWrite /\ NoEvent /\ UNCHANGED history

\* Mutant: the listener is written as HTTP whatever its policy has.
NeverGrpc(l) == FALSE

\* preserveGRPC, by the snapshot
KeepsGrpc(l) == job.seen.policies[l] = "rules"

\* Mutant: the certificate is the one of the Secret as it was resolved.
WantedResolved(l) ==
  [certificate |-> job.resolved, grpc |-> job.seen.listeners[l] # Nil /\ KeepsGrpc(l)]

\* makeOciListenerUpdateDetails; a new listener is HTTP.
Wanted(l) ==
  [certificate |-> job.used, grpc |-> job.seen.listeners[l] # Nil /\ KeepsGrpc(l)]

\* OCI creates no listener twice, updates none that is gone, and needs what it refers to.
Writable(l) ==
  /\ (job.seen.listeners[l] = Nil) <=> (lb.listeners[l] = Nil)
  /\ job.used \in lb.certificates /\ lb.policies[l] # "none"

\* A GRPC listener is written from a snapshot without the route's rules.
Demotes(l) ==
  /\ lb.listeners[l] # Nil /\ lb.listeners[l].grpc
  /\ job.seen.policies[l] # "rules"

WriteListener(l) ==
  /\ At("listener") /\ Writing(l)
  /\ IF job.seen.listeners[l] = Wanted(l)
     THEN NoCall
     ELSE /\ Writable(l)
          /\ lb' = [lb EXCEPT !.listeners[l] = Wanted(l)]
          /\ demoted' = IF Demotes(l) THEN demoted \cup {l} ELSE demoted
          /\ reverted' = reverted \ {l}
          /\ UNCHANGED <<stranded, remade>>
  /\ job' = [job EXCEPT !.pc = "policy", !.todo = @ \ {l}]
  /\ NoWrite /\ NoEvent

ListenersWritten ==
  /\ At("policy") /\ job.todo = {}
  /\ LET gone == Missing(job.seen, Cleanup(job.copy), job.copy.spec)
                 \cup Unused(job.copy, job.seen, {job.used})
     IN job' = [DeleteAll(gone) EXCEPT !.seen = Nil, !.used = 0]
  /\ NoWrite /\ NoCall /\ NoEvent

\* x is deleted before y: a listener, its policy, certificates, the default backend set.
Before(x, y) ==
  \/ y.kind = "default set" /\ x # y
  \/ y.kind = "certificate" /\ x.kind \in {"listener", "policy"}
  \/ y.kind = "policy" /\ x = [kind |-> "listener", of |-> y.of]

\* OCI deletes only what exists and is not in use.
Deletable(x) ==
  CASE x.kind = "listener" -> lb.listeners[x.of] # Nil
    [] x.kind = "policy" -> lb.policies[x.of] # "none" /\ lb.listeners[x.of] = Nil
    [] x.kind = "certificate" ->
         /\ x.of \in lb.certificates
         /\ \A l \in Names : lb.listeners[l] # Nil => lb.listeners[l].certificate # x.of
    [] x.kind = "default set" -> TRUE

NextDeletion(x) == x \in job.gone /\ \A y \in job.gone : ~Before(y, x)

\* The default backend set stays while a routing policy uses it.
Without(x) ==
  CASE x.kind = "listener" -> [lb EXCEPT !.listeners[x.of] = Nil]
    [] x.kind = "policy" -> [lb EXCEPT !.policies[x.of] = "none"]
    [] x.kind = "certificate" -> [lb EXCEPT !.certificates = @ \ {x.of}]
    [] x.kind = "default set" ->
         [lb EXCEPT !.defaultSet = @ /\ \E l \in Https : lb.policies[l] # "none"]

DeleteNext(x) ==
  /\ At("delete") /\ NextDeletion(x) /\ Deletable(x)
  /\ lb' = Without(x)
  /\ job' = DeleteAll(job.gone \ {x})
  /\ IF x.kind = "listener"
     THEN /\ demoted' = IF Attached(x.of) THEN demoted \cup {x.of} ELSE demoted \ {x.of}
          /\ reverted' = reverted \ {x.of}
     ELSE UNCHANGED <<demoted, reverted>>
  /\ stranded' = IF x.kind = "policy" /\ lb.policies[x.of] = "rules"
                 THEN stranded \cup {x.of} ELSE stranded
  /\ UNCHANGED remade
  /\ NoWrite /\ NoEvent

Report ==
  /\ At("report")
  /\ Update([server EXCEPT !.programmed = job.copy.generation])
  /\ Proceed("record")

\* What is recorded is the Secret as it was resolved.
Record ==
  /\ At("record")
  /\ Update([server EXCEPT !.finalizer = TRUE, !.recorded = Managed(job.copy.spec),
                           !.certificates = {job.resolved}])
  /\ Finish

\* processResourceError: the Gateway is not accepted, and not queued again.
Reject ==
  /\ At("reject")
  /\ Update([server EXCEPT !.accepted = 0])
  /\ Finish

RemoveFinalizer ==
  /\ At("release")
  /\ server = job.copy
  /\ server' = Nil
  /\ Finish
  /\ UNCHANGED <<cache, secret>> /\ NoCall /\ NoEvent

Fail ==
  /\ Busy
  /\ Finish
  /\ queued' = TRUE
  /\ NoWrite /\ NoCall /\ UNCHANGED <<routes>>

----------------------------------------------------------------------------
(* The controllers of the routes, as far as they touch the listeners.      *)

\* isProgrammingRequired.  A route that has its rules on record may still be programmed:
\* it was edited, its status is another in the informer's copy, or drift is repaired.
ProgrammingRequired(l, required) == l \notin routeRecorded => required

\* What the worker has to do about a listener when its protocol is right.
GrpcProgramming(l, required) == IF required THEN [pc |-> "pend", of |-> l] ELSE Nil

\* ensureGRPCListenerProtocol fails, and is tried again, while there is no listener.
GrpcRead(l) ==
  /\ grpcJob = Nil /\ l \in routeQueued
  /\ Attached(l) => lb.listeners[l] # Nil
  /\ routeQueued' = routeQueued \ {l}
  /\ \E required \in BOOLEAN :
       /\ ProgrammingRequired(l, required)
       /\ grpcJob' = IF ~Attached(l) THEN Nil
                     ELSE IF lb.listeners[l].grpc
                     THEN GrpcProgramming(l, required)
                     ELSE [pc |-> "write", of |-> l, seen |-> lb.listeners[l],
                           required |-> required]
  /\ NoWrite /\ NoCall /\ UNCHANGED <<queued, job, routeRecorded>>

\* The Gateway will not find this certificate in its record when it next cleans up.
OffRecord(v) ==
  \/ server = Nil \/ v \notin server.certificates
  \/ Busy /\ v \notin job.copy.certificates

\* The listener is written back as it was read, with another protocol.
GrpcWrite ==
  /\ grpcJob # Nil /\ grpcJob.pc = "write"
  /\ LET l == grpcJob.of
         v == grpcJob.seen.certificate
     IN /\ lb.listeners[l] # Nil /\ v \in lb.certificates
        /\ lb' = [lb EXCEPT !.listeners[l] = [grpcJob.seen EXCEPT !.grpc = TRUE]]
        /\ demoted' = demoted \ {l}
        /\ reverted' = IF v # lb.listeners[l].certificate /\ OffRecord(v)
                       THEN reverted \cup {l} ELSE reverted
        /\ grpcJob' = GrpcProgramming(l, grpcJob.required)
        /\ UNCHANGED <<stranded, remade>>
  /\ NoWrite /\ UNCHANGED <<queued, job, routeQueued, routeRecorded>>

\* setPending: the informer's copy may still be the one with the record.
GrpcPend ==
  /\ grpcJob # Nil /\ grpcJob.pc = "pend"
  /\ routeRecorded' \in {routeRecorded, routeRecorded \ {grpcJob.of}}
  /\ grpcJob' = [grpcJob EXCEPT !.pc = "commit"]
  /\ NoWrite /\ NoCall /\ UNCHANGED <<queued, job, routeQueued>>

GrpcCommit ==
  /\ grpcJob # Nil /\ grpcJob.pc = "commit"
  /\ lb.policies[grpcJob.of] # "none"
  /\ lb' = [lb EXCEPT !.policies[grpcJob.of] = "rules"]
  /\ stranded' = stranded \ {grpcJob.of}
  /\ grpcJob' = [grpcJob EXCEPT !.pc = "record"]
  /\ NoWrite /\ UNCHANGED <<queued, job, routeQueued, routeRecorded, demoted, reverted, remade>>

\* setProgrammed
GrpcRecord ==
  /\ grpcJob # Nil /\ grpcJob.pc = "record"
  /\ routeRecorded' = routeRecorded \cup {grpcJob.of}
  /\ grpcJob' = Nil
  /\ NoWrite /\ NoCall /\ UNCHANGED <<queued, job, routeQueued>>

GrpcFail ==
  /\ grpcJob # Nil
  /\ grpcJob' = Nil
  /\ routeQueued' = routeQueued \cup {grpcJob.of}
  /\ NoWrite /\ NoCall /\ UNCHANGED <<queued, job, routeRecorded>>

\* A reconcile of a TLSRoute, in one step: it makes the Gateway's certificates too, if
\* the Gateway has not yet, and gives its listener the one of the current Secret.
TlsWrite(l) ==
  /\ Attached(l) /\ secret.present
  /\ lb.listeners[l] # Nil => lb.listeners[l].certificate # secret.version
  /\ lb' = [lb EXCEPT !.certificates = @ \cup {secret.version},
              !.listeners[l] = [certificate |-> secret.version, grpc |-> FALSE]]
  /\ remade' = IF server # Nil /\ server.deleting
               THEN remade \cup ({secret.version} \ lb.certificates) ELSE remade
  /\ NoWrite /\ UNCHANGED <<queued, job, routes, demoted, stranded, reverted>>

TlsDelete(l) ==
  /\ cache # Nil /\ ~Attached(l)
  /\ lb.listeners[l] # Nil
  /\ lb' = [lb EXCEPT !.listeners[l] = Nil]
  /\ NoWrite /\ UNCHANGED <<queued, job, routes, history>>

----------------------------------------------------------------------------
(* The users, the informer and the process.                                *)

\* The bound on what users do, and they do it while the Gateway is there.
MayChange ==
  /\ server # Nil
  /\ (server.generation - 1) + (secret.version - 1)
       + (IF server.deleting THEN 1 ELSE 0) < MaxChanges

Edit(spec) ==
  /\ MayChange /\ ~server.deleting
  /\ server.generation < MaxGeneration
  /\ spec # server.spec
  /\ server' = [server EXCEPT !.spec = spec, !.generation = @ + 1]
  /\ UNCHANGED <<cache, secret, job>> /\ NoCall /\ NoEvent

Delete ==
  /\ MayChange /\ ~server.deleting
  /\ server' = IF server.finalizer THEN [server EXCEPT !.deleting = TRUE] ELSE Nil
  /\ UNCHANGED <<cache, secret, job>> /\ NoCall /\ NoEvent

\* MapSecretToGateway
SecretEvent == queued' = (queued \/ (cache # Nil /\ ~cache.deleting))

\* A new version of the Secret, or the Secret back again.
Rotate ==
  /\ MayChange /\ secret.version < MaxVersion
  /\ secret' = [secret EXCEPT !.version = @ + 1, !.present = TRUE]
  /\ SecretEvent
  /\ UNCHANGED <<server, cache, job, routes>> /\ NoCall

\* Within the bound the last version stays.
DeleteSecret ==
  /\ MayChange /\ secret.present /\ secret.version < MaxVersion
  /\ secret' = [secret EXCEPT !.present = FALSE]
  /\ SecretEvent
  /\ UNCHANGED <<server, cache, job, routes>> /\ NoCall

\* gatewayObjectPredicate: the differences that queue the Gateway.  The identifier of
\* the load balancer, a watched annotation, is written with the finalizer.
Watched(old, new) ==
  \/ old = Nil \/ new = Nil
  \/ old.generation # new.generation
  \/ old.deleting # new.deleting
  \/ old.finalizer # new.finalizer
  \/ old.recorded # new.recorded
  \/ old.certificates # new.certificates

Observe ==
  /\ cache # server
  /\ cache' = server
  /\ queued' = (queued \/ Watched(cache, server))
  /\ routeQueued' = IF server # Nil /\ server.generation # cache.generation
                    THEN Grpc ELSE routeQueued
  /\ UNCHANGED <<server, secret, job, routeRecorded, grpcJob>> /\ NoCall

Crash ==
  /\ job' = Nil /\ grpcJob' = Nil
  /\ cache' = server
  /\ queued' = (server # Nil) /\ routeQueued' = Grpc
  /\ UNCHANGED <<server, secret, routeRecorded>> /\ NoCall

----------------------------------------------------------------------------
Step ==
  \/ Take \/ Accept \/ CheckProgrammed \/ MarkPending \/ Protect \/ ReadLoadBalancer
  \/ EnsureCertificate
  \/ \E l \in Https : EnsurePolicy(l) \/ WriteListener(l)
  \/ ListenersWritten
  \/ \E x \in Deletion : DeleteNext(x)
  \/ Report \/ Record \/ Reject \/ RemoveFinalizer

GrpcStep ==
  (\E l \in Grpc : GrpcRead(l)) \/ GrpcWrite \/ GrpcPend \/ GrpcCommit \/ GrpcRecord
TlsStep == \E l \in Tls : TlsWrite(l) \/ TlsDelete(l)

Next ==
  \/ Step \/ Fail
  \/ GrpcStep \/ GrpcFail \/ TlsStep
  \/ (\E spec \in Specs : Edit(spec)) \/ Delete \/ Rotate \/ DeleteSecret
  \/ Observe \/ Crash

Spec == Init /\ [][Next]_vars

----------------------------------------------------------------------------
(***************************************************************************)
(* The types of the variables, and what OCI guarantees: a listener has its *)
(* certificate, and an HTTPS listener its policy and the default set.      *)
(***************************************************************************)
TypeOK ==
  /\ server \in Gateway \cup {Nil} /\ cache \in Gateway \cup {Nil}
  /\ secret \in [version : Versions, present : BOOLEAN]
  /\ lb \in LoadBalancer
  /\ queued \in BOOLEAN
  /\ Busy => job \in Job /\ (job.gone # {} => job.pc = "delete")
  /\ routeQueued \subseteq Grpc /\ routeRecorded \subseteq Grpc
  /\ grpcJob \in GrpcJob \cup {Nil}
  /\ \A l \in Names : lb.listeners[l] # Nil =>
       /\ lb.listeners[l].certificate \in lb.certificates
       /\ l \in Https => lb.policies[l] # "none" /\ lb.defaultSet

\* No reconcile of the Gateway, and no event for one, is outstanding.
Settled == ~queued /\ ~Busy /\ cache = server

Serves(l) ==
  /\ lb.listeners[l] # Nil
  /\ lb.listeners[l].certificate = secret.version

(***************************************************************************)
(* When everything has settled, each HTTPS listener of the last            *)
(* specification exists with the certificate of the last Secret, and both  *)
(* are on record; or the Secret is missing and the Gateway says so         *)
(* (Reconcile, programGateway).  Excepted is a listener to which a route   *)
(* gave back an older certificate that was on nobody's record.             *)
(***************************************************************************)
SettledIsServed ==
  Settled /\ server # Nil =>
    IF secret.present
    THEN /\ server.recorded = Managed(server.spec)
         /\ server.certificates = {secret.version}
         /\ \A l \in Managed(server.spec) \ reverted : Serves(l)
    ELSE server.deleting \/ server.accepted = 0

(***************************************************************************)
(* Once the Gateway and the route have settled, the listener of a          *)
(* GRPCRoute speaks GRPC, whatever the Gateway has written to it since     *)
(* (ensureGRPCListenersProtocol, listenerPolicyContainsGRPCRules), and has *)
(* the rules of the route, unless the Gateway deleted the policy that had  *)
(* them and the route, with its record intact, saw no reason to commit     *)
(* them again (isProgrammingRequired).  Excepted is a listener that the    *)
(* Gateway wrote from a snapshot without the rules, or deleted after the   *)
(* user had put it back, when nothing queues the route again.              *)
(***************************************************************************)
GrpcStays ==
  Settled /\ server # Nil /\ secret.present /\ grpcJob = Nil =>
    \A l \in (Grpc \cap server.spec) \ (demoted \cup routeQueued) :
       /\ lb.listeners[l].grpc
       /\ l \notin stranded => lb.policies[l] = "rules"

(***************************************************************************)
(* A listener or a certificate leaves the record only when it has left the *)
(* load balancer: otherwise nothing would delete it later (setProgrammed,  *)
(* removeUnusedCertificates).  Excepted is what was not on record in the   *)
(* outdated Gateway that the reconcile started from.                       *)
(***************************************************************************)
RecordKeepsWhatIsThere ==
  [][server # Nil /\ server' # Nil =>
       /\ \A v \in server.certificates \ server'.certificates :
            v \in lb.certificates => v \notin job.copy.certificates
       /\ \A l \in server.recorded \ server'.recorded :
            lb.listeners[l] # Nil => l \notin job.copy.recorded]_vars

(***************************************************************************)
(* A Gateway loses its finalizer only when none of the HTTPS listeners     *)
(* that it specifies or recorded is left, and no certificate that it       *)
(* recorded, except for one that another listener used when the clean-up   *)
(* started, or that a TLSRoute has made again meanwhile                    *)
(* (deprovisionGateway).                                                   *)
(***************************************************************************)
ReleasedMeansDeleted ==
  [][server # Nil /\ server' = Nil /\ server.finalizer =>
       /\ \A l \in server.recorded \cup Managed(server.spec) : lb.listeners[l] = Nil
       /\ \A v \in (server.certificates \cap lb.certificates) \ remade :
            \E l \in Names \ (server.recorded \cup Managed(server.spec)) :
              job.seen.listeners[l] # Nil /\ job.seen.listeners[l].certificate = v]_vars

=============================================================================
