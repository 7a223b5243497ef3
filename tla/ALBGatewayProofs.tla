--------------------------- MODULE ALBGatewayProofs ---------------------------
(***************************************************************************)
(* Proofs about ALBGateway: its types, with what OCI guarantees of a       *)
(* listener, and its safety properties ReleasedMeansDeleted,               *)
(* RecordKeepsWhatIsThere, GrpcStays and SettledIsServed.                  *)
(*                                                                         *)
(* TypeOK is inductive with DefaultSetMade.  The two action properties say *)
(* what the last write of a reconcile finds at OCI, so the invariant       *)
(* Planned follows the reconcile to it:                                    *)
(*                                                                         *)
(*   - Older: the informer and the record never run ahead, so no deletion  *)
(*     is undone and no certificate on record is newer than the Secret;    *)
(*   - SnapshotShows: what others put on the load balancer after the       *)
(*     snapshot is nothing that this reconcile would have to delete;       *)
(*   - RecordGoes and AllGoes: what is on record and not wanted, and is    *)
(*     still there, has its deletion among those still to be made.  When   *)
(*     none is left to make, nothing is left of it.                        *)
(*                                                                         *)
(* GrpcStays needs GrpcKept, by which a listener whose route has been      *)
(* reconciled speaks GRPC in every state, settled or not, by what the      *)
(* informer has; RulesKept, by which the rules of such a route are on      *)
(* record, and rules on record are there or were deleted; and              *)
(* SpecOfGeneration, by which the event of a new specification is the one  *)
(* of a new generation, which queues the routes.                           *)
(*                                                                         *)
(* SettledIsServed follows what a reconcile sets up (GetsServed), the      *)
(* generation and the Secret that it reports (ReportIsTrue), and who knows *)
(* of them: a report or a record of the last ones is known to any          *)
(* reconcile that could still undo it (ReportsAreKnown,                    *)
(* CertificatesAreKnown).  IdleIsServed says what the last reconcile has   *)
(* left when none is to come.                                              *)
(***************************************************************************)
EXTENDS ALBGateway, TLAPS

USE ALBGatewayAssumption, NilAssumption

----------------------------------------------------------------------------
(* The parts of the invariants.                                            *)

\* The worker of the Gateway has made the default backend set.
DefaultSetMade ==
  Busy /\ job.pc \in {"certificate", "policy", "listener"} => lb.defaultSet

\* The informer is behind the API server; a deletion is never taken back.
CacheIsOlder ==
  /\ server # Nil => cache # Nil
  /\ \A g \in {cache} \cup (IF Busy THEN {job.copy} ELSE {}) :
       g # Nil /\ g.deleting => server = Nil \/ server.deleting

\* No Gateway has a newer certificate on record than the Secret of its time.
RecordsAreOlder ==
  /\ \A g \in {server, cache} \ {Nil} : \A v \in g.certificates : v <= secret.version
  /\ Busy => /\ job.resolved <= secret.version
             /\ \A v \in job.copy.certificates : v <= job.resolved

\* A reconcile that cleans up does nothing else, and no other one releases the Gateway.
DeletesOnly ==
  Busy =>
    /\ job.copy.deleting => job.pc \in {"read", "delete", "release"}
    /\ job.pc = "release" => job.copy.deleting

Programming == Busy /\ job.pc \in {"certificate", "policy", "listener"}
Pruning == Busy /\ ~job.copy.deleting /\ job.pc \in {"delete", "report", "record"}
CleaningUp == Busy /\ job.copy.deleting /\ job.pc \in {"delete", "release"}

ListenerGoes(l) == lb.listeners[l] # Nil => [kind |-> "listener", of |-> l] \in job.gone
CertificateGoes(v) == v \in lb.certificates => [kind |-> "certificate", of |-> v] \in job.gone

\* The snapshot shows what there may be to delete.
SnapshotShows ==
  Programming =>
    /\ job.seen \in LoadBalancer
    /\ \A l \in Https \ job.copy.spec : lb.listeners[l] # Nil => job.seen.listeners[l] # Nil
    /\ \A v \in lb.certificates : v < job.resolved => v \in job.seen.certificates
    /\ job.pc # "certificate" => job.used >= job.resolved /\ job.todo \subseteq job.copy.spec

\* What is on record and no longer wanted is to be deleted, if it is still there.
RecordGoes ==
  Pruning =>
    /\ \A l \in job.copy.recorded \ job.copy.spec : ListenerGoes(l)
    /\ \A v \in job.copy.certificates : v < job.resolved => CertificateGoes(v)

\* So is all that is on record or specified, when the Gateway is to go.
AllGoes ==
  CleaningUp /\ server # Nil =>
    /\ job.seen \in LoadBalancer
    /\ \A l \in Cleanup(job.copy) : ListenerGoes(l)
    /\ \A v \in job.copy.certificates :
         v \notin remade /\ v \notin UsedOutside(job.seen, Cleanup(job.copy)) => CertificateGoes(v)

\* A generation has one specification, and the API server has the newest.
SpecOfGeneration ==
  server # Nil /\ cache # Nil =>
    /\ cache.generation <= server.generation
    /\ cache.generation = server.generation => cache.spec = server.spec

Speaks(l) == lb.listeners[l] # Nil /\ lb.listeners[l].grpc
Reconciling(l) == grpcJob # Nil /\ grpcJob.of = l

\* A listener whose route has been reconciled, or has its protocol behind it, speaks GRPC.
GrpcKept ==
  \A l \in Grpc \ (routeQueued \cup demoted) :
    Attached(l) => Speaks(l) \/ (Reconciling(l) /\ grpcJob.pc = "write")

\* A route that has been reconciled, or will not be programmed, is on record.
ReconciledIsRecorded ==
  /\ \A l \in Grpc \ routeQueued : Attached(l) /\ ~Reconciling(l) => l \in routeRecorded
  /\ \A l \in Grpc :
       Reconciling(l) /\ grpcJob.pc = "write" /\ ~grpcJob.required => l \in routeRecorded

\* What is on record, or goes there, is at the load balancer or has been deleted from it.
HasRules(l) == l \in stranded \/ lb.policies[l] = "rules"
RecordedIsThere ==
  \A l \in Grpc :
    l \in routeRecorded \/ (Reconciling(l) /\ grpcJob.pc = "record") => HasRules(l)

RulesKept == ReconciledIsRecorded /\ RecordedIsThere

----------------------------------------------------------------------------
(* Types.                                                                  *)

Typed == TypeOK /\ DefaultSetMade

\* What TypeOK says of the worker and of the load balancer.
JobTyped == job \in Job /\ (job.gone # {} => job.pc = "delete")

LbSound ==
  \A l \in Names : lb.listeners[l] # Nil =>
    /\ lb.listeners[l].certificate \in lb.certificates
    /\ l \in Https => lb.policies[l] # "none" /\ lb.defaultSet

\* A step that leaves the load balancer alone.
LEMMA NoCallTyped ==
  ASSUME Typed, UNCHANGED lb,
         server' \in Gateway \cup {Nil}, cache' \in Gateway \cup {Nil},
         secret' \in [version : Versions, present : BOOLEAN],
         queued' \in BOOLEAN, routeQueued' \subseteq Grpc, routeRecorded' \subseteq Grpc,
         grpcJob' \in GrpcJob \cup {Nil},
         job' = Nil \/ (JobTyped' /\ (job'.pc \in {"certificate", "policy", "listener"} =>
                                        lb.defaultSet))
  PROVE  Typed'
BY DEF Typed, TypeOK, DefaultSetMade, JobTyped, Busy

\* A step that leaves the Gateway and the Secret alone.
LEMMA CallTyped ==
  ASSUME Typed, UNCHANGED <<server, cache, secret, queued>>,
         routeQueued' \subseteq Grpc, routeRecorded' \subseteq Grpc,
         grpcJob' \in GrpcJob \cup {Nil},
         lb' \in LoadBalancer, LbSound',
         job' = Nil \/ (JobTyped' /\ (job'.pc \in {"certificate", "policy", "listener"} =>
                                        lb'.defaultSet))
  PROVE  Typed'
BY DEF Typed, TypeOK, DefaultSetMade, JobTyped, LbSound, Busy

LEMMA InitTyped == Init => Typed
<1> SUFFICES ASSUME Init PROVE Typed
  OBVIOUS
<1>1. server \in Gateway /\ cache \in Gateway
  BY DEF Init, New, Gateway, Generations
<1>2. secret \in [version : Versions, present : BOOLEAN]
  BY DEF Init, Versions
<1>3. lb \in LoadBalancer /\ \A l \in Names : lb.listeners[l] = Nil
  BY DEF Init, LoadBalancer
<1>. QED
  BY <1>1, <1>2, <1>3 DEF Init, Typed, TypeOK, DefaultSetMade, Busy

LEMMA TakeTyped == Typed /\ Take => Typed'
<1> SUFFICES ASSUME Typed, Take PROVE Typed'
  OBVIOUS
<1>1. job' = Nil \/ (JobTyped' /\ job'.pc \in {"read", "accept", "reject"})
  <2>1. CASE cache = Nil \/ (cache.deleting /\ ~cache.finalizer)
    BY <2>1 DEF Take
  <2>2. CASE ~(cache = Nil \/ (cache.deleting /\ ~cache.finalizer))
    <3>1. cache \in Gateway /\ secret.version \in Versions
      BY <2>2 DEF Typed, TypeOK
    <3>2. \E pc \in {"read", "accept", "reject"} :
            job' = [pc |-> pc, copy |-> cache, resolved |-> secret.version,
                    seen |-> Nil, used |-> 0, todo |-> {}, gone |-> {}]
      BY <2>2 DEF Take
    <3>. QED
      BY <3>1, <3>2 DEF Job, PCs, JobTyped
  <2>. QED
    BY <2>1, <2>2
<1>2. UNCHANGED <<server, cache, secret, lb, routes>> /\ queued' = FALSE
  BY DEF Take, NoWrite, NoCall
<1>. QED
  BY <1>1, <1>2, NoCallTyped DEF routes, Typed, TypeOK

\* What stays of a Gateway when its conditions and its finalizer are written.
Same(g, h) ==
  /\ g.generation = h.generation /\ g.spec = h.spec /\ g.deleting = h.deleting
  /\ g.recorded = h.recorded /\ g.certificates = h.certificates

Begins ==
  {<<"accept", "pend">>, <<"pend", "protect">>, <<"protect", "read">>, <<"report", "record">>}

\* The steps of a reconcile that write conditions or the finalizer, and go on.
LEMMA BeginParts ==
  ASSUME Typed, Accept \/ CheckProgrammed \/ MarkPending \/ Protect \/ Report
  PROVE  /\ Busy /\ job \in Job /\ UNCHANGED <<cache, secret, lb, queued, routes, history>>
         /\ \/ UNCHANGED server
            \/ server \in Gateway /\ server' \in Gateway /\ Same(server', server)
         /\ \/ job' = Nil
            \/ /\ <<job.pc, job'.pc>> \in Begins
               /\ \E c \in Gateway : Same(c, job.copy) /\ job' = [job EXCEPT !.pc = job'.pc, !.copy = c]
<1>1. Busy /\ job \in Job /\ job.copy \in Gateway
  BY DEF Accept, CheckProgrammed, MarkPending, Protect, Report, At, Typed, TypeOK, Job
<1>2. CASE CheckProgrammed
  <2>1. job' = Nil \/ (job.pc = "accept" /\ job' = [job EXCEPT !.pc = "pend"])
    BY <1>2 DEF CheckProgrammed, At, Finish, Goto
  <2>2. job' = Nil \/ (job'.pc = "pend" /\ job' = [job EXCEPT !.pc = "pend", !.copy = job.copy])
    BY <1>1, <2>1 DEF Job
  <2>. QED
    BY <1>1, <1>2, <2>1, <2>2 DEF CheckProgrammed, NoWrite, NoCall, NoEvent, Begins, Same
<1>3. CASE Accept \/ MarkPending \/ Protect \/ Report
  <2>1. server \in Gateway /\ UNCHANGED <<cache, secret, lb, queued, routes, history>>
    BY <1>3 DEF Accept, MarkPending, Protect, Report, Update, Current, NoCall, NoEvent,
      Typed, TypeOK
  <2>2. \/ server' = [server EXCEPT !.accepted = job.copy.generation]
        \/ server' = [server EXCEPT !.programmed = 0]
        \/ server' = [server EXCEPT !.programmed = job.copy.generation]
        \/ server' = [server EXCEPT !.finalizer = TRUE]
    BY <1>3 DEF Accept, MarkPending, Protect, Report, Update
  <2>3. server' \in Gateway /\ Same(server', server)
    <3>1. job.copy.generation \in 0..MaxGeneration /\ 0 \in 0..MaxGeneration
      BY <1>1 DEF Gateway, Generations
    <3>2. \A n \in 0..MaxGeneration :
            /\ [server EXCEPT !.accepted = n] \in Gateway
            /\ Same([server EXCEPT !.accepted = n], server)
            /\ [server EXCEPT !.programmed = n] \in Gateway
            /\ Same([server EXCEPT !.programmed = n], server)
      BY <2>1 DEF Gateway, Same
    <3>3. [server EXCEPT !.finalizer = TRUE] \in Gateway
          /\ Same([server EXCEPT !.finalizer = TRUE], server)
      BY <2>1 DEF Gateway, Same
    <3>. QED
      BY <2>2, <3>1, <3>2, <3>3
  <2>4. job' = Nil \/ \E pc \in PCs : <<job.pc, pc>> \in Begins /\ Proceed(pc)
    BY <1>3 DEF Accept, MarkPending, Protect, Report, At, Begins, PCs, Finish
  <2>5. ASSUME NEW pc \in PCs, <<job.pc, pc>> \in Begins, Proceed(pc)
        PROVE  /\ <<job.pc, job'.pc>> \in Begins
               /\ \E c \in Gateway : Same(c, job.copy) /\ job' = [job EXCEPT !.pc = job'.pc, !.copy = c]
    <3>. DEFINE c == IF server = job.copy THEN server' ELSE job.copy
    <3>1. job' = [job EXCEPT !.pc = pc, !.copy = c]
      BY <2>5 DEF Proceed
    <3>2. c \in Gateway /\ Same(c, job.copy)
      BY <1>1, <2>3 DEF Same
    <3>. HIDE DEF c
    <3>3. job'.pc = pc
      BY <1>1, <3>1 DEF Job
    <3>. QED
      BY <2>5, <3>1, <3>2, <3>3
  <2>. QED
    BY <1>1, <2>1, <2>3, <2>4, <2>5
<1>. QED
  BY <1>2, <1>3

LEMMA BeginTyped ==
  ASSUME Typed, Accept \/ CheckProgrammed \/ MarkPending \/ Protect \/ Report
  PROVE  Typed'
<1>1. /\ Busy /\ job \in Job /\ UNCHANGED <<cache, secret, lb, queued, routes, history>>
      /\ server' = server \/ server' \in Gateway
      /\ \/ job' = Nil
         \/ /\ <<job.pc, job'.pc>> \in Begins
            /\ \E c \in Gateway : job' = [job EXCEPT !.pc = job'.pc, !.copy = c]
  BY BeginParts
<1>2. CASE job' = Nil
  BY <1>1, <1>2, NoCallTyped DEF Typed, TypeOK, routes
<1>3. CASE job' # Nil
  <2>1. job.gone = {} /\ job'.pc \in {"pend", "protect", "read", "record"} /\ job'.pc \in PCs
    BY <1>1, <1>3 DEF Begins, PCs, Typed, TypeOK
  <2>2. job' \in Job /\ job'.gone = {}
    BY <1>1, <1>3, <2>1 DEF Job
  <2>. QED
    BY <1>1, <2>1, <2>2, NoCallTyped DEF Typed, TypeOK, routes, JobTyped
<1>. QED
  BY <1>2, <1>3


\* Deletions are of what there is a name for.
LEMMA DeletionsTyped ==
  ASSUME NEW g \in Gateway, NEW seen \in LoadBalancer, NEW spec, NEW wanted
  PROVE  /\ Cleanup(g) \subseteq Https
         /\ Missing(seen, Cleanup(g), spec) \subseteq Deletion
         /\ Unused(g, seen, wanted) \subseteq Deletion
         /\ Everything(g, seen) \subseteq Deletion
<1>1. Cleanup(g) \subseteq Https
  BY DEF Cleanup, Managed, Gateway
<1>2. \A s : Missing(seen, Cleanup(g), s) \subseteq Deletion
  <2> SUFFICES ASSUME NEW s, NEW x \in Missing(seen, Cleanup(g), s) PROVE x \in Deletion
    OBVIOUS
  <2>1. PICK l \in Https, k \in {"listener", "policy"} : x = [kind |-> k, of |-> l]
    BY <1>1 DEF Missing
  <2>. QED
    BY <2>1 DEF Deletion, Kinds, Names
<1>3. \A w : Unused(g, seen, w) \subseteq Deletion
  <2> SUFFICES ASSUME NEW w, NEW x \in Unused(g, seen, w) PROVE x \in Deletion
    OBVIOUS
  <2>1. PICK v \in Versions : x = [kind |-> "certificate", of |-> v]
    BY DEF Unused, Gateway
  <2>. QED
    BY <2>1 DEF Deletion, Kinds
<1>4. [kind |-> "default set", of |-> 0] \in Deletion
  BY DEF Deletion, Kinds
<1>. QED
  BY <1>1, <1>2, <1>3, <1>4 DEF Everything

\* Where the worker goes with its deletions.
LEMMA DeleteAllTyped ==
  ASSUME job \in Job, NEW gone \in SUBSET Deletion
  PROVE  /\ DeleteAll(gone) \in Job
         /\ DeleteAll(gone).copy = job.copy /\ DeleteAll(gone).resolved = job.resolved
         /\ DeleteAll(gone).seen = job.seen
         /\ DeleteAll(gone).gone = gone
         /\ DeleteAll(gone).pc = IF gone # {} THEN "delete"
                                 ELSE IF job.copy.deleting THEN "release" ELSE "report"
<1>. DEFINE pc == IF gone # {} THEN "delete"
                  ELSE IF job.copy.deleting THEN "release" ELSE "report"
<1>1. pc \in PCs
  BY DEF PCs
<1>2. DeleteAll(gone) = [job EXCEPT !.gone = gone, !.pc = pc]
  BY DEF DeleteAll
<1>. HIDE DEF pc
<1>3. /\ DeleteAll(gone) \in Job
      /\ DeleteAll(gone).copy = job.copy /\ DeleteAll(gone).resolved = job.resolved
      /\ DeleteAll(gone).seen = job.seen
      /\ DeleteAll(gone).gone = gone /\ DeleteAll(gone).pc = pc
  BY <1>1, <1>2 DEF Job
<1>. QED
  BY <1>3 DEF pc

LEMMA ReadParts ==
  ASSUME Typed, ReadLoadBalancer
  PROVE  /\ Busy /\ job \in Job /\ job.pc = "read"
         /\ UNCHANGED <<server, cache, secret, queued, routes, history>>
         /\ job' \in Job /\ job'.copy = job.copy /\ job'.resolved = job.resolved
         /\ job'.seen = lb
         /\ lb' \in LoadBalancer /\ lb'.listeners = lb.listeners /\ lb'.policies = lb.policies
         /\ lb'.certificates = lb.certificates
         /\ IF job.copy.deleting
            THEN /\ lb' = lb /\ job'.gone = Everything(job.copy, lb)
                 /\ job'.pc \in {"delete", "release"} /\ (job'.gone # {} => job'.pc = "delete")
            ELSE job'.pc = "certificate" /\ job'.gone = {} /\ lb'.defaultSet
<1>1. /\ Busy /\ job \in Job /\ job.pc = "read" /\ job.gone = {}
      /\ UNCHANGED <<server, cache, secret, queued, routes, history>>
      /\ lb \in LoadBalancer /\ job.copy \in Gateway
  BY DEF ReadLoadBalancer, At, NoWrite, NoEvent, Typed, TypeOK, Job
<1>2. CASE job.copy.deleting
  <2>. DEFINE gone == Everything(job.copy, lb)
  <2>1. gone \in SUBSET Deletion
    BY <1>1, DeletionsTyped
  <2>. HIDE DEF gone
  <2>2. job' = [DeleteAll(gone) EXCEPT !.seen = lb] /\ lb' = lb
    BY <1>2 DEF ReadLoadBalancer, gone
  <2>3. /\ job' \in Job /\ job'.copy = job.copy /\ job'.resolved = job.resolved
        /\ job'.seen = lb /\ job'.gone = gone /\ job'.pc = DeleteAll(gone).pc
    <3>1. DeleteAll(gone) \in Job
      BY <1>1, <2>1, DeleteAllTyped
    <3>2. /\ job' \in Job /\ job'.copy = DeleteAll(gone).copy
          /\ job'.resolved = DeleteAll(gone).resolved /\ job'.seen = lb
          /\ job'.gone = DeleteAll(gone).gone /\ job'.pc = DeleteAll(gone).pc
      BY <1>1, <2>2, <3>1 DEF Job
    <3>. QED
      BY <1>1, <2>1, <3>2, DeleteAllTyped
  <2>4. DeleteAll(gone).pc = IF gone # {} THEN "delete"
                             ELSE IF job.copy.deleting THEN "release" ELSE "report"
    BY <1>1, <2>1, DeleteAllTyped
  <2>. QED
    BY <1>1, <1>2, <2>2, <2>3, <2>4 DEF gone
<1>3. CASE ~job.copy.deleting
  <2>1. job' = [job EXCEPT !.pc = "certificate", !.seen = lb]
        /\ lb' = [lb EXCEPT !.defaultSet = TRUE]
    BY <1>3 DEF ReadLoadBalancer, EnsureDefaultSet
  <2>2. /\ job' \in Job /\ job'.copy = job.copy /\ job'.resolved = job.resolved
        /\ job'.seen = lb /\ job'.pc = "certificate" /\ job'.gone = {}
    BY <1>1, <2>1 DEF Job, PCs
  <2>3. /\ lb' \in LoadBalancer /\ lb'.listeners = lb.listeners /\ lb'.policies = lb.policies
        /\ lb'.certificates = lb.certificates /\ lb'.defaultSet
    BY <1>1, <2>1 DEF LoadBalancer
  <2>. QED
    BY <1>1, <1>3, <2>2, <2>3
<1>. QED
  BY <1>2, <1>3

LEMMA ReadTyped == Typed /\ ReadLoadBalancer => Typed'
<1> SUFFICES ASSUME Typed, ReadLoadBalancer PROVE Typed'
  OBVIOUS
<1>1. LbSound'
  BY ReadParts DEF Typed, TypeOK, LbSound
<1>2. JobTyped' /\ (job'.pc \in {"certificate", "policy", "listener"} => lb'.defaultSet)
  BY ReadParts DEF JobTyped
<1>. QED
  BY <1>1, <1>2, ReadParts, CallTyped DEF routes, Typed, TypeOK

LEMMA EnsureCertificateParts ==
  ASSUME Typed, EnsureCertificate
  PROVE  /\ Busy /\ job \in Job /\ job.pc = "certificate" /\ secret.version \in Versions
         /\ UNCHANGED <<server, cache, secret, queued, routes, history>>
         /\ job' \in Job /\ job'.pc = "policy" /\ job'.copy = job.copy
         /\ job'.resolved = job.resolved /\ job'.seen = job.seen /\ job'.gone = {}
         /\ job'.used = secret.version /\ job'.todo = Managed(job.copy.spec)
         /\ lb' \in LoadBalancer /\ lb'.listeners = lb.listeners /\ lb'.policies = lb.policies
         /\ lb'.certificates = lb.certificates \cup {secret.version}
         /\ lb'.defaultSet = lb.defaultSet
<1>1. /\ Busy /\ job \in Job /\ job.pc = "certificate" /\ job.gone = {}
      /\ UNCHANGED <<server, cache, secret, queued, routes, history>>
      /\ secret.version \in Versions /\ lb \in LoadBalancer
  BY DEF EnsureCertificate, At, NoWrite, NoEvent, Typed, TypeOK
<1>2. /\ lb' = [lb EXCEPT !.certificates = lb.certificates \cup {secret.version}]
      /\ job' = [job EXCEPT !.pc = "policy", !.used = secret.version,
                   !.todo = Managed(job.copy.spec)]
  BY DEF EnsureCertificate
<1>3. Managed(job.copy.spec) \subseteq Https /\ secret.version \in 0..MaxVersion
  BY <1>1 DEF Managed, Versions
<1>4. /\ job' \in Job /\ job'.pc = "policy" /\ job'.copy = job.copy
      /\ job'.resolved = job.resolved /\ job'.seen = job.seen /\ job'.gone = {}
      /\ job'.used = secret.version /\ job'.todo = Managed(job.copy.spec)
  BY <1>1, <1>2, <1>3 DEF Job, PCs
<1>5. /\ lb' \in LoadBalancer /\ lb'.listeners = lb.listeners /\ lb'.policies = lb.policies
      /\ lb'.certificates = lb.certificates \cup {secret.version}
      /\ lb'.defaultSet = lb.defaultSet
  BY <1>1, <1>2 DEF LoadBalancer
<1>. QED
  BY <1>1, <1>4, <1>5

LEMMA EnsureCertificateTyped == Typed /\ EnsureCertificate => Typed'
<1> SUFFICES ASSUME Typed, EnsureCertificate PROVE Typed'
  OBVIOUS
<1>1. LbSound'
  BY EnsureCertificateParts DEF Typed, TypeOK, LbSound
<1>2. JobTyped' /\ lb'.defaultSet
  BY EnsureCertificateParts DEF JobTyped, Typed, DefaultSetMade
<1>. QED
  BY <1>1, <1>2, EnsureCertificateParts, CallTyped DEF routes, Typed, TypeOK

\* A policy that is made changes nothing else.
LEMMA PolicyParts ==
  ASSUME lb \in LoadBalancer, NEW l \in Https, NEW p \in {"default", "rules"},
         lb' = [lb EXCEPT !.policies[l] = p]
  PROVE  /\ lb' \in LoadBalancer
         /\ lb'.listeners = lb.listeners /\ lb'.certificates = lb.certificates
         /\ lb'.defaultSet = lb.defaultSet
         /\ \A k \in Https : lb'.policies[k] = IF k = l THEN p ELSE lb.policies[k]
<1>1. lb.policies \in [Https -> {"none", "default", "rules"}]
  BY DEF LoadBalancer
<1>2. lb' = [lb EXCEPT !.policies = [lb.policies EXCEPT ![l] = p]]
  OBVIOUS
<1>3. [lb.policies EXCEPT ![l] = p] \in [Https -> {"none", "default", "rules"}]
  BY <1>1
<1>. QED
  BY <1>1, <1>2, <1>3 DEF LoadBalancer

LEMMA EnsurePolicyParts ==
  ASSUME Typed, NEW l \in Https, EnsurePolicy(l)
  PROVE  /\ Busy /\ job \in Job /\ job.pc = "policy" /\ l \in job.todo
         /\ UNCHANGED <<server, cache, secret, queued, routes, history>>
         /\ job' \in Job /\ job'.pc = "listener" /\ job'.copy = job.copy
         /\ job'.resolved = job.resolved /\ job'.seen = job.seen /\ job'.gone = {}
         /\ job'.used = job.used /\ job'.todo = job.todo
         /\ lb' \in LoadBalancer /\ lb'.listeners = lb.listeners
         /\ lb'.certificates = lb.certificates /\ lb'.defaultSet = lb.defaultSet
         /\ \A k \in Https : lb.policies[k] # "none" => lb'.policies[k] = lb.policies[k]
<1>1. /\ Busy /\ job \in Job /\ job.pc = "policy" /\ job.gone = {} /\ l \in job.todo
      /\ UNCHANGED <<server, cache, secret, queued, routes, history>>
      /\ lb \in LoadBalancer /\ job' = [job EXCEPT !.pc = "listener"]
  BY DEF EnsurePolicy, At, Goto, Writing, NoWrite, NoEvent, Typed, TypeOK
<1>2. /\ job' \in Job /\ job'.pc = "listener" /\ job'.copy = job.copy
      /\ job'.resolved = job.resolved /\ job'.seen = job.seen /\ job'.gone = {}
      /\ job'.used = job.used /\ job'.todo = job.todo
  BY <1>1 DEF Job, PCs
<1>3. \/ lb' = lb
      \/ lb.policies[l] = "none" /\ lb' = [lb EXCEPT !.policies[l] = "default"]
  BY DEF EnsurePolicy
<1>. QED
  BY <1>1, <1>2, <1>3, PolicyParts

LEMMA EnsurePolicyTyped ==
  ASSUME Typed, NEW l \in Https, EnsurePolicy(l)
  PROVE  Typed'
<1>1. LbSound'
  BY EnsurePolicyParts DEF Typed, TypeOK, LbSound
<1>2. JobTyped' /\ lb'.defaultSet
  BY EnsurePolicyParts DEF JobTyped, Typed, DefaultSetMade
<1>. QED
  BY <1>1, <1>2, EnsurePolicyParts, CallTyped DEF routes, Typed, TypeOK

\* A listener that is written, or deleted, changes nothing else.
LEMMA ListenerParts ==
  ASSUME lb \in LoadBalancer, NEW l \in Names, NEW new \in Listener \cup {Nil},
         lb' = [lb EXCEPT !.listeners[l] = new]
  PROVE  /\ lb' \in LoadBalancer
         /\ lb'.policies = lb.policies /\ lb'.certificates = lb.certificates
         /\ lb'.defaultSet = lb.defaultSet
         /\ \A k \in Names : lb'.listeners[k] = IF k = l THEN new ELSE lb.listeners[k]
<1>1. lb.listeners \in [Names -> Listener \cup {Nil}]
  BY DEF LoadBalancer
<1>2. lb' = [lb EXCEPT !.listeners = [lb.listeners EXCEPT ![l] = new]]
  OBVIOUS
<1>3. [lb.listeners EXCEPT ![l] = new] \in [Names -> Listener \cup {Nil}]
  BY <1>1
<1>. QED
  BY <1>1, <1>2, <1>3 DEF LoadBalancer

LEMMA WriteParts ==
  ASSUME Typed, NEW l \in Https, WriteListener(l)
  PROVE  /\ Busy /\ job \in Job /\ job.pc = "listener" /\ l \in job.todo
         /\ UNCHANGED <<server, cache, secret, queued, routes, stranded, remade>>
         /\ job' \in Job /\ job'.pc = "policy" /\ job'.copy = job.copy
         /\ job'.resolved = job.resolved /\ job'.seen = job.seen /\ job'.gone = {}
         /\ job'.used = job.used /\ job'.todo = job.todo \ {l}
         /\ \/ job.seen.listeners[l] = Wanted(l) /\ UNCHANGED <<lb, history>>
            \/ /\ Writable(l) /\ Wanted(l) \in Listener
               /\ lb' \in LoadBalancer /\ lb'.policies = lb.policies
               /\ lb'.certificates = lb.certificates /\ lb'.defaultSet = lb.defaultSet
               /\ \A k \in Names : lb'.listeners[k] = IF k = l THEN Wanted(l) ELSE lb.listeners[k]
               /\ demoted' = IF Demotes(l) THEN demoted \cup {l} ELSE demoted
               /\ reverted' = reverted \ {l}
<1>1. /\ Busy /\ job \in Job /\ job.pc = "listener" /\ job.gone = {} /\ l \in job.todo
      /\ UNCHANGED <<server, cache, secret, queued, routes>>
      /\ lb \in LoadBalancer /\ l \in Names
      /\ job' = [job EXCEPT !.pc = "policy", !.todo = job.todo \ {l}]
  BY DEF WriteListener, At, Writing, NoWrite, NoEvent, Typed, TypeOK, Names
<1>2. /\ job' \in Job /\ job'.pc = "policy" /\ job'.copy = job.copy
      /\ job'.resolved = job.resolved /\ job'.seen = job.seen /\ job'.gone = {}
      /\ job'.used = job.used /\ job'.todo = job.todo \ {l}
  BY <1>1 DEF Job, PCs
<1>3. CASE job.seen.listeners[l] = Wanted(l)
  BY <1>1, <1>2, <1>3 DEF WriteListener, NoCall, history
<1>4. CASE job.seen.listeners[l] # Wanted(l)
  <2>1. /\ Writable(l) /\ lb' = [lb EXCEPT !.listeners[l] = Wanted(l)]
        /\ demoted' = IF Demotes(l) THEN demoted \cup {l} ELSE demoted
        /\ reverted' = reverted \ {l} /\ UNCHANGED <<stranded, remade>>
    BY <1>4 DEF WriteListener
  <2>2. Wanted(l) \in Listener
    <3>1. job.used \in Versions
      BY <1>1, <2>1 DEF Writable, LoadBalancer
    <3>. QED
      BY <3>1 DEF Wanted, KeepsGrpc, Listener
  <2>3. /\ lb' \in LoadBalancer /\ lb'.policies = lb.policies
        /\ lb'.certificates = lb.certificates /\ lb'.defaultSet = lb.defaultSet
        /\ \A k \in Names : lb'.listeners[k] = IF k = l THEN Wanted(l) ELSE lb.listeners[k]
    BY <1>1, <2>1, <2>2, ListenerParts
  <2>. QED
    BY <1>1, <1>2, <2>1, <2>2, <2>3
<1>. QED
  BY <1>3, <1>4

LEMMA WriteTyped ==
  ASSUME Typed, NEW l \in Https, WriteListener(l)
  PROVE  Typed'
<1>1. job.pc = "listener" /\ lb.defaultSet /\ LbSound
  BY WriteParts DEF Typed, TypeOK, DefaultSetMade, LbSound
<1>2. LbSound' /\ lb' \in LoadBalancer /\ lb'.defaultSet
  <2>1. CASE UNCHANGED lb
    BY <1>1, <2>1 DEF Typed, TypeOK, LbSound
  <2>2. CASE ~UNCHANGED lb
    <3>1. /\ Writable(l)
          /\ lb' \in LoadBalancer /\ lb'.policies = lb.policies
          /\ lb'.certificates = lb.certificates /\ lb'.defaultSet = lb.defaultSet
          /\ \A k \in Names : lb'.listeners[k] = IF k = l THEN Wanted(l) ELSE lb.listeners[k]
      BY <2>2, WriteParts
    <3>2. Wanted(l).certificate \in lb.certificates /\ lb.policies[l] # "none"
      BY <3>1 DEF Writable, Wanted
    <3>. QED
      BY <1>1, <3>1, <3>2 DEF LbSound
  <2>. QED
    BY <2>1, <2>2
<1>3. JobTyped'
  BY WriteParts DEF JobTyped
<1>. QED
  BY ZenonT(40), <1>2, <1>3, WriteParts, CallTyped DEF routes, Typed, TypeOK


LEMMA ListenersWrittenParts ==
  ASSUME Typed, job.seen \in LoadBalancer, ListenersWritten
  PROVE  /\ Busy /\ job \in Job /\ job.pc = "policy" /\ job.todo = {}
         /\ UNCHANGED <<server, cache, secret, lb, queued, routes, history>>
         /\ job' \in Job /\ job'.copy = job.copy /\ job'.resolved = job.resolved
         /\ job'.gone = Missing(job.seen, Cleanup(job.copy), job.copy.spec)
                        \cup Unused(job.copy, job.seen, {job.used})
         /\ job'.pc = IF job'.gone # {} THEN "delete"
                      ELSE IF job.copy.deleting THEN "release" ELSE "report"
<1>1. /\ Busy /\ job \in Job /\ job.pc = "policy" /\ job.todo = {}
      /\ UNCHANGED <<server, cache, secret, lb, queued, routes, history>>
      /\ job.copy \in Gateway
  BY DEF ListenersWritten, At, NoWrite, NoCall, NoEvent, Typed, TypeOK, Job
<1>. DEFINE gone == Missing(job.seen, Cleanup(job.copy), job.copy.spec)
                    \cup Unused(job.copy, job.seen, {job.used})
<1>2. gone \in SUBSET Deletion
  BY <1>1, DeletionsTyped
<1>3. job' = [DeleteAll(gone) EXCEPT !.seen = Nil, !.used = 0]
  BY DEF ListenersWritten
<1>. HIDE DEF gone
<1>4. DeleteAll(gone) \in Job
  BY <1>1, <1>2, DeleteAllTyped
<1>5. /\ job' \in Job /\ job'.copy = DeleteAll(gone).copy
      /\ job'.resolved = DeleteAll(gone).resolved
      /\ job'.gone = DeleteAll(gone).gone /\ job'.pc = DeleteAll(gone).pc
  <2>. DEFINE next == DeleteAll(gone)
  <2>1. next \in Job /\ job' = [next EXCEPT !.seen = Nil, !.used = 0]
    BY <1>3, <1>4
  <2>. HIDE DEF next
  <2>2. 0 \in 0..MaxVersion /\ Nil \in LoadBalancer \cup {Nil}
    OBVIOUS
  <2>3. /\ job' \in Job /\ job'.copy = next.copy /\ job'.resolved = next.resolved
        /\ job'.gone = next.gone /\ job'.pc = next.pc
    BY <2>1, <2>2 DEF Job
  <2>. QED
    BY <2>3 DEF next
<1>6. /\ DeleteAll(gone).copy = job.copy /\ DeleteAll(gone).resolved = job.resolved
      /\ DeleteAll(gone).gone = gone
      /\ DeleteAll(gone).pc = IF gone # {} THEN "delete"
                              ELSE IF job.copy.deleting THEN "release" ELSE "report"
  BY <1>1, <1>2, DeleteAllTyped
<1>7. /\ job'.gone = gone
      /\ job'.pc = IF gone # {} THEN "delete"
                   ELSE IF job.copy.deleting THEN "release" ELSE "report"
  BY <1>5, <1>6
<1>. QED
  BY <1>1, <1>5, <1>6, <1>7 DEF gone

LEMMA ListenersWrittenTyped ==
  ASSUME Typed, job.seen \in LoadBalancer, ListenersWritten
  PROVE  Typed'
<1>1. JobTyped' /\ job'.pc \notin {"certificate", "policy", "listener"}
  BY ListenersWrittenParts DEF JobTyped
<1>. QED
  BY <1>1, ListenersWrittenParts, NoCallTyped DEF routes, Typed, TypeOK

LEMMA DeleteNextParts ==
  ASSUME Typed, NEW x \in Deletion, DeleteNext(x)
  PROVE  /\ Busy /\ job \in Job /\ job.pc = "delete" /\ x \in job.gone /\ Deletable(x)
         /\ UNCHANGED <<server, cache, secret, queued, routes, remade>>
         /\ job' \in Job /\ job'.copy = job.copy /\ job'.resolved = job.resolved
         /\ job'.seen = job.seen /\ job'.gone = job.gone \ {x}
         /\ job'.pc = IF job'.gone # {} THEN "delete"
                      ELSE IF job.copy.deleting THEN "release" ELSE "report"
         /\ lb' \in LoadBalancer
         /\ \A l \in Names : lb'.listeners[l] =
               IF x.kind = "listener" /\ x.of = l THEN Nil ELSE lb.listeners[l]
         /\ \A l \in Https : lb'.policies[l] =
               IF x.kind = "policy" /\ x.of = l THEN "none" ELSE lb.policies[l]
         /\ lb'.certificates =
               IF x.kind = "certificate" THEN lb.certificates \ {x.of} ELSE lb.certificates
         /\ lb.defaultSet /\ x.kind = "default set" =>
               lb'.defaultSet \/ \A l \in Https : lb.policies[l] = "none"
         /\ x.kind # "default set" => lb'.defaultSet = lb.defaultSet
         /\ demoted' = IF x.kind # "listener" THEN demoted
                       ELSE IF Attached(x.of) THEN demoted \cup {x.of} ELSE demoted \ {x.of}
         /\ stranded' = IF x.kind = "policy" /\ lb.policies[x.of] = "rules"
                        THEN stranded \cup {x.of} ELSE stranded
         /\ reverted' \subseteq reverted
<1>1. /\ Busy /\ job \in Job /\ job.pc = "delete" /\ x \in job.gone /\ Deletable(x)
      /\ UNCHANGED <<server, cache, secret, queued, routes>>
      /\ job' = DeleteAll(job.gone \ {x}) /\ lb' = Without(x)
      /\ lb \in LoadBalancer
  BY DEF DeleteNext, At, NextDeletion, NoWrite, NoEvent, Typed, TypeOK
<1>2. job.gone \ {x} \in SUBSET Deletion
  BY <1>1 DEF Job
<1>3. /\ job' \in Job /\ job'.copy = job.copy /\ job'.resolved = job.resolved
      /\ job'.seen = job.seen /\ job'.gone = job.gone \ {x}
      /\ job'.pc = IF job'.gone # {} THEN "delete"
                   ELSE IF job.copy.deleting THEN "release" ELSE "report"
  <2>. DEFINE gone == job.gone \ {x}
  <2>1. gone \in SUBSET Deletion /\ job' = DeleteAll(gone)
    BY <1>1, <1>2
  <2>. HIDE DEF gone
  <2>2. /\ job' \in Job /\ job'.copy = job.copy /\ job'.resolved = job.resolved
        /\ job'.seen = job.seen /\ job'.gone = gone
        /\ job'.pc = IF gone # {} THEN "delete"
                     ELSE IF job.copy.deleting THEN "release" ELSE "report"
    BY <1>1, <2>1, DeleteAllTyped
  <2>. QED
    BY <2>2 DEF gone
<1>4. /\ remade' = remade /\ reverted' \subseteq reverted
      /\ demoted' = IF x.kind # "listener" THEN demoted
                    ELSE IF Attached(x.of) THEN demoted \cup {x.of} ELSE demoted \ {x.of}
      /\ stranded' = IF x.kind = "policy" /\ lb.policies[x.of] = "rules"
                     THEN stranded \cup {x.of} ELSE stranded
  BY DEF DeleteNext
<1>5. x.kind \in Kinds
  BY DEF Deletion
<1>6. /\ lb.listeners \in [Names -> Listener \cup {Nil}]
      /\ lb.policies \in [Https -> {"none", "default", "rules"}]
      /\ lb.certificates \in SUBSET Versions /\ lb.defaultSet \in BOOLEAN
  BY <1>1 DEF LoadBalancer
<1>7. CASE x.kind = "listener"
  <2>. DEFINE new == [lb.listeners EXCEPT ![x.of] = Nil]
  <2>1. new \in [Names -> Listener \cup {Nil}]
        /\ \A l \in Names : new[l] = IF x.of = l THEN Nil ELSE lb.listeners[l]
    BY <1>6
  <2>2. lb' = [lb EXCEPT !.listeners = new]
    BY <1>1, <1>7 DEF Without
  <2>. HIDE DEF new
  <2>3. /\ lb' \in LoadBalancer /\ lb'.listeners = new /\ lb'.policies = lb.policies
        /\ lb'.certificates = lb.certificates /\ lb'.defaultSet = lb.defaultSet
    BY <1>1, <2>1, <2>2 DEF LoadBalancer
  <2>. QED
    BY <1>1, <1>3, <1>4, <1>7, <2>1, <2>3
<1>8. CASE x.kind = "policy"
  <2>. DEFINE new == [lb.policies EXCEPT ![x.of] = "none"]
  <2>1. new \in [Https -> {"none", "default", "rules"}]
        /\ \A l \in Https : new[l] = IF x.of = l THEN "none" ELSE lb.policies[l]
    BY <1>6
  <2>2. lb' = [lb EXCEPT !.policies = new]
    BY <1>1, <1>8 DEF Without
  <2>. HIDE DEF new
  <2>3. /\ lb' \in LoadBalancer /\ lb'.listeners = lb.listeners /\ lb'.policies = new
        /\ lb'.certificates = lb.certificates /\ lb'.defaultSet = lb.defaultSet
    BY <1>1, <2>1, <2>2 DEF LoadBalancer
  <2>. QED
    BY <1>1, <1>3, <1>4, <1>8, <2>1, <2>3
<1>9. CASE x.kind = "certificate"
  <2>1. lb' = [lb EXCEPT !.certificates = lb.certificates \ {x.of}]
    BY <1>1, <1>9 DEF Without
  <2>2. /\ lb' \in LoadBalancer /\ lb'.listeners = lb.listeners /\ lb'.policies = lb.policies
        /\ lb'.certificates = lb.certificates \ {x.of} /\ lb'.defaultSet = lb.defaultSet
    BY <1>1, <2>1 DEF LoadBalancer
  <2>. QED
    BY <1>1, <1>3, <1>4, <1>9, <2>2
<1>10. CASE x.kind = "default set"
  <2>. DEFINE new == lb.defaultSet /\ \E l \in Https : lb.policies[l] # "none"
  <2>1. lb' = [lb EXCEPT !.defaultSet = new] /\ new \in BOOLEAN
    BY <1>1, <1>6, <1>10 DEF Without
  <2>2. lb.defaultSet => new \/ \A l \in Https : lb.policies[l] = "none"
    OBVIOUS
  <2>. HIDE DEF new
  <2>3. /\ lb' \in LoadBalancer /\ lb'.listeners = lb.listeners /\ lb'.policies = lb.policies
        /\ lb'.certificates = lb.certificates /\ lb'.defaultSet = new
    BY <1>1, <2>1 DEF LoadBalancer
  <2>. QED
    BY <1>1, <1>3, <1>4, <1>10, <2>2, <2>3
<1>. QED
  BY <1>5, <1>7, <1>8, <1>9, <1>10 DEF Kinds

LEMMA DeleteNextTyped ==
  ASSUME Typed, NEW x \in Deletion, DeleteNext(x)
  PROVE  Typed'
<1>1. x.kind \in Kinds /\ LbSound
  BY DEF Deletion, Typed, TypeOK, LbSound
<1>2. LbSound'
  <2> SUFFICES ASSUME NEW l \in Names, lb'.listeners[l] # Nil
               PROVE  /\ lb'.listeners[l].certificate \in lb'.certificates
                      /\ l \in Https => lb'.policies[l] # "none" /\ lb'.defaultSet
    BY DEF LbSound
  <2>1. lb.listeners[l] # Nil /\ lb'.listeners[l] = lb.listeners[l]
    BY DeleteNextParts
  <2>2. lb.listeners[l].certificate \in lb.certificates
        /\ (l \in Https => lb.policies[l] # "none" /\ lb.defaultSet)
    BY <1>1, <2>1 DEF LbSound
  <2>3. Deletable(x)
    BY DeleteNextParts
  <2>4. lb'.listeners[l].certificate \in lb'.certificates
    <3>1. CASE x.kind = "certificate"
      <4>1. lb.listeners[l].certificate # x.of
        BY <2>1, <2>3, <3>1 DEF Deletable
      <4>2. lb'.certificates = lb.certificates \ {x.of}
        BY <3>1, DeleteNextParts
      <4>. QED
        BY <2>1, <2>2, <4>1, <4>2
    <3>2. CASE x.kind # "certificate"
      BY <2>1, <2>2, <3>2, DeleteNextParts
    <3>. QED
      BY <3>1, <3>2
  <2>5. l \in Https => lb'.policies[l] # "none"
    BY ZenonT(40), <2>1, <2>2, <2>3, DeleteNextParts DEF Deletable
  <2>6. l \in Https => lb'.defaultSet
    BY <2>2, DeleteNextParts
  <2>. QED
    BY <2>4, <2>5, <2>6
<1>3. JobTyped' /\ job'.pc \notin {"certificate", "policy", "listener"}
  BY DeleteNextParts DEF JobTyped
<1>4. lb' \in LoadBalancer /\ UNCHANGED <<server, cache, secret, queued, routes>>
  BY DeleteNextParts
<1>. QED
  BY <1>2, <1>3, <1>4, CallTyped DEF routes, Typed, TypeOK

\* The last write of a reconcile.
LEMMA LastParts ==
  ASSUME Typed, Record \/ Reject
  PROVE  /\ Busy /\ job \in Job /\ job' = Nil /\ server \in Gateway /\ server' \in Gateway
         /\ UNCHANGED <<cache, secret, lb, queued, routes, history>>
         /\ server'.generation = server.generation /\ server'.spec = server.spec
         /\ server'.deleting = server.deleting
         /\ \/ Record /\ server'.recorded = Managed(job.copy.spec)
               /\ server'.certificates = {job.resolved}
            \/ server'.recorded = server.recorded /\ server'.certificates = server.certificates
<1>1. /\ Busy /\ job \in Job /\ job' = Nil /\ server \in Gateway
      /\ UNCHANGED <<cache, secret, lb, queued, routes, history>>
  BY DEF Record, Reject, At, Finish, Update, Current, NoCall, NoEvent, Typed, TypeOK
<1>2. CASE Record
  <2>1. server' = [server EXCEPT !.finalizer = TRUE, !.recorded = Managed(job.copy.spec),
                     !.certificates = {job.resolved}]
    BY <1>2 DEF Record, Update
  <2>2. Managed(job.copy.spec) \subseteq Https /\ {job.resolved} \subseteq Versions
    BY <1>1 DEF Managed, Job
  <2>3. /\ server' \in Gateway
        /\ server'.generation = server.generation /\ server'.spec = server.spec
        /\ server'.deleting = server.deleting
        /\ server'.recorded = Managed(job.copy.spec) /\ server'.certificates = {job.resolved}
    BY <1>1, <2>1, <2>2 DEF Gateway
  <2>. QED
    BY <1>1, <1>2, <2>3
<1>3. CASE Reject
  <2>1. server' = [server EXCEPT !.accepted = 0] /\ 0 \in 0..MaxGeneration
    BY <1>3 DEF Reject, Update
  <2>2. /\ server' \in Gateway
        /\ server'.generation = server.generation /\ server'.spec = server.spec
        /\ server'.deleting = server.deleting
        /\ server'.recorded = server.recorded /\ server'.certificates = server.certificates
    BY <1>1, <2>1 DEF Gateway
  <2>. QED
    BY <1>1, <2>2
<1>. QED
  BY <1>2, <1>3

LEMMA LastTyped ==
  ASSUME Typed, Record \/ Reject \/ RemoveFinalizer \/ Fail
  PROVE  Typed'
<1>1. CASE Record \/ Reject
  BY <1>1, LastParts, NoCallTyped DEF routes, Typed, TypeOK
<1>2. CASE RemoveFinalizer \/ Fail
  <2>1. /\ server' \in {server, Nil} /\ job' = Nil /\ queued' \in {queued, TRUE}
        /\ UNCHANGED <<cache, secret, lb, routes>>
    BY <1>2 DEF RemoveFinalizer, Fail, Finish, NoWrite, NoCall, NoEvent
  <2>. QED
    BY <2>1, NoCallTyped DEF routes, Typed, TypeOK
<1>. QED
  BY <1>1, <1>2

\* The route's worker reads the listener before it does anything about it.
LEMMA GrpcReadParts ==
  ASSUME Typed, NEW l \in Grpc, GrpcRead(l)
  PROVE  /\ grpcJob = Nil /\ l \in routeQueued /\ routeQueued' = routeQueued \ {l}
         /\ UNCHANGED <<server, cache, secret, lb, queued, job, routeRecorded, history>>
         /\ \/ ~Attached(l) /\ grpcJob' = Nil
            \/ /\ Attached(l) /\ lb.listeners[l] \in Listener /\ lb.listeners[l].grpc
               /\ grpcJob' = Nil /\ l \in routeRecorded
            \/ /\ Attached(l) /\ lb.listeners[l] \in Listener /\ lb.listeners[l].grpc
               /\ grpcJob' \in GrpcJob /\ grpcJob'.of = l /\ grpcJob'.pc = "pend"
            \/ /\ Attached(l) /\ lb.listeners[l] \in Listener
               /\ grpcJob' \in GrpcJob /\ grpcJob'.of = l /\ grpcJob'.pc = "write"
               /\ ~grpcJob'.required => l \in routeRecorded
<1>1. /\ grpcJob = Nil /\ l \in routeQueued /\ routeQueued' = routeQueued \ {l}
      /\ UNCHANGED <<server, cache, secret, lb, queued, job, routeRecorded, history>>
  BY DEF GrpcRead, NoWrite, NoCall
<1>2. CASE Attached(l)
  <2>1. lb.listeners[l] \in Listener
    <3>1. lb.listeners[l] # Nil /\ l \in Names /\ lb \in LoadBalancer
      BY <1>2 DEF GrpcRead, Names, Typed, TypeOK
    <3>. QED
      BY <3>1 DEF LoadBalancer
  <2>2. PICK required \in BOOLEAN :
          /\ l \notin routeRecorded => required
          /\ grpcJob' = IF lb.listeners[l].grpc
                        THEN IF required THEN [pc |-> "pend", of |-> l] ELSE Nil
                        ELSE [pc |-> "write", of |-> l, seen |-> lb.listeners[l],
                              required |-> required]
    BY <1>2 DEF GrpcRead, ProgrammingRequired, GrpcProgramming
  <2>3. CASE lb.listeners[l].grpc
    BY <1>1, <1>2, <2>1, <2>2, <2>3 DEF GrpcJob
  <2>4. CASE ~lb.listeners[l].grpc
    BY <1>1, <1>2, <2>1, <2>2, <2>4 DEF GrpcJob
  <2>. QED
    BY <2>3, <2>4
<1>3. CASE ~Attached(l)
  BY <1>1, <1>3 DEF GrpcRead
<1>. QED
  BY <1>2, <1>3

LEMMA GrpcWriteParts ==
  ASSUME Typed, GrpcWrite
  PROVE  /\ grpcJob \in GrpcJob /\ grpcJob.of \in Names /\ grpcJob.pc = "write"
         /\ \/ grpcJob' = Nil /\ ~grpcJob.required
            \/ grpcJob' \in GrpcJob /\ grpcJob'.of = grpcJob.of /\ grpcJob'.pc = "pend"
         /\ UNCHANGED <<server, cache, secret, queued, job, routeQueued, routeRecorded>>
         /\ UNCHANGED <<stranded, remade>>
         /\ lb.listeners[grpcJob.of] # Nil /\ grpcJob.seen.certificate \in lb.certificates
         /\ lb' \in LoadBalancer /\ lb'.policies = lb.policies
         /\ lb'.certificates = lb.certificates /\ lb'.defaultSet = lb.defaultSet
         /\ \A l \in Names : l # grpcJob.of => lb'.listeners[l] = lb.listeners[l]
         /\ lb'.listeners[grpcJob.of] \in Listener /\ lb'.listeners[grpcJob.of].grpc
         /\ lb'.listeners[grpcJob.of].certificate = grpcJob.seen.certificate
         /\ demoted' = demoted \ {grpcJob.of}
<1>1. /\ grpcJob \in GrpcJob /\ lb \in LoadBalancer /\ grpcJob.pc = "write"
      /\ UNCHANGED <<server, cache, secret, queued, job, routeQueued, routeRecorded>>
      /\ UNCHANGED <<stranded, remade>>
      /\ lb.listeners[grpcJob.of] # Nil /\ grpcJob.seen.certificate \in lb.certificates
      /\ demoted' = demoted \ {grpcJob.of}
      /\ lb' = [lb EXCEPT !.listeners[grpcJob.of] = [grpcJob.seen EXCEPT !.grpc = TRUE]]
      /\ grpcJob' = IF grpcJob.required THEN [pc |-> "pend", of |-> grpcJob.of] ELSE Nil
  BY DEF GrpcWrite, GrpcProgramming, NoWrite, Typed, TypeOK
<1>2. grpcJob.of \in Names /\ grpcJob.of \in Grpc /\ grpcJob.seen \in Listener
  BY <1>1 DEF GrpcJob, Names
<1>3. \/ grpcJob' = Nil /\ ~grpcJob.required
      \/ grpcJob' \in GrpcJob /\ grpcJob'.of = grpcJob.of /\ grpcJob'.pc = "pend"
  BY <1>1, <1>2 DEF GrpcJob
<1>. DEFINE new == [grpcJob.seen EXCEPT !.grpc = TRUE]
<1>4. new \in Listener /\ new.grpc /\ new.certificate = grpcJob.seen.certificate
  BY <1>2 DEF Listener
<1>5. lb' = [lb EXCEPT !.listeners[grpcJob.of] = new]
  BY <1>1
<1>. HIDE DEF new
<1>6. /\ lb' \in LoadBalancer /\ lb'.policies = lb.policies
      /\ lb'.certificates = lb.certificates /\ lb'.defaultSet = lb.defaultSet
      /\ \A l \in Names : lb'.listeners[l] = IF l = grpcJob.of THEN new ELSE lb.listeners[l]
  BY ZenonT(40), <1>1, <1>2, <1>4, <1>5, ListenerParts
<1>. QED
  BY <1>1, <1>2, <1>3, <1>4, <1>6

\* What follows when the protocol is right.
LEMMA GrpcEndParts ==
  ASSUME Typed, GrpcPend \/ GrpcCommit \/ GrpcRecord \/ GrpcFail
  PROVE  /\ grpcJob \in GrpcJob /\ grpcJob.of \in Grpc
         /\ UNCHANGED <<server, cache, secret, queued, job, demoted, reverted, remade>>
         /\ lb' \in LoadBalancer /\ lb'.listeners = lb.listeners
         /\ lb'.certificates = lb.certificates /\ lb'.defaultSet = lb.defaultSet
         /\ \/ /\ grpcJob.pc = "pend" /\ grpcJob' \in GrpcJob
               /\ grpcJob'.of = grpcJob.of /\ grpcJob'.pc = "commit"
               /\ routeRecorded' \in {routeRecorded, routeRecorded \ {grpcJob.of}}
               /\ UNCHANGED <<lb, routeQueued, stranded>>
            \/ /\ grpcJob.pc = "commit" /\ grpcJob' \in GrpcJob
               /\ grpcJob'.of = grpcJob.of /\ grpcJob'.pc = "record"
               /\ \A l \in Https : lb'.policies[l] =
                    IF l = grpcJob.of THEN "rules" ELSE lb.policies[l]
               /\ stranded' = stranded \ {grpcJob.of}
               /\ UNCHANGED <<routeQueued, routeRecorded>>
            \/ /\ grpcJob.pc = "record" /\ grpcJob' = Nil
               /\ routeRecorded' = routeRecorded \cup {grpcJob.of}
               /\ UNCHANGED <<lb, routeQueued, stranded>>
            \/ /\ grpcJob' = Nil /\ routeQueued' = routeQueued \cup {grpcJob.of}
               /\ UNCHANGED <<lb, routeRecorded, stranded>>
<1>1. /\ grpcJob \in GrpcJob /\ lb \in LoadBalancer
      /\ grpcJob.of \in Grpc /\ grpcJob.of \in Https
  BY DEF GrpcPend, GrpcCommit, GrpcRecord, GrpcFail, Typed, TypeOK, GrpcJob
<1>2. UNCHANGED <<server, cache, secret, queued, job, demoted, reverted, remade>>
  BY DEF GrpcPend, GrpcCommit, GrpcRecord, GrpcFail, NoWrite, NoCall, history
<1>3. CASE GrpcPend
  <2>1. /\ grpcJob.pc = "pend" /\ grpcJob' = [grpcJob EXCEPT !.pc = "commit"]
        /\ routeRecorded' \in {routeRecorded, routeRecorded \ {grpcJob.of}}
        /\ UNCHANGED <<lb, routeQueued, stranded>>
    BY <1>3 DEF GrpcPend, NoCall, history
  <2>2. grpcJob' \in GrpcJob /\ grpcJob'.of = grpcJob.of /\ grpcJob'.pc = "commit"
    BY <1>1, <2>1 DEF GrpcJob
  <2>. QED
    BY <1>1, <1>2, <2>1, <2>2
<1>4. CASE GrpcCommit
  <2>1. /\ grpcJob.pc = "commit" /\ grpcJob' = [grpcJob EXCEPT !.pc = "record"]
        /\ lb' = [lb EXCEPT !.policies[grpcJob.of] = "rules"]
        /\ stranded' = stranded \ {grpcJob.of} /\ UNCHANGED <<routeQueued, routeRecorded>>
    BY <1>4 DEF GrpcCommit
  <2>2. grpcJob' \in GrpcJob /\ grpcJob'.of = grpcJob.of /\ grpcJob'.pc = "record"
    BY <1>1, <2>1 DEF GrpcJob
  <2>3. /\ lb' \in LoadBalancer /\ lb'.listeners = lb.listeners
        /\ lb'.certificates = lb.certificates /\ lb'.defaultSet = lb.defaultSet
        /\ \A l \in Https : lb'.policies[l] = IF l = grpcJob.of THEN "rules" ELSE lb.policies[l]
    BY <1>1, <2>1, PolicyParts
  <2>. QED
    BY <1>1, <1>2, <2>1, <2>2, <2>3
<1>5. CASE GrpcRecord
  BY <1>1, <1>2, <1>5 DEF GrpcRecord, NoCall, history
<1>6. CASE GrpcFail
  BY <1>1, <1>2, <1>6 DEF GrpcFail, NoCall, history
<1>. QED
  BY <1>3, <1>4, <1>5, <1>6

LEMMA TlsParts ==
  ASSUME Typed, NEW l \in Tls, TlsWrite(l) \/ TlsDelete(l)
  PROVE  /\ UNCHANGED <<server, cache, secret, queued, job, routes, demoted, stranded>>
         /\ l \in Names /\ l \notin Https
         /\ lb' \in LoadBalancer /\ lb'.policies = lb.policies /\ lb'.defaultSet = lb.defaultSet
         /\ \A k \in Names : k # l => lb'.listeners[k] = lb.listeners[k]
         /\ \/ lb'.listeners[l] = Nil /\ lb'.certificates = lb.certificates /\ UNCHANGED history
            \/ /\ lb'.listeners[l].certificate = secret.version
               /\ secret.version \in Versions /\ ~lb'.listeners[l].grpc
               /\ lb'.certificates = lb.certificates \cup {secret.version}
               /\ remade \subseteq remade' /\ UNCHANGED reverted
               /\ server # Nil /\ server.deleting =>
                    {secret.version} \ lb.certificates \subseteq remade'
<1>1. /\ UNCHANGED <<server, cache, secret, queued, job, routes, demoted, stranded>>
      /\ l \in Names /\ l \notin Https /\ lb \in LoadBalancer /\ secret.version \in Versions
  BY DEF TlsWrite, TlsDelete, NoWrite, history, Names, Typed, TypeOK
<1>2. CASE TlsDelete(l)
  <2>1. lb' = [lb EXCEPT !.listeners[l] = Nil] /\ UNCHANGED history
    BY <1>2 DEF TlsDelete
  <2>. QED
    BY <1>1, <2>1, ListenerParts
<1>3. CASE TlsWrite(l)
  <2>. DEFINE new == [certificate |-> secret.version, grpc |-> FALSE]
              all == lb.certificates \cup {secret.version}
              listeners == [lb.listeners EXCEPT ![l] = new]
  <2>1. new \in Listener /\ new.certificate = secret.version /\ ~new.grpc
    BY <1>1 DEF Listener
  <2>2. all \in SUBSET Versions
    BY <1>1 DEF LoadBalancer
  <2>3. /\ listeners \in [Names -> Listener \cup {Nil}] /\ listeners[l] = new
        /\ \A k \in Names : k # l => listeners[k] = lb.listeners[k]
    BY <1>1, <2>1 DEF LoadBalancer
  <2>4. lb' = [lb EXCEPT !.certificates = all, !.listeners = listeners]
    BY <1>3 DEF TlsWrite
  <2>5. /\ reverted' = reverted
        /\ remade' = IF server # Nil /\ server.deleting
                     THEN remade \cup ({secret.version} \ lb.certificates) ELSE remade
    BY <1>3 DEF TlsWrite
  <2>. HIDE DEF new, all, listeners
  <2>6. /\ lb' \in LoadBalancer /\ lb'.policies = lb.policies /\ lb'.defaultSet = lb.defaultSet
        /\ lb'.listeners = listeners /\ lb'.certificates = all
    BY <1>1, <2>2, <2>3, <2>4 DEF LoadBalancer
  <2>. QED
    BY <1>1, <2>1, <2>3, <2>5, <2>6 DEF all
<1>. QED
  BY <1>2, <1>3

LEMMA RoutesTyped ==
  ASSUME Typed, GrpcStep \/ GrpcFail \/ TlsStep
  PROVE  Typed'
<1>1. LbSound /\ (Busy => JobTyped) /\ DefaultSetMade /\ routeQueued \subseteq Grpc
      /\ routeRecorded \subseteq Grpc /\ grpcJob \in GrpcJob \cup {Nil}
  BY DEF Typed, TypeOK, LbSound, JobTyped
<1>. DEFINE Kept == job' = Nil \/ (JobTyped' /\ (job'.pc \in {"certificate", "policy", "listener"} =>
                                        lb'.defaultSet))
<1>2. job' = job /\ lb'.defaultSet = lb.defaultSet => Kept
  BY <1>1 DEF Busy, JobTyped, DefaultSetMade
<1>3. ASSUME NEW l \in Grpc, GrpcRead(l) PROVE Typed'
  <2>1. /\ UNCHANGED <<server, cache, secret, lb, queued, job, routeRecorded>>
        /\ routeQueued' \subseteq Grpc /\ grpcJob' \in GrpcJob \cup {Nil}
    BY <1>1, <1>3, GrpcReadParts
  <2>. QED
    BY <1>1, <1>2, <2>1, CallTyped DEF LbSound, Typed, TypeOK
<1>4. CASE GrpcWrite
  <2>1. LbSound'
    <3>1. grpcJob.of \in Names /\ lb.listeners[grpcJob.of] # Nil
      BY <1>4, GrpcWriteParts
    <3>. QED
      BY <1>1, <1>4, <3>1, GrpcWriteParts DEF LbSound
  <2>2. /\ UNCHANGED <<server, cache, secret, queued, job, routeQueued, routeRecorded>>
        /\ lb'.defaultSet = lb.defaultSet /\ lb' \in LoadBalancer
        /\ grpcJob' \in GrpcJob \cup {Nil}
    BY <1>4, GrpcWriteParts
  <2>. QED
    BY <1>1, <1>2, <2>1, <2>2, CallTyped
<1>5. CASE GrpcPend \/ GrpcCommit \/ GrpcRecord \/ GrpcFail
  <2>1. LbSound'
    BY <1>1, <1>5, GrpcEndParts DEF LbSound
  <2>2. /\ UNCHANGED <<server, cache, secret, queued, job>>
        /\ lb'.defaultSet = lb.defaultSet /\ lb' \in LoadBalancer
        /\ grpcJob' \in GrpcJob \cup {Nil}
        /\ routeQueued' \subseteq Grpc /\ routeRecorded' \subseteq Grpc
    BY <1>1, <1>5, GrpcEndParts
  <2>. QED
    BY <1>1, <1>2, <2>1, <2>2, CallTyped
<1>6. ASSUME NEW l \in Tls, TlsWrite(l) \/ TlsDelete(l) PROVE Typed'
  <2>1. LbSound'
    BY <1>1, <1>6, TlsParts DEF LbSound
  <2>2. /\ UNCHANGED <<server, cache, secret, queued, job, routes>>
        /\ lb'.defaultSet = lb.defaultSet /\ lb' \in LoadBalancer
    BY <1>6, TlsParts
  <2>. QED
    BY <1>1, <1>2, <2>1, <2>2, CallTyped DEF routes
<1>. QED
  BY <1>3, <1>4, <1>5, <1>6 DEF GrpcStep, TlsStep

\* What the users and the informer leave of the Gateway and the Secret.
LEMMA OthersParts ==
  ASSUME Typed,
         (\E spec \in Specs : Edit(spec)) \/ Delete \/ Rotate \/ DeleteSecret \/ Observe \/ Crash
  PROVE  /\ UNCHANGED <<lb, routeRecorded, history>>
         /\ \/ server' = server \/ server' = Nil
            \/ /\ server \in Gateway /\ server' \in Gateway
               /\ server'.recorded = server.recorded
               /\ server'.certificates = server.certificates
               /\ server.deleting => server'.deleting
               /\ \/ server'.generation = server.generation + 1 /\ ~server.deleting
                  \/ server'.generation = server.generation /\ server'.spec = server.spec
         /\ cache' = cache \/ (cache' = server /\ server' = server)
         /\ secret' \in [version : Versions, present : BOOLEAN]
         /\ secret'.version >= secret.version
         /\ (job' = Nil /\ ~UNCHANGED job => UNCHANGED <<server, secret>> /\ routeQueued' = Grpc)
         /\ job' \in {job, Nil} /\ grpcJob' \in {grpcJob, Nil}
         /\ grpcJob' # grpcJob => routeQueued' = Grpc
         /\ queued' \in BOOLEAN /\ routeQueued' \in {routeQueued, Grpc}
<1>1. server # Nil => server \in Gateway
  BY DEF Typed, TypeOK
<1>2. /\ secret \in [version : Versions, present : BOOLEAN] /\ queued \in BOOLEAN
      /\ secret.version >= secret.version
  BY DEF Typed, TypeOK, Versions
<1>3. CASE \E spec \in Specs : Edit(spec)
  <2>1. PICK spec \in Specs : Edit(spec)
    BY <1>3
  <2>2. /\ server \in Gateway /\ ~server.deleting /\ server.generation + 1 \in Generations
        /\ spec \in SUBSET Names
    <3>1. server \in Gateway /\ ~server.deleting /\ server.generation < MaxGeneration
      BY <1>1, <2>1 DEF Edit, MayChange
    <3>2. server.generation + 1 \in Generations
      BY <3>1 DEF Gateway, Generations
    <3>3. spec \in SUBSET Names
      OBVIOUS
    <3>. QED
      BY <3>1, <3>2, <3>3
  <2>3. server' = [server EXCEPT !.spec = spec, !.generation = server.generation + 1]
    BY <2>1 DEF Edit
  <2>4. /\ server' \in Gateway /\ server'.recorded = server.recorded
        /\ server'.certificates = server.certificates
        /\ server'.generation = server.generation + 1
    BY <2>2, <2>3 DEF Gateway
  <2>5. UNCHANGED <<cache, secret, job, lb, history, queued, routes>>
    BY <2>1 DEF Edit, NoCall, NoEvent
  <2>. QED
    BY <1>2, <2>2, <2>4, <2>5 DEF routes
<1>4. CASE Delete
  <2>1. UNCHANGED <<cache, secret, job, lb, history, queued, routes>> /\ server \in Gateway
    BY <1>1, <1>4 DEF Delete, MayChange, NoCall, NoEvent
  <2>2. server' = Nil \/ server' = [server EXCEPT !.deleting = TRUE]
    BY <1>4 DEF Delete
  <2>3. server' = Nil \/ (/\ server' \in Gateway /\ server'.recorded = server.recorded
                          /\ server'.certificates = server.certificates /\ server'.deleting
                          /\ server'.generation = server.generation
                          /\ server'.spec = server.spec)
    BY <2>1, <2>2 DEF Gateway
  <2>. QED
    BY <1>2, <2>1, <2>3 DEF routes
<1>5. CASE Rotate \/ DeleteSecret
  <2>1. UNCHANGED <<server, cache, job, routes, lb, history>>
    BY <1>5 DEF Rotate, DeleteSecret, NoCall
  <2>2. queued' \in BOOLEAN
    BY <1>2, <1>5 DEF Rotate, DeleteSecret, SecretEvent
  <2>3. secret' \in [version : Versions, present : BOOLEAN] /\ secret'.version >= secret.version
    <3>1. CASE Rotate
      <4>1. secret.version + 1 \in Versions /\ secret.version + 1 >= secret.version
        BY <1>2, <3>1 DEF Rotate, Versions
      <4>2. secret' = [secret EXCEPT !.version = secret.version + 1, !.present = TRUE]
        BY <3>1 DEF Rotate
      <4>. QED
        BY <1>2, <4>1, <4>2
    <3>2. CASE DeleteSecret
      BY <1>2, <3>2 DEF DeleteSecret
    <3>. QED
      BY <1>5, <3>1, <3>2
  <2>. QED
    BY <2>1, <2>2, <2>3 DEF routes
<1>6. CASE Observe
  <2>1. /\ UNCHANGED <<server, secret, job, routeRecorded, grpcJob, lb, history>>
        /\ cache' = server
        /\ routeQueued' \in {routeQueued, Grpc} /\ queued' \in BOOLEAN
    BY <1>2, <1>6 DEF Observe, NoCall
  <2>. QED
    BY <1>2, <2>1
<1>7. CASE Crash
  <2>1. /\ UNCHANGED <<server, secret, routeRecorded, lb, history>> /\ cache' = server
        /\ job' = Nil /\ grpcJob' = Nil
        /\ routeQueued' = Grpc /\ queued' \in BOOLEAN
    BY <1>7 DEF Crash, NoCall
  <2>. QED
    BY <1>2, <2>1
<1>. QED
  BY <1>3, <1>4, <1>5, <1>6, <1>7

LEMMA OthersTyped ==
  ASSUME Typed,
         (\E spec \in Specs : Edit(spec)) \/ Delete \/ Rotate \/ DeleteSecret \/ Observe \/ Crash
  PROVE  Typed'
<1>1. /\ UNCHANGED lb /\ server' \in Gateway \cup {Nil} /\ cache' \in Gateway \cup {Nil}
      /\ secret' \in [version : Versions, present : BOOLEAN]
      /\ job' \in {job, Nil} /\ grpcJob' \in GrpcJob \cup {Nil}
      /\ queued' \in BOOLEAN /\ routeQueued' \subseteq Grpc /\ routeRecorded' \subseteq Grpc
  BY OthersParts DEF Typed, TypeOK
<1>2. job' = Nil \/ (JobTyped' /\ (job'.pc \in {"certificate", "policy", "listener"} =>
                                        lb.defaultSet))
  BY <1>1 DEF JobTyped, Typed, TypeOK, DefaultSetMade, Busy
<1>. QED
  BY <1>1, <1>2, NoCallTyped


----------------------------------------------------------------------------
(* The record and what is to be deleted.                                   *)

\* The parts of the invariant that are about the worker's plan.
JobPlan == DeletesOnly /\ SnapshotShows /\ RecordGoes /\ AllGoes

Older == CacheIsOlder /\ RecordsAreOlder

Planned == Typed /\ Older /\ JobPlan

LEMMA KeepsOlder ==
  ASSUME Planned,
         \/ server' = server \/ server' = Nil
         \/ /\ server \in Gateway
            /\ server.deleting => server'.deleting
            /\ \A v \in server'.certificates : 
                 v \in server.certificates \/ (v \in Nat /\ v <= secret.version),
         cache' = cache \/ (cache' = server /\ server' = server),
         secret'.version \in Nat, secret'.version >= secret.version,
         \/ job' = Nil
         \/ job' = job
         \/ Busy /\ Same(job'.copy, job.copy) /\ job'.resolved = job.resolved
         \/ cache # Nil /\ job'.copy = cache /\ job'.resolved = secret.version
  PROVE  Older'
<1>1. secret.version \in Nat /\ (Busy => job.resolved \in Nat /\ job \in Job /\ job.copy \in Gateway)
  BY DEF Planned, Typed, TypeOK, Versions, Job
<1>2. \A g \in Gateway : \A v \in g.certificates : v \in Nat
  BY DEF Gateway, Versions
<1>3. server # Nil => cache # Nil
  BY DEF Planned, Older, CacheIsOlder
<1>4. CacheIsOlder'
  <2>1. server' # Nil => cache' # Nil
    BY <1>3
  <2>2. cache' # Nil /\ cache'.deleting => server' = Nil \/ server'.deleting
    BY DEF Planned, Older, CacheIsOlder
  <2>3. Busy' /\ job'.copy # Nil /\ job'.copy.deleting => server' = Nil \/ server'.deleting
    <3>1. Busy /\ job.copy.deleting => server = Nil \/ server.deleting
      BY <1>1 DEF Planned, Older, CacheIsOlder
    <3>2. cache # Nil /\ cache.deleting => server = Nil \/ server.deleting
      BY DEF Planned, Older, CacheIsOlder
    <3>. QED
      BY <3>1, <3>2 DEF Busy, Same
  <2>. QED
    BY <2>1, <2>2, <2>3 DEF CacheIsOlder
<1>5. RecordsAreOlder'
  <2>1. \A g \in {server, cache} \ {Nil} : \A v \in g.certificates : v \in Nat /\ v <= secret.version
    BY <1>2 DEF Planned, Older, RecordsAreOlder, Typed, TypeOK
  <2>2. server' # Nil => \A v \in server'.certificates : v <= secret'.version
    <3>1. CASE server' = server
      BY <1>1, <2>1, <3>1
    <3>2. CASE server' # server /\ server' # Nil
      <4>1. server # Nil
        BY <3>2
      <4>2. \A v \in server'.certificates : v \in Nat /\ v <= secret.version
        BY <2>1, <3>2, <4>1
      <4>. QED
        BY <1>1, <3>2, <4>2
    <3>. QED
      BY <3>1, <3>2
  <2>3. cache' # Nil => \A v \in cache'.certificates : v <= secret'.version
    BY <1>1, <2>1
  <2>4. Busy' => job'.resolved <= secret'.version
                 /\ \A v \in job'.copy.certificates : v <= job'.resolved
    <3>1. Busy => job.resolved <= secret.version /\ \A v \in job.copy.certificates : v <= job.resolved
      BY DEF Planned, Older, RecordsAreOlder
    <3>2. secret.version <= secret'.version
      BY <1>1
    <3>. QED
      BY <1>1, <2>1, <3>1, <3>2 DEF Busy, Same
  <2>. QED
    BY <2>2, <2>3, <2>4 DEF RecordsAreOlder
<1>. QED
  BY <1>4, <1>5 DEF Older

LEMMA NoJobPlan ==
  ASSUME job' = Nil
  PROVE  JobPlan'
BY DEF JobPlan, DeletesOnly, SnapshotShows, RecordGoes, AllGoes, Programming, Pruning,
  CleaningUp, Busy

\* Before the load balancer is read there is no plan.
LEMMA EarlyPlan ==
  ASSUME job'.pc \in {"accept", "pend", "protect", "read", "reject"},
         job'.copy.deleting => job'.pc = "read"
  PROVE  JobPlan'
BY DEF JobPlan, DeletesOnly, SnapshotShows, RecordGoes, AllGoes, Programming, Pruning,
  CleaningUp, Busy

\* The steps of others bring no HTTPS listener to the load balancer, and no certificate but
\* the one of the current Secret; what a TLSRoute makes in a clean-up is remade.
LEMMA FramePlan ==
  ASSUME Planned, job' = job,
         server' # Nil => server # Nil,
         \A l \in Https : lb'.listeners[l] # Nil => lb.listeners[l] # Nil,
         \A v \in lb'.certificates \ lb.certificates :
           /\ v = secret.version
           /\ server # Nil /\ server.deleting => v \in remade',
         remade \subseteq remade'
  PROVE  JobPlan'
<1>. USE DEF Planned, JobPlan
<1>1. DeletesOnly'
  BY DEF DeletesOnly, Busy
<1>2. Busy => /\ job.resolved \in Nat /\ secret.version \in Nat
              /\ job.resolved <= secret.version
              /\ job.copy \in Gateway
  BY DEF Older, RecordsAreOlder, Typed, TypeOK, Job, Versions
<1>3. Busy => \A v \in lb'.certificates : v < job.resolved => v \in lb.certificates
  BY <1>2
<1>4. SnapshotShows'
  <2> SUFFICES ASSUME Programming'
               PROVE  SnapshotShows'
    BY DEF SnapshotShows
  <2>1. Programming
    BY DEF Programming, Busy
  <2>2. Busy
    BY <2>1 DEF Programming
  <2>. QED
    BY <1>3, <2>1, <2>2 DEF SnapshotShows
<1>5. RecordGoes'
  <2> SUFFICES ASSUME Pruning'
               PROVE  RecordGoes'
    BY DEF RecordGoes
  <2>1. Pruning /\ Busy
    BY DEF Pruning, Busy
  <2>2. job.copy.recorded \subseteq Https
    BY <1>2, <2>1 DEF Gateway
  <2>3. \A l \in job.copy.recorded \ job.copy.spec : ListenerGoes(l)'
    BY <2>1, <2>2 DEF RecordGoes, ListenerGoes
  <2>4. \A v \in job.copy.certificates : v < job.resolved => CertificateGoes(v)'
    BY <1>3, <2>1 DEF RecordGoes, CertificateGoes
  <2>. QED
    BY <2>3, <2>4 DEF RecordGoes
<1>6. AllGoes'
  <2> SUFFICES ASSUME CleaningUp', server' # Nil
               PROVE  /\ job.seen \in LoadBalancer
                      /\ \A l \in Cleanup(job.copy) : ListenerGoes(l)'
                      /\ \A v \in job.copy.certificates :
                           v \notin remade' /\ v \notin UsedOutside(job.seen, Cleanup(job.copy))
                             => CertificateGoes(v)'
    BY DEF AllGoes, Cleanup, Managed, UsedOutside
  <2>1. CleaningUp /\ Busy /\ server # Nil
    BY DEF CleaningUp, Busy
  <2>2. server.deleting
    BY <1>2, <2>1 DEF Older, CacheIsOlder, CleaningUp
  <2>3. Cleanup(job.copy) \subseteq Https
    BY <1>2, <2>1 DEF Gateway, Cleanup, Managed
  <2>4. /\ job.seen \in LoadBalancer
        /\ \A l \in Cleanup(job.copy) : ListenerGoes(l)
        /\ \A v \in job.copy.certificates :
             v \notin remade /\ v \notin UsedOutside(job.seen, Cleanup(job.copy))
               => CertificateGoes(v)
    BY <2>1 DEF AllGoes
  <2>5. \A l \in Cleanup(job.copy) : ListenerGoes(l)'
    BY <2>3, <2>4 DEF ListenerGoes
  <2>6. \A v \in job.copy.certificates :
          v \notin remade' /\ v \notin UsedOutside(job.seen, Cleanup(job.copy))
            => CertificateGoes(v)'
    BY <2>1, <2>2, <2>4 DEF CertificateGoes
  <2>. QED
    BY <2>4, <2>5, <2>6
<1>. QED
  BY <1>1, <1>4, <1>5, <1>6

LEMMA TakePlan == Planned /\ Take => Older' /\ JobPlan'
<1> SUFFICES ASSUME Planned, Take PROVE Older' /\ JobPlan'
  OBVIOUS
<1>1. UNCHANGED <<server, cache, secret>> /\ secret.version \in Nat
  BY DEF Take, NoWrite, Planned, Typed, TypeOK, Versions
<1>2. \/ job' = Nil
      \/ /\ cache # Nil /\ job'.copy = cache /\ job'.resolved = secret.version
         /\ job'.pc \in {"read", "accept", "reject"} /\ (cache.deleting => job'.pc = "read")
  BY DEF Take
<1>3. Older'
  BY <1>1, <1>2, KeepsOlder
<1>4. JobPlan'
  BY <1>2, NoJobPlan, EarlyPlan
<1>. QED
  BY <1>3, <1>4

LEMMA BeginPlan ==
  ASSUME Planned, Accept \/ CheckProgrammed \/ MarkPending \/ Protect \/ Report
  PROVE  Older' /\ JobPlan'
<1>1. /\ Busy /\ job \in Job /\ UNCHANGED <<cache, secret, lb, queued, routes, history>>
      /\ \/ UNCHANGED server
         \/ server \in Gateway /\ server' \in Gateway /\ Same(server', server)
  BY BeginParts DEF Planned
<1>2. \/ job' = Nil
      \/ /\ <<job.pc, job'.pc>> \in Begins
         /\ Same(job'.copy, job.copy) /\ job'.resolved = job.resolved /\ job'.gone = job.gone
  <2>1. CASE job' # Nil
    <3>1. <<job.pc, job'.pc>> \in Begins
      BY <2>1, BeginParts DEF Planned
    <3>2. PICK c \in Gateway : Same(c, job.copy) /\ job' = [job EXCEPT !.pc = job'.pc, !.copy = c]
      BY <2>1, BeginParts DEF Planned
    <3>3. job'.copy = c /\ job'.resolved = job.resolved /\ job'.gone = job.gone
      BY <1>1, <3>2 DEF Job
    <3>. QED
      BY <3>1, <3>2, <3>3
  <2>. QED
    BY <2>1
<1>3. Older'
  <2>1. secret'.version \in Nat /\ secret'.version >= secret.version
    BY <1>1 DEF Planned, Typed, TypeOK, Versions
  <2>. QED
    BY <1>1, <1>2, <2>1, KeepsOlder DEF Same
<1>4. JobPlan'
  <2>1. CASE job' = Nil
    BY <2>1, NoJobPlan
  <2>2. CASE job' # Nil /\ job.pc # "report"
    <3>1. job'.pc \in {"pend", "protect", "read"} /\ ~job.copy.deleting
      BY <1>1, <1>2, <2>2 DEF Begins, Planned, JobPlan, DeletesOnly
    <3>. QED
      BY <1>2, <2>2, <3>1, EarlyPlan DEF Same
  <2>3. CASE job' # Nil /\ job.pc = "report"
    <3>1. job'.pc = "record" /\ ~job.copy.deleting /\ ~job'.copy.deleting
      BY <1>1, <1>2, <2>3 DEF Begins, Planned, JobPlan, DeletesOnly, Same
    <3>2. DeletesOnly' /\ SnapshotShows' /\ AllGoes'
      BY <3>1 DEF DeletesOnly, SnapshotShows, AllGoes, Programming, CleaningUp
    <3>3. RecordGoes'
      BY <1>1, <1>2, <2>3, <3>1 DEF Planned, JobPlan, RecordGoes, Pruning, ListenerGoes,
        CertificateGoes, Same
    <3>. QED
      BY <3>2, <3>3 DEF JobPlan
  <2>. QED
    BY <2>1, <2>2, <2>3
<1>. QED
  BY <1>3, <1>4


\* What the snapshot and the record say of the deletions.
LEMMA MissingSays ==
  ASSUME NEW seen, NEW names, NEW spec, NEW l \in names \ spec, seen.listeners[l] # Nil
  PROVE  [kind |-> "listener", of |-> l] \in Missing(seen, names, spec)
BY DEF Missing

LEMMA UnusedSays ==
  ASSUME NEW g, NEW seen, NEW wanted,
         NEW v \in (g.certificates \cap seen.certificates) \ wanted
  PROVE  [kind |-> "certificate", of |-> v] \in Unused(g, seen, wanted)
BY DEF Unused

LEMMA ReadPlan == Planned /\ ReadLoadBalancer => Older' /\ JobPlan'
<1> SUFFICES ASSUME Planned, ReadLoadBalancer PROVE Older' /\ JobPlan'
  OBVIOUS
<1>1. /\ Busy /\ job \in Job /\ UNCHANGED <<server, cache, secret>>
      /\ job' \in Job /\ job'.copy = job.copy /\ job'.resolved = job.resolved /\ job'.seen = lb
      /\ lb'.listeners = lb.listeners /\ lb'.certificates = lb.certificates
      /\ lb \in LoadBalancer /\ job.copy \in Gateway
  BY ReadParts DEF Planned, Typed, TypeOK, Job
<1>2. Older'
  <2>1. secret'.version \in Nat /\ secret'.version >= secret.version
    BY <1>1 DEF Planned, Typed, TypeOK, Versions
  <2>. QED
    BY <1>1, <2>1, KeepsOlder DEF Same
<1>3. CASE job.copy.deleting
  <2>1. lb' = lb /\ job'.gone = Everything(job.copy, lb) /\ job'.pc \in {"delete", "release"}
    BY <1>3, ReadParts DEF Planned
  <2>2. DeletesOnly' /\ SnapshotShows' /\ RecordGoes'
    BY <1>1, <1>3, <2>1 DEF DeletesOnly, SnapshotShows, RecordGoes, Programming, Pruning
  <2>3. \A l \in Cleanup(job.copy) : ListenerGoes(l)'
    <3>1. \A l \in Cleanup(job.copy) : lb.listeners[l] # Nil =>
            [kind |-> "listener", of |-> l] \in Missing(lb, Cleanup(job.copy), {})
      BY MissingSays
    <3>. QED
      BY <2>1, <3>1 DEF ListenerGoes, Everything
  <2>4. \A v \in job.copy.certificates :
          v \notin UsedOutside(lb, Cleanup(job.copy)) => CertificateGoes(v)'
    <3>1. \A v \in job.copy.certificates :
            v \notin UsedOutside(lb, Cleanup(job.copy)) /\ v \in lb.certificates =>
              [kind |-> "certificate", of |-> v]
                \in Unused(job.copy, lb, UsedOutside(lb, Cleanup(job.copy)))
      BY UnusedSays
    <3>. QED
      BY <2>1, <3>1 DEF CertificateGoes, Everything
  <2>5. AllGoes'
    BY <1>1, <2>3, <2>4 DEF AllGoes, Cleanup, Managed, UsedOutside
  <2>. QED
    BY <1>2, <2>2, <2>5 DEF JobPlan
<1>4. CASE ~job.copy.deleting
  <2>1. job'.pc = "certificate"
    BY <1>4, ReadParts DEF Planned
  <2>2. DeletesOnly' /\ SnapshotShows' /\ RecordGoes' /\ AllGoes'
    BY <1>1, <1>4, <2>1 DEF DeletesOnly, SnapshotShows, RecordGoes, AllGoes, Programming,
      Pruning, CleaningUp
  <2>. QED
    BY <1>2, <2>2 DEF JobPlan
<1>. QED
  BY <1>3, <1>4

\* The steps that program the listeners keep to the listeners of the specification.
LEMMA ProgramPlan ==
  ASSUME Planned,
         EnsureCertificate \/ \E l \in Https : EnsurePolicy(l) \/ WriteListener(l)
  PROVE  Older' /\ JobPlan'
<1>1. /\ Busy /\ job \in Job /\ UNCHANGED <<server, cache, secret>>
      /\ job.pc \in {"certificate", "policy", "listener"}
      /\ job'.pc \in {"policy", "listener"}
      /\ job'.copy = job.copy /\ job'.resolved = job.resolved /\ job'.seen = job.seen
  BY EnsureCertificateParts, EnsurePolicyParts, WriteParts DEF Planned
<1>2. /\ job.resolved \in Nat /\ secret.version \in Nat /\ job.resolved <= secret.version
  BY <1>1 DEF Planned, Older, RecordsAreOlder, Typed, TypeOK, Job, Versions
<1>3. Older'
  BY <1>1, <1>2, KeepsOlder DEF Same
<1>4. ~job.copy.deleting /\ Programming
  BY <1>1 DEF Planned, JobPlan, DeletesOnly, Programming
<1>5. DeletesOnly' /\ RecordGoes' /\ AllGoes'
  BY <1>1, <1>4 DEF DeletesOnly, RecordGoes, AllGoes, Pruning, CleaningUp
<1>6. /\ job.seen \in LoadBalancer
      /\ \A l \in Https \ job.copy.spec : lb.listeners[l] # Nil => job.seen.listeners[l] # Nil
      /\ \A v \in lb.certificates : v < job.resolved => v \in job.seen.certificates
      /\ job.pc # "certificate" => job.used >= job.resolved /\ job.todo \subseteq job.copy.spec
  BY <1>4 DEF Planned, JobPlan, SnapshotShows
<1>7. /\ \A l \in Https \ job.copy.spec : lb'.listeners[l] = lb.listeners[l]
      /\ lb'.certificates = lb.certificates
         \/ lb'.certificates = lb.certificates \cup {secret.version}
      /\ job'.used >= job.resolved /\ job'.todo \subseteq job.copy.spec
  <2>1. CASE EnsureCertificate
    BY <1>2, <2>1, EnsureCertificateParts DEF Planned, Managed
  <2>2. ASSUME NEW l \in Https, EnsurePolicy(l)
        PROVE  /\ lb'.listeners = lb.listeners /\ lb'.certificates = lb.certificates
               /\ job'.used >= job.resolved /\ job'.todo \subseteq job.copy.spec
    BY <1>6, <2>2, EnsurePolicyParts DEF Planned
  <2>3. ASSUME NEW l \in Https, WriteListener(l)
        PROVE  /\ \A k \in Https \ job.copy.spec : lb'.listeners[k] = lb.listeners[k]
               /\ lb'.certificates = lb.certificates
               /\ job'.used >= job.resolved /\ job'.todo \subseteq job.copy.spec
    <3>1. /\ l \in job.todo /\ job.pc = "listener"
          /\ job'.used = job.used /\ job'.todo = job.todo \ {l}
      BY <2>3, WriteParts DEF Planned
    <3>2. l \in job.copy.spec
      BY <1>6, <3>1
    <3>3. /\ \A k \in Names : k # l => lb'.listeners[k] = lb.listeners[k]
          /\ lb'.certificates = lb.certificates
      BY <2>3, WriteParts DEF Planned
    <3>. QED
      BY <1>6, <3>1, <3>2, <3>3 DEF Names
  <2>. QED
    BY <2>1, <2>2, <2>3
<1>8. \A v \in lb'.certificates : v < job.resolved => v \in lb.certificates
  BY <1>2, <1>7
<1>9. SnapshotShows'
  BY <1>1, <1>6, <1>7, <1>8 DEF SnapshotShows
<1>. QED
  BY <1>3, <1>5, <1>9 DEF JobPlan

LEMMA ListenersWrittenPlan == Planned /\ ListenersWritten => Older' /\ JobPlan'
<1> SUFFICES ASSUME Planned, ListenersWritten PROVE Older' /\ JobPlan'
  OBVIOUS
<1>1. Programming /\ Busy /\ job.pc = "policy" /\ job \in Job
  BY DEF ListenersWritten, At, Programming, Planned, Typed, TypeOK
<1>2. /\ job.seen \in LoadBalancer
      /\ \A l \in Https \ job.copy.spec : lb.listeners[l] # Nil => job.seen.listeners[l] # Nil
      /\ \A v \in lb.certificates : v < job.resolved => v \in job.seen.certificates
      /\ job.used >= job.resolved
  BY <1>1 DEF Planned, JobPlan, SnapshotShows
<1>3. ~job.copy.deleting
  BY <1>1 DEF Planned, JobPlan, DeletesOnly
<1>4. /\ UNCHANGED <<server, cache, secret, lb>>
      /\ job'.copy = job.copy /\ job'.resolved = job.resolved
      /\ job'.gone = Missing(job.seen, Cleanup(job.copy), job.copy.spec)
                     \cup Unused(job.copy, job.seen, {job.used})
      /\ job'.pc \in {"delete", "report"}
  BY <1>2, <1>3, ListenersWrittenParts DEF Planned
<1>5. /\ job.resolved \in Nat /\ job.used \in Nat /\ secret.version \in Nat
      /\ job.copy \in Gateway
  BY <1>1 DEF Planned, Typed, TypeOK, Job, Versions
<1>6. Older'
  BY <1>1, <1>4, <1>5, KeepsOlder DEF Same
<1>7. DeletesOnly' /\ SnapshotShows' /\ AllGoes'
  BY <1>3, <1>4 DEF DeletesOnly, SnapshotShows, AllGoes, Programming, CleaningUp
<1>8. \A l \in job.copy.recorded \ job.copy.spec : ListenerGoes(l)'
  <2> SUFFICES ASSUME NEW l \in job.copy.recorded \ job.copy.spec, lb.listeners[l] # Nil
               PROVE  [kind |-> "listener", of |-> l] \in job'.gone
    BY <1>4 DEF ListenerGoes
  <2>1. l \in Https /\ l \in Cleanup(job.copy) \ job.copy.spec
    BY <1>5 DEF Gateway, Cleanup
  <2>. QED
    BY <1>2, <1>4, <2>1, MissingSays
<1>9. \A v \in job.copy.certificates : v < job.resolved => CertificateGoes(v)'
  <2> SUFFICES ASSUME NEW v \in job.copy.certificates, v < job.resolved, v \in lb.certificates
               PROVE  [kind |-> "certificate", of |-> v] \in job'.gone
    BY <1>4 DEF CertificateGoes
  <2>1. v \in Nat
    BY <1>5 DEF Gateway, Versions
  <2>2. v # job.used /\ v \in job.seen.certificates
    BY <1>2, <1>5, <2>1
  <2>. QED
    BY <1>4, <2>2, UnusedSays
<1>10. RecordGoes'
  BY <1>4, <1>8, <1>9 DEF RecordGoes
<1>. QED
  BY <1>6, <1>7, <1>10 DEF JobPlan

LEMMA DeleteNextPlan ==
  ASSUME Planned, NEW x \in Deletion, DeleteNext(x)
  PROVE  Older' /\ JobPlan'
<1>1. /\ Busy /\ job \in Job /\ job.pc = "delete" /\ UNCHANGED <<server, cache, secret, remade>>
      /\ job'.copy = job.copy /\ job'.resolved = job.resolved
      /\ job'.seen = job.seen /\ job'.gone = job.gone \ {x}
      /\ job.copy \in Gateway
  BY DeleteNextParts DEF Planned, Job
<1>2. job'.pc \in {"delete"} \cup {IF job.copy.deleting THEN "release" ELSE "report"}
  BY DeleteNextParts DEF Planned
<1>3. Older'
  <2>1. secret'.version \in Nat /\ secret'.version >= secret.version
    BY <1>1 DEF Planned, Typed, TypeOK, Versions
  <2>. QED
    BY <1>1, <2>1, KeepsOlder DEF Same
<1>4. DeletesOnly' /\ SnapshotShows'
  BY <1>1, <1>2 DEF DeletesOnly, SnapshotShows, Programming
<1>5. \A l \in Names : ListenerGoes(l) => ListenerGoes(l)'
  <2>0. \A l \in Names : lb'.listeners[l] =
          IF x.kind = "listener" /\ x.of = l THEN Nil ELSE lb.listeners[l]
    BY DeleteNextParts DEF Planned
  <2> SUFFICES ASSUME NEW l \in Names, ListenerGoes(l), lb'.listeners[l] # Nil
               PROVE  [kind |-> "listener", of |-> l] \in job'.gone
    BY DEF ListenerGoes
  <2>1. lb.listeners[l] # Nil /\ ~(x.kind = "listener" /\ x.of = l)
    BY <2>0
  <2>2. x # [kind |-> "listener", of |-> l]
    BY <2>1
  <2>. QED
    BY <1>1, <2>1, <2>2 DEF ListenerGoes
<1>6. \A v \in Versions : CertificateGoes(v) => CertificateGoes(v)'
  <2> SUFFICES ASSUME NEW v \in Versions, CertificateGoes(v), v \in lb'.certificates
               PROVE  [kind |-> "certificate", of |-> v] \in job'.gone
    BY DEF CertificateGoes
  <2>1. v \in lb.certificates /\ ~(x.kind = "certificate" /\ x.of = v)
    <3>1. lb'.certificates =
            IF x.kind = "certificate" THEN lb.certificates \ {x.of} ELSE lb.certificates
      BY DeleteNextParts DEF Planned
    <3>. QED
      BY <3>1
  <2>2. x # [kind |-> "certificate", of |-> v]
    BY <2>1
  <2>. QED
    BY <1>1, <2>1, <2>2 DEF CertificateGoes
<1>7. /\ job.copy.recorded \subseteq Names /\ Cleanup(job.copy) \subseteq Names
      /\ job.copy.certificates \subseteq Versions
  BY <1>1 DEF Gateway, Cleanup, Managed, Names
<1>8. RecordGoes'
  <2> SUFFICES ASSUME Pruning' PROVE RecordGoes'
    BY DEF RecordGoes
  <2>1. Pruning
    BY <1>1 DEF Pruning
  <2>. QED
    BY <1>1, <1>5, <1>6, <1>7, <2>1 DEF RecordGoes, Planned, JobPlan
<1>9. AllGoes'
  <2> SUFFICES ASSUME CleaningUp', server' # Nil
               PROVE  /\ job.seen \in LoadBalancer
                      /\ \A l \in Cleanup(job.copy) : ListenerGoes(l)'
                      /\ \A v \in job.copy.certificates :
                           v \notin remade /\ v \notin UsedOutside(job.seen, Cleanup(job.copy))
                             => CertificateGoes(v)'
    BY <1>1 DEF AllGoes, Cleanup, Managed, UsedOutside
  <2>1. CleaningUp /\ server # Nil
    BY <1>1 DEF CleaningUp
  <2>. QED
    BY <1>5, <1>6, <1>7, <2>1 DEF AllGoes, Planned, JobPlan
<1>. QED
  BY <1>3, <1>4, <1>8, <1>9 DEF JobPlan

LEMMA EndPlan ==
  ASSUME Planned, Record \/ Reject \/ RemoveFinalizer \/ Fail
  PROVE  Older' /\ JobPlan'
<1>1. job' = Nil /\ UNCHANGED <<cache, secret>>
  BY DEF Record, Reject, RemoveFinalizer, Fail, Finish, Update, NoWrite
<1>2. \/ server' = server \/ server' = Nil
      \/ /\ server \in Gateway
         /\ server.deleting => server'.deleting
         /\ \A v \in server'.certificates :
              v \in server.certificates \/ (v \in Nat /\ v <= secret.version)
  <2>1. CASE Record \/ Reject
    <3>1. Busy /\ job.resolved \in Nat /\ job.resolved <= secret.version
      BY <2>1, LastParts DEF Planned, Older, RecordsAreOlder, Job, Versions
    <3>. QED
      BY <2>1, <3>1, LastParts DEF Planned
  <2>2. CASE RemoveFinalizer \/ Fail
    BY <2>2 DEF RemoveFinalizer, Fail, NoWrite
  <2>. QED
    BY <2>1, <2>2
<1>3. secret'.version \in Nat /\ secret'.version >= secret.version
  BY <1>1 DEF Planned, Typed, TypeOK, Versions
<1>. QED
  BY <1>1, <1>2, <1>3, KeepsOlder, NoJobPlan

LEMMA RoutesPlan ==
  ASSUME Planned, GrpcStep \/ GrpcFail \/ TlsStep
  PROVE  Older' /\ JobPlan'
<1>1. UNCHANGED <<server, cache, secret, job>>
  BY DEF GrpcStep, GrpcRead, GrpcWrite, GrpcPend, GrpcCommit, GrpcRecord, GrpcFail, TlsStep,
    TlsWrite, TlsDelete, NoWrite
<1>2. Older'
  <2>1. secret'.version \in Nat /\ secret'.version >= secret.version
    BY <1>1 DEF Planned, Typed, TypeOK, Versions
  <2>. QED
    BY <1>1, <2>1, KeepsOlder
<1>3. CASE GrpcStep \/ GrpcFail
  <2>1. /\ \A l \in Names : lb'.listeners[l] # Nil => lb.listeners[l] # Nil
        /\ lb'.certificates = lb.certificates /\ remade' = remade
    <3>1. ASSUME NEW l \in Grpc, GrpcRead(l) PROVE UNCHANGED <<lb, remade>>
      BY <3>1 DEF GrpcRead, NoCall, history
    <3>2. CASE GrpcWrite
      BY <3>2, GrpcWriteParts DEF Planned
    <3>3. CASE GrpcPend \/ GrpcCommit \/ GrpcRecord \/ GrpcFail
      BY <3>3, GrpcEndParts DEF Planned, history
    <3>. QED
      BY <1>3, <3>1, <3>2, <3>3 DEF GrpcStep
  <2>. QED
    BY <1>1, <1>2, <2>1, FramePlan DEF Names
<1>4. CASE TlsStep
  <2>1. PICK l \in Tls : TlsWrite(l) \/ TlsDelete(l)
    BY <1>4 DEF TlsStep
  <2>2. \A k \in Https : lb'.listeners[k] = lb.listeners[k]
    BY <2>1, TlsParts DEF Planned, Names
  <2>3. /\ \A v \in lb'.certificates \ lb.certificates :
             v = secret.version /\ (server # Nil /\ server.deleting => v \in remade')
        /\ remade \subseteq remade'
    BY <2>1, TlsParts DEF Planned, history
  <2>. QED
    BY <1>1, <1>2, <2>2, <2>3, FramePlan
<1>. QED
  BY <1>3, <1>4

LEMMA OthersPlan ==
  ASSUME Planned,
         (\E spec \in Specs : Edit(spec)) \/ Delete \/ Rotate \/ DeleteSecret \/ Observe \/ Crash
  PROVE  Older' /\ JobPlan'
<1>1. /\ UNCHANGED <<lb, remade>> /\ job' \in {job, Nil}
      /\ server' # Nil => server # Nil
    BY OthersParts DEF Planned, history
<1>2. Older'
  <2>1. secret'.version \in Nat /\ secret'.version >= secret.version
    BY OthersParts DEF Planned, Versions
  <2>2. \/ server' = server \/ server' = Nil
        \/ /\ server \in Gateway
           /\ server.deleting => server'.deleting
           /\ server'.certificates = server.certificates
    BY OthersParts DEF Planned
  <2>3. cache' = cache \/ (cache' = server /\ server' = server)
    BY OthersParts DEF Planned
  <2>. QED
    BY <1>1, <2>1, <2>2, <2>3, KeepsOlder
<1>3. JobPlan'
  <2>1. CASE job' = Nil
    BY <2>1, NoJobPlan
  <2>2. CASE job' = job
    BY <1>1, <2>2, FramePlan
  <2>. QED
    BY <1>1, <2>1, <2>2
<1>. QED
  BY <1>2, <1>3

LEMMA InitPlanned == Init => Planned
<1> SUFFICES ASSUME Init PROVE Planned
  OBVIOUS
<1>1. Typed
  BY InitTyped
<1>2. ~Busy /\ cache = server /\ server.certificates = {}
  BY DEF Init, New, Busy
<1>3. Older
  BY <1>2 DEF Older, CacheIsOlder, RecordsAreOlder
<1>4. JobPlan
  BY <1>2 DEF JobPlan, DeletesOnly, SnapshotShows, RecordGoes, AllGoes, Programming, Pruning,
    CleaningUp
<1>. QED
  BY <1>1, <1>3, <1>4 DEF Planned

LEMMA NextPlanned == Planned /\ [Next]_vars => Planned'
<1> SUFFICES ASSUME Planned, [Next]_vars PROVE Planned'
  OBVIOUS
<1>. USE DEF Planned
<1>1. CASE Take
  BY <1>1, TakeTyped, TakePlan
<1>2. CASE Accept \/ CheckProgrammed \/ MarkPending \/ Protect \/ Report
  BY <1>2, BeginTyped, BeginPlan
<1>3. CASE ReadLoadBalancer
  BY <1>3, ReadTyped, ReadPlan
<1>4. CASE EnsureCertificate \/ \E l \in Https : EnsurePolicy(l) \/ WriteListener(l)
  BY <1>4, EnsureCertificateTyped, EnsurePolicyTyped, WriteTyped, ProgramPlan
<1>5. CASE ListenersWritten
  <2>1. job.seen \in LoadBalancer
    BY <1>5 DEF ListenersWritten, At, JobPlan, SnapshotShows, Programming
  <2>. QED
    BY <1>5, <2>1, ListenersWrittenTyped, ListenersWrittenPlan
<1>6. CASE \E x \in Deletion : DeleteNext(x)
  BY <1>6, DeleteNextTyped, DeleteNextPlan
<1>7. CASE Record \/ Reject \/ RemoveFinalizer \/ Fail
  BY <1>7, LastTyped, EndPlan
<1>8. CASE GrpcStep \/ GrpcFail \/ TlsStep
  BY <1>8, RoutesTyped, RoutesPlan
<1>9. CASE (\E spec \in Specs : Edit(spec)) \/ Delete \/ Rotate \/ DeleteSecret \/ Observe \/ Crash
  BY <1>9, OthersTyped, OthersPlan
<1>10. CASE UNCHANGED vars
  <2>1. UNCHANGED <<server, cache, secret, lb, queued, job, routes, remade>>
    BY <1>10 DEF vars, history
  <2>2. Typed'
    BY <2>1 DEF Typed, TypeOK, DefaultSetMade, Busy, routes
  <2>3. Older'
    BY <2>1 DEF Older, CacheIsOlder, RecordsAreOlder, Busy
  <2>4. JobPlan'
    BY <2>1, FramePlan
  <2>. QED
    BY <2>2, <2>3, <2>4
<1>. QED
  BY <1>1, <1>2, <1>3, <1>4, <1>5, <1>6, <1>7, <1>8, <1>9, <1>10 DEF Next, Step

LEMMA AlwaysPlanned == Spec => []Planned
BY InitPlanned, NextPlanned, PTL DEF Spec

\* The types of the variables, and what OCI guarantees of its listeners.
THEOREM TypeCorrect == Spec => []TypeOK
<1>1. Planned => TypeOK
  BY DEF Planned, Typed
<1>. QED
  BY <1>1, AlwaysPlanned, PTL


----------------------------------------------------------------------------
(* Nothing is left behind, and nothing forgotten.                          *)

\* Who writes the Gateway, and what becomes of the record.
LEMMA ServerParts ==
  ASSUME Planned, [Next]_vars
  PROVE  \/ UNCHANGED server
         \/ server # Nil /\ server' # Nil /\ server'.recorded = server.recorded
                                         /\ server'.certificates = server.certificates
         \/ Record
         \/ RemoveFinalizer \/ (Delete /\ ~server.finalizer)
<1>1. CASE Accept \/ CheckProgrammed \/ MarkPending \/ Protect \/ Report
  BY <1>1, BeginParts DEF Planned, Same
<1>2. CASE Reject
  <2>1. server \in Gateway /\ server' \in Gateway
    BY <1>2, LastParts DEF Planned
  <2>2. server' = [server EXCEPT !.accepted = 0]
    BY <1>2 DEF Reject, Update
  <2>3. server'.recorded = server.recorded /\ server'.certificates = server.certificates
    BY <2>1, <2>2 DEF Gateway
  <2>. QED
    BY <2>1, <2>3
<1>3. CASE (\E spec \in Specs : Edit(spec)) \/ Rotate \/ DeleteSecret \/ Observe \/ Crash
  <2>1. server' # Nil \/ UNCHANGED server
    <3>1. ASSUME NEW spec \in Specs, Edit(spec) PROVE server' # Nil
      <4>1. /\ server \in Gateway /\ server.generation + 1 \in Generations
            /\ spec \in SUBSET Names
        BY <3>1 DEF Edit, MayChange, Planned, Typed, TypeOK, Gateway, Generations
      <4>2. server' = [server EXCEPT !.spec = spec, !.generation = server.generation + 1]
        BY <3>1 DEF Edit
      <4>3. server' \in Gateway
        BY <4>1, <4>2 DEF Gateway
      <4>. QED
        BY <4>3
    <3>. QED
      BY <1>3, <3>1 DEF Rotate, DeleteSecret, Observe, Crash
  <2>. QED
    BY <1>3, <2>1, OthersParts DEF Planned
<1>4. CASE Delete
  <2>1. server' # Nil \/ ~server.finalizer
    <3>1. CASE server.finalizer
      <4>1. server' = [server EXCEPT !.deleting = TRUE] /\ server \in Gateway
        BY <1>4, <3>1 DEF Delete, MayChange, Planned, Typed, TypeOK
      <4>2. server' \in Gateway
        BY <4>1 DEF Gateway
      <4>. QED
        BY <4>2
    <3>. QED
      BY <3>1
  <2>. QED
    BY <1>4, <2>1, OthersParts DEF Planned
<1>5. UNCHANGED server \/ Record \/ RemoveFinalizer
      \/ Accept \/ CheckProgrammed \/ MarkPending \/ Protect \/ Report
      \/ Reject \/ (\E spec \in Specs : Edit(spec)) \/ Delete
  BY DEF Next, Step, Take, ReadLoadBalancer, EnsureCertificate, EnsurePolicy, WriteListener,
    ListenersWritten, DeleteNext, Fail, GrpcStep, GrpcRead, GrpcWrite, GrpcPend, GrpcCommit,
    GrpcRecord, GrpcFail,
    TlsStep, TlsWrite, TlsDelete, Rotate, DeleteSecret, Observe, Crash, NoWrite, vars
<1>. QED
  BY <1>1, <1>2, <1>3, <1>4, <1>5

\* The step of ReleasedMeansDeleted.
ReleasesDeleted ==
  server # Nil /\ server' = Nil /\ server.finalizer =>
    /\ \A l \in server.recorded \cup Managed(server.spec) : lb.listeners[l] = Nil
    /\ \A v \in (server.certificates \cap lb.certificates) \ remade :
         \E l \in Names \ (server.recorded \cup Managed(server.spec)) :
           job.seen.listeners[l] # Nil /\ job.seen.listeners[l].certificate = v

LEMMA ReleaseDeletes == Planned /\ [Next]_vars => ReleasesDeleted
<1> SUFFICES ASSUME Planned, [Next]_vars, server # Nil, server' = Nil, server.finalizer
             PROVE  /\ \A l \in server.recorded \cup Managed(server.spec) : lb.listeners[l] = Nil
                    /\ \A v \in (server.certificates \cap lb.certificates) \ remade :
                         \E l \in Names \ (server.recorded \cup Managed(server.spec)) :
                           job.seen.listeners[l] # Nil /\ job.seen.listeners[l].certificate = v
  BY DEF ReleasesDeleted
<1>1. RemoveFinalizer
  <2>1. CASE Record
    <3>1. server' \in Gateway
      BY <2>1, LastParts DEF Planned
    <3>. QED
      BY <3>1
  <2>. QED
    BY <2>1, ServerParts
<1>2. Busy /\ job.pc = "release" /\ server = job.copy /\ job.gone = {}
  BY <1>1 DEF RemoveFinalizer, At, Planned, Typed, TypeOK
<1>3. CleaningUp
  BY <1>2 DEF CleaningUp, Planned, JobPlan, DeletesOnly
<1>4. /\ \A l \in Cleanup(server) : lb.listeners[l] = Nil
      /\ \A v \in server.certificates :
           v \notin remade /\ v \notin UsedOutside(job.seen, Cleanup(server))
             => v \notin lb.certificates
  BY <1>2, <1>3 DEF Planned, JobPlan, AllGoes, ListenerGoes, CertificateGoes
<1>5. Cleanup(server) = server.recorded \cup Managed(server.spec)
  BY DEF Cleanup
<1>6. \A v \in UsedOutside(job.seen, Cleanup(server)) : \E l \in Names \ Cleanup(server) :
        job.seen.listeners[l] # Nil /\ job.seen.listeners[l].certificate = v
  BY DEF UsedOutside
<1>. QED
  BY <1>4, <1>5, <1>6

\* A Gateway that loses its finalizer leaves no HTTPS listener behind, and of the
\* certificates on record only those that another listener used or a TLSRoute has remade.
THEOREM ReleasedMeansDeletedHolds == Spec => ReleasedMeansDeleted
<1>1. Planned /\ [Next]_vars => [ReleasesDeleted]_vars
  BY ReleaseDeletes
<1>2. Spec => [][ReleasesDeleted]_vars
  BY <1>1, AlwaysPlanned, PTL DEF Spec
<1>. QED
  BY <1>2 DEF ReleasedMeansDeleted, ReleasesDeleted

\* The step of RecordKeepsWhatIsThere.
DropsNothing ==
  server # Nil /\ server' # Nil =>
    /\ \A v \in server.certificates \ server'.certificates :
         v \in lb.certificates => v \notin job.copy.certificates
    /\ \A l \in server.recorded \ server'.recorded :
         lb.listeners[l] # Nil => l \notin job.copy.recorded

LEMMA RecordKeeps == Planned /\ [Next]_vars => DropsNothing
<1> SUFFICES ASSUME Planned, [Next]_vars, server # Nil, server' # Nil
             PROVE  /\ \A v \in server.certificates \ server'.certificates :
                         v \in lb.certificates => v \notin job.copy.certificates
                    /\ \A l \in server.recorded \ server'.recorded :
                         lb.listeners[l] # Nil => l \notin job.copy.recorded
  BY DEF DropsNothing
<1>1. CASE Record
  <2>1. /\ Busy /\ job \in Job /\ job.pc = "record" /\ job.gone = {} /\ server \in Gateway
        /\ job.copy \in Gateway
    BY <1>1 DEF Record, Update, Current, At, Planned, Typed, TypeOK, Job
  <2>2. Pruning
    BY <2>1 DEF Pruning, Planned, JobPlan, DeletesOnly
  <2>3. server'.recorded = Managed(job.copy.spec) /\ server'.certificates = {job.resolved}
    <3>1. server' = [server EXCEPT !.finalizer = TRUE, !.recorded = Managed(job.copy.spec),
                       !.certificates = {job.resolved}]
      BY <1>1 DEF Record, Update
    <3>. QED
      BY <2>1, <3>1 DEF Gateway
  <2>4. ASSUME NEW v \in job.copy.certificates, v # job.resolved
        PROVE  v \notin lb.certificates
    <3>1. v <= job.resolved /\ v \in Nat /\ job.resolved \in Nat
      BY <2>1 DEF Planned, Older, RecordsAreOlder, Gateway, Job, Versions
    <3>. QED
      BY <2>1, <2>2, <2>4, <3>1 DEF Planned, JobPlan, RecordGoes, CertificateGoes
  <2>5. ASSUME NEW l \in job.copy.recorded, l \notin Managed(job.copy.spec)
        PROVE  lb.listeners[l] = Nil
    <3>1. l \in job.copy.recorded \ job.copy.spec
      BY <2>1, <2>5 DEF Gateway, Managed
    <3>. QED
      BY <2>1, <2>2, <3>1 DEF Planned, JobPlan, RecordGoes, ListenerGoes
  <2>. QED
    BY <2>3, <2>4, <2>5
<1>2. CASE ~Record
  <2>1. server'.recorded = server.recorded /\ server'.certificates = server.certificates
    <3>1. ~RemoveFinalizer /\ ~(Delete /\ ~server.finalizer)
      BY DEF RemoveFinalizer, Delete
    <3>. QED
      BY <1>2, <3>1, ServerParts
  <2>. QED
    BY <2>1
<1>. QED
  BY <1>1, <1>2

\* A report never drops from the record a listener or a certificate that is still on the
\* load balancer, but for one that its reconcile did not know.
THEOREM RecordKeepsWhatIsThereHolds == Spec => RecordKeepsWhatIsThere
<1>1. Planned /\ [Next]_vars => [DropsNothing]_vars
  BY RecordKeeps
<1>2. Spec => [][DropsNothing]_vars
  BY <1>1, AlwaysPlanned, PTL DEF Spec
<1>. QED
  BY <1>2 DEF RecordKeepsWhatIsThere, DropsNothing

----------------------------------------------------------------------------
(* Listeners with a GRPCRoute.                                             *)

Serving == SpecOfGeneration /\ GrpcKept /\ RulesKept

LEMMA KeepsSpecs ==
  ASSUME Planned, SpecOfGeneration,
         \/ server' = server \/ server' = Nil
         \/ server \in Gateway /\ server'.generation = server.generation + 1
         \/ server \in Gateway /\ server'.generation = server.generation
                                /\ server'.spec = server.spec,
         cache' = cache \/ (cache' = server /\ server' = server)
  PROVE  SpecOfGeneration'
<1>1. \A g \in {server, cache} \ {Nil} : g.generation \in Nat /\ g.generation <= g.generation
  BY DEF Planned, Typed, TypeOK, Gateway, Generations
<1>2. server' # Nil => server # Nil
  OBVIOUS
<1>. QED
  BY <1>1, <1>2 DEF SpecOfGeneration

LEMMA NextSpecs == Planned /\ SpecOfGeneration /\ [Next]_vars => SpecOfGeneration'
<1> SUFFICES ASSUME Planned, SpecOfGeneration, [Next]_vars PROVE SpecOfGeneration'
  OBVIOUS
<1>1. CASE Accept \/ CheckProgrammed \/ MarkPending \/ Protect \/ Report
  BY <1>1, BeginParts, KeepsSpecs DEF Planned, Same
<1>2. CASE Record \/ Reject
  BY <1>2, LastParts, KeepsSpecs DEF Planned
<1>3. CASE (\E spec \in Specs : Edit(spec)) \/ Delete \/ Rotate \/ DeleteSecret \/ Observe \/ Crash
  BY <1>3, OthersParts, KeepsSpecs DEF Planned
<1>4. CASE RemoveFinalizer
  BY <1>4, KeepsSpecs DEF RemoveFinalizer
<1>5. CASE UNCHANGED <<server, cache>>
  BY <1>5, KeepsSpecs
<1>6. UNCHANGED <<server, cache>> \/ Record \/ RemoveFinalizer
      \/ Accept \/ CheckProgrammed \/ MarkPending \/ Protect \/ Report
      \/ Reject \/ (\E spec \in Specs : Edit(spec)) \/ Delete \/ Rotate \/ DeleteSecret
      \/ Observe \/ Crash
  BY DEF Next, Step, Take, ReadLoadBalancer, EnsureCertificate, EnsurePolicy, WriteListener,
    ListenersWritten, DeleteNext, Fail, GrpcStep, GrpcRead, GrpcWrite, GrpcPend, GrpcCommit,
    GrpcRecord, GrpcFail,
    TlsStep, TlsWrite, TlsDelete, NoWrite, vars
<1>. QED
  BY <1>1, <1>2, <1>3, <1>4, <1>5, <1>6

\* A step that leaves every GRPC listener its protocol.
LEMMA KeepsGrpcListeners ==
  ASSUME GrpcKept, UNCHANGED <<cache, grpcJob>>,
         \A l \in Grpc \ (routeQueued' \cup demoted') :
           l \notin routeQueued \cup demoted /\ (Speaks(l) => Speaks(l)')
  PROVE  GrpcKept'
BY DEF GrpcKept, Attached, Reconciling

LEMMA WorkerGrpcKept ==
  ASSUME Planned, GrpcKept,
         EnsureCertificate \/ ReadLoadBalancer
           \/ (\E l \in Https : EnsurePolicy(l) \/ WriteListener(l))
           \/ \E x \in Deletion : DeleteNext(x)
  PROVE  GrpcKept'
<1>1. UNCHANGED <<cache, grpcJob, routeQueued>>
  BY DEF EnsureCertificate, ReadLoadBalancer, EnsurePolicy, WriteListener, DeleteNext, NoWrite,
    NoEvent, routes
<1>2. Grpc \subseteq Https /\ Https \subseteq Names
  BY DEF Names
<1>3. CASE EnsureCertificate \/ ReadLoadBalancer \/ \E l \in Https : EnsurePolicy(l)
  <2>1. lb'.listeners = lb.listeners /\ demoted' = demoted
    BY <1>3, EnsureCertificateParts, ReadParts, EnsurePolicyParts DEF Planned, history
  <2>. QED
    BY <1>1, <2>1, KeepsGrpcListeners DEF Speaks
<1>4. ASSUME NEW k \in Https, WriteListener(k) PROVE GrpcKept'
  <2>1. CASE UNCHANGED <<lb, history>>
    BY <1>1, <2>1, KeepsGrpcListeners DEF Speaks, history
  <2>2. CASE ~UNCHANGED <<lb, history>>
    <3>1. /\ Writable(k) /\ lb'.policies = lb.policies /\ Wanted(k) \in Listener
          /\ \A l \in Names : lb'.listeners[l] = IF l = k THEN Wanted(k) ELSE lb.listeners[l]
          /\ demoted' = IF Demotes(k) THEN demoted \cup {k} ELSE demoted
      BY <1>4, <2>2, WriteParts DEF Planned
    <3>2. ASSUME Speaks(k), k \notin demoted'
          PROVE  lb'.listeners[k] # Nil /\ lb'.listeners[k].grpc
      <4>1. job.seen.policies[k] = "rules" /\ job.seen.listeners[k] # Nil
        BY <3>1, <3>2 DEF Demotes, Speaks, Writable
      <4>2. lb'.listeners[k] = Wanted(k) /\ Wanted(k) # Nil
        BY <1>2, <3>1
      <4>3. Wanted(k).grpc
        BY <4>1 DEF Wanted, KeepsGrpc
      <4>. QED
        BY <4>2, <4>3
    <3>3. \A l \in Grpc \ (routeQueued' \cup demoted') :
            l \notin routeQueued \cup demoted /\ (Speaks(l) => Speaks(l)')
      BY <1>1, <1>2, <3>1, <3>2 DEF Speaks
    <3>. QED
      BY <1>1, <3>3, KeepsGrpcListeners
  <2>. QED
    BY <2>1, <2>2
<1>5. ASSUME NEW x \in Deletion, DeleteNext(x) PROVE GrpcKept'
  <2>1. /\ \A l \in Names : lb'.listeners[l] =
               IF x.kind = "listener" /\ x.of = l THEN Nil ELSE lb.listeners[l]
        /\ demoted' = IF x.kind # "listener" THEN demoted
                      ELSE IF Attached(x.of) THEN demoted \cup {x.of} ELSE demoted \ {x.of}
    BY <1>5, DeleteNextParts DEF Planned
  <2> SUFFICES ASSUME NEW l \in Grpc \ (routeQueued \cup demoted'), Attached(l)
               PROVE  (Speaks(l))' \/ (Reconciling(l) /\ grpcJob.pc = "write")
    BY <1>1 DEF GrpcKept, Reconciling, Attached
  <2>2. l \notin demoted /\ ~(x.kind = "listener" /\ x.of = l)
    BY <2>1
  <2>3. lb'.listeners[l] = lb.listeners[l]
    BY <1>2, <2>1, <2>2
  <2>. QED
    BY <2>2, <2>3 DEF Speaks, GrpcKept
<1>. QED
  BY <1>3, <1>4, <1>5

LEMMA RoutesGrpcKept ==
  ASSUME Planned, GrpcKept, GrpcStep \/ GrpcFail \/ TlsStep
  PROVE  GrpcKept'
<1>1. Grpc \subseteq Https /\ Https \subseteq Names
  BY DEF Names
<1>2. ASSUME NEW k \in Grpc, GrpcRead(k) PROVE GrpcKept'
  <2>1. /\ grpcJob = Nil /\ routeQueued' = routeQueued \ {k} /\ UNCHANGED <<cache, lb, demoted>>
        /\ Attached(k) => lb.listeners[k] \in Listener
        /\ Attached(k) => \/ lb.listeners[k].grpc
                          \/ grpcJob' \in GrpcJob /\ grpcJob'.of = k /\ grpcJob'.pc = "write"
    BY <1>2, GrpcReadParts DEF Planned, history
  <2> SUFFICES ASSUME NEW l \in Grpc \ (routeQueued' \cup demoted'), Attached(l)
               PROVE  Speaks(l) \/ (Reconciling(l) /\ grpcJob.pc = "write")'
    BY <2>1 DEF GrpcKept, Attached, Speaks
  <2>2. CASE l = k
    BY <2>1, <2>2 DEF Reconciling, Speaks
  <2>3. CASE l # k
    BY <2>1, <2>3 DEF GrpcKept, Reconciling
  <2>. QED
    BY <2>2, <2>3
<1>3. CASE GrpcWrite
  <2>1. /\ grpcJob \in GrpcJob /\ grpcJob.of \in Names
        /\ UNCHANGED <<cache, routeQueued>>
        /\ \A l \in Names : l # grpcJob.of => lb'.listeners[l] = lb.listeners[l]
        /\ lb'.listeners[grpcJob.of] \in Listener /\ lb'.listeners[grpcJob.of].grpc
        /\ demoted' = demoted \ {grpcJob.of}
    BY <1>3, GrpcWriteParts DEF Planned
  <2>2. \A l : Reconciling(l) => l = grpcJob.of
    BY <2>1 DEF Reconciling
  <2>3. \A l \in Names : l # grpcJob.of => (Speaks(l) => (Speaks(l))')
    BY <2>1 DEF Speaks
  <2>4. \A l \in {grpcJob.of} : (Speaks(l))'
    BY <2>1 DEF Speaks
  <2>. QED
    BY <1>1, <2>1, <2>2, <2>3, <2>4 DEF GrpcKept, Attached
<1>4. CASE GrpcPend \/ GrpcCommit \/ GrpcRecord \/ GrpcFail
  <2>1. /\ grpcJob \in GrpcJob /\ UNCHANGED <<cache, demoted>> /\ lb'.listeners = lb.listeners
        /\ routeQueued \subseteq routeQueued'
        /\ grpcJob.pc # "write" \/ routeQueued' = routeQueued \cup {grpcJob.of}
    BY <1>4, GrpcEndParts DEF Planned
  <2>2. \A l : Reconciling(l) => l = grpcJob.of
    BY <2>1 DEF Reconciling
  <2>. QED
    BY <2>1, <2>2 DEF GrpcKept, Attached, Speaks
<1>5. ASSUME NEW k \in Tls, TlsWrite(k) \/ TlsDelete(k) PROVE GrpcKept'
  <2>1. /\ UNCHANGED <<cache, grpcJob, routeQueued, demoted>> /\ lb'.policies = lb.policies
        /\ \A l \in Https : lb'.listeners[l] = lb.listeners[l]
    BY <1>1, <1>5, TlsParts DEF Planned, routes
  <2>. QED
    BY <1>1, <2>1, KeepsGrpcListeners DEF Speaks
<1>. QED
  BY <1>2, <1>3, <1>4, <1>5 DEF GrpcStep, TlsStep

\* A specification that has the listener back is one of a new generation.
LEMMA OthersAttach ==
  ASSUME Planned, SpecOfGeneration, routeQueued' # Grpc,
         (\E spec \in Specs : Edit(spec)) \/ Delete \/ Rotate \/ DeleteSecret \/ Observe \/ Crash
  PROVE  \A l : (Attached(l))' => Attached(l)
<1>1. CASE Observe
  <2>1. cache' = server /\ server' = server
    BY <1>1 DEF Observe
  <2>2. server # Nil => server.generation = cache.generation /\ cache # Nil
    BY <1>1 DEF Observe, Planned, Older, CacheIsOlder
  <2>. QED
    BY <2>1, <2>2 DEF Attached, SpecOfGeneration
<1>2. CASE ~Observe
  <2>1. UNCHANGED cache
    BY <1>2 DEF Edit, Delete, Rotate, DeleteSecret, Crash
  <2>. QED
    BY <2>1 DEF Attached
<1>. QED
  BY <1>1, <1>2

LEMMA OthersGrpcKept ==
  ASSUME Planned, Serving,
         (\E spec \in Specs : Edit(spec)) \/ Delete \/ Rotate \/ DeleteSecret \/ Observe \/ Crash
  PROVE  GrpcKept'
<1>1. CASE routeQueued' = Grpc
  BY <1>1 DEF GrpcKept
<1>2. CASE routeQueued' # Grpc
  <2>1. UNCHANGED <<lb, demoted, grpcJob>> /\ routeQueued' = routeQueued
    BY <1>2, OthersParts DEF Planned, history
  <2>2. \A l : (Attached(l))' => Attached(l)
    BY <1>2, OthersAttach DEF Serving
  <2>. QED
    BY <2>1, <2>2 DEF Serving, GrpcKept, Reconciling, Speaks
<1>. QED
  BY <1>1, <1>2

\* A step that takes no rules from a listener without a trace.
LEMMA KeepsRules ==
  ASSUME RulesKept, UNCHANGED <<cache, routes>>, \A l \in Grpc : HasRules(l) => (HasRules(l))'
  PROVE  RulesKept'
BY DEF RulesKept, ReconciledIsRecorded, RecordedIsThere, Attached, Reconciling, routes

LEMMA WorkerRulesKept ==
  ASSUME Planned, RulesKept,
         EnsureCertificate \/ ReadLoadBalancer
           \/ (\E l \in Https : EnsurePolicy(l) \/ WriteListener(l))
           \/ \E x \in Deletion : DeleteNext(x)
  PROVE  RulesKept'
<1>1. UNCHANGED <<cache, routes>>
  BY DEF EnsureCertificate, ReadLoadBalancer, EnsurePolicy, WriteListener, DeleteNext, NoWrite,
    NoEvent
<1>2. CASE EnsureCertificate \/ ReadLoadBalancer
           \/ \E l \in Https : EnsurePolicy(l) \/ WriteListener(l)
  <2>1. stranded' = stranded
    BY <1>2, EnsureCertificateParts, ReadParts, EnsurePolicyParts, WriteParts DEF Planned, history
  <2>2. \A l \in Https : lb.policies[l] = "rules" => lb'.policies[l] = "rules"
    BY <1>2, EnsureCertificateParts, ReadParts, EnsurePolicyParts, WriteParts DEF Planned
  <2>. QED
    BY <1>1, <2>1, <2>2, KeepsRules DEF HasRules
<1>3. ASSUME NEW x \in Deletion, DeleteNext(x) PROVE RulesKept'
  <2>1. /\ \A l \in Https : lb'.policies[l] =
               IF x.kind = "policy" /\ x.of = l THEN "none" ELSE lb.policies[l]
        /\ stranded' = IF x.kind = "policy" /\ lb.policies[x.of] = "rules"
                       THEN stranded \cup {x.of} ELSE stranded
    BY <1>3, DeleteNextParts DEF Planned
  <2>2. \A l \in Grpc : HasRules(l) => (HasRules(l))'
    BY <2>1 DEF HasRules
  <2>. QED
    BY <1>1, <2>2, KeepsRules
<1>. QED
  BY <1>2, <1>3

LEMMA RoutesRulesKept ==
  ASSUME Planned, RulesKept, GrpcStep \/ GrpcFail \/ TlsStep
  PROVE  RulesKept'
<1>1. ASSUME NEW k \in Grpc, GrpcRead(k) PROVE RulesKept'
  <2>1. /\ grpcJob = Nil /\ routeQueued' = routeQueued \ {k}
        /\ UNCHANGED <<cache, lb, routeRecorded, stranded>>
        /\ \/ ~Attached(k) /\ grpcJob' = Nil
           \/ grpcJob' = Nil /\ k \in routeRecorded
           \/ grpcJob' \in GrpcJob /\ grpcJob'.of = k /\ grpcJob'.pc = "pend"
           \/ /\ grpcJob' \in GrpcJob /\ grpcJob'.of = k /\ grpcJob'.pc = "write"
              /\ ~grpcJob'.required => k \in routeRecorded
    BY <1>1, GrpcReadParts DEF Planned, history
  <2>2. \A l : (Reconciling(l))' => l = k
    BY <2>1 DEF Reconciling
  <2>3. ReconciledIsRecorded'
    <3>1. ASSUME NEW l \in Grpc \ routeQueued', Attached(l), ~(Reconciling(l))'
          PROVE  l \in routeRecorded
      <4>1. CASE l = k
        BY <2>1, <3>1, <4>1 DEF Reconciling
      <4>2. CASE l # k
        BY <2>1, <3>1, <4>2 DEF RulesKept, ReconciledIsRecorded, Reconciling
      <4>. QED
        BY <4>1, <4>2
    <3>2. ASSUME NEW l \in Grpc, (Reconciling(l))', grpcJob'.pc = "write", ~grpcJob'.required
          PROVE  l \in routeRecorded
      BY <2>1, <2>2, <3>2 DEF Reconciling
    <3>. QED
      BY <2>1, <3>1, <3>2 DEF ReconciledIsRecorded, Attached
  <2>4. RecordedIsThere'
    <3>1. ~(grpcJob' # Nil /\ grpcJob'.pc = "record")
      BY <2>1
    <3>. QED
      BY <2>1, <3>1 DEF RulesKept, RecordedIsThere, HasRules, Reconciling
  <2>. QED
    BY <2>3, <2>4 DEF RulesKept
<1>2. CASE GrpcWrite
  <2>1. /\ grpcJob \in GrpcJob /\ grpcJob.pc = "write" /\ grpcJob.of \in Names
        /\ \/ grpcJob' = Nil /\ ~grpcJob.required
           \/ grpcJob' \in GrpcJob /\ grpcJob'.of = grpcJob.of /\ grpcJob'.pc = "pend"
        /\ UNCHANGED <<cache, routeQueued, routeRecorded, stranded>> /\ lb'.policies = lb.policies
    BY <1>2, GrpcWriteParts DEF Planned
  <2>2. \A l : Reconciling(l) <=> l = grpcJob.of
    BY <2>1 DEF Reconciling
  <2>3. ReconciledIsRecorded'
    <3>1. \A l \in Grpc : l # grpcJob.of => (Reconciling(l) <=> (Reconciling(l))')
      BY <2>1, <2>2 DEF Reconciling
    <3>2. \A l \in Grpc : l = grpcJob.of /\ ~(Reconciling(l))' => l \in routeRecorded
      BY <2>1, <2>2 DEF RulesKept, ReconciledIsRecorded, Reconciling
    <3>3. ~(grpcJob' # Nil /\ grpcJob'.pc = "write")
      BY <2>1
    <3>. QED
      BY <2>1, <2>2, <3>1, <3>2, <3>3 DEF RulesKept, ReconciledIsRecorded, Attached, Reconciling
  <2>4. RecordedIsThere'
    <3>1. ~(grpcJob' # Nil /\ grpcJob'.pc = "record")
      BY <2>1
    <3>. QED
      BY <2>1, <3>1 DEF RulesKept, RecordedIsThere, HasRules, Reconciling
  <2>. QED
    BY <2>3, <2>4 DEF RulesKept
<1>3. CASE GrpcPend \/ GrpcCommit \/ GrpcRecord \/ GrpcFail
  <2>1. /\ grpcJob \in GrpcJob /\ grpcJob.of \in Grpc /\ UNCHANGED cache
        /\ \/ /\ grpcJob.pc = "pend" /\ grpcJob' \in GrpcJob
              /\ grpcJob'.of = grpcJob.of /\ grpcJob'.pc = "commit"
              /\ routeRecorded' \in {routeRecorded, routeRecorded \ {grpcJob.of}}
              /\ UNCHANGED <<lb, routeQueued, stranded>>
           \/ /\ grpcJob.pc = "commit" /\ grpcJob' \in GrpcJob
              /\ grpcJob'.of = grpcJob.of /\ grpcJob'.pc = "record"
              /\ \A l \in Https : lb'.policies[l] =
                   IF l = grpcJob.of THEN "rules" ELSE lb.policies[l]
              /\ stranded' = stranded \ {grpcJob.of}
              /\ UNCHANGED <<routeQueued, routeRecorded>>
           \/ /\ grpcJob.pc = "record" /\ grpcJob' = Nil
              /\ routeRecorded' = routeRecorded \cup {grpcJob.of}
              /\ UNCHANGED <<lb, routeQueued, stranded>>
           \/ /\ grpcJob' = Nil /\ routeQueued' = routeQueued \cup {grpcJob.of}
              /\ UNCHANGED <<lb, routeRecorded, stranded>>
    BY <1>3, GrpcEndParts DEF Planned
  <2>2. \A l : Reconciling(l) <=> l = grpcJob.of
    BY <2>1 DEF Reconciling
  <2>3. \A l : (Reconciling(l))' <=> grpcJob' # Nil /\ l = grpcJob.of
    BY <2>1 DEF Reconciling
  <2>4. grpcJob' # Nil => grpcJob'.pc # "write"
    BY <2>1
  <2>5. ReconciledIsRecorded'
    <3>1. \A l : (Attached(l))' <=> Attached(l)
      BY <2>1 DEF Attached
    <3>2. \A l \in Grpc : l # grpcJob.of =>
            (l \in routeRecorded => l \in routeRecorded')
            /\ (l \in routeQueued <=> l \in routeQueued')
      BY <2>1
    <3>3. grpcJob' = Nil => grpcJob.of \in routeRecorded' \cup routeQueued'
      BY <2>1
    <3>. QED
      BY <2>2, <2>3, <2>4, <3>1, <3>2, <3>3 DEF RulesKept, ReconciledIsRecorded
  <2>6. RecordedIsThere'
    <3>1. \A l \in Grpc : HasRules(l) => (HasRules(l))'
      BY <2>1 DEF HasRules
    <3>2. grpcJob' # Nil /\ grpcJob'.pc = "record" =>
            \A l \in {grpcJob.of} : (HasRules(l))'
      BY <2>1 DEF HasRules
    <3>3. \A l \in Grpc : l \in routeRecorded' =>
            l \in routeRecorded \/ (l = grpcJob.of /\ grpcJob.pc = "record")
      BY <2>1
    <3>. QED
      BY <2>1, <2>2, <2>3, <3>1, <3>2, <3>3 DEF RulesKept, RecordedIsThere
  <2>. QED
    BY <2>5, <2>6 DEF RulesKept
<1>4. ASSUME NEW k \in Tls, TlsWrite(k) \/ TlsDelete(k) PROVE RulesKept'
  <2>1. UNCHANGED <<cache, routes, stranded>> /\ lb'.policies = lb.policies
    BY <1>4, TlsParts DEF Planned
  <2>. QED
    BY <2>1, KeepsRules DEF HasRules
<1>. QED
  BY <1>1, <1>2, <1>3, <1>4 DEF GrpcStep, TlsStep

LEMMA OthersRulesKept ==
  ASSUME Planned, Serving,
         (\E spec \in Specs : Edit(spec)) \/ Delete \/ Rotate \/ DeleteSecret \/ Observe \/ Crash
  PROVE  RulesKept'
<1>1. /\ UNCHANGED <<lb, routeRecorded, stranded>> /\ grpcJob' \in {grpcJob, Nil}
      /\ routeQueued' \in {routeQueued, Grpc} /\ (grpcJob' # grpcJob => routeQueued' = Grpc)
  BY OthersParts DEF Planned, history
<1>2. \A l : (Reconciling(l))' => Reconciling(l) /\ grpcJob' = grpcJob
  BY <1>1 DEF Reconciling
<1>3. RecordedIsThere'
  BY <1>1, <1>2 DEF Serving, RulesKept, RecordedIsThere, HasRules
<1>4. ReconciledIsRecorded'
  <2>1. \A l \in Grpc : (Reconciling(l))' /\ grpcJob'.pc = "write" /\ ~grpcJob'.required
          => l \in routeRecorded'
    BY <1>1, <1>2 DEF Serving, RulesKept, ReconciledIsRecorded
  <2>2. CASE routeQueued' = Grpc
    BY <2>1, <2>2 DEF ReconciledIsRecorded
  <2>3. CASE routeQueued' # Grpc
    <3>1. grpcJob' = grpcJob /\ routeQueued' = routeQueued
      BY <1>1, <2>3
    <3>2. \A l : (Attached(l))' => Attached(l)
      BY <2>3, OthersAttach DEF Serving
    <3>. QED
      BY <1>1, <2>1, <3>1, <3>2 DEF Serving, RulesKept, ReconciledIsRecorded, Reconciling
  <2>. QED
    BY <2>2, <2>3
<1>. QED
  BY <1>3, <1>4 DEF RulesKept

LEMMA NextServing == Planned /\ Serving /\ [Next]_vars => Serving'
<1> SUFFICES ASSUME Planned, Serving, [Next]_vars PROVE Serving'
  OBVIOUS
<1>0. Take \/ Accept \/ CheckProgrammed \/ MarkPending \/ Protect \/ ListenersWritten
      \/ Report \/ Record \/ Reject \/ RemoveFinalizer \/ Fail \/ UNCHANGED vars =>
        UNCHANGED <<cache, lb, routes, history>>
  BY DEF Take, Accept, CheckProgrammed, MarkPending, Protect, ListenersWritten, Report, Record,
    Reject, RemoveFinalizer, Fail, Update, NoWrite, NoCall, NoEvent, vars, routes, history
<1>1. SpecOfGeneration'
  BY NextSpecs DEF Serving
<1>2. GrpcKept'
  <2>1. CASE EnsureCertificate \/ ReadLoadBalancer
             \/ (\E l \in Https : EnsurePolicy(l) \/ WriteListener(l))
             \/ \E x \in Deletion : DeleteNext(x)
    BY <2>1, WorkerGrpcKept DEF Serving
  <2>2. CASE GrpcStep \/ GrpcFail \/ TlsStep
    BY <2>2, RoutesGrpcKept DEF Serving
  <2>3. CASE (\E spec \in Specs : Edit(spec)) \/ Delete \/ Rotate \/ DeleteSecret \/ Observe \/ Crash
    BY <2>3, OthersGrpcKept
  <2>4. CASE UNCHANGED <<cache, lb, routes, history>>
    BY <2>4, KeepsGrpcListeners DEF Serving, Speaks, routes, history
  <2>. QED
    BY <2>1, <2>2, <2>3, <2>4, <1>0 DEF Next, Step
<1>3. RulesKept'
  <2>1. CASE EnsureCertificate \/ ReadLoadBalancer
             \/ (\E l \in Https : EnsurePolicy(l) \/ WriteListener(l))
             \/ \E x \in Deletion : DeleteNext(x)
    BY <2>1, WorkerRulesKept DEF Serving
  <2>2. CASE GrpcStep \/ GrpcFail \/ TlsStep
    BY <2>2, RoutesRulesKept DEF Serving
  <2>3. CASE (\E spec \in Specs : Edit(spec)) \/ Delete \/ Rotate \/ DeleteSecret \/ Observe \/ Crash
    BY <2>3, OthersRulesKept
  <2>4. CASE UNCHANGED <<cache, lb, routes, history>>
    BY <2>4, KeepsRules DEF Serving, HasRules, history
  <2>. QED
    BY <2>1, <2>2, <2>3, <2>4, <1>0 DEF Next, Step
<1>. QED
  BY <1>1, <1>2, <1>3 DEF Serving

\* A listener with a GRPCRoute speaks GRPC once the Gateway and the route have settled, but
\* for one that the Gateway demoted, or deleted when it was back; and it has the rules of the
\* route, unless the Gateway deleted them and the route has not been programmed since.
THEOREM GrpcStaysHolds == Spec => []GrpcStays
<1>1. Init => Serving
  <2> SUFFICES ASSUME Init PROVE Serving
    OBVIOUS
  <2>1. server.generation <= server.generation /\ cache = server /\ routeQueued = Grpc
    BY DEF Init, New
  <2>. QED
    <3>1. routeRecorded = {} /\ grpcJob = Nil
      BY DEF Init
    <3>2. RulesKept
      BY <2>1, <3>1 DEF RulesKept, ReconciledIsRecorded, RecordedIsThere, Reconciling
    <3>. QED
      BY <2>1, <3>2 DEF Serving, SpecOfGeneration, GrpcKept
<1>2. Serving => GrpcStays
  <2> SUFFICES ASSUME Serving, Settled, server # Nil, grpcJob = Nil,
                      NEW l \in (Grpc \cap server.spec) \ (demoted \cup routeQueued)
               PROVE  lb.listeners[l].grpc /\ (l \notin stranded => lb.policies[l] = "rules")
    BY DEF GrpcStays
  <2>1. Attached(l) /\ ~Reconciling(l)
    BY DEF Settled, Attached, Reconciling
  <2>2. Speaks(l)
    BY <2>1 DEF Serving, GrpcKept
  <2>3. HasRules(l)
    BY <2>1 DEF Serving, RulesKept, ReconciledIsRecorded, RecordedIsThere
  <2>. QED
    BY <2>2, <2>3 DEF Speaks, HasRules
<1>. QED
  BY <1>1, <1>2, NextServing, AlwaysPlanned, PTL DEF Spec

----------------------------------------------------------------------------
(* When everything has settled: SettledIsServed.                           *)

\* The copies of the Gateway that are around.
Copies == {server, cache} \cup (IF Busy THEN {job.copy} ELSE {})

\* The copies of one generation have one specification, and the newest is at the API
\* server; the reconcile has none that the informer has not had.
CopiesAgree ==
  /\ \A g, h \in Copies \ {Nil} : g.generation = h.generation => g.spec = h.spec
  /\ server # Nil => \A g \in Copies \ {Nil} : g.generation <= server.generation
  /\ Busy /\ cache # Nil => job.copy.generation <= cache.generation

\* A generation is reported as programmed by a reconcile that has seen it, and every later
\* one has seen it too.
ReportsAreKnown ==
  \A g \in Copies \ {Nil} :
    /\ cache # Nil => g.programmed <= cache.generation
    /\ Busy => g.programmed <= job.copy.generation

\* The same of the certificates on record; the last version, once recorded, stays so.
CertificatesAreKnown ==
  \A g \in Copies \ {Nil} : \A v \in g.certificates :
    /\ v <= secret.version
    /\ Busy => v <= job.resolved
    /\ server # Nil /\ v = secret.version => server.certificates = {v}

\* What is being deleted has its finalizer.
DeletingIsProtected ==
  \A g \in {server, cache} \ {Nil} : g.deleting => g.finalizer

\* The Gateway is not queued: the reconcile has what the informer and the Secret have.
NothingNew ==
  Busy /\ ~queued =>
    /\ cache # Nil
    /\ cache.generation = job.copy.generation /\ cache.deleting = job.copy.deleting
    /\ cache.recorded = job.copy.recorded /\ cache.certificates = job.copy.certificates
    /\ ~job.copy.deleting =>
         job.resolved = secret.version /\ (secret.present <=> job.pc # "reject")

\* A reconcile that programs deletes no listener of its specification.
SparesSpecified ==
  Busy /\ ~job.copy.deleting =>
    \A x \in job.gone : x.kind = "listener" => x.of \notin job.copy.spec

\* A route has given back a certificate that the reconcile is going to delete, which OCI
\* will refuse.
Refuted(l) ==
  /\ lb.listeners[l] # Nil
  /\ lb.listeners[l].certificate \in job.copy.certificates
  /\ lb.listeners[l].certificate < job.resolved

ServedOrReverted(l) == Serves(l) \/ l \in reverted

\* The reconcile has written the listener, or found it in its snapshot.
Done(l) ==
  \/ job.pc \in {"delete", "report", "record"}
  \/ job.pc \in {"policy", "listener"} /\ l \notin job.todo
  \/ /\ Programming
     /\ job.seen.listeners[l] # Nil
     /\ job.seen.listeners[l].certificate = secret.version

\* What a reconcile has written, or found in its snapshot, is there.
GetsServed ==
  Busy /\ ~job.copy.deleting /\ job.resolved = secret.version =>
    \A l \in Managed(job.copy.spec) : Done(l) => ServedOrReverted(l) \/ Refuted(l)

\* What the reconcile gives its listeners is no newer than the Secret.
UsedIsKnown == Busy => job.used <= secret.version

\* The last generation was programmed with the last Secret, by what a copy says.
Reported ==
  /\ server # Nil /\ ~server.deleting
  /\ \E g \in Copies \ {Nil} :
       g.programmed = server.generation /\ g.certificates = {secret.version}

\* What is on record for the last generation and the last Secret is there, and stays.
ReportIsTrue == Reported => \A l \in Managed(server.spec) : ServedOrReverted(l)

\* A reconcile is queued, or will be when the informer sees the Gateway.
ToCome == queued \/ Watched(cache, server)

\* When no reconcile is to come, the last one has left what SettledIsServed says.
IdleIsServed ==
  server # Nil /\ ~Busy /\ ~ToCome =>
    /\ ~server.deleting
    /\ IF secret.present
       THEN /\ server.recorded = Managed(server.spec)
            /\ server.certificates = {secret.version}
            /\ \A l \in Managed(server.spec) : ServedOrReverted(l)
       ELSE server.accepted = 0

KnownInv ==
  CopiesAgree /\ ReportsAreKnown /\ CertificatesAreKnown /\ DeletingIsProtected /\ NothingNew
PlanInv == UsedIsKnown /\ SparesSpecified /\ GetsServed
SettledInv == Planned /\ KnownInv /\ PlanInv /\ ReportIsTrue /\ IdleIsServed

----------------------------------------------------------------------------
(* What each step does to the Gateway, its copies and the queue.           *)

\* What the worker and the users make of the Gateway at the API server.
Rewritten ==
  /\ Same(server', server) /\ (server.finalizer => server'.finalizer)
  /\ \/ server'.programmed \in {server.programmed, 0}
     \/ At("report") /\ server'.programmed = job.copy.generation

Recorded ==
  /\ At("record") /\ job' = Nil
  /\ server'.generation = server.generation /\ server'.spec = server.spec
  /\ server'.deleting = server.deleting /\ server'.finalizer
  /\ server'.programmed = server.programmed /\ server'.certificates = {job.resolved}

Edited ==
  /\ job' = job
  /\ server'.generation = server.generation + 1 /\ ~server.deleting /\ ~server'.deleting
  /\ server'.programmed = server.programmed /\ server'.certificates = server.certificates

MarkedDeleted ==
  /\ job' = job
  /\ server'.generation = server.generation /\ server'.spec = server.spec
  /\ server'.programmed = server.programmed /\ server'.certificates = server.certificates
  /\ ~server.deleting /\ server'.deleting /\ server'.finalizer

ServerMoves ==
  \/ UNCHANGED server \/ server' = Nil
  \/ /\ server \in Gateway /\ server' \in Gateway
     /\ Rewritten \/ Recorded \/ Edited \/ MarkedDeleted

\* The worker keeps its copy, or takes the one of the informer.
Carries ==
  /\ Busy /\ Same(job'.copy, job.copy) /\ job'.resolved = job.resolved
  /\ job'.copy.programmed = job.copy.programmed \/ (server' # Nil /\ job'.copy = server')
  /\ job'.pc = "reject" <=> job.pc = "reject"
  /\ ~queued' => ~queued

Takes ==
  /\ ~Busy /\ UNCHANGED <<server, cache, secret>>
  /\ cache # Nil /\ job'.copy = cache /\ job'.resolved = secret.version
  /\ ~cache.deleting => (secret.present <=> job'.pc # "reject")

JobMoves == job' = Nil \/ (job' \in Job /\ (Carries \/ Takes))

InformerMoves ==
  \/ UNCHANGED cache
  \/ /\ cache' = server /\ server' = server
     /\ queued' \/ ~Watched(cache, server) \/ (job' = Nil /\ server' = Nil)

SecretMoves ==
  \/ UNCHANGED secret
  \/ /\ UNCHANGED <<server, cache, job>>
     /\ secret'.version \in Nat /\ secret'.version >= secret.version
     /\ queued' \/ cache = Nil \/ cache.deleting

Moves == ServerMoves /\ JobMoves /\ InformerMoves /\ SecretMoves

LEMMA ServerFields ==
  ASSUME NEW g \in Gateway, NEW n \in 0..MaxGeneration
  PROVE  /\ [g EXCEPT !.accepted = n] \in Gateway
         /\ Same([g EXCEPT !.accepted = n], g)
         /\ [g EXCEPT !.accepted = n].finalizer = g.finalizer
         /\ [g EXCEPT !.accepted = n].programmed = g.programmed
         /\ [g EXCEPT !.programmed = n] \in Gateway
         /\ Same([g EXCEPT !.programmed = n], g)
         /\ [g EXCEPT !.programmed = n].finalizer = g.finalizer
         /\ [g EXCEPT !.programmed = n].programmed = n
         /\ [g EXCEPT !.finalizer = TRUE] \in Gateway
         /\ Same([g EXCEPT !.finalizer = TRUE], g)
         /\ [g EXCEPT !.finalizer = TRUE].finalizer
         /\ [g EXCEPT !.finalizer = TRUE].programmed = g.programmed
BY DEF Gateway, Same

LEMMA BeginMoves ==
  ASSUME Planned, Accept \/ CheckProgrammed \/ MarkPending \/ Protect \/ Report
  PROVE  Moves
<1>1. /\ Busy /\ job \in Job /\ UNCHANGED <<cache, secret, lb, queued, routes, history>>
      /\ job.copy \in Gateway /\ job.copy.generation \in 0..MaxGeneration
  <2>1. /\ Busy /\ job \in Job /\ UNCHANGED <<cache, secret, lb, queued, routes, history>>
    BY BeginParts DEF Planned
  <2>2. job.copy \in Gateway
    BY <2>1 DEF Job
  <2>3. job.copy.generation \in Nat /\ job.copy.generation <= MaxGeneration
    BY <2>2 DEF Gateway, Generations
  <2>. QED
    BY <2>1, <2>2, <2>3
<1>2. CASE CheckProgrammed
  <2>1. UNCHANGED server /\ (job' = Nil \/ (job.pc = "accept" /\ job' = [job EXCEPT !.pc = "pend"]))
    BY <1>2 DEF CheckProgrammed, At, Finish, Goto, NoWrite
  <2>2. job' = Nil \/ (job' \in Job /\ job'.copy = job.copy /\ job'.resolved = job.resolved
                       /\ job'.pc = "pend" /\ job.pc = "accept")
    BY <1>1, <2>1 DEF Job, PCs
  <2>. QED
    BY <1>1, <2>1, <2>2 DEF Moves, ServerMoves, JobMoves, Carries, InformerMoves, SecretMoves,
      Same
<1>3. CASE Accept \/ MarkPending \/ Protect \/ Report
  <2>1. server \in Gateway
    BY <1>3 DEF Accept, MarkPending, Protect, Report, Update, Current, Planned, Typed, TypeOK
  <2>2. \/ server' = [server EXCEPT !.accepted = job.copy.generation]
        \/ server' = [server EXCEPT !.programmed = 0]
        \/ At("report") /\ server' = [server EXCEPT !.programmed = job.copy.generation]
        \/ server' = [server EXCEPT !.finalizer = TRUE]
    BY <1>3 DEF Accept, MarkPending, Protect, Report, Update
  <2>3. 0 \in 0..MaxGeneration
    OBVIOUS
  <2>4. server' \in Gateway /\ Rewritten
    <3>1. CASE server' = [server EXCEPT !.accepted = job.copy.generation]
      BY <1>1, <2>1, <3>1, ServerFields DEF Rewritten
    <3>2. CASE server' = [server EXCEPT !.programmed = 0]
      BY <2>1, <2>3, <3>2, ServerFields DEF Rewritten
    <3>3. CASE At("report") /\ server' = [server EXCEPT !.programmed = job.copy.generation]
      <4>. DEFINE n == job.copy.generation
                  h == [server EXCEPT !.programmed = n]
      <4>1. h \in Gateway /\ Same(h, server) /\ h.finalizer = server.finalizer
            /\ h.programmed = n
        <5>1. n \in 0..MaxGeneration
          BY <1>1
        <5>. HIDE DEF n
        <5>. QED
          BY <2>1, <5>1, ServerFields
      <4>2. server' = h
        BY <3>3
      <4>3. At("report") /\ n = job.copy.generation
        BY <3>3
      <4>. HIDE DEF h
      <4>. QED
        BY <1>1, <4>1, <4>2, <4>3 DEF Rewritten
    <3>4. CASE server' = [server EXCEPT !.finalizer = TRUE]
      BY <2>1, <2>3, <3>4, ServerFields DEF Rewritten
    <3>. QED
      BY <2>2, <3>1, <3>2, <3>3, <3>4
  <2>5. job' = Nil \/ \E pc \in PCs : <<job.pc, pc>> \in Begins /\ Proceed(pc)
    BY <1>3 DEF Accept, MarkPending, Protect, Report, At, Begins, PCs, Finish
  <2>6. ASSUME NEW pc \in PCs, <<job.pc, pc>> \in Begins, Proceed(pc)
        PROVE  job' \in Job /\ Carries
    <3>. DEFINE c == IF server = job.copy THEN server' ELSE job.copy
    <3>1. job' = [job EXCEPT !.pc = pc, !.copy = c]
      BY <2>6 DEF Proceed
    <3>2. c \in Gateway /\ Same(c, job.copy)
          /\ c \in {job.copy, server'}
      BY <1>1, <2>4 DEF Same, Rewritten
    <3>. HIDE DEF c
    <3>3. job' \in Job /\ job'.copy = c /\ job'.resolved = job.resolved /\ job'.pc = pc
      BY <1>1, <3>1, <3>2 DEF Job
    <3>4. pc # "reject" /\ job.pc # "reject"
      BY <2>6 DEF Begins
    <3>5. server' # Nil
      BY <2>4
    <3>. QED
      BY <1>1, <3>2, <3>3, <3>4, <3>5 DEF Carries
  <2>. QED
    BY <1>1, <2>1, <2>4, <2>5, <2>6 DEF Moves, ServerMoves, JobMoves, InformerMoves, SecretMoves
<1>. QED
  BY <1>2, <1>3

LEMMA LastMoves == ASSUME Planned, Record \/ Reject PROVE Moves
<1>1. /\ Busy /\ job' = Nil /\ server \in Gateway /\ job.resolved \in Versions
      /\ UNCHANGED <<cache, secret>> /\ job.copy \in Gateway
  BY LastParts DEF Planned, Job
<1>2. CASE Record
  <2>1. server' = [server EXCEPT !.finalizer = TRUE, !.recorded = Managed(job.copy.spec),
                                 !.certificates = {job.resolved}]
    BY <1>2 DEF Record, Update
  <2>2. server' \in Gateway /\ Recorded
    BY <1>1, <1>2, <2>1, LastParts DEF Gateway, Record, Recorded, Managed
  <2>. QED
    BY <1>1, <2>2 DEF Moves, ServerMoves, JobMoves, InformerMoves, SecretMoves
<1>3. CASE Reject
  <2>1. server' = [server EXCEPT !.accepted = 0]
    BY <1>3 DEF Reject, Update
  <2>2. 0 \in 0..MaxGeneration
    OBVIOUS
  <2>3. server' \in Gateway /\ Rewritten
    <3>1. /\ [server EXCEPT !.accepted = 0] \in Gateway
          /\ Same([server EXCEPT !.accepted = 0], server)
          /\ [server EXCEPT !.accepted = 0].finalizer = server.finalizer
          /\ [server EXCEPT !.accepted = 0].programmed = server.programmed
      BY <1>1, <2>2, ServerFields
    <3>. QED
      BY <2>1, <3>1 DEF Rewritten
  <2>. QED
    BY <1>1, <2>3 DEF Moves, ServerMoves, JobMoves, InformerMoves, SecretMoves
<1>. QED
  BY <1>2, <1>3

LEMMA UsersMove ==
  ASSUME Planned,
         (\E spec \in Specs : Edit(spec)) \/ Delete \/ Rotate \/ DeleteSecret \/ Observe \/ Crash
  PROVE  Moves
<1>1. /\ server # Nil => server \in Gateway
      /\ secret.version \in Nat /\ secret \in [version : Versions, present : BOOLEAN]
      /\ job # Nil => job \in Job
  BY DEF Planned, Typed, TypeOK, Versions, Busy
<1>2. job' = job /\ (~queued' => ~queued) => JobMoves
  BY <1>1 DEF JobMoves, Carries, Same, Busy
<1>3. ASSUME NEW spec \in Specs, Edit(spec) PROVE Moves
  <2>1. /\ server \in Gateway /\ server.generation + 1 \in Generations
        /\ spec \in SUBSET Names
    <3>1. server \in Gateway /\ server.generation < MaxGeneration
      BY <1>1, <1>3 DEF Edit, MayChange
    <3>2. server.generation \in Nat /\ server.generation >= 1
      BY <3>1 DEF Gateway, Generations
    <3>. QED
      BY <3>1, <3>2 DEF Generations
  <2>2. server' = [server EXCEPT !.spec = spec, !.generation = server.generation + 1]
    BY <1>3 DEF Edit
  <2>3. server' \in Gateway /\ Edited
    BY <1>3, <2>1, <2>2 DEF Edit, Gateway, Edited
  <2>. QED
    BY <1>2, <1>3, <2>1, <2>3 DEF Edit, NoEvent, Moves, ServerMoves, InformerMoves, SecretMoves
<1>4. CASE Delete
  <2>1. server \in Gateway
    BY <1>1, <1>4 DEF Delete, MayChange
  <2>2. CASE ~server.finalizer
    BY <1>2, <1>4, <2>2 DEF Delete, NoEvent, Moves, ServerMoves, InformerMoves, SecretMoves
  <2>3. CASE server.finalizer
    <3>1. server' = [server EXCEPT !.deleting = TRUE] /\ ~server.deleting
      BY <1>4, <2>3 DEF Delete
    <3>2. server' \in Gateway /\ MarkedDeleted
      BY <1>4, <2>1, <2>3, <3>1 DEF Delete, Gateway, MarkedDeleted
    <3>. QED
      BY <1>2, <1>4, <2>1, <3>2 DEF Delete, NoEvent, Moves, ServerMoves, InformerMoves, SecretMoves
  <2>. QED
    BY <2>2, <2>3
<1>5. CASE Rotate \/ DeleteSecret
  <2>1. UNCHANGED <<server, cache, job>>
        /\ queued' = (queued \/ (cache # Nil /\ ~cache.deleting))
    BY <1>5 DEF Rotate, DeleteSecret, SecretEvent
  <2>2. secret'.version \in Nat /\ secret'.version >= secret.version
    <3>1. \/ secret' = [secret EXCEPT !.version = @ + 1, !.present = TRUE]
          \/ secret' = [secret EXCEPT !.present = FALSE]
      BY <1>5 DEF Rotate, DeleteSecret
    <3>2. secret'.version \in {secret.version, secret.version + 1}
      BY <1>1, <3>1
    <3>. QED
      BY <1>1, <3>2
  <2>3. SecretMoves
    BY <2>1, <2>2 DEF SecretMoves
  <2>4. JobMoves
    BY <1>2, <2>1
  <2>. QED
    BY <2>1, <2>3, <2>4 DEF Moves, ServerMoves, InformerMoves
<1>6. CASE Observe
  <2>1. /\ UNCHANGED <<server, secret, job>> /\ cache' = server
        /\ queued' = (queued \/ Watched(cache, server))
    BY <1>6 DEF Observe
  <2>. QED
    BY <1>2, <2>1 DEF Moves, ServerMoves, InformerMoves, SecretMoves
<1>7. CASE Crash
  BY <1>7 DEF Crash, Moves, ServerMoves, JobMoves, InformerMoves, SecretMoves
<1>. QED
  BY <1>3, <1>4, <1>5, <1>6, <1>7

LEMMA TakeMoves == ASSUME Planned, Take PROVE Moves
<1>1. UNCHANGED <<server, cache, secret>> /\ ~Busy
  BY DEF Take, NoWrite
<1>2. CASE cache = Nil \/ (cache.deleting /\ ~cache.finalizer)
  <2>1. job' = Nil
    BY <1>2 DEF Take
  <2>. QED
    BY <1>1, <2>1 DEF Moves, ServerMoves, JobMoves, InformerMoves, SecretMoves
<1>3. CASE ~(cache = Nil \/ (cache.deleting /\ ~cache.finalizer))
  <2>1. cache \in Gateway /\ secret.version \in Versions
    BY <1>3 DEF Planned, Typed, TypeOK
  <2>2. PICK pc \in {"read", "accept", "reject"} :
          /\ job' = [pc |-> pc, copy |-> cache, resolved |-> secret.version,
                     seen |-> Nil, used |-> 0, todo |-> {}, gone |-> {}]
          /\ ~cache.deleting => (secret.present <=> pc # "reject")
    BY <1>3 DEF Take
  <2>3. job' \in Job /\ Takes
    BY <1>1, <1>3, <2>1, <2>2 DEF Job, PCs, Takes
  <2>. QED
    BY <1>1, <2>3 DEF Moves, ServerMoves, JobMoves, InformerMoves, SecretMoves
<1>. QED
  BY <1>2, <1>3

LEMMA NextMoves == ASSUME Planned, [Next]_vars PROVE Moves
<1>1. CASE ReadLoadBalancer \/ EnsureCertificate
           \/ (\E l \in Https : EnsurePolicy(l) \/ WriteListener(l))
           \/ ListenersWritten \/ \E x \in Deletion : DeleteNext(x)
  <2>1. /\ Busy /\ UNCHANGED <<server, cache, secret, queued>>
        /\ job' \in Job /\ job'.copy = job.copy /\ job'.resolved = job.resolved
        /\ job.pc # "reject" /\ job'.pc # "reject"
    <3>1. CASE ReadLoadBalancer
      BY <3>1, ReadParts DEF Planned
    <3>2. CASE EnsureCertificate
      BY <3>2, EnsureCertificateParts DEF Planned
    <3>3. CASE \E l \in Https : EnsurePolicy(l) \/ WriteListener(l)
      BY <3>3, EnsurePolicyParts, WriteParts DEF Planned
    <3>4. CASE ListenersWritten
      <4>1. job.seen \in LoadBalancer
        BY <3>4 DEF ListenersWritten, At, Planned, JobPlan, SnapshotShows, Programming
      <4>. QED
        BY <3>4, <4>1, ListenersWrittenParts DEF Planned
    <3>5. CASE \E x \in Deletion : DeleteNext(x)
      BY <3>5, DeleteNextParts DEF Planned
    <3>. QED
      BY <1>1, <3>1, <3>2, <3>3, <3>4, <3>5
  <2>. QED
    BY <2>1 DEF Moves, ServerMoves, JobMoves, Carries, InformerMoves, SecretMoves, Same
<1>2. CASE RemoveFinalizer \/ Fail
  BY <1>2 DEF RemoveFinalizer, Fail, Finish, NoWrite, Moves, ServerMoves, JobMoves,
    InformerMoves, SecretMoves
<1>3. CASE UNCHANGED <<server, cache, secret, queued, job>>
  <2>1. job # Nil => job \in Job
    BY DEF Planned, Typed, TypeOK, Busy
  <2>. QED
    BY <1>3, <2>1 DEF Moves, ServerMoves, JobMoves, Carries, InformerMoves, SecretMoves, Same,
      Busy
<1>4. GrpcStep \/ GrpcFail \/ TlsStep \/ UNCHANGED vars =>
        UNCHANGED <<server, cache, secret, queued, job>>
  BY DEF GrpcStep, GrpcRead, GrpcWrite, GrpcPend, GrpcCommit, GrpcRecord, GrpcFail, TlsStep,
    TlsWrite, TlsDelete, NoWrite, vars
<1>. QED
  BY <1>1, <1>2, <1>3, <1>4, TakeMoves, BeginMoves, LastMoves, UsersMove DEF Next, Step

----------------------------------------------------------------------------
(* What the copies of the Gateway say.                                     *)

LEMMA CopiesTyped ==
  ASSUME Planned
  PROVE  /\ secret.version \in Nat
         /\ Busy => /\ job \in Job /\ job.copy \in Gateway
                    /\ job.resolved \in Nat /\ job.used \in Nat
                    /\ job.resolved <= secret.version
                    /\ \A v \in job.copy.certificates : v <= job.resolved
         /\ \A g \in Copies \ {Nil} :
              /\ g \in Gateway
              /\ g.generation \in Nat /\ g.generation > 0 /\ g.programmed \in Nat
              /\ \A v \in g.certificates : v \in Nat
<1>1. secret.version \in Nat
  BY DEF Planned, Typed, TypeOK, Versions
<1>2. Busy => /\ job \in Job /\ job.copy \in Gateway
              /\ job.resolved \in Nat /\ job.used \in Nat
  BY DEF Planned, Typed, TypeOK, Versions, Job
<1>3. Busy => /\ job.resolved <= secret.version
              /\ \A v \in job.copy.certificates : v <= job.resolved
  BY DEF Planned, Older, RecordsAreOlder
<1>4. \A g \in Copies \ {Nil} : g \in Gateway
  BY <1>2 DEF Copies, Planned, Typed, TypeOK
<1>5. \A g \in Gateway : /\ g.generation \in Nat /\ g.generation > 0 /\ g.programmed \in Nat
                         /\ \A v \in g.certificates : v \in Nat
  BY DEF Gateway, Generations, Versions
<1>. QED
  BY <1>1, <1>2, <1>3, <1>4, <1>5

\* Every copy has the generation and the specification of an earlier one, unless the user
\* has edited the Gateway.
Comes(g) == \E h \in Copies \ {Nil} : g.generation = h.generation /\ g.spec = h.spec

LEMMA CopiesCome ==
  ASSUME Planned, Moves, NEW g \in Copies' \ {Nil}
  PROVE  \/ Comes(g)
         \/ /\ g = server' /\ server \in Gateway /\ server \in Copies \ {Nil}
            /\ server'.generation = server.generation + 1 /\ Edited
<1>1. CASE g = server'
  BY <1>1 DEF Comes, Copies, Moves, ServerMoves, Rewritten, Recorded, MarkedDeleted, Edited, Same
<1>2. CASE g = cache'
  BY <1>2 DEF Comes, Copies, Moves, InformerMoves
<1>3. CASE Busy' /\ g = job'.copy
  <2>1. Busy => job.copy \in Copies \ {Nil}
    BY CopiesTyped DEF Copies
  <2>2. CASE Carries
    BY <1>3, <2>1, <2>2 DEF Carries, Comes, Same
  <2>3. CASE Takes
    BY <1>3, <2>3 DEF Takes, Comes, Copies
  <2>. QED
    BY <1>3, <2>2, <2>3 DEF Moves, JobMoves, Busy
<1>. QED
  BY <1>1, <1>2, <1>3 DEF Copies

LEMMA CopiesAgreeNext == ASSUME Planned, Moves, CopiesAgree PROVE CopiesAgree'
<1>1. \A g \in Copies' \ {Nil} :
        \/ \E h \in Copies \ {Nil} : g.generation = h.generation /\ g.spec = h.spec
        \/ /\ g = server' /\ server \in Gateway /\ server \in Copies \ {Nil}
           /\ server'.generation = server.generation + 1 /\ Edited
  BY CopiesCome DEF Comes
<1>2. \A h \in Copies \ {Nil} :
        /\ h.generation \in Nat
        /\ server # Nil => h.generation <= server.generation
        /\ \A k \in Copies \ {Nil} : h.generation = k.generation => h.spec = k.spec
  BY CopiesTyped DEF CopiesAgree
<1>3. \A g, h \in Copies' \ {Nil} : g.generation = h.generation => g.spec = h.spec
  <2> SUFFICES ASSUME NEW g \in Copies' \ {Nil}, NEW h \in Copies' \ {Nil},
                      g.generation = h.generation
               PROVE  g.spec = h.spec
    OBVIOUS
  <2>1. CASE \E k \in Copies \ {Nil} : g.generation = k.generation /\ g.spec = k.spec
    <3>1. PICK k \in Copies \ {Nil} : g.generation = k.generation /\ g.spec = k.spec
      BY <2>1
    <3>2. CASE \E m \in Copies \ {Nil} : h.generation = m.generation /\ h.spec = m.spec
      BY <1>2, <3>1, <3>2
    <3>3. CASE h = server' /\ server \in Gateway /\ server \in Copies \ {Nil}
               /\ server'.generation = server.generation + 1
      <4>1. k.generation <= server.generation /\ k.generation \in Nat /\ server.generation \in Nat
        BY <1>2, <3>1, <3>3
      <4>2. h.generation = server.generation + 1 /\ h.generation = k.generation
        BY <2>1, <3>1, <3>3
      <4>. QED
        BY <4>1, <4>2
    <3>. QED
      BY <1>1, <3>2, <3>3
  <2>2. CASE g = server' /\ server \in Gateway /\ server \in Copies \ {Nil}
             /\ server'.generation = server.generation + 1
    <3>1. CASE \E m \in Copies \ {Nil} : h.generation = m.generation /\ h.spec = m.spec
      <4>1. PICK k \in Copies \ {Nil} : h.generation = k.generation /\ h.spec = k.spec
        BY <3>1
      <4>2. k.generation <= server.generation /\ k.generation \in Nat /\ server.generation \in Nat
        BY <1>2, <2>2, <4>1
      <4>. QED
        BY <2>2, <4>1, <4>2
    <3>. QED
      BY <1>1, <2>2, <3>1
  <2>. QED
    BY <1>1, <2>1, <2>2
<1>4. server' # Nil => \A g \in Copies' \ {Nil} : g.generation <= server'.generation
  <2> SUFFICES ASSUME server' # Nil, NEW g \in Copies' \ {Nil}
               PROVE  g.generation <= server'.generation
    OBVIOUS
  <2>1. /\ server \in Copies \ {Nil} /\ server.generation \in Nat
        /\ server'.generation \in {server.generation, server.generation + 1}
    <3>1. server \in Copies \ {Nil}
      BY DEF Moves, ServerMoves, Copies
    <3>. QED
      BY <1>2, <3>1 DEF Moves, ServerMoves, Rewritten, Recorded, Edited, MarkedDeleted, Same
  <2>2. CASE \E k \in Copies \ {Nil} : g.generation = k.generation /\ g.spec = k.spec
    <3>1. PICK k \in Copies \ {Nil} : g.generation = k.generation
      BY <2>2
    <3>2. k.generation <= server.generation /\ k.generation \in Nat
      BY <1>2, <2>1, <3>1
    <3>. QED
      BY <2>1, <3>1, <3>2
  <2>3. CASE g = server'
    BY <2>1, <2>3
  <2>. QED
    BY <1>1, <2>2, <2>3
<1>5. Busy' /\ cache' # Nil => job'.copy.generation <= cache'.generation
  <2> SUFFICES ASSUME Busy', cache' # Nil PROVE job'.copy.generation <= cache'.generation
    OBVIOUS
  <2>1. CASE Carries
    <3>1. Busy /\ job'.copy.generation = job.copy.generation /\ job.copy \in Copies \ {Nil}
      BY <2>1, CopiesTyped DEF Carries, Same, Copies
    <3>2. CASE cache' = cache
      BY <3>1, <3>2 DEF CopiesAgree
    <3>3. CASE cache' = server
      BY <1>2, <3>1, <3>3
    <3>. QED
      BY <3>2, <3>3 DEF Moves, InformerMoves
  <2>2. CASE Takes
    <3>1. cache \in Copies \ {Nil} /\ job'.copy = cache /\ cache' = cache
      BY <2>2 DEF Takes, Copies
    <3>. QED
      BY <1>2, <3>1
  <2>. QED
    BY <2>1, <2>2 DEF Moves, JobMoves, Busy
<1>. QED
  BY <1>3, <1>4, <1>5 DEF CopiesAgree

LEMMA ReportsAreKnownNext ==
  ASSUME Planned, Moves, CopiesAgree, ReportsAreKnown
  PROVE  ReportsAreKnown'
<1> SUFFICES ASSUME NEW g \in Copies' \ {Nil}
             PROVE  /\ cache' # Nil => g.programmed <= cache'.generation
                    /\ Busy' => g.programmed <= job'.copy.generation
  BY DEF ReportsAreKnown
<1>1. \A h \in Copies \ {Nil} :
        /\ h.generation \in Nat /\ h.programmed \in Nat
        /\ server # Nil => h.generation <= server.generation
        /\ cache # Nil => h.programmed <= cache.generation
        /\ Busy => h.programmed <= job.copy.generation
  BY CopiesTyped DEF CopiesAgree, ReportsAreKnown
<1>2. /\ server # Nil => server \in Copies \ {Nil} /\ cache # Nil
      /\ cache # Nil => cache \in Copies \ {Nil}
      /\ Busy => job.copy \in Copies \ {Nil}
  BY CopiesTyped DEF Copies, Planned, Older, CacheIsOlder
<1>3. \/ \E h \in Copies \ {Nil} : g.programmed = h.programmed
      \/ g.programmed = 0
      \/ Busy /\ g.programmed = job.copy.generation
  <2>1. CASE g = server'
    BY <1>2, <2>1 DEF Moves, ServerMoves, Rewritten, Recorded, Edited, MarkedDeleted, At
  <2>2. CASE g = cache'
    BY <1>2, <2>2 DEF Moves, InformerMoves
  <2>3. CASE Busy' /\ g = job'.copy
    <3>1. CASE Carries
      <4>1. g.programmed = server'.programmed /\ server' # Nil
            => \/ \E h \in Copies \ {Nil} : g.programmed = h.programmed
               \/ g.programmed = 0
               \/ Busy /\ g.programmed = job.copy.generation
        BY <1>2 DEF Moves, ServerMoves, Rewritten, Recorded, Edited, MarkedDeleted, At
      <4>. QED
        BY <1>2, <2>3, <3>1, <4>1 DEF Carries
    <3>2. CASE Takes
      BY <1>2, <2>3, <3>2 DEF Takes
    <3>. QED
      BY <2>3, <3>1, <3>2 DEF Moves, JobMoves, Busy
  <2>. QED
    BY <2>1, <2>2, <2>3 DEF Copies
<1>4. /\ g.programmed \in Nat
      /\ cache # Nil => g.programmed <= cache.generation
      /\ Busy => g.programmed <= job.copy.generation
  BY <1>1, <1>2, <1>3 DEF CopiesAgree
<1>5. cache' # Nil => g.programmed <= cache'.generation
  <2>1. CASE cache' = cache
    BY <1>4, <2>1
  <2>2. CASE cache' = server /\ cache' # Nil
    BY <1>1, <1>2, <1>4, <2>2
  <2>. QED
    BY <2>1, <2>2 DEF Moves, InformerMoves
<1>6. Busy' => g.programmed <= job'.copy.generation
  <2>1. CASE Carries
    BY <1>4, <2>1 DEF Carries, Same
  <2>2. CASE Takes
    BY <1>4, <2>2 DEF Takes
  <2>. QED
    BY <2>1, <2>2 DEF Moves, JobMoves, Busy
<1>. QED
  BY <1>5, <1>6

LEMMA CertificatesAreKnownNext ==
  ASSUME Planned, Moves, CertificatesAreKnown
  PROVE  CertificatesAreKnown'
<1> SUFFICES ASSUME NEW g \in Copies' \ {Nil}, NEW v \in g.certificates
             PROVE  /\ v <= secret'.version
                    /\ Busy' => v <= job'.resolved
                    /\ server' # Nil /\ v = secret'.version => server'.certificates = {v}
  BY DEF CertificatesAreKnown
<1>1. /\ secret.version \in Nat /\ secret'.version \in Nat
      /\ secret'.version >= secret.version
      /\ Busy => job.resolved \in Nat /\ job.resolved <= secret.version
  BY CopiesTyped DEF Moves, SecretMoves
<1>2. /\ server # Nil => server \in Copies \ {Nil} /\ cache # Nil
      /\ cache # Nil => cache \in Copies \ {Nil}
      /\ Busy => job.copy \in Copies \ {Nil}
  BY CopiesTyped DEF Copies, Planned, Older, CacheIsOlder
<1>3. \/ \E h \in Copies \ {Nil} : v \in h.certificates
      \/ Recorded /\ v = job.resolved
  <2>1. CASE g = server'
    BY <1>2, <2>1 DEF Moves, ServerMoves, Rewritten, Recorded, Edited, MarkedDeleted, Same
  <2>2. CASE g = cache'
    BY <1>2, <2>2 DEF Moves, InformerMoves
  <2>3. CASE Busy' /\ g = job'.copy
    BY <1>2, <2>3 DEF Moves, JobMoves, Carries, Takes, Same, Busy
  <2>. QED
    BY <2>1, <2>2, <2>3 DEF Copies
<1>4. /\ v \in Nat /\ v <= secret.version
      /\ Busy => v <= job.resolved
      /\ server # Nil /\ v = secret.version => server.certificates = {v} \/ Recorded
  <2>1. CASE \E h \in Copies \ {Nil} : v \in h.certificates
    <3>1. PICK h \in Copies \ {Nil} : v \in h.certificates
      BY <2>1
    <3>. QED
      BY <3>1, CopiesTyped DEF CertificatesAreKnown
  <2>2. CASE Recorded /\ v = job.resolved
    BY <1>1, <2>2 DEF Recorded, At
  <2>. QED
    BY <1>3, <2>1, <2>2
<1>5. v <= secret'.version
  BY <1>1, <1>4
<1>6. Busy' => v <= job'.resolved
  <2>1. CASE Carries
    BY <1>4, <2>1 DEF Carries
  <2>2. CASE Takes
    BY <1>4, <2>2 DEF Takes
  <2>. QED
    BY <2>1, <2>2 DEF Moves, JobMoves, Busy
<1>7. server' # Nil /\ v = secret'.version => server'.certificates = {v}
  <2> SUFFICES ASSUME server' # Nil, v = secret'.version PROVE server'.certificates = {v}
    OBVIOUS
  <2>1. v = secret.version
    BY <1>1, <1>4
  <2>2. server # Nil
    BY DEF Moves, ServerMoves
  <2>3. CASE UNCHANGED server
    <3>1. ~Recorded \/ server'.certificates = {job.resolved}
      BY DEF Recorded
    <3>2. Recorded => v = job.resolved
      BY <1>1, <1>4, <2>1 DEF Recorded, At
    <3>. QED
      BY <1>4, <2>1, <2>2, <2>3, <3>1, <3>2
  <2>4. CASE Recorded
    <3>1. v = job.resolved
      BY <1>1, <1>4, <2>1, <2>4 DEF Recorded, At
    <3>. QED
      BY <2>4, <3>1 DEF Recorded
  <2>5. CASE ~Recorded /\ (Rewritten \/ Edited \/ MarkedDeleted)
    BY <1>4, <2>1, <2>2, <2>5 DEF Rewritten, Edited, MarkedDeleted, Same
  <2>. QED
    BY <2>3, <2>4, <2>5 DEF Moves, ServerMoves
<1>. QED
  BY <1>5, <1>6, <1>7

LEMMA DeletingIsProtectedNext ==
  ASSUME Planned, Moves, DeletingIsProtected
  PROVE  DeletingIsProtected'
BY DEF DeletingIsProtected, Moves, ServerMoves, Rewritten, Recorded, Edited, MarkedDeleted,
  InformerMoves, Same

LEMMA NothingNewNext ==
  ASSUME Planned, Moves, NothingNew
  PROVE  NothingNew'
<1> SUFFICES ASSUME Busy', ~queued' PROVE NothingNew'
  BY DEF NothingNew
<1>1. CASE Takes
  <2>1. /\ UNCHANGED <<cache, secret>> /\ cache # Nil /\ job'.copy = cache
        /\ job'.resolved = secret.version
        /\ ~cache.deleting => (secret.present <=> job'.pc # "reject")
    BY <1>1 DEF Takes
  <2>. QED
    BY <2>1 DEF NothingNew
<1>2. CASE Carries
  <2>1. /\ Busy /\ ~queued /\ Same(job'.copy, job.copy) /\ job'.resolved = job.resolved
        /\ job'.pc = "reject" <=> job.pc = "reject"
    BY <1>2 DEF Carries
  <2>2. /\ cache # Nil
        /\ cache.generation = job.copy.generation /\ cache.deleting = job.copy.deleting
        /\ cache.recorded = job.copy.recorded /\ cache.certificates = job.copy.certificates
        /\ ~job.copy.deleting =>
             job.resolved = secret.version /\ (secret.present <=> job.pc # "reject")
    BY <2>1 DEF NothingNew
  <2>3. /\ cache' # Nil
        /\ cache'.generation = cache.generation /\ cache'.deleting = cache.deleting
        /\ cache'.recorded = cache.recorded /\ cache'.certificates = cache.certificates
    BY <2>2 DEF Moves, InformerMoves, Watched, Busy
  <2>4. secret' = secret \/ job.copy.deleting
    BY <2>2 DEF Moves, SecretMoves
  <2>. QED
    BY <2>1, <2>2, <2>3, <2>4 DEF NothingNew, Same
<1>. QED
  BY <1>1, <1>2 DEF Moves, JobMoves, Busy

LEMMA KnownNext == ASSUME Planned, KnownInv, [Next]_vars PROVE KnownInv' /\ Moves
BY NextMoves, CopiesAgreeNext, ReportsAreKnownNext, CertificatesAreKnownNext,
  DeletingIsProtectedNext, NothingNewNext DEF KnownInv

----------------------------------------------------------------------------
(* What each step does to the listeners and to the plan.                   *)

\* A step that leaves the listener as it is.
Spared(l) == lb'.listeners[l] = lb.listeners[l] /\ (l \in reverted => l \in reverted')

\* The reconcile writes the listener.
Given(l) ==
  /\ WriteListener(l) /\ Busy /\ job.pc = "listener" /\ UNCHANGED <<server, cache, secret>>
  /\ lb'.listeners[l] # Nil /\ lb'.listeners[l].certificate = job.used

\* The reconcile deletes the listener.
Deleted(l) ==
  /\ Busy /\ job.pc = "delete" /\ UNCHANGED <<server, cache, secret>>
  /\ \E x \in job.gone : x.kind = "listener" /\ x.of = l

\* A route gives back a certificate that is on record.
GivenBack(l) ==
  /\ lb.listeners[l] # Nil /\ lb'.listeners[l] # Nil
  /\ UNCHANGED <<server, cache, secret, queued, job>>
  /\ ~OffRecord(lb'.listeners[l].certificate)

\* A route gives back the certificate that the listener has, or one that is off record.
Harmless(l) ==
  /\ UNCHANGED <<server, cache, secret, queued, job>> /\ reverted \subseteq reverted'
  /\ \/ l \in reverted'
     \/ /\ lb.listeners[l] # Nil /\ lb'.listeners[l] # Nil
        /\ lb'.listeners[l].certificate = lb.listeners[l].certificate

LEMMA ListenerMoves ==
  ASSUME Planned, [Next]_vars, NEW l \in Https
  PROVE  Spared(l) \/ Given(l) \/ Deleted(l) \/ GivenBack(l) \/ Harmless(l)
<1>0. l \in Names
  BY DEF Names
<1>1. CASE ReadLoadBalancer \/ EnsureCertificate \/ \E k \in Https : EnsurePolicy(k)
  <2>1. lb'.listeners = lb.listeners /\ reverted' = reverted
    BY <1>1, ReadParts, EnsureCertificateParts, EnsurePolicyParts DEF Planned, history
  <2>. QED
    BY <2>1 DEF Spared
<1>2. ASSUME NEW k \in Https, WriteListener(k) PROVE Spared(l) \/ Given(l)
  <2>1. CASE UNCHANGED <<lb, history>>
    BY <2>1 DEF Spared, history
  <2>2. CASE ~UNCHANGED <<lb, history>>
    <3>1. /\ Busy /\ job.pc = "listener" /\ UNCHANGED <<server, cache, secret>>
          /\ Wanted(k) \in Listener /\ reverted' = reverted \ {k}
          /\ \A n \in Names : lb'.listeners[n] = IF n = k THEN Wanted(k) ELSE lb.listeners[n]
      BY <1>2, <2>2, WriteParts DEF Planned
    <3>2. CASE l # k
      BY <1>0, <3>1, <3>2 DEF Spared
    <3>3. CASE l = k
      <4>1. lb'.listeners[l] = Wanted(l) /\ Wanted(l) # Nil
        BY <1>0, <3>1, <3>3
      <4>2. Wanted(l).certificate = job.used
        BY DEF Wanted
      <4>. QED
        BY <1>2, <3>1, <3>3, <4>1, <4>2 DEF Given
    <3>. QED
      BY <3>2, <3>3
  <2>. QED
    BY <2>1, <2>2
<1>3. ASSUME NEW x \in Deletion, DeleteNext(x) PROVE Spared(l) \/ Deleted(l)
  <2>1. /\ Busy /\ job.pc = "delete" /\ x \in job.gone
        /\ UNCHANGED <<server, cache, secret>>
        /\ \A n \in Names : lb'.listeners[n] =
              IF x.kind = "listener" /\ x.of = n THEN Nil ELSE lb.listeners[n]
    BY <1>3, DeleteNextParts DEF Planned
  <2>2. reverted' = IF x.kind = "listener" THEN reverted \ {x.of} ELSE reverted
    BY <1>3 DEF DeleteNext, history
  <2>. QED
    BY <1>0, <2>1, <2>2 DEF Spared, Deleted
<1>4. CASE GrpcWrite
  <2>1. /\ UNCHANGED <<server, cache, secret, queued, job>> /\ grpcJob.of \in Names
        /\ lb.listeners[grpcJob.of] # Nil
        /\ \A n \in Names : n # grpcJob.of => lb'.listeners[n] = lb.listeners[n]
        /\ lb'.listeners[grpcJob.of] \in Listener
        /\ lb'.listeners[grpcJob.of].certificate = grpcJob.seen.certificate
    BY <1>4, GrpcWriteParts DEF Planned
  <2>2. reverted' = IF /\ grpcJob.seen.certificate # lb.listeners[grpcJob.of].certificate
                       /\ OffRecord(grpcJob.seen.certificate)
                    THEN reverted \cup {grpcJob.of} ELSE reverted
    BY <1>4 DEF GrpcWrite
  <2>3. CASE l # grpcJob.of
    BY <1>0, <2>1, <2>2, <2>3 DEF Spared
  <2>4. CASE l = grpcJob.of
    <3>1. lb'.listeners[l] # Nil
      BY <2>1, <2>4
    <3>2. CASE OffRecord(grpcJob.seen.certificate)
      BY <2>1, <2>2, <2>4, <3>1, <3>2 DEF Harmless
    <3>3. CASE ~OffRecord(grpcJob.seen.certificate)
      BY <2>1, <2>4, <3>1, <3>3 DEF GivenBack
    <3>. QED
      BY <3>2, <3>3
  <2>. QED
    BY <2>3, <2>4
<1>5. CASE GrpcPend \/ GrpcCommit \/ GrpcRecord \/ GrpcFail
  BY <1>5, GrpcEndParts DEF Planned, history, Spared
<1>6. ASSUME NEW k \in Tls, TlsWrite(k) \/ TlsDelete(k) PROVE Spared(l)
  BY <1>0, <1>6, TlsParts DEF Planned, Spared, history
<1>7. CASE UNCHANGED <<lb, history>>
  BY <1>7 DEF Spared, history
<1>8. \/ UNCHANGED <<lb, history>>
      \/ ReadLoadBalancer \/ EnsureCertificate
      \/ (\E k \in Https : EnsurePolicy(k) \/ WriteListener(k))
      \/ (\E x \in Deletion : DeleteNext(x))
      \/ GrpcWrite \/ GrpcPend \/ GrpcCommit \/ GrpcRecord \/ GrpcFail \/ TlsStep
  BY DEF Next, Step, Take, Accept, CheckProgrammed, MarkPending, Protect, ListenersWritten,
    Report, Record, Reject, RemoveFinalizer, Fail, GrpcStep, GrpcRead, Edit, Delete, Rotate,
    DeleteSecret, Observe, Crash, Update, NoCall, vars
<1>. QED
  BY <1>1, <1>2, <1>3, <1>4, <1>5, <1>6, <1>7, <1>8 DEF TlsStep

\* What the steps of the worker make of its plan.
PlanMoves ==
  \/ job' = job
  \/ job'.pc \in {"pend", "protect", "read"} /\ job'.used = job.used /\ job'.gone = job.gone
  \/ /\ ReadLoadBalancer /\ job'.used = job.used /\ job'.seen = lb
     /\ lb'.listeners = lb.listeners /\ secret' = secret
     /\ ~job.copy.deleting => job'.gone = {} /\ job'.pc = "certificate"
  \/ /\ job.pc = "certificate" /\ job'.pc = "policy"
     /\ job'.used = secret.version /\ secret' = secret
     /\ job'.todo = Managed(job.copy.spec) /\ job'.seen = job.seen /\ job'.gone = {}
  \/ /\ job.pc = "policy" /\ job'.pc = "listener"
     /\ job'.used = job.used /\ job'.todo = job.todo /\ job'.seen = job.seen /\ job'.gone = {}
  \/ /\ job.pc = "listener" /\ job'.pc = "policy" /\ job'.used = job.used
     /\ job'.seen = job.seen /\ job'.gone = {}
     /\ \E l \in job.todo : job'.todo = job.todo \ {l} /\ WriteListener(l)
                          /\ (job.seen.listeners[l] = Wanted(l) \/ Given(l))
  \/ /\ job.pc = "policy" /\ job.todo = {} /\ job'.used = 0
     /\ job'.pc \in {"delete", "release", "report"}
     /\ \A x \in job'.gone : x.kind = "listener" => x.of \notin job.copy.spec
  \/ /\ job.pc = "delete" /\ job'.pc \in {"delete", "release", "report"}
     /\ job'.used = job.used /\ job'.gone \subseteq job.gone
  \/ /\ job.pc = "report" /\ job'.pc = "record"
     /\ job'.used = job.used /\ job'.gone = job.gone

LEMMA NextPlanMoves ==
  ASSUME Planned, [Next]_vars, Busy, Busy'
  PROVE  PlanMoves
<1>0. job \in Job
  BY DEF Planned, Typed, TypeOK
<1>1. CASE Accept \/ CheckProgrammed \/ MarkPending \/ Protect \/ Report
  <2>1. /\ <<job.pc, job'.pc>> \in Begins
        /\ \E c \in Gateway : job' = [job EXCEPT !.pc = job'.pc, !.copy = c]
    BY <1>1, BeginParts DEF Planned, Busy
  <2>2. job'.used = job.used /\ job'.gone = job.gone
    BY <1>0, <2>1 DEF Job
  <2>. QED
    BY <2>1, <2>2 DEF PlanMoves, Begins
<1>2. CASE ReadLoadBalancer
  <2>1. job'.used = job.used
    BY <1>0, <1>2 DEF ReadLoadBalancer, DeleteAll, Job
  <2>. QED
    BY <1>2, <2>1, ReadParts DEF PlanMoves, Planned
<1>3. CASE EnsureCertificate
  BY <1>3, EnsureCertificateParts DEF PlanMoves, Planned
<1>4. ASSUME NEW l \in Https, EnsurePolicy(l) PROVE PlanMoves
  BY <1>4, EnsurePolicyParts DEF PlanMoves, Planned
<1>5. ASSUME NEW l \in Https, WriteListener(l) PROVE PlanMoves
  <2>1. /\ job.pc = "listener" /\ job'.pc = "policy" /\ job'.used = job.used
        /\ job'.seen = job.seen /\ job'.gone = {} /\ l \in job.todo
        /\ job'.todo = job.todo \ {l} /\ UNCHANGED <<server, cache, secret>>
    BY <1>5, WriteParts DEF Planned
  <2>2. CASE job.seen.listeners[l] # Wanted(l)
    <3>1. Wanted(l) \in Listener /\ l \in Names
          /\ \A k \in Names : lb'.listeners[k] = IF k = l THEN Wanted(l) ELSE lb.listeners[k]
      BY <1>5, <2>2, WriteParts DEF Planned, Names
    <3>2. lb'.listeners[l] = Wanted(l) /\ Wanted(l) # Nil /\ Wanted(l).certificate = job.used
      BY <3>1 DEF Wanted
    <3>3. Given(l)
      BY <1>5, <2>1, <3>2 DEF Given
    <3>. QED
      BY <1>5, <2>1, <3>3 DEF PlanMoves
  <2>3. CASE job.seen.listeners[l] = Wanted(l)
    BY <1>5, <2>1, <2>3 DEF PlanMoves
  <2>. QED
    BY <2>2, <2>3
<1>6. CASE ListenersWritten
  <2>1. job.seen \in LoadBalancer
    BY <1>6 DEF ListenersWritten, At, Planned, JobPlan, SnapshotShows, Programming
  <2>2. /\ job.pc = "policy" /\ job.todo = {}
        /\ job'.pc \in {"delete", "release", "report"}
        /\ job'.gone = Missing(job.seen, Cleanup(job.copy), job.copy.spec)
                       \cup Unused(job.copy, job.seen, {job.used})
    BY <1>6, <2>1, ListenersWrittenParts DEF Planned
  <2>3. job'.used = 0
    BY <1>0, <1>6 DEF ListenersWritten, DeleteAll, Job
  <2>4. \A x \in job'.gone : x.kind = "listener" => x.of \notin job.copy.spec
    BY <2>2 DEF Missing, Unused
  <2>. QED
    BY <2>2, <2>3, <2>4 DEF PlanMoves
<1>7. ASSUME NEW x \in Deletion, DeleteNext(x) PROVE PlanMoves
  <2>1. job'.used = job.used
    BY <1>0, <1>7 DEF DeleteNext, DeleteAll, Job
  <2>. QED
    BY <1>7, <2>1, DeleteNextParts DEF PlanMoves, Planned
<1>8. CASE job' = job
  BY <1>8 DEF PlanMoves
<1>9. Take \/ Record \/ Reject \/ RemoveFinalizer \/ Fail => ~Busy \/ ~Busy'
  BY DEF Take, Record, Reject, RemoveFinalizer, Fail, Finish, Busy
<1>10. GrpcStep \/ GrpcFail \/ TlsStep \/ (\E spec \in Specs : Edit(spec)) \/ Delete \/ Rotate
       \/ DeleteSecret \/ Observe \/ UNCHANGED vars => job' = job
  BY DEF GrpcStep, GrpcRead, GrpcWrite, GrpcPend, GrpcCommit, GrpcRecord, GrpcFail, TlsStep,
    TlsWrite, TlsDelete, Edit, Delete, Rotate, DeleteSecret, Observe, vars
<1>11. Crash => ~Busy'
  BY DEF Crash, Busy
<1>. QED
  BY <1>1, <1>2, <1>3, <1>4, <1>5, <1>6, <1>7, <1>8, <1>9, <1>10, <1>11 DEF Next, Step

----------------------------------------------------------------------------
(* A reconcile serves what it programs.                                    *)

LEMMA TakeStarts ==
  ASSUME Planned, [Next]_vars, ~Busy, Busy'
  PROVE  /\ job'.used = 0 /\ job'.gone = {} /\ job'.pc \in {"accept", "read", "reject"}
<1>1. Take
  <2>1. /\ Accept \/ CheckProgrammed \/ MarkPending \/ Protect \/ ReadLoadBalancer
           \/ EnsureCertificate \/ (\E l \in Https : EnsurePolicy(l) \/ WriteListener(l))
           \/ ListenersWritten \/ (\E x \in Deletion : DeleteNext(x))
           \/ Report \/ Record \/ Reject \/ RemoveFinalizer \/ Fail => Busy
    BY DEF Accept, CheckProgrammed, MarkPending, Protect, ReadLoadBalancer, EnsureCertificate,
      EnsurePolicy, WriteListener, ListenersWritten, DeleteNext, Report, Record, Reject,
      RemoveFinalizer, Fail, At
  <2>2. GrpcStep \/ GrpcFail \/ TlsStep \/ (\E spec \in Specs : Edit(spec)) \/ Delete
        \/ Rotate \/ DeleteSecret \/ Observe \/ UNCHANGED vars => job' = job
    BY DEF GrpcStep, GrpcRead, GrpcWrite, GrpcPend, GrpcCommit, GrpcRecord, GrpcFail, TlsStep,
    TlsWrite, TlsDelete, Edit, Delete, Rotate, DeleteSecret, Observe, vars
  <2>3. Crash => job' = Nil
    BY DEF Crash
  <2>. QED
    BY <2>1, <2>2, <2>3 DEF Next, Step, Busy
<1>. QED
  BY <1>1 DEF Take, Busy

LEMMA UsedNext == ASSUME Planned, Moves, UsedIsKnown, [Next]_vars PROVE UsedIsKnown'
<1> SUFFICES ASSUME Busy' PROVE job'.used <= secret'.version
  BY DEF UsedIsKnown
<1>1. secret.version \in Nat /\ secret'.version \in Nat /\ secret'.version >= secret.version
  BY CopiesTyped DEF Moves, SecretMoves
<1>2. CASE ~Busy
  BY <1>1, <1>2, TakeStarts
<1>3. CASE Busy
  <2>1. job.used \in Nat /\ job.used <= secret.version
    BY <1>3, CopiesTyped DEF UsedIsKnown
  <2>2. job'.used \in {job.used, secret.version, 0}
    BY <1>3, NextPlanMoves DEF PlanMoves
  <2>. QED
    BY <1>1, <2>1, <2>2
<1>. QED
  BY <1>2, <1>3

LEMMA SparesNext ==
  ASSUME Planned, Moves, SparesSpecified, [Next]_vars
  PROVE  SparesSpecified'
<1> SUFFICES ASSUME Busy', ~job'.copy.deleting, NEW x \in job'.gone, x.kind = "listener"
             PROVE  x.of \notin job'.copy.spec
  BY DEF SparesSpecified
<1>1. CASE ~Busy
  BY <1>1, TakeStarts
<1>2. CASE Busy
  <2>1. job'.copy.spec = job.copy.spec /\ ~job.copy.deleting
    BY <1>2 DEF Moves, JobMoves, Carries, Takes, Same, Busy
  <2>2. x \in job.gone \/ x.of \notin job.copy.spec
    BY <1>2, <2>1, NextPlanMoves DEF PlanMoves
  <2>. QED
    BY <1>2, <2>1, <2>2 DEF SparesSpecified
<1>. QED
  BY <1>1, <1>2

\* What a reconcile has dealt with and serves after the step was dealt with before it, or is
\* what the step writes.
LEMMA DoneBefore ==
  ASSUME Planned, UsedIsKnown, [Next]_vars, Busy, Busy', NEW l \in Https, Done(l)',
         job.resolved = secret.version, secret'.version = secret.version,
         l \in Managed(job.copy.spec), ~job.copy.deleting
  PROVE  Done(l) \/ Given(l) \/ Serves(l)'
<1>0. /\ job \in Job /\ job.resolved \in Nat /\ job.used \in Nat /\ job.used <= secret.version
      /\ secret.version \in Versions
  BY CopiesTyped DEF UsedIsKnown, Planned, Typed, TypeOK
<1>1. CASE job' = job
  BY <1>1 DEF Done, Programming, Busy
<1>2. CASE job'.pc \in {"pend", "protect", "read"}
  BY <1>2 DEF Done, Programming
<1>3. CASE ReadLoadBalancer
  <2>1. job'.pc = "certificate" /\ job'.seen = lb /\ lb'.listeners = lb.listeners
    BY <1>3, ReadParts DEF Planned
  <2>. QED
    BY <2>1 DEF Done, Serves
<1>4. CASE /\ job.pc = "certificate" /\ job'.pc = "policy"
           /\ job'.todo = Managed(job.copy.spec) /\ job'.seen = job.seen
  BY <1>4 DEF Done, Programming
<1>5. CASE /\ job.pc = "policy" /\ job'.pc = "listener"
           /\ job'.todo = job.todo /\ job'.seen = job.seen
  BY <1>5 DEF Done, Programming
<1>6. CASE /\ job.pc = "listener" /\ job'.pc = "policy" /\ job'.seen = job.seen
           /\ \E k \in job.todo : job'.todo = job.todo \ {k} /\ WriteListener(k)
                                /\ (job.seen.listeners[k] = Wanted(k) \/ Given(k))
  <2>1. PICK k \in job.todo : /\ job'.todo = job.todo \ {k}
                             /\ (job.seen.listeners[k] = Wanted(k) \/ Given(k))
    BY <1>6
  <2>2. CASE l # k \/ l \notin job.todo
    <3>0. Programming
      BY <1>6 DEF Programming
    <3>1. l \in job'.todo <=> l \in job.todo
      BY <2>1, <2>2
    <3>2. l \in job.todo => /\ job.seen.listeners[l] # Nil
                            /\ job.seen.listeners[l].certificate = secret.version
      BY <1>6, <3>1 DEF Done
    <3>. QED
      BY <1>6, <3>0, <3>1, <3>2 DEF Done
  <2>3. CASE l = k /\ job.seen.listeners[k] = Wanted(k)
    <3>1. Programming
      BY <1>6 DEF Programming
    <3>2. job.used >= job.resolved /\ job.pc # "certificate"
      BY <1>6, <3>1 DEF Planned, JobPlan, SnapshotShows
    <3>3. job.used = secret.version
      BY <1>0, <3>2
    <3>4. Wanted(l) \in Listener /\ Wanted(l).certificate = secret.version
      BY <1>0, <3>3 DEF Wanted, Listener
    <3>. QED
      BY <2>3, <3>1, <3>4 DEF Done
  <2>. QED
    BY <2>1, <2>2, <2>3
<1>7. CASE job.pc = "policy" /\ job.todo = {}
  BY <1>7 DEF Done
<1>8. CASE job.pc \in {"delete", "report"}
  BY <1>8 DEF Done
<1>. QED
  BY <1>1, <1>2, <1>3, <1>4, <1>5, <1>6, <1>7, <1>8, NextPlanMoves DEF PlanMoves

LEMMA GetsServedNext ==
  ASSUME Planned, Moves, PlanInv, [Next]_vars
  PROVE  GetsServed'
<1> SUFFICES ASSUME Busy', ~job'.copy.deleting, job'.resolved = secret'.version,
                    NEW l \in Managed(job'.copy.spec), Done(l)'
             PROVE  ServedOrReverted(l)' \/ Refuted(l)'
  BY DEF GetsServed, Managed
<1>1. CASE ~Busy
  BY <1>1, TakeStarts DEF Done, Programming
<1>2. CASE Busy
  <2>1. Same(job'.copy, job.copy) /\ job'.resolved = job.resolved
    BY <1>2 DEF Moves, JobMoves, Carries, Takes, Busy
  <2>2. /\ job.resolved \in Nat /\ secret.version \in Nat /\ secret'.version \in Nat
        /\ job.resolved <= secret.version /\ secret.version <= secret'.version
        /\ job.used \in Nat /\ job.used <= secret.version /\ job.copy \in Gateway
    BY <1>2, CopiesTyped DEF Moves, SecretMoves, PlanInv, UsedIsKnown
  <2>3. job.resolved = secret.version /\ secret'.version = secret.version
    BY <2>1, <2>2
  <2>4. l \in Https /\ l \in Managed(job.copy.spec) /\ ~job.copy.deleting
    BY <2>1 DEF Same, Managed
  <2>5. Done(l) => ServedOrReverted(l) \/ Refuted(l)
    BY <1>2, <2>3, <2>4 DEF PlanInv, GetsServed
  <2>6. Done(l) \/ Given(l) \/ Serves(l)'
    BY <1>2, <2>3, <2>4, DoneBefore DEF PlanInv
  <2>7. CASE Given(l)
    <3>1. Programming /\ job.pc # "certificate"
      BY <2>7 DEF Given, Programming
    <3>2. job.used >= job.resolved
      BY <3>1 DEF Planned, JobPlan, SnapshotShows
    <3>3. job.used = secret.version
      BY <2>2, <2>3, <3>2
    <3>. QED
      BY <2>3, <2>7, <3>3 DEF Given, ServedOrReverted, Serves
  <2>8. CASE Serves(l)'
    BY <2>8 DEF ServedOrReverted
  <2>9. CASE Spared(l) /\ Done(l)
    BY <2>1, <2>3, <2>5, <2>9 DEF Spared, ServedOrReverted, Serves, Refuted, Same
  <2>10. CASE Deleted(l)
    BY <1>2, <2>4, <2>10 DEF Deleted, PlanInv, SparesSpecified, Managed
  <2>11. CASE GivenBack(l)
    <3>. DEFINE v == lb'.listeners[l].certificate
    <3>1. lb'.listeners[l] # Nil /\ v \in job.copy.certificates /\ UNCHANGED <<secret, job>>
      BY <1>2, <2>11 DEF GivenBack, OffRecord
    <3>2. v \in Nat /\ v <= job.resolved
      BY <1>2, <2>2, <3>1, CopiesTyped DEF Copies
    <3>3. v = secret.version \/ v < job.resolved
      BY <2>2, <2>3, <3>2
    <3>. QED
      BY <3>1, <3>3 DEF ServedOrReverted, Serves, Refuted
  <2>12. CASE Harmless(l) /\ Done(l)
    BY <2>5, <2>12 DEF Harmless, ServedOrReverted, Serves, Refuted
  <2>. QED
    BY <2>4, <2>6, <2>7, <2>8, <2>9, <2>10, <2>11, <2>12, ListenerMoves
<1>. QED
  BY <1>1, <1>2

LEMMA PlanNext == ASSUME Planned, Moves, PlanInv, [Next]_vars PROVE PlanInv'
BY UsedNext, SparesNext, GetsServedNext DEF PlanInv

----------------------------------------------------------------------------
(* What is reported is there, and stays.                                   *)

\* When the report or the record is written, no listener has a certificate that the
\* reconcile was to delete.
LEMMA NotRefuted ==
  ASSUME Planned, Busy, job.pc \in {"report", "record"}, NEW l \in Names
  PROVE  ~Refuted(l)
<1> SUFFICES ASSUME Refuted(l) PROVE FALSE
  OBVIOUS
<1>1. job.gone = {} /\ ~job.copy.deleting
  BY DEF Planned, Typed, TypeOK, JobPlan, DeletesOnly
<1>2. Pruning
  BY <1>1 DEF Pruning
<1>3. lb.listeners[l].certificate \in lb.certificates
  BY DEF Refuted, Planned, Typed, TypeOK
<1>4. CertificateGoes(lb.listeners[l].certificate)
  BY <1>2 DEF Refuted, Planned, JobPlan, RecordGoes
<1>. QED
  BY <1>1, <1>3, <1>4 DEF CertificateGoes

\* The reconcile that is at work knows the last generation and the last Secret.
UpToDate ==
  /\ job.copy.generation = server.generation /\ job.copy.spec = server.spec
  /\ ~job.copy.deleting /\ job.resolved = secret.version

\* Such a reconcile has just programmed them.
Finished == Busy /\ job.pc \in {"report", "record"} /\ UpToDate

LEMMA FinishedServes ==
  ASSUME Planned, GetsServed, Finished
  PROVE  \A l \in Managed(server.spec) : ServedOrReverted(l)
<1> SUFFICES ASSUME NEW l \in Managed(server.spec) PROVE ServedOrReverted(l)
  OBVIOUS
<1>1. l \in Managed(job.copy.spec) /\ l \in Names /\ Done(l)
  BY DEF Finished, UpToDate, Managed, Names, Done
<1>2. ~Refuted(l)
  BY <1>1, NotRefuted DEF Finished
<1>. QED
  BY <1>1, <1>2 DEF GetsServed, Finished, UpToDate

LEMMA KnowsTheLast ==
  ASSUME Planned, KnownInv, server # Nil, ~server.deleting, Busy,
         job.copy.generation = server.generation, job.resolved = secret.version
  PROVE  UpToDate
<1>1. job.copy \in Copies \ {Nil} /\ server \in Copies \ {Nil}
  BY CopiesTyped DEF Copies
<1>2. job.copy.spec = server.spec
  BY <1>1 DEF KnownInv, CopiesAgree
<1>3. ~job.copy.deleting
  BY <1>1, CopiesTyped DEF Planned, Older, CacheIsOlder
<1>. QED
  BY <1>2, <1>3 DEF UpToDate

LEMMA ReportedSays ==
  ASSUME Planned, KnownInv, Reported
  PROVE  server.certificates = {secret.version} /\ (Busy => UpToDate)
<1>1. PICK g \in Copies \ {Nil} :
        g.programmed = server.generation /\ g.certificates = {secret.version}
  BY DEF Reported
<1>2. server.certificates = {secret.version}
  BY <1>1 DEF KnownInv, CertificatesAreKnown, Reported
<1>3. ASSUME Busy PROVE UpToDate
  <2>1. secret.version <= job.resolved /\ server.generation <= job.copy.generation
    BY <1>1, <1>3 DEF KnownInv, CertificatesAreKnown, ReportsAreKnown
  <2>2. job.copy.generation <= server.generation
    BY <1>3, CopiesTyped DEF KnownInv, CopiesAgree, Copies, Reported
  <2>3. /\ job.resolved \in Nat /\ secret.version \in Nat /\ job.resolved <= secret.version
        /\ job.copy.generation \in Nat
    BY <1>3, CopiesTyped DEF Copies
  <2>4. server.generation \in Nat
    BY CopiesTyped DEF Copies, Reported
  <2>5. job.copy.generation = server.generation /\ job.resolved = secret.version
    BY <2>1, <2>2, <2>3, <2>4
  <2>. QED
    BY <1>3, <2>5, KnowsTheLast DEF Reported
<1>. QED
  BY <1>2, <1>3

\* A report of the last generation and the last Secret is an earlier one, or is written now.
LEMMA ReportComes ==
  ASSUME Planned, Planned', KnownInv, KnownInv', Moves, Reported'
  PROVE  /\ server # Nil /\ server'.spec = server.spec /\ secret'.version = secret.version
         /\ Reported \/ Finished
<1>1. PICK g \in Copies' \ {Nil} :
        g.programmed = server'.generation /\ g.certificates = {secret'.version}
  BY DEF Reported
<1>2. server # Nil /\ server \in Copies \ {Nil} /\ cache # Nil
  BY DEF Reported, Moves, ServerMoves, Copies, Planned, Older, CacheIsOlder
<1>3. /\ \A h \in Copies \ {Nil} : h.generation \in Nat /\ h.generation > 0 /\ h.programmed \in Nat
      /\ secret.version \in Nat
      /\ Busy => job.resolved \in Nat /\ job.resolved <= secret.version
  BY CopiesTyped
<1>4. secret'.version = secret.version
  <2>1. CASE UNCHANGED secret
    BY <2>1
  <2>2. CASE /\ UNCHANGED <<server, cache, job>>
             /\ secret'.version \in Nat /\ secret'.version >= secret.version
    <3>1. g \in Copies \ {Nil} /\ secret'.version \in g.certificates
      BY <1>1, <2>2 DEF Copies, Busy
    <3>2. secret'.version <= secret.version
      BY <3>1 DEF KnownInv, CertificatesAreKnown
    <3>. QED
      BY <1>3, <2>2, <3>2
  <2>. QED
    BY <2>1, <2>2 DEF Moves, SecretMoves
<1>5. ~Edited
  <2> SUFFICES ASSUME Edited PROVE FALSE
    OBVIOUS
  <2>1. server'.generation = server.generation + 1
    BY DEF Edited
  <2>2. cache' = cache
    <3>1. server' # server
      BY <1>2, <1>3, <2>1
    <3>. QED
      BY <3>1 DEF Moves, InformerMoves
  <2>3. g.programmed <= cache.generation
    BY <1>2, <2>2 DEF KnownInv, ReportsAreKnown
  <2>4. cache \in Copies \ {Nil} /\ cache.generation <= server.generation
    BY <1>2 DEF Copies, KnownInv, CopiesAgree
  <2>5. server.generation + 1 <= cache.generation
    BY <1>1, <2>1, <2>3
  <2>. QED
    BY <1>2, <1>3, <2>4, <2>5
<1>6. UNCHANGED server \/ Rewritten \/ Recorded
  BY <1>5 DEF Reported, Moves, ServerMoves, MarkedDeleted
<1>7. /\ server'.generation = server.generation /\ server'.spec = server.spec
      /\ server'.deleting = server.deleting /\ ~server.deleting
  BY <1>6 DEF Rewritten, Recorded, Same, Reported
<1> SUFFICES Reported \/ Finished
  BY <1>2, <1>4, <1>7
<1>8. g.programmed = server.generation /\ g.certificates = {secret.version}
  BY <1>1, <1>4, <1>7
<1>9. \A h \in Copies \ {Nil} :
        h.programmed = server.generation /\ h.certificates = {secret.version} => Reported
  BY <1>2, <1>7 DEF Reported
<1>10. ASSUME Busy, job.pc \in {"report", "record"}, job.copy.generation = server.generation,
             job.resolved = secret.version
      PROVE  Finished
  BY <1>2, <1>7, <1>10, KnowsTheLast DEF Finished
<1>11. CASE g = server'
  <2>1. CASE UNCHANGED server
    BY <1>1, <1>2, <1>4, <1>9, <1>11, <2>1
  <2>2. CASE Rewritten
    <3>1. server.certificates = {secret.version}
      BY <1>1, <1>4, <1>11, <2>2 DEF Rewritten, Same
    <3>2. CASE server'.programmed = server.programmed
      <4>1. server.programmed = server.generation
        BY <1>11, <1>8, <3>2
      <4>. QED
        BY <1>2, <1>9, <3>1, <4>1
    <3>3. CASE server'.programmed = 0
      BY <1>1, <1>2, <1>3, <1>7, <1>11, <3>3
    <3>4. CASE At("report") /\ server'.programmed = job.copy.generation
      <4>1. secret.version <= job.resolved
        BY <1>2, <3>1, <3>4 DEF KnownInv, CertificatesAreKnown, At
      <4>2. job.resolved = secret.version
        BY <1>3, <3>4, <4>1 DEF At
      <4>. QED
        BY <1>10, <1>11, <1>8, <3>4, <4>2 DEF At
    <3>. QED
      BY <2>2, <3>2, <3>3, <3>4 DEF Rewritten
  <2>3. CASE Recorded
    <3>1. Busy /\ job.pc = "record" /\ server.programmed = server.generation
      BY <1>1, <1>7, <1>11, <2>3 DEF Recorded, At
    <3>2. job.resolved = secret.version
      BY <1>1, <1>4, <1>11, <2>3 DEF Recorded
    <3>3. server.generation <= job.copy.generation
      BY <1>2, <3>1 DEF KnownInv, ReportsAreKnown
    <3>4. job.copy \in Copies \ {Nil} /\ job.copy.generation <= server.generation
      BY <1>2, <3>1, CopiesTyped DEF KnownInv, CopiesAgree, Copies
    <3>5. job.copy.generation = server.generation
      BY <1>2, <1>3, <3>3, <3>4
    <3>6. Finished
      BY <1>10, <3>1, <3>2, <3>5
    <3>. QED
      BY <3>6
  <2>. QED
    BY <1>6, <2>1, <2>2, <2>3
<1>12. CASE g = cache'
  <2>1. g \in Copies \ {Nil}
    BY <1>12 DEF Moves, InformerMoves, Copies
  <2>. QED
    BY <1>9, <1>8, <2>1
<1>13. CASE Busy' /\ g = job'.copy /\ g # server'
  <2>1. CASE Takes
    <3>1. g \in Copies \ {Nil}
      BY <1>13, <2>1 DEF Takes, Copies
    <3>. QED
      BY <1>9, <1>8, <3>1
  <2>2. CASE Carries
    <3>1. /\ job.copy \in Copies \ {Nil} /\ job.copy.certificates = g.certificates
          /\ job.copy.programmed = g.programmed
      BY <1>13, <2>2, CopiesTyped DEF Carries, Same, Copies
    <3>. QED
      BY <1>9, <1>8, <3>1
  <2>. QED
    BY <1>13, <2>1, <2>2 DEF Moves, JobMoves, Busy
<1>. QED
  BY <1>11, <1>12, <1>13 DEF Copies

LEMMA ReportIsTrueNext ==
  ASSUME Planned, Planned', KnownInv, KnownInv', Moves, PlanInv, ReportIsTrue, [Next]_vars
  PROVE  ReportIsTrue'
<1> SUFFICES ASSUME Reported', NEW l \in Managed(server'.spec)
             PROVE  ServedOrReverted(l)'
  BY DEF ReportIsTrue, Managed
<1>1. /\ server # Nil /\ server'.spec = server.spec /\ secret'.version = secret.version
      /\ Reported \/ Finished
  BY ReportComes
<1>2. l \in Https /\ l \in Managed(server.spec)
  BY <1>1 DEF Managed
<1>3. ServedOrReverted(l)
  BY <1>1, <1>2, FinishedServes DEF ReportIsTrue, PlanInv
<1>4. Busy => UpToDate
  BY <1>1, ReportedSays DEF Finished
<1>5. CASE Spared(l)
  BY <1>1, <1>3, <1>5 DEF Spared, ServedOrReverted, Serves
<1>6. CASE Given(l)
  <2>1. Busy /\ Programming /\ job.pc # "certificate"
    BY <1>6 DEF Given, Programming
  <2>2. job.used >= job.resolved /\ job.used <= secret.version /\ job.resolved = secret.version
    BY <1>4, <2>1 DEF Planned, JobPlan, SnapshotShows, PlanInv, UsedIsKnown, UpToDate
  <2>3. job.used = secret.version
    BY <2>1, <2>2, CopiesTyped
  <2>. QED
    BY <1>1, <1>6, <2>3 DEF Given, ServedOrReverted, Serves
<1>7. CASE Deleted(l)
  <2>1. PICK x \in job.gone : x.kind = "listener" /\ x.of = l
    BY <1>7 DEF Deleted
  <2>2. Busy /\ l \in job.copy.spec /\ ~job.copy.deleting
    BY <1>2, <1>4, <1>7 DEF Deleted, UpToDate, Managed
  <2>. QED
    BY <2>1, <2>2 DEF PlanInv, SparesSpecified
<1>8. CASE GivenBack(l)
  <2>1. Reported
    <3>1. Copies' = Copies /\ UNCHANGED <<server, secret>>
      BY <1>8 DEF GivenBack, Copies, Busy
    <3>. QED
      BY <3>1 DEF Reported
  <2>2. lb'.listeners[l].certificate \in server.certificates
    BY <1>8 DEF GivenBack, OffRecord
  <2>3. lb'.listeners[l].certificate = secret.version
    BY <2>1, <2>2, ReportedSays
  <2>. QED
    BY <1>1, <1>8, <2>3 DEF GivenBack, ServedOrReverted, Serves
<1>9. CASE Harmless(l)
  BY <1>1, <1>3, <1>9 DEF Harmless, ServedOrReverted, Serves
<1>. QED
  BY <1>2, <1>5, <1>6, <1>7, <1>8, <1>9, ListenerMoves

----------------------------------------------------------------------------
(* A Gateway for which no reconcile is to come.                            *)

\* How a reconcile ends, and what happens while there is none.
LEMMA EndingSteps ==
  ASSUME Planned, [Next]_vars, Busy, ~Busy'
  PROVE  Accept \/ CheckProgrammed \/ Record \/ Reject \/ RemoveFinalizer \/ Fail \/ Crash
<1>1. job \in Job /\ job.copy \in Gateway /\ job' = Nil
  BY DEF Planned, Typed, TypeOK, Job, Busy
<1>2. ~(MarkPending \/ Protect \/ Report)
  <2> SUFFICES ASSUME MarkPending \/ Protect \/ Report PROVE FALSE
    OBVIOUS
  <2>1. PICK pc \in PCs : Proceed(pc)
    BY DEF MarkPending, Protect, Report, PCs
  <2>2. server' \in Gateway
    <3>1. server' # server => server \in Gateway /\ server' \in Gateway
      BY BeginParts DEF Planned
    <3>2. server \in Gateway
      BY DEF MarkPending, Protect, Report, Update, Current, Planned, Typed, TypeOK
    <3>. QED
      BY <3>1, <3>2
  <2>. DEFINE c == IF server = job.copy THEN server' ELSE job.copy
  <2>3. job' = [job EXCEPT !.pc = pc, !.copy = c] /\ c \in Gateway
    BY <1>1, <2>1, <2>2 DEF Proceed
  <2>. HIDE DEF c
  <2>4. job' \in Job
    BY <1>1, <2>3 DEF Job
  <2>. QED
    BY <1>1, <2>4
<1>3. ~(ReadLoadBalancer \/ EnsureCertificate
         \/ \E l \in Https : EnsurePolicy(l) \/ WriteListener(l))
  BY <1>1, ReadParts, EnsureCertificateParts, EnsurePolicyParts, WriteParts DEF Planned
<1>4. ~ListenersWritten
  <2>1. ListenersWritten => job.seen \in LoadBalancer
    BY DEF ListenersWritten, At, Planned, JobPlan, SnapshotShows, Programming
  <2>. QED
    BY <1>1, <2>1, ListenersWrittenParts DEF Planned
<1>5. ~\E x \in Deletion : DeleteNext(x)
  BY <1>1, DeleteNextParts DEF Planned
<1>6. GrpcStep \/ GrpcFail \/ TlsStep \/ (\E spec \in Specs : Edit(spec)) \/ Delete
      \/ Rotate \/ DeleteSecret \/ Observe \/ UNCHANGED vars => job' = job
  BY DEF GrpcStep, GrpcRead, GrpcWrite, GrpcPend, GrpcCommit, GrpcRecord, GrpcFail, TlsStep,
    TlsWrite, TlsDelete, Edit, Delete, Rotate, DeleteSecret, Observe, vars
<1>7. ~Take
  BY DEF Take
<1>. QED
  BY <1>1, <1>2, <1>3, <1>4, <1>5, <1>6, <1>7 DEF Next, Step, Busy

LEMMA IdleSteps ==
  ASSUME [Next]_vars, ~Busy
  PROVE  \/ Take \/ (\E spec \in Specs : Edit(spec)) \/ Delete \/ Rotate \/ DeleteSecret \/ Crash
         \/ /\ UNCHANGED <<server, secret, job>>
            /\ UNCHANGED <<cache, queued>> \/ Observe
<1>1. ~(Accept \/ CheckProgrammed \/ MarkPending \/ Protect \/ ReadLoadBalancer
        \/ EnsureCertificate \/ (\E l \in Https : EnsurePolicy(l) \/ WriteListener(l))
        \/ ListenersWritten \/ (\E x \in Deletion : DeleteNext(x))
        \/ Report \/ Record \/ Reject \/ RemoveFinalizer \/ Fail)
  BY DEF Accept, CheckProgrammed, MarkPending, Protect, ReadLoadBalancer, EnsureCertificate,
    EnsurePolicy, WriteListener, ListenersWritten, DeleteNext, Report, Record, Reject,
    RemoveFinalizer, Fail, At
<1>2. GrpcStep \/ GrpcFail \/ TlsStep \/ UNCHANGED vars =>
        UNCHANGED <<server, cache, secret, queued, job>>
  BY DEF GrpcStep, GrpcRead, GrpcWrite, GrpcPend, GrpcCommit, GrpcRecord, GrpcFail, TlsStep,
    TlsWrite, TlsDelete, NoWrite, vars
<1>3. Observe => UNCHANGED <<server, secret, job>>
  BY DEF Observe
<1>. QED
  BY <1>1, <1>2, <1>3 DEF Next, Step

\* What SettledIsServed promises of a Gateway.
Served ==
  /\ ~server.deleting
  /\ IF secret.present
     THEN /\ server.recorded = Managed(server.spec)
          /\ server.certificates = {secret.version}
          /\ \A l \in Managed(server.spec) : ServedOrReverted(l)
     ELSE server.accepted = 0

\* A reconcile that ends has left it, if nothing has queued another one.
LEMMA EndServes ==
  ASSUME Planned, KnownInv, KnownInv', Moves, PlanInv, ReportIsTrue, [Next]_vars,
         Busy, ~Busy', server' # Nil, ~ToCome'
  PROVE  Served'
<1>1. job \in Job /\ job.copy \in Gateway /\ job.copy \in Copies \ {Nil} /\ server # Nil
  BY CopiesTyped DEF Copies, Moves, ServerMoves
<1>2. Accept \/ CheckProgrammed \/ Record \/ Reject
  <2>1. ~(RemoveFinalizer \/ Fail \/ Crash)
    BY DEF RemoveFinalizer, Fail, Crash, ToCome
  <2>. QED
    BY <2>1, EndingSteps
<1>3. UNCHANGED <<cache, secret, lb, queued, history>>
  BY <1>2, BeginParts, LastParts DEF Planned
<1>4. job.pc \in {"accept", "record", "reject"} /\ ~job.copy.deleting
  BY <1>2 DEF Accept, CheckProgrammed, Record, Reject, At, Planned, JobPlan, DeletesOnly
<1>5. /\ cache # Nil
      /\ cache.generation = job.copy.generation /\ ~cache.deleting
      /\ cache.recorded = job.copy.recorded /\ cache.certificates = job.copy.certificates
      /\ job.resolved = secret.version
      /\ secret.present <=> job.pc # "reject"
  BY <1>3, <1>4 DEF KnownInv, NothingNew, ToCome
<1>6. /\ server'.generation = cache.generation /\ ~server'.deleting
      /\ server'.recorded = cache.recorded /\ server'.certificates = cache.certificates
  BY <1>3, <1>5 DEF ToCome, Watched
<1>7. server.generation = server'.generation /\ server.spec = server'.spec
      /\ server.deleting = server'.deleting
  <2>1. CASE Record \/ Reject
    BY <2>1, LastParts DEF Planned
  <2>2. CASE Accept \/ CheckProgrammed
    BY <2>2, BeginParts DEF Planned, Same
  <2>. QED
    BY <1>2, <2>1, <2>2
<1>8. UpToDate
  BY <1>1, <1>5, <1>6, <1>7, KnowsTheLast
<1>9. CASE Reject
  <2>1. ~secret'.present
    BY <1>3, <1>5, <1>9 DEF Reject, At
  <2>2. server'.accepted = 0
    <3>1. server' = [server EXCEPT !.accepted = 0] /\ server \in Gateway
      BY <1>1, <1>9, LastParts DEF Reject, Update, Planned
    <3>. QED
      BY <3>1 DEF Gateway
  <2>. QED
    BY <1>6, <2>1, <2>2 DEF Served
<1>10. CASE Record
  <2>1. Finished
    BY <1>8, <1>10 DEF Finished, Record, At
  <2>2. \A l \in Managed(server.spec) : ServedOrReverted(l)
    BY <2>1, FinishedServes DEF PlanInv
  <2>3. server'.recorded = Managed(job.copy.spec) /\ server'.certificates = {job.resolved}
    <3>1. server' = [server EXCEPT !.finalizer = TRUE, !.recorded = Managed(job.copy.spec),
                       !.certificates = {job.resolved}]
      BY <1>10 DEF Record, Update
    <3>2. server \in Gateway
      BY <1>10, LastParts DEF Planned
    <3>. QED
      BY <3>1, <3>2 DEF Gateway
  <2>4. job.copy.spec = server'.spec /\ job.resolved = secret'.version
    BY <1>3, <1>7, <1>8 DEF UpToDate
  <2>5. \A l \in Managed(server'.spec) : ServedOrReverted(l)'
    BY <1>3, <1>7, <2>2 DEF ServedOrReverted, Serves, history
  <2>6. secret'.present
    BY <1>3, <1>5, <1>10 DEF Record, At
  <2>. QED
    BY <1>6, <2>3, <2>4, <2>5, <2>6 DEF Served, Managed
<1>11. CASE Accept \/ CheckProgrammed
  <2>1. Programmed(job.copy)
    <3>1. CASE Accept /\ ~Programmed(job.copy)
      <4>1. Proceed("pend") /\ server \in Gateway /\ server' \in Gateway
        BY <1>1, <3>1, BeginParts DEF Accept, Update, Planned, Typed, TypeOK
      <4>. DEFINE c == IF server = job.copy THEN server' ELSE job.copy
      <4>2. job' = [job EXCEPT !.pc = "pend", !.copy = c] /\ c \in Gateway
        BY <1>1, <4>1 DEF Proceed
      <4>. HIDE DEF c
      <4>3. job' \in Job
        BY <1>1, <4>2 DEF Job, PCs
      <4>. QED
        BY <4>3 DEF Busy
    <3>2. CASE CheckProgrammed /\ ~Programmed(job.copy)
      <4>1. job' = [job EXCEPT !.pc = "pend"]
        BY <3>2 DEF CheckProgrammed, Goto
      <4>2. job' \in Job
        BY <1>1, <4>1 DEF Job, PCs
      <4>. QED
        BY <4>2 DEF Busy
    <3>. QED
      BY <1>11, <3>1, <3>2
  <2>2. /\ job.copy.programmed = server.generation
        /\ job.copy.recorded = Managed(server.spec)
        /\ job.copy.certificates = {secret.version}
    BY <1>8, <2>1 DEF Programmed, UpToDate
  <2>3. Reported
    BY <1>1, <1>6, <1>7, <2>2 DEF Reported
  <2>4. \A l \in Managed(server.spec) : ServedOrReverted(l)
    BY <2>3 DEF ReportIsTrue
  <2>5. \A l \in Managed(server'.spec) : ServedOrReverted(l)'
    BY <1>3, <1>7, <2>4 DEF ServedOrReverted, Serves, history
  <2>6. server'.recorded = Managed(server'.spec) /\ server'.certificates = {secret'.version}
    BY <1>3, <1>5, <1>6, <1>7, <2>2 DEF Managed
  <2>. QED
    BY <1>6, <2>5, <2>6, <1>3, <1>4, <1>5, <1>11
    DEF Served, Accept, CheckProgrammed, At, Managed
<1>. QED
  BY <1>2, <1>9, <1>10, <1>11

LEMMA IdleIsServedNext ==
  ASSUME Planned, KnownInv, KnownInv', Moves, PlanInv, ReportIsTrue, IdleIsServed, [Next]_vars
  PROVE  IdleIsServed'
<1> SUFFICES ASSUME server' # Nil, ~Busy', ~ToCome' PROVE Served'
  BY DEF IdleIsServed, Served
<1>1. CASE Busy
  BY <1>1, EndServes
<1>2. CASE ~Busy /\ Take
  <2>1. UNCHANGED <<server, cache>>
    BY <1>2 DEF Take, NoWrite
  <2>2. cache # Nil /\ cache.deleting = server.deleting /\ cache.finalizer = server.finalizer
    BY <2>1 DEF ToCome, Watched
  <2>3. cache.deleting /\ ~cache.finalizer
    <3>1. CASE ~(cache = Nil \/ (cache.deleting /\ ~cache.finalizer))
      <4>1. /\ job' \in Job
        <5>1. cache \in Gateway /\ secret.version \in Versions
          BY <2>2 DEF Planned, Typed, TypeOK
        <5>2. \E pc \in {"read", "accept", "reject"} :
                job' = [pc |-> pc, copy |-> cache, resolved |-> secret.version,
                        seen |-> Nil, used |-> 0, todo |-> {}, gone |-> {}]
          BY <1>2, <3>1 DEF Take
        <5>. QED
          BY <5>1, <5>2 DEF Job, PCs
      <4>. QED
        BY <4>1 DEF Busy
    <3>. QED
      BY <2>2, <3>1
  <2>. QED
    BY <2>1, <2>2, <2>3 DEF KnownInv, DeletingIsProtected
<1>3. ASSUME ~Busy, NEW spec \in Specs, Edit(spec) PROVE Served'
  <2>1. /\ server # Nil /\ cache' = cache /\ server \in Gateway
        /\ server' = [server EXCEPT !.spec = spec, !.generation = server.generation + 1]
    BY <1>3 DEF Edit, MayChange, Planned, Typed, TypeOK
  <2>2. server'.generation = server.generation + 1
    BY <2>1 DEF Gateway
  <2>3. cache # Nil /\ cache.generation = server.generation + 1
    BY <2>1, <2>2 DEF ToCome, Watched
  <2>4. cache \in Copies \ {Nil} /\ server \in Copies \ {Nil}
    BY <2>1, <2>3 DEF Copies
  <2>5. cache.generation <= server.generation /\ server.generation \in Nat
    BY <2>1, <2>4, CopiesTyped DEF KnownInv, CopiesAgree
  <2>. QED
    BY <2>3, <2>5
<1>4. CASE ~Busy /\ Delete
  <2>1. server # Nil /\ ~server.deleting /\ cache' = cache /\ server \in Gateway
    BY <1>4 DEF Delete, MayChange, Planned, Typed, TypeOK
  <2>2. server' = [server EXCEPT !.deleting = TRUE]
    BY <1>4 DEF Delete
  <2>3. server'.deleting
    BY <2>1, <2>2 DEF Gateway
  <2>4. cache # Nil /\ cache.deleting
    BY <2>1, <2>3 DEF ToCome, Watched
  <2>. QED
    BY <2>1, <2>4 DEF Planned, Older, CacheIsOlder
<1>5. CASE ~Busy /\ (Rotate \/ DeleteSecret)
  <2>1. UNCHANGED <<server, cache>> /\ queued' = (queued \/ (cache # Nil /\ ~cache.deleting))
    BY <1>5 DEF Rotate, DeleteSecret, SecretEvent
  <2>2. ~ToCome /\ cache # Nil /\ cache.deleting = server.deleting
    BY <2>1 DEF ToCome, Watched
  <2>3. ~server.deleting
    BY <1>5, <2>1, <2>2 DEF IdleIsServed
  <2>. QED
    BY <2>1, <2>2, <2>3 DEF ToCome
<1>6. CASE Crash
  BY <1>6 DEF Crash, ToCome
<1>7. CASE ~Busy /\ UNCHANGED <<server, secret, job>> /\ (UNCHANGED <<cache, queued>> \/ Observe)
  <2>1. ~ToCome
    <3>1. CASE UNCHANGED <<cache, queued>>
      BY <1>7, <3>1 DEF ToCome, Watched
    <3>2. CASE Observe
      BY <3>2 DEF Observe, ToCome
    <3>. QED
      BY <1>7, <3>1, <3>2
  <2>2. Served
    BY <1>7, <2>1 DEF IdleIsServed, Served
  <2>3. ASSUME secret.present, NEW l \in Managed(server.spec) PROVE ServedOrReverted(l)'
    <3>1. l \in Https /\ ServedOrReverted(l) /\ server.certificates = {secret.version}
      BY <2>2, <2>3 DEF Served, Managed
    <3>2. CASE Spared(l) \/ Harmless(l)
      BY <1>7, <3>1, <3>2 DEF Spared, Harmless, ServedOrReverted, Serves
    <3>3. CASE Given(l) \/ Deleted(l)
      BY <1>7, <3>3 DEF Given, Deleted
    <3>4. CASE GivenBack(l)
      BY <1>7, <3>1, <3>4 DEF GivenBack, OffRecord, ServedOrReverted, Serves
    <3>. QED
      BY <3>1, <3>2, <3>3, <3>4, ListenerMoves
  <2>. QED
    BY <1>7, <2>2, <2>3 DEF Served, Managed
<1>. QED
  BY <1>1, <1>2, <1>3, <1>4, <1>5, <1>6, <1>7, IdleSteps

LEMMA InitSettled == Init => SettledInv
<1> SUFFICES ASSUME Init PROVE SettledInv
  OBVIOUS
<1>1. Planned
  BY InitPlanned
<1>2. ~Busy /\ cache = server /\ queued /\ Copies = {server}
  BY DEF Init, Busy, Copies
<1>3. server = New(Names)
  BY DEF Init
<1>4. /\ server.generation = 1 /\ server.programmed = 0 /\ server.certificates = {}
      /\ ~server.deleting
  BY <1>3 DEF New
<1>5. KnownInv
  BY <1>2, <1>4 DEF KnownInv, CopiesAgree, ReportsAreKnown, CertificatesAreKnown,
    DeletingIsProtected, NothingNew
<1>6. PlanInv
  BY <1>2 DEF PlanInv, UsedIsKnown, SparesSpecified, GetsServed
<1>7. ReportIsTrue
  BY <1>2, <1>4 DEF ReportIsTrue, Reported
<1>8. IdleIsServed
  BY <1>2 DEF IdleIsServed, ToCome
<1>. QED
  BY <1>1, <1>5, <1>6, <1>7, <1>8 DEF SettledInv

LEMMA NextSettled == SettledInv /\ [Next]_vars => SettledInv'
<1> SUFFICES ASSUME SettledInv, [Next]_vars PROVE SettledInv'
  OBVIOUS
<1>1. Planned /\ KnownInv /\ PlanInv /\ ReportIsTrue /\ IdleIsServed
  BY DEF SettledInv
<1>2. Planned'
  BY <1>1, NextPlanned
<1>3. Moves /\ KnownInv'
  BY <1>1, KnownNext
<1>4. PlanInv'
  BY <1>1, <1>3, PlanNext
<1>5. ReportIsTrue'
  BY <1>1, <1>2, <1>3, ReportIsTrueNext
<1>6. IdleIsServed'
  BY <1>1, <1>3, IdleIsServedNext
<1>. QED
  BY <1>2, <1>3, <1>4, <1>5, <1>6 DEF SettledInv

\* Once everything has settled, the HTTPS listeners of the last specification are there with
\* the certificate of the last Secret, and on record, or the Secret is missing and the Gateway
\* is not accepted; but for listeners to which a route gave back a certificate off record.
THEOREM SettledIsServedHolds == Spec => []SettledIsServed
<1>1. SettledInv => SettledIsServed
  <2> SUFFICES ASSUME SettledInv, Settled, server # Nil PROVE
        IF secret.present
        THEN /\ server.recorded = Managed(server.spec)
             /\ server.certificates = {secret.version}
             /\ \A l \in Managed(server.spec) \ reverted : Serves(l)
        ELSE server.deleting \/ server.accepted = 0
    BY DEF SettledIsServed
  <2>1. ~Busy /\ ~ToCome
    BY DEF Settled, ToCome, Watched
  <2>. QED
    BY <2>1 DEF SettledInv, IdleIsServed, ServedOrReverted
<1>. QED
  BY <1>1, InitSettled, NextSettled, PTL DEF Spec

===============================================================================
