------------------------- MODULE NLBGatewayRecordProofs -------------------------
(***************************************************************************)
(* What is left on the load balancer, and what is on record: the proofs of *)
(* ReleasedMeansDeleted, RecordKeepsWhatIsThere and SettledIsServed of     *)
(* NLBGateway.                                                             *)
(*                                                                         *)
(* The first two follow what a reconcile does about the names it cleans    *)
(* up: those on record that the specification no longer has or, in a       *)
(* deletion, all.  From the read of the load balancer on, what exists of   *)
(* such a name has its deletion among the requests still to make, and no   *)
(* request, made or to be made, brings it back (GoesAway).  When the       *)
(* requests have run out the names are gone.  That the plan of the         *)
(* reconcile is also the plan of the Gateway that it ends on needs two     *)
(* more facts: the worker's copy is the one that it took, until it reads   *)
(* the Gateway again, and two copies of one generation have one            *)
(* specification.                                                          *)
(*                                                                         *)
(* The third follows what a reconcile sets up in the same way (GetsServed) *)
(* and from there the report: no copy reports a generation that nobody     *)
(* programmed (ReportsAreKnown), what the API server reports of its own    *)
(* generation is true while no other reconcile undoes it (ReportIsTrue),   *)
(* and a Gateway for which no reconcile is to come is served or says that  *)
(* it is not accepted (IdleIsServed).                                      *)
(***************************************************************************)
EXTENDS NLBGatewayProofs

USE NLBGatewayAssumption, NilAssumption

----------------------------------------------------------------------------
(* What is cleaned up stays cleaned up.                                    *)

\* The copies of the Gateway that are around.
Copies == {server, cache} \cup (IF Busy THEN {job.copy, job.resolved} ELSE {})

\* A generation has one specification, and the API server has the newest.
SpecOfGeneration ==
  /\ \A g, h \in Copies \ {Nil} : g.generation = h.generation => g.spec = h.spec
  /\ server # Nil => \A g \in Copies \ {Nil} : g.generation <= server.generation

\* Until the worker reads the Gateway again, its copy is the one that it took, apart from
\* conditions and the finalizer.
Same(g, h) ==
  /\ g.generation = h.generation /\ g.spec = h.spec
  /\ g.recorded = h.recorded /\ g.deleting = h.deleting

CopyIsResolved ==
  Busy /\ job.pc \notin {"report", "record"} => Same(job.copy, job.resolved)

\* A reconcile that cleans up does nothing else, and no other one releases the Gateway.
DeletesOnly ==
  Busy =>
    /\ job.resolved.deleting => job.pc \in {"read", "write", "wait", "release"}
    /\ job.pc = "release" => job.resolved.deleting

\* The names that the plan of the reconcile cleans up.
ToGo == IF job.resolved.deleting THEN Owned(job.resolved) ELSE Stale(job.resolved)

InPlan == Busy /\ job.pc \in {"write", "wait", "refresh", "report", "record", "release"}
Asked(x) == x \in job.todo \/ (At("wait") /\ pending # Nil /\ pending.request = x)

\* What is there of these names has its deletion ahead, and nothing brings it back.
GoesAway ==
  InPlan =>
    \A l \in ToGo :
      /\ listeners[l] # Nil => Asked([kind |-> "delete listener", name |-> l])
      /\ l \in sets => Asked([kind |-> "delete set", name |-> l])
      /\ ~Asked([kind |-> "listener", name |-> l])
      /\ ~Asked([kind |-> "set", name |-> l])

\* The load balancer works on nothing but what the worker waits for.
NothingElsePending ==
  InPlan /\ pending # Nil => job.pc = "wait"

CleanInv == SpecOfGeneration /\ CopyIsResolved /\ DeletesOnly /\ GoesAway /\ NothingElsePending

CleanedInv == TypeOK /\ CleanInv

LEMMA SameTransitive ==
  ASSUME NEW f, NEW g, NEW h, Same(f, g), Same(g, h)
  PROVE  Same(f, h)
BY DEF Same

\* The steps that write the Gateway and go on change conditions and the finalizer only.
LEMMA UpdateParts ==
  ASSUME TypeOK, Busy, NEW pc \in PCs, NEW new \in Gateway, Same(new, server), Update(new, pc)
  PROVE  /\ job'.pc = pc /\ job'.resolved = job.resolved /\ job'.todo = job.todo
         /\ Same(job'.copy, job.copy)
         /\ server \in Gateway /\ server' \in Gateway /\ Same(server', server)
         /\ UNCHANGED <<cache, oci, queued, crashes>>
<1>1. job \in Job /\ server \in Gateway /\ server' = new
  BY DEF TypeOK, Update, Current
<1>2. /\ job'.pc = pc /\ job'.resolved = job.resolved /\ job'.todo = job.todo
      /\ job'.copy = IF server = job.copy THEN new ELSE job.copy
  BY <1>1 DEF Update, Job
<1>3. Same(job'.copy, job.copy)
  BY <1>2 DEF Same
<1>. QED
  BY <1>1, <1>2, <1>3 DEF Update

Begins ==
  {<<"accept", "check">>, <<"pend", "protect">>, <<"protect", "read">>, <<"report", "record">>}

LEMMA BeginParts ==
  ASSUME TypeOK, Accept \/ MarkPending \/ Protect \/ Report
  PROVE  /\ Busy /\ job \in Job /\ <<job.pc, job'.pc>> \in Begins
         /\ job'.resolved = job.resolved /\ job'.todo = {}
         /\ Same(job'.copy, job.copy)
         /\ \/ UNCHANGED server
            \/ server \in Gateway /\ server' \in Gateway /\ Same(server', server)
         /\ UNCHANGED <<cache, oci, queued, crashes>>
<1>1. Busy /\ job \in Job /\ job.todo = {}
  BY DEF Accept, MarkPending, Protect, Report, At, TypeOK
<1>2. ASSUME NEW pc \in PCs, NEW status \in {"Unknown", "False", "True"},
             SetAccepted(status, pc) \/ SetProgrammed(status, pc)
      PROVE  \E new \in Gateway : Same(new, server) /\ Update(new, pc)
  <2>1. server \in Gateway /\ job.copy \in Gateway
    BY <1>1, <1>2 DEF SetAccepted, SetProgrammed, Update, Current, TypeOK, Job
  <2>. DEFINE a == [server EXCEPT !.accepted =
                     [status |-> status, generation |-> job.copy.generation]]
              p == [server EXCEPT !.programmed =
                     [status |-> status, generation |-> job.copy.generation]]
  <2>2. a \in Gateway /\ p \in Gateway
    BY <2>1, ConditionTyped
  <2>3. Same(a, server) /\ Same(p, server)
    BY <2>1 DEF Same, Gateway
  <2>4. Update(a, pc) \/ Update(p, pc)
    BY <1>2 DEF SetAccepted, SetProgrammed
  <2>. HIDE DEF a, p
  <2>. QED
    BY <2>2, <2>3, <2>4
<1>3. Protect => \E new \in Gateway : Same(new, server) /\ Update(new, "read")
  <2> SUFFICES ASSUME Protect
               PROVE  \E new \in Gateway : Same(new, server) /\ Update(new, "read")
    OBVIOUS
  <2>. DEFINE new == [server EXCEPT !.finalizer = TRUE]
  <2>1. server \in Gateway
    BY DEF Protect, Update, Current, TypeOK
  <2>2. new \in Gateway /\ Same(new, server)
    BY <2>1 DEF Gateway, Same
  <2>3. Update(new, "read")
    BY DEF Protect
  <2>. HIDE DEF new
  <2>. QED
    BY <2>2, <2>3
<1>4. CASE Accept /\ IsSet(job.copy.accepted, job.copy)
  <2>1. job' = [job EXCEPT !.pc = "check"] /\ UNCHANGED <<server, cache, oci, queued, crashes>>
    BY <1>4 DEF Accept, Goto, oci
  <2>2. job'.pc = "check" /\ job'.resolved = job.resolved /\ job'.todo = {} /\ job'.copy = job.copy
    BY <1>1, <2>1 DEF Job
  <2>. QED
    BY <1>1, <1>4, <2>1, <2>2 DEF Accept, At, Same, Begins
<1>5. CASE ~(Accept /\ IsSet(job.copy.accepted, job.copy))
  <2>1. \E pc \in PCs : \E new \in Gateway :
          <<job.pc, pc>> \in Begins /\ Same(new, server) /\ Update(new, pc)
    <3>1. {"check", "protect", "read", "record"} \subseteq PCs
      BY DEF PCs
    <3>2. CASE Accept
      <4>1. job.pc = "accept" /\ SetAccepted("True", "check")
        BY <1>5, <3>2 DEF Accept, At
      <4>. QED
        BY <1>2, <3>1, <4>1 DEF Begins
    <3>3. CASE MarkPending
      <4>1. job.pc = "pend" /\ SetProgrammed("Unknown", "protect")
        BY <3>3 DEF MarkPending, At
      <4>. QED
        BY <1>2, <3>1, <4>1 DEF Begins
    <3>4. CASE Report
      <4>1. job.pc = "report" /\ SetProgrammed("True", "record")
        BY <3>4 DEF Report, At
      <4>. QED
        BY <1>2, <3>1, <4>1 DEF Begins
    <3>5. CASE Protect
      <4>1. job.pc = "protect"
        BY <3>5 DEF Protect, At
      <4>. QED
        BY <1>3, <3>1, <3>5, <4>1 DEF Begins
    <3>. QED
      BY <3>2, <3>3, <3>4, <3>5
  <2>2. PICK pc \in PCs : \E new \in Gateway :
          <<job.pc, pc>> \in Begins /\ Same(new, server) /\ Update(new, pc)
    BY <2>1
  <2>. QED
    BY <1>1, <2>2, UpdateParts
<1>. QED
  BY <1>4, <1>5

----------------------------------------------------------------------------
(* One specification for each generation.                                  *)

\* A step after which every copy is, in these respects, one that was there before.
LEMMA KeepsSpecs ==
  ASSUME SpecOfGeneration,
         \A g \in Copies' \ {Nil} : \E h \in Copies \ {Nil} :
           g.generation = h.generation /\ g.spec = h.spec,
         server' # Nil => server # Nil /\ server'.generation = server.generation
  PROVE  SpecOfGeneration'
BY DEF SpecOfGeneration

\* The steps that leave the API server's Gateway as it is, or in these respects as it is.
LEMMA KeepsServerSpecs ==
  ASSUME CleanedInv,
         \/ server' = server \/ server' = Nil
         \/ server # Nil /\ server'.generation = server.generation /\ server'.spec = server.spec,
         cache' \in {server, cache},
         \/ job' = Nil
         \/ job' = job
         \/ /\ Busy
            /\ job'.resolved = job.resolved
            /\ job'.copy = cache \/ Same(job'.copy, job.copy)
         \/ job'.resolved = cache /\ job'.copy = cache /\ cache # Nil
  PROVE  SpecOfGeneration'
<1>1. \A g \in Copies' \ {Nil} : \E h \in Copies \ {Nil} :
        g.generation = h.generation /\ g.spec = h.spec
  <2> SUFFICES ASSUME NEW g \in Copies' \ {Nil}
               PROVE  \E h \in Copies \ {Nil} : g.generation = h.generation /\ g.spec = h.spec
    OBVIOUS
  <2>1. Busy => job.copy # Nil /\ job.resolved # Nil
    BY DEF CleanedInv, TypeOK, Job
  <2>2. CASE g = server'
    BY <2>2 DEF Copies
  <2>3. CASE g = cache'
    BY <2>3 DEF Copies
  <2>4. CASE Busy' /\ g \in {job'.copy, job'.resolved}
    BY <2>1, <2>4 DEF Copies, Busy, Same
  <2>. QED
    BY <2>2, <2>3, <2>4 DEF Copies
<1>2. server' # Nil => server # Nil /\ server'.generation = server.generation
  OBVIOUS
<1>. QED
  BY <1>1, <1>2, KeepsSpecs DEF CleanedInv, CleanInv

\* A user's edit starts a generation that no copy has.
LEMMA EditSpecs ==
  ASSUME CleanedInv, NEW spec \in Specs, Edit(spec)
  PROVE  SpecOfGeneration'
<1>1. server \in Gateway /\ server # Nil /\ UNCHANGED <<cache, job>>
  BY DEF Edit, CleanedInv, TypeOK
<1>2. server'.generation = server.generation + 1
  <2>1. server' = [server EXCEPT !.spec = spec, !.generation = server.generation + 1]
    BY DEF Edit
  <2>. QED
    BY <1>1, <2>1 DEF Gateway
<1>3. \A g \in Copies' \ {Nil} : g = server' \/ g \in Copies \ {Nil}
  BY <1>1 DEF Copies, Busy
<1>4. \A g \in Copies \ {Nil} :
        g \in Gateway /\ g.generation \in Nat /\ g.generation <= server.generation
  <2>1. Copies \ {Nil} \subseteq Gateway
    BY DEF CleanedInv, TypeOK, Copies, Job
  <2>. QED
    BY <1>1, <2>1 DEF CleanedInv, CleanInv, SpecOfGeneration, Gateway, Generations
<1>5. server.generation \in Nat
  BY <1>1 DEF Gateway, Generations
<1>6. \A g \in Copies \ {Nil} : g.generation < server'.generation
  BY <1>2, <1>4, <1>5
<1>. QED
  BY <1>2, <1>3, <1>4, <1>5, <1>6 DEF CleanedInv, CleanInv, SpecOfGeneration

----------------------------------------------------------------------------
(* What a reconcile leaves behind of the names it cleans up.               *)

\* The parts of the invariant that are about the reconcile.
JobClean == CopyIsResolved /\ DeletesOnly /\ GoesAway /\ NothingElsePending

LEMMA NoJobClean ==
  ASSUME job' = Nil
  PROVE  JobClean'
BY DEF JobClean, CopyIsResolved, DeletesOnly, GoesAway, NothingElsePending, InPlan, Busy

LEMMA SameJobClean ==
  ASSUME JobClean, UNCHANGED <<job, oci>>
  PROVE  JobClean'
BY DEF JobClean, CopyIsResolved, DeletesOnly, GoesAway, NothingElsePending, InPlan, Busy,
  Same, ToGo, Owned, Stale, Recorded, Desired, Asked, At, oci

\* Before the load balancer is read there is no plan yet.
LEMMA BeforePlanClean ==
  ASSUME job'.pc \in {"accept", "check", "pend", "protect", "read", "reject"},
         Same(job'.copy, job'.resolved),
         job'.resolved.deleting => job'.pc = "read"
  PROVE  JobClean'
BY DEF JobClean, CopyIsResolved, DeletesOnly, GoesAway, NothingElsePending, InPlan, Busy, Same

LEMMA TakeClean == CleanedInv /\ Take => CleanInv'
<1> SUFFICES ASSUME CleanedInv, Take PROVE CleanInv'
  OBVIOUS
<1>1. UNCHANGED <<server, cache, oci>>
  BY DEF Take
<1>2. CASE cache = Nil \/ (cache.deleting /\ ~cache.finalizer)
  <2>1. job' = Nil
    BY <1>2 DEF Take
  <2>. QED
    BY <1>1, <2>1, NoJobClean, KeepsServerSpecs DEF CleanInv, JobClean
<1>3. CASE ~(cache = Nil \/ (cache.deleting /\ ~cache.finalizer))
  <2>1. /\ job'.copy = cache /\ job'.resolved = cache
        /\ job'.pc = IF cache.deleting THEN "read" ELSE "accept"
    BY <1>3 DEF Take
  <2>3. JobClean'
    BY <2>1, BeforePlanClean DEF Same
  <2>4. SpecOfGeneration'
    BY <1>1, <1>3, <2>1, KeepsServerSpecs
  <2>. QED
    BY <2>3, <2>4 DEF CleanInv, JobClean
<1>. QED
  BY <1>2, <1>3

LEMMA BeginClean == CleanedInv /\ (Accept \/ MarkPending \/ Protect \/ Report) => CleanInv'
<1> SUFFICES ASSUME CleanedInv, Accept \/ MarkPending \/ Protect \/ Report PROVE CleanInv'
  OBVIOUS
<1>1. /\ Busy /\ job \in Job /\ <<job.pc, job'.pc>> \in Begins
      /\ job'.resolved = job.resolved /\ job'.todo = {}
      /\ Same(job'.copy, job.copy)
      /\ \/ UNCHANGED server
         \/ server \in Gateway /\ server' \in Gateway /\ Same(server', server)
      /\ UNCHANGED <<cache, oci, queued, crashes>>
    BY BeginParts DEF CleanedInv
<1>2. SpecOfGeneration'
  <2>1. server # Nil => server \in Gateway
    BY DEF CleanedInv, TypeOK
  <2>2. server' = server \/ (server # Nil /\ server'.generation = server.generation
                                /\ server'.spec = server.spec)
    BY <1>1, <2>1 DEF Same
  <2>. QED
    BY <1>1, <2>2, KeepsServerSpecs
<1>3. CASE job.pc # "report"
  <2>1. job'.pc \in {"check", "protect", "read"} /\ ~job.resolved.deleting
    BY <1>1, <1>3 DEF Begins, CleanedInv, CleanInv, DeletesOnly
  <2>2. Same(job.copy, job.resolved)
    BY <1>1, <1>3 DEF Begins, CleanedInv, CleanInv, CopyIsResolved
  <2>3. Same(job'.copy, job'.resolved)
    BY <1>1, <2>2 DEF Same
  <2>4. JobClean'
    BY <1>1, <2>1, <2>3, BeforePlanClean
  <2>. QED
    BY <1>2, <2>4 DEF CleanInv, JobClean
<1>4. CASE job.pc = "report"
  <2>1. job'.pc = "record" /\ ~job.resolved.deleting /\ UNCHANGED <<listeners, sets, pending>>
    BY <1>1, <1>4 DEF Begins, CleanedInv, CleanInv, DeletesOnly, oci
  <2>2. CopyIsResolved' /\ DeletesOnly'
    BY <1>1, <2>1 DEF CopyIsResolved, DeletesOnly
  <2>3. NothingElsePending'
    BY <1>1, <1>4, <2>1 DEF CleanedInv, CleanInv, NothingElsePending, InPlan
  <2>4. GoesAway'
    <3>1. ToGo' = ToGo
      BY <1>1 DEF ToGo, Owned, Stale, Recorded, Desired
    <3>2. \A x : Asked(x)' => FALSE
      BY <1>1, <2>1 DEF Asked, At
    <3>3. \A x : ~Asked(x)
      BY <1>1, <1>4 DEF Asked, At, CleanedInv, TypeOK
    <3>. QED
      BY <1>1, <1>4, <2>1, <3>1, <3>2, <3>3 DEF CleanedInv, CleanInv, GoesAway, InPlan
  <2>. QED
    BY <1>2, <2>2, <2>3, <2>4 DEF CleanInv
<1>. QED
  BY <1>3, <1>4

\* The steps of the worker that write nothing and move it on.
LEMMA GotoClean ==
  ASSUME CleanedInv, CheckProgrammed \/ Waited \/ Written \/ Refresh
  PROVE  CleanInv'
<1>1. Busy /\ job \in Job /\ UNCHANGED <<server, cache, oci>>
  BY DEF CheckProgrammed, Waited, Written, Refresh, At, CleanedInv, TypeOK
<1>2. CASE job' = Nil
  BY <1>1, <1>2, NoJobClean, KeepsServerSpecs DEF CleanInv, JobClean
<1>3. CASE job' # Nil
  <2>1. \/ CheckProgrammed /\ job.pc = "check" /\ job'.pc = "pend"
        \/ Waited /\ job.pc = "wait" /\ job'.pc = "write" /\ pending = Nil
        \/ /\ Written /\ job.pc = "write" /\ job.todo = {}
           /\ job'.pc = IF job.copy.deleting THEN "release" ELSE "refresh"
        \/ Refresh /\ job.pc = "refresh" /\ job'.pc = "report"
    BY <1>1, <1>3 DEF CheckProgrammed, Waited, Written, Refresh, Goto, Finish, At, Job
  <2>2. /\ job'.resolved = job.resolved /\ job'.todo = job.todo
        /\ job'.copy = IF Refresh THEN cache ELSE job.copy
    <3>1. \/ \E pc \in PCs : job' = [job EXCEPT !.pc = pc] /\ ~Refresh
          \/ job' = [job EXCEPT !.pc = "report", !.copy = cache] /\ Refresh
      BY <1>3, <2>1 DEF CheckProgrammed, Waited, Written, Refresh, Goto, Finish, PCs
    <3>. QED
      BY <1>1, <3>1 DEF Job
  <2>3. SpecOfGeneration'
    BY <1>1, <2>2, KeepsServerSpecs DEF Same
  <2>4. Same(job.copy, job.resolved) \/ job.pc \in {"report", "record"}
    BY <1>1 DEF CleanedInv, CleanInv, CopyIsResolved
  <2>5. CASE CheckProgrammed
    <3>1. ~job.resolved.deleting /\ Same(job'.copy, job'.resolved) /\ job'.pc = "pend"
      BY <1>1, <2>1, <2>2, <2>4, <2>5 DEF CleanedInv, CleanInv, DeletesOnly, CheckProgrammed,
        Refresh, At
    <3>2. JobClean'
      BY <2>2, <3>1, BeforePlanClean
    <3>. QED
      BY <2>3, <3>2 DEF CleanInv, JobClean
  <2>6. CASE ~CheckProgrammed
    <3>1. InPlan /\ InPlan' /\ UNCHANGED <<listeners, sets, pending>>
      BY <1>1, <1>3, <2>1, <2>6 DEF InPlan, Busy, oci
    <3>2. CopyIsResolved'
      BY <2>1, <2>2, <2>4, <2>6 DEF CopyIsResolved, Refresh, At, Same
    <3>3. DeletesOnly'
      BY <1>1, <2>1, <2>2, <2>4, <2>6 DEF CleanedInv, CleanInv, DeletesOnly, Same
    <3>4. NothingElsePending'
      BY <1>1, <2>1, <2>6, <3>1 DEF CleanedInv, CleanInv, NothingElsePending
    <3>5. ToGo' = ToGo
      BY <2>2 DEF ToGo, Owned, Stale, Recorded, Desired
    <3>6. \A x : Asked(x)' <=> Asked(x)
      BY <1>1, <2>1, <2>2, <2>6, <3>1 DEF Asked, At
    <3>7. GoesAway'
      BY <3>1, <3>5, <3>6 DEF CleanedInv, CleanInv, GoesAway
    <3>. QED
      BY <2>3, <3>2, <3>3, <3>4, <3>7 DEF CleanInv
  <2>. QED
    BY <2>5, <2>6
<1>. QED
  BY <1>2, <1>3

LEMMA ReadClean == CleanedInv /\ ReadLoadBalancer => CleanInv'
<1> SUFFICES ASSUME CleanedInv, ReadLoadBalancer PROVE CleanInv'
  OBVIOUS
<1>1. /\ Busy /\ job \in Job /\ job.pc = "read" /\ pending = Nil
      /\ UNCHANGED <<server, cache, listeners, sets, pending>>
      /\ job.copy \in Gateway /\ job.resolved \in Gateway
  BY DEF ReadLoadBalancer, At, NotBusy, CleanedInv, TypeOK, oci, Job
<1>2. Same(job.copy, job.resolved)
  BY <1>1 DEF CleanedInv, CleanInv, CopyIsResolved
<1>. DEFINE todo == IF job.copy.deleting THEN ToDelete(Owned(job.copy))
                    ELSE ToReconcile(job.copy.spec) \cup ToDelete(Stale(job.copy))
<1>3. \/ ~job.copy.deleting /\ job' = [job EXCEPT !.pc = "reject"]
      \/ job' = [job EXCEPT !.pc = "write", !.todo = todo]
  BY DEF ReadLoadBalancer, Goto
<1>4. SpecOfGeneration'
  <2>1. job'.resolved = job.resolved /\ job'.copy = job.copy
    BY <1>1, <1>3 DEF Job
  <2>. QED
    BY <1>1, <2>1, KeepsServerSpecs DEF Same
<1>5. CASE ~job.copy.deleting /\ job' = [job EXCEPT !.pc = "reject"]
  <2>1. /\ job'.pc = "reject" /\ Same(job'.copy, job'.resolved) /\ ~job'.resolved.deleting
    BY <1>1, <1>2, <1>5 DEF Job, Same
  <2>2. JobClean'
    BY <2>1, BeforePlanClean
  <2>. QED
    BY <1>4, <2>2 DEF CleanInv, JobClean
<1>6. CASE job' = [job EXCEPT !.pc = "write", !.todo = todo]
  <2>1. /\ job'.pc = "write" /\ job'.copy = job.copy /\ job'.resolved = job.resolved
        /\ job'.todo = todo
    BY <1>1, <1>6 DEF Job
  <2>2. CopyIsResolved' /\ DeletesOnly' /\ NothingElsePending'
    BY <1>1, <1>2, <2>1 DEF CopyIsResolved, Same, DeletesOnly, NothingElsePending
  <2>3. ToGo' = IF job.copy.deleting THEN Owned(job.copy) ELSE Stale(job.copy)
    BY <1>2, <2>1 DEF ToGo, Same, Owned, Stale, Recorded, Desired
  <2>4. \A x : Asked(x)' <=> x \in todo
    BY <1>1, <2>1 DEF Asked, At
  <2>5. \A names \in SUBSET Names : \A l \in names :
          /\ listeners[l] # Nil => [kind |-> "delete listener", name |-> l] \in ToDelete(names)
          /\ l \in sets => [kind |-> "delete set", name |-> l] \in ToDelete(names)
          /\ [kind |-> "listener", name |-> l] \notin ToDelete(names)
          /\ [kind |-> "set", name |-> l] \notin ToDelete(names)
    BY DEF ToDelete
  <2>6. \A x \in ToReconcile(job.copy.spec) : x.name \in ManagedNames(job.copy.spec)
    BY DEF ToReconcile
  <2>7. Stale(job.copy) \in SUBSET Names /\ Owned(job.copy) \in SUBSET Names
    BY <1>1 DEF Stale, Owned, Recorded, Gateway, Desired
  <2>8. Stale(job.copy) \cap ManagedNames(job.copy.spec) = {}
    BY DEF Stale, Desired, ManagedNames
  <2>9. GoesAway'
    <3>1. CASE job.copy.deleting
      <4>1. ToGo' = Owned(job.copy) /\ todo = ToDelete(Owned(job.copy))
        BY <2>3, <3>1
      <4>. QED
        BY <1>1, <2>4, <2>5, <2>7, <4>1 DEF GoesAway
    <3>2. CASE ~job.copy.deleting
      <4>1. /\ ToGo' = Stale(job.copy)
            /\ todo = ToReconcile(job.copy.spec) \cup ToDelete(Stale(job.copy))
        BY <2>3, <3>2
      <4>2. \A l \in Stale(job.copy) :
              /\ [kind |-> "listener", name |-> l] \notin ToReconcile(job.copy.spec)
              /\ [kind |-> "set", name |-> l] \notin ToReconcile(job.copy.spec)
        BY <2>6, <2>8
      <4>. QED
        BY <1>1, <2>4, <2>5, <2>7, <4>1, <4>2 DEF GoesAway
    <3>. QED
      BY <3>1, <3>2
  <2>. QED
    BY <1>4, <2>2, <2>9 DEF CleanInv
<1>. QED
  BY <1>3, <1>5, <1>6

LEMMA SubmitClean ==
  ASSUME CleanedInv, NEW x \in Request, Submit(x)
  PROVE  CleanInv'
<1>1. /\ Busy /\ job \in Job /\ job.pc = "write" /\ x \in job.todo /\ pending = Nil
      /\ UNCHANGED <<server, cache, listeners, sets>>
  BY DEF Submit, At, Acceptable, CleanedInv, TypeOK
<1>2. /\ job'.pc = "wait" /\ job'.copy = job.copy /\ job'.resolved = job.resolved
      /\ job'.todo = job.todo \ {x}
      /\ pending'.request = x
  <2>1. job' = [job EXCEPT !.pc = "wait", !.todo = job.todo \ {x}]
    BY DEF Submit
  <2>. QED
    BY <1>1, <2>1 DEF Job, Submit
<1>3. SpecOfGeneration'
  BY <1>1, <1>2, KeepsServerSpecs DEF Same
<1>4. CopyIsResolved' /\ DeletesOnly' /\ NothingElsePending'
  BY <1>1, <1>2 DEF CleanedInv, CleanInv, CopyIsResolved, Same, DeletesOnly, NothingElsePending
<1>5. ToGo' = ToGo
  BY <1>2 DEF ToGo, Owned, Stale, Recorded, Desired
<1>6. \A y : Asked(y)' => Asked(y)
  BY <1>1, <1>2 DEF Asked
<1>7. Busy' => \A y : Asked(y) => Asked(y)'
  <2> SUFFICES ASSUME Busy', NEW y, Asked(y) PROVE Asked(y)'
    OBVIOUS
  <2>1. y \in job.todo
    BY <1>1 DEF Asked, At
  <2>2. pending' # Nil
    <3>1. job.copy.spec[x.name] \in Shapes \cup {Nil}
      BY <1>1 DEF Job, Gateway, Spec0, Request
    <3>2. pending' \in WorkRequest
      BY <3>1 DEF Submit, WorkRequest
    <3>. QED
      BY <3>2
  <2>. QED
    BY <1>2, <2>1, <2>2 DEF Asked, At
<1>8. GoesAway'
  BY <1>1, <1>5, <1>6, <1>7 DEF CleanedInv, CleanInv, GoesAway, InPlan
<1>. QED
  BY <1>3, <1>4, <1>8 DEF CleanInv

\* The worker ends its reconcile, with a last write, an error or a crash.
LEMMA EndClean ==
  ASSUME CleanedInv, Record \/ Reject \/ RemoveFinalizer \/ Fail \/ Crash
  PROVE  CleanInv'
<1>1. job' = Nil /\ cache' \in {server, cache}
  BY DEF Record, Reject, RemoveFinalizer, Fail, Crash, Finish
<1>2. \/ server' = server \/ server' = Nil
      \/ server # Nil /\ server'.generation = server.generation /\ server'.spec = server.spec
  <2>1. CASE Record \/ Reject
    <3>1. server \in Gateway /\ server # Nil
      BY <2>1 DEF Record, Reject, Current, CleanedInv, TypeOK
    <3>. QED
      BY <2>1, <3>1 DEF Record, Reject, Gateway
  <2>2. CASE RemoveFinalizer \/ Fail \/ Crash
    BY <2>2 DEF RemoveFinalizer, Fail, Crash
  <2>. QED
    BY <2>1, <2>2
<1>3. SpecOfGeneration'
  BY <1>1, <1>2, KeepsServerSpecs
<1>. QED
  BY <1>1, <1>3, NoJobClean DEF CleanInv, JobClean

\* OCI carries out the request that the worker waits for.
LEMMA CarryClean == CleanedInv /\ Carry => CleanInv'
<1> SUFFICES ASSUME CleanedInv, Carry PROVE CleanInv'
  OBVIOUS
<1>1. /\ pending # Nil /\ pending' = Nil /\ UNCHANGED <<server, cache, job>>
      /\ pending \in WorkRequest
      /\ listeners \in [Names -> Shapes \cup {Nil}]
  BY DEF Carry, CleanedInv, TypeOK
<1>2. SpecOfGeneration'
  BY <1>1, KeepsServerSpecs
<1>3. CopyIsResolved' /\ DeletesOnly' /\ NothingElsePending'
  BY <1>1 DEF CleanedInv, CleanInv, CopyIsResolved, Same, DeletesOnly, NothingElsePending,
    InPlan, Busy
<1>4. GoesAway'
  <2> SUFFICES ASSUME InPlan', NEW l \in ToGo'
               PROVE  /\ listeners'[l] # Nil => Asked([kind |-> "delete listener", name |-> l])'
                      /\ l \in sets' => Asked([kind |-> "delete set", name |-> l])'
                      /\ ~Asked([kind |-> "listener", name |-> l])'
                      /\ ~Asked([kind |-> "set", name |-> l])'
    BY DEF GoesAway
  <2>. DEFINE x == pending.request
  <2>1. InPlan /\ job \in Job /\ ToGo' = ToGo /\ At("wait")
    BY <1>1 DEF InPlan, Busy, CleanedInv, TypeOK, CleanInv, NothingElsePending, ToGo, Owned,
      Stale, Recorded, Desired, At
  <2>2. \A y : Asked(y)' <=> y \in job.todo
    BY <1>1 DEF Asked, At
  <2>3. \A y : Asked(y) <=> (y \in job.todo \/ y = x)
    BY <1>1, <2>1 DEF Asked
  <2>4. /\ listeners[l] # Nil => Asked([kind |-> "delete listener", name |-> l])
        /\ l \in sets => Asked([kind |-> "delete set", name |-> l])
        /\ ~Asked([kind |-> "listener", name |-> l])
        /\ ~Asked([kind |-> "set", name |-> l])
    BY <2>1 DEF CleanedInv, CleanInv, GoesAway
  <2>5. l \in Names
    BY <2>1 DEF ToGo, Owned, Stale, Recorded, Desired, Job, Gateway
  <2>6. x.kind \in Kinds /\ x.name \in Names /\ x = [kind |-> x.kind, name |-> x.name]
    BY <1>1 DEF WorkRequest, Request
  <2>7. \A k \in Kinds : x = [kind |-> k, name |-> l] <=> x.kind = k /\ x.name = l
    <3>1. \A k \in Kinds : /\ [kind |-> k, name |-> l].kind = k
                           /\ [kind |-> k, name |-> l].name = l
      OBVIOUS
    <3>. QED
      BY <2>6, <3>1
  <2>8. ~(x.kind = "set" /\ x.name = l) /\ ~(x.kind = "listener" /\ x.name = l)
    BY <2>3, <2>4, <2>7 DEF Kinds
  <2>9. listeners'[l] # Nil => Asked([kind |-> "delete listener", name |-> l])'
    <3> SUFFICES ASSUME listeners'[l] # Nil
                 PROVE  [kind |-> "delete listener", name |-> l] \in job.todo
      BY <2>2
    <3>1. listeners'[l] = listeners[l] /\ ~(x.kind = "delete listener" /\ x.name = l)
      BY <1>1, <2>5, <2>6, <2>8 DEF Carry, Kinds
    <3>. QED
      BY <2>3, <2>4, <2>7, <3>1 DEF Kinds
  <2>10. l \in sets' => Asked([kind |-> "delete set", name |-> l])'
    <3> SUFFICES ASSUME l \in sets'
                 PROVE  [kind |-> "delete set", name |-> l] \in job.todo
      BY <2>2
    <3>1. CASE x.kind = "set"
      <4>1. sets' = sets \cup {x.name}
        BY <3>1 DEF Carry
      <4>. QED
        BY <2>3, <2>4, <2>7, <2>8, <3>1, <4>1 DEF Kinds
    <3>2. CASE x.kind = "delete set"
      <4>1. sets' = sets \ {x.name}
        BY <3>2 DEF Carry
      <4>. QED
        BY <2>3, <2>4, <2>7, <3>2, <4>1 DEF Kinds
    <3>3. CASE x.kind \in {"listener", "delete listener"}
      <4>1. sets' = sets
        BY <3>3 DEF Carry
      <4>. QED
        BY <2>3, <2>4, <2>7, <3>3, <4>1 DEF Kinds
    <3>. QED
      BY <2>6, <3>1, <3>2, <3>3 DEF Kinds
  <2>. QED
    BY <2>2, <2>3, <2>4, <2>9, <2>10
<1>. QED
  BY <1>2, <1>3, <1>4 DEF CleanInv

LEMMA RequestFailsClean == CleanedInv /\ RequestFails => CleanInv'
<1> SUFFICES ASSUME CleanedInv, RequestFails PROVE CleanInv'
  OBVIOUS
<1>1. CASE At("wait")
  <2>1. job' = Nil /\ UNCHANGED <<server, cache>>
    BY <1>1 DEF RequestFails, Finish
  <2>. QED
    BY <2>1, NoJobClean, KeepsServerSpecs DEF CleanInv, JobClean
<1>2. CASE ~At("wait")
  <2>1. UNCHANGED <<server, cache, job, listeners, sets>> /\ pending' = Nil
    BY <1>2 DEF RequestFails
  <2>2. SpecOfGeneration'
    BY <2>1, KeepsServerSpecs
  <2>3. CopyIsResolved' /\ DeletesOnly' /\ NothingElsePending'
    BY <2>1 DEF CleanedInv, CleanInv, CopyIsResolved, Same, DeletesOnly, NothingElsePending,
      InPlan, Busy
  <2>4. ToGo' = ToGo /\ (InPlan' <=> InPlan) /\ \A x : Asked(x)' <=> Asked(x)
    BY <1>2, <2>1 DEF ToGo, Owned, Stale, Recorded, Desired, InPlan, Busy, Asked, At
  <2>5. GoesAway'
    BY <2>1, <2>4 DEF CleanedInv, CleanInv, GoesAway
  <2>. QED
    BY <2>2, <2>3, <2>5 DEF CleanInv
<1>. QED
  BY <1>1, <1>2

LEMMA OthersClean ==
  ASSUME CleanedInv, Users \/ Observe
  PROVE  CleanInv'
<1>1. UNCHANGED <<job, oci>>
  BY DEF Users, Edit, Delete, Observe
<1>2. CASE \E spec \in Specs : Edit(spec)
  BY <1>1, <1>2, EditSpecs, SameJobClean DEF CleanedInv, CleanInv, JobClean
<1>3. CASE Delete \/ Observe
  <2>1. cache' \in {server, cache}
    BY <1>3 DEF Delete, Observe
  <2>2. \/ server' = server \/ server' = Nil
        \/ server # Nil /\ server'.generation = server.generation /\ server'.spec = server.spec
    <3>1. server # Nil => server \in Gateway
      BY DEF CleanedInv, TypeOK
    <3>. QED
      BY <1>3, <3>1 DEF Delete, Observe, Gateway
  <2>3. SpecOfGeneration'
    BY <1>1, <2>1, <2>2, KeepsServerSpecs
  <2>. QED
    BY <1>1, <2>3, SameJobClean DEF CleanedInv, CleanInv, JobClean
<1>. QED
  BY <1>2, <1>3 DEF Users

LEMMA InitClean == Init => CleanedInv
<1> SUFFICES ASSUME Init PROVE CleanedInv
  OBVIOUS
<1>1. TypeOK
  BY InitTyped
<1>2. Copies \ {Nil} \subseteq {server} /\ ~Busy
  BY DEF Init, Copies, Busy
<1>3. SpecOfGeneration
  <2>1. server # Nil => server.generation <= server.generation
    BY <1>1 DEF TypeOK, Gateway, Generations
  <2>. QED
    BY <1>2, <2>1 DEF SpecOfGeneration
<1>. QED
  BY <1>1, <1>2, <1>3 DEF CleanedInv, CleanInv, CopyIsResolved, DeletesOnly, GoesAway,
    NothingElsePending, InPlan

LEMMA NextCleaned == CleanedInv /\ [Next]_vars => CleanedInv'
<1> SUFFICES ASSUME CleanedInv, [Next]_vars PROVE CleanedInv'
  OBVIOUS
<1>1. TypeOK'
  BY NextTyped DEF CleanedInv
<1>2. CleanInv'
  <2>1. CASE Step
    BY <2>1, TakeClean, BeginClean, GotoClean, ReadClean, SubmitClean, EndClean DEF Step
  <2>2. CASE UNCHANGED vars
    <3>1. UNCHANGED <<server, cache, job, oci>>
      BY <2>2 DEF vars, oci
    <3>. QED
      BY <3>1, KeepsServerSpecs, SameJobClean DEF CleanedInv, CleanInv, JobClean
  <2>. QED
    BY <2>1, <2>2, EndClean, CarryClean, RequestFailsClean, OthersClean DEF Next
<1>. QED
  BY <1>1, <1>2 DEF CleanedInv

LEMMA AlwaysCleaned == Spec => []CleanedInv
BY InitClean, NextCleaned, PTL DEF Spec

----------------------------------------------------------------------------
(* Nothing is left behind, and nothing forgotten.                          *)

\* The step of ReleasedMeansDeleted.
ReleasesDeleted ==
  server # Nil /\ server' = Nil /\ server.finalizer =>
    /\ pending = Nil
    /\ \A l \in Recorded(server) \cup Desired(server.spec) : listeners[l] = Nil /\ l \notin sets

LEMMA LastStays ==
  ASSUME TypeOK, Record \/ Reject
  PROVE  server' # Nil
<1>1. server \in Gateway /\ job.copy \in Gateway
  BY DEF Record, Reject, At, Current, TypeOK, Job
<1>2. CASE Record
  <2>1. Desired(Reported) \subseteq Names
    BY DEF Desired
  <2>2. server' \in Gateway
    BY <1>1, <1>2, <2>1 DEF Record, Gateway
  <2>. QED
    BY <2>2
<1>3. CASE Reject
  <2>1. server' \in Gateway
    BY <1>1, <1>3, ConditionTyped DEF Reject
  <2>. QED
    BY <2>1
<1>. QED
  BY <1>2, <1>3

LEMMA ReleaseDeletes == CleanedInv /\ [Next]_vars => ReleasesDeleted
<1> SUFFICES ASSUME CleanedInv, [Next]_vars, server # Nil, server' = Nil, server.finalizer
             PROVE  /\ pending = Nil
                    /\ \A l \in Recorded(server) \cup Desired(server.spec) :
                         listeners[l] = Nil /\ l \notin sets
  BY DEF ReleasesDeleted
<1>1. server \in Gateway
  BY DEF CleanedInv, TypeOK
<1>2. RemoveFinalizer
  <2>1. CASE Accept \/ MarkPending \/ Protect \/ Report
    BY <2>1, BeginParts DEF CleanedInv
  <2>2. CASE Record \/ Reject
    BY <2>2, LastStays DEF CleanedInv
  <2>3. CASE \E spec \in Specs : Edit(spec)
    BY <2>3, EditServer DEF CleanedInv
  <2>4. CASE Delete
    <3>1. server' = [server EXCEPT !.deleting = TRUE]
      BY <2>4 DEF Delete
    <3>2. server' \in Gateway
      BY <1>1, <3>1 DEF Gateway
    <3>. QED
      BY <3>2
  <2>5. UNCHANGED server \/ RemoveFinalizer
    BY <2>1, <2>2, <2>3, <2>4 DEF Next, Step, Users, Take, CheckProgrammed, ReadLoadBalancer,
      Submit, Waited, Written, Refresh, Fail, Carry, RequestFails, Observe, Crash, vars
  <2>. QED
    BY <2>5
<1>3. Busy /\ job \in Job /\ job.pc = "release" /\ job.todo = {} /\ server = job.copy
  BY <1>2 DEF RemoveFinalizer, At, CleanedInv, TypeOK
<1>4. job.resolved.deleting /\ Same(server, job.resolved) /\ InPlan
  BY <1>3 DEF CleanedInv, CleanInv, DeletesOnly, CopyIsResolved, InPlan
<1>5. ToGo = Recorded(server) \cup Desired(server.spec)
  BY <1>4 DEF ToGo, Owned, Same, Recorded, Desired
<1>6. pending = Nil
  BY <1>3, <1>4 DEF CleanedInv, CleanInv, NothingElsePending
<1>7. \A x : ~Asked(x)
  BY <1>3 DEF Asked, At
<1>. QED
  BY <1>4, <1>5, <1>6, <1>7 DEF CleanedInv, CleanInv, GoesAway

\* A Gateway that loses its finalizer leaves nothing behind on the load balancer, of what
\* it recorded or specifies, and no request that could still bring something there.
THEOREM ReleasedMeansDeletedHolds == Spec => ReleasedMeansDeleted
<1>1. CleanedInv /\ [Next]_vars => [ReleasesDeleted]_vars
  BY ReleaseDeletes
<1>2. Spec => [][ReleasesDeleted]_vars
  BY <1>1, AlwaysCleaned, PTL DEF Spec
<1>. QED
  BY <1>2 DEF ReleasedMeansDeleted, ReleasesDeleted

\* The step of RecordKeepsWhatIsThere.
DropsNothing ==
  \A l \in Names :
    Drops(l) => \/ job.copy.generation # job.resolved.generation
                \/ l \notin Recorded(job.resolved)

LEMMA RecordKeeps == CleanedInv /\ [Next]_vars => DropsNothing
<1> SUFFICES ASSUME CleanedInv, [Next]_vars, NEW l \in Names, Drops(l),
                    job.copy.generation = job.resolved.generation,
                    l \in Recorded(job.resolved)
             PROVE  FALSE
  BY DEF DropsNothing
<1>1. /\ server \in Gateway /\ server # Nil /\ server' # Nil
      /\ l \in Recorded(server) \ Recorded(server')
      /\ listeners[l] # Nil \/ l \in sets
  BY DEF Drops, CleanedInv, TypeOK
<1>2. Record
  <2>1. CASE Accept \/ MarkPending \/ Protect \/ Report
    <3>1. server' = server \/ Same(server', server)
      BY <2>1, BeginParts DEF CleanedInv
    <3>. QED
      BY <1>1, <3>1 DEF Same, Recorded
  <2>2. CASE Reject \/ Delete
    <3>1. server'.recorded = server.recorded
      BY <1>1, <2>2 DEF Reject, Delete, Gateway
    <3>. QED
      BY <1>1, <3>1 DEF Recorded
  <2>3. CASE \E spec \in Specs : Edit(spec)
    <3>1. server'.recorded = server.recorded
      BY <1>1, <2>3 DEF Edit, Gateway
    <3>. QED
      BY <1>1, <3>1 DEF Recorded
  <2>4. UNCHANGED server \/ Record
    BY <1>1, <2>1, <2>2, <2>3 DEF Next, Step, Users, Take, CheckProgrammed, ReadLoadBalancer,
      Submit, Waited, Written, Refresh, RemoveFinalizer, Fail, Carry, RequestFails, Observe,
      Crash, vars
  <2>. QED
    BY <1>1, <2>4
<1>3. Busy /\ job \in Job /\ job.pc = "record" /\ job.todo = {} /\ InPlan
  BY <1>2 DEF Record, At, CleanedInv, TypeOK, InPlan
<1>4. job.copy.spec = job.resolved.spec
  <2>1. job.copy \in Copies \ {Nil} /\ job.resolved \in Copies \ {Nil}
    BY <1>3 DEF Copies, Job
  <2>. QED
    BY <2>1 DEF CleanedInv, CleanInv, SpecOfGeneration
<1>5. l \notin Desired(job.resolved.spec)
  <2>1. server'.recorded = Desired(job.resolved.spec)
    BY <1>1, <1>2, <1>4 DEF Record, Reported, Gateway
  <2>2. Desired(job.resolved.spec) # Nil
    BY DEF Desired
  <2>. QED
    BY <1>1, <2>1, <2>2 DEF Recorded
<1>6. l \in ToGo
  BY <1>3, <1>5 DEF ToGo, Stale, CleanedInv, CleanInv, DeletesOnly
<1>7. ~Asked([kind |-> "delete listener", name |-> l])
      /\ ~Asked([kind |-> "delete set", name |-> l])
  BY <1>3 DEF Asked, At
<1>. QED
  BY <1>1, <1>3, <1>6, <1>7 DEF CleanedInv, CleanInv, GoesAway

\* A report never drops from the record what is still on the load balancer, but for a
\* report about a generation it had not programmed, and a name its reconcile did not know.
THEOREM RecordKeepsWhatIsThereHolds == Spec => RecordKeepsWhatIsThere
<1>1. CleanedInv /\ [Next]_vars => [DropsNothing]_vars
  BY RecordKeeps
<1>2. Spec => [][DropsNothing]_vars
  BY <1>1, AlwaysCleaned, PTL DEF Spec
<1>. QED
  BY <1>2 DEF RecordKeepsWhatIsThere, DropsNothing

----------------------------------------------------------------------------
(* When everything has settled.                                            *)

Supported(spec) == \A l \in Names : spec[l] \notin Unsupported

\* A request that takes nothing from what this specification wants.
Fits(x, shape, spec) ==
  /\ x.kind = "listener" => shape = spec[x.name]
  /\ x.kind \in {"delete listener", "delete set"} => x.name \notin ManagedNames(spec)

PendingFits(spec) == pending # Nil => Fits(pending.request, pending.shape, spec)

\* A reconcile that programs asks for nothing that its own specification does not want.
PlanFits ==
  InPlan /\ ~job.resolved.deleting =>
    /\ Supported(job.resolved.spec)
    /\ \A x \in job.todo : Fits(x, job.resolved.spec[x.name], job.resolved.spec)
    /\ PendingFits(job.resolved.spec)

\* What its specification wants is there, or is asked for.
GetsServed ==
  InPlan /\ ~job.resolved.deleting =>
    \A l \in ManagedNames(job.resolved.spec) :
      /\ listeners[l] = job.resolved.spec[l] \/ Asked([kind |-> "listener", name |-> l])
      /\ l \in sets \/ Asked([kind |-> "set", name |-> l])

\* An unsupported listener was the reason to reject the Gateway.
RejectsUnsupported ==
  At("reject") => ~job.resolved.deleting /\ ~Supported(job.resolved.spec)

\* The generation that a Gateway says it is programmed at, or none.
Reports(g, n) == g.programmed = [status |-> "True", generation |-> n]

\* The informer, and until its report the reconcile, know every generation that was
\* reported as programmed.
ReportsAreKnown ==
  cache # Nil =>
    /\ Busy => job.copy.generation <= cache.generation
               /\ job.resolved.generation <= cache.generation
    /\ \A g \in Copies \ {Nil} : \A n \in Generations :
         Reports(g, n) =>
           /\ n <= cache.generation
           /\ Busy /\ job.pc # "record" => n <= job.resolved.generation

\* Nobody deletes a Gateway but its user, and the API server knows first.
DeletionIsKnown ==
  \A g \in Copies \ {Nil} : g.deleting => server = Nil \/ server.deleting

\* The Gateway is not queued: what a reconcile has taken is what the informer has.
NothingNew == Busy /\ ~queued => ~Watched(job.resolved, cache)

\* What the history variable says of the report at hand.
ReportIsJudged ==
  At("record") => (misreported <=> job.copy.generation # job.resolved.generation)

\* What is reported as programmed at the last generation is there, and stays there.
ReportIsTrue ==
  /\ server # Nil /\ ~server.deleting /\ ~misreported
  /\ \E g \in Copies \ {Nil} : Reports(g, server.generation)
  => Supported(server.spec) /\ Serves(server) /\ PendingFits(server.spec)

\* A reconcile is queued, or will be when the informer sees the Gateway.
ToCome == queued \/ Watched(cache, server)

\* When no reconcile is to come, the last one has left what SettledIsServed says, and
\* nothing is on its way that changes it.
IdleIsServed ==
  server # Nil /\ ~Busy /\ ~ToCome =>
    /\ ~server.deleting
    /\ ~misreported =>
         IF Supported(server.spec)
         THEN server.recorded = Desired(server.spec) /\ Serves(server) /\ PendingFits(server.spec)
         ELSE server.accepted = [status |-> "False", generation |-> server.generation]

\* What the proof that everything gets served rests on.
PlanInv == PlanFits /\ GetsServed /\ RejectsUnsupported
KnownInv == ReportsAreKnown /\ DeletionIsKnown /\ NothingNew /\ ReportIsJudged
SettlesInv == PlanInv /\ KnownInv /\ ReportIsTrue /\ IdleIsServed
SettledInv == IInv /\ CleanedInv /\ SettlesInv

----------------------------------------------------------------------------
(* What a reconcile asks for, and what it gets.                            *)

LEMMA NoPlan ==
  ASSUME job' = Nil
  PROVE  PlanInv'
BY DEF PlanInv, PlanFits, GetsServed, RejectsUnsupported, InPlan, At, Busy

LEMMA SamePlan ==
  ASSUME PlanInv, UNCHANGED <<job, oci>>
  PROVE  PlanInv'
BY DEF PlanInv, PlanFits, GetsServed, RejectsUnsupported, InPlan, At, Busy, Asked, Fits,
  PendingFits, Supported, ManagedNames, oci

LEMMA BeforePlan ==
  ASSUME job'.pc \in {"accept", "check", "pend", "protect", "read"}
  PROVE  PlanInv'
BY DEF PlanInv, PlanFits, GetsServed, RejectsUnsupported, InPlan, At, Busy

\* The worker goes on, and asks for what it asked for before.
LEMMA MovesOn ==
  ASSUME PlanInv, InPlan, job'.pc # "reject",
         job'.resolved = job.resolved, job'.todo = job.todo,
         UNCHANGED <<listeners, sets, pending>>,
         \A x : Asked(x)' <=> Asked(x)
  PROVE  PlanInv'
BY DEF PlanInv, PlanFits, GetsServed, RejectsUnsupported, At, Fits,
  PendingFits, Supported, ManagedNames

LEMMA StartPlan == SettledInv /\ (Take \/ Accept \/ MarkPending \/ Protect \/ Report) => PlanInv'
<1> SUFFICES ASSUME SettledInv, Take \/ Accept \/ MarkPending \/ Protect \/ Report
             PROVE  PlanInv'
  OBVIOUS
<1>1. CASE Take
  <2>1. job' = Nil \/ job'.pc \in {"accept", "read"}
    BY <1>1 DEF Take
  <2>. QED
    BY <2>1, NoPlan, BeforePlan
<1>2. CASE Accept \/ MarkPending \/ Protect \/ Report
  <2>1. /\ Busy /\ job \in Job /\ <<job.pc, job'.pc>> \in Begins
        /\ job'.resolved = job.resolved /\ job'.todo = {}
        /\ UNCHANGED <<cache, oci, queued, crashes>>
    BY <1>2, BeginParts DEF SettledInv, CleanedInv
  <2>2. CASE job.pc # "report"
    <3>1. job'.pc \in {"check", "protect", "read"}
      BY <2>1, <2>2 DEF Begins
    <3>. QED
      BY <3>1, BeforePlan
  <2>3. CASE job.pc = "report"
    <3>1. job'.pc = "record" /\ job.todo = {} /\ InPlan
      BY <2>1, <2>3 DEF Begins, SettledInv, CleanedInv, TypeOK, InPlan
    <3>2. \A x : Asked(x)' <=> Asked(x)
      BY <2>1, <2>3, <3>1 DEF Asked, At
    <3>. QED
      BY <2>1, <3>1, <3>2, MovesOn DEF SettledInv, SettlesInv, oci
  <2>. QED
    BY <2>2, <2>3
<1>. QED
  BY <1>1, <1>2

\* The steps of the worker that write nothing and move it on.
LEMMA QuietParts ==
  ASSUME TypeOK, CheckProgrammed \/ Waited \/ Written \/ Refresh, job' # Nil
  PROVE  /\ Busy /\ Busy' /\ job \in Job /\ UNCHANGED <<server, cache, oci, queued, history>>
         /\ \/ CheckProgrammed /\ job.pc = "check" /\ job'.pc = "pend"
            \/ Waited /\ job.pc = "wait" /\ job'.pc = "write" /\ pending = Nil
            \/ /\ Written /\ job.pc = "write" /\ job.todo = {}
               /\ job'.pc = IF job.copy.deleting THEN "release" ELSE "refresh"
            \/ Refresh /\ job.pc = "refresh" /\ job'.pc = "report"
         /\ job'.resolved = job.resolved /\ job'.todo = job.todo
         /\ job'.copy = IF Refresh THEN cache ELSE job.copy
<1>1. Busy /\ Busy' /\ job \in Job /\ UNCHANGED <<server, cache, oci, queued, history>>
  BY DEF CheckProgrammed, Waited, Written, Refresh, At, TypeOK, Busy
<1>2. \/ CheckProgrammed /\ job.pc = "check" /\ job'.pc = "pend"
      \/ Waited /\ job.pc = "wait" /\ job'.pc = "write" /\ pending = Nil
      \/ /\ Written /\ job.pc = "write" /\ job.todo = {}
         /\ job'.pc = IF job.copy.deleting THEN "release" ELSE "refresh"
      \/ Refresh /\ job.pc = "refresh" /\ job'.pc = "report"
  BY <1>1 DEF CheckProgrammed, Waited, Written, Refresh, Goto, Finish, At, Job
<1>3. \/ \E pc \in PCs : job' = [job EXCEPT !.pc = pc] /\ ~Refresh
      \/ job' = [job EXCEPT !.pc = "report", !.copy = cache] /\ Refresh
  BY <1>2 DEF CheckProgrammed, Waited, Written, Refresh, Goto, Finish, PCs
<1>4. /\ job'.resolved = job.resolved /\ job'.todo = job.todo
      /\ job'.copy = IF Refresh THEN cache ELSE job.copy
  BY <1>1, <1>3 DEF Job
<1>. QED
  BY <1>1, <1>2, <1>4

LEMMA QuietPlan ==
  SettledInv /\ (CheckProgrammed \/ Waited \/ Written \/ Refresh) => PlanInv'
<1> SUFFICES ASSUME SettledInv, CheckProgrammed \/ Waited \/ Written \/ Refresh
             PROVE  PlanInv'
  OBVIOUS
<1>1. CASE job' = Nil
  BY <1>1, NoPlan
<1>2. CASE job' # Nil
  <2>1. /\ Busy /\ Busy' /\ job \in Job /\ UNCHANGED <<server, cache, oci, queued, history>>
        /\ \/ CheckProgrammed /\ job.pc = "check" /\ job'.pc = "pend"
           \/ Waited /\ job.pc = "wait" /\ job'.pc = "write" /\ pending = Nil
           \/ /\ Written /\ job.pc = "write" /\ job.todo = {}
              /\ job'.pc = IF job.copy.deleting THEN "release" ELSE "refresh"
           \/ Refresh /\ job.pc = "refresh" /\ job'.pc = "report"
        /\ job'.resolved = job.resolved /\ job'.todo = job.todo
    BY <1>2, QuietParts DEF SettledInv, CleanedInv
  <2>2. CASE job.pc = "check"
    BY <2>1, <2>2, BeforePlan
  <2>3. CASE job.pc # "check"
    <3>1. InPlan /\ job'.pc # "reject"
      BY <2>1, <2>3 DEF InPlan
    <3>2. \A x : Asked(x)' <=> Asked(x)
      BY <2>1, <2>3 DEF Asked, At, oci
    <3>. QED
      BY <2>1, <3>1, <3>2, MovesOn DEF SettledInv, SettlesInv, oci
  <2>. QED
    BY <2>2, <2>3
<1>. QED
  BY <1>1, <1>2

LEMMA ReadPlan == SettledInv /\ ReadLoadBalancer => PlanInv'
<1> SUFFICES ASSUME SettledInv, ReadLoadBalancer PROVE PlanInv'
  OBVIOUS
<1>1. /\ Busy /\ job \in Job /\ job.pc = "read" /\ pending = Nil
      /\ UNCHANGED <<server, cache, listeners, sets, pending>>
      /\ job.copy \in Gateway /\ job.resolved \in Gateway
  BY DEF ReadLoadBalancer, At, NotBusy, SettledInv, CleanedInv, TypeOK, oci, Job
<1>2. Same(job.copy, job.resolved)
  BY <1>1 DEF SettledInv, CleanedInv, CleanInv, CopyIsResolved
<1>. DEFINE todo == IF job.copy.deleting THEN ToDelete(Owned(job.copy))
                    ELSE ToReconcile(job.copy.spec) \cup ToDelete(Stale(job.copy))
<1>3. \/ /\ ~job.copy.deleting /\ ~Supported(job.copy.spec)
         /\ job' = [job EXCEPT !.pc = "reject"]
      \/ /\ job.copy.deleting \/ Supported(job.copy.spec)
         /\ job' = [job EXCEPT !.pc = "write", !.todo = todo]
  BY DEF ReadLoadBalancer, Goto, Supported
<1>4. CASE ~job.copy.deleting /\ ~Supported(job.copy.spec) /\ job' = [job EXCEPT !.pc = "reject"]
  <2>1. job'.pc = "reject" /\ job'.resolved = job.resolved
    BY <1>1, <1>4 DEF Job
  <2>2. ~job'.resolved.deleting /\ ~Supported(job'.resolved.spec)
    BY <1>2, <1>4, <2>1 DEF Same
  <2>. QED
    BY <2>1, <2>2 DEF PlanInv, PlanFits, GetsServed, RejectsUnsupported, InPlan, Supported
<1>5. CASE /\ job.copy.deleting \/ Supported(job.copy.spec)
           /\ job' = [job EXCEPT !.pc = "write", !.todo = todo]
  <2>1. job'.pc = "write" /\ job'.resolved = job.resolved /\ job'.todo = todo
    BY <1>1, <1>5 DEF Job
  <2> SUFFICES ASSUME ~job.resolved.deleting
               PROVE  PlanFits' /\ GetsServed'
    BY <2>1 DEF PlanInv, PlanFits, GetsServed, RejectsUnsupported, At
  <2>. DEFINE spec == job.resolved.spec
  <2>2. job.copy.spec = spec /\ Supported(spec)
        /\ todo = ToReconcile(spec) \cup ToDelete(Stale(job.copy))
    BY <1>2, <1>5 DEF Same
  <2>3. \A x \in ToReconcile(spec) : x.kind \in {"set", "listener"}
    BY DEF ToReconcile
  <2>4. \A x \in ToDelete(Stale(job.copy)) :
          x.kind \in {"delete set", "delete listener"} /\ x.name \in Stale(job.copy)
    <3>1. \A x \in ToDelete(Stale(job.copy)) : x.name \in Stale(job.copy)
      BY DeletesOnlyThese
    <3>2. ASSUME NEW x \in ToDelete(Stale(job.copy))
          PROVE  x.kind \in {"delete set", "delete listener"}
      <4>1. PICK l \in Stale(job.copy), k \in {"delete listener", "delete set"} :
              x = [kind |-> k, name |-> l]
        BY DEF ToDelete
      <4>. QED
        BY <4>1
    <3>. QED
      BY <3>1, <3>2
  <2>5. Stale(job.copy) \cap ManagedNames(spec) = {}
    BY <2>2 DEF Stale, Desired, ManagedNames
  <2>6. \A x \in todo : Fits(x, spec[x.name], spec)
    BY <2>2, <2>3, <2>4, <2>5 DEF Fits
  <2>7. PlanFits'
    BY <1>1, <2>1, <2>2, <2>6 DEF PlanFits, PendingFits, Supported, Fits, ManagedNames
  <2>8. \A l \in ManagedNames(spec) :
          /\ listeners[l] = spec[l] \/ [kind |-> "listener", name |-> l] \in todo
          /\ l \in sets \/ [kind |-> "set", name |-> l] \in todo
    BY <2>2 DEF ToReconcile
  <2>9. GetsServed'
    <3>1. \A x : x \in todo => Asked(x)'
      BY <2>1 DEF Asked
    <3>. HIDE DEF todo
    <3>2. \A l \in ManagedNames(spec) :
            /\ listeners'[l] = spec[l] \/ Asked([kind |-> "listener", name |-> l])'
            /\ l \in sets' \/ Asked([kind |-> "set", name |-> l])'
      BY <1>1, <2>8, <3>1
    <3>. QED
      BY <2>1, <3>2 DEF GetsServed, ManagedNames
  <2>. QED
    BY <2>7, <2>9
<1>. QED
  BY <1>3, <1>4, <1>5

\* What a request is, and when it was made.
LEMMA SubmitParts ==
  ASSUME TypeOK, NEW x \in Request, Submit(x)
  PROVE  /\ Busy /\ job \in Job /\ job.pc = "write" /\ x \in job.todo /\ pending = Nil
         /\ UNCHANGED <<server, cache, listeners, sets, queued, history>>
         /\ job'.pc = "wait" /\ job'.copy = job.copy /\ job'.resolved = job.resolved
         /\ job'.todo = job.todo \ {x}
         /\ pending' # Nil /\ pending'.request = x /\ pending'.shape = job.copy.spec[x.name]
<1>1. /\ Busy /\ job \in Job /\ job.pc = "write" /\ x \in job.todo /\ pending = Nil
      /\ UNCHANGED <<server, cache, listeners, sets, queued, history>>
  BY DEF Submit, At, Acceptable, TypeOK
<1>2. job' = [job EXCEPT !.pc = "wait", !.todo = job.todo \ {x}]
  BY DEF Submit
<1>3. job.copy.spec[x.name] \in Shapes \cup {Nil}
  BY <1>1 DEF Job, Gateway, Spec0, Request
<1>4. pending' \in WorkRequest
  BY <1>3 DEF Submit, WorkRequest
<1>5. pending' # Nil /\ pending'.request = x /\ pending'.shape = job.copy.spec[x.name]
  BY <1>4 DEF Submit
<1>. QED
  BY <1>1, <1>2, <1>5 DEF Job

LEMMA SubmitPlan ==
  ASSUME SettledInv, NEW x \in Request, Submit(x)
  PROVE  PlanInv'
<1>1. /\ Busy /\ job \in Job /\ job.pc = "write" /\ x \in job.todo /\ pending = Nil
      /\ UNCHANGED <<server, cache, listeners, sets, queued, history>>
      /\ job'.pc = "wait" /\ job'.copy = job.copy /\ job'.resolved = job.resolved
      /\ job'.todo = job.todo \ {x}
      /\ pending' # Nil /\ pending'.request = x /\ pending'.shape = job.copy.spec[x.name]
  BY SubmitParts DEF SettledInv, CleanedInv
<1>2. InPlan /\ Same(job.copy, job.resolved)
  BY <1>1 DEF InPlan, SettledInv, CleanedInv, CleanInv, CopyIsResolved
<1> SUFFICES ASSUME ~job.resolved.deleting, Busy'
             PROVE  PlanFits' /\ GetsServed'
  BY <1>1 DEF PlanInv, PlanFits, GetsServed, RejectsUnsupported, At, InPlan
<1>3. /\ Supported(job.resolved.spec)
      /\ \A y \in job.todo : Fits(y, job.resolved.spec[y.name], job.resolved.spec)
  BY <1>2 DEF SettledInv, SettlesInv, PlanInv, PlanFits
<1>4. Fits(x, pending'.shape, job.resolved.spec)
  BY <1>1, <1>2, <1>3 DEF Same
<1>5. PlanFits'
  <2>1. PendingFits(job.resolved.spec)'
    BY <1>1, <1>4 DEF PendingFits, Fits, ManagedNames
  <2>2. \A y \in job.todo \ {x} : Fits(y, job.resolved.spec[y.name], job.resolved.spec)'
    BY <1>1, <1>3 DEF Fits, ManagedNames
  <2>. QED
    BY <1>1, <1>3, <2>1, <2>2 DEF PlanFits, Supported
<1>6. \A y : Asked(y) => Asked(y)'
  BY <1>1 DEF Asked, At
<1>7. GetsServed'
  BY <1>1, <1>2, <1>6 DEF SettledInv, SettlesInv, PlanInv, GetsServed, ManagedNames
<1>. QED
  BY <1>5, <1>7

\* The worker ends its reconcile, with a last write, an error or a crash.
LEMMA EndPlan ==
  ASSUME Record \/ Reject \/ RemoveFinalizer \/ Fail \/ Crash
  PROVE  PlanInv'
BY NoPlan DEF Record, Reject, RemoveFinalizer, Fail, Crash, Finish

\* What OCI does with a request that fits a specification.
LEMMA CarryFits ==
  ASSUME TypeOK, Carry, NEW spec \in Spec0, PendingFits(spec), NEW l \in ManagedNames(spec)
  PROVE  /\ \/ listeners[l] = spec[l]
            \/ pending.request = [kind |-> "listener", name |-> l]
            => listeners'[l] = spec[l]
         /\ l \in sets \/ pending.request = [kind |-> "set", name |-> l] => l \in sets'
<1>1. /\ pending # Nil /\ pending \in WorkRequest
      /\ listeners \in [Names -> Shapes \cup {Nil}]
      /\ l \in Names
  BY DEF Carry, TypeOK, ManagedNames
<1>. DEFINE x == pending.request
<1>2. /\ x.kind \in Kinds /\ x.name \in Names
      /\ Fits(x, pending.shape, spec)
  BY <1>1 DEF WorkRequest, Request, PendingFits
<1>3. \A k \in Kinds : x = [kind |-> k, name |-> l] => x.kind = k /\ x.name = l
  OBVIOUS
<1>4. CASE x.kind = "set"
  <2>1. sets' = sets \cup {x.name} /\ listeners' = listeners
    BY <1>4 DEF Carry
  <2>. QED
    BY <1>3, <1>4, <2>1 DEF Kinds
<1>5. CASE x.kind = "listener"
  <2>1. listeners' = [listeners EXCEPT ![x.name] = pending.shape] /\ sets' = sets
    BY <1>5 DEF Carry
  <2>2. pending.shape = spec[x.name]
    BY <1>2, <1>5 DEF Fits
  <2>. HIDE DEF x
  <2>. QED
    BY <1>1, <1>2, <1>3, <1>5, <2>1, <2>2 DEF Kinds, x
<1>6. CASE x.kind = "delete listener"
  <2>1. listeners' = [listeners EXCEPT ![x.name] = Nil] /\ sets' = sets
    BY <1>6 DEF Carry
  <2>2. x.name # l
    BY <1>2, <1>6 DEF Fits
  <2>. QED
    BY <1>1, <1>3, <1>6, <2>1, <2>2 DEF Kinds
<1>7. CASE x.kind = "delete set"
  <2>1. sets' = sets \ {x.name} /\ listeners' = listeners
    BY <1>7 DEF Carry
  <2>2. x.name # l
    BY <1>2, <1>7 DEF Fits
  <2>. QED
    BY <1>1, <1>3, <1>7, <2>1, <2>2 DEF Kinds
<1>. QED
  BY <1>2, <1>4, <1>5, <1>6, <1>7 DEF Kinds

LEMMA CarryPlan == SettledInv /\ Carry => PlanInv'
<1> SUFFICES ASSUME SettledInv, Carry PROVE PlanInv'
  OBVIOUS
<1>1. pending # Nil /\ pending' = Nil /\ UNCHANGED <<server, cache, job>>
  BY DEF Carry
<1> SUFFICES ASSUME InPlan, ~job.resolved.deleting
             PROVE  PlanFits' /\ GetsServed'
  BY <1>1 DEF SettledInv, SettlesInv, PlanInv, PlanFits, GetsServed, RejectsUnsupported, At,
    InPlan, Busy, Supported
<1>2. At("wait") /\ job \in Job /\ job.resolved.spec \in Spec0
  BY <1>1 DEF SettledInv, CleanedInv, CleanInv, NothingElsePending, InPlan, At, TypeOK, Job,
    Gateway
<1>3. PlanFits'
  BY <1>1 DEF SettledInv, SettlesInv, PlanInv, PlanFits, PendingFits, Supported, Fits,
    ManagedNames
<1>4. PendingFits(job.resolved.spec)
  BY DEF SettledInv, SettlesInv, PlanInv, PlanFits
<1>5. \A x : Asked(x) <=> x \in job.todo \/ x = pending.request
  BY <1>1, <1>2 DEF Asked
<1>6. \A x : Asked(x)' <=> x \in job.todo
  BY <1>1 DEF Asked, At
<1>7. ASSUME NEW l \in ManagedNames(job.resolved.spec)
      PROVE  /\ listeners'[l] = job.resolved.spec[l] \/ Asked([kind |-> "listener", name |-> l])'
             /\ l \in sets' \/ Asked([kind |-> "set", name |-> l])'
  <2>1. /\ listeners[l] = job.resolved.spec[l] \/ Asked([kind |-> "listener", name |-> l])
        /\ l \in sets \/ Asked([kind |-> "set", name |-> l])
    BY DEF SettledInv, SettlesInv, PlanInv, GetsServed
  <2>2. /\ \/ listeners[l] = job.resolved.spec[l]
           \/ pending.request = [kind |-> "listener", name |-> l]
           => listeners'[l] = job.resolved.spec[l]
        /\ l \in sets \/ pending.request = [kind |-> "set", name |-> l] => l \in sets'
    BY <1>2, <1>4, CarryFits DEF SettledInv, CleanedInv
  <2>. QED
    BY <1>5, <1>6, <2>1, <2>2
<1>8. GetsServed'
  BY <1>1, <1>7 DEF GetsServed, ManagedNames
<1>. QED
  BY <1>3, <1>8

LEMMA RequestFailsPlan == SettledInv /\ RequestFails => PlanInv'
<1> SUFFICES ASSUME SettledInv, RequestFails PROVE PlanInv'
  OBVIOUS
<1>1. CASE At("wait")
  BY <1>1, NoPlan DEF RequestFails, Finish
<1>2. CASE ~At("wait")
  <2>1. UNCHANGED <<job, listeners, sets>> /\ pending' = Nil
    BY <1>2 DEF RequestFails
  <2>2. \A x : Asked(x)' <=> Asked(x)
    BY <1>2, <2>1 DEF Asked, At, Busy
  <2>. QED
    BY <2>1, <2>2 DEF SettledInv, SettlesInv, PlanInv, PlanFits, GetsServed,
      RejectsUnsupported, InPlan, At, Busy, Fits, PendingFits, Supported, ManagedNames
<1>. QED
  BY <1>1, <1>2

LEMMA NextPlan == SettledInv /\ [Next]_vars => PlanInv'
<1> SUFFICES ASSUME SettledInv, [Next]_vars PROVE PlanInv'
  OBVIOUS
<1>1. CASE Step
  BY <1>1, StartPlan, QuietPlan, ReadPlan, SubmitPlan, EndPlan DEF Step
<1>2. CASE Users \/ Observe \/ UNCHANGED vars
  <2>1. UNCHANGED <<job, oci>>
    BY <1>2 DEF Users, Edit, Delete, Observe, vars, oci
  <2>. QED
    BY <2>1, SamePlan DEF SettledInv, SettlesInv
<1>. QED
  BY <1>1, <1>2, EndPlan, CarryPlan, RequestFailsPlan DEF Next

\* A reconcile that has written serves its specification, and nothing more comes.
LEMMA WrittenServes ==
  ASSUME SettledInv, Busy, job.pc \in {"refresh", "report", "record"}
  PROVE  /\ ~job.resolved.deleting /\ Supported(job.resolved.spec) /\ pending = Nil
         /\ \A l \in ManagedNames(job.resolved.spec) :
              listeners[l] = job.resolved.spec[l] /\ l \in sets
<1>1. InPlan /\ job.todo = {} /\ ~job.resolved.deleting
  BY DEF SettledInv, CleanedInv, CleanInv, DeletesOnly, TypeOK, InPlan
<1>2. pending = Nil
  BY <1>1 DEF SettledInv, CleanedInv, CleanInv, NothingElsePending
<1>3. \A x : ~Asked(x)
  BY <1>1 DEF Asked, At
<1>. QED
  BY <1>1, <1>2, <1>3 DEF SettledInv, SettlesInv, PlanInv, PlanFits, GetsServed

----------------------------------------------------------------------------
(* What the informer, the reports and the reconcile know of each other.    *)

\* A step that reports nothing as programmed and takes no Gateway: the copies afterwards
\* are copies from before, as far as reports and deletions go.
Continues ==
  /\ cache' \in {server, cache}
  /\ \A g \in Copies' \ {Nil} :
       /\ g.programmed.status = "True" =>
            \E h \in Copies \ {Nil} : h.programmed = g.programmed
       /\ g.deleting => g = server' \/ \E h \in Copies \ {Nil} : h.deleting
  /\ server' # Nil => server # Nil /\ (server.deleting => server'.deleting)
  /\ Busy' =>
       /\ Busy /\ job'.resolved = job.resolved
       /\ job'.copy.generation = job.copy.generation \/ (job'.copy = cache /\ cache # Nil)
       /\ job'.pc = "record" <=> job.pc = "record"
  /\ misreported' = misreported

\* A write of a condition or the finalizer that does not report the Gateway as programmed.
LEMMA UpdateContinues ==
  ASSUME TypeOK, Busy, job.pc # "record", NEW pc \in PCs \ {"record"},
         NEW new \in Gateway, Same(new, server),
         new.programmed = server.programmed \/ new.programmed.status = "Unknown",
         Update(new, pc), misreported' = misreported
  PROVE  Continues
<1>1. /\ job'.pc = pc /\ job'.resolved = job.resolved
      /\ Same(job'.copy, job.copy)
      /\ UNCHANGED <<cache, oci, queued, crashes>>
  BY UpdateParts
<1>2. job \in Job /\ server \in Gateway /\ server # Nil /\ server' = new /\ new # Nil
  BY DEF TypeOK, Update, Current
<1>3. job'.copy = IF server = job.copy THEN new ELSE job.copy
  BY <1>2 DEF Update, Job
<1>4. /\ Copies' \subseteq {new, cache, job.copy, job.resolved}
      /\ Copies = {server, cache, job.copy, job.resolved}
  BY <1>1, <1>2, <1>3 DEF Copies
<1>5. job.copy # Nil /\ job.resolved # Nil
  BY <1>2 DEF Job
<1>6. ASSUME NEW g \in Copies' \ {Nil}
      PROVE  /\ g.programmed.status = "True" =>
                  \E h \in Copies \ {Nil} : h.programmed = g.programmed
             /\ g.deleting => g = server' \/ \E h \in Copies \ {Nil} : h.deleting
  BY <1>2, <1>4
<1>. QED
  BY <1>1, <1>2, <1>6 DEF Continues, Same

\* The steps that write before the programming.
LEMMA StartContinues ==
  ASSUME TypeOK, Accept \/ MarkPending \/ Protect
  PROVE  Continues
<1>1. Busy /\ job \in Job /\ job.pc # "record" /\ misreported' = misreported
  BY DEF Accept, MarkPending, Protect, At, TypeOK, history
<1>2. CASE Accept /\ IsSet(job.copy.accepted, job.copy)
  <2>1. job' = [job EXCEPT !.pc = "check"] /\ UNCHANGED <<server, cache>>
    BY <1>2 DEF Accept, Goto
  <2>2. /\ job'.pc = "check" /\ job'.resolved = job.resolved /\ job'.copy = job.copy
        /\ job.resolved # Nil /\ job.copy # Nil
    BY <1>1, <2>1 DEF Job
  <2>. QED
    BY <1>1, <2>1, <2>2 DEF Continues, Copies
<1>3. CASE ~(Accept /\ IsSet(job.copy.accepted, job.copy))
  <2>1. server \in Gateway /\ job.copy \in Gateway
    BY <1>1, <1>3 DEF Accept, MarkPending, Protect, SetAccepted, SetProgrammed, Update,
      Current, TypeOK, Job
  <2>. DEFINE a == [server EXCEPT !.accepted =
                     [status |-> "True", generation |-> job.copy.generation]]
              p == [server EXCEPT !.programmed =
                     [status |-> "Unknown", generation |-> job.copy.generation]]
              f == [server EXCEPT !.finalizer = TRUE]
  <2>2. a \in Gateway /\ p \in Gateway /\ f \in Gateway
    <3>1. a \in Gateway /\ p \in Gateway
      BY <2>1, ConditionTyped
    <3>. QED
      BY <2>1, <3>1 DEF Gateway
  <2>3. /\ Same(a, server) /\ a.programmed = server.programmed
        /\ Same(p, server) /\ p.programmed.status = "Unknown"
        /\ Same(f, server) /\ f.programmed = server.programmed
    BY <2>1 DEF Same, Gateway
  <2>4. \/ Update(a, "check") \/ Update(p, "protect") \/ Update(f, "read")
    BY <1>3 DEF Accept, MarkPending, Protect, SetAccepted, SetProgrammed
  <2>5. {"check", "protect", "read"} \subseteq PCs \ {"record"}
    BY DEF PCs
  <2>. HIDE DEF a, p, f
  <2>. QED
    BY <1>1, <2>2, <2>3, <2>4, <2>5, UpdateContinues
<1>. QED
  BY <1>2, <1>3

\* The other steps of the worker that leave it at work.
LEMMA GoesOnContinues ==
  ASSUME TypeOK, Busy, job' # Nil, UNCHANGED <<server, cache, misreported>>,
         job'.resolved = job.resolved, job'.pc = "record" <=> job.pc = "record",
         job'.copy = job.copy \/ (job'.copy = cache /\ cache # Nil)
  PROVE  Continues
<1>1. job.copy # Nil /\ job.resolved # Nil
  BY DEF TypeOK, Job
<1>2. Copies' \subseteq Copies
  BY DEF Copies
<1>. QED
  BY <1>1, <1>2 DEF Continues

\* The steps after which the worker has nothing to do, or that are not the worker's.
LEMMA OthersContinue ==
  ASSUME cache' \in {server, cache},
         server' # Nil =>
           /\ server # Nil /\ (server.deleting => server'.deleting)
           /\ server'.programmed = server.programmed,
         job' \in {Nil, job}, misreported' = misreported
  PROVE  Continues
<1>1. \A g \in Copies' \ {Nil} : g = server' \/ g \in Copies \ {Nil}
  BY DEF Copies, Busy
<1>2. server' # Nil => \E h \in Copies \ {Nil} : h.programmed = server'.programmed
  BY DEF Copies
<1>3. Busy' => Busy /\ job' = job
  BY DEF Busy
<1>. QED
  BY <1>1, <1>2, <1>3 DEF Continues

LEMMA NextContinues ==
  ASSUME TypeOK, [Next]_vars, ~Take, ~Report
  PROVE  Continues
<1>1. CASE Accept \/ MarkPending \/ Protect
  BY <1>1, StartContinues
<1>2. CASE CheckProgrammed \/ Waited \/ Written \/ Refresh
  <2>1. UNCHANGED <<server, cache, misreported>>
    BY <1>2 DEF CheckProgrammed, Waited, Written, Refresh, history
  <2>2. CASE job' = Nil
    BY <2>1, <2>2, OthersContinue
  <2>3. CASE job' # Nil
    <3>1. /\ Busy /\ job.pc # "record" /\ job'.pc # "record" /\ job'.resolved = job.resolved
          /\ job'.copy = IF Refresh THEN cache ELSE job.copy
      BY <1>2, <2>3, QuietParts
    <3>2. Refresh => cache # Nil
      BY DEF Refresh
    <3>. QED
      BY <2>1, <2>3, <3>1, <3>2, GoesOnContinues
  <2>. QED
    BY <2>2, <2>3
<1>3. CASE ReadLoadBalancer
  <2>1. Busy /\ job \in Job /\ job.pc = "read" /\ UNCHANGED <<server, cache, misreported>>
    BY <1>3 DEF ReadLoadBalancer, At, TypeOK, history
  <2>2. \E todo : job' = [job EXCEPT !.pc = "reject"]
                  \/ job' = [job EXCEPT !.pc = "write", !.todo = todo]
    BY <1>3 DEF ReadLoadBalancer, Goto
  <2>3. /\ job'.copy = job.copy /\ job'.resolved = job.resolved
        /\ job'.pc \in {"reject", "write"}
    BY <2>1, <2>2 DEF Job
  <2>. QED
    BY <2>1, <2>3, GoesOnContinues, OthersContinue
<1>4. CASE \E x \in Request : Submit(x)
  <2>1. /\ Busy /\ job.pc = "write" /\ UNCHANGED <<server, cache, misreported>>
        /\ job'.pc = "wait" /\ job'.copy = job.copy /\ job'.resolved = job.resolved
    BY <1>4, SubmitParts DEF history
  <2>. QED
    BY <2>1, GoesOnContinues, OthersContinue
<1>5. CASE Record \/ Reject
  <2>1. server \in Gateway /\ server # Nil
    BY <1>5 DEF Record, Reject, Current, TypeOK
  <2>2. server'.programmed = server.programmed /\ server'.deleting = server.deleting
    BY <1>5, <2>1 DEF Record, Reject, Gateway
  <2>3. job' = Nil /\ cache' = cache /\ misreported' = misreported
    BY <1>5 DEF Record, Reject, Finish, history
  <2>. QED
    BY <2>1, <2>2, <2>3, OthersContinue
<1>6. CASE RemoveFinalizer \/ Fail \/ Crash
  <2>1. /\ job' = Nil /\ cache' \in {server, cache} /\ misreported' = misreported
        /\ server' \in {server, Nil}
    BY <1>6 DEF RemoveFinalizer, Fail, Crash, Finish, history
  <2>. QED
    BY <2>1, OthersContinue
<1>7. CASE Carry \/ RequestFails \/ Observe \/ UNCHANGED vars
  <2>1. /\ job' \in {Nil, job} /\ cache' \in {server, cache} /\ misreported' = misreported
        /\ server' = server
    BY <1>7 DEF Carry, RequestFails, Observe, Finish, history, vars
  <2>. QED
    BY <2>1, OthersContinue
<1>8. CASE Users
  <2>1. server \in Gateway /\ server # Nil /\ ~server.deleting
    BY <1>8 DEF Users, Edit, Delete, TypeOK
  <2>2. server' = Nil \/ server'.programmed = server.programmed
    BY <1>8, <2>1 DEF Users, Edit, Delete, Gateway
  <2>3. UNCHANGED <<cache, job, misreported>>
    BY <1>8 DEF Users, Edit, Delete, history
  <2>. QED
    BY <2>1, <2>2, <2>3, OthersContinue
<1>. QED
  BY <1>1, <1>2, <1>3, <1>4, <1>5, <1>6, <1>7, <1>8 DEF Next, Step

LEMMA KeepsKnownReports ==
  ASSUME SettledInv, Continues
  PROVE  ReportsAreKnown'
<1> SUFFICES ASSUME cache' # Nil
             PROVE  /\ Busy' => job'.copy.generation <= cache'.generation
                                /\ job'.resolved.generation <= cache'.generation
                    /\ \A g \in Copies' \ {Nil} : \A n \in Generations :
                         Reports(g, n)' =>
                           /\ n <= cache'.generation
                           /\ Busy' /\ job'.pc # "record" => n <= job'.resolved.generation
  BY DEF ReportsAreKnown, Reports
<1>1. cache # Nil /\ cache \in Gateway /\ cache' \in Gateway
      /\ cache.generation <= cache'.generation
  <2>1. server # Nil => cache # Nil
    BY DEF SettledInv, IInv, Protection, CacheIsOlder
  <2>2. cache # Nil /\ cache \in Gateway /\ cache' \in Gateway
    BY <2>1 DEF Continues, SettledInv, CleanedInv, TypeOK
  <2>3. server # Nil => cache.generation <= server.generation
    BY <2>2 DEF SettledInv, CleanedInv, CleanInv, SpecOfGeneration, Copies
  <2>4. cache.generation \in Nat
    BY <2>2 DEF Gateway, Generations
  <2>. QED
    BY <2>2, <2>3, <2>4 DEF Continues
<1>2. cache.generation \in Nat /\ cache'.generation \in Nat
  BY <1>1 DEF Gateway, Generations
<1>3. Busy => job.copy.generation \in Nat /\ job.resolved.generation \in Nat
  BY DEF SettledInv, CleanedInv, TypeOK, Job, Gateway, Generations
<1>4. Busy => job.copy.generation <= cache.generation /\ job.resolved.generation <= cache.generation
  BY <1>1 DEF SettledInv, SettlesInv, KnownInv, ReportsAreKnown
<1>5. Busy' => job'.copy.generation <= cache'.generation
               /\ job'.resolved.generation <= cache'.generation
  BY <1>1, <1>2, <1>3, <1>4 DEF Continues
<1>6. ASSUME NEW g \in Copies' \ {Nil}, NEW n \in Generations, Reports(g, n)'
      PROVE  /\ n <= cache'.generation
             /\ Busy' /\ job'.pc # "record" => n <= job'.resolved.generation
  <2>1. g.programmed.status = "True"
    BY <1>6 DEF Reports
  <2>2. PICK h \in Copies \ {Nil} : h.programmed = g.programmed
    BY <2>1 DEF Continues
  <2>3. Reports(h, n)
    BY <1>6, <2>2 DEF Reports
  <2>4. /\ n <= cache.generation
        /\ Busy /\ job.pc # "record" => n <= job.resolved.generation
    BY <1>1, <2>3 DEF SettledInv, SettlesInv, KnownInv, ReportsAreKnown
  <2>5. Busy' /\ job'.pc # "record" => Busy /\ job'.resolved = job.resolved /\ job.pc # "record"
    BY DEF Continues
  <2>6. n \in Nat
    BY DEF Generations
  <2>. QED
    BY <1>1, <1>2, <2>4, <2>5, <2>6
<1>. QED
  BY <1>5, <1>6

LEMMA KeepsKnownDeletion ==
  ASSUME SettledInv, Continues
  PROVE  DeletionIsKnown'
<1> SUFFICES ASSUME NEW g \in Copies' \ {Nil}, g.deleting, server' # Nil
             PROVE  server'.deleting
  BY DEF DeletionIsKnown
<1>1. CASE g = server'
  BY <1>1
<1>2. CASE \E h \in Copies \ {Nil} : h.deleting
  BY <1>2 DEF Continues, SettledInv, SettlesInv, KnownInv, DeletionIsKnown
<1>. QED
  BY <1>1, <1>2 DEF Continues

\* The worker takes the Gateway as the informer has it.
LEMMA TakeParts ==
  ASSUME TypeOK, Take
  PROVE  /\ ~Busy /\ queued' = FALSE /\ UNCHANGED <<server, cache, oci, history>>
         /\ IF cache = Nil
            THEN job' = Nil
            ELSE /\ cache \in Gateway
                 /\ job'.copy = cache /\ job'.resolved = cache
                 /\ job'.pc \in {"accept", "read"}
<1>1. cache # Nil => cache \in Gateway /\ ~(cache.deleting /\ ~cache.finalizer)
  BY DEF TypeOK
<1>. QED
  BY <1>1 DEF Take

LEMMA TakeKnown == SettledInv /\ Take => KnownInv'
<1> SUFFICES ASSUME SettledInv, Take PROVE KnownInv'
  OBVIOUS
<1>1. /\ ~Busy /\ queued' = FALSE /\ UNCHANGED <<server, cache, oci, history>>
      /\ IF cache = Nil
         THEN job' = Nil
         ELSE /\ cache \in Gateway
              /\ job'.copy = cache /\ job'.resolved = cache
              /\ job'.pc \in {"accept", "read"}
  BY TakeParts DEF SettledInv, CleanedInv
<1>2. Copies' \ {Nil} \subseteq Copies \ {Nil}
  BY <1>1 DEF Copies, Busy
<1>3. ReportsAreKnown'
  <2> SUFFICES ASSUME cache # Nil
               PROVE  ReportsAreKnown'
    BY <1>1 DEF ReportsAreKnown
  <2>1. cache.generation \in Nat
    BY <1>1 DEF Gateway, Generations
  <2>2. \A g \in Copies \ {Nil} : \A n \in Generations : Reports(g, n) => n <= cache.generation
    BY DEF SettledInv, SettlesInv, KnownInv, ReportsAreKnown
  <2>. QED
    BY <1>1, <1>2, <2>1, <2>2 DEF ReportsAreKnown, Reports
<1>4. DeletionIsKnown'
  BY <1>1, <1>2 DEF SettledInv, SettlesInv, KnownInv, DeletionIsKnown
<1>5. NothingNew'
  BY <1>1 DEF NothingNew, Watched, Busy
<1>6. ReportIsJudged'
  BY <1>1 DEF ReportIsJudged, At, Busy
<1>. QED
  BY <1>3, <1>4, <1>5, <1>6 DEF KnownInv

\* The report, in parts.
LEMMA ReportParts ==
  ASSUME TypeOK, Report
  PROVE  /\ Busy /\ job \in Job /\ job.pc = "report" /\ job'.pc = "record"
         /\ job'.resolved = job.resolved /\ Same(job'.copy, job.copy)
         /\ server \in Gateway /\ server # Nil /\ server' \in Gateway /\ Same(server', server)
         /\ UNCHANGED <<cache, oci, queued>>
         /\ misreported' = (job.copy.generation # job.resolved.generation)
         /\ \A g \in Copies' \ {Nil} : g \in Copies \ {Nil} \/ Reports(g, job.copy.generation)
<1>1. Busy /\ job \in Job /\ job.pc = "report" /\ "record" \in PCs
  BY DEF Report, At, TypeOK, PCs
<1>2. server \in Gateway /\ job.copy \in Gateway /\ server # Nil
  BY <1>1 DEF Report, SetProgrammed, Update, Current, TypeOK, Job
<1>. DEFINE p == [server EXCEPT !.programmed =
                   [status |-> "True", generation |-> job.copy.generation]]
<1>3. p \in Gateway
  BY <1>2, ConditionTyped
<1>4. Same(p, server) /\ Reports(p, job.copy.generation)
  BY <1>2 DEF Same, Gateway, Reports
<1>5. Update(p, "record")
  BY DEF Report, SetProgrammed
<1>. HIDE DEF p
<1>6. /\ job'.pc = "record" /\ job'.resolved = job.resolved
      /\ Same(job'.copy, job.copy)
      /\ server' \in Gateway /\ Same(server', server)
      /\ UNCHANGED <<cache, oci, queued, crashes>>
  BY <1>1, <1>3, <1>4, <1>5, UpdateParts
<1>7. server' = p /\ (job'.copy = p \/ job'.copy = job.copy)
  BY <1>1, <1>5 DEF Update, Job
<1>8. \A g \in Copies' \ {Nil} : g \in Copies \ {Nil} \/ g = p
  BY <1>1, <1>6, <1>7 DEF Copies
<1>. QED
  BY <1>1, <1>2, <1>4, <1>6, <1>8 DEF Report

LEMMA ReportKnown == SettledInv /\ Report => KnownInv'
<1> SUFFICES ASSUME SettledInv, Report PROVE KnownInv'
  OBVIOUS
<1>1. /\ Busy /\ job \in Job /\ job.pc = "report" /\ job'.pc = "record"
      /\ job'.resolved = job.resolved /\ Same(job'.copy, job.copy)
      /\ server \in Gateway /\ server # Nil /\ server' \in Gateway /\ Same(server', server)
      /\ UNCHANGED <<cache, oci, queued>>
      /\ misreported' = (job.copy.generation # job.resolved.generation)
      /\ \A g \in Copies' \ {Nil} : g \in Copies \ {Nil} \/ Reports(g, job.copy.generation)
  BY ReportParts DEF SettledInv, CleanedInv
<1>2. /\ job.copy.generation \in Nat
      /\ \A g : \A n, m \in Generations : Reports(g, n) /\ Reports(g, m) => n = m
  BY <1>1 DEF Job, Gateway, Generations, Reports
<1>3. ReportsAreKnown'
  <2> SUFFICES ASSUME cache # Nil
               PROVE  /\ job'.copy.generation <= cache.generation
                      /\ job'.resolved.generation <= cache.generation
                      /\ \A g \in Copies' \ {Nil} : \A n \in Generations :
                           Reports(g, n) => n <= cache.generation
    BY <1>1 DEF ReportsAreKnown, Reports
  <2>1. job.copy.generation \in Generations
    BY <1>1 DEF Job, Gateway
  <2>. QED
    BY <1>1, <1>2, <2>1 DEF SettledInv, SettlesInv, KnownInv, ReportsAreKnown, Same
<1>4. DeletionIsKnown'
  <2> SUFFICES ASSUME NEW g \in Copies' \ {Nil}, g.deleting
               PROVE  server'.deleting
    BY DEF DeletionIsKnown
  <2>1. \E h \in Copies \ {Nil} : h.deleting
    <3>1. g \in {server', cache, job'.copy, job.resolved}
      BY <1>1 DEF Copies
    <3>2. server # Nil /\ job.copy # Nil /\ job.resolved # Nil
      BY <1>1 DEF Job
    <3>3. \E h \in {server, cache, job.copy, job.resolved} : h # Nil /\ h.deleting
      BY <1>1, <3>1, <3>2 DEF Same
    <3>. QED
      BY <1>1, <3>3 DEF Copies
  <2>2. server.deleting
    BY <1>1, <2>1 DEF SettledInv, SettlesInv, KnownInv, DeletionIsKnown
  <2>. QED
    BY <1>1, <2>2 DEF Same
<1>5. NothingNew'
  BY <1>1 DEF SettledInv, SettlesInv, KnownInv, NothingNew, Watched, Busy
<1>6. ReportIsJudged'
  BY <1>1 DEF ReportIsJudged, At, Same
<1>. QED
  BY <1>3, <1>4, <1>5, <1>6 DEF KnownInv

LEMMA QueueGrows ==
  ASSUME TypeOK, [Next]_vars, ~Take, ~Crash
  PROVE  queued => queued'
<1>1. CASE Accept \/ MarkPending \/ Protect \/ Report
  BY <1>1 DEF Accept, MarkPending, Protect, Report, SetAccepted, SetProgrammed, Update
<1>2. CASE CheckProgrammed \/ ReadLoadBalancer \/ (\E x \in Request : Submit(x)) \/ Waited
           \/ Written \/ Refresh \/ Record \/ Reject \/ RemoveFinalizer
  BY <1>2 DEF CheckProgrammed, ReadLoadBalancer, Submit, Waited, Written, Refresh, Record,
    Reject, RemoveFinalizer
<1>3. CASE Fail \/ Carry \/ RequestFails \/ Users
  BY <1>3 DEF Fail, Carry, RequestFails, Users, Edit, Delete
<1>4. CASE Observe \/ UNCHANGED vars
  BY <1>4 DEF Observe, vars
<1>. QED
  BY <1>1, <1>2, <1>3, <1>4 DEF Next, Step

\* The informer queues what it sees.
LEMMA CacheMoves ==
  ASSUME TypeOK, [Next]_vars, ~Take, Busy', ~queued'
  PROVE  ~queued /\ (cache' = cache \/ (cache' = server /\ ~Watched(cache, server)))
<1>1. ~Crash
  BY DEF Crash, Finish, Busy
<1>2. ~queued
  BY <1>1, QueueGrows
<1>3. CASE Observe
  BY <1>2, <1>3 DEF Observe
<1>4. CASE ~Observe
  <2>1. cache' = cache
    BY <1>1, <1>4 DEF Next, Step, Take, Accept, CheckProgrammed, MarkPending, Protect,
      ReadLoadBalancer, Submit, Waited, Written, Refresh, Report, Record, Reject,
      RemoveFinalizer, SetAccepted, SetProgrammed, Update, Fail, Carry, RequestFails, Users,
      Edit, Delete, vars
  <2>. QED
    BY <1>2, <2>1
<1>. QED
  BY <1>3, <1>4

LEMMA NextKnown == SettledInv /\ [Next]_vars => KnownInv'
<1> SUFFICES ASSUME SettledInv, [Next]_vars, ~Take, ~Report PROVE KnownInv'
  BY TakeKnown, ReportKnown
<1>1. Continues
  BY NextContinues DEF SettledInv, CleanedInv
<1>2. ReportsAreKnown' /\ DeletionIsKnown'
  BY <1>1, KeepsKnownReports, KeepsKnownDeletion
<1>3. NothingNew'
  <2> SUFFICES ASSUME Busy', ~queued'
               PROVE  ~Watched(job.resolved, cache')
    BY <1>1 DEF NothingNew, Continues, Watched
  <2>1. ~queued /\ (cache' = cache \/ (cache' = server /\ ~Watched(cache, server)))
    BY CacheMoves DEF SettledInv, CleanedInv
  <2>2. ~Watched(job.resolved, cache)
    BY <1>1, <2>1 DEF Continues, SettledInv, SettlesInv, KnownInv, NothingNew
  <2>. QED
    BY <2>1, <2>2 DEF Watched
<1>4. ReportIsJudged'
  <2> SUFFICES ASSUME Busy', job'.pc = "record"
               PROVE  misreported' <=> job'.copy.generation # job'.resolved.generation
    BY DEF ReportIsJudged, At
  <2>1. job.pc = "record" /\ Busy
    BY <1>1 DEF Continues
  <2>2. job' = job
    <3>1. CASE \E x \in Request : Submit(x)
      BY <2>1, <3>1 DEF Submit, At
    <3>. QED
      BY <2>1, <3>1 DEF Next, Step, Take, Accept, CheckProgrammed, MarkPending, Protect,
        ReadLoadBalancer, Waited, Written, Refresh, Report, Record, Reject, RemoveFinalizer,
        Fail, Carry, RequestFails, Users, Edit, Delete, Observe, Crash, vars, At, Finish, Busy
  <2>. QED
    BY <1>1, <2>1, <2>2 DEF Continues, SettledInv, SettlesInv, KnownInv, ReportIsJudged, At
<1>. QED
  BY <1>2, <1>3, <1>4 DEF KnownInv

----------------------------------------------------------------------------
(* What was reported as programmed is there, and stays.                    *)

\* But for an edit, the Gateway keeps its generation and specification.
LEMMA SpecStays ==
  ASSUME TypeOK, [Next]_vars, \A spec \in Specs : ~Edit(spec), server' # Nil
  PROVE  server # Nil /\ server'.generation = server.generation /\ server'.spec = server.spec
<1>1. CASE Accept \/ MarkPending \/ Protect \/ Report
  BY <1>1, BeginParts DEF Same
<1>2. CASE Record \/ Reject
  <2>1. server \in Gateway /\ server # Nil
    BY <1>2 DEF Record, Reject, Current, TypeOK
  <2>. QED
    BY <1>2, <2>1 DEF Record, Reject, Gateway
<1>3. CASE Delete
  <2>1. server \in Gateway /\ server # Nil
    BY <1>3 DEF Delete, TypeOK
  <2>. QED
    BY <1>3, <2>1 DEF Delete, Gateway
<1>4. CASE RemoveFinalizer
  BY <1>4 DEF RemoveFinalizer
<1>5. UNCHANGED server \/ Accept \/ MarkPending \/ Protect \/ Report \/ Record \/ Reject
      \/ Delete \/ RemoveFinalizer
  BY DEF Next, Step, Users, Take, CheckProgrammed, ReadLoadBalancer, Submit, Waited, Written,
    Refresh, Fail, Carry, RequestFails, Observe, Crash, vars
<1>. QED
  BY <1>1, <1>2, <1>3, <1>4, <1>5

\* A step that takes no report along and leaves the load balancer alone.
LEMMA StaysTrue ==
  ASSUME SettledInv,
         \A g \in Copies' \ {Nil} :
           g.programmed.status = "True" => \E h \in Copies \ {Nil} : h.programmed = g.programmed,
         server' # Nil =>
           /\ server # Nil /\ (server.deleting => server'.deleting)
           /\ server'.generation = server.generation /\ server'.spec = server.spec,
         UNCHANGED <<listeners, sets, misreported>>, pending' \in {Nil, pending}
  PROVE  ReportIsTrue'
<1> SUFFICES ASSUME server' # Nil, ~server'.deleting, ~misreported',
                    NEW g \in Copies' \ {Nil}, Reports(g, server'.generation)
             PROVE  /\ Supported(server'.spec)
                    /\ \A l \in ManagedNames(server'.spec) :
                         listeners'[l] = server'.spec[l] /\ l \in sets'
                    /\ PendingFits(server.spec)'
  BY DEF ReportIsTrue, Serves, Supported, ManagedNames, PendingFits, Fits, Reports
<1>1. \E h \in Copies \ {Nil} : Reports(h, server.generation)
  <2>1. g.programmed.status = "True"
    BY DEF Reports
  <2>. QED
    BY <2>1 DEF Reports
<1>2. Supported(server.spec) /\ Serves(server) /\ PendingFits(server.spec)
  BY <1>1 DEF SettledInv, SettlesInv, ReportIsTrue
<1>. QED
  BY <1>2 DEF Serves, Supported, ManagedNames, PendingFits, Fits

\* A report about the generation that the API server has was not before the reconcile.
LEMMA ReportedIsResolved ==
  ASSUME SettledInv, Busy, job.pc # "record", server # Nil, ~server.deleting,
         NEW g \in Copies \ {Nil}, Reports(g, server.generation)
  PROVE  job.resolved.spec = server.spec /\ ~job.resolved.deleting
<1>1. job.resolved \in Copies \ {Nil} /\ job.resolved \in Gateway /\ server \in Gateway
  BY DEF Copies, SettledInv, CleanedInv, TypeOK, Job
<1>2. cache # Nil
  BY DEF SettledInv, IInv, Protection, CacheIsOlder
<1>3. server.generation \in Generations /\ server.generation \in Nat
      /\ job.resolved.generation \in Nat
  BY <1>1 DEF Gateway, Generations
<1>4. server.generation <= job.resolved.generation
  BY <1>2, <1>3 DEF SettledInv, SettlesInv, KnownInv, ReportsAreKnown
<1>5. job.resolved.generation <= server.generation
  BY <1>1 DEF SettledInv, CleanedInv, CleanInv, SpecOfGeneration
<1>6. job.resolved.generation = server.generation
  BY <1>3, <1>4, <1>5
<1>7. server \in Copies \ {Nil}
  BY DEF Copies
<1>8. job.resolved.spec = server.spec
  BY <1>1, <1>6, <1>7 DEF SettledInv, CleanedInv, CleanInv, SpecOfGeneration
<1>9. ~job.resolved.deleting
  BY <1>1 DEF SettledInv, SettlesInv, KnownInv, DeletionIsKnown
<1>. QED
  BY <1>8, <1>9

LEMMA SubmitTrue ==
  ASSUME SettledInv, NEW x \in Request, Submit(x)
  PROVE  ReportIsTrue'
<1>1. /\ Busy /\ job \in Job /\ job.pc = "write" /\ x \in job.todo /\ pending = Nil
      /\ UNCHANGED <<server, cache, listeners, sets, queued, history>>
      /\ job'.pc = "wait" /\ job'.copy = job.copy /\ job'.resolved = job.resolved
      /\ pending' # Nil /\ pending'.request = x /\ pending'.shape = job.copy.spec[x.name]
  BY SubmitParts DEF SettledInv, CleanedInv
<1>2. Copies' \subseteq Copies
  BY <1>1 DEF Copies
<1> SUFFICES ASSUME server # Nil, ~server.deleting, ~misreported,
                    NEW g \in Copies \ {Nil}, Reports(g, server.generation)
             PROVE  Supported(server.spec) /\ Serves(server) /\ PendingFits(server.spec)'
  BY <1>1, <1>2 DEF ReportIsTrue, Reports, Serves, Supported, ManagedNames, history
<1>3. job.resolved.spec = server.spec /\ ~job.resolved.deleting
  BY <1>1, ReportedIsResolved
<1>4. Supported(server.spec) /\ Serves(server)
  BY DEF SettledInv, SettlesInv, ReportIsTrue
<1>5. InPlan /\ Same(job.copy, job.resolved)
  BY <1>1 DEF InPlan, SettledInv, CleanedInv, CleanInv, CopyIsResolved
<1>6. Fits(x, job.resolved.spec[x.name], job.resolved.spec)
  BY <1>1, <1>3, <1>5 DEF SettledInv, SettlesInv, PlanInv, PlanFits
<1>7. Fits(pending'.request, pending'.shape, server.spec)
  BY <1>1, <1>3, <1>5, <1>6 DEF Same
<1>. QED
  BY <1>1, <1>4, <1>7 DEF PendingFits, Fits, ManagedNames

LEMMA CarryServes ==
  ASSUME SettledInv, Carry, server # Nil, Serves(server), PendingFits(server.spec)
  PROVE  Serves(server)' /\ PendingFits(server.spec)'
<1>1. server' = server /\ pending' = Nil
  BY DEF Carry
<1>2. server.spec \in Spec0
  BY DEF SettledInv, CleanedInv, TypeOK, Gateway
<1>3. \A l \in ManagedNames(server.spec) : listeners'[l] = server.spec[l] /\ l \in sets'
  BY <1>2, CarryFits DEF SettledInv, CleanedInv, Serves
<1>. QED
  BY <1>1, <1>3 DEF Serves, ManagedNames, PendingFits

LEMMA CarryTrue == SettledInv /\ Carry => ReportIsTrue'
<1> SUFFICES ASSUME SettledInv, Carry PROVE ReportIsTrue'
  OBVIOUS
<1>1. UNCHANGED <<server, cache, job, misreported>>
  BY DEF Carry, history
<1> SUFFICES ASSUME server # Nil, ~server.deleting, ~misreported,
                    \E g \in Copies \ {Nil} : Reports(g, server.generation)
             PROVE  Supported(server.spec) /\ Serves(server)' /\ PendingFits(server.spec)'
  BY <1>1 DEF ReportIsTrue, Reports, Copies, Busy, Supported
<1>2. Supported(server.spec) /\ Serves(server) /\ PendingFits(server.spec)
  BY DEF SettledInv, SettlesInv, ReportIsTrue
<1>. QED
  BY <1>2, CarryServes

LEMMA EditTrue ==
  ASSUME SettledInv, NEW spec \in Specs, Edit(spec)
  PROVE  ReportIsTrue'
<1>1. server \in Gateway /\ server # Nil /\ UNCHANGED <<cache, job>>
  BY DEF Edit, SettledInv, CleanedInv, TypeOK
<1>2. server'.generation = server.generation + 1 /\ server'.programmed = server.programmed
  <2>1. server' = [server EXCEPT !.spec = spec, !.generation = server.generation + 1]
    BY DEF Edit
  <2>. QED
    BY <1>1, <2>1 DEF Gateway
<1>3. server.generation \in Nat /\ server.generation < MaxGeneration
  BY <1>1 DEF Gateway, Generations, Edit
<1>4. server'.generation \in Generations
  BY <1>2, <1>3 DEF Generations
<1>5. cache # Nil /\ cache.generation <= server.generation /\ cache.generation \in Nat
  <2>1. cache # Nil
    BY <1>1 DEF SettledInv, IInv, Protection, CacheIsOlder
  <2>. QED
    BY <1>1, <2>1 DEF SettledInv, CleanedInv, CleanInv, SpecOfGeneration, Copies, TypeOK,
      Gateway, Generations
<1>6. \A g \in Copies \ {Nil} : ~Reports(g, server'.generation)
  <2>1. \A g \in Copies \ {Nil} : \A n \in Generations : Reports(g, n) => n <= cache.generation
    BY <1>5 DEF SettledInv, SettlesInv, KnownInv, ReportsAreKnown
  <2>2. ~(server'.generation <= cache.generation)
    BY <1>2, <1>3, <1>5
  <2>. QED
    BY <1>4, <2>1, <2>2
<1>7. \A g \in Copies' \ {Nil} : g \in Copies \ {Nil} \/ g.programmed = server.programmed
  BY <1>1, <1>2 DEF Copies, Busy
<1>8. server \in Copies \ {Nil}
  BY <1>1 DEF Copies
<1>9. \A g \in Copies' \ {Nil} : ~Reports(g, server'.generation)
  BY <1>6, <1>7, <1>8 DEF Reports
<1>. QED
  BY <1>9 DEF ReportIsTrue, Reports

LEMMA ReportTrue == SettledInv /\ Report => ReportIsTrue'
<1> SUFFICES ASSUME SettledInv, Report PROVE ReportIsTrue'
  OBVIOUS
<1>1. /\ Busy /\ job \in Job /\ job.pc = "report"
      /\ server \in Gateway /\ server # Nil /\ server' \in Gateway /\ Same(server', server)
      /\ UNCHANGED <<cache, oci, queued>>
      /\ misreported' = (job.copy.generation # job.resolved.generation)
      /\ \A g \in Copies' \ {Nil} : g \in Copies \ {Nil} \/ Reports(g, job.copy.generation)
  BY ReportParts DEF SettledInv, CleanedInv
<1> SUFFICES ASSUME ~server.deleting, job.copy.generation = job.resolved.generation,
                    NEW g \in Copies' \ {Nil}, Reports(g, server.generation)
             PROVE  Supported(server.spec) /\ Serves(server) /\ PendingFits(server.spec)
  BY <1>1 DEF ReportIsTrue, Reports, Serves, Supported, ManagedNames, PendingFits, Fits, Same, oci
<1>2. job.resolved.spec = server.spec
  <2>1. CASE g \in Copies \ {Nil}
    BY <1>1, <2>1, ReportedIsResolved
  <2>2. CASE Reports(g, job.copy.generation)
    <3>1. job.resolved.generation = server.generation
      BY <2>2 DEF Reports
    <3>2. job.resolved \in Copies \ {Nil} /\ server \in Copies \ {Nil}
      BY <1>1 DEF Copies, Job
    <3>. QED
      BY <3>1, <3>2 DEF SettledInv, CleanedInv, CleanInv, SpecOfGeneration
  <2>. QED
    BY <1>1, <2>1, <2>2
<1>3. /\ Supported(job.resolved.spec) /\ pending = Nil
      /\ \A l \in ManagedNames(job.resolved.spec) :
           listeners[l] = job.resolved.spec[l] /\ l \in sets
  BY <1>1, WrittenServes
<1>. QED
  BY <1>2, <1>3 DEF Serves, PendingFits

LEMMA NextTrue == SettledInv /\ [Next]_vars => ReportIsTrue'
<1> SUFFICES ASSUME SettledInv, [Next]_vars,
                    ~Report, ~Carry, \A x \in Request : ~Submit(x), \A spec \in Specs : ~Edit(spec)
             PROVE  ReportIsTrue'
  BY ReportTrue, CarryTrue, SubmitTrue, EditTrue
<1>1. server' # Nil =>
        server # Nil /\ server'.generation = server.generation /\ server'.spec = server.spec
  BY SpecStays DEF SettledInv, CleanedInv
<1>2. UNCHANGED <<listeners, sets, misreported>> /\ pending' \in {Nil, pending}
  <2>1. CASE Accept \/ MarkPending \/ Protect
    BY <2>1 DEF Accept, MarkPending, Protect, SetAccepted, SetProgrammed, Update, oci, history
  <2>2. CASE Take \/ CheckProgrammed \/ ReadLoadBalancer \/ Waited \/ Written \/ Refresh
             \/ Record \/ Reject \/ RemoveFinalizer
    BY <2>2 DEF Take, CheckProgrammed, ReadLoadBalancer, Waited, Written, Refresh, Record,
      Reject, RemoveFinalizer, oci, history
  <2>3. CASE Fail \/ RequestFails \/ Delete \/ Observe \/ Crash \/ UNCHANGED vars
    BY <2>3 DEF Fail, RequestFails, Delete, Observe, Crash, vars, oci, history
  <2>. QED
    BY <2>1, <2>2, <2>3 DEF Next, Step, Users
<1>3. CASE Take
  <2>1. Copies' \ {Nil} \subseteq Copies \ {Nil} /\ server' = server
    BY <1>3, TakeParts DEF SettledInv, CleanedInv, Copies, Busy
  <2>. QED
    BY <1>1, <1>2, <2>1, StaysTrue
<1>4. CASE ~Take
  <2>1. Continues
    BY <1>4, NextContinues DEF SettledInv, CleanedInv
  <2>. QED
    BY <1>1, <1>2, <2>1, StaysTrue DEF Continues
<1>. QED
  BY <1>3, <1>4

----------------------------------------------------------------------------
(* When no reconcile is to come.                                           *)

\* The steps of the worker that are not the last of a reconcile.
LEMMA StaysBusy ==
  ASSUME TypeOK, \/ Accept \/ MarkPending \/ Protect \/ ReadLoadBalancer \/ Waited \/ Written
                 \/ Refresh \/ Report \/ \E x \in Request : Submit(x)
  PROVE  Busy'
<1>1. job \in Job
  BY DEF Accept, MarkPending, Protect, ReadLoadBalancer, Waited, Written, Refresh, Report,
    Submit, At, TypeOK
<1>2. CASE ReadLoadBalancer
  BY <1>2, ReadJobTyped DEF Busy
<1>3. CASE \E x \in Request : Submit(x)
  <2>1. PICK x \in Request : Submit(x)
    BY <1>3
  <2>2. job' \in Job
    BY <1>1, <2>1 DEF Submit, Job, PCs
  <2>. QED
    BY <2>2 DEF Busy
<1>4. CASE Waited \/ Written \/ Refresh
  <2>1. cache # Nil => cache \in Gateway
    BY DEF TypeOK
  <2>2. job' \in Job
    BY <1>1, <1>4, <2>1 DEF Waited, Written, Refresh, Goto, Job, PCs
  <2>. QED
    BY <2>2 DEF Busy
<1>5. CASE Accept \/ MarkPending \/ Protect \/ Report
  <2>1. CASE \E pc \in PCs : \E new \in Gateway : Update(new, pc)
    <3>1. job' \in Job
      BY <1>1, <2>1 DEF Update, Job
    <3>. QED
      BY <3>1 DEF Busy
  <2>2. CASE Accept /\ Goto("check")
    <3>1. job' \in Job
      BY <1>1, <2>2 DEF Goto, Job, PCs
    <3>. QED
      BY <3>1 DEF Busy
  <2>3. CASE ~(Accept /\ Goto("check"))
    <3>1. server \in Gateway /\ job.copy \in Gateway
      BY <1>1, <1>5, <2>3 DEF Accept, MarkPending, Protect, Report, SetAccepted,
        SetProgrammed, Update, Current, TypeOK, Job
    <3>2. \A status \in {"Unknown", "False", "True"} :
            /\ [server EXCEPT !.accepted =
                  [status |-> status, generation |-> job.copy.generation]] \in Gateway
            /\ [server EXCEPT !.programmed =
                  [status |-> status, generation |-> job.copy.generation]] \in Gateway
      BY <3>1, ConditionTyped
    <3>3. [server EXCEPT !.finalizer = TRUE] \in Gateway
      BY <3>1 DEF Gateway
    <3>4. \E pc \in PCs : \E new \in Gateway : Update(new, pc)
      BY <1>5, <2>3, <3>2, <3>3 DEF Accept, MarkPending, Protect, Report, SetAccepted,
        SetProgrammed, PCs
    <3>. QED
      BY <2>1, <3>4
  <2>. QED
    BY <2>2, <2>3
<1>. QED
  BY <1>2, <1>3, <1>4, <1>5

\* What SettledIsServed says of the Gateway, with nothing on its way that changes it.
Served ==
  /\ ~server.deleting
  /\ ~misreported =>
       IF Supported(server.spec)
       THEN server.recorded = Desired(server.spec) /\ Serves(server) /\ PendingFits(server.spec)
       ELSE server.accepted = [status |-> "False", generation |-> server.generation]

\* A reconcile that nothing has overtaken is about the Gateway that the API server has.
LEMMA NotOvertaken ==
  ASSUME SettledInv, Busy, ~queued, ~Watched(cache, server)
  PROVE  /\ server # Nil /\ server \in Gateway
         /\ server.generation = job.resolved.generation /\ server.spec = job.resolved.spec
         /\ server.deleting = job.resolved.deleting
         /\ server.recorded = job.resolved.recorded
<1>1. ~Watched(job.resolved, cache)
  BY DEF SettledInv, SettlesInv, KnownInv, NothingNew
<1>2. /\ server # Nil
      /\ server.generation = job.resolved.generation
      /\ server.deleting = job.resolved.deleting
      /\ server.recorded = job.resolved.recorded
  BY <1>1 DEF Watched
<1>3. server \in Copies \ {Nil} /\ job.resolved \in Copies \ {Nil}
  BY <1>1, <1>2 DEF Copies, Watched
<1>4. server.spec = job.resolved.spec
  BY <1>2, <1>3 DEF SettledInv, CleanedInv, CleanInv, SpecOfGeneration
<1>. QED
  BY <1>2, <1>4 DEF SettledInv, CleanedInv, TypeOK

LEMMA CheckServed ==
  ASSUME SettledInv, CheckProgrammed, job' = Nil, ~queued, ~Watched(cache, server)
  PROVE  Served'
<1>1. /\ Busy /\ job \in Job /\ job.pc = "check"
      /\ UNCHANGED <<server, listeners, sets, pending, misreported>>
  BY DEF CheckProgrammed, At, SettledInv, CleanedInv, TypeOK, oci, history
<1>2. Programmed(job.copy)
  <2>1. [job EXCEPT !.pc = "pend"] \in Job
    BY <1>1 DEF Job, PCs
  <2>. QED
    BY <2>1 DEF CheckProgrammed, Goto
<1>3. /\ server # Nil /\ server \in Gateway
      /\ server.generation = job.resolved.generation /\ server.spec = job.resolved.spec
      /\ server.deleting = job.resolved.deleting
      /\ server.recorded = job.resolved.recorded
  BY <1>1, NotOvertaken
<1>4. Same(job.copy, job.resolved) /\ ~job.resolved.deleting
  BY <1>1 DEF SettledInv, CleanedInv, CleanInv, CopyIsResolved, DeletesOnly
<1>5. job.copy \in Copies \ {Nil} /\ Reports(job.copy, server.generation)
  BY <1>1, <1>2, <1>3, <1>4 DEF Copies, Job, Same, Programmed, IsSet, Reports
<1>6. ~misreported => Supported(server.spec) /\ Serves(server) /\ PendingFits(server.spec)
  BY <1>3, <1>4, <1>5 DEF SettledInv, SettlesInv, ReportIsTrue
<1>7. server.recorded = Desired(server.spec)
  BY <1>2, <1>3, <1>4 DEF Same, Programmed
<1>. QED
  BY ZenonT(40), <1>1, <1>3, <1>4, <1>6, <1>7
     DEF Served, Supported, Serves, PendingFits, Fits, Desired, ManagedNames

LEMMA RecordServed ==
  ASSUME SettledInv, Record, ~queued, ~Watched(cache, server')
  PROVE  Served'
<1>1. /\ Busy /\ job \in Job /\ job.pc = "record" /\ server \in Gateway
      /\ UNCHANGED <<listeners, sets, pending, misreported>>
  BY DEF Record, At, Current, SettledInv, CleanedInv, TypeOK, oci, history
<1>2. /\ server'.generation = server.generation /\ server'.spec = server.spec
      /\ server'.deleting = server.deleting /\ server'.recorded = Desired(Reported)
  BY <1>1 DEF Record, Gateway
<1>3. ~Watched(job.resolved, cache)
  BY <1>1 DEF SettledInv, SettlesInv, KnownInv, NothingNew
<1>4. server'.generation = job.resolved.generation /\ server'.deleting = job.resolved.deleting
  BY <1>3 DEF Watched
<1>5. /\ job.copy \in Copies \ {Nil} /\ job.resolved \in Copies \ {Nil}
      /\ server \in Copies \ {Nil}
  BY <1>1 DEF Copies, Job
<1>6. server.spec = job.resolved.spec
  BY <1>2, <1>4, <1>5 DEF SettledInv, CleanedInv, CleanInv, SpecOfGeneration
<1>7. ~misreported => job.copy.spec = job.resolved.spec
  BY <1>1, <1>5 DEF SettledInv, CleanedInv, CleanInv, SpecOfGeneration, SettlesInv, KnownInv,
    ReportIsJudged, At
<1>8. ~misreported => server'.recorded = Desired(server.spec)
  BY <1>2, <1>6, <1>7 DEF Reported
<1>9. /\ ~job.resolved.deleting /\ Supported(job.resolved.spec) /\ pending = Nil
      /\ \A l \in ManagedNames(job.resolved.spec) :
           listeners[l] = job.resolved.spec[l] /\ l \in sets
  BY <1>1, WrittenServes
<1>. QED
  BY <1>1, <1>2, <1>4, <1>6, <1>8, <1>9 DEF Served, Supported, Serves, PendingFits, Desired,
    ManagedNames

LEMMA RejectServed ==
  ASSUME SettledInv, Reject, ~queued, ~Watched(cache, server')
  PROVE  Served'
<1>1. Busy /\ job \in Job /\ job.pc = "reject" /\ server \in Gateway
  BY DEF Reject, At, Current, SettledInv, CleanedInv, TypeOK
<1>2. /\ server'.generation = server.generation /\ server'.spec = server.spec
      /\ server'.deleting = server.deleting
      /\ server'.accepted = [status |-> "False", generation |-> job.copy.generation]
  BY <1>1 DEF Reject, Gateway
<1>3. ~Watched(job.resolved, cache)
  BY <1>1 DEF SettledInv, SettlesInv, KnownInv, NothingNew
<1>4. server'.generation = job.resolved.generation /\ server'.deleting = job.resolved.deleting
  BY <1>3 DEF Watched
<1>5. job.resolved \in Copies \ {Nil} /\ server \in Copies \ {Nil}
  BY <1>1 DEF Copies, Job
<1>6. server.spec = job.resolved.spec
  BY <1>2, <1>4, <1>5 DEF SettledInv, CleanedInv, CleanInv, SpecOfGeneration
<1>7. job.copy.generation = job.resolved.generation
  BY <1>1 DEF SettledInv, CleanedInv, CleanInv, CopyIsResolved, Same
<1>8. ~job.resolved.deleting /\ ~Supported(job.resolved.spec)
  BY <1>1 DEF SettledInv, SettlesInv, PlanInv, RejectsUnsupported, At
<1>. QED
  BY <1>2, <1>4, <1>6, <1>7, <1>8 DEF Served, Supported

\* The steps of the others, while the worker has nothing to do.
LEMMA OthersServed ==
  ASSUME SettledInv, ~Busy, Carry \/ RequestFails \/ Users \/ Observe \/ UNCHANGED vars,
         server' # Nil, ~ToCome'
  PROVE  Served'
<1>1. ~queued' /\ ~Watched(cache', server')
  BY DEF ToCome, Watched
<1>2. CASE Users
  <2>1. server \in Gateway /\ server # Nil /\ ~server.deleting /\ cache' = cache
    BY <1>2 DEF Users, Edit, Delete, SettledInv, CleanedInv, TypeOK
  <2>2. cache \in Gateway /\ cache # Nil
    BY <2>1 DEF SettledInv, IInv, Protection, CacheIsOlder, CleanedInv, TypeOK
  <2>3. CASE \E spec \in Specs : Edit(spec)
    <3>1. server'.generation = server.generation + 1
      <4>1. PICK spec \in Specs : Edit(spec)
        BY <2>3
      <4>2. server' = [server EXCEPT !.spec = spec, !.generation = server.generation + 1]
        BY <4>1 DEF Edit
      <4>. QED
        BY <2>1, <4>2 DEF Gateway
    <3>2. cache.generation <= server.generation
      BY <2>1, <2>2 DEF SettledInv, CleanedInv, CleanInv, SpecOfGeneration, Copies
    <3>3. cache.generation \in Nat /\ server.generation \in Nat
      BY <2>1, <2>2 DEF Gateway, Generations
    <3>4. cache.generation # server'.generation
      BY <3>1, <3>2, <3>3
    <3>. QED
      BY <1>1, <2>1, <3>4 DEF Watched
  <2>4. CASE Delete
    <3>1. server' = [server EXCEPT !.deleting = TRUE]
      BY <2>4 DEF Delete
    <3>2. ~cache.deleting
      BY <2>1, <2>2 DEF SettledInv, SettlesInv, KnownInv, DeletionIsKnown, Copies
    <3>. QED
      BY <1>1, <2>1, <3>1, <3>2 DEF Watched, Gateway
  <2>. QED
    BY <1>2, <2>3, <2>4 DEF Users
<1>3. CASE Carry \/ RequestFails \/ Observe \/ UNCHANGED vars
  <2>1. /\ server' = server /\ misreported' = misreported
        /\ ~queued /\ ~Watched(cache, server)
    <3>1. CASE Observe
      BY <1>1, <3>1 DEF Observe, history
    <3>2. CASE Carry
      BY <1>1, <3>2 DEF Carry, history
    <3>4. CASE UNCHANGED vars
      BY <1>1, <3>4 DEF vars, history
    <3>3. CASE RequestFails
      BY <1>1, <3>3 DEF RequestFails, At, history
    <3>. QED
      BY <1>3, <3>1, <3>2, <3>3, <3>4
  <2>2. Served
    BY <2>1 DEF SettledInv, SettlesInv, IdleIsServed, ToCome, Served
  <2>3. CASE Carry
    <3>1. Serves(server) /\ PendingFits(server.spec) => Serves(server)' /\ PendingFits(server.spec)'
      BY <2>1, <2>3, CarryServes
    <3>. QED
      BY <2>1, <2>2, <3>1 DEF Served, Supported, Desired
  <2>4. CASE ~Carry
    <3>1. UNCHANGED <<listeners, sets>> /\ pending' \in {Nil, pending}
      BY <1>3, <2>4 DEF RequestFails, Observe, vars, oci
    <3>. QED
      BY <2>1, <2>2, <3>1 DEF Served, Supported, Desired, Serves, ManagedNames, PendingFits, Fits
  <2>. QED
    BY <2>3, <2>4
<1>. QED
  BY <1>2, <1>3

LEMMA NextIdle == SettledInv /\ [Next]_vars => IdleIsServed'
<1> SUFFICES ASSUME SettledInv, [Next]_vars, server' # Nil, ~Busy', ~ToCome'
             PROVE  Served'
  BY DEF IdleIsServed, Served
<1>1. ~queued' /\ ~Watched(cache', server')
  BY DEF ToCome, Watched
<1>2. ~Fail /\ ~Crash /\ ~(RequestFails /\ At("wait")) /\ ~RemoveFinalizer
  BY <1>1 DEF Fail, Crash, RequestFails, RemoveFinalizer
<1>3. CASE Take
  <2>1. cache = Nil
    <3> SUFFICES ASSUME cache # Nil PROVE FALSE
      OBVIOUS
    <3>1. cache \in Gateway /\ ~(cache.deleting /\ ~cache.finalizer)
      BY DEF SettledInv, CleanedInv, TypeOK
    <3>2. job' \in Job
      BY <1>3, <3>1 DEF Take, Job, PCs
    <3>. QED
      BY <3>2 DEF Busy
  <2>. QED
    BY <1>1, <1>3, <2>1 DEF Take, Watched
<1>4. CASE CheckProgrammed
  <2>1. job' = Nil /\ ~queued /\ ~Watched(cache, server)
    BY <1>1, <1>4 DEF CheckProgrammed, Busy
  <2>. QED
    BY <1>4, <2>1, CheckServed
<1>5. CASE Record
  BY <1>1, <1>5, RecordServed DEF Record
<1>6. CASE Reject
  BY <1>1, <1>6, RejectServed DEF Reject
<1>7. CASE ~Busy /\ (Carry \/ RequestFails \/ Users \/ Observe \/ UNCHANGED vars)
  BY <1>7, OthersServed
<1>8. CASE Busy /\ (Carry \/ RequestFails \/ Users \/ Observe \/ UNCHANGED vars)
  <2>1. job' = job
    BY <1>2, <1>8 DEF Carry, RequestFails, Users, Edit, Delete, Observe, vars
  <2>. QED
    BY <1>8, <2>1 DEF Busy
<1>. QED
  BY <1>2, <1>3, <1>4, <1>5, <1>6, <1>7, <1>8, StaysBusy DEF Next, Step, SettledInv, CleanedInv

LEMMA InitSettled == Init => SettledInv
<1> SUFFICES ASSUME Init PROVE SettledInv
  OBVIOUS
<1>1. IInv /\ CleanedInv
  BY InitTyped, InitProtected, InitClean DEF IInv
<1>2. PICK spec \in Specs : server = New(spec)
  BY DEF Init
<1>3. ~Busy /\ queued /\ cache = server
  BY DEF Init, Busy
<1>4. Copies = {server} /\ ~server.deleting /\ server.programmed.status = "Unknown"
  BY <1>2, <1>3 DEF Copies, New
<1>5. PlanInv
  BY <1>3 DEF PlanInv, PlanFits, GetsServed, RejectsUnsupported, InPlan, At
<1>6. KnownInv
  BY <1>3, <1>4 DEF KnownInv, ReportsAreKnown, DeletionIsKnown, NothingNew, ReportIsJudged,
    Reports, At
<1>7. ReportIsTrue /\ IdleIsServed
  BY <1>3, <1>4 DEF ReportIsTrue, IdleIsServed, ToCome, Reports
<1>. QED
  BY <1>1, <1>5, <1>6, <1>7 DEF SettledInv, SettlesInv

LEMMA NextSettled == SettledInv /\ [Next]_vars => SettledInv'
<1> SUFFICES ASSUME SettledInv, [Next]_vars PROVE SettledInv'
  OBVIOUS
<1>1. IInv' /\ CleanedInv'
  BY NextIInv, NextCleaned DEF SettledInv
<1>2. PlanInv' /\ KnownInv' /\ ReportIsTrue' /\ IdleIsServed'
  BY NextPlan, NextKnown, NextTrue, NextIdle
<1>. QED
  BY <1>1, <1>2 DEF SettledInv, SettlesInv

\* When nothing is outstanding, the load balancer has what the Gateway's last specification
\* wants, and the Gateway has it on record; or the Gateway says that it does not accept its
\* specification.
THEOREM SettledIsServedHolds == Spec => []SettledIsServed
<1>1. SettledInv => SettledIsServed
  <2> SUFFICES ASSUME SettledInv, Settled, server # Nil, ~misreported
               PROVE  IF \E l \in Names : server.spec[l] \in Unsupported
                      THEN server.accepted = [status |-> "False", generation |-> server.generation]
                      ELSE server.recorded = Desired(server.spec) /\ Serves(server)
    BY DEF SettledIsServed
  <2>1. ~Busy /\ ~ToCome
    BY DEF Settled, ToCome, Watched
  <2>. QED
    BY <2>1 DEF SettledInv, SettlesInv, IdleIsServed, Supported
<1>. QED
  BY <1>1, InitSettled, NextSettled, PTL DEF Spec

=============================================================================
