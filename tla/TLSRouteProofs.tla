----------------------------- MODULE TLSRouteProofs -----------------------------
(***************************************************************************)
(* Proofs about TLSRoute: any number of routes and listeners of both kinds *)
(* of load balancer, and any changes by users.                             *)
(*                                                                         *)
(* Typed says of the worker's job what its reads and branches have made    *)
(* true of it, whatever else happens: it programs a route at a listener    *)
(* that the route claims, a deleted route's successor and never the        *)
(* deleted route itself, and it releases a route only where the route has  *)
(* the finalizer (Planned).  Effects says what its calls have brought      *)
(* about at the load balancers and nobody undoes: the set that a listener  *)
(* is about to use is made, the listener to record serves the route being  *)
(* programmed, and the listener to release serves the deleted route no     *)
(* more.  The informers' copies may be old, so neither says anything of    *)
(* the routes at the API server but that their records are sound.          *)
(*                                                                         *)
(* That owners are served in the end takes an invariant about everybody    *)
(* (Sheltered).  Fitting says what a job knows although its reads may be   *)
(* old: whatever makes it untrue has queued the route that it is about.    *)
(* Heir and Marked follow a route from its listener to its record.         *)
(* Covered says of every listener that is not lost that each live route    *)
(* that claims it in the informers' eyes is queued, about to be (its       *)
(* record has changed), at work, younger than another or served; or that   *)
(* a deleted route is still to hand the listener over; and that a listener *)
(* without routes is bare or will be handed over.  When nothing is left to *)
(* do, only `served' and `bare' remain.                                    *)
(***************************************************************************)
EXTENDS TLSRoute, WellFoundedInduction, TLAPS

USE TLSRouteAssumption

\* A set of routes that is not empty has an oldest one.
LEMMA LeastExists ==
  ASSUME NEW S, S \subseteq Nat, S # {}
  PROVE  Min(S) \in S /\ \A y \in S : Min(S) <= y
<1>. DEFINE R == OpToRel(<, Nat)
<1>1. IsWellFoundedOn(R, Nat)
  BY NatLessThanWellFounded
<1>2. R = {p \in Nat \X Nat : p[1] < p[2]}
  BY DEF OpToRel
<1>. HIDE DEF R
<1>3. PICK x \in S : \A y \in S : ~(<<y, x>> \in R)
  BY <1>1, WFMin
<1>4. ASSUME NEW y \in S
      PROVE  x <= y
  <2>1. <<y, x>> \in Nat \X Nat /\ x \in Nat /\ y \in Nat
    OBVIOUS
  <2>2. ~(y < x)
    BY <1>2, <1>3, <2>1
  <2>. QED
    BY <2>1, <2>2
<1>. QED
  BY <1>4 DEF Min

----------------------------------------------------------------------------
(* What is true of a job by itself.                                        *)

Cleans(job) == job.pc \in {"clean", "unset"}

\* The job programs a route at a listener, releases one there, or cleans up after a
\* detached one.
Programs(job) ==
  \/ job.pc \in {"pending", "program", "forget", "set", "listen", "record", "report", "reject"}
  \/ Cleans(job) /\ job.then \in {"forget", "reject"}
Releases(job) == job.pc = "release" \/ (Cleans(job) /\ job.then = "release")
Detaches(job) == job.pc = "detach" \/ (Cleans(job) /\ job.then = "detach")

\* The finalizer of the Load Balancer comes with every record of its resources.
Sound(x) == x.alb # {} => x.albHeld

\* The route is at a listener it is attached to, and a deleted one only where it has the
\* finalizer; it is another route exactly if this one is deleted.
ProgramsClaimant(job) ==
  Programs(job) =>
    /\ job.at \in job.asCopy.spec
    /\ job.as = job.route <=> ~job.copy.deleting

HoldsWhereDeleted(job) ==
  /\ Programs(job) \/ Releases(job) =>
       /\ job.at \in Listeners
       /\ job.copy.deleting => Holds(job.copy, job.at)
  /\ Releases(job) => job.as = job.route /\ job.copy.deleting

\* Before a release only the resources of the listener to release are cleaned up.
CleansReleased(job) ==
  /\ Cleans(job) /\ job.then = "release" => job.names = {job.at}
  /\ job.pc = "unset" => job.cur \in Terminating
  /\ job.pc = "unset" /\ job.then = "release" => job.cur = job.at

Planned(job) ==
  /\ job \in Job
  /\ Sound(job.copy)
  /\ job.todo \subseteq job.copy.spec
  /\ ProgramsClaimant(job)
  /\ HoldsWhereDeleted(job)
  /\ CleansReleased(job)
  /\ Detaches(job) => Finalized(job.copy)
  /\ job.pc = "listen" => job.at \in Terminating
  /\ job.pc = "unmatched" => job.then = "detach"

CopiesSound == \A r \in Routes : cache[r] # Nil => Sound(cache[r])

Typed == TypeOK /\ CopiesSound /\ (Busy => Planned(work))

\* Between making a backend set and pointing the listener to it.
SetMade == At("listen") => <<work.as, work.at>> \in albSets

\* Until it is recorded, the listener serves the programmed route, unless the Gateway's
\* controller empties or removes the set.
ServesProgrammed ==
  At("record") \/ At("report") =>
    IF work.at \in Terminating THEN targets[work.at] = work.as
    ELSE nlbSets[work.at] \in {Nil, {}, {work.as}}

\* Between deleting a listener and its backend set.
ListenerGone == At("unset") /\ work.then = "release" => targets[work.at] = Nil

Unserved(r, l) ==
  IF l \in Terminating THEN targets[l] # r ELSE nlbSets[l] = Nil \/ r \notin nlbSets[l]

ReleasesUnserved == At("release") => Unserved(work.route, work.at)

Effects == SetMade /\ ServesProgrammed /\ ListenerGone /\ ReleasesUnserved

----------------------------------------------------------------------------
(* The jobs that the operators of the worker make are planned.             *)

\* Where a job is when its calls have brought something about.
Late == {"listen", "record", "report", "unset", "release"}

\* Jobs stay jobs.
LEMMA ProgramJob ==
  ASSUME NEW job \in Job, NEW x \in Routes, NEW copy \in Route
  PROVE  [job EXCEPT !.pc = "program", !.as = x, !.asCopy = copy] \in Job
BY DEF Job, PCs

LEMMA CleanJob ==
  ASSUME NEW job \in Job, NEW names \in SUBSET Listeners,
         NEW then \in {"forget", "reject", "release", "detach"}
  PROVE  [job EXCEPT !.pc = "clean", !.names = names, !.then = then] \in Job
BY DEF Job, PCs

LEMMA NewJobPlanned ==
  ASSUME TypeOK, CopiesSound, NEW r \in Routes, cache[r] # Nil
  PROVE  Planned(NewJob(r)) /\ NewJob(r).pc = "unmatched"
<1>. DEFINE job == NewJob(r)
<1>1. cache[r] \in Route /\ Sound(cache[r]) /\ cache[r].spec \subseteq Listeners
  BY DEF TypeOK, CopiesSound, Route
<1>2. job \in Job
  BY <1>1 DEF NewJob, Job, PCs
<1>3. job.pc = "unmatched" /\ job.copy = cache[r] /\ job.todo \subseteq job.copy.spec
      /\ job.then = "detach"
  BY DEF NewJob
<1>. HIDE DEF job
<1>. QED
  BY <1>1, <1>2, <1>3 DEF Planned, ProgramsClaimant, HoldsWhereDeleted, CleansReleased, Detaches,
     Programs, Releases, Cleans, job

LEMMA ReconciledPlanned ==
  ASSUME TypeOK, CopiesSound, NEW job, Planned(job), NEW l \in job.todo,
         job.copy.deleting => Holds(job.copy, l)
  PROVE  Planned(Reconciled(job, l)) /\ Reconciled(job, l).pc \notin Late
<1>. DEFINE on == [job EXCEPT !.todo = @ \ {l}, !.at = l, !.as = job.route, !.asCopy = job.copy]
            next == Min(Successors(job.route, l))
            new == Reconciled(job, l)
<1>1. /\ job \in Job /\ job.copy \in Route /\ job.copy.deleting \in BOOLEAN
      /\ l \in job.copy.spec /\ l \in Listeners /\ job.route \in Routes
  BY DEF Planned, Job, Route
<1>0. on \in Job
  BY <1>1 DEF Job
<1>2. /\ on.at = l /\ on.as = job.route /\ on.asCopy = job.copy
      /\ on.copy = job.copy /\ on.todo \subseteq job.todo /\ on.route = job.route
  BY <1>1 DEF Job
<1>. HIDE DEF on
<1>3. CASE ~job.copy.deleting
  <2>1. new = [on EXCEPT !.pc = "pending"]
    BY <1>3 DEF Reconciled, on
  <2>2. /\ new \in Job /\ new.pc = "pending" /\ new.at = l /\ new.as = new.route
        /\ new.asCopy = job.copy /\ new.copy = job.copy /\ new.todo \subseteq job.todo
    BY <1>0, <1>2, <2>1 DEF Job, PCs
  <2>. QED
    BY <1>1, <1>3, <2>2 DEF Planned, ProgramsClaimant, HoldsWhereDeleted, CleansReleased, Detaches,
       Programs, Releases, Cleans, Late
<1>4. CASE job.copy.deleting /\ Successors(job.route, l) # {}
  <2>1. next \in Successors(job.route, l)
    <3>1. Successors(job.route, l) \subseteq Nat
      BY DEF Successors, Claimants
    <3>. QED
      BY <1>4, <3>1, LeastExists
  <2>6. next \in Routes \ {job.route} /\ cache[next] # Nil /\ l \in cache[next].spec
    BY <2>1 DEF Successors, Claimants
  <2>7. cache \in [Routes -> Route \cup {Nil}]
    BY DEF TypeOK
  <2>2. next \in Routes \ {job.route} /\ cache[next] \in Route /\ l \in cache[next].spec
    <3>. HIDE DEF next
    <3>. QED
      BY <2>6, <2>7
  <2>3. new = [on EXCEPT !.pc = "program", !.as = next, !.asCopy = cache[next]]
    BY <1>4 DEF Reconciled, on
  <2>. HIDE DEF next
  <2>4. new \in Job
    <3>1. [on EXCEPT !.pc = "program", !.as = next, !.asCopy = cache[next]] \in Job
      BY <1>0, <2>2, ProgramJob
    <3>. QED
      BY <2>3, <3>1
  <2>5. /\ new.pc = "program" /\ new.at = l /\ new.as # new.route
        /\ l \in new.asCopy.spec /\ new.copy = job.copy /\ new.todo \subseteq job.todo
    BY <1>0, <1>2, <2>2, <2>3 DEF Job
  <2>. QED
    BY <1>1, <1>4, <2>4, <2>5 DEF Planned, ProgramsClaimant, HoldsWhereDeleted, CleansReleased, Detaches,
       Programs, Releases, Cleans, Late
<1>5. CASE job.copy.deleting /\ Successors(job.route, l) = {}
  <2>1. new = [on EXCEPT !.pc = "clean", !.names = {l}, !.then = "release"]
    BY <1>5 DEF Reconciled, on
  <2>2. new \in Job
    <3>1. {l} \in SUBSET Listeners
      BY <1>1
    <3>2. [on EXCEPT !.pc = "clean", !.names = {l}, !.then = "release"] \in Job
      BY <1>0, <3>1, CleanJob
    <3>. QED
      BY <2>1, <3>2
  <2>3. /\ new.pc = "clean" /\ new.at = l /\ new.names = {l}
        /\ new.then = "release" /\ new.as = job.route /\ new.route = job.route
        /\ new.copy = job.copy /\ new.todo \subseteq job.todo
    BY <1>0, <1>1, <1>2, <2>1 DEF Job
  <2>. QED
    BY <1>1, <1>5, <2>2, <2>3 DEF Planned, ProgramsClaimant, HoldsWhereDeleted, CleansReleased, Detaches,
       Programs, Releases, Cleans, Late
<1>. QED
  BY <1>1, <1>3, <1>4, <1>5

LEMMA TurnsPlanned ==
  ASSUME TypeOK, CopiesSound, NEW job, Planned(job), NEW new \in Turns(job)
  PROVE  new = Idle \/ (Planned(new) /\ new.pc \notin Late)
BY ReconciledPlanned DEF Turns

\* What an unmatched route is cleaned up for is on its record.
LEMMA DetachedPlanned ==
  ASSUME NEW job, Planned(job), job.pc = "unmatched"
  PROVE  Detached(job) = Idle \/ (Planned(Detached(job)) /\ Detached(job).pc = "clean")
<1>. DEFINE new == Detached(job)
<1>1. /\ job \in Job /\ job.copy \in Route
      /\ job.copy.nlb \subseteq Listeners /\ job.copy.alb \subseteq Listeners
  BY DEF Planned, Job, Route
<1>2. SUFFICES ASSUME NEW names \in {job.copy.nlb, job.copy.alb}, names # {},
                      new = [job EXCEPT !.pc = "clean", !.names = names]
               PROVE  Planned(new) /\ new.pc = "clean"
  BY DEF Detached, DetachedLoadBalancerRoute
<1>3. new \in Job
  BY <1>1, <1>2 DEF Job, PCs
<1>4. /\ new.pc = "clean" /\ new.then = "detach" /\ new.copy = job.copy /\ new.todo = job.todo
  BY <1>1, <1>2 DEF Job, Planned
<1>5. Finalized(job.copy)
  BY <1>2 DEF Planned, Sound, Finalized
<1>. HIDE DEF new
<1>. QED
  BY <1>3, <1>4, <1>5 DEF Planned, ProgramsClaimant, HoldsWhereDeleted, CleansReleased, Detaches,
     Programs, Releases, Cleans

\* A step of programming stays with its route and its listener.
LEMMA ProgramsOn ==
  ASSUME NEW job, Planned(job), Programs(job), NEW new \in Job, Programs(new), new.pc \notin {"unset"},
         new.copy = job.copy, new.todo = job.todo, new.at = job.at, new.as = job.as,
         new.route = job.route, new.asCopy.spec = job.asCopy.spec,
         new.pc = "listen" => new.at \in Terminating
  PROVE  Planned(new)
BY DEF Planned, ProgramsClaimant, HoldsWhereDeleted, CleansReleased, Detaches,
     Programs, Releases, Cleans

LEMMA ResolveBackendsPlanned ==
  ASSUME NEW job, Planned(job), Programs(job)
  PROVE  /\ Planned(ResolveBackends(job))
         /\ ResolveBackends(job).pc \in {"set", "reject", "clean"}
<1>. DEFINE new == ResolveBackends(job)
<1>1. job \in Job /\ job.at \in Listeners
  BY DEF Planned, HoldsWhereDeleted
<1>2. /\ new \in Job /\ new.pc \in {"set", "reject", "clean"}
      /\ new.pc = "clean" => new.then = "reject"
  BY <1>1 DEF ResolveBackends, Job, PCs
<1>3. /\ new.copy = job.copy /\ new.todo = job.todo /\ new.at = job.at /\ new.as = job.as
      /\ new.route = job.route /\ new.asCopy = job.asCopy
  BY <1>1 DEF ResolveBackends, Job
<1>4. Programs(new)
  BY <1>2 DEF Programs, Cleans
<1>. QED
  BY <1>2, <1>3, <1>4, ProgramsOn

LEMMA SweepPlanned ==
  ASSUME NEW job, Planned(job), Programs(job)
  PROVE  /\ Planned(Sweep(job))
         /\ Sweep(job).pc \in {"set", "reject", "clean", "forget"}
<1>. DEFINE new == Sweep(job)
<1>1. job \in Job /\ job.asCopy.nlb \subseteq Listeners /\ job.asCopy.alb \subseteq Listeners
  BY DEF Planned, Job, Route
<1>2. CASE new = ResolveBackends(job)
  BY <1>2, ResolveBackendsPlanned
<1>3. CASE new = [job EXCEPT !.pc = "forget"]
  <2>1. /\ new \in Job /\ new.pc = "forget"
        /\ new.copy = job.copy /\ new.todo = job.todo /\ new.at = job.at /\ new.as = job.as
        /\ new.route = job.route /\ new.asCopy = job.asCopy
    BY <1>1, <1>3 DEF Job, PCs
  <2>2. Programs(new)
    BY <2>1 DEF Programs
  <2>. QED
    BY <2>1, <2>2, ProgramsOn
<1>4. ASSUME NEW names \in {job.asCopy.nlb, job.asCopy.alb},
             new = [job EXCEPT !.pc = "clean", !.names = names, !.then = "forget"]
      PROVE  Planned(new) /\ new.pc = "clean"
  <2>1. new \in Job
    BY <1>1, <1>4, ZenonT(30) DEF Job, PCs
  <2>2. /\ new.pc = "clean" /\ new.then = "forget"
        /\ new.copy = job.copy /\ new.todo = job.todo /\ new.at = job.at /\ new.as = job.as
        /\ new.route = job.route /\ new.asCopy = job.asCopy
    BY <1>1, <1>4 DEF Job
  <2>3. Programs(new)
    BY <2>2 DEF Programs, Cleans
  <2>. QED
    BY <2>1, <2>2, <2>3, ProgramsOn
<1>. QED
  BY <1>2, <1>3, <1>4 DEF Sweep

----------------------------------------------------------------------------
(* Every step keeps the types and the plan.                                *)

\* What a step of the worker leaves to be shown.
LEMMA WorkerTyped ==
  ASSUME Typed,
         server' \in [Routes -> Route \cup {Nil}],
         \A r \in Routes : server'[r] # Nil => Sound(server'[r]),
         UNCHANGED <<cache, born, users, edits>>,
         queue' \subseteq Routes, lost' \subseteq Listeners,
         nlbSets' \in [Listeners \ Terminating -> (SUBSET Routes) \cup {Nil}],
         targets' \in [Terminating -> Routes \cup {Nil}],
         albSets' \subseteq Routes \X Terminating,
         work' = Idle \/ Planned(work')
  PROVE  Typed'
<1>1. CopiesSound' /\ (Busy' => Planned(work'))
  BY DEF Typed, CopiesSound, Busy, Idle
<1>2. ASSUME Busy'
      PROVE  /\ work' \in Job
             /\ At("record")' => work'.at \in work'.asCopy.spec
             /\ At("release")' => Holds(work'.copy, work'.at)
             /\ At("detach")' => Finalized(work'.copy)
  BY <1>1, <1>2 DEF Planned, ProgramsClaimant, HoldsWhereDeleted, Programs, Releases, Detaches, At, Busy
<1>3. \A r \in Routes : server'[r] # Nil => (server'[r].alb # {} => server'[r].albHeld)
  BY DEF Sound
<1>4. TypeOK'
  BY <1>2, <1>3 DEF Typed, TypeOK, users, Holds, Finalized, At, Busy
<1>. QED
  BY <1>1, <1>4 DEF Typed, Planned, ProgramsClaimant, HoldsWhereDeleted, CleansReleased, Detaches,
     Programs, Releases, Cleans

LEMMA InitTyped == Init => Typed
<1> SUFFICES ASSUME Init PROVE Typed
  OBVIOUS
<1>. QED
  BY DEF Init, Typed, TypeOK, CopiesSound, Busy, Idle, At

LEMMA TakeTyped ==
  ASSUME Typed, NEW r \in Routes, Take(r)
  PROVE  Typed' /\ (Busy' => work'.pc \notin Late)
<1>1. ASSUME cache[r] # Nil
      PROVE  Planned(NewJob(r)) /\ NewJob(r).pc \notin Late
  BY <1>1, NewJobPlanned DEF Typed, Late
<1>2. work' = Idle \/ (Planned(work') /\ work'.pc \notin Late)
  BY <1>1, TurnsPlanned DEF Take, Typed
<1>3. /\ UNCHANGED <<server, lost, cache, born, users, nlbSets, targets, albSets, edits>>
      /\ queue' \subseteq Routes
  BY DEF Take, NoServerWrite, lbs, Typed, TypeOK
<1>4. Typed'
  BY <1>2, <1>3, WorkerTyped DEF Typed, TypeOK, Sound
<1>. QED
  BY <1>2, <1>4 DEF Busy, Idle

LEMMA IdleTyped ==
  ASSUME Typed, Fail
  PROVE  Typed' /\ ~Busy'
<1>1. /\ UNCHANGED <<server, lost, cache, born, users, nlbSets, targets, albSets, edits>>
      /\ queue' \subseteq Routes /\ work' = Idle
  BY DEF Fail, NoServerWrite, lbs, Typed, TypeOK, Planned, Job, Busy
<1>. QED
  BY <1>1, WorkerTyped DEF Typed, TypeOK, Sound, Busy, Idle

\* A write that leaves what is recorded of a route as it is keeps its type.
LEMMA ServerTyped ==
  ASSUME Typed, NEW r \in Routes, NEW x \in Route, Sound(x), server' = [server EXCEPT ![r] = x]
  PROVE  /\ server' \in [Routes -> Route \cup {Nil}]
         /\ \A y \in Routes : server'[y] # Nil => Sound(server'[y])
BY DEF Typed, TypeOK, Sound

LEMMA StatusTyped ==
  ASSUME NEW x \in Route, Sound(x), NEW status \in [Balancers -> States]
  PROVE  /\ [x EXCEPT !.status = status] \in Route
         /\ Sound([x EXCEPT !.status = status])
BY DEF Route, Sound

LEMMA SetStatusTyped ==
  ASSUME Typed, NEW r \in Routes, NEW copy, NEW b \in Balancers, NEW status \in States,
         SetStatus(r, copy, b, status)
  PROVE  /\ server' \in [Routes -> Route \cup {Nil}]
         /\ \A y \in Routes : server'[y] # Nil => Sound(server'[y])
<1>1. server[r] \in Route /\ Sound(server[r]) /\ server[r].status \in [Balancers -> States]
  BY DEF SetStatus, Fresh, Retried, Typed, TypeOK, Sound, Route
<1>. DEFINE statuses == [server[r].status EXCEPT ![b] = status]
            x == [server[r] EXCEPT !.status = statuses]
<1>2. statuses \in [Balancers -> States]
  BY <1>1
<1>3. x \in Route /\ Sound(x)
  BY <1>1, <1>2, StatusTyped
<1>4. server' = [server EXCEPT ![r] = x]
  BY DEF SetStatus
<1>. QED
  BY <1>3, <1>4, ServerTyped

LEMMA BalancerTyped == \A l : BalancerOf(l) \in Balancers
BY DEF BalancerOf, Balancers

LEMMA UnmatchedTyped ==
  ASSUME Typed, Unmatched
  PROVE  Typed' /\ (Busy' => work'.pc \notin Late)
<1>. DEFINE r == work.route
            statuses(parents) ==
              [b \in Balancers |-> IF b \in parents THEN "rejected" ELSE server[r].status[b]]
<1>1. Planned(work) /\ work \in Job /\ work.pc = "unmatched" /\ r \in Routes
  BY DEF Unmatched, At, Typed, Planned, Job
<1>2. work' = Idle \/ (Planned(work') /\ work'.pc \notin Late)
  BY <1>1, DetachedPlanned DEF Unmatched, Late
<1>3. /\ server' \in [Routes -> Route \cup {Nil}]
      /\ \A y \in Routes : server'[y] # Nil => Sound(server'[y])
  <2>1. CASE UNCHANGED server
    BY <2>1 DEF Typed, TypeOK, Sound
  <2>2. CASE ~UNCHANGED server
    <3>1. server[r] # Nil /\ server[r] \in Route /\ Sound(server[r])
      BY <1>1, <2>2 DEF Unmatched, Fresh, Retried, Typed, TypeOK, Sound
    <3>2. PICK parents \in SUBSET Balancers :
            server' = [server EXCEPT ![r].status = statuses(parents)]
      <4>1. {BalancerOf(l) : l \in {l \in work.copy.spec : l \in Terminating => there}}
              \in SUBSET Balancers
        BY BalancerTyped
      <4>. QED
        BY <2>2, <4>1 DEF Unmatched
    <3>3. statuses(parents) \in [Balancers -> States]
      BY <3>1 DEF Route, States
    <3>4. server' = [server EXCEPT ![r] = [server[r] EXCEPT !.status = statuses(parents)]]
      BY <3>2
    <3>. HIDE DEF statuses
    <3>. QED
      BY <1>1, <3>1, <3>3, <3>4, StatusTyped, ServerTyped
  <2>. QED
    BY <2>1, <2>2
<1>4. UNCHANGED <<lost, nlbSets, targets, albSets>> /\ NoEvent
  BY DEF Unmatched, lbs
<1>. QED
  BY <1>2, <1>3, <1>4, WorkerTyped DEF Typed, TypeOK, NoEvent, Busy, Idle

\* The job goes on to another call of the same programming.
LEMMA GotoPlanned ==
  ASSUME Planned(work), Programs(work),
         NEW pc \in {"program", "set", "listen", "record", "report"}, Goto(pc),
         pc = "listen" => work.at \in Terminating
  PROVE  /\ Planned(work') /\ work'.pc = pc
         /\ work'.at = work.at /\ work'.as = work.as /\ work'.asCopy = work.asCopy
         /\ work'.copy = work.copy /\ work'.route = work.route
<1>1. work \in Job
  BY DEF Planned
<1>2. work' \in Job /\ work'.pc = pc
  BY <1>1 DEF Goto, Job, PCs
<1>3. /\ work'.at = work.at /\ work'.as = work.as /\ work'.asCopy = work.asCopy
      /\ work'.copy = work.copy /\ work'.route = work.route /\ work'.todo = work.todo
  BY <1>1 DEF Goto, Job
<1>4. Programs(work')
  BY <1>2 DEF Programs
<1>. QED
  BY <1>2, <1>3, <1>4, ProgramsOn

LEMMA SetPendingTyped ==
  ASSUME Typed, SetPending
  PROVE  Typed' /\ (Busy' => work'.pc \notin Late)
<1>1. Planned(work) /\ Programs(work) /\ work.route \in Routes
  BY DEF SetPending, At, Typed, Planned, Job, Programs
<1>2. Planned(work') /\ work'.pc = "program"
  BY <1>1, GotoPlanned DEF SetPending
<1>3. /\ server' \in [Routes -> Route \cup {Nil}]
      /\ \A y \in Routes : server'[y] # Nil => Sound(server'[y])
  BY <1>1, BalancerTyped, SetStatusTyped DEF SetPending, States
<1>. QED
  BY <1>2, <1>3, WorkerTyped DEF SetPending, lbs, NoEvent, Typed, TypeOK, Late

LEMMA SetRejectedTyped ==
  ASSUME Typed, SetRejected
  PROVE  Typed' /\ (Busy' => work'.pc \notin Late)
<1>1. Planned(work) /\ work.route \in Routes
  BY DEF SetRejected, At, Typed, Planned, Job
<1>2. work' = Idle \/ (Planned(work') /\ work'.pc \notin Late)
  BY <1>1, TurnsPlanned DEF SetRejected, Typed
<1>3. /\ server' \in [Routes -> Route \cup {Nil}]
      /\ \A y \in Routes : server'[y] # Nil => Sound(server'[y])
  BY <1>1, BalancerTyped, SetStatusTyped DEF SetRejected, States
<1>. QED
  BY <1>2, <1>3, WorkerTyped DEF SetRejected, lbs, NoEvent, Typed, TypeOK, Busy, Idle

LEMMA ProgramRouteTyped ==
  ASSUME Typed, ProgramRoute
  PROVE  Typed' /\ (Busy' => work'.pc \notin Late)
<1>1. Planned(work) /\ Programs(work) /\ work \in Job /\ work.at \in Listeners
  BY DEF ProgramRoute, At, Typed, Planned, HoldsWhereDeleted, Programs
<1>2. CASE work' = Sweep(work)
  <2>1. Planned(work') /\ work'.pc \notin Late
    BY <1>1, <1>2, SweepPlanned DEF Late
  <2>. QED
    BY <1>1, <2>1, WorkerTyped DEF ProgramRoute, lbs, NoEvent, Typed, TypeOK, Sound
<1>3. CASE work' = [work EXCEPT !.pc = "reject"]
  <2>1. /\ work' \in Job /\ work'.pc = "reject"
        /\ work'.at = work.at /\ work'.as = work.as /\ work'.asCopy = work.asCopy
        /\ work'.copy = work.copy /\ work'.route = work.route /\ work'.todo = work.todo
    BY <1>1, <1>3 DEF Job, PCs
  <2>2. Planned(work') /\ work'.pc \notin Late
    BY <1>1, <2>1, ProgramsOn DEF Programs, Late
  <2>. QED
    BY <1>1, <2>2, WorkerTyped DEF ProgramRoute, lbs, NoEvent, Typed, TypeOK, Sound
<1>. QED
  BY <1>2, <1>3 DEF ProgramRoute

LEMMA ForgetTyped ==
  ASSUME Typed, Forget
  PROVE  Typed' /\ (Busy' => work'.pc \notin Late)
<1>1. Planned(work) /\ Programs(work) /\ work.as \in Routes
  BY DEF Forget, At, Typed, Planned, Job, Programs
<1>2. Planned(work') /\ work'.pc \notin Late
  BY <1>1, ResolveBackendsPlanned DEF Forget, Late
<1>. DEFINE x == IF BalancerOf(work.at) = "alb" THEN [server[work.as] EXCEPT !.nlb = {}]
                 ELSE [server[work.as] EXCEPT !.alb = {}, !.albHeld = FALSE]
<1>3. x \in Route /\ Sound(x)
  <2>1. server[work.as] \in Route /\ Sound(server[work.as])
    BY <1>1 DEF Forget, Fresh, Typed, TypeOK, Sound
  <2>. QED
    BY <2>1 DEF Route, Sound
<1>4. server' = [server EXCEPT ![work.as] = x]
  BY DEF Forget
<1>. HIDE DEF x
<1>5. /\ server' \in [Routes -> Route \cup {Nil}]
      /\ \A y \in Routes : server'[y] # Nil => Sound(server'[y])
  BY <1>1, <1>3, <1>4, ServerTyped
<1>. QED
  BY <1>2, <1>5, WorkerTyped DEF Forget, lbs, NoEvent, Typed, TypeOK

LEMMA SetTyped ==
  ASSUME Typed, UpdateNLBBackendSet \/ ReconcileBackendSet \/ ReconcileTLSListener
  PROVE  Typed'
<1>1. /\ Planned(work) /\ Programs(work) /\ work.as \in Routes /\ work.at \in Listeners
      /\ work.pc = "listen" => work.at \in Terminating
  BY DEF UpdateNLBBackendSet, ReconcileBackendSet, ReconcileTLSListener, At, Typed, Planned, Job,
         HoldsWhereDeleted, Programs
<1>2. Planned(work')
  BY <1>1, GotoPlanned DEF UpdateNLBBackendSet, ReconcileBackendSet, ReconcileTLSListener
<1>3. /\ nlbSets' \in [Listeners \ Terminating -> (SUBSET Routes) \cup {Nil}]
      /\ targets' \in [Terminating -> Routes \cup {Nil}]
      /\ albSets' \subseteq Routes \X Terminating
      /\ lost' \subseteq Listeners
  BY <1>1 DEF UpdateNLBBackendSet, ReconcileBackendSet, ReconcileTLSListener, At, Typed, TypeOK
<1>4. UNCHANGED server /\ NoEvent
  BY DEF UpdateNLBBackendSet, ReconcileBackendSet, ReconcileTLSListener
<1>. QED
  BY <1>2, <1>3, <1>4, WorkerTyped DEF NoEvent, Typed, TypeOK, Sound

\* The clean-up of a name ends or goes on to the next one.
LEMMA CleanedPlanned ==
  ASSUME Planned(work), Cleans(work), NEW names \in SUBSET Listeners,
         names \subseteq work.names, work.then = "release" => names = {},
         work' = Cleaned(names)
  PROVE  /\ Planned(work')
         /\ work'.pc \in {"clean", "forget", "reject", "release", "detach"}
         /\ work'.pc = "release" =>
              work.then = "release" /\ work'.at = work.at /\ work'.route = work.route
<1>1. work \in Job
  BY DEF Planned
<1>2. work' \in Job
  BY <1>1 DEF Cleaned, Job, PCs
<1>3. /\ work'.copy = work.copy /\ work'.todo = work.todo /\ work'.at = work.at
      /\ work'.as = work.as /\ work'.route = work.route /\ work'.asCopy = work.asCopy
      /\ work'.then = work.then
      /\ work'.pc = IF names = {} THEN work.then ELSE "clean"
  BY <1>1 DEF Cleaned, Job
<1>4. work.then \in {"forget", "reject", "release", "detach"}
  BY <1>1 DEF Job
<1>5. CASE work.then \in {"forget", "reject"}
  <2>1. Programs(work) /\ Programs(work') /\ work'.pc \notin {"unset", "listen"}
    BY <1>3, <1>5 DEF Programs, Cleans
  <2>. QED
    BY <1>2, <1>3, <1>5, <2>1, ProgramsOn
<1>6. CASE work.then = "release"
  <2>1. work'.pc = "release"
    BY <1>3, <1>6
  <2>. QED
    BY <1>2, <1>3, <1>6, <2>1 DEF Planned, ProgramsClaimant, HoldsWhereDeleted, CleansReleased, Detaches,
       Programs, Releases, Cleans
<1>7. CASE work.then = "detach"
  <2>1. work'.pc \in {"clean", "detach"}
    BY <1>3, <1>7
  <2>. QED
    BY <1>2, <1>3, <1>7, <2>1 DEF Planned, ProgramsClaimant, HoldsWhereDeleted, CleansReleased, Detaches,
       Programs, Releases, Cleans
<1>. QED
  BY <1>4, <1>5, <1>6, <1>7

LEMMA ClearBackendSetTyped ==
  ASSUME Typed, NEW l \in Listeners, ClearBackendSet(l)
  PROVE  Typed'
<1>1. Planned(work) /\ Cleans(work) /\ work.names \subseteq Listeners
  BY DEF ClearBackendSet, At, Typed, Planned, Job, Cleans
<1>2. work.then = "release" => work.names \ {l} = {}
  BY <1>1 DEF ClearBackendSet, Planned, CleansReleased
<1>3. Planned(work')
  BY <1>1, <1>2, CleanedPlanned DEF ClearBackendSet
<1>4. nlbSets' \in [Listeners \ Terminating -> (SUBSET Routes) \cup {Nil}]
  BY DEF ClearBackendSet, Typed, TypeOK
<1>. QED
  BY <1>3, <1>4, WorkerTyped DEF ClearBackendSet, NoEvent, Typed, TypeOK, Sound

LEMMA DeleteListenerTyped ==
  ASSUME Typed, NEW l \in Listeners, DeleteListener(l)
  PROVE  /\ Typed'
         /\ work'.pc = "unset" /\ work'.then = work.then
         /\ work.then = "release" => work'.at = l
<1>1. Planned(work) /\ work \in Job /\ work.pc = "clean" /\ l \in Terminating /\ l \in work.names
  BY DEF DeleteListener, At, Typed, Planned, Job
<1>2. work' \in Job
  BY <1>1 DEF DeleteListener, Job, PCs
<1>3. /\ work'.copy = work.copy /\ work'.todo = work.todo /\ work'.at = work.at
      /\ work'.as = work.as /\ work'.route = work.route /\ work'.asCopy = work.asCopy
      /\ work'.then = work.then /\ work'.names = work.names
      /\ work'.pc = "unset" /\ work'.cur = l
  BY <1>1 DEF DeleteListener, Job
<1>4. Planned(work')
  BY <1>1, <1>2, <1>3 DEF Planned, ProgramsClaimant, HoldsWhereDeleted, CleansReleased, Detaches,
     Programs, Releases, Cleans
<1>5. work.then = "release" => work'.at = l
  BY <1>1, <1>3 DEF Planned, CleansReleased, Cleans
<1>6. targets' \in [Terminating -> Routes \cup {Nil}]
  BY DEF DeleteListener, Typed, TypeOK
<1>. QED
  BY <1>3, <1>4, <1>5, <1>6, WorkerTyped DEF DeleteListener, NoEvent, Typed, TypeOK, Sound

LEMMA DeleteBackendSetTyped ==
  ASSUME Typed, DeleteBackendSet
  PROVE  Typed'
<1>1. Planned(work) /\ Cleans(work) /\ work.names \subseteq Listeners
  BY DEF DeleteBackendSet, At, Typed, Planned, Job, Cleans
<1>2. work.then = "release" => work.names \ {work.cur} = {}
  BY <1>1 DEF DeleteBackendSet, At, Planned, CleansReleased
<1>3. Planned(work')
  BY <1>1, <1>2, CleanedPlanned DEF DeleteBackendSet
<1>. QED
  BY <1>3, WorkerTyped DEF DeleteBackendSet, NoEvent, Typed, TypeOK, Sound

LEMMA RecordTyped ==
  ASSUME NEW x \in Route, NEW l \in Listeners
  PROVE  /\ RecordOnCopy(x, l) \in Route /\ Sound(RecordOnCopy(x, l))
         /\ RecordOnCopy(x, l).spec = x.spec
         /\ RecordOnLatest(x, l) \in Route
         /\ Sound(x) => Sound(RecordOnLatest(x, l))
BY DEF RecordOnCopy, RecordOnLatest, Route, Sound

LEMMA SetProgrammedTyped ==
  ASSUME Typed, SetProgrammed
  PROVE  /\ Typed'
         /\ work'.pc = "report" /\ work'.at = work.at /\ work'.as = work.as
<1>. DEFINE onCopy == RecordOnCopy(work.asCopy, work.at)
            onLatest == RecordOnLatest(server[work.as], work.at)
<1>1. /\ Planned(work) /\ Programs(work) /\ work \in Job /\ work.as \in Routes
      /\ work.at \in Listeners /\ work.asCopy \in Route
  BY DEF SetProgrammed, At, Typed, Planned, HoldsWhereDeleted, Job, Programs
<1>2. onCopy \in Route /\ Sound(onCopy) /\ onCopy.spec = work.asCopy.spec
  BY <1>1, RecordTyped
<1>3. CASE /\ server' = [server EXCEPT ![work.as] = onCopy]
           /\ work' = [work EXCEPT !.pc = "report", !.asCopy = onCopy]
  <2>. HIDE DEF onCopy
  <2>1. work' \in Job /\ work'.pc = "report" /\ work'.asCopy = onCopy
    BY <1>1, <1>2, <1>3 DEF Job, PCs
  <2>2. /\ work'.copy = work.copy /\ work'.todo = work.todo /\ work'.at = work.at
        /\ work'.as = work.as /\ work'.route = work.route
    BY <1>1, <1>3 DEF Job
  <2>3. Planned(work')
    BY <1>1, <1>2, <2>1, <2>2, ProgramsOn DEF Programs
  <2>4. /\ server' \in [Routes -> Route \cup {Nil}]
        /\ \A y \in Routes : server'[y] # Nil => Sound(server'[y])
    BY <1>1, <1>2, <1>3, ServerTyped
  <2>. QED
    BY <2>1, <2>2, <2>3, <2>4, WorkerTyped DEF SetProgrammed, lbs, NoEvent, Typed, TypeOK
<1>4. CASE /\ Retried(work.as, work.asCopy)
           /\ server' = [server EXCEPT ![work.as] = onLatest]
           /\ Goto("report")
  <2>1. /\ Planned(work') /\ work'.pc = "report" /\ work'.at = work.at /\ work'.as = work.as
    BY <1>1, <1>4, GotoPlanned
  <2>2. server[work.as] \in Route /\ Sound(server[work.as])
    BY <1>1, <1>4 DEF Retried, Typed, TypeOK, Sound
  <2>3. onLatest \in Route /\ Sound(onLatest)
    BY <1>1, <2>2, RecordTyped
  <2>4. /\ server' \in [Routes -> Route \cup {Nil}]
        /\ \A y \in Routes : server'[y] # Nil => Sound(server'[y])
    BY <1>1, <2>3, <1>4, ServerTyped
  <2>. QED
    BY <2>1, <2>4, WorkerTyped DEF SetProgrammed, lbs, NoEvent, Typed, TypeOK
<1>. QED
  BY <1>3, <1>4 DEF SetProgrammed

LEMMA ReportTyped ==
  ASSUME Typed, Report
  PROVE  /\ Typed'
         /\ Busy' => \/ work'.pc \notin Late
                     \/ /\ work'.pc = "release" /\ work'.at = work.at
                        /\ work'.route = work.route /\ work.as # work.route
<1>1. /\ Planned(work) /\ Programs(work) /\ work \in Job /\ work.as \in Routes
      /\ work.at \in Listeners /\ work.copy \in Route
  BY DEF Report, At, Typed, Planned, HoldsWhereDeleted, Job, Programs
<1>2. ASSUME work.as = work.route
      PROVE  work' = Idle \/ (Planned(work') /\ work'.pc \notin Late)
  BY <1>1, <1>2, TurnsPlanned DEF Report, Typed
<1>3. ASSUME work.as # work.route
      PROVE  /\ Planned(work')
             /\ work'.pc = "release" /\ work'.at = work.at /\ work'.route = work.route
  <2>1. work' = Releasing(work)
    BY <1>3 DEF Report
  <2>2. work' \in Job
    BY <1>1, <2>1 DEF Releasing, Job, PCs
  <2>3. /\ work'.pc = "release" /\ work'.at = work.at /\ work'.as = work.route
        /\ work'.route = work.route /\ work'.copy = work.copy /\ work'.todo = work.todo
    BY <1>1, <2>1 DEF Releasing, Job
  <2>. QED
    BY <1>1, <1>3, <2>2, <2>3 DEF Planned, ProgramsClaimant, HoldsWhereDeleted, CleansReleased,
       Detaches, Programs, Releases, Cleans
<1>4. /\ server' \in [Routes -> Route \cup {Nil}]
      /\ \A y \in Routes : server'[y] # Nil => Sound(server'[y])
  BY <1>1, BalancerTyped, SetStatusTyped DEF Report, States
<1>5. work' = Idle \/ Planned(work')
  BY <1>2, <1>3
<1>6. Typed'
  BY <1>4, <1>5, WorkerTyped DEF Report, lbs, NoEvent, Typed, TypeOK
<1>. QED
  BY <1>2, <1>3, <1>6 DEF Busy, Idle

\* An object that is gone or has lost finalizers.
LEMMA UpdateTyped ==
  ASSUME Typed, NEW r \in Routes, NEW x \in Route, Sound(x), Update(r, x)
  PROVE  /\ server' \in [Routes -> Route \cup {Nil}]
         /\ \A y \in Routes : server'[y] # Nil => Sound(server'[y])
BY DEF Typed, TypeOK, Sound, Update

LEMMA ReleasedTyped ==
  ASSUME NEW x \in Route, Sound(x)
  PROVE  /\ [x EXCEPT !.alb = {}, !.albHeld = FALSE] \in Route
         /\ Sound([x EXCEPT !.alb = {}, !.albHeld = FALSE])
         /\ [x EXCEPT !.nlb = {}] \in Route /\ Sound([x EXCEPT !.nlb = {}])
         /\ [x EXCEPT !.nlb = {}, !.alb = {}, !.albHeld = FALSE] \in Route
         /\ Sound([x EXCEPT !.nlb = {}, !.alb = {}, !.albHeld = FALSE])
BY DEF Route, Sound

LEMMA RemoveFinalizerTyped ==
  ASSUME Typed, RemoveFinalizer
  PROVE  Typed' /\ (Busy' => work'.pc \notin Late)
<1>1. /\ Planned(work) /\ work \in Job /\ work.route \in Routes /\ work.copy \in Route
      /\ Sound(work.copy) /\ work.at \in Listeners
  BY DEF RemoveFinalizer, At, Typed, Planned, HoldsWhereDeleted, Job, Releases
<1>2. work' = Idle \/ (Planned(work') /\ work'.pc \notin Late)
  BY <1>1, TurnsPlanned DEF RemoveFinalizer, Typed
<1>3. \E x \in Route : Sound(x) /\ Update(work.route, x)
  BY <1>1, ReleasedTyped DEF RemoveFinalizer
<1>4. /\ server' \in [Routes -> Route \cup {Nil}]
      /\ \A y \in Routes : server'[y] # Nil => Sound(server'[y])
  BY <1>1, <1>3, UpdateTyped
<1>5. lost' \subseteq Listeners
  BY <1>1 DEF RemoveFinalizer, Recorded, Route, Typed, TypeOK
<1>6. Typed'
  BY <1>2, <1>4, <1>5, WorkerTyped DEF RemoveFinalizer, lbs, NoEvent, Typed, TypeOK
<1>. QED
  BY <1>2, <1>6 DEF Busy, Idle

LEMMA RemoveDetachedTyped ==
  ASSUME Typed, RemoveDetachedFinalizers
  PROVE  Typed' /\ ~Busy'
<1>1. work.route \in Routes /\ work.copy \in Route /\ Sound(work.copy)
  BY DEF RemoveDetachedFinalizers, At, Typed, Planned, Job
<1>2. \E x \in Route : Sound(x) /\ Update(work.route, x)
  BY <1>1, ReleasedTyped DEF RemoveDetachedFinalizers
<1>3. /\ server' \in [Routes -> Route \cup {Nil}]
      /\ \A y \in Routes : server'[y] # Nil => Sound(server'[y])
  BY <1>1, <1>2, UpdateTyped
<1>. QED
  BY <1>3, WorkerTyped DEF RemoveDetachedFinalizers, lbs, NoEvent, Typed, TypeOK, Busy, Idle

\* What users and the Gateways' controllers do leaves the job alone.
LEMMA OthersTyped ==
  ASSUME Typed, Users \/ Gateway \/ (\E r \in Routes : Observe(r))
  PROVE  Typed' /\ UNCHANGED <<work, targets, albSets>>
<1>1. /\ UNCHANGED <<work, targets, albSets>>
      /\ born' \subseteq Routes /\ endpoints' \subseteq Routes /\ queue' \subseteq Routes
      /\ there' \in BOOLEAN
  BY DEF Users, Gateway, Create, Attach, Delete, ChangeEndpoints, EditListener, EditGateway,
         Observe, GatewaySyncsSet, Known, users, lbs, Typed, TypeOK
<1>2. edits' \in 0..MaxEdits
  <2>1. edits' = edits \/ (edits < MaxEdits /\ edits' = edits + 1)
    BY DEF Users, Gateway, Create, Attach, Delete, ChangeEndpoints, EditListener, EditGateway,
           Observe, GatewaySyncsSet, Edit
  <2>2. edits \in 0..MaxEdits
    BY DEF Typed, TypeOK
  <2>. QED
    BY <2>1, <2>2
<1>3. lost' \subseteq Listeners
  <2>1. \A r \in Routes : server[r] # Nil => server[r].spec \subseteq Listeners
    BY DEF Typed, TypeOK, Route
  <2>. QED
    BY <2>1 DEF Users, Gateway, Create, Attach, Delete, ChangeEndpoints, EditListener, EditGateway,
         Observe, GatewaySyncsSet, Typed, TypeOK
<1>4. /\ admits' \in [Listeners -> (SUBSET Routes) \cup {Nil}]
      /\ nlbSets' \in [Listeners \ Terminating -> (SUBSET Routes) \cup {Nil}]
  <2>1. ASSUME NEW l \in Listeners, NEW p \in {Nil, {}, Routes}, EditListener(l, p)
        PROVE  admits' \in [Listeners -> (SUBSET Routes) \cup {Nil}]
    BY <2>1 DEF EditListener, Typed, TypeOK
  <2>2. ASSUME NEW l \in Listeners, GatewaySyncsSet(l)
        PROVE  nlbSets' \in [Listeners \ Terminating -> (SUBSET Routes) \cup {Nil}]
    BY <2>2 DEF GatewaySyncsSet, Typed, TypeOK
  <2>3. UNCHANGED admits \/ \E l \in Listeners, p \in {Nil, {}, Routes} : EditListener(l, p)
    BY DEF Users, Gateway, Create, Attach, Delete, ChangeEndpoints, EditGateway,
           Observe, GatewaySyncsSet, users
  <2>4. UNCHANGED nlbSets \/ \E l \in Listeners : GatewaySyncsSet(l)
    BY DEF Users, Gateway, Create, Attach, Delete, ChangeEndpoints, EditListener, EditGateway,
           Observe, lbs
  <2>. QED
    BY <2>1, <2>2, <2>3, <2>4 DEF Typed, TypeOK
<1>5. /\ server' \in [Routes -> Route \cup {Nil}]
      /\ \A y \in Routes : server'[y] # Nil => Sound(server'[y])
  <2>1. ASSUME NEW r \in Routes, NEW s \in Specs, Create(r, s)
        PROVE  /\ server' \in [Routes -> Route \cup {Nil}]
               /\ \A y \in Routes : server'[y] # Nil => Sound(server'[y])
    <3>. DEFINE x == [spec |-> s, deleting |-> FALSE, nlb |-> {}, alb |-> {}, albHeld |-> FALSE,
                      status |-> NoStatus]
    <3>1. x \in Route /\ Sound(x)
      BY DEF Route, Sound, NoStatus, States
    <3>. QED
      BY <2>1, <3>1, ServerTyped DEF Create
  <2>2. ASSUME NEW r \in Routes, NEW s \in Specs, Attach(r, s)
        PROVE  /\ server' \in [Routes -> Route \cup {Nil}]
               /\ \A y \in Routes : server'[y] # Nil => Sound(server'[y])
    <3>. DEFINE x == [server[r] EXCEPT !.spec = s, !.status = NoStatus]
    <3>1. server[r] \in Route /\ Sound(server[r])
      BY <2>2 DEF Attach, Typed, TypeOK, Sound
    <3>2. x \in Route /\ Sound(x)
      BY <3>1 DEF Route, Sound, NoStatus, States
    <3>3. server' = [server EXCEPT ![r] = x]
      BY <2>2 DEF Attach
    <3>. QED
      BY <3>2, <3>3, ServerTyped
  <2>3. ASSUME NEW r \in Routes, Delete(r)
        PROVE  /\ server' \in [Routes -> Route \cup {Nil}]
               /\ \A y \in Routes : server'[y] # Nil => Sound(server'[y])
    <3>. DEFINE x == [server[r] EXCEPT !.deleting = TRUE, !.status = NoStatus]
    <3>1. server[r] \in Route /\ Sound(server[r])
      BY <2>3 DEF Delete, Typed, TypeOK, Sound
    <3>2. x \in Route /\ Sound(x)
      BY <3>1 DEF Route, Sound, NoStatus, States
    <3>. QED
      BY <2>3, <3>2, UpdateTyped DEF Delete
  <2>4. CASE UNCHANGED server
    BY <2>4 DEF Typed, TypeOK, Sound
  <2>. QED
    BY <2>1, <2>2, <2>3, <2>4 DEF Users, Gateway, ChangeEndpoints, EditListener, EditGateway,
         Observe, GatewaySyncsSet
<1>6. cache' \in [Routes -> Route \cup {Nil}] /\ CopiesSound'
  <2>1. ASSUME NEW r \in Routes, Observe(r)
        PROVE  cache' \in [Routes -> Route \cup {Nil}] /\ CopiesSound'
    BY <2>1 DEF Observe, Typed, TypeOK, CopiesSound, Sound
  <2>2. CASE UNCHANGED cache
    BY <2>2 DEF Typed, TypeOK, CopiesSound
  <2>. QED
    BY <2>1, <2>2 DEF Users, Gateway, Create, Attach, Delete, ChangeEndpoints, EditListener,
         EditGateway, GatewaySyncsSet
<1>7. \A r \in Routes : server'[r] # Nil => (server'[r].alb # {} => server'[r].albHeld)
  BY <1>5 DEF Sound
<1>8. TypeOK'
  BY <1>1, <1>2, <1>3, <1>4, <1>5, <1>6, <1>7 DEF Typed, TypeOK, Busy, At
<1>9. Busy' => Planned(work')
  BY <1>1 DEF Typed, Busy
<1>. QED
  BY <1>1, <1>6, <1>8, <1>9 DEF Typed, Planned, ProgramsClaimant, HoldsWhereDeleted, CleansReleased,
     Detaches, Programs, Releases, Cleans

LEMMA CrashTyped ==
  ASSUME Typed, Crash
  PROVE  Typed' /\ ~Busy'
BY DEF Crash, Typed, TypeOK, CopiesSound, Sound, users, lbs, Busy, Idle, At

LEMMA NextTyped ==
  ASSUME Typed, [Next]_vars
  PROVE  Typed'
<1>1. ASSUME NEW r \in Routes, Take(r)
      PROVE  Typed'
  BY <1>1, TakeTyped
<1>2. ASSUME NEW l \in Listeners, ClearBackendSet(l) \/ DeleteListener(l)
      PROVE  Typed'
  BY <1>2, ClearBackendSetTyped, DeleteListenerTyped
<1>3. ASSUME \/ Unmatched \/ SetPending \/ SetRejected \/ ProgramRoute \/ Forget
             \/ UpdateNLBBackendSet \/ ReconcileBackendSet \/ ReconcileTLSListener
      PROVE  Typed'
  BY <1>3, UnmatchedTyped, SetPendingTyped, SetRejectedTyped, ProgramRouteTyped, ForgetTyped, SetTyped
<1>4. ASSUME DeleteBackendSet \/ SetProgrammed \/ Report \/ RemoveFinalizer \/ RemoveDetachedFinalizers
      PROVE  Typed'
  BY <1>4, DeleteBackendSetTyped, SetProgrammedTyped, ReportTyped, RemoveFinalizerTyped,
     RemoveDetachedTyped
<1>5. ASSUME Fail \/ Crash \/ Users \/ Gateway \/ (\E r \in Routes : Observe(r))
      PROVE  Typed'
  BY <1>5, IdleTyped, CrashTyped, OthersTyped
<1>6. CASE UNCHANGED vars
  BY <1>6 DEF vars, users, lbs, Typed, TypeOK, CopiesSound, Busy, At, Planned, ProgramsClaimant,
     HoldsWhereDeleted, CleansReleased, Detaches, Programs, Releases, Cleans
<1>. QED
  BY <1>1, <1>2, <1>3, <1>4, <1>5, <1>6 DEF Next, Step

\* Types; and a route is programmed only at a listener it is attached to and released only
\* where it has the finalizer, in every reachable state (tlsroute_model.go).
THEOREM TypeCorrect == Spec => []TypeOK
<1>1. Typed => TypeOK
  BY DEF Typed
<1>. QED
  BY <1>1, InitTyped, NextTyped, PTL DEF Spec

----------------------------------------------------------------------------
(* What the worker's calls have brought about at the load balancers.       *)

LEMMA EarlyEffects == (Busy => work.pc \notin Late) => Effects
BY DEF Effects, SetMade, ServesProgrammed, ListenerGone, ReleasesUnserved, At, Late

LEMMA InitEffects == Init => Effects
BY DEF Init, Effects, SetMade, ServesProgrammed, ListenerGone, ReleasesUnserved, At, Busy, Idle

\* The steps after which nothing is promised yet.
LEMMA EarlyStep ==
  ASSUME Typed, Effects,
         \/ (\E r \in Routes : Take(r)) \/ Fail \/ Crash
         \/ Unmatched \/ SetPending \/ SetRejected \/ ProgramRoute \/ Forget
         \/ RemoveFinalizer \/ RemoveDetachedFinalizers
  PROVE  Effects'
<1>1. Busy' => work'.pc \notin Late
  BY TakeTyped, IdleTyped, CrashTyped, UnmatchedTyped, SetPendingTyped, SetRejectedTyped,
     ProgramRouteTyped, ForgetTyped, RemoveFinalizerTyped, RemoveDetachedTyped
<1>. QED
  BY <1>1 DEF Effects, SetMade, ServesProgrammed, ListenerGone, ReleasesUnserved, At, Busy, Late

LEMMA SetEffects ==
  ASSUME Typed, Effects, UpdateNLBBackendSet \/ ReconcileBackendSet \/ ReconcileTLSListener
  PROVE  Effects'
<1>1. /\ Planned(work) /\ Programs(work) /\ work.at \in Listeners
      /\ work.pc = "listen" => work.at \in Terminating
  BY DEF UpdateNLBBackendSet, ReconcileBackendSet, ReconcileTLSListener, At, Typed, Planned,
         HoldsWhereDeleted, Programs
<1>2. /\ work'.at = work.at /\ work'.as = work.as /\ work'.route = work.route
      /\ work'.pc = IF ReconcileBackendSet THEN "listen" ELSE "record"
  BY <1>1, GotoPlanned DEF UpdateNLBBackendSet, ReconcileBackendSet, ReconcileTLSListener, At
<1>3. CASE UpdateNLBBackendSet
  <2>1. work'.pc = "record" /\ work.at \in Listeners \ Terminating
    BY <1>1, <1>2, <1>3 DEF UpdateNLBBackendSet, ReconcileBackendSet
  <2>2. nlbSets'[work.at] = {work.as}
    BY <2>1, <1>3 DEF UpdateNLBBackendSet, Typed, TypeOK
  <2>. QED
    BY <1>2, <2>1, <2>2 DEF Effects, SetMade, ServesProgrammed, ListenerGone, ReleasesUnserved, At
<1>4. CASE ReconcileBackendSet
  <2>. QED
    BY <1>2, <1>4 DEF ReconcileBackendSet, Effects, SetMade, ServesProgrammed, ListenerGone,
       ReleasesUnserved, At
<1>5. CASE ReconcileTLSListener
  <2>1. work'.pc = "record" /\ work.at \in Terminating
    BY <1>1, <1>2, <1>5 DEF ReconcileTLSListener, ReconcileBackendSet, At
  <2>2. targets'[work.at] = work.as
    BY <2>1, <1>5 DEF ReconcileTLSListener, Typed, TypeOK
  <2>. QED
    BY <1>2, <2>1, <2>2 DEF Effects, SetMade, ServesProgrammed, ListenerGone, ReleasesUnserved, At
<1>. QED
  BY <1>3, <1>4, <1>5

\* A clean-up before a release leaves the listener to release unserved.
LEMMA CleanEffects ==
  ASSUME Typed, Effects, NEW l \in Listeners,
         ClearBackendSet(l) \/ DeleteListener(l) \/ DeleteBackendSet
  PROVE  Effects'
<1>1. /\ Planned(work) /\ work \in Job /\ Cleans(work) /\ work.route \in Routes
      /\ work.names \subseteq Listeners
      /\ work.then = "release" => work.names = {work.at} /\ work.at \in Listeners
  BY DEF ClearBackendSet, DeleteListener, DeleteBackendSet, At, Typed, Planned, CleansReleased,
         HoldsWhereDeleted, Releases, Cleans, Job
<1>2. CASE ClearBackendSet(l)
  <2>1. work.then = "release" => l = work.at
    BY <1>1, <1>2 DEF ClearBackendSet
  <2>2. /\ work'.pc \in {"clean", "forget", "reject", "release", "detach"}
        /\ work'.pc = "release" =>
             work.then = "release" /\ work'.at = work.at /\ work'.route = work.route
    <3>1. work.then = "release" => work.names \ {l} = {}
      BY <1>1, <2>1
    <3>. QED
      BY <1>1, <1>2, <3>1, CleanedPlanned DEF ClearBackendSet
  <2>3. nlbSets'[l] \in {Nil, {}} /\ l \notin Terminating
    BY <1>2 DEF ClearBackendSet, Typed, TypeOK
  <2>. QED
    BY <2>1, <2>2, <2>3 DEF Effects, SetMade, ServesProgrammed, ListenerGone, ReleasesUnserved,
       Unserved, At
<1>3. CASE DeleteListener(l)
  <2>1. /\ work'.pc = "unset" /\ work'.then = work.then
        /\ work.then = "release" => work'.at = l
    BY <1>3, DeleteListenerTyped
  <2>2. targets'[l] = Nil
    BY <1>3 DEF DeleteListener, Typed, TypeOK
  <2>. QED
    BY <2>1, <2>2 DEF Effects, SetMade, ServesProgrammed, ListenerGone, ReleasesUnserved, At
<1>4. CASE DeleteBackendSet
  <2>1. work.then = "release" => work.cur = work.at /\ work.at \in Terminating
    BY <1>1, <1>4 DEF DeleteBackendSet, At, Planned, CleansReleased
  <2>2. /\ work'.pc \in {"clean", "forget", "reject", "release", "detach"}
        /\ work'.pc = "release" =>
             work.then = "release" /\ work'.at = work.at /\ work'.route = work.route
    <3>1. work.then = "release" => work.names \ {work.cur} = {}
      BY <1>1, <2>1
    <3>. QED
      BY <1>1, <1>4, <3>1, CleanedPlanned DEF DeleteBackendSet
  <2>3. work.then = "release" => targets'[work.at] = Nil
    BY <1>4 DEF DeleteBackendSet, Effects, ListenerGone
  <2>. QED
    BY <1>1, <2>1, <2>2, <2>3 DEF Effects, SetMade, ServesProgrammed, ListenerGone, ReleasesUnserved,
       Unserved, At
<1>. QED
  BY <1>2, <1>3, <1>4

LEMMA RecordEffects ==
  ASSUME Typed, Effects, SetProgrammed \/ Report
  PROVE  Effects'
<1>1. UNCHANGED <<nlbSets, targets, albSets>>
  BY DEF SetProgrammed, Report, lbs
<1>2. CASE SetProgrammed
  <2>1. work'.pc = "report" /\ work'.at = work.at /\ work'.as = work.as
    BY <1>2, SetProgrammedTyped
  <2>. QED
    BY <1>1, <1>2, <2>1 DEF SetProgrammed, Effects, SetMade, ServesProgrammed, ListenerGone,
       ReleasesUnserved, At, Busy
<1>3. CASE Report
  <2>1. Busy' => \/ work'.pc \notin Late
                 \/ /\ work'.pc = "release" /\ work'.at = work.at
                    /\ work'.route = work.route /\ work.as # work.route
    BY <1>3, ReportTyped
  <2>. QED
    BY <1>1, <1>3, <2>1 DEF Report, Effects, SetMade, ServesProgrammed, ListenerGone,
       ReleasesUnserved, Unserved, At, Busy, Late
<1>. QED
  BY <1>2, <1>3

LEMMA OthersEffects ==
  ASSUME Typed, Effects, Users \/ Gateway \/ (\E r \in Routes : Observe(r))
  PROVE  Effects'
<1>1. UNCHANGED <<work, targets, albSets>>
  BY OthersTyped
<1>2. \A l \in Listeners \ Terminating : nlbSets'[l] \in {nlbSets[l], {}, Nil}
  <2>1. UNCHANGED nlbSets \/ \E l \in Listeners : GatewaySyncsSet(l)
    BY DEF Users, Gateway, Create, Attach, Delete, ChangeEndpoints, EditListener, EditGateway,
           Observe, lbs
  <2>. QED
    BY <2>1 DEF GatewaySyncsSet, Typed, TypeOK
<1>3. At("record") \/ At("report") \/ At("release") => work.at \in Listeners
  BY DEF Typed, Planned, HoldsWhereDeleted, Programs, Releases, At
<1>. QED
  BY <1>1, <1>2, <1>3 DEF Effects, SetMade, ServesProgrammed, ListenerGone, ReleasesUnserved,
     Unserved, At, Busy

LEMMA NextEffects ==
  ASSUME Typed, Effects, [Next]_vars
  PROVE  Effects'
<1>1. CASE UNCHANGED vars
  BY <1>1 DEF vars, lbs, Effects, SetMade, ServesProgrammed, ListenerGone, ReleasesUnserved,
     Unserved, At, Busy
<1>2. DeleteBackendSet => work.cur \in Listeners
  BY DEF DeleteBackendSet, Typed, Planned, CleansReleased, At
<1>. QED
  BY <1>1, <1>2, EarlyStep, SetEffects, CleanEffects, RecordEffects, OthersEffects DEF Next, Step

\* A terminating listener only ever forwards to a backend set that is there: programming
\* makes it first, and no clean-up takes it away while the listener uses it.
THEOREM TargetsExistHolds == Spec => []TargetsExist
<1>1. Init => TargetsExist
  BY DEF Init, TargetsExist
<1>2. ASSUME Typed, Effects, TargetsExist, [Next]_vars
      PROVE  TargetsExist'
  <2>1. CASE ReconcileTLSListener
    <3>1. /\ work.at \in Terminating /\ <<work.as, work.at>> \in albSets
          /\ \A l \in Terminating \ {work.at} : targets'[l] = targets[l]
          /\ targets'[work.at] = work.as /\ albSets' = albSets
      BY <1>2, <2>1 DEF ReconcileTLSListener, Effects, SetMade, Typed, TypeOK, Planned, At
    <3>. QED
      BY <1>2, <3>1 DEF TargetsExist
  <2>2. CASE ReconcileBackendSet
    BY <1>2, <2>2 DEF ReconcileBackendSet, TargetsExist
  <2>3. ASSUME NEW l \in Listeners, DeleteListener(l)
        PROVE  TargetsExist'
    BY <1>2, <2>3 DEF DeleteListener, TargetsExist, Typed, TypeOK
  <2>4. CASE DeleteBackendSet
    <3>1. /\ work.cur \in Terminating /\ targets[work.cur] # work.as
          /\ targets' = targets /\ albSets' = albSets \ {<<work.as, work.cur>>}
      BY <1>2, <2>4 DEF DeleteBackendSet, Typed, Planned, CleansReleased, At
    <3>. QED
      BY <1>2, <3>1 DEF TargetsExist
  <2>5. \/ UNCHANGED <<targets, albSets>>
        \/ ReconcileTLSListener \/ ReconcileBackendSet \/ DeleteBackendSet
        \/ \E l \in Listeners : DeleteListener(l)
    BY <1>2, OthersTyped DEF Next, Step, vars, lbs, Take, Fail, Crash, Unmatched, SetPending,
       SetRejected, ProgramRoute, Forget, UpdateNLBBackendSet, ClearBackendSet, SetProgrammed,
       Report, RemoveFinalizer, RemoveDetachedFinalizers
  <2>. QED
    BY <1>2, <2>1, <2>2, <2>3, <2>4, <2>5 DEF TargetsExist
<1>. QED
  BY <1>1, <1>2, InitTyped, NextTyped, InitEffects, NextEffects, PTL DEF Spec

\* A deleted route loses a finalizer only when the listener it is released at serves it no
\* more: its successor is served there, or what it had is gone.
THEOREM ReleasedMeansUnservedHolds == Spec => ReleasedMeansUnserved
<1>1. ASSUME Typed, Effects, [Next]_vars
      PROVE  [At("release") /\ server' # server =>
                LET l == work.at IN
                IF l \in Terminating THEN targets[l] # work.route
                ELSE nlbSets[l] = Nil \/ work.route \notin nlbSets[l]]_vars
  BY <1>1 DEF Effects, ReleasesUnserved, Unserved
<1>. QED
  BY <1>1, InitTyped, NextTyped, InitEffects, NextEffects, PTL DEF Spec, ReleasedMeansUnserved

----------------------------------------------------------------------------
(* What the worker knows, and who takes care of a listener.                *)

Live(x) == x # Nil /\ ~x.deleting

\* What a job is about.
Detaching(job) == job.pc = "unmatched" \/ Detaches(job)
Sweeping(job) == job.pc = "forget" \/ (Cleans(job) /\ job.then = "forget")
Rejecting(job) == Cleans(job) /\ job.then = "reject"
Accepted(job) == Sweeping(job) \/ job.pc \in {"set", "listen", "record", "report"}

\* A copy is as the informers have the object, unless the route is queued again.
Current(q, r, x) == r \in q \/ (cache[r] # Nil /\ Watched(cache[r]) = Watched(x))

\* What is true of a job and the state, with q the routes that are queued: whatever else
\* happens, an event that makes it untrue queues the route.
Fits(q, job) ==
  /\ job.route \in born /\ job.as \in born
  /\ job.copy.deleting => ~Live(server[job.route])
  /\ Programs(job) => ~job.asCopy.deleting /\ Sound(job.asCopy)
  /\ Current(q, job.route, job.copy)
  /\ Programs(job) /\ job.pc # "report" => Current(q, job.as, job.asCopy)
  /\ Accepted(job) => \A y \in Claimants(cache, job.at) : y < job.as => y \in q
  /\ Cleans(job) /\ job.then = "release" => Claimants(cache, job.at) \ {job.route} \subseteq q
  /\ Sweeping(job) =>
       IF job.at \in Terminating THEN job.asCopy.nlb # {} ELSE job.asCopy.albHeld
  /\ Rejecting(job) => job.as \notin endpoints \/ job.as \in q

\* No listener matches a route that is detached, except those that are lost.
Detachment(job) == Detaching(job) => job.copy.spec \cap Open \subseteq lost

\* An object is deleted once, and the informers lag behind.
Ages ==
  /\ \A r \in Routes \ born : server[r] = Nil /\ cache[r] = Nil
  /\ \A r \in Routes : cache[r] # Nil /\ cache[r].deleting => ~Live(server[r])

Fitting == Ages /\ (Busy => Fits(queue, work) /\ Detachment(work))

Marks(x) == [nlb |-> x.nlb, alb |-> x.alb, held |-> x.albHeld]

Serves(r, l) == IF l \in Terminating THEN targets[l] = r ELSE nlbSets[l] = {r}
Bare(l) == IF l \in Terminating THEN targets[l] = Nil ELSE nlbSets[l] \in {Nil, {}}
RecordedAt(x, l) == IF l \in Terminating THEN x.albHeld ELSE l \in x.nlb

\* The job will still hand listener l over, or program its route there.
Departs(job, l) ==
  /\ job.copy.deleting /\ ~Detaching(job)
  /\ (l \in job.todo /\ Holds(job.copy, l)) \/ job.at = l
Pursues(job, l) ==
  /\ ~job.copy.deleting /\ ~Detaching(job)
  /\ \/ l \in job.todo
     \/ job.at = l /\ (job.pc \in {"pending", "program"} \/ Accepted(job))
     \/ Sweeping(job)

\* The route is queued, or it will be once the informers have caught up.
Noted(w) == w \in queue \/ cache[w] = Nil \/ Watched(cache[w]) # Watched(server[w])

\* A deleted route that has yet to hand listener l over.
Departing(w, l) ==
  /\ server[w] # Nil /\ server[w].deleting
  /\ l \in server[w].spec /\ Holds(server[w], l)
Leaves(w, l) ==
  Departing(w, l) /\ (Noted(w) \/ (Busy /\ work.route = w /\ Departs(work, l)))

\* ... and has not just done it.
Handed(w, l) == At("release") /\ work.at = l /\ work.route = w
Hander(l) == \E w \in Routes : Leaves(w, l) /\ ~Handed(w, l)

\* A route that claims a listener is served there, or something will see to it that it is.
Attended(r, l) ==
  \/ r \in queue
  \/ Marks(cache[r]) # Marks(server[r])
  \/ Busy /\ work.route = r /\ Pursues(work, l)
  \/ Hander(l)
  \/ \E x \in Claimants(server, l) : x < r
  \/ r \in Claimants(server, l) /\ Serves(r, l) /\ RecordedAt(server[r], l)

Cared(l) ==
  /\ \A r \in Claimants(cache, l) :
       Live(server[r]) /\ r \in admits[l] \cap endpoints => Attended(r, l)
  /\ Bare(l) \/ Claimants(server, l) # {} \/ Hander(l)

Covered == \A l \in Open \ lost : Cared(l)

\* The listener to record is served to a route that claims it, or did and will hand it over.
Heir ==
  At("record") \/ At("report") =>
    LET l == work.at IN
    \/ l \in lost \/ l \notin Open
    \/ /\ Serves(work.as, l)
       /\ work.as \in Claimants(server, l) \/ (Departing(work.as, l) /\ Noted(work.as))

Marked == At("report") /\ server[work.as] # Nil => RecordedAt(server[work.as], work.at)

----------------------------------------------------------------------------
(* What a write of an object leaves true.                                  *)

\* The object is as it was, or its record has changed and the informers will queue it; one
\* that is deleted keeps what it has to hand over.
Grown(w) ==
  \/ server[w] = Nil /\ server'[w] = Nil
  \/ /\ server[w] # Nil /\ server'[w] # Nil
     /\ server'[w].spec = server[w].spec /\ server'[w].deleting = server[w].deleting
     /\ \/ Marks(server'[w]) = Marks(server[w])
        \/ /\ w \in queue \/ cache[w] = Nil \/ Marks(cache[w]) # Marks(server'[w])
           /\ server[w].deleting => \A l \in Listeners : Holds(server[w], l) => Holds(server'[w], l)

LEMMA RouteTypes ==
  ASSUME Typed, NEW r \in Routes
  PROVE  /\ r \in Nat /\ r # Nil
         /\ server[r] # Nil => server[r] \in Route /\ server[r].spec \subseteq Listeners
         /\ cache[r] # Nil => cache[r] \in Route /\ cache[r].spec \subseteq Listeners
BY DEF Typed, TypeOK, Route

LEMMA JobTypes ==
  ASSUME Typed, Busy
  PROVE  /\ work \in Job /\ Planned(work)
         /\ work.route \in Routes /\ work.as \in Routes
         /\ work.copy \in Route /\ work.asCopy \in Route
         /\ work.todo \subseteq work.copy.spec /\ work.names \subseteq Listeners
         /\ work.at \in Listeners \cup {Nil} /\ work.cur \in Listeners \cup {Nil}
         /\ work.copy.spec \subseteq Listeners
BY DEF Typed, Planned, Job, Route

\* The watch predicate sees the spec, the deletion and the record.
LEMMA WatchedSays ==
  ASSUME NEW x, NEW y
  PROVE  Watched(x) = Watched(y) <=>
           x.spec = y.spec /\ x.deleting = y.deleting /\ Marks(x) = Marks(y)
BY DEF Watched, Marks

LEMMA MarksSay ==
  ASSUME NEW x, NEW y
  PROVE  Marks(x) = Marks(y) <=> x.nlb = y.nlb /\ x.alb = y.alb /\ x.albHeld = y.albHeld
BY DEF Marks

LEMMA SameHolds ==
  ASSUME NEW x, NEW y, Marks(x) = Marks(y), NEW l
  PROVE  /\ Holds(x, l) <=> Holds(y, l)
         /\ RecordedAt(x, l) <=> RecordedAt(y, l)
BY MarksSay DEF Holds, RecordedAt

LEMMA GrownClaims ==
  ASSUME \A w \in Routes : Grown(w), NEW l
  PROVE  /\ Claimants(server, l)' = Claimants(server, l)
         /\ \A r \in Routes : Live(server[r])' <=> Live(server[r])
BY DEF Grown, Claimants, Live

LEMMA NotedStays ==
  ASSUME UNCHANGED cache, queue \subseteq queue', NEW w \in Routes, Grown(w),
         server[w] # Nil, Noted(w)
  PROVE  Noted(w)'
<1>1. CASE w \in queue \/ cache[w] = Nil
  BY <1>1 DEF Noted
<1>2. CASE Watched(cache[w]) # Watched(server[w]) /\ w \notin queue /\ cache[w] # Nil
  <2>1. Watched(cache[w]) # Watched(server'[w])
    BY <1>2, WatchedSays DEF Grown
  <2>. QED
    BY <2>1 DEF Noted
<1>. QED
  BY <1>1, <1>2 DEF Noted

LEMMA DepartingStays ==
  ASSUME NEW w \in Routes, Grown(w), NEW l \in Listeners, Departing(w, l)
  PROVE  Departing(w, l)'
<1>1. CASE Marks(server'[w]) = Marks(server[w])
  BY <1>1, SameHolds DEF Grown, Departing
<1>2. CASE Marks(server'[w]) # Marks(server[w])
  <2>1. Holds(server'[w], l)
    BY <1>2 DEF Grown, Departing
  <2>. QED
    BY <2>1 DEF Grown, Departing
<1>. QED
  BY <1>1, <1>2

\* A deleted route stays the one that hands a listener over while it is queued, the
\* informers lag behind, or its job goes on.
LEMMA HanderStays ==
  ASSUME UNCHANGED cache, queue \subseteq queue', \A w \in Routes : Grown(w),
         NEW l \in Listeners, Hander(l),
         Busy /\ Departs(work, l) /\ ~At("release") =>
           \/ work.route \in queue'
           \/ Busy' /\ work'.route = work.route /\ Departs(work', l),
         Busy /\ At("release") /\ work.at # l /\ Departs(work, l) =>
           \/ work.route \in queue'
           \/ Busy' /\ work'.route = work.route /\ Departs(work', l),
         ~(At("release")' /\ work'.at = l)
  PROVE  Hander(l)'
<1>1. PICK w \in Routes : Leaves(w, l) /\ ~Handed(w, l)
  BY DEF Hander
<1>2. Departing(w, l)' /\ server[w] # Nil
  BY <1>1, DepartingStays DEF Leaves, Departing
<1>3. ~Handed(w, l)'
  BY DEF Handed
<1>4. CASE Noted(w)
  <2>1. Noted(w)'
    BY <1>2, <1>4, NotedStays
  <2>. QED
    BY <1>2, <1>3, <2>1 DEF Hander, Leaves
<1>5. CASE Busy /\ work.route = w /\ Departs(work, l)
  <2>1. ~(At("release") /\ work.at = l)
    BY <1>1, <1>5 DEF Handed
  <2>2. w \in queue' \/ (Busy' /\ work'.route = w /\ Departs(work', l))
    BY <1>5, <2>1 DEF At
  <2>3. Departs(work, l)' <=> Departs(work', l)
    BY DEF Departs, Detaching, Detaches, Cleans, Holds
  <2>. QED
    BY <1>2, <1>3, <2>2, <2>3 DEF Hander, Leaves, Noted
<1>. QED
  BY <1>1, <1>4, <1>5 DEF Leaves

LEMMA AttendedStays ==
  ASSUME Typed, UNCHANGED cache, queue \subseteq queue', \A w \in Routes : Grown(w),
         NEW l \in Listeners, NEW r \in Claimants(cache, l), Live(server[r]), Attended(r, l),
         Hander(l) => Hander(l)',
         Busy /\ work.route = r /\ Pursues(work, l) => Attended(r, l)',
         r \in Claimants(server, l) /\ Serves(r, l) => Serves(r, l)' \/ Attended(r, l)'
  PROVE  Attended(r, l)'
<1>1. r \in Routes /\ cache[r] # Nil /\ Grown(r) /\ server[r] # Nil /\ server'[r] # Nil
  BY DEF Claimants, Grown, Live
<1>2. Claimants(server, l)' = Claimants(server, l)
  BY GrownClaims
<1>3. CASE r \in queue \/ Hander(l) \/ (\E x \in Claimants(server, l) : x < r)
  BY <1>2, <1>3 DEF Attended
<1>4. CASE Marks(cache[r]) # Marks(server[r])
  <2>1. r \in queue \/ Marks(cache[r]) # Marks(server'[r])
    BY <1>1, <1>4 DEF Grown
  <2>. QED
    BY <2>1 DEF Attended, Marks
<1>5. CASE Busy /\ work.route = r /\ Pursues(work, l)
  BY <1>5
<1>6. CASE r \in Claimants(server, l) /\ Serves(r, l) /\ RecordedAt(server[r], l)
  <2>1. CASE Marks(server'[r]) = Marks(server[r])
    <3>1. RecordedAt(server'[r], l)
      BY <1>6, <2>1, SameHolds
    <3>2. RecordedAt(server[r], l)'
      BY <3>1 DEF RecordedAt
    <3>. QED
      BY <1>2, <1>6, <3>2 DEF Attended
  <2>2. CASE Marks(server'[r]) # Marks(server[r])
    <3>1. r \in queue \/ Marks(cache[r]) # Marks(server'[r])
      BY <1>1, <2>2 DEF Grown
    <3>. QED
      BY <3>1 DEF Attended, Marks
  <2>. QED
    BY <2>1, <2>2
<1>. QED
  BY <1>3, <1>4, <1>5, <1>6 DEF Attended

LEMMA CaredStays ==
  ASSUME Typed, UNCHANGED <<cache, endpoints>>, queue \subseteq queue',
         \A w \in Routes : Grown(w),
         NEW l \in Listeners, admits'[l] = admits[l], Cared(l),
         Hander(l) => Hander(l)',
         \A r \in Claimants(cache, l) :
           Live(server[r]) /\ r \in admits[l] \cap endpoints =>
             /\ Busy /\ work.route = r /\ Pursues(work, l) => Attended(r, l)'
             /\ r \in Claimants(server, l) /\ Serves(r, l) => Serves(r, l)' \/ Attended(r, l)',
         Bare(l) => Bare(l)' \/ Claimants(server, l) # {} \/ Hander(l)'
  PROVE  Cared(l)'
<1>1. /\ Claimants(server, l)' = Claimants(server, l)
      /\ \A r \in Routes : Live(server[r])' <=> Live(server[r])
      /\ Claimants(cache, l)' = Claimants(cache, l)
  BY GrownClaims DEF Claimants
<1>2. ASSUME NEW r \in Claimants(cache, l), Live(server[r]), r \in admits[l] \cap endpoints
      PROVE  Attended(r, l)'
  <2>1. Attended(r, l)
    BY <1>2 DEF Cared
  <2>. QED
    BY <1>2, <2>1, AttendedStays
<1>3. \A r \in Claimants(cache, l) : r \in Routes
  BY DEF Claimants
<1>. QED
  BY <1>1, <1>2, <1>3 DEF Cared

----------------------------------------------------------------------------
(* What the steps of the worker do to its job.                             *)

SameErrand(job, new) ==
  /\ new.route = job.route /\ new.copy = job.copy /\ new.todo = job.todo
  /\ new.at = job.at /\ new.as = job.as

\* The next listener of a request, or its end.
LEMMA TurnsSay ==
  ASSUME NEW job, Planned(job), NEW new \in Turns(job), new # Idle
  PROVE  /\ new.route = job.route /\ new.copy = job.copy
         /\ new.at \in job.todo /\ new.todo = job.todo \ {new.at}
         /\ job.copy.deleting => Holds(job.copy, new.at)
         /\ ~job.copy.deleting =>
              new.pc = "pending" /\ new.as = job.route /\ new.asCopy = job.copy
         /\ job.copy.deleting /\ Successors(job.route, new.at) # {} =>
              new.pc = "program" /\ new.as = Min(Successors(job.route, new.at))
                                 /\ new.asCopy = cache[new.as]
         /\ job.copy.deleting /\ Successors(job.route, new.at) = {} =>
              new.pc = "clean" /\ new.then = "release" /\ new.as = job.route
                               /\ new.names = {new.at}
<1>1. job \in Job
  BY DEF Planned
<1>2. PICK l \in job.todo : new = Reconciled(job, l) /\ (job.copy.deleting => Holds(job.copy, l))
  BY DEF Turns
<1>. DEFINE on == [job EXCEPT !.todo = @ \ {l}, !.at = l, !.as = job.route, !.asCopy = job.copy]
            next == Min(Successors(job.route, l))
<1>3. /\ on.at = l /\ on.as = job.route /\ on.asCopy = job.copy
      /\ on.copy = job.copy /\ on.todo = job.todo \ {l} /\ on.route = job.route
  BY <1>1 DEF Job
<1>4. on \in Job
  <2>1. l \in Listeners
    BY <1>1 DEF Job
  <2>. QED
    BY <1>1, <2>1 DEF Job
<1>. HIDE DEF on
<1>5. CASE ~job.copy.deleting
  <2>1. new = [on EXCEPT !.pc = "pending"]
    BY <1>2, <1>5 DEF Reconciled, on
  <2>2. /\ new.pc = "pending" /\ new.at = l /\ new.as = job.route /\ new.asCopy = job.copy
        /\ new.copy = job.copy /\ new.todo = job.todo \ {l} /\ new.route = job.route
    BY <1>3, <1>4, <2>1 DEF Job
  <2>. QED
    BY <1>2, <1>5, <2>2
<1>6. CASE job.copy.deleting /\ Successors(job.route, l) # {}
  <2>1. new = [on EXCEPT !.pc = "program", !.as = next, !.asCopy = cache[next]]
    BY <1>2, <1>6 DEF Reconciled, on
  <2>. HIDE DEF next
  <2>2. /\ new.pc = "program" /\ new.at = l /\ new.as = next /\ new.asCopy = cache[next]
        /\ new.copy = job.copy /\ new.todo = job.todo \ {l} /\ new.route = job.route
    BY <1>3, <1>4, <2>1 DEF Job
  <2>. QED
    BY <1>2, <1>6, <2>2 DEF next
<1>7. CASE job.copy.deleting /\ Successors(job.route, l) = {}
  <2>1. new = [on EXCEPT !.pc = "clean", !.names = {l}, !.then = "release"]
    BY <1>2, <1>7 DEF Reconciled, on
  <2>2. /\ new.pc = "clean" /\ new.at = l /\ new.as = job.route /\ new.asCopy = job.copy
        /\ new.then = "release" /\ new.names = {l}
        /\ new.copy = job.copy /\ new.todo = job.todo \ {l} /\ new.route = job.route
    BY <1>3, <1>4, <2>1 DEF Job
  <2>. QED
    BY <1>2, <1>7, <2>2
<1>. QED
  BY <1>5, <1>6, <1>7

\* A live route's job goes on to every listener it has to do, a deleted one's to those of
\* which it has the finalizer.
LEMMA TurnsReach ==
  ASSUME Typed, NEW job, Planned(job), NEW l \in job.todo, NEW new \in Turns(job),
         job.copy.deleting => Holds(job.copy, l)
  PROVE  /\ new # Idle /\ new.route = job.route
         /\ job.copy.deleting => Departs(new, l)
         /\ ~job.copy.deleting => Pursues(new, l)
<1>1. new # Idle
  <2>1. job.todo # {} /\ {x \in job.todo : job.copy.deleting => Holds(job.copy, x)} # {}
    OBVIOUS
  <2>2. PICK x \in job.todo : /\ new = Reconciled(job, x)
                              /\ job.copy.deleting => Holds(job.copy, x)
    BY <2>1 DEF Turns
  <2>3. new \in Job
    BY <2>2, ReconciledPlanned DEF Planned, Typed
  <2>. QED
    BY <2>3, NilAssumption DEF Idle
<1>. QED
  BY <1>1, TurnsSay DEF Departs, Pursues, Detaching, Detaches, Cleans

\* A job for the next listener knows what it should.
LEMMA TurnsFit ==
  ASSUME Typed, Ages, NEW q, NEW job, Planned(job), job.route \in born,
         job.copy.deleting => ~Live(server[job.route]), Current(q, job.route, job.copy),
         NEW new \in Turns(job), new # Idle
  PROVE  Fits(q, new) /\ ~Detaching(new)
<1>. DEFINE l == new.at
            next == Min(Successors(job.route, l))
<1>1. /\ new.route = job.route /\ new.copy = job.copy
      /\ ~job.copy.deleting =>
           new.pc = "pending" /\ new.as = job.route /\ new.asCopy = job.copy
      /\ job.copy.deleting /\ Successors(job.route, l) # {} =>
           new.pc = "program" /\ new.as = next /\ new.asCopy = cache[new.as]
      /\ job.copy.deleting /\ Successors(job.route, l) = {} =>
           new.pc = "clean" /\ new.then = "release" /\ new.as = job.route
  BY TurnsSay
<1>2. CASE ~job.copy.deleting
  <2>1. Sound(job.copy)
    BY DEF Planned
  <2>. QED
    BY <1>1, <1>2, <2>1
       DEF Fits, Detaching, Detaches, Cleans, Programs, Accepted, Sweeping, Rejecting
<1>3. CASE job.copy.deleting /\ Successors(job.route, l) # {}
  <2>1. next \in Successors(job.route, l)
    <3>1. Successors(job.route, l) \subseteq Nat
      BY DEF Successors, Claimants
    <3>. QED
      BY <1>3, <3>1, LeastExists
  <2>2. /\ new.as \in Routes /\ cache[new.as] # Nil /\ ~new.asCopy.deleting
        /\ new.asCopy = cache[new.as] /\ Sound(new.asCopy)
    BY <1>1, <1>3, <2>1 DEF Successors, Claimants, Typed, CopiesSound
  <2>3. new.as \in born
    BY <2>2 DEF Ages
  <2>4. Current(q, new.as, new.asCopy)
    BY <2>2 DEF Current
  <2>. QED
    BY <1>1, <1>3, <2>2, <2>3, <2>4
       DEF Fits, Detaching, Detaches, Cleans, Programs, Accepted, Sweeping, Rejecting
<1>4. CASE job.copy.deleting /\ Successors(job.route, l) = {}
  <2>1. Claimants(cache, new.at) \ {new.route} = {}
    BY <1>1, <1>4 DEF Successors
  <2>. QED
    BY <1>1, <1>4, <2>1
       DEF Fits, Detaching, Detaches, Cleans, Programs, Accepted, Sweeping, Rejecting
<1>. QED
  BY <1>2, <1>3, <1>4

\* A job that goes on with the same route and listener.
LEMMA FitsOn ==
  ASSUME NEW q, NEW job, Fits(q, job), NEW new, SameErrand(job, new), new.asCopy = job.asCopy,
         Programs(new) => Programs(job) /\ (job.pc = "report" => new.pc = "report"),
         Accepted(new) => \/ Accepted(job)
                          \/ \A y \in Claimants(cache, job.at) : y < job.as => y \in q,
         Cleans(new) /\ new.then = "release" => Cleans(job) /\ job.then = "release",
         Sweeping(new) =>
           \/ Sweeping(job)
           \/ IF job.at \in Terminating THEN job.asCopy.nlb # {} ELSE job.asCopy.albHeld,
         Rejecting(new) => Rejecting(job) \/ job.as \notin endpoints \/ job.as \in q
  PROVE  Fits(q, new)
BY DEF Fits, SameErrand

\* Backend references resolve, or the route is rejected.
LEMMA ResolveSays ==
  ASSUME NEW job \in Job
  PROVE  LET new == ResolveBackends(job) IN
         /\ SameErrand(job, new) /\ new.asCopy = job.asCopy
         /\ \/ new.pc = "set" /\ job.as \in endpoints
            \/ new.pc = "reject" /\ job.as \notin endpoints
            \/ /\ new.pc = "clean" /\ new.then = "reject" /\ new.names = {job.at}
               /\ job.as \notin endpoints /\ job.at \notin Terminating
BY DEF ResolveBackends, SameErrand, Job

LEMMA SweepSays ==
  ASSUME NEW job \in Job, Sound(job.asCopy)
  PROVE  LET new == Sweep(job) IN
         \/ new = ResolveBackends(job)
         \/ /\ SameErrand(job, new) /\ new.asCopy = job.asCopy
            /\ IF job.at \in Terminating THEN job.asCopy.nlb # {} ELSE job.asCopy.albHeld
            /\ \/ new.pc = "forget"
               \/ new.pc = "clean" /\ new.then = "forget"
<1>. DEFINE x == job.asCopy
            new == Sweep(job)
<1>1. CASE job.at \in Terminating /\ x.nlb # {}
  <2>1. new = [job EXCEPT !.pc = "clean", !.names = x.nlb, !.then = "forget"]
    BY <1>1 DEF Sweep
  <2>. QED
    BY <1>1, <2>1 DEF SameErrand, Job
<1>2. CASE job.at \notin Terminating /\ x.alb # {} /\ there
  <2>1. new = [job EXCEPT !.pc = "clean", !.names = x.alb, !.then = "forget"]
    BY <1>2 DEF Sweep
  <2>. QED
    BY <1>2, <2>1 DEF SameErrand, Job, Sound
<1>3. CASE job.at \notin Terminating /\ x.alb = {} /\ x.albHeld
  <2>1. new = [job EXCEPT !.pc = "forget"]
    BY <1>3 DEF Sweep
  <2>. QED
    BY <1>3, <2>1 DEF SameErrand, Job
<1>. QED
  BY <1>1, <1>2, <1>3 DEF Sweep

\* The writes of a status change nothing else of an object.
Restated ==
  \A w \in Routes :
    \/ server[w] = Nil /\ server'[w] = Nil
    \/ /\ server[w] # Nil /\ server'[w] # Nil
       /\ server'[w].spec = server[w].spec /\ server'[w].deleting = server[w].deleting
       /\ Marks(server'[w]) = Marks(server[w])

LEMMA RestatedGrown == Restated => \A w \in Routes : Grown(w)
BY DEF Restated, Grown

LEMMA UnwrittenRestated == ASSUME UNCHANGED server PROVE Restated
BY DEF Restated

LEMMA StatusRestates ==
  ASSUME Typed, NEW r \in Routes, server[r] # Nil, NEW status \in [Balancers -> States],
         server' = [server EXCEPT ![r] = [server[r] EXCEPT !.status = status]]
  PROVE  Restated
<1>1. server[r] \in Route /\ server \in [Routes -> Route \cup {Nil}]
  BY DEF Typed, TypeOK
<1>. DEFINE x == [server[r] EXCEPT !.status = status]
<1>2. /\ x.spec = server[r].spec /\ x.deleting = server[r].deleting /\ x.nlb = server[r].nlb
      /\ x.alb = server[r].alb /\ x.albHeld = server[r].albHeld
  BY <1>1 DEF Route
<1>3. server'[r] = x /\ \A w \in Routes \ {r} : server'[w] = server[w]
  BY <1>1
<1>4. x \in Route
  BY <1>1 DEF Route
<1>5. server'[r] # Nil
  BY <1>3, <1>4, NilAssumption
<1>. HIDE DEF x
<1>. QED
  BY <1>2, <1>3, <1>5, MarksSay DEF Restated

----------------------------------------------------------------------------
(* The worker's steps, part by part.                                       *)

LEMMA SetStatusRestates ==
  ASSUME Typed, NEW r \in Routes, NEW copy, NEW b \in Balancers, NEW status \in States,
         SetStatus(r, copy, b, status)
  PROVE  Restated /\ server[r] # Nil
<1>1. server[r] # Nil
  BY DEF SetStatus, Fresh, Retried
<1>2. server[r].status \in [Balancers -> States]
  BY <1>1 DEF Typed, TypeOK, Route
<1>. DEFINE statuses == [server[r].status EXCEPT ![b] = status]
<1>3. statuses \in [Balancers -> States]
  BY <1>2
<1>4. server' = [server EXCEPT ![r] = [server[r] EXCEPT !.status = statuses]]
  BY DEF SetStatus
<1>. HIDE DEF statuses
<1>. QED
  BY <1>1, <1>3, <1>4, StatusRestates

\* The job after a step with the same route and listener.
OnErrand(pc) ==
  /\ Busy /\ Busy' /\ work'.pc = pc
  /\ SameErrand(work, work') /\ work'.asCopy = work.asCopy

LEMMA GotoErrand ==
  ASSUME Typed, Busy, NEW pc \in PCs, Goto(pc)
  PROVE  OnErrand(pc)
<1>1. work \in Job
  BY JobTypes
<1>2. work' \in Job /\ work'.pc = pc
  BY <1>1 DEF Goto, Job
<1>3. SameErrand(work, work') /\ work'.asCopy = work.asCopy
  BY <1>1 DEF Goto, Job, SameErrand
<1>. QED
  BY <1>2, <1>3, NilAssumption DEF OnErrand, Busy, Idle

LEMMA UnmatchedParts ==
  ASSUME Typed, Unmatched
  PROVE  /\ Typed' /\ Busy /\ work.pc = "unmatched" /\ Restated
         /\ UNCHANGED <<lbs, lost>> /\ NoEvent
         /\ work' = Idle \/ (OnErrand("clean") /\ work'.then = "detach")
<1>. DEFINE r == work.route
            statuses(parents) ==
              [b \in Balancers |-> IF b \in parents THEN "rejected" ELSE server[r].status[b]]
<1>1. Typed' /\ Busy /\ work.pc = "unmatched" /\ UNCHANGED <<lbs, lost>> /\ NoEvent
  BY UnmatchedTyped DEF Unmatched, At
<1>2. work \in Job /\ r \in Routes /\ Planned(work)
  BY <1>1, JobTypes
<1>3. Restated
  <2>1. CASE UNCHANGED server
    BY <2>1, UnwrittenRestated
  <2>2. CASE ~UNCHANGED server
    <3>1. server[r] # Nil /\ server[r] \in Route
      BY <1>2, <2>2 DEF Unmatched, Fresh, Retried, Typed, TypeOK
    <3>2. PICK parents \in SUBSET Balancers :
            server' = [server EXCEPT ![r].status = statuses(parents)]
      <4>1. {BalancerOf(l) : l \in {l \in work.copy.spec : l \in Terminating => there}}
              \in SUBSET Balancers
        BY BalancerTyped
      <4>. QED
        BY <2>2, <4>1 DEF Unmatched
    <3>3. statuses(parents) \in [Balancers -> States]
      BY <3>1 DEF Route, States
    <3>4. server' = [server EXCEPT ![r] = [server[r] EXCEPT !.status = statuses(parents)]]
      BY <3>2
    <3>. HIDE DEF statuses
    <3>. QED
      BY <1>2, <3>1, <3>3, <3>4, StatusRestates
  <2>. QED
    BY <2>1, <2>2
<1>4. work.then = "detach"
  BY <1>1, <1>2 DEF Planned
<1>5. work' = Idle \/ (OnErrand("clean") /\ work'.then = "detach")
  <2>0. work.copy.nlb \subseteq Listeners /\ work.copy.alb \subseteq Listeners
    BY <1>1, JobTypes DEF Route
  <2>1. SUFFICES ASSUME NEW names \in SUBSET Listeners,
                        work' = [work EXCEPT !.pc = "clean", !.names = names]
                 PROVE  OnErrand("clean") /\ work'.then = "detach"
    BY <2>0 DEF Unmatched, Detached, DetachedLoadBalancerRoute
  <2>2. /\ work'.pc = "clean" /\ SameErrand(work, work') /\ work'.asCopy = work.asCopy
        /\ work'.then = "detach"
    BY <1>2, <1>4, <2>1 DEF SameErrand, Job
  <2>3. work' \in Job
    BY <1>2, <2>1 DEF Job, PCs
  <2>. QED
    BY <1>1, <2>2, <2>3, NilAssumption DEF OnErrand, Busy, Idle
<1>. QED
  BY <1>1, <1>3, <1>5

LEMMA SetPendingParts ==
  ASSUME Typed, SetPending
  PROVE  /\ Typed' /\ Busy /\ work.pc = "pending" /\ Restated
         /\ UNCHANGED <<lbs, lost>> /\ NoEvent /\ OnErrand("program")
<1>1. Typed' /\ Busy /\ work.pc = "pending" /\ UNCHANGED <<lbs, lost>> /\ NoEvent
  BY SetPendingTyped DEF SetPending, At
<1>2. OnErrand("program")
  BY <1>1, GotoErrand DEF SetPending, PCs
<1>3. Restated
  <2>1. work.route \in Routes
    BY <1>1, JobTypes
  <2>. QED
    BY <2>1, BalancerTyped, SetStatusRestates DEF SetPending, States
<1>. QED
  BY <1>1, <1>2, <1>3

LEMMA SetRejectedParts ==
  ASSUME Typed, SetRejected
  PROVE  /\ Typed' /\ Busy /\ work.pc = "reject" /\ work.as = work.route /\ Restated
         /\ UNCHANGED <<lbs, lost>> /\ NoEvent /\ work' \in Turns(work)
<1>1. /\ Typed' /\ Busy /\ work.pc = "reject" /\ work.as = work.route
      /\ UNCHANGED <<lbs, lost>> /\ NoEvent /\ work' \in Turns(work)
  BY SetRejectedTyped DEF SetRejected, At
<1>2. Restated
  <2>1. work.route \in Routes
    BY <1>1, JobTypes
  <2>. QED
    BY <2>1, BalancerTyped, SetStatusRestates DEF SetRejected, States
<1>. QED
  BY <1>1, <1>2

\* The route is programmed, or the job goes on to reject it.
Resolving ==
  /\ Busy' /\ SameErrand(work, work') /\ work'.asCopy = work.asCopy
  /\ \/ work'.pc = "set" /\ work.as \in endpoints
     \/ work'.pc = "reject" /\ work.as \notin endpoints
     \/ /\ work'.pc = "clean" /\ work'.then = "reject" /\ work'.names = {work.at}
        /\ work.as \notin endpoints

Swept ==
  /\ Busy' /\ SameErrand(work, work') /\ work'.asCopy = work.asCopy /\ Sweeping(work')
  /\ work'.pc \in {"forget", "clean"}
  /\ IF work.at \in Terminating THEN work.asCopy.nlb # {} ELSE work.asCopy.albHeld

LEMMA Resolves ==
  ASSUME Typed, Busy, Programs(work), work' = ResolveBackends(work)
  PROVE  Resolving
<1>1. work \in Job /\ Planned(work)
  BY JobTypes
<1>2. work' \in Job
  BY <1>1, ResolveBackendsPlanned DEF Planned
<1>. QED
  BY <1>1, <1>2, ResolveSays, NilAssumption DEF Resolving, Busy, Idle

LEMMA ProgramRouteParts ==
  ASSUME Typed, Fitting, ProgramRoute
  PROVE  /\ Typed' /\ Busy /\ work.pc = "program" /\ UNCHANGED <<server, lbs>> /\ NoEvent
         /\ lost \subseteq lost'
         /\ \/ MayOwn(work.as, work.at) /\ (Resolving \/ Swept)
            \/ /\ OnErrand("reject")
               /\ \/ admits[work.at] = Nil \/ work.as \notin admits[work.at]
                  \/ ~MayOwn(work.as, work.at) /\ (Ghosts(work.at) # {} => work.at \in lost')
<1>1. Typed' /\ Busy /\ work.pc = "program" /\ UNCHANGED <<server, lbs>> /\ NoEvent
  BY ProgramRouteTyped DEF ProgramRoute, At
<1>2. work \in Job /\ Planned(work) /\ Programs(work)
  BY <1>1, JobTypes DEF Programs
<1>3. lost \subseteq lost'
  BY DEF ProgramRoute
<1>4. CASE admits[work.at] # Nil /\ work.as \in admits[work.at] /\ MayOwn(work.as, work.at)
  <2>1. work' = Sweep(work)
    BY <1>4 DEF ProgramRoute
  <2>2. work' \in Job
    BY <1>2, <2>1, SweepPlanned DEF Planned
  <2>3. CASE work' = ResolveBackends(work)
    BY <1>1, <1>2, <1>3, <1>4, <2>3, Resolves
  <2>4. CASE work' # ResolveBackends(work)
    <3>1. Sound(work.asCopy)
      BY <1>1, <1>2 DEF Fitting, Fits
    <3>2. \/ Sweep(work).pc = "forget"
          \/ Sweep(work).pc = "clean" /\ Sweep(work).then = "forget"
      BY <1>2, <2>1, <2>4, <3>1, SweepSays
    <3>3. Sweeping(work') /\ work'.pc \in {"forget", "clean"}
      BY <2>1, <3>2 DEF Sweeping, Cleans
    <3>. QED
      BY <1>1, <1>2, <1>3, <1>4, <2>1, <2>2, <2>4, <3>1, <3>3, SweepSays, NilAssumption
         DEF Swept, Busy, Idle
  <2>. QED
    BY <2>3, <2>4
<1>5. CASE ~(admits[work.at] # Nil /\ work.as \in admits[work.at] /\ MayOwn(work.as, work.at))
  <2>1. work' = [work EXCEPT !.pc = "reject"]
    BY <1>5 DEF ProgramRoute
  <2>2. OnErrand("reject")
    BY <1>1, <2>1, GotoErrand DEF Goto, PCs
  <2>3. ~MayOwn(work.as, work.at) /\ admits[work.at] # Nil /\ work.as \in admits[work.at]
        /\ Ghosts(work.at) # {} => work.at \in lost'
    BY DEF ProgramRoute
  <2>. QED
    BY <1>1, <1>3, <1>5, <2>2, <2>3
<1>. QED
  BY <1>4, <1>5

LEMMA ForgetParts ==
  ASSUME Typed, Forget
  PROVE  /\ Typed' /\ Busy /\ work.pc = "forget" /\ UNCHANGED <<lbs, lost>> /\ NoEvent /\ Resolving
         /\ server[work.as] = work.asCopy /\ server[work.as] # Nil /\ server'[work.as] # Nil
         /\ \A w \in Routes \ {work.as} : server'[w] = server[w]
         /\ server'[work.as].spec = server[work.as].spec
         /\ server'[work.as].deleting = server[work.as].deleting
         /\ IF work.at \in Terminating
            THEN server'[work.as].nlb = {} ELSE ~server'[work.as].albHeld
<1>1. Typed' /\ Busy /\ work.pc = "forget" /\ UNCHANGED <<lbs, lost>> /\ NoEvent
  BY ForgetTyped DEF Forget, At
<1>2. Resolving
  BY <1>1, Resolves DEF Forget, Programs
<1>3. server[work.as] = work.asCopy /\ server[work.as] # Nil /\ work.as \in Routes
  BY <1>1, JobTypes DEF Forget, Fresh
<1>4. server[work.as] \in Route /\ server \in [Routes -> Route \cup {Nil}]
  BY <1>3 DEF Typed, TypeOK
<1>. DEFINE x == server[work.as]
            y == IF work.at \in Terminating THEN [x EXCEPT !.nlb = {}]
                 ELSE [x EXCEPT !.alb = {}, !.albHeld = FALSE]
<1>5. server' = [server EXCEPT ![work.as] = y]
  BY DEF Forget, BalancerOf
<1>6. /\ y \in Route /\ y.spec = x.spec /\ y.deleting = x.deleting
      /\ IF work.at \in Terminating THEN y.nlb = {} ELSE ~y.albHeld
  BY <1>4 DEF Route
<1>. HIDE DEF x, y
<1>7. server'[work.as] = y /\ \A w \in Routes \ {work.as} : server'[w] = server[w]
  BY <1>3, <1>4, <1>5
<1>. QED
  BY <1>1, <1>2, <1>3, <1>6, <1>7, NilAssumption DEF x

LEMMA UpdateParts ==
  ASSUME Typed, UpdateNLBBackendSet
  PROVE  /\ Typed' /\ Busy /\ work.pc = "set" /\ work.at \in Listeners \ Terminating
         /\ OnErrand("record") /\ NoEvent /\ UNCHANGED <<server, targets>>
         /\ nlbSets'[work.at] = {work.as}
         /\ \A l \in Listeners \ Terminating : l # work.at => nlbSets'[l] = nlbSets[l]
         /\ lost \subseteq lost'
         /\ work.at \in lost' \/ ~Outsider(work.as, work.at)
<1>1. /\ Typed' /\ Busy /\ work.pc = "set" /\ NoEvent /\ UNCHANGED <<server, targets>>
      /\ lost \subseteq lost' /\ (work.at \in lost' \/ ~Outsider(work.as, work.at))
  BY SetTyped DEF UpdateNLBBackendSet, At
<1>2. OnErrand("record")
  BY <1>1, GotoErrand DEF UpdateNLBBackendSet, PCs
<1>3. work.at \in Listeners \ Terminating
  BY <1>1, JobTypes DEF UpdateNLBBackendSet, Planned, HoldsWhereDeleted, Programs
<1>4. /\ nlbSets'[work.at] = {work.as}
      /\ \A l \in Listeners \ Terminating : l # work.at => nlbSets'[l] = nlbSets[l]
  BY <1>3 DEF UpdateNLBBackendSet, Typed, TypeOK
<1>. QED
  BY <1>1, <1>2, <1>3, <1>4

LEMMA MakeParts ==
  ASSUME Typed, ReconcileBackendSet
  PROVE  /\ Typed' /\ Busy /\ work.pc = "set"
         /\ OnErrand("listen") /\ NoEvent /\ UNCHANGED <<server, targets, nlbSets, lost>>
<1>1. Typed' /\ Busy /\ work.pc = "set" /\ NoEvent /\ UNCHANGED <<server, targets, nlbSets, lost>>
  BY SetTyped DEF ReconcileBackendSet, At
<1>. QED
  BY <1>1, GotoErrand DEF ReconcileBackendSet, PCs

LEMMA ListenParts ==
  ASSUME Typed, ReconcileTLSListener
  PROVE  /\ Typed' /\ Busy /\ work.pc = "listen" /\ work.at \in Terminating
         /\ OnErrand("record") /\ NoEvent /\ UNCHANGED <<server, nlbSets>>
         /\ targets'[work.at] = work.as
         /\ \A l \in Terminating : l # work.at => targets'[l] = targets[l]
         /\ lost \subseteq lost'
         /\ work.at \in lost' \/ ~Outsider(work.as, work.at)
<1>1. /\ Typed' /\ Busy /\ work.pc = "listen" /\ NoEvent /\ UNCHANGED <<server, nlbSets>>
      /\ lost \subseteq lost' /\ (work.at \in lost' \/ ~Outsider(work.as, work.at))
  BY SetTyped DEF ReconcileTLSListener, At
<1>2. OnErrand("record")
  BY <1>1, GotoErrand DEF ReconcileTLSListener, PCs
<1>3. work.at \in Terminating
  BY <1>1, JobTypes DEF Planned
<1>4. /\ targets'[work.at] = work.as
      /\ \A l \in Terminating : l # work.at => targets'[l] = targets[l]
  BY <1>3 DEF ReconcileTLSListener, Typed, TypeOK
<1>. QED
  BY <1>1, <1>2, <1>3, <1>4

\* The clean-up of a name, and the way on.
Cleaning ==
  /\ Busy' /\ SameErrand(work, work') /\ work'.asCopy = work.asCopy /\ work'.then = work.then
  /\ work'.pc \in {"clean", work.then}

LEMMA CleanedOn ==
  ASSUME Typed, Busy, NEW names \in SUBSET Listeners, work' = Cleaned(names)
  PROVE  Cleaning
<1>1. work \in Job
  BY JobTypes
<1>2. work' \in Job
  BY <1>1 DEF Cleaned, Job, PCs
<1>3. /\ SameErrand(work, work') /\ work'.asCopy = work.asCopy /\ work'.then = work.then
      /\ work'.pc \in {"clean", work.then}
  BY <1>1 DEF Cleaned, Job, SameErrand
<1>. QED
  BY <1>2, <1>3, NilAssumption DEF Cleaning, Busy, Idle

LEMMA ClearParts ==
  ASSUME Typed, NEW l \in Listeners, ClearBackendSet(l)
  PROVE  /\ Typed' /\ Busy /\ work.pc = "clean" /\ l \in work.names \ Terminating
         /\ Cleaning /\ NoEvent /\ UNCHANGED <<server, targets>>
         /\ nlbSets'[l] \in {Nil, {}}
         /\ \A m \in Listeners \ Terminating : m # l => nlbSets'[m] = nlbSets[m]
         /\ lost \subseteq lost'
         /\ nlbSets[l] # Nil /\ ServedToAnother(l) => l \in lost'
<1>1. /\ Typed' /\ Busy /\ work.pc = "clean" /\ l \in work.names \ Terminating
      /\ NoEvent /\ UNCHANGED <<server, targets>>
      /\ lost \subseteq lost' /\ (nlbSets[l] # Nil /\ ServedToAnother(l) => l \in lost')
  BY ClearBackendSetTyped DEF ClearBackendSet, At
<1>2. Cleaning
  BY <1>1, JobTypes, CleanedOn DEF ClearBackendSet
<1>3. /\ nlbSets'[l] \in {Nil, {}}
      /\ \A m \in Listeners \ Terminating : m # l => nlbSets'[m] = nlbSets[m]
  BY <1>1 DEF ClearBackendSet, Typed, TypeOK
<1>. QED
  BY <1>1, <1>2, <1>3

LEMMA UnlistenParts ==
  ASSUME Typed, NEW l \in Listeners, DeleteListener(l)
  PROVE  /\ Typed' /\ Busy /\ work.pc = "clean" /\ l \in work.names \cap Terminating
         /\ OnErrand("unset") /\ work'.then = work.then /\ work'.names = work.names
         /\ NoEvent /\ UNCHANGED <<server, nlbSets>>
         /\ targets'[l] = Nil
         /\ \A m \in Terminating : m # l => targets'[m] = targets[m]
         /\ lost \subseteq lost'
         /\ ServedToAnother(l) => l \in lost'
<1>1. /\ Typed' /\ Busy /\ work.pc = "clean" /\ l \in work.names \cap Terminating
      /\ NoEvent /\ UNCHANGED <<server, nlbSets>>
      /\ lost \subseteq lost' /\ (ServedToAnother(l) => l \in lost')
  BY DeleteListenerTyped DEF DeleteListener, At
<1>2. work \in Job
  BY <1>1, JobTypes
<1>3. work' \in Job
  BY <1>2 DEF DeleteListener, Job, PCs
<1>4. OnErrand("unset") /\ work'.then = work.then /\ work'.names = work.names
  BY <1>1, <1>2, <1>3, NilAssumption DEF DeleteListener, Job, OnErrand, SameErrand, Busy, Idle
<1>5. /\ targets'[l] = Nil
      /\ \A m \in Terminating : m # l => targets'[m] = targets[m]
  BY <1>1 DEF DeleteListener, Typed, TypeOK
<1>. QED
  BY <1>1, <1>4, <1>5

LEMMA DropParts ==
  ASSUME Typed, DeleteBackendSet
  PROVE  /\ Typed' /\ Busy /\ work.pc = "unset"
         /\ Cleaning /\ NoEvent /\ UNCHANGED <<server, targets, nlbSets, lost>>
<1>1. /\ Typed' /\ Busy /\ work.pc = "unset"
      /\ NoEvent /\ UNCHANGED <<server, targets, nlbSets, lost>>
  BY DeleteBackendSetTyped DEF DeleteBackendSet, At
<1>. QED
  BY <1>1, JobTypes, CleanedOn DEF DeleteBackendSet

LEMMA RecordParts ==
  ASSUME Typed, SetProgrammed
  PROVE  /\ Typed' /\ Busy /\ work.pc = "record" /\ work.at \in Listeners
         /\ UNCHANGED <<lbs, lost>> /\ NoEvent
         /\ Busy' /\ SameErrand(work, work') /\ work'.pc = "report"
         /\ \A w \in Routes \ {work.as} : server'[w] = server[w]
         /\ server[work.as] # Nil /\ server'[work.as] # Nil
         /\ server'[work.as].spec = server[work.as].spec
         /\ server'[work.as].deleting = server[work.as].deleting
         /\ RecordedAt(server'[work.as], work.at)
         /\ \/ server[work.as] = work.asCopy /\ work'.asCopy = server'[work.as]
            \/ /\ server[work.as] = cache[work.as] /\ work'.asCopy = work.asCopy
               /\ \A l \in Listeners :
                    Holds(server[work.as], l) => Holds(server'[work.as], l)
<1>1. /\ Typed' /\ Busy /\ work.pc = "record" /\ UNCHANGED <<lbs, lost>> /\ NoEvent
  BY SetProgrammedTyped DEF SetProgrammed, At
<1>2. /\ work \in Job /\ work.as \in Routes /\ work.asCopy \in Route /\ work.at \in Listeners
  BY <1>1, JobTypes DEF Planned, HoldsWhereDeleted, Programs
<1>3. server \in [Routes -> Route \cup {Nil}]
  BY DEF Typed, TypeOK
<1>. DEFINE onCopy == RecordOnCopy(work.asCopy, work.at)
            onLatest == RecordOnLatest(server[work.as], work.at)
<1>4. CASE /\ Fresh(work.as, work.asCopy)
           /\ server' = [server EXCEPT ![work.as] = onCopy]
           /\ work' = [work EXCEPT !.pc = "report", !.asCopy = onCopy]
  <2>1. /\ onCopy \in Route /\ onCopy.spec = work.asCopy.spec
        /\ onCopy.deleting = work.asCopy.deleting
        /\ RecordedAt(onCopy, work.at)
    BY <1>2 DEF RecordOnCopy, RecordedAt, Route
  <2>2. server[work.as] # Nil /\ server[work.as] = work.asCopy
    BY <1>4 DEF Fresh
  <2>. HIDE DEF onCopy
  <2>3. server'[work.as] = onCopy /\ \A w \in Routes \ {work.as} : server'[w] = server[w]
    BY <1>2, <1>3, <1>4
  <2>4. /\ work' \in Job /\ SameErrand(work, work') /\ work'.pc = "report"
        /\ work'.asCopy = onCopy
    BY <1>2, <1>4, <2>1 DEF Job, PCs, SameErrand
  <2>. QED
    BY <1>1, <1>2, <2>1, <2>2, <2>3, <2>4, NilAssumption DEF Busy, Idle
<1>5. CASE /\ Retried(work.as, work.asCopy)
           /\ server' = [server EXCEPT ![work.as] = onLatest]
           /\ Goto("report")
  <2>1. server[work.as] # Nil /\ server[work.as] = cache[work.as] /\ server[work.as] \in Route
    BY <1>2, <1>3, <1>5 DEF Retried
  <2>2. /\ onLatest \in Route /\ onLatest.spec = server[work.as].spec
        /\ onLatest.deleting = server[work.as].deleting
        /\ RecordedAt(onLatest, work.at)
        /\ \A l \in Listeners : Holds(server[work.as], l) => Holds(onLatest, l)
    BY ZenonT(40), <1>2, <2>1 DEF RecordOnLatest, RecordedAt, Holds, Route
  <2>3. OnErrand("report")
    BY <1>1, <1>5, GotoErrand DEF PCs
  <2>. HIDE DEF onLatest
  <2>4. server'[work.as] = onLatest /\ \A w \in Routes \ {work.as} : server'[w] = server[w]
    BY <1>2, <1>3, <1>5
  <2>. QED
    BY <1>1, <1>2, <2>1, <2>2, <2>3, <2>4, NilAssumption DEF OnErrand
<1>. QED
  BY <1>4, <1>5 DEF SetProgrammed

LEMMA ReportParts ==
  ASSUME Typed, Report
  PROVE  /\ Typed' /\ Busy /\ work.pc = "report" /\ work.at \in Listeners
         /\ UNCHANGED lbs /\ NoEvent /\ Restated /\ server[work.as] # Nil
         /\ \/ work.as = work.route /\ work' \in Turns(work)
            \/ /\ work.as # work.route /\ Busy' /\ work'.pc = "release"
               /\ work'.route = work.route /\ work'.as = work.route /\ work'.at = work.at
               /\ work'.copy = work.copy /\ work'.todo = work.todo
         /\ \/ lost' = lost
            \/ /\ lost' = lost \ {work.at}
               /\ Owner(work.at) = work.as /\ Served(work.as, work.at)
<1>1. /\ Typed' /\ Busy /\ work.pc = "report" /\ UNCHANGED lbs /\ NoEvent
      /\ \/ lost' = lost
         \/ lost' = lost \ {work.at} /\ Owner(work.at) = work.as /\ Served(work.as, work.at)
  BY ReportTyped DEF Report, At
<1>2. /\ work \in Job /\ work.as \in Routes /\ work.at \in Listeners /\ work.copy \in Route
  BY <1>1, JobTypes DEF Planned, HoldsWhereDeleted, Programs
<1>3. Restated /\ server[work.as] # Nil
  BY <1>2, BalancerTyped, SetStatusRestates DEF Report, States
<1>4. CASE work.as # work.route
  <2>1. work' = Releasing(work)
    BY <1>4 DEF Report
  <2>2. work' \in Job
    BY <1>2, <2>1 DEF Releasing, Job, PCs
  <2>3. /\ work'.pc = "release" /\ work'.at = work.at /\ work'.as = work.route
        /\ work'.route = work.route /\ work'.copy = work.copy /\ work'.todo = work.todo
    BY <1>2, <2>1 DEF Releasing, Job
  <2>. QED
    BY <1>1, <1>2, <1>3, <1>4, <2>2, <2>3, NilAssumption DEF Busy, Idle
<1>5. CASE work.as = work.route
  BY <1>1, <1>2, <1>3, <1>5 DEF Report
<1>. QED
  BY <1>4, <1>5

\* A route loses finalizers, and goes if it is deleted and they were the last.
LEMMA RemoveFinalizerParts ==
  ASSUME Typed, RemoveFinalizer
  PROVE  /\ Typed' /\ Busy /\ work.pc = "release" /\ work.copy.deleting
         /\ UNCHANGED lbs /\ NoEvent /\ work' \in Turns(work)
         /\ server[work.route] # Nil /\ server[work.route] = work.copy
         /\ \A w \in Routes \ {work.route} : server'[w] = server[w]
         /\ server'[work.route] # Nil =>
              /\ server'[work.route].deleting
              /\ ~Holds(server'[work.route], work.at)
         /\ work.copy.spec \ {work.at} \subseteq lost' /\ lost \subseteq lost'
<1>1. /\ Typed' /\ Busy /\ work.pc = "release" /\ UNCHANGED lbs /\ NoEvent
      /\ work' \in Turns(work)
      /\ work.copy.spec \ {work.at} \subseteq lost' /\ lost \subseteq lost'
  BY RemoveFinalizerTyped DEF RemoveFinalizer, At
<1>2. /\ work.route \in Routes /\ work.copy \in Route /\ work.copy.deleting
  BY <1>1, JobTypes DEF Planned, HoldsWhereDeleted, Releases
<1>3. server[work.route] # Nil /\ server[work.route] = work.copy
  BY DEF RemoveFinalizer, Fresh
<1>. DEFINE x == IF work.at \in Terminating THEN [work.copy EXCEPT !.alb = {}, !.albHeld = FALSE]
                 ELSE [work.copy EXCEPT !.nlb = {}]
<1>4. Update(work.route, x)
  BY DEF RemoveFinalizer
<1>5. x.deleting /\ ~Holds(x, work.at)
  BY <1>2 DEF Holds, Route
<1>. HIDE DEF x
<1>6. /\ server'[work.route] \in {x, Nil}
      /\ \A w \in Routes \ {work.route} : server'[w] = server[w]
  BY <1>2, <1>4 DEF Update, Typed, TypeOK
<1>. QED
  BY <1>1, <1>2, <1>3, <1>5, <1>6

LEMMA RemoveDetachedParts ==
  ASSUME Typed, RemoveDetachedFinalizers
  PROVE  /\ Typed' /\ Busy /\ work.pc = "detach"
         /\ UNCHANGED <<lbs, lost>> /\ NoEvent /\ work' = Idle
         /\ server[work.route] # Nil /\ server[work.route] = work.copy
         /\ \A w \in Routes \ {work.route} : server'[w] = server[w]
         /\ \/ server'[work.route] = Nil /\ server[work.route].deleting
            \/ /\ server'[work.route] # Nil
               /\ server'[work.route].spec = server[work.route].spec
               /\ server'[work.route].deleting = server[work.route].deleting
               /\ Marks(server'[work.route]) # Marks(server[work.route])
<1>1. /\ Typed' /\ Busy /\ work.pc = "detach" /\ UNCHANGED <<lbs, lost>> /\ NoEvent
      /\ work' = Idle
  BY RemoveDetachedTyped DEF RemoveDetachedFinalizers, At
<1>2. /\ work.route \in Routes /\ work.copy \in Route /\ Finalized(work.copy)
  BY <1>1, JobTypes DEF Planned, Detaches
<1>3. server[work.route] # Nil /\ server[work.route] = work.copy
  BY DEF RemoveDetachedFinalizers, Fresh
<1>. DEFINE x == [work.copy EXCEPT !.nlb = {}, !.alb = {}, !.albHeld = FALSE]
<1>4. Update(work.route, x)
  BY DEF RemoveDetachedFinalizers
<1>5. /\ x \in Route /\ x.spec = work.copy.spec /\ x.deleting = work.copy.deleting
      /\ Marks(x) # Marks(work.copy)
  <2>1. /\ x \in Route /\ x.spec = work.copy.spec /\ x.deleting = work.copy.deleting
        /\ x.nlb = {} /\ x.albHeld = FALSE
    BY <1>2 DEF Route
  <2>2. x.nlb # work.copy.nlb \/ x.albHeld # work.copy.albHeld
    BY <1>2, <2>1 DEF Finalized, Route
  <2>. HIDE DEF x
  <2>. QED
    BY <2>1, <2>2, MarksSay
<1>6. /\ server'[work.route] = (IF x.deleting /\ ~Finalized(x) THEN Nil ELSE x)
      /\ \A w \in Routes \ {work.route} : server'[w] = server[w]
  BY <1>2, <1>4 DEF Update, Typed, TypeOK
<1>. HIDE DEF x
<1>. QED
  BY <1>1, <1>2, <1>3, <1>5, <1>6, NilAssumption

----------------------------------------------------------------------------
(* What a job knows stays true, or its route is queued.                    *)

\* The informers and the users leave alone what a job knows.
LEMMA FitsStays ==
  ASSUME UNCHANGED <<cache, born, endpoints>>, NEW q, NEW job, job.route \in Routes,
         \A w \in Routes : Live(server'[w]) => Live(server[w]),
         Fits(q, job)
  PROVE  Fits(q, job)'
<1>1. Current(q, job.route, job.copy)' <=> Current(q, job.route, job.copy)
  BY DEF Current, Watched
<1>2. Current(q, job.as, job.asCopy)' <=> Current(q, job.as, job.asCopy)
  BY DEF Current, Watched
<1>3. Claimants(cache, job.at)' = Claimants(cache, job.at)
  BY DEF Claimants
<1>4. Live(server[job.route])' => Live(server[job.route])
  BY DEF Live
<1>. QED
  BY <1>1, <1>2, <1>3, <1>4
     DEF Fits, Programs, Accepted, Sweeping, Rejecting, Cleans, Sound

LEMMA FittingWorker ==
  ASSUME Typed', Fitting, NoEvent,
         \A w \in Routes : /\ server'[w] # Nil => server[w] # Nil
                           /\ Live(server'[w]) => Live(server[w]),
         Busy' => /\ Fits(queue, work')
                  /\ Detaching(work') => work'.copy.spec \cap Open \subseteq lost'
  PROVE  Fitting'
<1>1. Ages'
  BY DEF Fitting, Ages, NoEvent, Live
<1>2. ASSUME Busy'
      PROVE  Fits(queue, work)'
  <2>1. PICK job : job = work'
    OBVIOUS
  <2>2. PICK q : q = queue
    OBVIOUS
  <2>3. job.route \in Routes
    BY <1>2, <2>1 DEF Typed, Planned, Job
  <2>4. Fits(q, job)'
    BY <1>2, <2>1, <2>2, <2>3, FitsStays DEF NoEvent, users
  <2>5. q = queue'
    BY <2>2 DEF NoEvent
  <2>. QED
    BY <2>1, <2>4, <2>5
       DEF Fits, Programs, Accepted, Sweeping, Rejecting, Cleans, Sound, Current
<1>3. Busy' => Detachment(work)'
  BY DEF Detachment, Detaching, Detaches, Cleans, Open, NoEvent, users
<1>. QED
  BY <1>1, <1>2, <1>3 DEF Fitting

LEMMA RestatedLive ==
  ASSUME Restated
  PROVE  \A w \in Routes : /\ server'[w] # Nil => server[w] # Nil
                           /\ Live(server'[w]) => Live(server[w])
BY DEF Restated, Live

LEMMA TurnsFitting ==
  ASSUME Typed, Typed', Fitting, Busy, NoEvent, work' \in Turns(work),
         \A w \in Routes : /\ server'[w] # Nil => server[w] # Nil
                           /\ Live(server'[w]) => Live(server[w])
  PROVE  Fitting'
<1>1. Planned(work)
  BY JobTypes
<1>2. /\ work.route \in born /\ (work.copy.deleting => ~Live(server[work.route]))
      /\ Current(queue, work.route, work.copy) /\ Ages
  BY DEF Fitting, Fits
<1>3. Busy' => Fits(queue, work') /\ ~Detaching(work')
  BY <1>1, <1>2, TurnsFit DEF Busy
<1>. QED
  BY <1>3, FittingWorker

\* The steps of programming before anything is written.
LEMMA ProgramFitting ==
  ASSUME Typed, Fitting, SetPending \/ SetRejected \/ ProgramRoute \/ Forget
  PROVE  Fitting'
<1>1. CASE SetPending
  <2>1. /\ Typed' /\ Busy /\ work.pc = "pending" /\ Restated /\ NoEvent /\ OnErrand("program")
    BY <1>1, SetPendingParts
  <2>2. Fits(queue, work') /\ ~Detaching(work')
    BY <2>1, FitsOn DEF Fitting, OnErrand, Programs, Accepted, Sweeping, Rejecting, Cleans,
       Detaching, Detaches
  <2>. QED
    BY <2>1, <2>2, RestatedLive, FittingWorker
<1>2. CASE SetRejected
  BY <1>2, SetRejectedParts, RestatedLive, TurnsFitting
<1>3. CASE ProgramRoute
  <2>1. /\ Typed' /\ Busy /\ work.pc = "program" /\ UNCHANGED server /\ NoEvent
        /\ \/ MayOwn(work.as, work.at) /\ (Resolving \/ Swept)
           \/ OnErrand("reject")
    BY <1>3, ProgramRouteParts
  <2>2. work.at \in Listeners /\ work.as \in Routes
    BY <2>1, JobTypes DEF Planned, HoldsWhereDeleted, Programs
  <2>3. MayOwn(work.as, work.at) =>
          \A y \in Claimants(cache, work.at) : y < work.as => y \in queue
    <3>1. \A y \in Claimants(cache, work.at) : y \in Nat
      BY DEF Claimants
    <3>2. work.as \in Nat
      BY <2>2
    <3>3. MayOwn(work.as, work.at) => \A y \in Claimants(cache, work.at) : work.as <= y
      BY DEF MayOwn
    <3>. QED
      BY <3>1, <3>2, <3>3
  <2>4. Fits(queue, work)
    BY <2>1 DEF Fitting
  <2>5. CASE MayOwn(work.as, work.at) /\ Resolving
    <3>1. Fits(queue, work') /\ ~Detaching(work')
      BY <2>1, <2>3, <2>4, <2>5, FitsOn DEF Resolving, Programs, Accepted, Sweeping, Rejecting,
         Cleans, Detaching, Detaches
    <3>. QED
      BY <2>1, <3>1, RestatedLive, UnwrittenRestated, FittingWorker
  <2>6. CASE MayOwn(work.as, work.at) /\ Swept
    <3>1. Fits(queue, work') /\ ~Detaching(work')
      BY <2>1, <2>3, <2>4, <2>6, FitsOn DEF Swept, Programs, Accepted, Sweeping, Rejecting,
         Cleans, Detaching, Detaches
    <3>. QED
      BY <2>1, <3>1, RestatedLive, UnwrittenRestated, FittingWorker
  <2>7. CASE OnErrand("reject")
    <3>1. Fits(queue, work') /\ ~Detaching(work')
      BY <2>1, <2>4, <2>7, FitsOn DEF OnErrand, Programs, Accepted, Sweeping, Rejecting,
         Cleans, Detaching, Detaches
    <3>. QED
      BY <2>1, <3>1, RestatedLive, UnwrittenRestated, FittingWorker
  <2>. QED
    BY <2>1, <2>5, <2>6, <2>7
<1>4. CASE Forget
  <2>1. /\ Typed' /\ Busy /\ work.pc = "forget" /\ NoEvent /\ Resolving
        /\ server[work.as] # Nil /\ server'[work.as] # Nil
        /\ \A w \in Routes \ {work.as} : server'[w] = server[w]
        /\ server'[work.as].deleting = server[work.as].deleting
    BY <1>4, ForgetParts
  <2>2. Fits(queue, work') /\ ~Detaching(work')
    BY <2>1, FitsOn DEF Fitting, Resolving, Programs, Accepted, Sweeping, Rejecting,
       Cleans, Detaching, Detaches
  <2>3. \A w \in Routes : /\ server'[w] # Nil => server[w] # Nil
                          /\ Live(server'[w]) => Live(server[w])
    BY <2>1 DEF Live
  <2>. QED
    BY <2>1, <2>2, <2>3, FittingWorker
<1>. QED
  BY <1>1, <1>2, <1>3, <1>4

\* The writes at the load balancers, and the end of a clean-up.
LEMMA WritesFitting ==
  ASSUME Typed, Fitting,
         \/ Unmatched \/ UpdateNLBBackendSet \/ ReconcileBackendSet \/ ReconcileTLSListener
         \/ (\E l \in Listeners : ClearBackendSet(l) \/ DeleteListener(l)) \/ DeleteBackendSet
  PROVE  Fitting'
<1>1. CASE Unmatched
  <2>1. /\ Typed' /\ Busy /\ work.pc = "unmatched" /\ Restated /\ NoEvent /\ UNCHANGED lost
        /\ work' = Idle \/ (OnErrand("clean") /\ work'.then = "detach")
    BY <1>1, UnmatchedParts
  <2>2. ASSUME Busy'
        PROVE  Fits(queue, work') /\ work'.copy.spec \cap Open \subseteq lost'
    <3>1. OnErrand("clean") /\ work'.then = "detach"
      BY <2>1, <2>2 DEF Busy
    <3>2. Fits(queue, work')
      BY <2>1, <3>1, FitsOn DEF Fitting, OnErrand, Programs, Accepted, Sweeping, Rejecting, Cleans
    <3>3. work.copy.spec \cap Open \subseteq lost
      BY <2>1 DEF Fitting, Detachment, Detaching
    <3>. QED
      BY <2>1, <3>1, <3>2, <3>3 DEF OnErrand, SameErrand
  <2>. QED
    BY <2>1, <2>2, RestatedLive, FittingWorker
<1>2. CASE UpdateNLBBackendSet \/ ReconcileBackendSet \/ ReconcileTLSListener
  <2>1. /\ Typed' /\ Busy /\ NoEvent /\ UNCHANGED server /\ work.pc \in {"set", "listen"}
        /\ OnErrand("record") \/ OnErrand("listen")
    BY <1>2, UpdateParts, MakeParts, ListenParts
  <2>2. Fits(queue, work') /\ ~Detaching(work')
    BY <2>1, FitsOn DEF Fitting, OnErrand, Programs, Accepted, Sweeping, Rejecting, Cleans,
       Detaching, Detaches
  <2>. QED
    BY <2>1, <2>2, RestatedLive, UnwrittenRestated, FittingWorker
<1>3. CASE \/ (\E l \in Listeners : ClearBackendSet(l) \/ DeleteListener(l))
           \/ DeleteBackendSet
  <2>1. /\ Typed' /\ Busy /\ NoEvent /\ UNCHANGED server /\ lost \subseteq lost'
        /\ Busy' /\ SameErrand(work, work') /\ work'.asCopy = work.asCopy
        /\ work'.then = work.then /\ work'.pc \in {"clean", "unset", work.then}
        /\ work.pc \in {"clean", "unset"}
    BY <1>3, ClearParts, UnlistenParts, DropParts DEF OnErrand, Cleaning
  <2>2. work.then \in {"forget", "reject", "release", "detach"}
    BY <2>1, JobTypes DEF Job
  <2>3. Fits(queue, work') /\ (Detaching(work') => Detaching(work))
    BY <2>1, <2>2, FitsOn DEF Fitting, Programs, Accepted, Sweeping, Rejecting, Cleans,
       Detaching, Detaches
  <2>4. Detaching(work') => work'.copy.spec \cap Open \subseteq lost'
    BY <2>1, <2>3 DEF Fitting, Detachment, SameErrand
  <2>. QED
    BY <2>1, <2>3, <2>4, RestatedLive, UnwrittenRestated, FittingWorker
<1>. QED
  BY <1>1, <1>2, <1>3

\* A route is recorded, reported or released.
LEMMA RecordFitting ==
  ASSUME Typed, Fitting,
         SetProgrammed \/ Report \/ RemoveFinalizer \/ RemoveDetachedFinalizers
  PROVE  Fitting'
<1>1. CASE SetProgrammed
  <2>1. /\ Typed' /\ Busy /\ work.pc = "record" /\ NoEvent /\ Busy' /\ work'.pc = "report"
        /\ SameErrand(work, work')
        /\ \A w \in Routes \ {work.as} : server'[w] = server[w]
        /\ server[work.as] # Nil /\ server'[work.as] # Nil
        /\ server'[work.as].deleting = server[work.as].deleting
        /\ \/ server[work.as] = work.asCopy /\ work'.asCopy = server'[work.as]
           \/ work'.asCopy = work.asCopy
    BY <1>1, RecordParts
  <2>2. Fits(queue, work) /\ work.as \in Routes
    BY <2>1, JobTypes DEF Fitting
  <2>3. ~work'.asCopy.deleting /\ Sound(work'.asCopy)
    <3>1. ~work.asCopy.deleting /\ Sound(work.asCopy)
      BY <2>1, <2>2 DEF Fits, Programs
    <3>2. Sound(server'[work.as])
      BY <2>1, <2>2 DEF Typed, TypeOK, Sound
    <3>. QED
      BY <2>1, <3>1, <3>2
  <2>4. Fits(queue, work') /\ ~Detaching(work')
    <3>1. work'.route = work.route /\ work'.copy = work.copy /\ work'.at = work.at
          /\ work'.as = work.as
      BY <2>1 DEF SameErrand
    <3>. QED
      BY <2>1, <2>2, <2>3, <3>1 DEF Fits, Programs, Accepted, Sweeping, Rejecting, Cleans,
         Detaching, Detaches
  <2>5. \A w \in Routes : /\ server'[w] # Nil => server[w] # Nil
                          /\ Live(server'[w]) => Live(server[w])
    BY <2>1 DEF Live
  <2>. QED
    BY <2>1, <2>4, <2>5, FittingWorker
<1>2. CASE Report
  <2>1. /\ Typed' /\ Busy /\ work.pc = "report" /\ NoEvent /\ Restated
        /\ \/ work' \in Turns(work)
           \/ /\ Busy' /\ work'.pc = "release"
              /\ work'.route = work.route /\ work'.as = work.route /\ work'.at = work.at
              /\ work'.copy = work.copy /\ work'.todo = work.todo
    BY <1>2, ReportParts
  <2>2. CASE work' \in Turns(work)
    BY <2>1, <2>2, RestatedLive, TurnsFitting
  <2>3. CASE work' \notin Turns(work)
    <3>1. Fits(queue, work') /\ ~Detaching(work')
      BY <2>1, <2>3 DEF Fitting, Fits, Programs, Accepted, Sweeping, Rejecting, Cleans,
         Detaching, Detaches
    <3>. QED
      BY <2>1, <3>1, RestatedLive, FittingWorker
  <2>. QED
    BY <2>2, <2>3
<1>3. CASE RemoveFinalizer
  <2>1. /\ Typed' /\ Busy /\ NoEvent /\ work' \in Turns(work)
        /\ server[work.route] # Nil
        /\ \A w \in Routes \ {work.route} : server'[w] = server[w]
        /\ server'[work.route] # Nil => server'[work.route].deleting
    BY <1>3, RemoveFinalizerParts
  <2>2. \A w \in Routes : /\ server'[w] # Nil => server[w] # Nil
                          /\ Live(server'[w]) => Live(server[w])
    BY <2>1 DEF Live
  <2>. QED
    BY <2>1, <2>2, TurnsFitting
<1>4. CASE RemoveDetachedFinalizers
  <2>1. /\ Typed' /\ NoEvent /\ work' = Idle /\ server[work.route] # Nil
        /\ \A w \in Routes \ {work.route} : server'[w] = server[w]
        /\ server'[work.route] # Nil =>
             server'[work.route].deleting = server[work.route].deleting
    BY <1>4, RemoveDetachedParts
  <2>2. \A w \in Routes : /\ server'[w] # Nil => server[w] # Nil
                          /\ Live(server'[w]) => Live(server[w])
    BY <2>1 DEF Live
  <2>. QED
    BY <2>1, <2>2, FittingWorker DEF Busy
<1>. QED
  BY <1>1, <1>2, <1>3, <1>4

\* A new request is about the route as the informers have it.
LEMMA TakeFitting ==
  ASSUME Typed, Fitting, NEW r \in Routes, Take(r)
  PROVE  Fitting'
<1>. DEFINE q == queue \ {r}
            new == NewJob(r)
<1>1. /\ Typed' /\ q = queue' /\ Ages
      /\ UNCHANGED <<server, cache, born, endpoints, admits, there, lost>>
  BY TakeTyped DEF Take, NoServerWrite, users, Fitting
<1>2. Ages'
  BY <1>1 DEF Ages, Live
<1>3. ASSUME Busy'
      PROVE  Fits(q, work') /\ (Detaching(work') => work'.copy.spec \cap Open = {})
  <2>1. cache[r] # Nil /\ work' \in (IF new.todo = {} THEN {new} ELSE Turns(new)) /\ work' # Idle
    BY <1>3 DEF Take, Busy
  <2>2. /\ new.route = r /\ new.copy = cache[r] /\ new.as = r /\ new.pc = "unmatched"
        /\ new.todo = cache[r].spec \cap Open
    BY DEF NewJob
  <2>3. Planned(new)
    BY <2>1, NewJobPlanned DEF Typed
  <2>. HIDE DEF new
  <2>4. new.route \in born /\ (new.copy.deleting => ~Live(server[new.route]))
        /\ Current(q, new.route, new.copy)
    BY <1>1, <2>1, <2>2 DEF Ages, Current
  <2>5. CASE new.todo = {}
    <3>1. work' = new
      BY <2>1, <2>5
    <3>. QED
      BY <2>2, <2>4, <2>5, <3>1 DEF Fits, Programs, Accepted, Sweeping, Rejecting, Cleans
  <2>6. CASE new.todo # {}
    <3>. HIDE DEF q
    <3>. QED
      BY <1>1, <2>1, <2>3, <2>4, <2>6, TurnsFit
  <2>. QED
    BY <2>5, <2>6
<1>. HIDE DEF new
<1>4. ASSUME Busy'
      PROVE  Fits(queue, work)' /\ Detachment(work)'
  <2>1. PICK job : job = work'
    OBVIOUS
  <2>2. PICK p : p = queue \ {r}
    OBVIOUS
  <2>3. job.route \in Routes /\ \A w \in Routes : Live(server'[w]) => Live(server[w])
    BY <1>1, <1>4, <2>1 DEF Typed, Planned, Job
  <2>4. Fits(p, job)
    BY <1>3, <1>4, <2>1, <2>2
  <2>5. Fits(p, job)'
    BY <1>1, <2>3, <2>4, FitsStays
  <2>6. p = queue'
    BY <1>1, <2>2
  <2>7. Detachment(work)'
    <3>1. Open' = Open
      BY <1>1 DEF Open
    <3>. QED
      BY <1>3, <1>4, <3>1 DEF Detachment, Detaching, Detaches, Cleans
  <2>. QED
    BY <2>1, <2>5, <2>6, <2>7 DEF Fits, Programs, Accepted, Sweeping, Rejecting, Cleans, Sound,
       Current
<1>. QED
  BY <1>2, <1>4 DEF Fitting

\* Whoever else does something queues the routes that it is about.
LEMMA OthersFitting ==
  ASSUME Typed, Fitting, Users \/ Gateway \/ (\E r \in Routes : Observe(r))
  PROVE  Fitting'
<1>1. Typed' /\ UNCHANGED work
  BY OthersTyped
<1>2. born \subseteq born' /\ queue \subseteq queue'
  BY DEF Users, Gateway, Create, Attach, Delete, ChangeEndpoints, EditListener, EditGateway,
         Observe, GatewaySyncsSet, Known, users
<1>3. Ages' /\ \A w \in born : Live(server'[w]) => Live(server[w])
  <2>0. /\ Ages /\ born \subseteq Routes
        /\ \A w \in Routes : server[w] # Nil => server[w] \in Route
    BY DEF Fitting, Typed, TypeOK
  <2>1. ASSUME NEW r \in Routes, NEW s \in Specs, Create(r, s) \/ Attach(r, s) \/ Delete(r)
        PROVE  Ages' /\ \A w \in born : Live(server'[w]) => Live(server[w])
    <3>1. CASE Create(r, s)
      <4>1. /\ r \notin born /\ born' = born \cup {r} /\ UNCHANGED cache /\ cache[r] = Nil
            /\ \A w \in Routes \ {r} : server'[w] = server[w]
        BY <2>0, <3>1 DEF Create, Ages, Typed, TypeOK
      <4>. QED
        BY <2>0, <4>1 DEF Ages, Live
    <3>2. CASE Attach(r, s)
      <4>1. /\ UNCHANGED <<born, cache>> /\ server[r] # Nil /\ Live(server[r])
            /\ \A w \in Routes \ {r} : server'[w] = server[w]
        BY <3>2 DEF Attach, Typed, TypeOK, Live
      <4>. QED
        BY <2>0, <4>1 DEF Ages, Live
    <3>3. CASE Delete(r)
      <4>1. /\ UNCHANGED <<born, cache>> /\ server[r] # Nil
            /\ \A w \in Routes \ {r} : server'[w] = server[w]
            /\ server'[r] # Nil => server'[r].deleting
        <5>. DEFINE x == [server[r] EXCEPT !.deleting = TRUE, !.status = NoStatus]
        <5>1. Update(r, x) /\ server[r] # Nil /\ UNCHANGED <<born, cache>>
          BY <3>3 DEF Delete
        <5>2. x.deleting
          BY <2>0, <5>1 DEF Route
        <5>. HIDE DEF x
        <5>. QED
          BY <5>1, <5>2 DEF Update, Typed, TypeOK
      <4>. QED
        BY <2>0, <4>1 DEF Ages, Live
    <3>. QED
      BY <2>1, <3>1, <3>2, <3>3
  <2>2. ASSUME UNCHANGED <<server, born>>, UNCHANGED cache \/ \E r \in Routes : Observe(r)
        PROVE  Ages' /\ \A w \in born : Live(server'[w]) => Live(server[w])
    <3>1. \A w \in Routes : cache'[w] = cache[w] \/ cache'[w] = server[w]
      BY <2>2 DEF Observe, Typed, TypeOK
    <3>. QED
      BY <2>0, <2>2, <3>1 DEF Ages, Live
  <2>3. \/ \E r \in Routes, s \in Specs : Create(r, s) \/ Attach(r, s) \/ Delete(r)
        \/ /\ UNCHANGED <<server, born>>
           /\ UNCHANGED cache \/ \E r \in Routes : Observe(r)
    <3>1. CASE Gateway \/ (\E r \in Routes : Observe(r))
      BY <3>1 DEF Gateway, Observe, GatewaySyncsSet
    <3>2. CASE \E r \in Routes :
                 (\E s \in Specs : Create(r, s)) \/ \E s \in Moves : Attach(r, s)
      BY <3>2
    <3>3. ASSUME NEW r \in Routes, Delete(r)
          PROVE  Specs # {}
      <4>1. server[r].spec \in Specs
        BY <2>0, <3>3 DEF Delete, Route
      <4>. QED
        BY <4>1
    <3>4. CASE \E r \in Routes : ChangeEndpoints(r)
      BY <3>4 DEF ChangeEndpoints
    <3>5. CASE EditGateway \/ \E l \in Listeners, p \in {Nil, {}, Routes} : EditListener(l, p)
      BY <3>5 DEF EditListener, EditGateway
    <3>. QED
      BY <3>1, <3>2, <3>3, <3>4, <3>5 DEF Users
  <2>. QED
    BY <2>1, <2>2, <2>3
<1>4. ASSUME NEW w \in Routes, w \notin queue'
      PROVE  /\ w \in endpoints' <=> w \in endpoints
             /\ cache'[w] # Nil <=> cache[w] # Nil
             /\ cache[w] # Nil => Watched(cache'[w]) = Watched(cache[w])
  <2>1. w \in endpoints' <=> w \in endpoints
    BY <1>4 DEF Users, Gateway, Create, Attach, Delete, ChangeEndpoints, EditListener, EditGateway,
         Observe, GatewaySyncsSet, users
  <2>2. CASE UNCHANGED cache
    BY <2>1, <2>2
  <2>3. ASSUME NEW r \in Routes, Observe(r)
        PROVE  /\ cache'[w] # Nil <=> cache[w] # Nil
               /\ cache[w] # Nil => Watched(cache'[w]) = Watched(cache[w])
    <3>1. \A x \in Routes : cache'[x] = IF x = r THEN server[r] ELSE cache[x]
      BY <2>3 DEF Observe, Typed, TypeOK
    <3>2. CASE w # r
      BY <3>1, <3>2
    <3>3. CASE w = r
      BY <1>4, <2>3, <3>1, <3>3 DEF Observe
    <3>. QED
      BY <3>2, <3>3
  <2>. QED
    BY <2>1, <2>2, <2>3 DEF Users, Gateway, Create, Attach, Delete, ChangeEndpoints,
       EditListener, EditGateway, GatewaySyncsSet
<1>5. (Open \ lost)' \subseteq Open \ lost
  BY ZenonT(60)
     DEF Users, Gateway, Create, Attach, Delete, ChangeEndpoints, EditListener, EditGateway,
         Observe, GatewaySyncsSet, Open, users, Typed, TypeOK
<1>6. ASSUME Busy'
      PROVE  Fits(queue, work)' /\ Detachment(work)'
  <2>0. /\ Busy /\ work.route \in Routes /\ work.as \in Routes
        /\ Fits(queue, work) /\ Detachment(work)
    BY <1>1, <1>6, JobTypes DEF Busy, Fitting
  <2>1. ASSUME NEW w \in Routes, NEW x, Current(queue, w, x)
        PROVE  w \in queue' \/ (cache'[w] # Nil /\ Watched(cache'[w]) = Watched(x))
    BY <1>2, <1>4, <2>1 DEF Current
  <2>2. Current(queue, work.route, work.copy) =>
         \/ work.route \in queue'
         \/ /\ cache'[work.route] # Nil
            /\ Watched(cache'[work.route]) = Watched(work.copy)
    BY <2>0, <2>1
  <2>3. Current(queue, work.as, work.asCopy) =>
         \/ work.as \in queue'
         \/ /\ cache'[work.as] # Nil
            /\ Watched(cache'[work.as]) = Watched(work.asCopy)
    BY <2>0, <2>1
  <2>4. \A y \in Claimants(cache, work.at)' : y \in queue' \/ y \in Claimants(cache, work.at)
    <3>1. TAKE y \in Claimants(cache, work.at)'
    <3>2. y \in Routes /\ cache'[y] # Nil /\ ~cache'[y].deleting /\ work.at \in cache'[y].spec
      BY <1>1 DEF Claimants
    <3>. QED
      BY <1>4, <3>2, WatchedSays DEF Claimants
  <2>5. work.as \notin endpoints \/ work.as \in queue
          => work.as \notin endpoints' \/ work.as \in queue'
    BY <1>2, <1>4, <2>0
  <2>6. Fits(queue, work)'
    BY <1>1, <1>2, <1>3, <2>0, <2>2, <2>3, <2>4, <2>5
       DEF Fits, Current, Watched, Programs, Accepted, Sweeping, Rejecting, Cleans, Sound, Live
  <2>7. Detachment(work)'
    BY <1>1, <1>5, <2>0 DEF Detachment, Detaching, Detaches, Cleans
  <2>. QED
    BY <2>6, <2>7
<1>. QED
  BY <1>3, <1>6 DEF Fitting

LEMMA NextFitting ==
  ASSUME Typed, Fitting, [Next]_vars
  PROVE  Fitting'
<1>1. CASE Fail
  <2>1. ~Busy' /\ UNCHANGED <<server, cache, born>>
    BY <1>1, IdleTyped DEF Fail, NoServerWrite
  <2>. QED
    BY <2>1 DEF Fitting, Ages, Live
<1>2. CASE Crash
  <2>1. ~Busy' /\ UNCHANGED <<server, born>> /\ cache' = server
    BY <1>2, CrashTyped DEF Crash
  <2>. QED
    BY <2>1 DEF Fitting, Ages, Live
<1>3. CASE UNCHANGED vars
  BY <1>3 DEF vars, users, lbs, Fitting, Ages, Live, Fits, Current, Watched, Programs, Accepted,
     Sweeping, Rejecting, Cleans, Sound, Claimants, Detachment, Detaching, Detaches, Open, Busy
<1>. QED
  BY <1>1, <1>2, <1>3, ProgramFitting, WritesFitting, RecordFitting, TakeFitting, OthersFitting
     DEF Next, Step

----------------------------------------------------------------------------
(* What the users and the informers do to a route.                         *)

LEMMA CreateParts ==
  ASSUME Typed, Fitting, NEW r \in Routes, NEW s \in Specs, Create(r, s)
  PROVE  /\ r \notin born /\ cache[r] = Nil /\ server[r] = Nil /\ server'[r] # Nil
         /\ ~server'[r].deleting /\ server'[r].spec = s
         /\ \A w \in Routes \ {r} : server'[w] = server[w]
         /\ UNCHANGED <<cache, endpoints, admits, there, nlbSets, targets, queue, work, lost>>
<1>. DEFINE x == [spec |-> s, deleting |-> FALSE, nlb |-> {}, alb |-> {}, albHeld |-> FALSE,
                  status |-> NoStatus]
<1>1. x \in Route /\ ~x.deleting /\ x.spec = s
  BY DEF Route, NoStatus, States
<1>2. server' = [server EXCEPT ![r] = x] /\ r \notin born
  BY DEF Create
<1>. HIDE DEF x
<1>3. server'[r] = x /\ \A w \in Routes \ {r} : server'[w] = server[w]
  BY <1>2 DEF Typed, TypeOK
<1>4. cache[r] = Nil /\ server[r] = Nil
  BY <1>2 DEF Fitting, Ages
<1>. QED
  BY <1>1, <1>2, <1>3, <1>4, NilAssumption DEF Create, users, lbs

LEMMA AttachParts ==
  ASSUME Typed, NEW r \in Routes, NEW s \in Specs, Attach(r, s)
  PROVE  /\ server[r] # Nil /\ server'[r] # Nil /\ server'[r].spec = s
         /\ ~server[r].deleting /\ ~server'[r].deleting /\ Marks(server'[r]) = Marks(server[r])
         /\ \A w \in Routes \ {r} : server'[w] = server[w]
         /\ lost \subseteq lost' /\ server[r].spec \ s \subseteq lost'
         /\ UNCHANGED <<cache, endpoints, admits, there, nlbSets, targets, queue, work>>
<1>. DEFINE x == [server[r] EXCEPT !.spec = s, !.status = NoStatus]
<1>1. server[r] # Nil /\ ~server[r].deleting /\ server[r] \in Route
  BY DEF Attach, Typed, TypeOK
<1>2. x \in Route /\ ~x.deleting /\ x.spec = s /\ Marks(x) = Marks(server[r])
  BY <1>1 DEF Route, NoStatus, States, Marks
<1>3. server' = [server EXCEPT ![r] = x]
  BY DEF Attach
<1>. HIDE DEF x
<1>4. server'[r] = x /\ \A w \in Routes \ {r} : server'[w] = server[w]
  BY <1>3 DEF Typed, TypeOK
<1>. QED
  BY <1>1, <1>2, <1>4, NilAssumption DEF Attach, users, lbs

\* A deleted route stays while it has a finalizer, and the informers have yet to see it.
LEMMA DeleteParts ==
  ASSUME Typed, Fitting, NEW r \in Routes, Delete(r)
  PROVE  /\ Live(server[r])
         /\ \A w \in Routes \ {r} : server'[w] = server[w]
         /\ \/ server'[r] = Nil
            \/ /\ server'[r] # Nil /\ server'[r].deleting
               /\ server'[r].spec = server[r].spec /\ Marks(server'[r]) = Marks(server[r])
         /\ \A l \in server[r].spec \ lost' : Departing(r, l)' /\ Noted(r)'
         /\ lost \subseteq lost'
         /\ UNCHANGED <<cache, endpoints, admits, there, nlbSets, targets, queue, work>>
<1>. DEFINE x == [server[r] EXCEPT !.deleting = TRUE, !.status = NoStatus]
<1>1. server[r] # Nil /\ Live(server[r]) /\ server[r] \in Route
  BY DEF Delete, Typed, TypeOK, Live
<1>2. x \in Route /\ x.deleting /\ x.spec = server[r].spec /\ Marks(x) = Marks(server[r])
  BY <1>1 DEF Route, NoStatus, States, Marks
<1>3. Update(r, x)
  BY DEF Delete
<1>4. lost' = lost \cup {l \in server[r].spec : ~Holds(server[r], l)}
  BY DEF Delete
<1>. HIDE DEF x
<1>5. /\ server'[r] = IF ~Finalized(x) THEN Nil ELSE x
      /\ \A w \in Routes \ {r} : server'[w] = server[w]
  BY <1>2, <1>3 DEF Update, Typed, TypeOK
<1>6. ASSUME NEW l \in server[r].spec \ lost'
      PROVE  Departing(r, l)' /\ Noted(r)'
  <2>1. Holds(server[r], l)
    BY <1>4
  <2>2. Holds(x, l) /\ Finalized(x)
    BY <1>2, <2>1, SameHolds DEF Holds, Finalized
  <2>3. server'[r] = x /\ x # Nil
    BY <1>2, <1>5, <2>2, NilAssumption
  <2>4. Departing(r, l)'
    BY <1>2, <2>2, <2>3 DEF Departing, Holds
  <2>5. Noted(r)'
    <3>1. UNCHANGED cache
      BY DEF Delete
    <3>2. cache[r] = Nil \/ ~cache[r].deleting
      BY <1>1 DEF Fitting, Ages
    <3>3. cache[r] = Nil \/ Watched(cache[r]) # Watched(server'[r])
      BY <1>2, <2>3, <3>2, WatchedSays
    <3>. QED
      BY <3>1, <3>3 DEF Noted
  <2>. QED
    BY <2>4, <2>5
<1>. QED
  BY <1>1, <1>2, <1>4, <1>5, <1>6, NilAssumption DEF Delete, users, lbs

LEMMA ObserveParts ==
  ASSUME Typed, NEW r \in Routes, Observe(r)
  PROVE  /\ UNCHANGED <<server, endpoints, admits, there, nlbSets, targets, work, lost>>
         /\ cache'[r] = server[r] /\ \A w \in Routes \ {r} : cache'[w] = cache[w]
         /\ queue \subseteq queue'
         /\ \/ r \in queue'
            \/ cache[r] # Nil /\ server[r] # Nil /\ Watched(cache[r]) = Watched(server[r])
BY DEF Observe, users, lbs, Typed, TypeOK

LEMMA ObservedNoted ==
  ASSUME Typed, NEW r \in Routes, Observe(r), NEW w \in Routes, Noted(w)
  PROVE  w \in queue' \/ Noted(w)'
BY ObserveParts DEF Noted, Watched

LEMMA EditParts ==
  ASSUME Typed, \/ EditGateway \/ (\E r \in Routes : ChangeEndpoints(r))
                \/ \E l \in Listeners, p \in {Nil, {}, Routes} : EditListener(l, p)
  PROVE  /\ UNCHANGED <<server, cache, nlbSets, targets, work>> /\ queue \subseteq queue'
         /\ \A w \in Routes :
              cache[w] # Nil => w \in queue' \/ (w \in endpoints' <=> w \in endpoints)
         /\ lost \subseteq lost' /\ (Open \ lost)' \subseteq Open \ lost
         /\ \A l \in (Open \ lost)' : admits'[l] = admits[l]
BY DEF EditGateway, EditListener, ChangeEndpoints, Known, Open, lbs, Typed, TypeOK

LEMMA SyncParts ==
  ASSUME Typed, NEW m \in Listeners, GatewaySyncsSet(m)
  PROVE  /\ UNCHANGED <<server, cache, endpoints, admits, there, queue, work, lost, targets>>
         /\ m \notin Terminating /\ nlbSets'[m] \in {Nil, {}}
         /\ \A l \in Listeners \ Terminating : l # m => nlbSets'[l] = nlbSets[l]
         /\ m \in Open => nlbSets[m] = Nil
BY DEF GatewaySyncsSet, users, Open, Typed, TypeOK

----------------------------------------------------------------------------
(* Whose listener is recorded.                                             *)

\* An object that programming writes is the live copy, or what the informers have.
LEMMA ForgetGrown ==
  ASSUME Typed, Fitting, Forget
  PROVE  \A w \in Routes : Grown(w)
<1>1. /\ Busy /\ work.pc = "forget" /\ NoEvent
      /\ server[work.as] = work.asCopy /\ server[work.as] # Nil /\ server'[work.as] # Nil
      /\ \A w \in Routes \ {work.as} : server'[w] = server[w]
      /\ server'[work.as].spec = server[work.as].spec
      /\ server'[work.as].deleting = server[work.as].deleting
  BY ForgetParts
<1>2. work.as \in Routes /\ ~server[work.as].deleting /\ Current(queue, work.as, work.asCopy)
  BY <1>1, JobTypes DEF Fitting, Fits, Programs
<1>3. Grown(work.as)
  BY <1>1, <1>2, WatchedSays DEF Current, Grown
<1>. QED
  BY <1>1, <1>3 DEF Grown

LEMMA RecordGrown ==
  ASSUME Typed, Fitting, SetProgrammed
  PROVE  \A w \in Routes : Grown(w)
<1>1. /\ Busy /\ work.pc = "record" /\ NoEvent
      /\ server[work.as] # Nil /\ server'[work.as] # Nil
      /\ \A w \in Routes \ {work.as} : server'[w] = server[w]
      /\ server'[work.as].spec = server[work.as].spec
      /\ server'[work.as].deleting = server[work.as].deleting
      /\ \/ server[work.as] = work.asCopy
         \/ /\ server[work.as] = cache[work.as]
            /\ \A l \in Listeners : Holds(server[work.as], l) => Holds(server'[work.as], l)
  BY RecordParts
<1>2. CASE server[work.as] = work.asCopy
  <2>1. work.as \in Routes /\ ~server[work.as].deleting /\ Current(queue, work.as, work.asCopy)
    BY <1>1, <1>2, JobTypes DEF Fitting, Fits, Programs
  <2>2. Grown(work.as)
    BY <1>1, <1>2, <2>1, WatchedSays DEF Current, Grown
  <2>. QED
    BY <1>1, <2>2 DEF Grown
<1>3. CASE server[work.as] # work.asCopy
  BY <1>1, <1>3 DEF Grown
<1>. QED
  BY <1>2, <1>3

\* What Heir says of a route at a listener.
Inherits(r, l) ==
  \/ l \in lost \/ l \notin Open
  \/ Serves(r, l) /\ (r \in Claimants(server, l) \/ (Departing(r, l) /\ Noted(r)))

LEMMA InheritsStays ==
  ASSUME Typed, Fitting, NEW r \in born, NEW l \in Listeners, Inherits(r, l),
         Users \/ Gateway \/ (\E w \in Routes : Observe(w))
  PROVE  /\ Inherits(r, l)'
         /\ server'[r] # Nil => server[r] # Nil /\ Marks(server'[r]) = Marks(server[r])
<1>0. r \in Routes
  BY DEF Typed, TypeOK
<1>1. ASSUME NEW w \in Routes, NEW s \in Specs, Create(w, s)
      PROVE  Inherits(r, l)' /\ (server'[r] # Nil => server[r] # Nil /\ server'[r] = server[r])
  <2>1. /\ w # r /\ UNCHANGED <<cache, endpoints, admits, there, nlbSets, targets, queue, lost>>
        /\ server'[r] = server[r]
    BY ZenonT(40), <1>0, <1>1, CreateParts
  <2>. QED
    BY <1>0, <2>1 DEF Inherits, Open, Serves, Claimants, Departing, Noted, Holds, Watched
<1>2. ASSUME NEW w \in Routes, NEW s \in Specs, Attach(w, s)
      PROVE  /\ Inherits(r, l)'
             /\ server'[r] # Nil => server[r] # Nil /\ Marks(server'[r]) = Marks(server[r])
  <2>1. /\ UNCHANGED <<cache, endpoints, admits, there, nlbSets, targets, queue>>
        /\ lost \subseteq lost'
        /\ r # w => server'[r] = server[r]
        /\ r = w => /\ server[r] # Nil /\ server'[r] # Nil /\ server'[r].spec = s
                    /\ ~server[r].deleting /\ ~server'[r].deleting
                    /\ Marks(server'[r]) = Marks(server[r])
                    /\ server[r].spec \ s \subseteq lost'
    BY <1>0, <1>2, AttachParts
  <2>2. CASE r # w
    BY <1>0, <2>1, <2>2 DEF Inherits, Open, Serves, Claimants, Departing, Noted, Holds, Watched
  <2>3. CASE r = w
    BY <1>0, <2>1, <2>3 DEF Inherits, Open, Serves, Claimants, Departing
  <2>. QED
    BY <2>1, <2>2, <2>3
<1>3. ASSUME NEW w \in Routes, Delete(w)
      PROVE  /\ Inherits(r, l)'
             /\ server'[r] # Nil => server[r] # Nil /\ Marks(server'[r]) = Marks(server[r])
  <2>1. /\ UNCHANGED <<cache, endpoints, admits, there, nlbSets, targets, queue>>
        /\ lost \subseteq lost'
        /\ r # w => server'[r] = server[r]
        /\ r = w => /\ Live(server[r])
                    /\ server'[r] # Nil => Marks(server'[r]) = Marks(server[r])
                    /\ l \in server[r].spec \ lost' => Departing(r, l)' /\ Noted(r)'
    BY <1>0, <1>3, DeleteParts
  <2>2. CASE r # w
    BY <1>0, <2>1, <2>2 DEF Inherits, Open, Serves, Claimants, Departing, Noted, Holds, Watched
  <2>3. CASE r = w
    BY <1>0, <2>1, <2>3 DEF Inherits, Open, Serves, Claimants, Departing, Live
  <2>. QED
    BY <2>1, <2>2, <2>3 DEF Live
<1>4. ASSUME \/ EditGateway \/ (\E w \in Routes : ChangeEndpoints(w))
             \/ \E m \in Listeners, p \in {Nil, {}, Routes} : EditListener(m, p)
      PROVE  Inherits(r, l)' /\ UNCHANGED server
  <2>1. /\ UNCHANGED <<server, cache, nlbSets, targets>> /\ queue \subseteq queue'
        /\ (Open \ lost)' \subseteq Open \ lost
    BY <1>4, EditParts
  <2>. QED
    BY <2>1 DEF Inherits, Serves, Claimants, Departing, Noted, Holds, Watched
<1>5. ASSUME NEW m \in Listeners, GatewaySyncsSet(m)
      PROVE  Inherits(r, l)' /\ UNCHANGED server
  <2>1. /\ UNCHANGED <<server, cache, endpoints, admits, there, queue, lost, targets>>
        /\ \A k \in Listeners \ Terminating : k # m => nlbSets'[k] = nlbSets[k]
        /\ m \in Open => nlbSets[m] = Nil
    BY <1>5, SyncParts
  <2>2. Nil # {r}
    BY <1>0, NilAssumption
  <2>3. l \in Open /\ Serves(r, l) => Serves(r, l)'
    BY <2>1, <2>2 DEF Serves
  <2>. QED
    BY <2>1, <2>3 DEF Inherits, Open, Claimants, Departing, Noted, Holds, Watched
<1>6. ASSUME NEW w \in Routes, Observe(w)
      PROVE  Inherits(r, l)' /\ UNCHANGED server
  <2>1. UNCHANGED <<server, endpoints, admits, there, nlbSets, targets, lost>>
    BY <1>6, ObserveParts
  <2>2. Noted(r) => Noted(r)'
    BY <1>0, <1>6, ObservedNoted DEF Noted
  <2>. QED
    BY <2>1, <2>2 DEF Inherits, Open, Serves, Claimants, Departing, Holds
<1>7. \A w \in Routes, s \in Moves : s \in Specs
  OBVIOUS
<1>. QED
  BY <1>1, <1>2, <1>3, <1>4, <1>5, <1>6, <1>7 DEF Users, Gateway

LEMMA NextHeir ==
  ASSUME Typed, Fitting, Heir, Marked, [Next]_vars
  PROVE  Heir' /\ Marked'
<1>0. Heir /\ (At("record") \/ At("report")) =>
        /\ Inherits(work.as, work.at) /\ work.as \in Routes /\ work.at \in Listeners
        /\ work.as \in born
  BY JobTypes DEF Heir, Inherits, At, Fitting, Fits, Planned, HoldsWhereDeleted, Programs
<1>1. CASE UpdateNLBBackendSet \/ ReconcileTLSListener
  <2>1. /\ Busy /\ OnErrand("record") /\ NoEvent /\ UNCHANGED server
        /\ IF work.at \in Terminating THEN targets'[work.at] = work.as
           ELSE nlbSets'[work.at] = {work.as}
        /\ work.at \in lost' \/ ~Outsider(work.as, work.at)
    BY <1>1, UpdateParts, ListenParts
  <2>2. work.at \in lost' \/ work.as \in Claimants(server, work.at)
    BY <2>1 DEF Outsider
  <2>3. work'.as = work.as /\ work'.at = work.at /\ work'.pc = "record"
    BY <2>1 DEF OnErrand, SameErrand
  <2>. QED
    BY <2>1, <2>2, <2>3 DEF Heir, Marked, At, Serves, Claimants
<1>2. CASE SetProgrammed
  <2>1. /\ Busy /\ work.pc = "record" /\ UNCHANGED <<lbs, lost>> /\ NoEvent
        /\ SameErrand(work, work') /\ work'.pc = "report"
        /\ RecordedAt(server'[work.as], work.at)
    BY <1>2, RecordParts
  <2>2. Inherits(work.as, work.at) /\ work.as \in Routes /\ work.at \in Listeners
    BY <1>0, <2>1 DEF At
  <2>3. \A w \in Routes : Grown(w)
    BY <1>2, RecordGrown
  <2>4. PICK r : r = work.as
    OBVIOUS
  <2>5. PICK l : l = work.at
    OBVIOUS
  <2>6. Inherits(r, l)'
    <3>1. Claimants(server, l)' = Claimants(server, l)
      BY <2>3, GrownClaims
    <3>2. Departing(r, l) /\ Noted(r) => Departing(r, l)' /\ Noted(r)'
      <4>1. HAVE Departing(r, l) /\ Noted(r)
      <4>2. r \in Routes /\ l \in Listeners /\ Grown(r) /\ server[r] # Nil
        BY <2>2, <2>3, <2>4, <2>5, <4>1 DEF Departing
      <4>. QED
        BY <2>1, <4>1, <4>2, DepartingStays, NotedStays DEF NoEvent
    <3>3. Open' = Open
      BY <2>1 DEF Open, NoEvent, users
    <3>4. Serves(r, l)' <=> Serves(r, l)
      BY <2>1 DEF Serves, lbs
    <3>. QED
      BY <2>1, <2>2, <2>4, <2>5, <3>1, <3>2, <3>3, <3>4 DEF Inherits
  <2>7. r = work'.as /\ l = work'.at
    BY <2>1, <2>4, <2>5 DEF SameErrand
  <2>. QED
    BY <2>1, <2>4, <2>5, <2>6, <2>7 DEF Heir, Marked, Inherits, Serves, Claimants, Departing,
       Noted, Holds, Watched, RecordedAt, At
<1>3. CASE Users \/ Gateway \/ (\E w \in Routes : Observe(w))
  <2>1. UNCHANGED work
    BY <1>3, OthersTyped
  <2>2. SUFFICES ASSUME At("record") \/ At("report")
                 PROVE  Heir' /\ Marked'
    BY <2>1 DEF Heir, Marked, At, Busy
  <2>3. Inherits(work.as, work.at)'
        /\ (server'[work.as] # Nil =>
              server[work.as] # Nil /\ Marks(server'[work.as]) = Marks(server[work.as]))
    <3>1. PICK r \in born : r = work.as
      BY <1>0, <2>2
    <3>2. PICK l \in Listeners : l = work.at
      BY <1>0, <2>2
    <3>3. /\ Inherits(r, l)'
          /\ server'[r] # Nil => server[r] # Nil /\ Marks(server'[r]) = Marks(server[r])
      BY <1>0, <1>3, <2>2, <3>1, <3>2, InheritsStays
    <3>. QED
      BY <2>1, <3>1, <3>2, <3>3 DEF Inherits, Serves, Claimants, Departing, Noted, Holds, Watched
  <2>4. Heir'
    BY <2>1, <2>3 DEF Heir, Inherits
  <2>5. Marked'
    <3>1. RecordedAt(server[work.as], work.at) /\ Marks(server'[work.as]) = Marks(server[work.as])
            => RecordedAt(server'[work.as], work.at)
      BY SameHolds
    <3>. QED
      BY <2>1, <2>3, <3>1 DEF Marked, RecordedAt, At, Busy
  <2>. QED
    BY <2>4, <2>5
<1>4. CASE \/ (\E r \in Routes : Take(r)) \/ Fail \/ Crash
           \/ Unmatched \/ SetPending \/ SetRejected \/ ProgramRoute \/ Forget
           \/ RemoveFinalizer \/ RemoveDetachedFinalizers \/ Report \/ ReconcileBackendSet
           \/ (\E l \in Listeners : ClearBackendSet(l) \/ DeleteListener(l)) \/ DeleteBackendSet
  <2>1. Busy' => work'.pc \notin {"record", "report"}
    <3>1. CASE \/ (\E r \in Routes : Take(r)) \/ Fail \/ Crash
               \/ Unmatched \/ SetPending \/ SetRejected \/ ProgramRoute \/ Forget
               \/ RemoveFinalizer \/ RemoveDetachedFinalizers
      BY <3>1, TakeTyped, IdleTyped, CrashTyped, UnmatchedTyped, SetPendingTyped, SetRejectedTyped,
         ProgramRouteTyped, ForgetTyped, RemoveFinalizerTyped, RemoveDetachedTyped DEF Late
    <3>2. CASE Report
      BY <3>2, ReportTyped DEF Late
    <3>3. CASE ReconcileBackendSet
      BY <3>3, MakeParts DEF OnErrand
    <3>4. CASE (\E l \in Listeners : ClearBackendSet(l) \/ DeleteListener(l)) \/ DeleteBackendSet
      <4>1. Busy /\ work'.pc \in {"clean", "unset", work.then}
        BY <3>4, ClearParts, UnlistenParts, DropParts DEF OnErrand, Cleaning
      <4>2. work.then \in {"forget", "reject", "release", "detach"}
        BY <4>1, JobTypes DEF Job
      <4>. QED
        BY <4>1, <4>2
    <3>. QED
      BY <1>4, <3>1, <3>2, <3>3, <3>4
  <2>. QED
    BY <2>1 DEF Heir, Marked, At
<1>5. CASE UNCHANGED vars
  BY <1>5 DEF vars, users, lbs, Heir, Marked, At, Busy, Serves, Open, Claimants, Departing, Noted,
     Holds, Watched, RecordedAt
<1>. QED
  BY <1>1, <1>2, <1>3, <1>4, <1>5 DEF Next, Step

----------------------------------------------------------------------------
(* What a job cleans up for another route.                                 *)

Aims(job) ==
  /\ Detaching(job) => job.as = job.route
  /\ Cleans(job) /\ job.then = "forget" => job.at \notin job.names

Aimed == Busy => Aims(work)

LEMMA TurnsAim ==
  ASSUME NEW job, Planned(job), NEW new \in Turns(job), new # Idle
  PROVE  Aims(new)
BY TurnsSay DEF Aims, Detaching, Detaches, Cleans

LEMMA SweepAims ==
  ASSUME NEW job \in Job
  PROVE  Aims(Sweep(job))
<1>. DEFINE x == job.asCopy
            new == Sweep(job)
<1>0. x \in Route /\ x.nlb \subseteq Listeners \ Terminating /\ x.alb \subseteq Terminating
  BY DEF Job, Route
<1>1. CASE job.at \in Terminating /\ x.nlb # {}
  <2>1. new = [job EXCEPT !.pc = "clean", !.names = x.nlb, !.then = "forget"]
    BY <1>1 DEF Sweep
  <2>2. new.names = x.nlb /\ new.at = job.at /\ new.pc = "clean" /\ new.then = "forget"
    BY <2>1 DEF Job
  <2>. QED
    BY <1>0, <1>1, <2>2 DEF Aims, Detaching, Detaches, Cleans
<1>2. CASE job.at \notin Terminating /\ x.alb # {} /\ there
  <2>1. new = [job EXCEPT !.pc = "clean", !.names = x.alb, !.then = "forget"]
    BY <1>2 DEF Sweep
  <2>2. new.names = x.alb /\ new.at = job.at /\ new.pc = "clean" /\ new.then = "forget"
    BY <2>1 DEF Job
  <2>. QED
    BY <1>0, <1>2, <2>2 DEF Aims, Detaching, Detaches, Cleans
<1>3. CASE job.at \notin Terminating /\ x.alb = {} /\ x.albHeld
  <2>1. new = [job EXCEPT !.pc = "forget"]
    BY <1>3 DEF Sweep
  <2>. QED
    BY <2>1 DEF Aims, Detaching, Detaches, Cleans, Job
<1>4. Aims(ResolveBackends(job))
  BY ResolveSays DEF Aims, Detaching, Detaches, Cleans
<1>. QED
  BY <1>1, <1>2, <1>3, <1>4 DEF Sweep

LEMMA NextAimed ==
  ASSUME Typed, Fitting, Aimed, [Next]_vars
  PROVE  Aimed'
<1>0. Typed'
  BY NextTyped
<1>1. SUFFICES ASSUME Busy' PROVE Aims(work')
  BY DEF Aimed, Aims, Detaching, Detaches, Cleans
<1>2. ASSUME NEW r \in Routes, Take(r)
      PROVE  Aims(work')
  <2>1. /\ cache[r] # Nil /\ work' # Idle
        /\ work' = NewJob(r) \/ work' \in Turns(NewJob(r))
    BY <1>1, <1>2 DEF Take, Busy
  <2>2. Planned(NewJob(r))
    BY <2>1, NewJobPlanned DEF Typed
  <2>3. Aims(NewJob(r))
    BY DEF NewJob, Aims, Cleans
  <2>. QED
    BY <2>1, <2>2, <2>3, TurnsAim
<1>3. CASE SetRejected \/ Report \/ RemoveFinalizer
  <2>1. Busy /\ Planned(work) /\ (work' \in Turns(work) \/ work'.pc = "release")
    BY <1>3, JobTypes, SetRejectedParts, ReportParts, RemoveFinalizerParts
  <2>. QED
    BY <1>1, <2>1, TurnsAim DEF Busy, Aims, Detaching, Detaches, Cleans
<1>4. CASE ProgramRoute
  <2>1. Busy /\ work \in Job /\ (work' = Sweep(work) \/ OnErrand("reject"))
    <3>1. Busy /\ work \in Job /\ Typed
      BY <1>4, JobTypes, ProgramRouteParts
    <3>2. work' = Sweep(work) \/ Goto("reject")
      BY <1>4 DEF ProgramRoute, Goto
    <3>. QED
      BY <3>1, <3>2, GotoErrand DEF PCs
  <2>. QED
    BY <2>1, SweepAims DEF OnErrand, Aims, Detaching, Detaches, Cleans
<1>5. CASE Forget
  BY <1>5, ForgetParts DEF Resolving, Aims, Detaching, Detaches, Cleans
<1>6. CASE SetPending \/ UpdateNLBBackendSet \/ ReconcileBackendSet \/ ReconcileTLSListener
           \/ SetProgrammed
  <2>1. work'.pc \in {"program", "listen", "record", "report"}
    BY <1>6, SetPendingParts, UpdateParts, MakeParts, ListenParts, RecordParts DEF OnErrand
  <2>. QED
    BY <2>1 DEF Aims, Detaching, Detaches, Cleans
<1>7. CASE Unmatched
  <2>1. Busy /\ work.pc = "unmatched" /\ OnErrand("clean") /\ work'.then = "detach"
    BY <1>1, <1>7, UnmatchedParts DEF Busy
  <2>. QED
    BY <2>1 DEF Aimed, Aims, Detaching, OnErrand, SameErrand
<1>8. CASE (\E l \in Listeners : ClearBackendSet(l) \/ DeleteListener(l)) \/ DeleteBackendSet
  <2>1. /\ Busy /\ work.pc \in {"clean", "unset"} /\ SameErrand(work, work')
        /\ work'.then = work.then /\ work'.pc \in {"clean", "unset", work.then}
        /\ work.then \in {"forget", "reject", "release", "detach"} /\ work \in Job
    <3>1. /\ Busy /\ work.pc \in {"clean", "unset"} /\ SameErrand(work, work')
          /\ work'.then = work.then /\ work'.pc \in {"clean", "unset", work.then}
      BY <1>8, ClearParts, UnlistenParts, DropParts DEF OnErrand, Cleaning
    <3>. QED
      BY <3>1, JobTypes DEF Job
  <2>2. work'.names \subseteq work.names
    <3>1. \/ work'.names = work.names
          \/ \E n \in Listeners \cup {Nil} : work' = Cleaned(work.names \ {n})
      BY <1>8, <2>1, UnlistenParts DEF ClearBackendSet, DeleteBackendSet, Job
    <3>2. \A n : Cleaned(work.names \ {n}).names \subseteq work.names
      BY <2>1 DEF Cleaned, Job
    <3>. QED
      BY <3>1, <3>2
  <2>. QED
    BY <2>1, <2>2 DEF Aimed, Aims, Detaching, Detaches, Cleans, SameErrand
<1>9. CASE Users \/ Gateway \/ (\E r \in Routes : Observe(r)) \/ UNCHANGED vars
  <2>1. UNCHANGED work
    BY <1>9, OthersTyped DEF vars
  <2>. QED
    BY <1>1, <2>1 DEF Aimed, Busy
<1>10. CASE Fail \/ Crash \/ RemoveDetachedFinalizers
  BY <1>1, <1>10, IdleTyped, CrashTyped, RemoveDetachedParts DEF Busy
<1>. QED
  BY <1>2, <1>3, <1>4, <1>5, <1>6, <1>7, <1>8, <1>9, <1>10 DEF Next, Step

----------------------------------------------------------------------------
(* Every listener is cared for: the worker's steps.                        *)

\* Facts about a job at work that the steps below share.
LEMMA WorkerKnows ==
  ASSUME Typed, Fitting, Busy
  PROVE  /\ Fits(queue, work) /\ Detachment(work) /\ Ages /\ Planned(work)
         /\ work.route \in Routes /\ work.as \in Routes /\ work.route \in born
         /\ Live(server[work.route]) => ~work.copy.deleting
         /\ Programs(work) => /\ work.at \in Listeners
                              /\ work.as = work.route <=> ~work.copy.deleting
BY JobTypes DEF Fitting, Fits, Planned, ProgramsClaimant, HoldsWhereDeleted

\* A step that leaves listener l alone, and goes on with the same route and listener.
LEMMA ErrandCares ==
  ASSUME Typed, Fitting, Busy, NoEvent, \A w \in Routes : Grown(w),
         NEW l \in Listeners, Cared(l),
         \A r \in Routes : Serves(r, l)' <=> Serves(r, l),
         Bare(l)' <=> Bare(l),
         Busy', work'.route = work.route, work'.copy = work.copy, work'.todo = work.todo,
         work'.at = work.at,
         Detaching(work') => Detaching(work), work'.pc = "release" => work.at # l,
         work.pc # "release",
         \A r \in Claimants(cache, l) :
           /\ Live(server[r]) /\ r \in admits[l] \cap endpoints /\ work.route = r
           /\ Pursues(work, l) /\ ~Pursues(work', l)
           => Attended(r, l)' \/ Hander(l)
  PROVE  Cared(l)'
<1>1. Hander(l) => Hander(l)'
  <2>1. Departs(work, l) => Departs(work', l)
    BY DEF Departs
  <2>. QED
    BY <2>1, HanderStays DEF NoEvent, At
<1>2. ASSUME NEW r \in Claimants(cache, l), Live(server[r]), r \in admits[l] \cap endpoints,
             work.route = r, Pursues(work, l)
      PROVE  Attended(r, l)'
  <2>1. CASE Pursues(work', l)
    <3>1. Pursues(work, l)'
      BY <2>1 DEF Pursues, Detaching, Detaches, Accepted, Sweeping, Cleans
    <3>. QED
      BY <1>2, <3>1 DEF Attended
  <2>2. CASE ~Pursues(work', l)
    <3>1. Attended(r, l)' \/ Hander(l)'
      BY <1>1, <1>2, <2>2
    <3>. QED
      BY <3>1 DEF Attended
  <2>. QED
    BY <2>1, <2>2
<1>3. admits'[l] = admits[l] /\ UNCHANGED <<cache, endpoints>> /\ queue \subseteq queue'
  BY DEF NoEvent, users
<1>4. \A r \in Claimants(cache, l) : r \in Routes
  BY DEF Claimants
<1>. QED
  BY <1>1, <1>2, <1>3, <1>4, CaredStays

\* The listeners that a step has to care for are those that were cared for.
LEMMA WorkerOpen ==
  ASSUME Typed, NoEvent, lost \subseteq lost', Covered, NEW l \in (Open \ lost)'
  PROVE  l \in Listeners /\ l \in Open \ lost /\ Cared(l)
BY DEF NoEvent, users, Open, Covered

LEMMA Untouched ==
  ASSUME UNCHANGED <<nlbSets, targets>>, NEW l
  PROVE  (\A r \in Routes : Serves(r, l)' <=> Serves(r, l)) /\ (Bare(l)' <=> Bare(l))
BY DEF Serves, Bare

\* The request ends, or goes on to the next listener, without a write of a record.
LEMMA TurnsCares ==
  ASSUME Typed, Fitting, Busy, NoEvent, \A w \in Routes : Grown(w), UNCHANGED <<nlbSets, targets>>,
         NEW l \in Listeners, Cared(l),
         ~work.copy.deleting,
         work' \in Turns(work),
         ~Sweeping(work),
         \A r \in Claimants(cache, l) :
           /\ Live(server[r]) /\ r \in admits[l] \cap endpoints /\ work.route = r
           /\ work.at = l /\ ~Detaching(work)
           /\ work.pc \in {"pending", "program"} \/ Accepted(work)
           => Attended(r, l)'
  PROVE  Cared(l)'
<1>0. Planned(work)
  BY WorkerKnows
<1>1. Hander(l) => Hander(l)'
  <2>1. ~Departs(work, l)
    BY DEF Departs
  <2>2. ~At("release")'
    BY <1>0, TurnsSay DEF At, Busy
  <2>. QED
    BY <2>1, <2>2, HanderStays DEF NoEvent
<1>2. ASSUME NEW r \in Claimants(cache, l), Live(server[r]), r \in admits[l] \cap endpoints,
             work.route = r, Pursues(work, l)
      PROVE  Attended(r, l)'
  <2>1. CASE l \in work.todo
    <3>1. work' # Idle /\ work'.route = r /\ Pursues(work', l)
      BY <1>0, <1>2, <2>1, TurnsReach
    <3>2. Busy' /\ Pursues(work, l)'
      BY <3>1 DEF Busy, Pursues, Detaching, Detaches, Accepted, Sweeping, Cleans
    <3>. QED
      BY <3>1, <3>2 DEF Attended
  <2>2. CASE l \notin work.todo
    BY <1>2, <2>2 DEF Pursues
  <2>. QED
    BY <2>1, <2>2
<1>3. admits'[l] = admits[l] /\ UNCHANGED <<cache, endpoints>> /\ queue \subseteq queue'
  BY DEF NoEvent, users
<1>4. \A r \in Claimants(cache, l) : r \in Routes
  BY DEF Claimants
<1>5. (\A r \in Routes : Serves(r, l)' <=> Serves(r, l)) /\ (Bare(l)' <=> Bare(l))
  BY Untouched
<1>. QED
  BY <1>1, <1>2, <1>3, <1>4, <1>5, CaredStays

LEMMA UnmatchedCovered ==
  ASSUME Typed, Fitting, Covered, Unmatched
  PROVE  Covered'
<1>1. /\ Busy /\ work.pc = "unmatched" /\ Restated /\ UNCHANGED <<lbs, lost>> /\ NoEvent
      /\ work' = Idle \/ (OnErrand("clean") /\ work'.then = "detach")
  BY UnmatchedParts
<1>2. SUFFICES ASSUME NEW l \in (Open \ lost)'
               PROVE  Cared(l)'
  BY DEF Covered
<1>3. l \in Listeners /\ l \in Open \ lost /\ Cared(l)
  BY <1>1, WorkerOpen
<1>4. ~Departs(work, l) /\ ~Pursues(work, l)
  BY <1>1 DEF Departs, Pursues, Detaching
<1>5. (\A w \in Routes : Grown(w)) /\ UNCHANGED <<nlbSets, targets>>
  BY <1>1, RestatedGrown DEF lbs
<1>6. Hander(l) => Hander(l)'
  <2>1. ~At("release")'
    BY <1>1 DEF OnErrand, At, Busy
  <2>. QED
    BY <1>1, <1>3, <1>4, <1>5, <2>1, HanderStays DEF NoEvent
<1>7. admits'[l] = admits[l] /\ UNCHANGED <<cache, endpoints>> /\ queue \subseteq queue'
  BY <1>1 DEF NoEvent, users
<1>8. \A r \in Claimants(cache, l) : r \in Routes
  BY DEF Claimants
<1>. QED
  BY <1>3, <1>4, <1>5, <1>6, <1>7, <1>8, Untouched, CaredStays

LEMMA PendingCovered ==
  ASSUME Typed, Fitting, Covered, SetPending \/ SetRejected
  PROVE  Covered'
<1>1. CASE SetPending
  <2>1. /\ Busy /\ work.pc = "pending" /\ Restated /\ UNCHANGED <<lbs, lost>> /\ NoEvent
        /\ OnErrand("program")
    BY <1>1, SetPendingParts
  <2>2. SUFFICES ASSUME NEW l \in (Open \ lost)'
                 PROVE  Cared(l)'
    BY DEF Covered
  <2>3. l \in Listeners /\ l \in Open \ lost /\ Cared(l)
    BY <2>1, WorkerOpen
  <2>4. (\A w \in Routes : Grown(w)) /\ UNCHANGED <<nlbSets, targets>>
    BY <2>1, RestatedGrown DEF lbs
  <2>5. Pursues(work, l) => Pursues(work', l)
    BY <2>1 DEF Pursues, OnErrand, SameErrand, Detaching, Detaches, Accepted, Sweeping, Cleans
  <2>6. ~Detaching(work')
    BY <2>1 DEF OnErrand, Detaching, Detaches, Cleans
  <2>. QED
    BY <2>1, <2>3, <2>4, <2>5, <2>6, Untouched, ErrandCares DEF OnErrand, SameErrand
<1>2. CASE SetRejected
  <2>1. /\ Busy /\ work.pc = "reject" /\ work.as = work.route /\ Restated
        /\ UNCHANGED <<lbs, lost>> /\ NoEvent /\ work' \in Turns(work)
    BY <1>2, SetRejectedParts
  <2>2. SUFFICES ASSUME NEW l \in (Open \ lost)'
                 PROVE  Cared(l)'
    BY DEF Covered
  <2>3. l \in Listeners /\ l \in Open \ lost /\ Cared(l)
    BY <2>1, WorkerOpen
  <2>4. (\A w \in Routes : Grown(w)) /\ UNCHANGED <<nlbSets, targets>>
    BY <2>1, RestatedGrown DEF lbs
  <2>5. ~work.copy.deleting /\ ~Sweeping(work) /\ ~Accepted(work)
    BY <2>1, WorkerKnows DEF Programs, Accepted, Sweeping, Cleans
  <2>. QED
    BY <2>1, <2>3, <2>4, <2>5, TurnsCares
<1>. QED
  BY <1>1, <1>2

\* A route is rejected because there is an older one, which is served or hands over.
LEMMA RivalCares ==
  ASSUME Typed, Fitting, Busy, work.pc = "program", NEW l \in Listeners, work.at = l,
         NEW r \in Claimants(cache, l), work.as = r, ~MayOwn(r, l), Ghosts(l) = {}
  PROVE  Hander(l) \/ \E x \in Claimants(server, l) : x < r
<1>1. PICK y \in Claimants(cache, l) : ~(r <= y)
  BY DEF MayOwn
<1>2. y \in Routes /\ y \in Nat /\ r \in Nat /\ cache[y] # Nil /\ ~cache[y].deleting
  BY DEF Claimants
<1>3. server[y] # Nil /\ l \in server[y].spec /\ (server[y].deleting => Holds(server[y], l))
  BY <1>1 DEF Ghosts
<1>4. CASE ~server[y].deleting
  BY <1>1, <1>2, <1>3, <1>4 DEF Claimants
<1>5. CASE server[y].deleting
  <2>1. Watched(cache[y]) # Watched(server[y])
    BY <1>2, <1>5, WatchedSays
  <2>2. Leaves(y, l) /\ ~Handed(y, l)
    BY <1>3, <1>5, <2>1 DEF Leaves, Departing, Noted, Handed, At
  <2>. QED
    BY <1>2, <2>2 DEF Hander
<1>. QED
  BY <1>4, <1>5

LEMMA ProgramCovered ==
  ASSUME Typed, Fitting, Covered, ProgramRoute
  PROVE  Covered'
<1>1. /\ Busy /\ work.pc = "program" /\ UNCHANGED <<server, lbs>> /\ NoEvent
      /\ lost \subseteq lost'
      /\ \/ MayOwn(work.as, work.at) /\ (Resolving \/ Swept)
         \/ /\ OnErrand("reject")
            /\ \/ admits[work.at] = Nil \/ work.as \notin admits[work.at]
               \/ ~MayOwn(work.as, work.at) /\ (Ghosts(work.at) # {} => work.at \in lost')
  BY ProgramRouteParts
<1>2. SUFFICES ASSUME NEW l \in (Open \ lost)'
               PROVE  Cared(l)'
  BY DEF Covered
<1>3. l \in Listeners /\ l \in Open \ lost /\ Cared(l) /\ admits[l] # Nil
  BY <1>1, WorkerOpen DEF Open
<1>4. (\A w \in Routes : Grown(w)) /\ UNCHANGED <<nlbSets, targets>>
  BY <1>1, UnwrittenRestated, RestatedGrown DEF lbs
<1>5. /\ Busy' /\ SameErrand(work, work')
      /\ \/ work'.pc \in {"set", "reject", "forget"}
         \/ work'.pc = "clean" /\ work'.then \in {"reject", "forget"}
      /\ Accepted(work') \/ OnErrand("reject") \/ work.as \notin endpoints
  BY <1>1 DEF Resolving, Swept, OnErrand, Accepted, Sweeping, Cleans
<1>6. ~Detaching(work') /\ work'.pc # "release"
  BY <1>5 DEF Detaching, Detaches, Cleans
<1>7. ASSUME NEW r \in Claimants(cache, l),
             Live(server[r]), r \in admits[l] \cap endpoints, work.route = r,
             Pursues(work, l), ~Pursues(work', l)
      PROVE  Attended(r, l)' \/ Hander(l)
  <2>1. r \in Routes /\ ~work.copy.deleting /\ work.as = r
    BY <1>1, <1>7, WorkerKnows DEF Programs
  <2>2. work.at = l /\ ~Accepted(work')
    BY <1>1, <1>5, <1>6, <1>7, <2>1 DEF Pursues, SameErrand, Sweeping, Cleans
  <2>3. OnErrand("reject")
    BY <1>5, <1>7, <2>1, <2>2
  <2>4. ~MayOwn(r, l) /\ Ghosts(l) = {}
    <3>1. ~(Resolving \/ Swept) \/ ~MayOwn(r, l)
      BY <1>7, <2>1, <2>2 DEF Resolving, Swept, Accepted
    <3>. QED
      BY <1>1, <1>2, <1>3, <1>7, <2>1, <2>2, <3>1
  <2>5. Hander(l) \/ \E x \in Claimants(server, l) : x < r
    BY <1>1, <1>3, <2>1, <2>2, <2>4, RivalCares
  <2>6. Claimants(server, l)' = Claimants(server, l)
    BY <1>1 DEF Claimants
  <2>. QED
    BY <2>5, <2>6 DEF Attended
<1>. QED
  BY <1>1, <1>3, <1>4, <1>5, <1>6, <1>7, Untouched, ErrandCares DEF SameErrand

\* What a route had on the other kind of load balancer is gone, and the informers will say so.
LEMMA ForgetCovered ==
  ASSUME Typed, Fitting, Covered, Forget
  PROVE  Covered'
<1>1. /\ Busy /\ work.pc = "forget" /\ UNCHANGED <<lbs, lost>> /\ NoEvent /\ Resolving
      /\ server[work.as] = work.asCopy
      /\ IF work.at \in Terminating
         THEN server'[work.as].nlb = {} ELSE ~server'[work.as].albHeld
  BY ForgetParts
<1>2. SUFFICES ASSUME NEW l \in (Open \ lost)'
               PROVE  Cared(l)'
  BY DEF Covered
<1>3. l \in Listeners /\ l \in Open \ lost /\ Cared(l)
  BY <1>1, WorkerOpen
<1>4. (\A w \in Routes : Grown(w)) /\ UNCHANGED <<nlbSets, targets>>
  BY <1>1, ForgetGrown DEF lbs
<1>5. ~Detaching(work') /\ work'.pc # "release"
  BY <1>1 DEF Resolving, Detaching, Detaches, Cleans
<1>6. ASSUME NEW r \in Claimants(cache, l),
             Live(server[r]), r \in admits[l] \cap endpoints, work.route = r,
             Pursues(work, l), ~Pursues(work', l)
      PROVE  Attended(r, l)'
  <2>1. r \in Routes /\ cache[r] # Nil /\ ~work.copy.deleting /\ work.as = r
    BY <1>1, <1>6, WorkerKnows DEF Programs, Claimants
  <2>2. Marks(server'[r]) # Marks(server[r])
    <3>1. IF work.at \in Terminating THEN server[r].nlb # {} ELSE server[r].albHeld
      BY <1>1, <2>1, WorkerKnows DEF Fits, Sweeping
    <3>. QED
      BY <1>1, <2>1, <3>1, MarksSay
  <2>3. r \in queue \/ Marks(cache[r]) # Marks(server'[r])
    BY <1>4, <1>6, <2>1, <2>2 DEF Grown, Live
  <2>. QED
    BY <1>1, <2>3 DEF Attended, Marks, NoEvent
<1>. QED
  BY <1>1, <1>3, <1>4, <1>5, <1>6, Untouched, ErrandCares DEF Resolving, SameErrand

LEMMA RecordCovered ==
  ASSUME Typed, Fitting, Covered, SetProgrammed \/ ReconcileBackendSet
  PROVE  Covered'
<1>1. /\ Busy /\ work.pc \in {"set", "record"} /\ UNCHANGED <<nlbSets, targets, lost>> /\ NoEvent
      /\ Busy' /\ SameErrand(work, work') /\ work'.pc \in {"listen", "report"}
      /\ \A w \in Routes : Grown(w)
  BY RecordParts, RecordGrown, MakeParts, UnwrittenRestated, RestatedGrown DEF OnErrand, lbs
<1>2. SUFFICES ASSUME NEW l \in (Open \ lost)'
               PROVE  Cared(l)'
  BY DEF Covered
<1>3. l \in Listeners /\ l \in Open \ lost /\ Cared(l)
  BY <1>1, WorkerOpen
<1>4. Pursues(work, l) => Pursues(work', l)
  BY <1>1 DEF Pursues, SameErrand, Detaching, Detaches, Accepted, Sweeping, Cleans
<1>5. ~Detaching(work') /\ work'.pc # "release"
  BY <1>1 DEF Detaching, Detaches, Cleans
<1>. QED
  BY <1>1, <1>3, <1>4, <1>5, Untouched, ErrandCares DEF SameErrand

\* A listener is given to a route: the older ones are queued, and for the younger ones it is
\* the one to be served.
LEMMA ServeCovered ==
  ASSUME Typed, Fitting, Covered, UpdateNLBBackendSet \/ ReconcileTLSListener
  PROVE  Covered'
<1>1. /\ Busy /\ work.pc \in {"set", "listen"} /\ UNCHANGED server /\ NoEvent /\ OnErrand("record")
      /\ work.at \in Listeners /\ lost \subseteq lost'
      /\ work.at \in lost' \/ ~Outsider(work.as, work.at)
      /\ \A l \in Listeners : l # work.at =>
           /\ \A r \in Routes : Serves(r, l)' <=> Serves(r, l)
           /\ Bare(l)' <=> Bare(l)
  <2>1. CASE UpdateNLBBackendSet
    <3>1. /\ Busy /\ work.pc = "set" /\ UNCHANGED <<server, targets>> /\ NoEvent
          /\ OnErrand("record") /\ work.at \in Listeners \ Terminating /\ lost \subseteq lost'
          /\ work.at \in lost' \/ ~Outsider(work.as, work.at)
          /\ nlbSets'[work.at] = {work.as}
          /\ \A l \in Listeners \ Terminating : l # work.at => nlbSets'[l] = nlbSets[l]
      BY <2>1, UpdateParts
    <3>2. work'.at = work.at
      BY <3>1 DEF OnErrand, SameErrand
    <3>. QED
      BY <3>1, <3>2 DEF Serves, Bare
  <2>2. CASE ReconcileTLSListener
    <3>1. /\ Busy /\ work.pc = "listen" /\ UNCHANGED <<server, nlbSets>> /\ NoEvent
          /\ OnErrand("record") /\ work.at \in Terminating /\ lost \subseteq lost'
          /\ work.at \in lost' \/ ~Outsider(work.as, work.at)
          /\ targets'[work.at] = work.as
          /\ \A l \in Terminating : l # work.at => targets'[l] = targets[l]
      BY <2>2, ListenParts
    <3>2. work'.at = work.at
      BY <3>1 DEF OnErrand, SameErrand
    <3>. QED
      BY <3>1, <3>2 DEF Serves, Bare
  <2>. QED
    BY <2>1, <2>2
<1>2. SUFFICES ASSUME NEW l \in (Open \ lost)'
               PROVE  Cared(l)'
  BY DEF Covered
<1>3. l \in Listeners /\ l \in Open \ lost /\ Cared(l)
  BY <1>1, WorkerOpen
<1>4. \A w \in Routes : Grown(w)
  BY <1>1, UnwrittenRestated, RestatedGrown
<1>5. /\ Busy' /\ work'.route = work.route /\ work'.copy = work.copy /\ work'.todo = work.todo
      /\ work'.at = work.at /\ work'.pc = "record"
  BY <1>1 DEF OnErrand, SameErrand
<1>6. ~Detaching(work')
  BY <1>5 DEF Detaching, Detaches, Cleans
<1>7. Pursues(work, l) => Pursues(work', l)
  BY <1>1, <1>5, <1>6 DEF Pursues, Accepted, Sweeping, Cleans
<1>8. CASE l # work.at
  BY <1>1, <1>3, <1>4, <1>5, <1>6, <1>7, <1>8, ErrandCares
<1>9. CASE l = work.at
  <2>1. work.as \in Claimants(server, l) /\ work.as \in Nat
    BY <1>1, <1>2, <1>9 DEF Outsider, Claimants
  <2>2. Claimants(server, l)' = Claimants(server, l)
    BY <1>1 DEF Claimants
  <2>3. ASSUME NEW r \in Claimants(cache, l), Live(server[r]), r \in admits[l] \cap endpoints
        PROVE  Attended(r, l)'
    <3>1. r \in Nat /\ r \in Routes
      BY DEF Claimants
    <3>2. CASE r < work.as
      <4>1. r \in queue
        BY <1>1, <1>9, <3>2, WorkerKnows DEF Fits, Accepted
      <4>. QED
        BY <1>1, <4>1 DEF Attended, NoEvent
    <3>3. CASE work.as < r
      BY <2>1, <2>2, <3>3 DEF Attended
    <3>4. CASE r = work.as
      <4>1. Attended(r, l)
        BY <1>3, <2>3 DEF Cared
      <4>2. Hander(l) => Hander(l)'
        <5>1. Departs(work, l) => Departs(work', l)
          BY <1>5, <1>6 DEF Departs
        <5>. QED
          BY <1>1, <1>3, <1>4, <1>5, <5>1, HanderStays DEF NoEvent, At
      <4>3. Serves(r, l)'
        <5>1. CASE UpdateNLBBackendSet
          BY <1>5, <1>9, <3>4, <5>1, UpdateParts DEF Serves
        <5>2. CASE ReconcileTLSListener
          BY <1>5, <1>9, <3>4, <5>2, ListenParts DEF Serves
        <5>. QED
          BY <5>1, <5>2
      <4>4. Busy /\ work.route = r /\ Pursues(work, l) => Attended(r, l)'
        <5>1. Pursues(work', l) => Pursues(work, l)'
          BY DEF Pursues, Detaching, Detaches, Accepted, Sweeping, Cleans
        <5>. QED
          BY <1>5, <1>7, <5>1 DEF Attended
      <4>5. UNCHANGED cache /\ queue \subseteq queue'
        BY <1>1 DEF NoEvent
      <4>. QED
        BY <1>3, <1>4, <2>3, <4>1, <4>2, <4>3, <4>4, <4>5, AttendedStays
    <3>. QED
      BY <2>1, <3>1, <3>2, <3>3, <3>4
  <2>4. /\ Claimants(cache, l)' = Claimants(cache, l)
        /\ UNCHANGED <<server, endpoints>> /\ admits' = admits
    BY <1>1 DEF Claimants, NoEvent, users
  <2>. QED
    BY <2>1, <2>2, <2>3, <2>4 DEF Cared, Live
<1>. QED
  BY <1>8, <1>9

\* A clean-up writes over another route's listener, or it leaves the one it is for to those
\* that the job is about to serve, or that are queued.
LEMMA EmptiedCares ==
  ASSUME Typed, Fitting, Aimed, Busy, Cleans(work), NEW l \in Open \ lost, NEW r \in Routes,
         r \in Claimants(cache, l), Live(server[r]), r \in admits[l] \cap endpoints,
         l \in work.names, r \in Claimants(server, l), Serves(r, l), ~ServedToAnother(l)
  PROVE  \/ r \in queue
         \/ \E x \in Claimants(server, l) : x < r
         \/ work.route = r /\ ~work.copy.deleting /\ ~Detaching(work) /\ Sweeping(work)
<1>1. /\ Fits(queue, work) /\ Detachment(work) /\ Planned(work)
      /\ Live(server[work.route]) => ~work.copy.deleting
      /\ work.then \in {"forget", "reject", "release", "detach"}
      /\ Aims(work)
  BY WorkerKnows, JobTypes DEF Job, Aimed
<1>2. /\ Owner(l) \in Claimants(server, l) /\ \A y \in Claimants(server, l) : Owner(l) <= y
      /\ Owner(l) # Nil /\ Owner(l) \in Nat /\ r \in Nat
  <2>1. Claimants(server, l) \subseteq Routes /\ Claimants(server, l) # {}
    BY DEF Claimants
  <2>. QED
    BY <2>1, LeastExists DEF Owner
<1>3. CASE Owner(l) # r
  BY <1>2, <1>3
<1>4. CASE Owner(l) = r
  <2>1. r = work.route \/ (r = work.as /\ l = work.at)
    BY <1>2, <1>4 DEF ServedToAnother, Serves
  <2>2. CASE r = work.route
    <3>1. ~work.copy.deleting
      BY <1>1, <2>2
    <3>2. work.then # "release"
      BY <1>1, <3>1 DEF Planned, HoldsWhereDeleted, Releases
    <3>3. CASE work.then = "detach"
      <4>1. work.copy.spec \cap Open \subseteq lost
        BY <1>1, <3>3 DEF Detachment, Detaching, Detaches
      <4>2. r \in queue \/ l \in work.copy.spec
        <5>1. Current(queue, r, work.copy)
          BY <1>1, <2>2 DEF Fits
        <5>2. l \in cache[r].spec
          BY DEF Claimants
        <5>. QED
          BY <5>1, <5>2, WatchedSays DEF Current
      <4>. QED
        BY <4>1, <4>2
    <3>4. CASE work.then = "forget"
      BY <2>2, <3>1, <3>4 DEF Detaching, Detaches, Sweeping, Cleans
    <3>5. CASE work.then = "reject"
      <4>1. work.as = r
        BY <2>2, <3>1, <3>5, WorkerKnows DEF Programs
      <4>. QED
        BY <1>1, <3>5, <4>1 DEF Fits, Rejecting
    <3>. QED
      BY <1>1, <3>2, <3>3, <3>4, <3>5
  <2>3. CASE r = work.as /\ l = work.at /\ r # work.route
    <3>1. work.then \notin {"detach", "release", "forget"}
      BY <1>1, <2>3 DEF Aims, Detaching, Detaches, Planned, HoldsWhereDeleted, Releases
    <3>2. work.then = "reject"
      BY <1>1, <3>1
    <3>. QED
      BY <1>1, <2>3, <3>2 DEF Fits, Rejecting
  <2>. QED
    BY <2>1, <2>2, <2>3
<1>. QED
  BY <1>3, <1>4

\* Listener l forwards to what it did.
Alike(l) == (\A r \in Routes : Serves(r, l)' <=> Serves(r, l)) /\ (Bare(l)' <=> Bare(l))

LEMMA CleanCovered ==
  ASSUME Typed, Effects, Fitting, Aimed, Covered,
         (\E m \in Listeners : ClearBackendSet(m) \/ DeleteListener(m)) \/ DeleteBackendSet
  PROVE  Covered'
<1>1. /\ Busy /\ Cleans(work) /\ UNCHANGED server /\ NoEvent /\ lost \subseteq lost'
      /\ Busy' /\ SameErrand(work, work')
      /\ work'.then = work.then /\ work'.pc \in {"clean", "unset", work.then}
      /\ work'.asCopy = work.asCopy
  BY ClearParts, UnlistenParts, DropParts DEF OnErrand, Cleaning, Cleans
<1>2. Planned(work)
  BY <1>1, WorkerKnows
<1>3. \A l \in Listeners :
        \/ Alike(l)
        \/ /\ l \in work.names /\ Bare(l)'
           /\ \A r \in Routes : Serves(r, l) /\ ServedToAnother(l) => l \in lost'
  <2>1. ASSUME NEW m \in Listeners, ClearBackendSet(m), NEW l \in Listeners
        PROVE  \/ Alike(l)
               \/ /\ l \in work.names /\ Bare(l)'
                  /\ \A r \in Routes : Serves(r, l) /\ ServedToAnother(l) => l \in lost'
    <3>1. /\ m \in work.names \ Terminating /\ UNCHANGED targets /\ nlbSets'[m] \in {Nil, {}}
          /\ \A k \in Listeners \ Terminating : k # m => nlbSets'[k] = nlbSets[k]
          /\ nlbSets[m] # Nil /\ ServedToAnother(m) => m \in lost'
      BY <2>1, ClearParts
    <3>2. CASE l # m
      BY <3>1, <3>2 DEF Alike, Serves, Bare
    <3>3. CASE l = m
      <4>1. \A r \in Routes : {r} # Nil
        BY NilAssumption
      <4>. QED
        BY <3>1, <3>3, <4>1 DEF Serves, Bare
    <3>. QED
      BY <3>2, <3>3
  <2>2. ASSUME NEW m \in Listeners, DeleteListener(m), NEW l \in Listeners
        PROVE  \/ Alike(l)
               \/ /\ l \in work.names /\ Bare(l)'
                  /\ \A r \in Routes : Serves(r, l) /\ ServedToAnother(l) => l \in lost'
    <3>1. /\ m \in work.names \cap Terminating /\ UNCHANGED nlbSets /\ targets'[m] = Nil
          /\ \A k \in Terminating : k # m => targets'[k] = targets[k]
          /\ ServedToAnother(m) => m \in lost'
      BY <2>2, UnlistenParts
    <3>. QED
      BY <3>1 DEF Alike, Serves, Bare
  <2>3. CASE DeleteBackendSet
    BY <2>3, DropParts DEF Alike, Serves, Bare
  <2>. QED
    BY <2>1, <2>2, <2>3
<1>4. work'.pc = "release" => Bare(work.at)' /\ work.at \in Listeners /\ work.then = "release"
  <2>1. SUFFICES ASSUME work'.pc = "release"
                 PROVE  Bare(work.at)' /\ work.at \in Listeners /\ work.then = "release"
    OBVIOUS
  <2>2. work.then = "release" /\ work.at \in Listeners /\ work'.at = work.at
    BY <1>1, <1>2, <2>1, JobTypes DEF Job, Planned, HoldsWhereDeleted, Releases, SameErrand
  <2>3. CASE \E m \in Listeners : ClearBackendSet(m)
    <3>1. PICK m \in Listeners : ClearBackendSet(m)
      BY <2>3
    <3>2. m = work.at
      BY <1>1, <1>2, <2>2, <3>1, ClearParts DEF Planned, CleansReleased
    <3>. QED
      BY <2>2, <3>1, <3>2, ClearParts DEF Bare
  <2>4. CASE \E m \in Listeners : DeleteListener(m)
    BY <2>1, <2>4, UnlistenParts DEF OnErrand
  <2>5. CASE DeleteBackendSet
    <3>1. work.pc = "unset" /\ Busy /\ UNCHANGED targets
      BY <2>5, DropParts
    <3>2. work.at \in Terminating
      BY <1>2, <2>2, <3>1 DEF Planned, CleansReleased
    <3>3. targets[work.at] = Nil
      BY <2>2, <3>1 DEF Effects, ListenerGone, At
    <3>. QED
      BY <2>2, <3>1, <3>2, <3>3 DEF Bare
  <2>. QED
    BY <2>2, <2>3, <2>4, <2>5
<1>5. SUFFICES ASSUME NEW l \in (Open \ lost)'
               PROVE  Cared(l)'
  BY DEF Covered
<1>6. l \in Listeners /\ l \in Open \ lost /\ Cared(l) /\ l \notin lost'
  BY <1>1, WorkerOpen
<1>7. /\ Claimants(cache, l)' = Claimants(cache, l)
      /\ UNCHANGED <<server, cache, endpoints, queue>> /\ admits' = admits
      /\ Claimants(server, l)' = Claimants(server, l)
  BY <1>1 DEF Claimants, NoEvent, users
<1>8. CASE work'.pc = "release" /\ work.at = l
  <2>0. Cleans(work) /\ work.then = "release"
    BY <1>1, <1>4, <1>8
  <2>1. /\ work.copy.deleting /\ Fits(queue, work)
        /\ Live(server[work.route]) => ~work.copy.deleting
    BY <1>1, <1>2, <2>0, WorkerKnows DEF Planned, HoldsWhereDeleted, Releases
  <2>2. Claimants(cache, l) \ {work.route} \subseteq queue
    BY <1>8, <2>0, <2>1 DEF Fits
  <2>3. ASSUME NEW r \in Claimants(cache, l), Live(server[r])
        PROVE  Attended(r, l)'
    <3>1. r \in queue
      BY <2>1, <2>2, <2>3
    <3>. QED
      BY <1>7, <3>1 DEF Attended
  <2>4. Bare(l)'
    <3>1. PICK k : k = work.at
      OBVIOUS
    <3>2. work'.at = work.at
      BY <1>1 DEF SameErrand
    <3>. QED
      BY <1>4, <1>8, <3>2 DEF Bare
  <2>. QED
    BY <1>7, <2>3, <2>4 DEF Cared, Live
<1>9. CASE ~(work'.pc = "release" /\ work.at = l)
  <2>1. work'.route = work.route /\ work'.copy = work.copy /\ work'.todo = work.todo
        /\ work'.at = work.at
    BY <1>1 DEF SameErrand
  <2>2. Detaching(work') <=> Detaching(work)
    <3>1. work.then \in {"forget", "reject", "release", "detach"}
      BY <1>1, JobTypes DEF Job
    <3>. QED
      BY <1>1, <3>1 DEF Detaching, Detaches, Cleans
  <2>3. Pursues(work, l) => Pursues(work', l)
    <3>1. Sweeping(work) => Sweeping(work')
      BY <1>1 DEF Sweeping, Cleans
    <3>2. Accepted(work) => Accepted(work')
      BY <1>1, <3>1 DEF Accepted, Cleans
    <3>. QED
      BY <1>1, <2>1, <2>2, <3>1, <3>2 DEF Pursues, Cleans
  <2>4. \A w \in Routes : Grown(w)
    BY <1>1, UnwrittenRestated, RestatedGrown
  <2>5. CASE Alike(l)
    BY <1>1, <1>6, <1>9, <2>1, <2>2, <2>3, <2>4, <2>5, ErrandCares DEF Alike, Cleans
  <2>6. CASE ~Alike(l)
    <3>1. /\ l \in work.names /\ Bare(l)'
          /\ \A r \in Routes : Serves(r, l) => ~ServedToAnother(l)
      BY <1>3, <1>6, <2>6
    <3>2. Hander(l) => Hander(l)'
      <4>1. Departs(work, l) => Departs(work', l)
        BY <2>1, <2>2 DEF Departs
      <4>. QED
        BY <1>1, <1>6, <1>9, <2>1, <2>4, <4>1, HanderStays DEF NoEvent, At, Cleans
    <3>3. ASSUME NEW r \in Claimants(cache, l), Live(server[r]), r \in admits[l] \cap endpoints
          PROVE  /\ Busy /\ work.route = r /\ Pursues(work, l) => Attended(r, l)'
                 /\ r \in Claimants(server, l) /\ Serves(r, l) => Attended(r, l)'
      <4>1. r \in Routes
        BY DEF Claimants
      <4>2. Pursues(work', l) => Pursues(work, l)'
        BY DEF Pursues, Detaching, Detaches, Accepted, Sweeping, Cleans
      <4>3. work.route = r /\ Pursues(work, l) => Attended(r, l)'
        BY <1>1, <2>1, <2>3, <4>2 DEF Attended
      <4>4. ASSUME r \in Claimants(server, l), Serves(r, l)
            PROVE  Attended(r, l)'
        <5>1. \/ r \in queue
              \/ \E x \in Claimants(server, l) : x < r
              \/ work.route = r /\ ~work.copy.deleting /\ ~Detaching(work) /\ Sweeping(work)
          BY <1>1, <1>6, <3>1, <3>3, <4>1, <4>4, EmptiedCares
        <5>2. Sweeping(work) /\ ~work.copy.deleting /\ ~Detaching(work) => Pursues(work, l)
          BY DEF Pursues
        <5>. QED
          BY <1>7, <4>3, <5>1, <5>2 DEF Attended
      <4>. QED
        BY <4>3, <4>4
    <3>4. admits'[l] = admits[l] /\ UNCHANGED <<cache, endpoints>> /\ queue \subseteq queue'
      BY <1>7
    <3>. QED
      BY <1>6, <2>4, <3>1, <3>2, <3>3, <3>4, CaredStays
  <2>. QED
    BY <2>5, <2>6
<1>. QED
  BY <1>8, <1>9

\* A listener that serves a recorded route, or one that will hand it over, is cared for.
LEMMA RecordedCares ==
  ASSUME Typed, Fitting, Heir, Marked, Report, NEW l \in Listeners, l = work.at, l \in Open,
         l \in lost => Owner(l) = work.as /\ Served(work.as, l)
  PROVE  Cared(l)'
<1>1. /\ Typed' /\ Busy /\ work.pc = "report" /\ UNCHANGED lbs /\ NoEvent /\ Restated
      /\ server[work.as] # Nil
      /\ \/ work.as = work.route /\ work' \in Turns(work)
         \/ work.as # work.route /\ Busy' /\ work'.pc = "release" /\ work'.route = work.route
  BY ReportParts
<1>2. /\ Fits(queue, work) /\ Planned(work) /\ work.as \in Routes /\ work.as \in Nat
      /\ work.as # Nil
  BY <1>1, WorkerKnows
<1>3. /\ Claimants(server, l)' = Claimants(server, l)
      /\ Claimants(cache, l)' = Claimants(cache, l)
      /\ \A w \in Routes : Grown(w)
  BY <1>1, RestatedGrown, GrownClaims DEF Claimants, NoEvent
<1>4. /\ Serves(work.as, l)
      /\ work.as \in Claimants(server, l) \/ (Departing(work.as, l) /\ Noted(work.as))
  <2>1. CASE l \in lost
    <3>1. Serves(work.as, l)
      BY <2>1 DEF Served, Serves
    <3>2. Claimants(server, l) # {} /\ Owner(l) = Min(Claimants(server, l))
      BY <1>2, <2>1 DEF Owner
    <3>3. Owner(l) \in Claimants(server, l)
      <4>1. Claimants(server, l) \subseteq Nat
        BY DEF Claimants
      <4>. QED
        BY <3>2, <4>1, LeastExists
    <3>. QED
      BY <2>1, <3>1, <3>3
  <2>2. CASE l \notin lost
    BY <1>1, <2>2 DEF Heir, At
  <2>. QED
    BY <2>1, <2>2
<1>5. CASE work.as \in Claimants(server, l)
  <2>1. ASSUME NEW r \in Claimants(cache, l)
        PROVE  Attended(r, l)'
    <3>1. r \in Nat
      BY DEF Claimants
    <3>2. CASE r < work.as
      <4>1. r \in queue
        BY <1>1, <1>2, <3>2 DEF Fits, Accepted
      <4>. QED
        BY <1>1, <4>1 DEF Attended, NoEvent
    <3>3. CASE work.as < r
      BY <1>3, <1>5, <3>3 DEF Attended
    <3>4. CASE r = work.as
      <4>1. RecordedAt(server[r], l)
        BY <1>1, <3>4 DEF Marked, At
      <4>2. Marks(server'[r]) = Marks(server[r])
        BY <1>1, <1>2, <3>4 DEF Restated
      <4>3. RecordedAt(server'[r], l)
        BY <4>1, <4>2, SameHolds
      <4>4. Serves(r, l)'
        BY <1>1, <1>4, <3>4 DEF Serves, lbs
      <4>. QED
        BY <1>3, <1>5, <3>4, <4>3, <4>4 DEF Attended, RecordedAt
    <3>. QED
      BY <1>2, <3>1, <3>2, <3>3, <3>4
  <2>. QED
    BY <1>3, <1>5, <2>1 DEF Cared
<1>6. CASE Departing(work.as, l) /\ Noted(work.as)
  <2>0. PICK w \in Routes : w = work.as
    BY <1>2
  <2>1. Departing(w, l)' /\ Noted(w)'
    BY <1>1, <1>3, <1>6, <2>0, DepartingStays, NotedStays DEF NoEvent, Departing
  <2>2. ~Handed(w, l)'
    <3>1. CASE work' \in Turns(work) /\ work.as = work.route
      <4>1. ~At("release")'
        BY <1>2, <3>1, TurnsSay DEF At, Busy, Planned, ProgramsClaimant, Programs
      <4>. QED
        BY <4>1 DEF Handed
    <3>2. CASE work.as # work.route /\ work'.route = work.route
      BY <2>0, <3>2 DEF Handed
    <3>. QED
      BY <1>1, <3>1, <3>2
  <2>3. Hander(l)'
    BY <2>1, <2>2 DEF Hander, Leaves
  <2>. QED
    BY <1>3, <2>3 DEF Cared, Attended
<1>. QED
  BY <1>4, <1>5, <1>6

LEMMA ReportCovered ==
  ASSUME Typed, Fitting, Heir, Marked, Covered, Report
  PROVE  Covered'
<1>1. /\ Busy /\ work.pc = "report" /\ UNCHANGED lbs /\ NoEvent /\ Restated
      /\ \/ work.as = work.route /\ work' \in Turns(work)
         \/ /\ work.as # work.route /\ Busy' /\ work'.pc = "release"
            /\ work'.route = work.route /\ work'.as = work.route /\ work'.at = work.at
            /\ work'.copy = work.copy /\ work'.todo = work.todo
      /\ \/ lost' = lost
         \/ /\ lost' = lost \ {work.at}
            /\ Owner(work.at) = work.as /\ Served(work.as, work.at)
  BY ReportParts
<1>2. SUFFICES ASSUME NEW l \in (Open \ lost)'
               PROVE  Cared(l)'
  BY DEF Covered
<1>3. l \in Listeners /\ l \in Open /\ (l \in lost => l = work.at /\ lost' = lost \ {work.at})
  BY <1>1 DEF NoEvent, users, Open
<1>4. CASE l = work.at
  BY <1>1, <1>2, <1>3, <1>4, RecordedCares
<1>5. CASE l # work.at
  <2>1. Cared(l)
    BY <1>3, <1>5 DEF Covered
  <2>2. /\ \A w \in Routes : Grown(w)
        /\ UNCHANGED <<nlbSets, targets>>
    BY <1>1, RestatedGrown DEF lbs
  <2>3. ~Detaching(work) /\ ~Sweeping(work) /\ Programs(work)
    BY <1>1 DEF Detaching, Detaches, Sweeping, Cleans, Programs
  <2>4. CASE work.as = work.route
    <3>1. ~work.copy.deleting
      BY <1>1, <2>3, <2>4, WorkerKnows
    <3>. QED
      BY <1>1, <1>3, <1>5, <2>1, <2>2, <2>3, <2>4, <3>1, TurnsCares
  <2>5. CASE work.as # work.route
    <3>1. work.copy.deleting
      BY <1>1, <2>3, <2>5, WorkerKnows
    <3>2. ~Pursues(work, l) /\ ~Detaching(work')
      BY <1>1, <2>5, <3>1 DEF Pursues, Detaching, Detaches, Cleans
    <3>. QED
      BY <1>1, <1>3, <1>5, <2>1, <2>2, <2>5, <3>2, Untouched, ErrandCares
  <2>. QED
    BY <2>4, <2>5
<1>. QED
  BY <1>4, <1>5

\* A deleted route goes, or loses a finalizer: others hand over its listeners, or serve them.
LEMMA ReleaseCovered ==
  ASSUME Typed, Fitting, Covered, RemoveFinalizer
  PROVE  Covered'
<1>. DEFINE x == work.route
<1>1. /\ Busy /\ work.pc = "release" /\ work.copy.deleting
      /\ UNCHANGED lbs /\ NoEvent /\ work' \in Turns(work)
      /\ server[x] # Nil /\ server[x] = work.copy
      /\ \A w \in Routes \ {x} : server'[w] = server[w]
      /\ server'[x] # Nil => server'[x].deleting
      /\ work.copy.spec \ {work.at} \subseteq lost' /\ lost \subseteq lost'
  BY RemoveFinalizerParts
<1>2. x \in Routes /\ Planned(work)
  BY <1>1, WorkerKnows
<1>. HIDE DEF x
<1>3. SUFFICES ASSUME NEW l \in (Open \ lost)'
               PROVE  Cared(l)'
  BY DEF Covered
<1>4. l \in Listeners /\ l \in Open \ lost /\ Cared(l)
  BY <1>1, WorkerOpen
<1>5. /\ Claimants(server, l)' = Claimants(server, l)
      /\ Claimants(cache, l)' = Claimants(cache, l)
      /\ UNCHANGED <<cache, endpoints, queue, nlbSets, targets>> /\ admits' = admits
      /\ \A r \in Routes : Live(server'[r]) => r # x /\ Live(server[r])
  BY <1>1 DEF Claimants, NoEvent, users, lbs, Live
<1>6. ~At("release")'
  BY <1>1, <1>2, TurnsSay DEF At, Busy
<1>7. Hander(l) => Hander(l)'
  <2>1. SUFFICES ASSUME NEW w \in Routes, Leaves(w, l), ~Handed(w, l)
                 PROVE  Hander(l)'
    BY DEF Hander
  <2>2. w # x
    <3>1. SUFFICES ASSUME w = x PROVE FALSE
      OBVIOUS
    <3>2. l \in work.copy.spec
      BY <1>1, <2>1, <3>1 DEF Leaves, Departing
    <3>3. l = work.at
      BY <1>1, <1>3, <3>2
    <3>. QED
      BY <1>1, <2>1, <3>1, <3>3 DEF Handed, At, x
  <2>3. Departing(w, l) /\ Noted(w)
    BY <2>1, <2>2 DEF Leaves, x
  <2>4. Departing(w, l)' /\ Noted(w)'
    BY <1>1, <1>5, <2>2, <2>3 DEF Departing, Noted, Holds, Watched
  <2>. QED
    BY <1>6, <2>4 DEF Hander, Leaves, Handed
<1>8. ASSUME NEW r \in Claimants(cache, l), Live(server[r])', r \in admits[l] \cap endpoints
      PROVE  Attended(r, l)'
  <2>1. r \in Routes /\ r # x /\ Live(server[r]) /\ server'[r] = server[r]
    BY <1>1, <1>5, <1>8 DEF Claimants, Live
  <2>2. Attended(r, l)
    BY <1>4, <1>8, <2>1 DEF Cared
  <2>3. ~(Busy /\ work.route = r /\ Pursues(work, l))
    BY <2>1 DEF x
  <2>. QED
    BY <1>5, <1>7, <2>1, <2>2, <2>3 DEF Attended, Serves, RecordedAt, Marks
<1>9. Bare(l)' <=> Bare(l)
  BY <1>5 DEF Bare
<1>. QED
  BY <1>4, <1>5, <1>7, <1>8, <1>9 DEF Cared

LEMMA DetachCovered ==
  ASSUME Typed, Fitting, Covered, RemoveDetachedFinalizers
  PROVE  Covered'
<1>. DEFINE x == work.route
<1>1. /\ Busy /\ work.pc = "detach" /\ UNCHANGED <<lbs, lost>> /\ NoEvent /\ work' = Idle
      /\ server[x] # Nil /\ server[x] = work.copy
      /\ \A w \in Routes \ {x} : server'[w] = server[w]
      /\ \/ server'[x] = Nil /\ server[x].deleting
         \/ /\ server'[x] # Nil /\ server'[x].spec = server[x].spec
            /\ server'[x].deleting = server[x].deleting
            /\ Marks(server'[x]) # Marks(server[x])
  BY RemoveDetachedParts
<1>2. /\ x \in Routes /\ Detaching(work) /\ Current(queue, x, work.copy)
      /\ work.copy.spec \cap Open \subseteq lost
  BY <1>1, WorkerKnows DEF Fits, Detachment, Detaching, Detaches
<1>. HIDE DEF x
<1>3. SUFFICES ASSUME NEW l \in (Open \ lost)'
               PROVE  Cared(l)'
  BY DEF Covered
<1>4. l \in Listeners /\ l \in Open \ lost /\ Cared(l)
  BY <1>1, WorkerOpen
<1>5. /\ Claimants(server, l)' = Claimants(server, l)
      /\ Claimants(cache, l)' = Claimants(cache, l)
      /\ UNCHANGED <<cache, endpoints, queue, nlbSets, targets>> /\ admits' = admits
      /\ \A r \in Routes : Live(server'[r]) => Live(server[r])
  BY <1>1 DEF Claimants, NoEvent, users, lbs, Live
<1>6. ~Busy'
  BY <1>1 DEF Busy
<1>7. Hander(l) => Hander(l)'
  <2>1. SUFFICES ASSUME NEW w \in Routes, Leaves(w, l), ~Handed(w, l)
                 PROVE  Hander(l)'
    BY DEF Hander
  <2>2. Departing(w, l) /\ Noted(w)
    BY <1>2, <2>1 DEF Leaves, Departs
  <2>3. w # x
    BY <1>1, <1>2, <1>4, <2>2 DEF Departing
  <2>4. Departing(w, l)' /\ Noted(w)'
    BY <1>1, <1>5, <2>2, <2>3 DEF Departing, Noted, Holds, Watched
  <2>. QED
    BY <1>6, <2>4 DEF Hander, Leaves, Handed, At
<1>8. ASSUME NEW r \in Claimants(cache, l), Live(server[r])', r \in admits[l] \cap endpoints
      PROVE  Attended(r, l)'
  <2>1. r \in Routes /\ Live(server[r])
    BY <1>5, <1>8 DEF Claimants
  <2>2. CASE r = x
    <3>1. r \in queue \/ Marks(cache[r]) = Marks(server[r])
      BY <1>1, <1>2, <2>2, WatchedSays DEF Current
    <3>2. Marks(server'[r]) # Marks(server[r])
      BY <1>1, <1>8, <2>1, <2>2 DEF Live
    <3>3. r \in queue \/ Marks(cache[r]) # Marks(server'[r])
      BY <3>1, <3>2
    <3>. QED
      BY <1>5, <3>3 DEF Attended, Marks
  <2>3. CASE r # x
    <3>1. Attended(r, l) /\ ~Pursues(work, l) /\ server'[r] = server[r]
      BY <1>1, <1>2, <1>4, <1>8, <2>1, <2>3 DEF Cared, Pursues
    <3>. QED
      BY <1>5, <1>7, <2>1, <3>1 DEF Attended, Serves, RecordedAt, Marks
  <2>. QED
    BY <2>2, <2>3
<1>9. Bare(l)' <=> Bare(l)
  BY <1>5 DEF Bare
<1>. QED
  BY <1>4, <1>5, <1>7, <1>8, <1>9 DEF Cared

----------------------------------------------------------------------------
(* Every listener is cared for: new requests, failures, and the others.    *)

\* A request begins with what the informers have.
LEMMA TakeCovered ==
  ASSUME Typed, Fitting, Covered, NEW r \in Routes, Take(r)
  PROVE  Covered'
<1>1. /\ ~Busy /\ queue' = queue \ {r}
      /\ UNCHANGED <<server, cache, endpoints, admits, there, nlbSets, targets, lost>>
  BY DEF Take, NoServerWrite, users, lbs
<1>2. SUFFICES ASSUME NEW l \in (Open \ lost)'
               PROVE  Cared(l)'
  BY DEF Covered
<1>3. l \in Listeners /\ l \in Open /\ Cared(l)
  BY <1>1 DEF Open, Covered
<1>4. ASSUME cache[r] # Nil, l \in cache[r].spec,
             cache[r].deleting => Holds(cache[r], l)
      PROVE  /\ Busy' /\ work'.route = r
             /\ cache[r].deleting => Departs(work', l)
             /\ ~cache[r].deleting => Pursues(work', l)
  <2>. DEFINE new == NewJob(r)
  <2>1. Planned(new)
    BY <1>4, NewJobPlanned DEF Typed
  <2>2. new.route = r /\ new.copy = cache[r] /\ l \in new.todo
    BY <1>3, <1>4 DEF NewJob
  <2>. HIDE DEF new
  <2>3. work' \in Turns(new)
    BY <1>4, <2>2 DEF Take, new
  <2>. QED
    BY <1>4, <2>1, <2>2, <2>3, TurnsReach DEF Busy
<1>5. Hander(l) => Hander(l)'
  <2>1. SUFFICES ASSUME NEW w \in Routes, Leaves(w, l)
                 PROVE  Hander(l)'
    BY DEF Hander
  <2>2. Departing(w, l) /\ Noted(w)
    BY <1>1, <2>1 DEF Leaves
  <2>3. Departing(w, l)' /\ ~Handed(w, l)'
    <3>1. ~At("release")'
      BY TakeTyped DEF At, Busy, Late
    <3>. QED
      BY <1>1, <2>2, <3>1 DEF Departing, Holds, Handed
  <2>4. Noted(w)' \/ (Busy' /\ work'.route = w /\ Departs(work', l))
    <3>1. CASE Noted(w)'
      BY <3>1
    <3>2. CASE ~Noted(w)'
      <4>1. w = r /\ cache[r] # Nil /\ Watched(cache[r]) = Watched(server[r])
        BY <1>1, <2>2, <3>2 DEF Noted, Watched
      <4>2. l \in cache[r].spec /\ cache[r].deleting /\ Holds(cache[r], l)
        BY <2>2, <4>1, WatchedSays, SameHolds DEF Departing
      <4>. QED
        BY <1>4, <4>1, <4>2
    <3>. QED
      BY <3>1, <3>2
  <2>5. Departs(work', l) => Departs(work, l)'
    BY DEF Departs, Detaching, Detaches, Cleans, Holds
  <2>. QED
    BY <2>3, <2>4, <2>5 DEF Hander, Leaves
<1>6. ASSUME NEW y \in Claimants(cache, l), Live(server[y]), y \in admits[l] \cap endpoints
      PROVE  Attended(y, l)'
  <2>1. /\ Attended(y, l) /\ y \in Routes
        /\ cache[y] # Nil /\ ~cache[y].deleting /\ l \in cache[y].spec
    BY <1>3, <1>6 DEF Cared, Claimants
  <2>2. CASE y \in queue
    <3>1. CASE y = r
      <4>1. Busy' /\ work'.route = y /\ Pursues(work', l)
        BY <1>4, <2>1, <3>1
      <4>2. Pursues(work', l) => Pursues(work, l)'
        BY DEF Pursues, Detaching, Detaches, Accepted, Sweeping, Cleans
      <4>. QED
        BY <4>1, <4>2 DEF Attended
    <3>2. CASE y # r
      BY <1>1, <2>2, <3>2 DEF Attended
    <3>. QED
      BY <3>1, <3>2
  <2>3. CASE y \notin queue
    BY <1>1, <1>5, <2>1, <2>3 DEF Attended, Claimants, Serves, RecordedAt, Marks
  <2>. QED
    BY <2>2, <2>3
<1>. QED
  BY <1>1, <1>3, <1>5, <1>6 DEF Cared, Claimants, Live, Bare

LEMMA FailCovered ==
  ASSUME Typed, Fitting, Covered, Fail
  PROVE  Covered'
<1>1. /\ Busy /\ ~Busy' /\ queue' = queue \cup {work.route}
      /\ UNCHANGED <<server, cache, endpoints, admits, there, nlbSets, targets, lost>>
  BY IdleTyped DEF Fail, NoServerWrite, users, lbs
<1>2. SUFFICES ASSUME NEW l \in (Open \ lost)'
               PROVE  Cared(l)'
  BY DEF Covered
<1>3. l \in Listeners /\ l \in Open /\ Cared(l) /\ admits'[l] = admits[l]
  BY <1>1 DEF Open, Covered
<1>4. \A w \in Routes : Grown(w)
  BY <1>1, UnwrittenRestated, RestatedGrown
<1>5. Hander(l) => Hander(l)'
  BY <1>1, <1>3, <1>4, HanderStays DEF At
<1>6. \A r \in Routes : work.route = r => Attended(r, l)'
  BY <1>1 DEF Attended
<1>7. \A r \in Claimants(cache, l) : r \in Routes
  BY DEF Claimants
<1>. QED
  BY <1>1, <1>3, <1>4, <1>5, <1>6, <1>7, Untouched, CaredStays

\* After a restart every route is queued.
LEMMA CrashCovered ==
  ASSUME Typed, Covered, Crash
  PROVE  Covered'
<1>1. /\ ~Busy' /\ cache' = server
      /\ \A r \in Routes : server[r] # Nil => r \in queue'
      /\ UNCHANGED <<server, endpoints, admits, there, nlbSets, targets, lost>>
  BY CrashTyped DEF Crash, users, lbs
<1>2. SUFFICES ASSUME NEW l \in (Open \ lost)'
               PROVE  Cared(l)'
  BY DEF Covered
<1>3. l \in Listeners /\ l \in Open /\ Cared(l)
  BY <1>1 DEF Open, Covered
<1>4. Hander(l) => Hander(l)'
  <2>1. SUFFICES ASSUME NEW w \in Routes, Leaves(w, l)
                 PROVE  Hander(l)'
    BY DEF Hander
  <2>2. Departing(w, l)' /\ Noted(w)' /\ ~Handed(w, l)'
    BY <1>1, <2>1 DEF Leaves, Departing, Noted, Holds, Handed, At
  <2>. QED
    BY <2>2 DEF Hander, Leaves
<1>5. ASSUME NEW y \in Claimants(cache, l)'
      PROVE  Attended(y, l)'
  <2>1. y \in Routes /\ server[y] # Nil
    BY <1>1 DEF Claimants
  <2>. QED
    BY <1>1, <2>1 DEF Attended
<1>6. Claimants(server, l)' = Claimants(server, l) /\ (Bare(l)' <=> Bare(l))
  BY <1>1 DEF Claimants, Bare
<1>. QED
  BY <1>3, <1>4, <1>5, <1>6 DEF Cared

\* Who hands a listener over goes on to, whatever the others do.
LEMMA HanderOthers ==
  ASSUME UNCHANGED work, NEW l \in Listeners,
         \A w \in Routes : /\ Departing(w, l) => Departing(w, l)'
                           /\ Departing(w, l) /\ Noted(w) => Noted(w)'
  PROVE  Hander(l) => Hander(l)'
<1>1. SUFFICES ASSUME NEW w \in Routes, Leaves(w, l), ~Handed(w, l)
               PROVE  Hander(l)'
  BY DEF Hander
<1>2. ~Handed(w, l)'
  BY <1>1 DEF Handed, At, Busy
<1>3. Departs(work, l)' <=> Departs(work, l)
  BY DEF Departs, Detaching, Detaches, Cleans, Holds
<1>. QED
  BY <1>1, <1>2, <1>3 DEF Hander, Leaves, Busy

LEMMA OthersCare ==
  ASSUME UNCHANGED work, queue \subseteq queue', NEW l \in Listeners, Cared(l),
         Hander(l) => Hander(l)',
         Bare(l) => Bare(l)',
         Hander(l)' \/ Claimants(server, l) \subseteq Claimants(server, l)',
         \A y \in Claimants(cache, l)' :
           Live(server'[y]) /\ y \in admits'[l] \cap endpoints' =>
             \/ y \in queue'
             \/ /\ y \in Claimants(cache, l) /\ Live(server[y]) /\ y \in admits[l] \cap endpoints
                /\ Marks(cache'[y]) = Marks(cache[y]) /\ Marks(server'[y]) = Marks(server[y])
                /\ Serves(y, l) => Serves(y, l)'
  PROVE  Cared(l)'
<1>1. ASSUME NEW y \in Claimants(cache, l)', Live(server'[y]), y \in admits'[l] \cap endpoints',
             ~Hander(l)', y \notin queue'
      PROVE  Attended(y, l)'
  <2>1. /\ y \in Claimants(cache, l) /\ Live(server[y]) /\ y \in admits[l] \cap endpoints
        /\ Marks(cache'[y]) = Marks(cache[y]) /\ Marks(server'[y]) = Marks(server[y])
        /\ Serves(y, l) => Serves(y, l)'
    BY <1>1
  <2>2. Attended(y, l) /\ y \notin queue /\ ~Hander(l)
    BY <1>1, <2>1 DEF Cared
  <2>3. Claimants(server, l) \subseteq Claimants(server, l)'
    BY <1>1
  <2>4. CASE Marks(cache[y]) # Marks(server[y])
    BY <2>1, <2>4 DEF Attended, Marks
  <2>5. CASE Busy /\ work.route = y /\ Pursues(work, l)
    BY <2>5 DEF Attended, Busy, Pursues, Detaching, Detaches, Accepted, Sweeping, Cleans
  <2>6. CASE \E x \in Claimants(server, l) : x < y
    BY <2>3, <2>6 DEF Attended
  <2>7. CASE y \in Claimants(server, l) /\ Serves(y, l) /\ RecordedAt(server[y], l)
    <3>1. RecordedAt(server'[y], l)
      BY <2>1, <2>7, SameHolds
    <3>. QED
      BY <2>1, <2>3, <2>7, <3>1 DEF Attended, RecordedAt
  <2>. QED
    BY <2>2, <2>4, <2>5, <2>6, <2>7 DEF Attended
<1>2. ASSUME NEW y \in Claimants(cache, l)', Live(server[y])', y \in (admits[l] \cap endpoints)'
      PROVE  Attended(y, l)'
  <2>1. CASE Hander(l)' \/ y \in queue'
    BY <2>1 DEF Attended
  <2>2. CASE ~(Hander(l)' \/ y \in queue')
    BY <1>1, <1>2, <2>2 DEF Live
  <2>. QED
    BY <2>1, <2>2
<1>3. Bare(l)' \/ Claimants(server, l)' # {} \/ Hander(l)'
  BY DEF Cared
<1>. QED
  BY <1>2, <1>3 DEF Cared

LEMMA CreateCovered ==
  ASSUME Typed, Fitting, Covered, NEW r \in Routes, NEW s \in Specs, Create(r, s)
  PROVE  Covered'
<1>1. /\ cache[r] = Nil /\ server[r] = Nil
      /\ \A w \in Routes \ {r} : server'[w] = server[w]
      /\ UNCHANGED <<cache, endpoints, admits, there, nlbSets, targets, queue, work, lost>>
  BY CreateParts
<1>2. SUFFICES ASSUME NEW l \in (Open \ lost)'
               PROVE  Cared(l)'
  BY DEF Covered
<1>3. l \in Listeners /\ Cared(l)
  BY <1>1 DEF Open, Covered
<1>4. Hander(l) => Hander(l)'
  <2>1. \A w \in Routes : /\ Departing(w, l) => Departing(w, l)'
                          /\ Departing(w, l) /\ Noted(w) => Noted(w)'
    BY <1>1 DEF Departing, Noted, Holds, Watched
  <2>. QED
    BY <1>1, <1>3, <2>1, HanderOthers
<1>5. ASSUME NEW y \in Claimants(cache, l)', Live(server'[y]), y \in admits'[l] \cap endpoints'
      PROVE  /\ y \in Claimants(cache, l) /\ Live(server[y]) /\ y \in admits[l] \cap endpoints
             /\ Marks(cache'[y]) = Marks(cache[y]) /\ Marks(server'[y]) = Marks(server[y])
             /\ Serves(y, l) => Serves(y, l)'
  BY <1>1, <1>5 DEF Claimants, Live, Serves
<1>6. Claimants(server, l) \subseteq Claimants(server, l)'
  BY <1>1 DEF Claimants
<1>. QED
  BY <1>1, <1>3, <1>4, <1>5, <1>6, Untouched, OthersCare

LEMMA AttachCovered ==
  ASSUME Typed, Fitting, Covered, NEW r \in Routes, NEW s \in Specs, Attach(r, s)
  PROVE  Covered'
<1>1. /\ server[r] # Nil /\ server'[r] # Nil /\ server'[r].spec = s
      /\ ~server[r].deleting /\ ~server'[r].deleting /\ Marks(server'[r]) = Marks(server[r])
      /\ \A w \in Routes \ {r} : server'[w] = server[w]
      /\ lost \subseteq lost' /\ server[r].spec \ s \subseteq lost'
      /\ UNCHANGED <<cache, endpoints, admits, there, nlbSets, targets, queue, work>>
  BY AttachParts
<1>2. SUFFICES ASSUME NEW l \in (Open \ lost)'
               PROVE  Cared(l)'
  BY DEF Covered
<1>3. l \in Listeners /\ Cared(l) /\ l \notin lost'
  BY <1>1 DEF Open, Covered
<1>4. Hander(l) => Hander(l)'
  <2>1. \A w \in Routes : /\ Departing(w, l) => Departing(w, l)'
                          /\ Departing(w, l) /\ Noted(w) => Noted(w)'
    BY <1>1 DEF Departing, Noted, Holds, Watched
  <2>. QED
    BY <1>1, <1>3, <2>1, HanderOthers
<1>5. ASSUME NEW y \in Claimants(cache, l)', Live(server'[y]), y \in admits'[l] \cap endpoints'
      PROVE  /\ y \in Claimants(cache, l) /\ Live(server[y]) /\ y \in admits[l] \cap endpoints
             /\ Marks(cache'[y]) = Marks(cache[y]) /\ Marks(server'[y]) = Marks(server[y])
             /\ Serves(y, l) => Serves(y, l)'
  BY <1>1, <1>5 DEF Claimants, Live, Serves
<1>6. Claimants(server, l) \subseteq Claimants(server, l)'
  BY <1>1, <1>3 DEF Claimants
<1>. QED
  BY <1>1, <1>3, <1>4, <1>5, <1>6, Untouched, OthersCare

\* A deleted route with the finalizer hands over.
LEMMA DeleteCovered ==
  ASSUME Typed, Fitting, Covered, NEW r \in Routes, Delete(r)
  PROVE  Covered'
<1>1. /\ Live(server[r])
      /\ \A w \in Routes \ {r} : server'[w] = server[w]
      /\ server'[r] = Nil \/ server'[r].deleting
      /\ \A l \in server[r].spec \ lost' : Departing(r, l)' /\ Noted(r)'
      /\ lost \subseteq lost'
      /\ UNCHANGED <<cache, endpoints, admits, there, nlbSets, targets, queue, work>>
  BY DeleteParts
<1>2. SUFFICES ASSUME NEW l \in (Open \ lost)'
               PROVE  Cared(l)'
  BY DEF Covered
<1>3. l \in Listeners /\ Cared(l) /\ l \notin lost'
  BY <1>1 DEF Open, Covered
<1>4. Hander(l) => Hander(l)'
  <2>1. \A w \in Routes : /\ Departing(w, l) => Departing(w, l)'
                          /\ Departing(w, l) /\ Noted(w) => Noted(w)'
    BY <1>1 DEF Departing, Noted, Holds, Watched, Live
  <2>. QED
    BY <1>1, <1>3, <2>1, HanderOthers
<1>5. ASSUME NEW y \in Claimants(cache, l)', Live(server'[y]), y \in admits'[l] \cap endpoints'
      PROVE  /\ y \in Claimants(cache, l) /\ Live(server[y]) /\ y \in admits[l] \cap endpoints
             /\ Marks(cache'[y]) = Marks(cache[y]) /\ Marks(server'[y]) = Marks(server[y])
             /\ Serves(y, l) => Serves(y, l)'
  BY <1>1, <1>5 DEF Claimants, Live, Serves
<1>6. Hander(l)' \/ Claimants(server, l) \subseteq Claimants(server, l)'
  <2>1. CASE l \in server[r].spec
    <3>1. Departing(r, l)' /\ Noted(r)'
      BY <1>1, <1>3, <2>1
    <3>2. ~Handed(r, l)'
      <4>1. ~(At("release") /\ work.route = r)
        BY <1>1, WorkerKnows DEF At, Planned, HoldsWhereDeleted, Releases
      <4>. QED
        BY <1>1, <4>1 DEF Handed, At, Busy
    <3>. QED
      BY <3>1, <3>2 DEF Hander, Leaves
  <2>2. CASE l \notin server[r].spec
    BY <1>1, <2>2 DEF Claimants
  <2>. QED
    BY <2>1, <2>2
<1>. QED
  BY <1>1, <1>3, <1>4, <1>5, <1>6, Untouched, OthersCare

LEMMA EditCovered ==
  ASSUME Typed, Covered, \/ EditGateway \/ (\E r \in Routes : ChangeEndpoints(r))
                         \/ \E l \in Listeners, p \in {Nil, {}, Routes} : EditListener(l, p)
  PROVE  Covered'
<1>1. /\ UNCHANGED <<server, cache, nlbSets, targets, work>> /\ queue \subseteq queue'
      /\ \A w \in Routes :
           cache[w] # Nil => w \in queue' \/ (w \in endpoints' <=> w \in endpoints)
      /\ lost \subseteq lost' /\ (Open \ lost)' \subseteq Open \ lost
      /\ \A l \in (Open \ lost)' : admits'[l] = admits[l]
  BY EditParts
<1>2. SUFFICES ASSUME NEW l \in (Open \ lost)'
               PROVE  Cared(l)'
  BY DEF Covered
<1>3. l \in Listeners /\ Cared(l) /\ admits'[l] = admits[l]
  BY <1>1, <1>2 DEF Open, Covered
<1>4. Hander(l) => Hander(l)'
  <2>1. \A w \in Routes : /\ Departing(w, l) => Departing(w, l)'
                          /\ Departing(w, l) /\ Noted(w) => Noted(w)'
    BY <1>1 DEF Departing, Noted, Holds, Watched
  <2>. QED
    BY <1>1, <1>3, <2>1, HanderOthers
<1>5. ASSUME NEW y \in Claimants(cache, l)', Live(server'[y]), y \in admits'[l] \cap endpoints',
             y \notin queue'
      PROVE  /\ y \in Claimants(cache, l) /\ Live(server[y]) /\ y \in admits[l] \cap endpoints
             /\ Marks(cache'[y]) = Marks(cache[y]) /\ Marks(server'[y]) = Marks(server[y])
             /\ Serves(y, l) => Serves(y, l)'
  BY <1>1, <1>3, <1>5 DEF Claimants, Live, Serves
<1>6. Claimants(server, l) \subseteq Claimants(server, l)'
  BY <1>1 DEF Claimants
<1>. QED
  BY <1>1, <1>3, <1>4, <1>5, <1>6, Untouched, OthersCare

LEMMA SyncCovered ==
  ASSUME Typed, Covered, NEW m \in Listeners, GatewaySyncsSet(m)
  PROVE  Covered'
<1>1. /\ UNCHANGED <<server, cache, endpoints, admits, there, queue, work, lost, targets>>
      /\ m \notin Terminating /\ nlbSets'[m] \in {Nil, {}}
      /\ \A l \in Listeners \ Terminating : l # m => nlbSets'[l] = nlbSets[l]
      /\ m \in Open => nlbSets[m] = Nil
  BY SyncParts
<1>2. SUFFICES ASSUME NEW l \in (Open \ lost)'
               PROVE  Cared(l)'
  BY DEF Covered
<1>3. l \in Listeners /\ Cared(l) /\ l \in Open
  BY <1>1 DEF Open, Covered
<1>4. Hander(l) => Hander(l)'
  <2>1. \A w \in Routes : /\ Departing(w, l) => Departing(w, l)'
                          /\ Departing(w, l) /\ Noted(w) => Noted(w)'
    BY <1>1 DEF Departing, Noted, Holds, Watched
  <2>. QED
    BY <1>1, <1>3, <2>1, HanderOthers
<1>5. (\A y \in Routes : Serves(y, l) => Serves(y, l)') /\ (Bare(l) => Bare(l)')
  <2>1. \A y \in Routes : {y} # Nil
    BY NilAssumption
  <2>. QED
    BY <1>1, <1>3, <2>1 DEF Serves, Bare
<1>6. ASSUME NEW y \in Claimants(cache, l)', Live(server'[y]), y \in admits'[l] \cap endpoints'
      PROVE  /\ y \in Claimants(cache, l) /\ Live(server[y]) /\ y \in admits[l] \cap endpoints
             /\ Marks(cache'[y]) = Marks(cache[y]) /\ Marks(server'[y]) = Marks(server[y])
             /\ Serves(y, l) => Serves(y, l)'
  BY <1>1, <1>5, <1>6 DEF Claimants, Live
<1>7. Claimants(server, l) \subseteq Claimants(server, l)'
  BY <1>1 DEF Claimants
<1>. QED
  BY <1>1, <1>3, <1>4, <1>5, <1>6, <1>7, OthersCare

LEMMA ObserveCovered ==
  ASSUME Typed, Covered, NEW r \in Routes, Observe(r)
  PROVE  Covered'
<1>1. /\ UNCHANGED <<server, endpoints, admits, there, nlbSets, targets, work, lost>>
      /\ cache'[r] = server[r] /\ \A w \in Routes \ {r} : cache'[w] = cache[w]
      /\ queue \subseteq queue'
      /\ \/ r \in queue'
         \/ cache[r] # Nil /\ server[r] # Nil /\ Watched(cache[r]) = Watched(server[r])
  BY ObserveParts
<1>2. SUFFICES ASSUME NEW l \in (Open \ lost)'
               PROVE  Cared(l)'
  BY DEF Covered
<1>3. l \in Listeners /\ Cared(l)
  BY <1>1 DEF Open, Covered
<1>4. Hander(l) => Hander(l)'
  <2>1. \A w \in Routes : /\ Departing(w, l) => Departing(w, l)'
                          /\ Departing(w, l) /\ Noted(w) => Noted(w)'
    BY <1>1, ObservedNoted DEF Departing, Noted, Holds
  <2>. QED
    BY <1>1, <1>3, <2>1, HanderOthers
<1>5. ASSUME NEW y \in Claimants(cache, l)', Live(server'[y]), y \in admits'[l] \cap endpoints',
             y \notin queue'
      PROVE  /\ y \in Claimants(cache, l) /\ Live(server[y]) /\ y \in admits[l] \cap endpoints
             /\ Marks(cache'[y]) = Marks(cache[y]) /\ Marks(server'[y]) = Marks(server[y])
             /\ Serves(y, l) => Serves(y, l)'
  <2>1. y \in Routes /\ cache'[y] # Nil /\ ~cache'[y].deleting /\ l \in cache'[y].spec
    BY DEF Claimants
  <2>2. cache[y] # Nil /\ Watched(cache'[y]) = Watched(cache[y])
    BY <1>1, <1>5, <2>1
  <2>3. y \in Claimants(cache, l) /\ Marks(cache'[y]) = Marks(cache[y])
    BY <2>1, <2>2, WatchedSays DEF Claimants
  <2>. QED
    BY <1>1, <1>5, <2>1, <2>3 DEF Live, Serves
<1>6. Claimants(server, l) \subseteq Claimants(server, l)'
  BY <1>1 DEF Claimants
<1>. QED
  BY <1>1, <1>3, <1>4, <1>5, <1>6, Untouched, OthersCare

----------------------------------------------------------------------------
(* Owners are served.                                                      *)

Sheltered == Typed /\ Effects /\ Fitting /\ Aimed /\ Heir /\ Marked /\ Covered

LEMMA InitSheltered == Init => Sheltered
<1>. SUFFICES ASSUME Init PROVE Sheltered
  OBVIOUS
<1>1. Typed /\ Effects
  BY InitTyped, InitEffects
<1>2. ~Busy /\ \A r \in Routes : server[r] = Nil /\ cache[r] = Nil
  BY DEF Init, Busy
<1>3. Covered
  <2>1. ASSUME NEW l \in Open \ lost
        PROVE  Claimants(cache, l) = {} /\ Bare(l)
    <3>1. l \in Listeners
      BY DEF Open
    <3>. QED
      BY <1>2, <3>1 DEF Init, Claimants, Bare
  <2>. QED
    BY <2>1 DEF Covered, Cared
<1>4. Fitting /\ Aimed /\ Heir /\ Marked
  BY <1>2 DEF Fitting, Ages, Aimed, Heir, Marked, At
<1>. QED
  BY <1>1, <1>3, <1>4 DEF Sheltered

LEMMA NextCovered ==
  ASSUME Sheltered, [Next]_vars
  PROVE  Covered'
<1>. USE DEF Sheltered
<1>1. CASE \/ Unmatched \/ SetPending \/ SetRejected \/ ProgramRoute \/ Forget
           \/ UpdateNLBBackendSet \/ ReconcileBackendSet \/ ReconcileTLSListener
           \/ (\E l \in Listeners : ClearBackendSet(l) \/ DeleteListener(l)) \/ DeleteBackendSet
           \/ SetProgrammed \/ Report \/ RemoveFinalizer \/ RemoveDetachedFinalizers
  BY <1>1, UnmatchedCovered, PendingCovered, ProgramCovered, ForgetCovered, ServeCovered,
     RecordCovered, CleanCovered, ReportCovered, ReleaseCovered, DetachCovered
<1>2. CASE (\E r \in Routes : Take(r)) \/ Fail \/ Crash
  BY <1>2, TakeCovered, FailCovered, CrashCovered
<1>3. CASE Users \/ Gateway \/ (\E r \in Routes : Observe(r))
  <2>1. \A r \in Routes, s \in Moves : Attach(r, s) => \E t \in Specs : Attach(r, t)
    OBVIOUS
  <2>. QED
    BY <1>3, <2>1, CreateCovered, AttachCovered, DeleteCovered, EditCovered, SyncCovered,
       ObserveCovered DEF Users, Gateway
<1>4. CASE UNCHANGED vars
  BY <1>4 DEF vars, users, lbs, Covered, Cared, Attended, Claimants, Live, Marks, Busy, Pursues,
     Detaching, Detaches, Accepted, Sweeping, Cleans, Hander, Leaves, Handed, At, Departing, Noted,
     Departs, Holds, Watched, Serves, RecordedAt, Bare, Open
<1>. QED
  BY <1>1, <1>2, <1>3, <1>4 DEF Next, Step

LEMMA NextSheltered ==
  ASSUME Sheltered, [Next]_vars
  PROVE  Sheltered'
BY NextTyped, NextEffects, NextFitting, NextAimed, NextHeir, NextCovered DEF Sheltered

\* Once nothing is left to do, nobody is about to see to a listener.
LEMMA ShelteredServes ==
  ASSUME Sheltered
  PROVE  OwnersServed
<1>. SUFFICES ASSUME Settled, NEW l \in Open \ lost
              PROVE  LET o == Owner(l) IN
                     /\ o = Nil => IF l \in Terminating THEN targets[l] = Nil ELSE nlbSets[l] = {}
                     /\ o # Nil /\ o \in admits[l] \cap endpoints =>
                          /\ IF l \in Terminating THEN targets[l] = o ELSE nlbSets[l] = {o}
                          /\ IF l \in Terminating THEN server[o].albHeld ELSE l \in server[o].nlb
  BY DEF OwnersServed
<1>1. /\ queue = {} /\ ~Busy /\ cache = server /\ l \in Listeners /\ Cared(l) /\ admits[l] # Nil
      /\ l \notin Terminating => nlbSets[l] # Nil
  BY DEF Settled, Sheltered, Covered, Open
<1>2. ~Hander(l)
  BY <1>1 DEF Hander, Leaves, Departing, Noted
<1>3. Claimants(server, l) \subseteq Nat /\ Nil \notin Claimants(server, l)
  BY DEF Claimants
<1>4. CASE Owner(l) = Nil
  <2>1. Claimants(server, l) = {}
    BY <1>3, <1>4, LeastExists DEF Owner
  <2>. QED
    BY <1>1, <1>2, <1>4, <2>1 DEF Cared, Bare
<1>5. CASE Owner(l) # Nil /\ Owner(l) \in admits[l] \cap endpoints
  <2>1. PICK o : o = Owner(l)
    OBVIOUS
  <2>2. o \in Claimants(server, l) /\ \A y \in Claimants(server, l) : o <= y
    BY <1>3, <1>5, <2>1, LeastExists DEF Owner
  <2>3. o \in Nat /\ ~(\E x \in Claimants(server, l) : x < o)
    BY <1>3, <2>2
  <2>4. Live(server[o]) /\ o \in Claimants(cache, l)
    BY <1>1, <2>2 DEF Claimants, Live
  <2>5. Attended(o, l)
    BY <1>1, <1>5, <2>1, <2>4 DEF Cared
  <2>6. Serves(o, l) /\ RecordedAt(server[o], l)
    BY <1>1, <1>2, <2>3, <2>5 DEF Attended
  <2>. QED
    BY <1>5, <2>1, <2>6 DEF Serves, RecordedAt
<1>. QED
  BY <1>4, <1>5

\* When everything has settled, every listener that the code hands over serves its oldest
\* route, which has the finalizer; one without routes serves none (ensureExclusiveListenerOwner,
\* the hand-over of a deleted route, and requeueing).
THEOREM OwnersServedHolds == Spec => []OwnersServed
BY InitSheltered, NextSheltered, ShelteredServes, PTL DEF Spec

=================================================================================
