----------------------------- MODULE L4RouteProofs -----------------------------
(***************************************************************************)
(* Proofs about L4Route: its types, and that a route loses its finalizer   *)
(* only when the backend sets it releases hold none of its backends.       *)
(*                                                                         *)
(* The second is not inductive.  What makes it so is a plan and a trace of *)
(* the work done, kept for every worker:                                   *)
(*   - Planned, about a job by itself: a worker takes a request over to    *)
(*     another route only from one that is deleted and recorded, and       *)
(*     programs a route only at a listener that route claims, so that the  *)
(*     record it writes is never empty;                                    *)
(*   - Emptied, about a job and the load balancer: a set that a release    *)
(*     depends on is free of the route, or still before the worker; and    *)
(*     the snapshot it works from, read before it had the lock, misses no  *)
(*     backend of its own route.  The last holds because a route's         *)
(*     backends are added by the worker of its kind and nobody else.       *)
(***************************************************************************)
EXTENDS L4Route, WellFoundedInduction, TLAPS

USE L4RouteAssumption, NilAssumption

\* A set of routes that is not empty has an oldest one.
LEMMA OldestExists ==
  ASSUME NEW S, S \subseteq Routes, S # {}
  PROVE  Min(S) \in S
<1>. DEFINE R == OpToRel(<, Nat)
<1>1. IsWellFoundedOn(R, Nat)
  BY NatLessThanWellFounded
<1>2. R = {p \in Nat \X Nat : p[1] < p[2]}
  BY DEF OpToRel
<1>. HIDE DEF R
<1>3. S \subseteq Nat
  OBVIOUS
<1>4. PICK x \in S : \A y \in S : ~(<<y, x>> \in R)
  BY ZenonT(40), <1>1, <1>3, WFMin
<1>5. ASSUME NEW y \in S
      PROVE  x <= y
  <2>1. <<y, x>> \in Nat \X Nat /\ x \in Nat /\ y \in Nat
    BY <1>3
  <2>2. ~(y < x)
    BY <1>2, <1>4, <2>1
  <2>. QED
    BY <2>1, <2>2
<1>. QED
  BY <1>5 DEF Min

----------------------------------------------------------------------------
(* What is true of a job by itself.                                        *)

\* The worker empties backend sets.
Empties(job) == job.pc \in {"clear", "lock"} \/ (job.pc = "sync" /\ job.want = {})

\* It does so to release its route, or has done so.
Releases(job) == job.pc = "release" \/ (Empties(job) /\ job.then = "release")

\* The worker programs a route at a listener, or rejects it there.
Programs(job) ==
  \/ job.pc \in {"program", "reject", "backends", "update", "record"}
  \/ job.pc = "sync" /\ job.want # {}
  \/ Empties(job) /\ job.then # "release"

\* Another route than the request's takes over from one that is deleted and recorded; the
\* listener is one that the programmed route claims.
Planned(job) ==
  /\ job.todo \subseteq Desired(job.copy, job.open)
  /\ KindOf[job.as] = KindOf[job.route]
  /\ job.as = job.route => job.asCopy = job.copy
  /\ job.as # job.route => job.copy.deleting /\ Finalized(job.copy)
  /\ Programs(job) => job.at \in Desired(job.asCopy, job.open)
  /\ Releases(job) => Finalized(job.copy)
  /\ job.pc \in {"lock", "sync"} => job.cur \in Listeners
  /\ job.pc = "lock" => job.want = {}
  /\ job.pc = "sync" /\ job.want # {} => job.want = {job.as} /\ job.cur = job.at

Typed == TypeOK /\ \A k \in Kinds : Busy(k) => Planned(work[k])

\* A step of worker k from job `old' to job `new'.
Moves(k, old, new) ==
  /\ k \in Kinds /\ old = work[k] /\ old \in Job /\ Planned(old) /\ KindOf[old.route] = k
  /\ new \in Job /\ new.route = old.route
  /\ work' = [work EXCEPT ![k] = new]

LEMMA BusySays ==
  ASSUME Typed, NEW k \in Kinds, Busy(k)
  PROVE  /\ work[k] \in Job /\ Planned(work[k]) /\ KindOf[work[k].route] = k
         /\ work \in [Kinds -> Job \cup {Nil}]
BY DEF Typed, TypeOK, Busy, Idle

LEMMA DesiredTypes ==
  ASSUME NEW x, NEW open \in SUBSET Listeners
  PROVE  Desired(x, open) \subseteq Listeners
BY DEF Desired

\* Two jobs that differ in what the worker is doing, but not in what it does it for.
Alike(old, new) ==
  /\ new.copy = old.copy /\ new.open = old.open /\ new.todo = old.todo
  /\ new.at = old.at /\ new.as = old.as /\ new.asCopy = old.asCopy
  /\ new.cur = old.cur /\ new.seen = old.seen /\ new.want = old.want

LEMMA GotoSays ==
  ASSUME Typed, NEW k \in Kinds, Busy(k), NEW pc \in PCs, Goto(k, pc)
  PROVE  \E new : /\ Moves(k, work[k], new) /\ Alike(work[k], new) /\ new.pc = pc
                  /\ new.names = work[k].names /\ new.then = work[k].then
<1> DEFINE new == [work[k] EXCEPT !.pc = pc]
<1>1. work' = [work EXCEPT ![k] = new]
  BY BusySays DEF Goto
<1>2. work[k] \in Job
  BY BusySays
<1>3. /\ new \in Job /\ new.route = work[k].route /\ new.pc = pc
      /\ new.names = work[k].names /\ new.then = work[k].then
      /\ Alike(work[k], new)
  BY <1>2 DEF Job, Alike
<1> HIDE DEF new
<1>4. Moves(k, work[k], new)
  BY <1>1, <1>3, BusySays DEF Moves
<1>. QED
  BY <1>3, <1>4

LEMMA EmptySays ==
  ASSUME Typed, NEW k \in Kinds, Busy(k), NEW names \in SUBSET Listeners,
         NEW then \in {"reject", "backends", "release"}, Empty(k, names, then)
  PROVE  \E new : /\ Moves(k, work[k], new) /\ Alike(work[k], new)
                  /\ new.names = names /\ new.then = then
                  /\ names = {} => new.pc = then
                  /\ names # {} => new.pc = "clear"
<1> DEFINE pc == IF names = {} THEN then ELSE "clear"
<1>1. pc \in PCs /\ (names = {} => pc = then) /\ (names # {} => pc = "clear")
  BY DEF PCs
<1> DEFINE new == [work[k] EXCEPT !.pc = pc, !.names = names, !.then = then]
<1>2. work' = [work EXCEPT ![k] = new]
  BY BusySays DEF Empty
<1> HIDE DEF pc
<1>3. work[k] \in Job
  BY BusySays
<1>4. /\ new \in Job /\ new.route = work[k].route /\ new.pc = pc
      /\ new.names = names /\ new.then = then
      /\ Alike(work[k], new)
  BY <1>1, <1>3 DEF Job, Alike
<1> HIDE DEF new
<1>5. Moves(k, work[k], new)
  BY <1>2, <1>4, BusySays DEF Moves
<1>. QED
  BY <1>1, <1>4, <1>5

\* The new job is planned as well, and nobody else's types change.
LEMMA MovesTyped ==
  ASSUME Typed, NEW k \in Kinds, NEW new, Busy(k), Moves(k, work[k], new), Planned(new),
         UNCHANGED <<cache, born, endpoints, protocol, edits, crashes>>, queue' = queue,
         server' \in [Routes -> Route \cup {Nil}],
         \A r \in Routes \ born : server'[r] = Nil,
         sets' \in [Listeners -> {Nil} \cup SUBSET Routes],
         holder' \in Kinds \cup {Nil}, lost' \subseteq Listeners,
         (holder' = k) = (new.pc = "sync"),
         \A j \in Kinds \ {k} : (holder' = j) = (holder = j)
  PROVE  Typed'
<1>1. /\ work' \in [Kinds -> Job \cup {Nil}] /\ work'[k] = new
      /\ \A j \in Kinds \ {k} : work'[j] = work[j]
  BY DEF Typed, TypeOK, Idle, Moves
<1>2. new # Nil /\ new.route = work[k].route
  BY DEF Moves
<1>3. \A j \in Kinds : work'[j] # Nil => Planned(work'[j]) /\ KindOf[work'[j].route] = j
  BY <1>1, <1>2 DEF Typed, TypeOK, Busy, Idle, Moves
<1>4. \A j \in Kinds : (holder' = j) = (work'[j] # Nil /\ work'[j].pc = "sync")
  BY <1>1, <1>2 DEF Typed, TypeOK, Busy, Idle, At
<1>5. \A j \in Kinds : work'[j] # Nil /\ work'[j].pc = "release" => Finalized(work'[j].copy)
  BY <1>3 DEF Planned, Releases
<1>6. \A j \in Kinds : Busy(j)' => Planned(work[j])'
  BY <1>3 DEF Busy, Idle, Planned, Programs, Releases, Empties
<1>7. TypeOK'
  <2>1. \A r \in Routes \ born : server'[r] = Nil /\ cache[r] = Nil
    BY DEF Typed, TypeOK
  <2>2. /\ cache \in [Routes -> Route \cup {Nil}]
        /\ born \subseteq Routes /\ endpoints \subseteq Routes /\ queue \subseteq Routes
        /\ protocol \in [Listeners -> Kinds \cup {Nil}]
        /\ edits \in 0..MaxEdits /\ crashes \in 0..MaxCrashes
    BY DEF Typed, TypeOK
  <2>. QED
    BY <1>1, <1>3, <1>4, <1>5, <2>1, <2>2 DEF TypeOK, Busy, Idle, At
<1>. QED
  BY <1>6, <1>7 DEF Typed

----------------------------------------------------------------------------
(* What the worker has brought about at the load balancer.                 *)

\* There are no backends of route r in set n.
Free(n, r) == sets[n] = Nil \/ r \notin sets[n]

\* The sets of a route being released are emptied, or still before the worker; what it read
\* before it took the lock misses none of the route's backends, and the set it writes under
\* the lock is there.
Emptied(job) ==
  /\ job.pc = "release" => \A n \in Released(job) : Free(n, job.route)
  /\ Empties(job) /\ job.then = "release" =>
       \A n \in Released(job) : \/ n \in job.names
                                \/ job.pc # "clear" /\ n = job.cur
                                \/ Free(n, job.route)
  /\ job.pc \in {"lock", "sync"} => Free(job.cur, job.route) \/ job.route \in job.seen
  /\ job.pc = "record" /\ job.as # job.route => Free(job.at, job.route)
  /\ job.pc = "sync" => sets[job.cur] # Nil

Sound == Typed /\ \A k \in Kinds : Busy(k) => Emptied(work[k])

LEMMA MovesSound ==
  ASSUME Sound, NEW k \in Kinds, NEW new, Busy(k), Moves(k, work[k], new),
         Planned(new), Emptied(new)',
         UNCHANGED <<cache, born, endpoints, protocol, edits, crashes>>, queue' = queue,
         server' \in [Routes -> Route \cup {Nil}],
         \A r \in Routes \ born : server'[r] = Nil,
         sets' \in [Listeners -> {Nil} \cup SUBSET Routes],
         \A n \in Listeners, r \in Routes : KindOf[r] # k /\ Free(n, r) => Free(n, r)',
         \A n \in Listeners : sets[n] # Nil => sets'[n] # Nil,
         holder' \in Kinds \cup {Nil}, lost' \subseteq Listeners,
         (holder' = k) = (new.pc = "sync"),
         \A j \in Kinds \ {k} : (holder' = j) = (holder = j)
  PROVE  Sound'
<1>1. Typed'
  BY MovesTyped DEF Sound
<1>2. /\ work'[k] = new /\ \A j \in Kinds \ {k} : work'[j] = work[j]
  BY DEF Sound, Typed, TypeOK, Idle, Moves
<1>3. ASSUME NEW j \in Kinds \ {k}, NEW job, job = work[j], job # Nil
      PROVE  Emptied(job)'
  <2>1. job \in Job /\ Planned(job) /\ KindOf[job.route] = j /\ Emptied(job)
    BY <1>3 DEF Sound, Typed, TypeOK, Busy, Idle
  <2>2. job.route \in Routes /\ job.open \in SUBSET Listeners
        /\ job.copy.recorded \subseteq Listeners /\ job.at \in Listeners \cup {Nil}
    BY <2>1 DEF Job, Route
  <2>3. \A n \in Listeners : Free(n, job.route) => Free(n, job.route)'
    BY <1>3, <2>1, <2>2
  <2>4. Released(job) \subseteq Listeners
    BY <2>2 DEF Released
  <2>5. job.pc \in {"lock", "sync"} => job.cur \in Listeners
    BY <2>1 DEF Planned
  <2>6. job.pc = "record" => job.at \in Listeners
    BY <2>1, <2>2, DesiredTypes DEF Planned, Programs
  <2>. QED
    BY <2>1, <2>3, <2>4, <2>5, <2>6 DEF Emptied, Empties
<1>4. \A j \in Kinds : work'[j] # Nil => Emptied(work[j])'
  <2>1. ASSUME NEW j \in Kinds, NEW job, job = work'[j], job # Nil
        PROVE  Emptied(job)'
    BY <1>2, <1>3, <2>1
  <2>. QED
    BY <2>1 DEF Emptied, Free, Empties, Released
<1>. QED
  BY <1>1, <1>4 DEF Sound, Busy, Idle

\* A worker that gives up or is done.
LEMMA FinishSound ==
  ASSUME Sound, NEW k \in Kinds, Finish(k), queue' \subseteq Routes,
         holder' = (IF holder = k THEN Nil ELSE holder),
         UNCHANGED <<server, sets, lost, cache, born, endpoints, protocol, edits, crashes>>
  PROVE  Sound'
<1>1. /\ work' \in [Kinds -> Job \cup {Nil}] /\ work'[k] = Nil
      /\ \A j \in Kinds \ {k} : work'[j] = work[j]
  BY DEF Finish, Sound, Typed, TypeOK, Idle
<1>2. \A j \in Kinds : Busy(j)' => /\ work'[j] = work[j] /\ Busy(j) /\ j # k
  BY <1>1 DEF Busy, Idle
<1>3. TypeOK'
  <2>1. \A j \in Kinds : (holder' = j) = At(j, "sync")'
    BY <1>1, <1>2 DEF Sound, Typed, TypeOK, At, Busy, Idle
  <2>2. \A j \in Kinds : Busy(j)' => /\ KindOf[work'[j].route] = j
                                     /\ At(j, "release")' => Finalized(work'[j].copy)
    BY <1>2 DEF Sound, Typed, TypeOK, At
  <2>. QED
    BY <1>1, <2>1, <2>2 DEF Sound, Typed, TypeOK, Idle
<1>4. \A j \in Kinds : Busy(j)' => Planned(work[j])'
  BY <1>2 DEF Sound, Typed, Planned, Programs, Releases, Empties
<1>5. \A j \in Kinds : Busy(j)' => Emptied(work[j])'
  BY <1>2 DEF Sound, Emptied, Free, Empties, Released
<1>. QED
  BY <1>3, <1>4, <1>5 DEF Sound, Typed

\* Nothing but the job changes.
LEMMA QuietSound ==
  ASSUME Sound, NEW k \in Kinds, NEW new, Busy(k), Moves(k, work[k], new),
         Planned(new), Emptied(new),
         UNCHANGED <<server, sets, holder>>, NoEvent, lost' \subseteq Listeners,
         (work[k].pc = "sync") = (new.pc = "sync")
  PROVE  Sound'
<1>1. Emptied(new)' /\ \A n \in Listeners, r \in Routes : Free(n, r) => Free(n, r)'
  BY DEF Emptied, Free, Empties, Released
<1>2. /\ server \in [Routes -> Route \cup {Nil}] /\ \A r \in Routes \ born : server[r] = Nil
      /\ sets \in [Listeners -> {Nil} \cup SUBSET Routes] /\ holder \in Kinds \cup {Nil}
      /\ (holder = k) = (work[k].pc = "sync")
  BY DEF Sound, Typed, TypeOK, At
<1>. QED
  BY <1>1, <1>2, MovesSound DEF NoEvent

----------------------------------------------------------------------------
(* The steps of a worker.                                                  *)

LEMMA ClaimantsSay ==
  ASSUME NEW view, NEW k, NEW l
  PROVE  /\ Claimants(view, k, l) \subseteq Routes
         /\ \A x \in Claimants(view, k, l) : KindOf[x] = k /\ view[x] # Nil /\ l \in view[x].spec
BY DEF Claimants

\* A copy of the job with other values in some fields.
LEMMA JobFields ==
  ASSUME NEW job \in Job
  PROVE  /\ job.route \in Routes /\ job.copy \in Route /\ job.asCopy \in Route
         /\ job.as \in Routes /\ job.open \in SUBSET Listeners /\ job.todo \in SUBSET Listeners
         /\ job.names \in SUBSET Listeners /\ job.at \in Listeners \cup {Nil}
         /\ job.seen \in SUBSET Routes /\ job.want \in SUBSET Routes
         /\ job.copy.recorded \in SUBSET Listeners /\ job.copy.spec \in SUBSET Listeners
         /\ job.asCopy.recorded \in SUBSET Listeners
         /\ job.then \in {"reject", "backends", "release"}
BY DEF Job, Route

LEMMA NextListenerSound ==
  ASSUME Sound, NEW k \in Kinds, NextListener(k)
  PROVE  Sound'
<1> DEFINE job == work[k]
<1>1. /\ Typed /\ Busy(k) /\ job.pc = "listeners" /\ job \in Job /\ Planned(job)
      /\ KindOf[job.route] = k /\ work \in [Kinds -> Job \cup {Nil}]
      /\ Typed /\ UNCHANGED <<server, sets, holder, lost>> /\ NoEvent
  BY BusySays DEF Sound, NextListener, At, NoWrite
<1>2. /\ job.todo \subseteq Desired(job.copy, job.open) /\ Desired(job.copy, job.open) \subseteq Listeners
      /\ lost \subseteq Listeners /\ cache \in [Routes -> Route \cup {Nil}] /\ holder # k
      /\ queue \subseteq Routes
  BY <1>1, JobFields, DesiredTypes DEF Planned, Typed, TypeOK, At
<1>3. CASE job.todo = {} /\ Finish(k)
  BY <1>1, <1>2, <1>3, FinishSound DEF NoEvent
<1>4. ASSUME NEW l \in job.todo,
             LET on == [job EXCEPT !.at = l]
                 next == Min(Successors(k, job.route, l))
             IN work' = [work EXCEPT ![k] =
                  IF ~job.copy.deleting THEN [on EXCEPT !.pc = "program"]
                  ELSE IF ~Finalized(job.copy) THEN [job EXCEPT !.todo = @ \ {l}]
                  ELSE IF Successors(k, job.route, l) # {}
                       THEN [on EXCEPT !.pc = "program", !.as = next, !.asCopy = cache[next]]
                       ELSE [on EXCEPT !.pc = "clear", !.names = {l}, !.then = "release"]]
      PROVE  Sound'
  <2> DEFINE next == Min(Successors(k, job.route, l))
  <2>1. l \in Listeners /\ l \in Desired(job.copy, job.open)
    BY <1>2
  <2>2. ASSUME NEW new, new \in Job, new.route = job.route, new.pc # "sync", Planned(new),
               work' = [work EXCEPT ![k] = new],
               new.pc \in {"listeners", "program"}
                 \/ (new.pc = "clear" /\ new.at = l /\ new.names = {l})
        PROVE  Sound'
    <3>1. Moves(k, job, new)
      BY <1>1, <2>2 DEF Moves
    <3>2. Emptied(new)
      BY <2>1, <2>2 DEF Emptied, Empties, Released
    <3>. QED
      BY <1>1, <1>2, <2>2, <3>1, <3>2, QuietSound
  <2>3. CASE ~job.copy.deleting
    <3> DEFINE new == [job EXCEPT !.at = l, !.pc = "program"]
    <3>1. work' = [work EXCEPT ![k] = new]
      BY <1>4, <2>3
    <3>2. /\ new \in Job /\ new.pc = "program" /\ new.at = l /\ new.route = job.route
          /\ new.copy = job.copy /\ new.open = job.open /\ new.todo = job.todo
          /\ new.as = job.as /\ new.asCopy = job.asCopy
      BY <1>1, <2>1 DEF Job, PCs
    <3> HIDE DEF new
    <3>3. job.as = job.route /\ job.asCopy = job.copy
      BY <1>1, <2>3 DEF Planned
    <3>4. Planned(new)
      BY <1>1, <2>1, <3>2, <3>3 DEF Planned, Programs, Releases, Empties
    <3>. QED
      BY <2>2, <3>1, <3>2, <3>4
  <2>4. CASE job.copy.deleting /\ ~Finalized(job.copy)
    <3> DEFINE new == [job EXCEPT !.todo = @ \ {l}]
    <3>1. work' = [work EXCEPT ![k] = new]
      BY <1>4, <2>4
    <3>2. /\ new \in Job /\ new.pc = "listeners" /\ new.route = job.route
          /\ new.copy = job.copy /\ new.open = job.open /\ new.todo = job.todo \ {l}
          /\ new.as = job.as /\ new.asCopy = job.asCopy
      BY <1>1 DEF Job
    <3> HIDE DEF new
    <3>3. Planned(new)
      BY <1>1, <3>2 DEF Planned, Programs, Releases, Empties
    <3>. QED
      BY <2>2, <3>1, <3>2, <3>3
  <2>5. CASE job.copy.deleting /\ Finalized(job.copy) /\ Successors(k, job.route, l) # {}
    <3>1. next \in Routes /\ next # job.route /\ KindOf[next] = k /\ cache[next] # Nil
          /\ l \in cache[next].spec
      <4>1. Successors(k, job.route, l) \subseteq Routes
        BY DEF Successors, Claimants
      <4>2. next \in Successors(k, job.route, l)
        BY <2>5, <4>1, OldestExists
      <4>. QED
        BY <4>2 DEF Successors, Claimants
    <3> HIDE DEF next
    <3>2. cache[next] \in Route
      <4>1. cache[next] \in Route \cup {Nil}
        BY <1>2, <3>1
      <4>. QED
        BY <3>1, <4>1
    <3> DEFINE new == [job EXCEPT !.at = l, !.pc = "program", !.as = next, !.asCopy = cache[next]]
    <3>3. work' = [work EXCEPT ![k] = new]
      BY <1>4, <2>5 DEF next
    <3>4. /\ new \in Job /\ new.pc = "program" /\ new.at = l /\ new.route = job.route
          /\ new.copy = job.copy /\ new.open = job.open /\ new.todo = job.todo
          /\ new.as = next /\ new.asCopy = cache[next]
      BY ZenonT(40), <1>1, <2>1, <3>1, <3>2 DEF Job, PCs
    <3> HIDE DEF new
    <3>5. l \in Desired(cache[next], job.open)
      BY <2>1, <3>1 DEF Desired
    <3>6. Planned(new)
      BY <1>1, <2>5, <3>1, <3>4, <3>5 DEF Planned, Programs, Releases, Empties
    <3>. QED
      BY <2>2, <3>3, <3>4, <3>6
  <2>6. CASE job.copy.deleting /\ Finalized(job.copy) /\ Successors(k, job.route, l) = {}
    <3> DEFINE new == [job EXCEPT !.at = l, !.pc = "clear", !.names = {l}, !.then = "release"]
    <3>1. work' = [work EXCEPT ![k] = new]
      BY <1>4, <2>6
    <3>2. /\ new \in Job /\ new.pc = "clear" /\ new.at = l /\ new.names = {l}
          /\ new.then = "release" /\ new.route = job.route
          /\ new.copy = job.copy /\ new.open = job.open /\ new.todo = job.todo
          /\ new.as = job.as /\ new.asCopy = job.asCopy
      BY <1>1, <2>1 DEF Job, PCs
    <3> HIDE DEF new
    <3>3. Planned(new)
      BY <1>1, <2>6, <3>2 DEF Planned, Programs, Releases, Empties
    <3>. QED
      BY <2>2, <3>1, <3>2, <3>3
  <2>. QED
    BY <2>3, <2>4, <2>5, <2>6
<1>. QED
  BY <1>3, <1>4 DEF NextListener

\* A job that is programmed further, rejected or emptied for that.
LEMMA AlikePlanned ==
  ASSUME NEW old \in Job, NEW new \in Job, Planned(old), Programs(old), Alike(old, new),
         new.route = old.route,
         new.pc \in {"program", "reject", "backends", "update", "record", "clear"},
         new.pc = "clear" => new.then # "release"
  PROVE  Planned(new)
BY DEF Planned, Programs, Releases, Empties, Alike

LEMMA ProgramRouteSound ==
  ASSUME Sound, NEW k \in Kinds, ProgramRoute(k)
  PROVE  Sound'
<1> DEFINE job == work[k]
<1>1. /\ Typed /\ Busy(k) /\ job.pc = "program" /\ job \in Job /\ Planned(job)
      /\ UNCHANGED <<server, sets, holder>> /\ NoEvent
      /\ Programs(job) /\ job.at \in Listeners
  <2>1. /\ Typed /\ Busy(k) /\ job.pc = "program" /\ job \in Job /\ Planned(job)
        /\ UNCHANGED <<server, sets, holder>> /\ NoEvent
    BY BusySays DEF Sound, ProgramRoute, At
  <2>2. Programs(job) /\ job.at \in Listeners
    BY <2>1, JobFields, DesiredTypes DEF Planned, Programs
  <2>. QED
    BY <2>1, <2>2
<1>2. lost' \subseteq Listeners
  BY <1>1 DEF ProgramRoute, Typed, TypeOK
<1>3. \/ \E names \in SUBSET Listeners, then \in {"reject", "backends"} : Empty(k, names, then)
      \/ Goto(k, "reject")
  <2>1. Stale(job) \in SUBSET Listeners
    BY <1>1, JobFields DEF Stale
  <2>2. (IF Finalized(job.asCopy) THEN {job.at} ELSE {}) \in SUBSET Listeners
    BY <1>1
  <2>. QED
    BY <2>1, <2>2 DEF ProgramRoute
<1>4. \E new : /\ Moves(k, job, new) /\ Alike(job, new)
               /\ new.pc \in {"reject", "backends", "clear"}
               /\ new.pc = "clear" => new.then # "release"
  <2>1. ASSUME NEW names \in SUBSET Listeners, NEW then \in {"reject", "backends"},
               Empty(k, names, then)
        PROVE  \E new : /\ Moves(k, job, new) /\ Alike(job, new)
                        /\ new.pc \in {"reject", "backends", "clear"}
                        /\ new.pc = "clear" => new.then # "release"
    <3>1. \E new : /\ Moves(k, job, new) /\ Alike(job, new)
                   /\ new.names = names /\ new.then = then
                   /\ names = {} => new.pc = then
                   /\ names # {} => new.pc = "clear"
      BY <1>1, <2>1, EmptySays
    <3>. QED
      BY <3>1
  <2>2. CASE Goto(k, "reject")
    <3>1. "reject" \in PCs
      BY DEF PCs
    <3>2. \E new : /\ Moves(k, job, new) /\ Alike(job, new) /\ new.pc = "reject"
                   /\ new.names = job.names /\ new.then = job.then
      BY <1>1, <2>2, <3>1, GotoSays
    <3>. QED
      BY <3>2
  <2>. QED
    BY <1>3, <2>1, <2>2
<1>5. PICK new : /\ Moves(k, job, new) /\ Alike(job, new)
                 /\ new.pc \in {"reject", "backends", "clear"}
                 /\ new.pc = "clear" => new.then # "release"
  BY <1>4
<1>6. new.route = job.route /\ new \in Job
  BY <1>5 DEF Moves
<1>7. Planned(new)
  BY <1>1, <1>5, <1>6, AlikePlanned
<1>8. Emptied(new)
  BY <1>5 DEF Emptied, Empties
<1>. QED
  BY <1>1, <1>2, <1>5, <1>7, <1>8, QuietSound

LEMMA ResolveBackendsSound ==
  ASSUME Sound, NEW k \in Kinds, ResolveBackends(k)
  PROVE  Sound'
<1> DEFINE job == work[k]
<1>1. /\ Typed /\ Busy(k) /\ job.pc = "backends" /\ job \in Job /\ Planned(job)
      /\ UNCHANGED <<server, sets, holder, lost>> /\ NoEvent
  BY BusySays DEF Sound, ResolveBackends, At, NoWrite
<1>2. Programs(job) /\ job.at \in Listeners /\ lost \subseteq Listeners
  BY <1>1, JobFields, DesiredTypes DEF Planned, Programs, Typed, TypeOK
<1>3. CASE Goto(k, "update")
  <2>1. "update" \in PCs
    BY DEF PCs
  <2>2. PICK new : /\ Moves(k, job, new) /\ Alike(job, new) /\ new.pc = "update"
                   /\ new.names = job.names /\ new.then = job.then
    BY <1>1, <1>3, <2>1, GotoSays
  <2>3. Planned(new)
    BY <1>1, <1>2, <2>2, AlikePlanned DEF Moves
  <2>4. Emptied(new)
    BY <2>2 DEF Emptied, Empties
  <2>. QED
    BY <1>1, <1>2, <2>2, <2>3, <2>4, QuietSound
<1>4. CASE Empty(k, {job.at}, "reject")
  <2>1. \E new : /\ Moves(k, job, new) /\ Alike(job, new)
                 /\ new.names = {job.at} /\ new.then = "reject"
                 /\ {job.at} = {} => new.pc = "reject"
                 /\ {job.at} # {} => new.pc = "clear"
    BY <1>1, <1>2, <1>4, EmptySays
  <2>2. PICK new : /\ Moves(k, job, new) /\ Alike(job, new)
                   /\ new.pc = "clear" /\ new.then = "reject"
    BY <2>1
  <2>3. Planned(new)
    BY <1>1, <1>2, <2>2, AlikePlanned DEF Moves
  <2>4. Emptied(new)
    BY <2>2 DEF Emptied, Empties
  <2>. QED
    BY <1>1, <1>2, <2>2, <2>3, <2>4, QuietSound
<1>. QED
  BY <1>3, <1>4 DEF ResolveBackends

LEMMA RejectSound ==
  ASSUME Sound, NEW k \in Kinds, Reject(k)
  PROVE  Sound'
<1> DEFINE job == work[k]
           new == [job EXCEPT !.pc = "listeners", !.todo = @ \ {job.at}]
<1>1. /\ Typed /\ Busy(k) /\ job.pc = "reject" /\ job \in Job /\ Planned(job)
      /\ KindOf[job.route] = k /\ job.as = job.route
      /\ UNCHANGED <<server, sets, holder, lost>> /\ NoEvent
  BY BusySays DEF Sound, Reject, At, NoWrite
<1>2. lost \subseteq Listeners
  BY <1>1 DEF Typed, TypeOK
<1>3. work' = [work EXCEPT ![k] = new]
  BY <1>1, BusySays DEF Reject
<1>4. /\ new \in Job /\ new.pc = "listeners" /\ new.route = job.route
      /\ new.copy = job.copy /\ new.open = job.open /\ new.todo = job.todo \ {job.at}
      /\ new.as = job.as /\ new.asCopy = job.asCopy
  BY <1>1 DEF Job, PCs
<1> HIDE DEF new
<1>5. Moves(k, job, new)
  BY <1>1, <1>3, <1>4 DEF Moves
<1>6. Planned(new) /\ Emptied(new)
  BY <1>1, <1>4 DEF Planned, Programs, Releases, Empties, Emptied
<1>. QED
  BY <1>1, <1>2, <1>4, <1>5, <1>6, QuietSound

\* What a worker may assume of the types of the state.
LEMMA TypesSay ==
  ASSUME Typed
  PROVE  /\ server \in [Routes -> Route \cup {Nil}] /\ cache \in [Routes -> Route \cup {Nil}]
         /\ \A r \in Routes \ born : server[r] = Nil
         /\ sets \in [Listeners -> {Nil} \cup SUBSET Routes]
         /\ holder \in Kinds \cup {Nil} /\ lost \subseteq Listeners
         /\ \A k \in Kinds : (holder = k) = (Busy(k) /\ work[k].pc = "sync")
         /\ \A n \in Listeners : sets[n] # Nil => sets[n] \in SUBSET Routes
BY DEF Typed, TypeOK, At

\* A step that takes or gives back the lock, or keeps it, and writes nothing.
LEMMA LockSound ==
  ASSUME Sound, NEW k \in Kinds, NEW new, Busy(k), Moves(k, work[k], new),
         Planned(new), Emptied(new), UNCHANGED <<server, sets, lost>>, NoEvent,
         \/ holder = Nil /\ holder' = k /\ new.pc = "sync"
         \/ holder = k /\ holder' = Nil /\ new.pc # "sync"
  PROVE  Sound'
<1>1. Emptied(new)' /\ \A n \in Listeners, r \in Routes : Free(n, r) => Free(n, r)'
  BY DEF Emptied, Free, Empties, Released
<1>2. Typed
  BY DEF Sound
<1>3. /\ server \in [Routes -> Route \cup {Nil}] /\ \A r \in Routes \ born : server[r] = Nil
      /\ sets \in [Listeners -> {Nil} \cup SUBSET Routes] /\ lost \subseteq Listeners
  BY <1>2, TypesSay
<1>4. /\ holder' \in Kinds \cup {Nil} /\ (holder' = k) = (new.pc = "sync")
      /\ \A j \in Kinds \ {k} : (holder' = j) = (holder = j)
  OBVIOUS
<1>. QED
  BY <1>1, <1>3, <1>4, MovesSound DEF NoEvent

LEMMA UpdateBackendSetSound ==
  ASSUME Sound, NEW k \in Kinds, UpdateBackendSet(k)
  PROVE  Sound'
<1> DEFINE job == work[k]
           l == job.at
<1>1. /\ Typed /\ Busy(k) /\ job.pc = "update" /\ job \in Job /\ Planned(job)
      /\ KindOf[job.route] = k
      /\ UNCHANGED <<server, sets, lost>> /\ NoEvent /\ holder = Nil /\ sets[l] # Nil
  BY BusySays DEF Sound, UpdateBackendSet, At
<1>2. /\ Programs(job) /\ l \in Listeners /\ lost \subseteq Listeners
      /\ sets[l] \in SUBSET Routes /\ job.as \in Routes /\ job.route \in Routes
  BY <1>1, JobFields, DesiredTypes, TypesSay DEF Planned, Programs
<1>3. CASE sets[l] = {job.as} /\ Goto(k, "record") /\ UNCHANGED holder
  <2>1. "record" \in PCs
    BY DEF PCs
  <2>2. PICK new : /\ Moves(k, job, new) /\ Alike(job, new) /\ new.pc = "record"
                   /\ new.names = job.names /\ new.then = job.then
    BY <1>1, <1>3, <2>1, GotoSays
  <2>3. Planned(new)
    BY <1>1, <1>2, <2>2, AlikePlanned DEF Moves
  <2>4. Emptied(new)
    BY <1>3, <2>2 DEF Emptied, Empties, Free, Alike, Moves
  <2>. QED
    BY <1>1, <1>2, <1>3, <2>2, <2>3, <2>4, QuietSound
<1>4. CASE /\ sets[l] # {job.as} /\ holder' = k
           /\ work' = [work EXCEPT ![k].pc = "sync", ![k].cur = l,
                                   ![k].seen = sets[l], ![k].want = {job.as}]
  <2> DEFINE new == [job EXCEPT !.pc = "sync", !.cur = l, !.seen = sets[l], !.want = {job.as}]
  <2>1. work' = [work EXCEPT ![k] = new]
    BY <1>1, <1>4, BusySays
  <2>2. /\ new \in Job /\ new.pc = "sync" /\ new.route = job.route
        /\ new.copy = job.copy /\ new.open = job.open /\ new.todo = job.todo /\ new.at = l
        /\ new.as = job.as /\ new.asCopy = job.asCopy
        /\ new.cur = l /\ new.seen = sets[l] /\ new.want = {job.as}
    BY <1>1, <1>2 DEF Job, PCs
  <2> HIDE DEF new
  <2>3. Moves(k, job, new)
    BY <1>1, <2>1, <2>2 DEF Moves
  <2>4. Planned(new)
    BY <1>1, <1>2, <2>2 DEF Planned, Programs, Releases, Empties
  <2>5. Emptied(new)
    BY <1>1, <2>2 DEF Emptied, Empties, Free
  <2>. QED
    BY <1>1, <1>4, <2>2, <2>3, <2>4, <2>5, LockSound
<1>. QED
  BY <1>3, <1>4 DEF UpdateBackendSet

\* A worker that has emptied a set goes on with those that are left.
LEMMA ClearedSays ==
  ASSUME NEW old \in Job, NEW new \in Job, Planned(old), Emptied(old), Empties(old),
         Alike(old, new), new.route = old.route, new.then = old.then,
         new.names = {} => new.pc = new.then,
         new.names # {} => new.pc = "clear",
         \A n \in Released(old) :
           \/ n \in new.names
           \/ ~(n \in old.names \/ (old.pc # "clear" /\ n = old.cur))
           \/ Free(n, old.route)
  PROVE  Planned(new) /\ Emptied(new)
<1>1. Released(new) = Released(old)
  BY DEF Released, Alike
<1>2. new.pc \in {"clear", "reject", "backends", "release"}
  BY DEF Job
<1>3. old.then = "release" => /\ Finalized(old.copy)
                              /\ \A n \in Released(old) : n \in new.names \/ Free(n, old.route)
  BY DEF Planned, Emptied, Releases
<1>4. Emptied(new)
  BY <1>1, <1>2, <1>3 DEF Emptied, Empties
<1>5. old.then # "release" => old.at \in Desired(old.asCopy, old.open)
  BY DEF Planned, Programs
<1>6. Planned(new)
  BY <1>2, <1>3, <1>5 DEF Planned, Programs, Releases, Empties, Alike
<1>. QED
  BY <1>4, <1>6

LEMMA ReadToClearSound ==
  ASSUME Sound, NEW k \in Kinds, NEW n \in Listeners, ReadToClear(k, n)
  PROVE  Sound'
<1> DEFINE job == work[k]
           left == job.names \ {n}
<1>1. /\ Typed /\ Busy(k) /\ job.pc = "clear" /\ job \in Job /\ Planned(job) /\ Emptied(job)
      /\ KindOf[job.route] = k
      /\ UNCHANGED <<server, sets, holder, lost>> /\ NoEvent
  BY BusySays DEF Sound, ReadToClear, At, NoWrite
<1>2. /\ Empties(job) /\ lost \subseteq Listeners /\ left \in SUBSET Listeners
      /\ job.then \in {"reject", "backends", "release"}
      /\ sets[n] # Nil => sets[n] \in SUBSET Routes
  BY <1>1, JobFields, TypesSay DEF Empties
<1>3. CASE sets[n] = Nil /\ Empty(k, left, job.then)
  <2>1. PICK new : /\ Moves(k, job, new) /\ Alike(job, new)
                   /\ new.names = left /\ new.then = job.then
                   /\ left = {} => new.pc = job.then
                   /\ left # {} => new.pc = "clear"
    BY <1>1, <1>2, <1>3, EmptySays
  <2>2. new \in Job /\ new.route = job.route /\ new.pc # "sync"
    BY <1>2, <2>1 DEF Moves
  <2>3. \A m \in Released(job) :
          \/ m \in new.names
          \/ ~(m \in job.names \/ (job.pc # "clear" /\ m = job.cur))
          \/ Free(m, job.route)
    BY <1>1, <1>3, <2>1 DEF Free
  <2>4. Planned(new) /\ Emptied(new)
    BY <1>1, <1>2, <2>1, <2>2, <2>3, ClearedSays
  <2>. QED
    BY <1>1, <1>2, <2>1, <2>2, <2>4, QuietSound
<1>4. CASE /\ sets[n] # Nil
           /\ work' = [work EXCEPT ![k].pc = "lock", ![k].names = left, ![k].cur = n,
                                   ![k].seen = sets[n], ![k].want = {}]
  <2> DEFINE new == [job EXCEPT !.pc = "lock", !.names = left, !.cur = n,
                                !.seen = sets[n], !.want = {}]
  <2>1. work' = [work EXCEPT ![k] = new]
    BY <1>1, <1>4, BusySays
  <2>2. /\ new \in Job /\ new.pc = "lock" /\ new.route = job.route
        /\ new.copy = job.copy /\ new.open = job.open /\ new.todo = job.todo
        /\ new.at = job.at /\ new.as = job.as /\ new.asCopy = job.asCopy
        /\ new.names = left /\ new.then = job.then
        /\ new.cur = n /\ new.seen = sets[n] /\ new.want = {}
    BY <1>1, <1>2, <1>4 DEF Job, PCs
  <2> HIDE DEF new
  <2>3. Moves(k, job, new)
    BY <1>1, <2>1, <2>2 DEF Moves
  <2>4. Planned(new)
    BY <1>1, <1>2, <2>2 DEF Planned, Programs, Releases, Empties
  <2>5. Emptied(new)
    BY <1>1, <2>2 DEF Emptied, Empties, Free, Released
  <2>. QED
    BY <1>1, <1>2, <2>2, <2>3, <2>4, <2>5, QuietSound
<1>. QED
  BY <1>3, <1>4 DEF ReadToClear

LEMMA LockToClearSound ==
  ASSUME Sound, NEW k \in Kinds, LockToClear(k)
  PROVE  Sound'
<1> DEFINE job == work[k]
<1>1. /\ Typed /\ Busy(k) /\ job.pc = "lock" /\ job \in Job /\ Planned(job) /\ Emptied(job)
      /\ UNCHANGED <<server, sets, lost>> /\ NoEvent /\ holder = Nil /\ holder' = k
      /\ sets[job.cur] # Nil
  BY BusySays DEF Sound, LockToClear, At
<1>2. "sync" \in PCs
  BY DEF PCs
<1>3. Goto(k, "sync")
  BY DEF LockToClear
<1>4. PICK new : /\ Moves(k, job, new) /\ Alike(job, new) /\ new.pc = "sync"
                 /\ new.names = job.names /\ new.then = job.then
  BY <1>1, <1>2, <1>3, GotoSays
<1>5. new.route = job.route
  BY <1>4 DEF Moves
<1>6. Planned(new)
  BY <1>1, <1>4, <1>5 DEF Planned, Programs, Releases, Empties, Alike
<1>7. Emptied(new)
  BY <1>1, <1>4, <1>5 DEF Emptied, Empties, Released, Alike, Planned
<1>. QED
  BY <1>1, <1>4, <1>6, <1>7, LockSound

\* A worker that writes backends has the set it writes before it.
LEMMA SyncSays ==
  ASSUME Sound, NEW k \in Kinds, At(k, "sync")
  PROVE  /\ Typed /\ Busy(k) /\ work[k].pc = "sync" /\ work[k] \in Job /\ Planned(work[k])
         /\ Emptied(work[k]) /\ KindOf[work[k].route] = k /\ KindOf[work[k].as] = k
         /\ work[k].cur \in Listeners /\ sets[work[k].cur] \in SUBSET Routes
         /\ work[k].as \in Routes /\ work[k].route \in Routes /\ holder = k
<1>1. /\ Typed /\ Busy(k) /\ work[k].pc = "sync" /\ work[k] \in Job /\ Planned(work[k])
      /\ Emptied(work[k]) /\ KindOf[work[k].route] = k
  BY BusySays DEF Sound, At
<1>2. work[k].cur \in Listeners /\ sets[work[k].cur] # Nil /\ KindOf[work[k].as] = k
  BY <1>1 DEF Planned, Emptied
<1>3. sets[work[k].cur] \in SUBSET Routes /\ holder = k
  BY <1>1, <1>2, TypesSay
<1>4. work[k].as \in Routes /\ work[k].route \in Routes
  BY <1>1, JobFields
<1>. QED
  BY <1>1, <1>2, <1>3, <1>4

LEMMA CreateBackendSound ==
  ASSUME Sound, NEW k \in Kinds, CreateBackend(k),
         NEW job, job = work[k]
  PROVE  Sound'
<1> DEFINE n == job.cur
           new == [job EXCEPT !.seen = @ \cup job.want]
<1>1. /\ Typed /\ Busy(k) /\ job.pc = "sync" /\ job \in Job /\ Planned(job) /\ Emptied(job)
      /\ KindOf[job.route] = k /\ KindOf[job.as] = k /\ n \in Listeners
      /\ sets[n] \in SUBSET Routes /\ job.as \in Routes /\ job.route \in Routes /\ holder = k
  BY SyncSays DEF CreateBackend
<1>2. /\ UNCHANGED <<server, holder>> /\ NoEvent
      /\ sets' = [sets EXCEPT ![n] = @ \cup job.want]
      /\ ~(job.want \subseteq job.seen) /\ lost' \subseteq lost \cup {n}
  BY DEF CreateBackend
<1>3. job.want = {job.as} /\ job.cur = job.at
  BY <1>1, <1>2 DEF Planned
<1>4. work' = [work EXCEPT ![k] = new]
  BY <1>1, BusySays DEF CreateBackend
<1>5. /\ new \in Job /\ new.pc = "sync" /\ new.route = job.route
      /\ new.copy = job.copy /\ new.open = job.open /\ new.todo = job.todo /\ new.at = job.at
      /\ new.as = job.as /\ new.asCopy = job.asCopy
      /\ new.cur = n /\ new.seen = job.seen \cup {job.as} /\ new.want = {job.as}
  BY <1>1, <1>3 DEF Job
<1> HIDE DEF new
<1>6. Moves(k, job, new)
  BY <1>1, <1>4, <1>5 DEF Moves
<1>7. Planned(new)
  BY <1>1, <1>3, <1>5 DEF Planned, Programs, Releases, Empties
<1>8. /\ sets \in [Listeners -> {Nil} \cup SUBSET Routes] /\ lost \subseteq Listeners
      /\ server \in [Routes -> Route \cup {Nil}] /\ \A r \in Routes \ born : server[r] = Nil
      /\ holder \in Kinds \cup {Nil}
  BY <1>1, TypesSay
<1>9. sets[n] \cup {job.as} \in SUBSET Routes
  BY <1>1
<1>10. /\ sets' \in [Listeners -> {Nil} \cup SUBSET Routes]
       /\ sets'[n] = sets[n] \cup {job.as} /\ sets'[n] # Nil
       /\ \A m \in Listeners \ {n} : sets'[m] = sets[m]
  BY <1>1, <1>2, <1>3, <1>8, <1>9
<1>11. \A m \in Listeners, r \in Routes : r # job.as /\ Free(m, r) => Free(m, r)'
  BY <1>1, <1>10 DEF Free
<1>12. Free(n, job.route)' \/ job.route \in new.seen
  BY <1>1, <1>5, <1>11 DEF Emptied
<1>13. Emptied(new)'
  BY <1>5, <1>10, <1>12 DEF Emptied, Empties, Free
<1>14. \A m \in Listeners : sets[m] # Nil => sets'[m] # Nil
  BY <1>10
<1>15. \A m \in Listeners, r \in Routes : KindOf[r] # k /\ Free(m, r) => Free(m, r)'
  BY <1>1, <1>11
<1>. QED
  BY <1>1, <1>2, <1>5, <1>6, <1>7, <1>8, <1>10, <1>13, <1>14, <1>15, MovesSound DEF NoEvent

LEMMA DeleteBackendSound ==
  ASSUME Sound, NEW k \in Kinds, NEW x \in Routes, DeleteBackend(k, x),
         NEW job, job = work[k]
  PROVE  Sound'
<1> DEFINE n == job.cur
           new == [job EXCEPT !.seen = @ \ {x}]
<1>1. /\ Typed /\ Busy(k) /\ job.pc = "sync" /\ job \in Job /\ Planned(job) /\ Emptied(job)
      /\ KindOf[job.route] = k /\ n \in Listeners
      /\ sets[n] \in SUBSET Routes /\ job.route \in Routes /\ holder = k
  BY SyncSays DEF DeleteBackend
<1>2. /\ UNCHANGED <<server, holder>> /\ NoEvent
      /\ sets' = [sets EXCEPT ![n] = @ \ {x}] /\ lost' \subseteq lost \cup {n}
  BY DEF DeleteBackend
<1>3. work' = [work EXCEPT ![k] = new]
  BY <1>1, BusySays DEF DeleteBackend
<1>4. /\ new \in Job /\ new.pc = "sync" /\ new.route = job.route
      /\ new.copy = job.copy /\ new.open = job.open /\ new.todo = job.todo /\ new.at = job.at
      /\ new.as = job.as /\ new.asCopy = job.asCopy
      /\ new.names = job.names /\ new.then = job.then
      /\ new.cur = n /\ new.seen = job.seen \ {x} /\ new.want = job.want
  BY <1>1 DEF Job
<1> HIDE DEF new
<1>5. Moves(k, job, new)
  BY <1>1, <1>3, <1>4 DEF Moves
<1>6. Planned(new)
  BY <1>1, <1>4 DEF Planned, Programs, Releases, Empties
<1>7. /\ sets \in [Listeners -> {Nil} \cup SUBSET Routes] /\ lost \subseteq Listeners
      /\ server \in [Routes -> Route \cup {Nil}] /\ \A r \in Routes \ born : server[r] = Nil
      /\ holder \in Kinds \cup {Nil}
  BY <1>1, TypesSay
<1>8. sets[n] \ {x} \in SUBSET Routes
  BY <1>1
<1>9. /\ sets' \in [Listeners -> {Nil} \cup SUBSET Routes]
      /\ sets'[n] = sets[n] \ {x} /\ sets'[n] # Nil
      /\ \A m \in Listeners \ {n} : sets'[m] = sets[m]
  BY <1>1, <1>2, <1>7, <1>8
<1>10. /\ \A m \in Listeners, r \in Routes : Free(m, r) => Free(m, r)'
       /\ Free(n, x)'
  BY <1>1, <1>9 DEF Free
<1>11. Free(n, job.route)' \/ job.route \in new.seen
  BY <1>1, <1>4, <1>10 DEF Emptied
<1>12. Released(job) \subseteq Listeners
  BY <1>1, JobFields DEF Released
<1>13. Emptied(new)'
  <2>1. /\ Released(new) = Released(job) /\ Empties(new) = Empties(job)
        /\ new.route = job.route
    BY <1>1, <1>4 DEF Empties, Released
  <2>2. ASSUME Empties(job), job.then = "release", NEW m \in Released(job)
        PROVE  m \in job.names \/ m = n \/ Free(m, job.route)'
    <3>1. m \in job.names \/ m = n \/ Free(m, job.route)
      BY <1>1, <2>2 DEF Emptied
    <3>. QED
      BY <1>1, <1>10, <1>12, <2>2, <3>1
  <2>3. Empties(new) /\ new.then = "release" =>
          \A m \in Released(new) : \/ m \in new.names
                                   \/ new.pc # "clear" /\ m = new.cur
                                   \/ Free(m, new.route)'
    BY <1>4, <2>1, <2>2
  <2>. QED
    BY <1>4, <1>9, <1>11, <2>3 DEF Emptied, Empties, Free, Released
<1>14. \A m \in Listeners : sets[m] # Nil => sets'[m] # Nil
  BY <1>9
<1>. QED
  BY <1>1, <1>2, <1>4, <1>5, <1>6, <1>7, <1>9, <1>10, <1>13, <1>14, MovesSound DEF NoEvent

LEMMA SyncedSound ==
  ASSUME Sound, NEW k \in Kinds, Synced(k)
  PROVE  Sound'
<1> DEFINE job == work[k]
<1>1. /\ Typed /\ Busy(k) /\ job.pc = "sync" /\ job \in Job /\ Planned(job) /\ Emptied(job)
      /\ holder = k
  BY SyncSays DEF Synced
<1>2. /\ UNCHANGED <<server, sets, lost>> /\ NoEvent /\ holder' = Nil
      /\ job.seen = job.want
  BY DEF Synced
<1>3. /\ job.names \in SUBSET Listeners /\ job.then \in {"reject", "backends", "release"}
      /\ job.route \in Routes
  BY <1>1, JobFields
<1>4. CASE job.want = {} /\ Empty(k, job.names, job.then)
  <2>1. PICK new : /\ Moves(k, job, new) /\ Alike(job, new)
                   /\ new.names = job.names /\ new.then = job.then
                   /\ job.names = {} => new.pc = job.then
                   /\ job.names # {} => new.pc = "clear"
    BY <1>1, <1>3, <1>4, EmptySays
  <2>2. new \in Job /\ new.route = job.route /\ new.pc # "sync"
    BY <1>3, <2>1 DEF Moves
  <2>3. Free(job.cur, job.route) /\ Empties(job)
    BY <1>1, <1>2, <1>4 DEF Emptied, Empties
  <2>4. \A m \in Released(job) :
          \/ m \in new.names
          \/ ~(m \in job.names \/ (job.pc # "clear" /\ m = job.cur))
          \/ Free(m, job.route)
    BY <2>1, <2>3
  <2>5. Planned(new) /\ Emptied(new)
    BY <1>1, <2>1, <2>2, <2>3, <2>4, ClearedSays
  <2>. QED
    BY <1>1, <1>2, <2>1, <2>2, <2>5, LockSound
<1>5. CASE job.want # {} /\ Goto(k, "record")
  <2>1. "record" \in PCs
    BY DEF PCs
  <2>2. PICK new : /\ Moves(k, job, new) /\ Alike(job, new) /\ new.pc = "record"
                   /\ new.names = job.names /\ new.then = job.then
    BY <1>1, <1>5, <2>1, GotoSays
  <2>3. Programs(job) /\ job.want = {job.as} /\ job.cur = job.at
    BY <1>1, <1>5 DEF Planned, Programs
  <2>4. Planned(new)
    BY <1>1, <2>2, <2>3, AlikePlanned DEF Moves
  <2>5. job.as # job.route => Free(job.at, job.route)
    BY <1>1, <1>2, <2>3 DEF Emptied
  <2>6. Emptied(new)
    BY <2>2, <2>5 DEF Emptied, Empties, Alike, Moves
  <2>. QED
    BY <1>1, <1>2, <2>2, <2>4, <2>6, LockSound
<1>. QED
  BY <1>4, <1>5 DEF Synced

LEMMA SetProgrammedSound ==
  ASSUME Sound, NEW k \in Kinds, NEW job, job = work[k], SetProgrammed(k)
  PROVE  Sound'
<1> DEFINE x == job.as
           noted == Desired(job.asCopy, job.open)
<1>1. /\ Typed /\ Busy(k) /\ job.pc = "record" /\ job \in Job /\ Planned(job) /\ Emptied(job)
      /\ KindOf[job.route] = k
  BY BusySays DEF Sound, SetProgrammed, At
<1>2. /\ UNCHANGED <<sets, holder>> /\ NoEvent /\ server[x] # Nil
      /\ server' = [server EXCEPT ![x].recorded = noted]
      /\ lost' = (IF Owner(job.at) = x /\ sets[job.at] = {x}
                  THEN lost \ {job.at} ELSE lost) \cup Forgotten(job)
  BY DEF SetProgrammed
<1>3. /\ x \in Routes /\ job.route \in Routes /\ Programs(job) /\ job.at \in Listeners
      /\ noted \in SUBSET Listeners
  BY <1>1, JobFields, DesiredTypes DEF Planned, Programs
<1>4. /\ sets \in [Listeners -> {Nil} \cup SUBSET Routes] /\ lost \subseteq Listeners
      /\ server \in [Routes -> Route \cup {Nil}] /\ \A r \in Routes \ born : server[r] = Nil
      /\ holder \in Kinds \cup {Nil} /\ holder # k
  BY <1>1, TypesSay
<1>5. /\ server' \in [Routes -> Route \cup {Nil}]
      /\ \A r \in Routes \ born : server'[r] = Nil
  <2>1. server[x] \in Route /\ x \in born
    BY <1>2, <1>3, <1>4
  <2>2. [server[x] EXCEPT !.recorded = noted] \in Route
    BY <1>3, <2>1 DEF Route
  <2>. QED
    BY <1>2, <1>3, <1>4, <2>1, <2>2
<1>10. lost' \subseteq Listeners
  <2>1. server[x].recorded \subseteq Listeners
    BY <1>2, <1>3, <1>4 DEF Route
  <2>. QED
    BY <1>2, <1>4, <2>1 DEF Forgotten
<1>6. \A n \in Listeners, r \in Routes : Free(n, r) => Free(n, r)'
  BY <1>2 DEF Free
<1>7. ASSUME NEW new, new \in Job, new.route = job.route, new.pc # "sync", Planned(new),
             Emptied(new), work' = [work EXCEPT ![k] = new]
      PROVE  Sound'
  <2>1. Moves(k, job, new)
    BY <1>1, <1>7 DEF Moves
  <2>2. Emptied(new)'
    BY <1>2, <1>7 DEF Emptied, Empties, Free, Released
  <2>. QED
    BY <1>1, <1>2, <1>4, <1>5, <1>6, <1>7, <1>10, <2>1, <2>2, MovesSound DEF NoEvent
<1>8. CASE x = job.route
  <2> DEFINE new == [job EXCEPT !.pc = "listeners", !.todo = @ \ {job.at}]
  <2>1. work' = [work EXCEPT ![k] = new]
    BY <1>8 DEF SetProgrammed, AfterRecord
  <2>2. /\ new \in Job /\ new.pc = "listeners" /\ new.route = job.route
        /\ new.copy = job.copy /\ new.open = job.open /\ new.todo = job.todo \ {job.at}
        /\ new.as = job.as /\ new.asCopy = job.asCopy
    BY ZenonT(40), <1>1 DEF Job, PCs
  <2> HIDE DEF new
  <2>3. Planned(new) /\ Emptied(new)
    BY <1>1, <2>2 DEF Planned, Programs, Releases, Empties, Emptied
  <2>. QED
    BY <1>7, <2>1, <2>2, <2>3
<1>9. CASE x # job.route
  <2> DEFINE new == [job EXCEPT !.pc = "release"]
  <2>1. work' = [work EXCEPT ![k] = new]
    BY <1>9 DEF SetProgrammed, AfterRecord
  <2>2. /\ new \in Job /\ new.pc = "release" /\ new.route = job.route
        /\ new.copy = job.copy /\ new.open = job.open /\ new.todo = job.todo
        /\ new.as = job.as /\ new.asCopy = job.asCopy /\ new.at = job.at
    BY <1>1 DEF Job, PCs
  <2> HIDE DEF new
  <2>3. Free(job.at, job.route) /\ job.at # Nil
    BY <1>1, <1>3, <1>9 DEF Emptied
  <2>4. Planned(new)
    BY <1>1, <1>9, <2>2 DEF Planned, Programs, Releases, Empties
  <2>5. Emptied(new)
    BY <2>2, <2>3 DEF Empties, Emptied, Released
  <2>. QED
    BY <1>7, <2>1, <2>2, <2>4, <2>5
<1>. QED
  BY <1>8, <1>9

LEMMA RemoveFinalizerSound ==
  ASSUME Sound, NEW k \in Kinds, NEW job, job = work[k], RemoveFinalizer(k)
  PROVE  Sound'
<1> DEFINE r == job.route
           new == [job EXCEPT !.pc = "listeners", !.todo = @ \ {job.at}]
<1>1. /\ Typed /\ Busy(k) /\ job.pc = "release" /\ job \in Job /\ Planned(job)
      /\ KindOf[r] = k /\ work \in [Kinds -> Job \cup {Nil}]
  BY BusySays DEF Sound, RemoveFinalizer, At
<1>2. /\ UNCHANGED <<sets, holder>> /\ NoEvent /\ server[r] = job.copy
      /\ server' = [server EXCEPT ![r] =
           IF job.copy.deleting THEN Nil ELSE [job.copy EXCEPT !.recorded = {}]]
      /\ lost' \subseteq lost \cup (job.copy.spec \cup job.copy.recorded)
  BY DEF RemoveFinalizer
<1>3. r \in Routes /\ job.copy \in Route /\ job.copy.spec \cup job.copy.recorded \subseteq Listeners
  BY <1>1, JobFields
<1>4. /\ sets \in [Listeners -> {Nil} \cup SUBSET Routes] /\ lost \subseteq Listeners
      /\ server \in [Routes -> Route \cup {Nil}] /\ \A y \in Routes \ born : server[y] = Nil
      /\ holder \in Kinds \cup {Nil} /\ holder # k
  BY <1>1, TypesSay
<1>5. /\ server' \in [Routes -> Route \cup {Nil}]
      /\ \A y \in Routes \ born : server'[y] = Nil
  <2>1. r \in born
    BY <1>2, <1>3, <1>4
  <2>2. [job.copy EXCEPT !.recorded = {}] \in Route
    BY <1>3 DEF Route
  <2>. QED
    BY <1>2, <1>3, <1>4, <2>1, <2>2
<1>6. work' = [work EXCEPT ![k] = new]
  BY <1>1 DEF RemoveFinalizer
<1>7. /\ new \in Job /\ new.pc = "listeners" /\ new.route = job.route
      /\ new.copy = job.copy /\ new.open = job.open /\ new.todo = job.todo \ {job.at}
      /\ new.as = job.as /\ new.asCopy = job.asCopy
  BY <1>1 DEF Job, PCs
<1> HIDE DEF new
<1>8. Planned(new) /\ Emptied(new)'
  BY <1>1, <1>7 DEF Planned, Programs, Releases, Empties, Emptied
<1>9. Moves(k, job, new)
  BY <1>1, <1>6, <1>7 DEF Moves
<1>10. \A n \in Listeners, y \in Routes : Free(n, y) => Free(n, y)'
  BY <1>2 DEF Free
<1>11. lost' \subseteq Listeners
  BY <1>2, <1>3, <1>4
<1>. QED
  BY <1>1, <1>2, <1>4, <1>5, <1>7, <1>8, <1>9, <1>10, <1>11, MovesSound DEF NoEvent

\* A worker takes a request.
LEMMA TakeSound ==
  ASSUME Sound, NEW k \in Kinds, NEW r \in Routes, Take(k, r)
  PROVE  Sound'
<1>1. /\ Typed /\ ~Busy(k) /\ KindOf[r] = k /\ queue' = queue \ {r} /\ queue \subseteq Routes
      /\ UNCHANGED <<server, sets, holder, lost, cache, born, endpoints, protocol, edits, crashes>>
      /\ cache \in [Routes -> Route \cup {Nil}] /\ work \in [Kinds -> Job \cup {Nil}]
      /\ holder # k /\ work[k] = Nil
  BY DEF Sound, Typed, TypeOK, Take, NoWrite, At, Busy, Idle
<1>2. \A j \in Kinds : Busy(j) => Planned(work[j]) /\ Emptied(work[j])
  BY DEF Sound, Typed
<1>3. ASSUME NEW new, new \in Job \cup {Nil}, work' = [work EXCEPT ![k] = new],
             new # Nil => /\ new \in Job /\ Planned(new) /\ Emptied(new) /\ new.route = r
                          /\ new.pc \in {"listeners", "clear"}
      PROVE  Sound'
  <2>1. /\ work' \in [Kinds -> Job \cup {Nil}] /\ work'[k] = new
        /\ \A j \in Kinds \ {k} : work'[j] = work[j]
    BY <1>1, <1>3
  <2>2. \A j \in Kinds : work'[j] # Nil => Planned(work'[j]) /\ Emptied(work'[j])
    BY <1>2, <1>3, <2>1 DEF Busy, Idle
  <2>3. TypeOK'
    <3>1. \A j \in Kinds : (holder' = j) = At(j, "sync")'
      BY <1>1, <1>3, <2>1 DEF Typed, TypeOK, At, Busy, Idle
    <3>2. \A j \in Kinds : Busy(j)' => /\ KindOf[work'[j].route] = j
                                       /\ At(j, "release")' => Finalized(work'[j].copy)
      BY <1>1, <1>3, <2>1 DEF Typed, TypeOK, At, Busy, Idle
    <3>. QED
      BY <1>1, <2>1, <3>1, <3>2 DEF Typed, TypeOK, Idle
  <2>4. \A j \in Kinds : Busy(j)' => Planned(work[j])'
    BY <2>2 DEF Busy, Idle, Planned, Programs, Releases, Empties
  <2>5. \A j \in Kinds : Busy(j)' => Emptied(work[j])'
    BY <1>1, <2>2 DEF Busy, Idle, Emptied, Free, Empties, Released
  <2>. QED
    BY <2>3, <2>4, <2>5 DEF Sound, Typed
<1>4. CASE cache[r] = Nil /\ UNCHANGED work
  <2>1. work' = [work EXCEPT ![k] = Nil]
    BY <1>1, <1>4
  <2>. QED
    BY <1>3, <2>1
<1>5. CASE /\ cache[r] # Nil
           /\ work' = [work EXCEPT ![k] =
                IF Detached(NewJob(k, r))
                THEN [NewJob(k, r) EXCEPT !.pc = "clear", !.names = NewJob(k, r).copy.recorded]
                ELSE NewJob(k, r)]
  <2> DEFINE job == NewJob(k, r)
             open == {l \in Listeners : protocol[l] = k}
             gone == [job EXCEPT !.pc = "clear", !.names = job.copy.recorded]
  <2>1. /\ cache[r] \in Route /\ open \in SUBSET Listeners
        /\ Desired(cache[r], open) \in SUBSET Listeners /\ cache[r].recorded \in SUBSET Listeners
    BY <1>1, <1>5, DesiredTypes DEF Route
  <2>2. /\ job \in Job /\ job.pc = "listeners" /\ job.route = r /\ job.copy = cache[r]
        /\ job.asCopy = cache[r] /\ job.as = r /\ job.at = Nil /\ job.then = "release"
        /\ job.todo = Desired(cache[r], job.open)
    BY <2>1 DEF NewJob, Job, PCs
  <2>3. Planned(job) /\ Emptied(job)
    BY <2>2 DEF Planned, Programs, Releases, Empties, Emptied
  <2>4. /\ gone \in Job /\ gone.pc = "clear" /\ gone.names = cache[r].recorded
        /\ gone.route = r /\ gone.copy = cache[r]
        /\ gone.asCopy = cache[r] /\ gone.as = r /\ gone.at = Nil /\ gone.then = "release"
        /\ gone.todo = Desired(cache[r], gone.open)
    <3>. HIDE DEF job
    <3>. QED
      BY <2>1, <2>2 DEF Job, PCs
  <2>5. Detached(job) => Finalized(cache[r])
    BY <2>2 DEF Detached
  <2>. HIDE DEF job, gone
  <2>6. Detached(job) => Planned(gone) /\ Emptied(gone)
    BY <2>4, <2>5 DEF Planned, Programs, Releases, Empties, Emptied, Released
  <2>7. job # Nil /\ gone # Nil
    BY <2>2, <2>4
  <2>8. CASE Detached(job)
    <3>1. work' = [work EXCEPT ![k] = gone]
      BY <1>5, <2>8 DEF job, gone
    <3>. QED
      BY <1>3, <2>4, <2>6, <2>8, <3>1
  <2>9. CASE ~Detached(job)
    <3>1. work' = [work EXCEPT ![k] = job]
      BY <1>5, <2>9 DEF job
    <3>. QED
      BY <1>3, <2>2, <2>3, <3>1
  <2>. QED
    BY <2>8, <2>9
<1>. QED
  BY <1>4, <1>5 DEF Take

LEMMA FailSound ==
  ASSUME Sound, NEW k \in Kinds, Fail(k)
  PROVE  Sound'
<1>1. work[k].route \in Routes /\ queue \subseteq Routes
  <2>1. Typed /\ Busy(k)
    BY DEF Sound, Fail
  <2>. QED
    BY <2>1, BusySays, JobFields DEF Typed, TypeOK
<1>. QED
  BY <1>1, FinishSound DEF Fail

----------------------------------------------------------------------------
(* The steps of the others.                                                *)

\* A step of somebody else, which leaves no backends where there were none and takes no set
\* from under the lock.
LEMMA OthersSound ==
  ASSUME Sound, UNCHANGED <<work, holder>>, TypeOK',
         \A n \in Listeners, r \in Routes : Free(n, r) => Free(n, r)',
         holder # Nil => UNCHANGED sets
  PROVE  Sound'
<1>1. ASSUME NEW k \in Kinds, NEW job, job = work[k], job # Nil
      PROVE  Emptied(job)'
  <2>1. Typed /\ job \in Job /\ Planned(job) /\ KindOf[job.route] = k /\ Emptied(job)
    BY <1>1 DEF Sound, Typed, TypeOK, Busy, Idle
  <2>2. /\ job.route \in Routes /\ job.at \in Listeners \cup {Nil}
        /\ Released(job) \subseteq Listeners
    BY <2>1, JobFields DEF Released
  <2>3. job.pc \in {"lock", "sync"} => job.cur \in Listeners
    BY <2>1 DEF Planned
  <2>4. job.pc = "record" => job.at \in Listeners
    BY <2>1, JobFields, DesiredTypes DEF Planned, Programs
  <2>5. job.pc = "sync" => holder # Nil
    BY <1>1, <2>1, TypesSay DEF Busy, Idle
  <2>6. \A n \in Released(job) : n \in Listeners
    BY <2>2
  <2>7. job.pc = "release" => \A n \in Released(job) : Free(n, job.route)'
    BY <2>1, <2>2, <2>6 DEF Emptied
  <2>8. Empties(job) /\ job.then = "release" =>
          \A n \in Released(job) :
            n \in job.names \/ (job.pc # "clear" /\ n = job.cur) \/ Free(n, job.route)'
    BY <2>1, <2>2, <2>6 DEF Emptied
  <2>9. job.pc \in {"lock", "sync"} => Free(job.cur, job.route)' \/ job.route \in job.seen
    <3>1. job.pc \in {"lock", "sync"} => Free(job.cur, job.route) \/ job.route \in job.seen
      BY <2>1 DEF Emptied
    <3>. QED
      BY <2>2, <2>3, <3>1 DEF Free
  <2>10. job.pc = "record" /\ job.as # job.route => Free(job.at, job.route)'
    <3>1. job.pc = "record" /\ job.as # job.route => Free(job.at, job.route)
      BY <2>1 DEF Emptied
    <3>. QED
      BY <2>2, <2>4, <3>1 DEF Free
  <2>11. job.pc = "sync" => sets'[job.cur] # Nil
    <3>1. job.pc = "sync" => sets[job.cur] # Nil
      BY <2>1 DEF Emptied
    <3>. QED
      BY <2>5, <3>1
  <2>. QED
    BY <2>7, <2>8, <2>9, <2>10, <2>11 DEF Emptied, Empties, Released
<1>2. \A k \in Kinds : Busy(k)' => Emptied(work[k])'
  <2>1. ASSUME NEW k \in Kinds, NEW job, job = work'[k], job # Nil
        PROVE  Emptied(job)'
    BY <1>1, <2>1
  <2>. QED
    BY <2>1 DEF Emptied, Free, Empties, Released, Busy, Idle
<1>3. \A k \in Kinds : Busy(k)' => Planned(work[k])'
  BY DEF Sound, Typed, Busy, Idle, Planned, Programs, Releases, Empties
<1>. QED
  BY <1>2, <1>3 DEF Sound, Typed

\* ... and which leaves the workers and the load balancer alone.
LEMMA AwaySound ==
  ASSUME Sound, UNCHANGED <<work, holder, sets, crashes>>,
         server' \in [Routes -> Route \cup {Nil}], cache' \in [Routes -> Route \cup {Nil}],
         born \subseteq born', born' \subseteq Routes, endpoints' \subseteq Routes,
         queue' \subseteq Routes, protocol' \in [Listeners -> Kinds \cup {Nil}],
         \A r \in Routes \ born' : server'[r] = Nil /\ cache'[r] = Nil,
         edits' \in 0..MaxEdits, lost' \subseteq Listeners
  PROVE  Sound'
<1>1. TypeOK'
  BY DEF Sound, Typed, TypeOK, Busy, Idle, At
<1>2. \A n \in Listeners, r \in Routes : Free(n, r) => Free(n, r)'
  BY DEF Free
<1>. QED
  BY <1>1, <1>2, OthersSound

LEMMA UsersSound ==
  ASSUME Sound, Users
  PROVE  Sound'
<1>1. /\ server \in [Routes -> Route \cup {Nil}] /\ cache \in [Routes -> Route \cup {Nil}]
      /\ born \subseteq Routes /\ endpoints \subseteq Routes /\ queue \subseteq Routes
      /\ protocol \in [Listeners -> Kinds \cup {Nil}]
      /\ \A r \in Routes \ born : server[r] = Nil /\ cache[r] = Nil
      /\ edits \in 0..MaxEdits /\ lost \subseteq Listeners
  BY DEF Sound, Typed, TypeOK
<1>2. Edit => edits' \in 0..MaxEdits
  BY <1>1 DEF Edit
<1>3. ASSUME NEW r \in Routes, NEW s \in Specs, Create(r, s)
      PROVE  Sound'
  <2>1. [spec |-> s, deleting |-> FALSE, recorded |-> {}] \in Route
    BY DEF Route
  <2>2. /\ server' \in [Routes -> Route \cup {Nil}]
        /\ \A y \in Routes \ born' : server'[y] = Nil /\ cache'[y] = Nil
    BY <1>1, <1>3, <2>1 DEF Create
  <2>. QED
    BY <1>1, <1>3, <2>2, AwaySound DEF Create
<1>4. ASSUME NEW r \in Routes, NEW s \in Specs, Attach(r, s)
      PROVE  Sound'
  <2>1. server[r] \in Route /\ r \in born
    BY <1>1, <1>4 DEF Attach
  <2>2. [server[r] EXCEPT !.spec = s] \in Route /\ server[r].spec \subseteq Listeners
    BY <2>1 DEF Route
  <2>3. /\ server' \in [Routes -> Route \cup {Nil}] /\ lost' \subseteq Listeners
        /\ \A y \in Routes \ born : server'[y] = Nil
    BY <1>1, <1>4, <2>1, <2>2 DEF Attach
  <2>. QED
    BY <1>1, <1>2, <1>4, <2>3, AwaySound DEF Attach
<1>5. ASSUME NEW r \in Routes, Delete(r)
      PROVE  Sound'
  <2>1. server[r] \in Route /\ r \in born
    BY <1>1, <1>5 DEF Delete
  <2>2. [server[r] EXCEPT !.deleting = TRUE] \in Route /\ server[r].spec \subseteq Listeners
    BY <2>1 DEF Route
  <2>3. /\ server' \in [Routes -> Route \cup {Nil}] /\ lost' \subseteq Listeners
        /\ \A y \in Routes \ born : server'[y] = Nil
    <3>1. \/ server' = [server EXCEPT ![r].deleting = TRUE] /\ lost' = lost
          \/ server' = [server EXCEPT ![r] = Nil] /\ lost' = lost \cup server[r].spec
      BY <1>5 DEF Delete
    <3>2. CASE server' = [server EXCEPT ![r].deleting = TRUE] /\ lost' = lost
      <4>1. server' = [server EXCEPT ![r] = [server[r] EXCEPT !.deleting = TRUE]]
        BY <3>2
      <4>. QED
        BY <1>1, <2>1, <2>2, <3>2, <4>1
    <3>3. CASE server' = [server EXCEPT ![r] = Nil] /\ lost' = lost \cup server[r].spec
      BY <1>1, <2>1, <2>2, <3>3
    <3>. QED
      BY <3>1, <3>2, <3>3
  <2>4. UNCHANGED <<cache, born, endpoints, protocol, sets, holder, queue, work, edits, crashes>>
    BY <1>5 DEF Delete
  <2>. QED
    BY <1>1, <2>3, <2>4, AwaySound
<1>6. ASSUME NEW r \in Routes, ChangeEndpoints(r)
      PROVE  Sound'
  BY <1>1, <1>2, <1>6, AwaySound DEF ChangeEndpoints
<1>7. ASSUME NEW l \in Listeners, NEW p \in Kinds \cup {Nil}, EditListener(l, p)
      PROVE  Sound'
  <2>1. /\ protocol' \in [Listeners -> Kinds \cup {Nil}]
        /\ queue' \subseteq Routes /\ lost' \subseteq Listeners
    BY <1>1, <1>7 DEF EditListener
  <2>. QED
    BY <1>1, <1>2, <1>7, <2>1, AwaySound DEF EditListener
<1>. QED
  BY <1>3, <1>4, <1>5, <1>6, <1>7 DEF Users

LEMMA ObserveSound ==
  ASSUME Sound, NEW r \in Routes, Observe(r)
  PROVE  Sound'
<1>1. /\ server \in [Routes -> Route \cup {Nil}] /\ cache \in [Routes -> Route \cup {Nil}]
      /\ born \subseteq Routes /\ endpoints \subseteq Routes /\ queue \subseteq Routes
      /\ protocol \in [Listeners -> Kinds \cup {Nil}]
      /\ \A y \in Routes \ born : server[y] = Nil /\ cache[y] = Nil
      /\ edits \in 0..MaxEdits /\ lost \subseteq Listeners
  BY DEF Sound, Typed, TypeOK
<1>2. /\ cache' \in [Routes -> Route \cup {Nil}] /\ queue' \subseteq Routes
      /\ \A y \in Routes \ born : cache'[y] = Nil
  BY <1>1 DEF Observe
<1>. QED
  BY <1>1, <1>2, AwaySound DEF Observe

LEMMA GatewaySound ==
  ASSUME Sound, Gateway
  PROVE  Sound'
<1>1. PICK l \in Listeners : GatewayCreatesSet(l) \/ GatewayDeletesSet(l)
  BY DEF Gateway
<1>2. /\ holder = Nil
      /\ UNCHANGED <<server, cache, born, endpoints, protocol, holder, queue, work, edits,
                     crashes, lost>>
      /\ sets' = [sets EXCEPT ![l] = {}] \/ sets' = [sets EXCEPT ![l] = Nil]
  BY <1>1 DEF GatewayCreatesSet, GatewayDeletesSet
<1>3. sets \in [Listeners -> {Nil} \cup SUBSET Routes]
  BY DEF Sound, Typed, TypeOK
<1>4. /\ sets' \in [Listeners -> {Nil} \cup SUBSET Routes]
      /\ \A n \in Listeners, r \in Routes : Free(n, r) => Free(n, r)'
  BY <1>2, <1>3 DEF Free
<1>5. TypeOK'
  BY <1>2, <1>4 DEF Sound, Typed, TypeOK, Busy, Idle, At
<1>. QED
  BY <1>2, <1>4, <1>5, OthersSound

LEMMA CrashSound ==
  ASSUME Sound, Crash
  PROVE  Sound'
<1>1. \A k \in Kinds : ~Busy(k)'
  BY DEF Crash, Busy, Idle
<1>2. crashes' \in 0..MaxCrashes
  BY DEF Sound, Typed, TypeOK, Crash
<1>3. /\ work' \in [Kinds -> Job \cup {Nil}] /\ queue' \subseteq Routes
      /\ \A k \in Kinds : (holder' = k) = At(k, "sync")'
  BY <1>1 DEF Crash, At, Idle
<1>4. TypeOK'
  BY <1>1, <1>2, <1>3 DEF Sound, Typed, TypeOK, Crash, Idle
<1>. QED
  BY <1>1, <1>4 DEF Sound, Typed

----------------------------------------------------------------------------
(* The theorems.                                                           *)

LEMMA StepSound ==
  ASSUME Sound, NEW k \in Kinds, Step(k)
  PROVE  Sound'
<1>1. ASSUME NEW r \in Routes, Take(k, r) \/ DeleteBackend(k, r)
      PROVE  Sound'
  BY <1>1, TakeSound, DeleteBackendSound
<1>2. ASSUME NEW n \in Listeners, ReadToClear(k, n)
      PROVE  Sound'
  BY <1>2, ReadToClearSound
<1>3. CASE NextListener(k) \/ ProgramRoute(k) \/ ResolveBackends(k) \/ Reject(k)
  BY <1>3, NextListenerSound, ProgramRouteSound, ResolveBackendsSound, RejectSound
<1>4. CASE UpdateBackendSet(k) \/ LockToClear(k) \/ CreateBackend(k) \/ Synced(k)
  BY <1>4, UpdateBackendSetSound, LockToClearSound, CreateBackendSound, SyncedSound
<1>5. CASE SetProgrammed(k) \/ RemoveFinalizer(k)
  BY <1>5, SetProgrammedSound, RemoveFinalizerSound
<1>. QED
  BY <1>1, <1>2, <1>3, <1>4, <1>5 DEF Step

LEMMA InitSound ==
  ASSUME Init
  PROVE  Sound
<1>1. \A k \in Kinds : ~Busy(k)
  BY DEF Init, Busy, Idle
<1>2. TypeOK
  BY <1>1 DEF Init, TypeOK, At, Idle
<1>. QED
  BY <1>1, <1>2 DEF Sound, Typed

LEMMA NextSound ==
  ASSUME Sound, [Next]_vars
  PROVE  Sound'
<1>1. ASSUME NEW k \in Kinds, Step(k) \/ Fail(k)
      PROVE  Sound'
  BY <1>1, StepSound, FailSound
<1>2. ASSUME NEW r \in Routes, Observe(r)
      PROVE  Sound'
  BY <1>2, ObserveSound
<1>3. CASE UNCHANGED vars
  BY <1>3 DEF vars, Sound, Typed, TypeOK, Planned, Programs, Releases, Empties, Emptied, Free,
              Released, Busy, Idle, At
<1>. QED
  BY <1>1, <1>2, <1>3, GatewaySound, UsersSound, CrashSound DEF Next

LEMMA AlwaysSound == Spec => []Sound
<1>1. Init => Sound
  BY InitSound
<1>2. Sound /\ [Next]_vars => Sound'
  BY NextSound
<1>. QED
  BY <1>1, <1>2, PTL DEF Spec

THEOREM TypeCorrect == Spec => []TypeOK
<1>1. Sound => TypeOK
  BY DEF Sound, Typed
<1>. QED
  BY <1>1, AlwaysSound, PTL

\* Only the end of a release takes the finalizer of a route.
LEMMA FinalizersStay ==
  ASSUME Sound, [Next]_vars, NEW r \in Routes,
         server[r] # Nil, Finalized(server[r]),
         server'[r] = Nil \/ ~Finalized(server'[r])
  PROVE  \E k \in Kinds : RemoveFinalizer(k) /\ work[k].route = r
<1>1. /\ server \in [Routes -> Route \cup {Nil}] /\ server[r] \in Route /\ r \in born
      /\ \A y \in Routes \ born : server[y] = Nil
  BY DEF Sound, Typed, TypeOK
<1>2. server' # server
  BY <1>1
<1>3. ASSUME NEW k \in Kinds, SetProgrammed(k)
      PROVE  FALSE
  <2> DEFINE noted == Desired(work[k].asCopy, work[k].open)
  <2>1. /\ Typed /\ Busy(k) /\ work[k] \in Job /\ Planned(work[k]) /\ work[k].pc = "record"
    BY <1>3, BusySays DEF SetProgrammed, Sound, At
  <2>2. work[k].at \in noted
    BY <2>1 DEF Planned, Programs
  <2> HIDE DEF noted
  <2>3. server' = [server EXCEPT ![work[k].as].recorded = noted]
    BY <1>3 DEF SetProgrammed, noted
  <2>4. CASE work[k].as = r
    <3>1. server'[r] = [server[r] EXCEPT !.recorded = noted]
      BY <1>1, <2>3, <2>4
    <3>2. noted \in SUBSET Listeners
      BY <2>1, JobFields, DesiredTypes DEF noted
    <3>3. server'[r] \in Route /\ server'[r].recorded = noted
      BY <1>1, <3>1, <3>2 DEF Route
    <3>. QED
      BY <2>2, <3>3 DEF Finalized
  <2>5. CASE work[k].as # r
    BY <1>1, <2>3, <2>5
  <2>. QED
    BY <2>4, <2>5
<1>4. ASSUME NEW k \in Kinds, RemoveFinalizer(k)
      PROVE  work[k].route = r
  BY <1>1, <1>2, <1>4 DEF RemoveFinalizer
<1>5. ASSUME NEW y \in Routes, NEW s \in Specs, Create(y, s) \/ Attach(y, s) \/ Delete(y)
      PROVE  FALSE
  <2>1. CASE Create(y, s)
    BY <1>1, <2>1 DEF Create
  <2>2. CASE Attach(y, s)
    <3>1. server' = [server EXCEPT ![y].spec = s]
      BY <2>2 DEF Attach
    <3>2. server'[r] \in Route /\ server'[r].recorded = server[r].recorded
      BY <1>1, <3>1 DEF Route
    <3>. QED
      BY <3>2 DEF Finalized
  <2>3. CASE Delete(y)
    <3>1. CASE y = r
      <4>1. server' = [server EXCEPT ![y].deleting = TRUE]
        BY <2>3, <3>1 DEF Delete
      <4>2. server'[r] \in Route /\ server'[r].recorded = server[r].recorded
        BY <1>1, <4>1 DEF Route
      <4>. QED
        BY <4>2 DEF Finalized
    <3>2. CASE y # r
      BY <1>1, <2>3, <3>2 DEF Delete
    <3>. QED
      BY <3>1, <3>2
  <2>. QED
    BY <1>5, <2>1, <2>2, <2>3
<1>6. ASSUME NEW k \in Kinds, Step(k) \/ Fail(k)
      PROVE  SetProgrammed(k) \/ RemoveFinalizer(k)
  BY <1>2, <1>6 DEF Step, Fail, Take, DeleteBackend, ReadToClear, NextListener, ProgramRoute,
     ResolveBackends, Reject, UpdateBackendSet, LockToClear, CreateBackend, Synced, NoWrite
<1>7. Users => \E y \in Routes, s \in Specs : Create(y, s) \/ Attach(y, s) \/ Delete(y)
  <2>1. ASSUME NEW y \in Routes, ChangeEndpoints(y)
        PROVE  FALSE
    BY <1>2, <2>1 DEF ChangeEndpoints
  <2>2. ASSUME NEW l \in Listeners, NEW p \in Kinds \cup {Nil}, EditListener(l, p)
        PROVE  FALSE
    BY <1>2, <2>2 DEF EditListener
  <2>3. ASSUME Specs = {}, NEW y \in Routes, Delete(y)
        PROVE  FALSE
    BY <1>1, <2>3 DEF Route
  <2>. QED
    BY <2>1, <2>2, <2>3 DEF Users
<1>8. ~Gateway /\ ~Crash /\ ~(UNCHANGED vars) /\ ~(\E y \in Routes : Observe(y))
  BY <1>2 DEF Gateway, GatewayCreatesSet, GatewayDeletesSet, Crash, vars, Observe
<1>9. \E k \in Kinds : Step(k) \/ Fail(k)
  BY <1>5, <1>7, <1>8 DEF Next
<1>. QED
  BY <1>3, <1>4, <1>6, <1>9

(***************************************************************************)
(* A route loses its finalizer only when the listeners it releases are     *)
(* free of its backends.                                                   *)
(***************************************************************************)
THEOREM ReleasedMeansEmptiedHolds == Spec => ReleasedMeansEmptied
<1> DEFINE LetsGo(r) ==
      /\ server[r] # Nil /\ Finalized(server[r])
      /\ server'[r] = Nil \/ ~Finalized(server'[r])
      => \A n \in Released(work[KindOf[r]]) : sets[n] = Nil \/ r \notin sets[n]
<1>1. ASSUME Sound, [Next]_vars, NEW r \in Routes
      PROVE  LetsGo(r)
  <2>1. SUFFICES ASSUME server[r] # Nil, Finalized(server[r]),
                        server'[r] = Nil \/ ~Finalized(server'[r])
                 PROVE  \A n \in Released(work[KindOf[r]]) : Free(n, r)
    BY DEF Free
  <2>2. PICK k \in Kinds : RemoveFinalizer(k) /\ work[k].route = r
    BY <1>1, <2>1, FinalizersStay
  <2>3. /\ Busy(k) /\ work[k].pc = "release" /\ KindOf[r] = k /\ Emptied(work[k])
    BY <1>1, <2>2, BusySays DEF RemoveFinalizer, At, Sound
  <2>. QED
    BY <2>2, <2>3 DEF Emptied
<1>2. Sound /\ [Next]_vars => \A r \in Routes : LetsGo(r)
  BY <1>1
<1>. QED
  BY <1>2, AlwaysSound, PTL DEF Spec, ReleasedMeansEmptied

=============================================================================
