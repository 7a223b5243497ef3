----------------------------- MODULE L7RouteProofs -----------------------------
(***************************************************************************)
(* Proofs about L7Route: its types, and its safety properties              *)
(* NoForeignRules, ReleasedMeansUnruled and RoutesServed.                  *)
(*                                                                         *)
(* TypeOK is inductive with what a worker knows at each point (JobSound)   *)
(* and with a bound on generations.  NoForeignRules and                    *)
(* ReleasedMeansUnruled follow from Kept, which says of each route, in     *)
(* every state, settled or not:                                            *)
(*                                                                         *)
(*   - Ages: the cache and a copy lag behind the object, and a deletion is *)
(*     not taken back;                                                     *)
(*   - RuleKnown: rules are on record, or where the route is at home;      *)
(*   - CleanedUp: the worker that deprovisions the object as it is now has *)
(*     all the rules that are left before it, so none is left when it      *)
(*     removes the finalizer;                                              *)
(*   - StaleGone: the merged record never covers rules that the same       *)
(*     reconcile was to remove;                                            *)
(*   - OutdatedQueued: a worker that is about to make rules where the      *)
(*     route is not at home any more has another request or event to come; *)
(*   - ForeignNoticed: rules where the route is not at home have a request *)
(*     to come, an event, or a worker that is going to remove them.        *)
(*                                                                         *)
(* RoutesServed follows from Known, which says of each route as well:      *)
(*                                                                         *)
(*   - Fresh: the copy, the cache and the object are in the order of their *)
(*     generations; the condition is True for no generation that no worker *)
(*     has seen; a copy that the cache is ahead of has a request to come;  *)
(*   - ResolvedMeans: in the object, the cache and the copy alike, a       *)
(*     condition that is True for the present generation says that the     *)
(*     rules on record are made - which the worker relies on when it finds *)
(*     that nothing is to be programmed;                                   *)
(*   - Committed: what the worker has made and removed on its way to the   *)
(*     condition;                                                          *)
(*   - Served: a route that is not to come again has its rules and their   *)
(*     endpoints, or a worker that is still to see to them.                *)
(*                                                                         *)
(* A step is looked at for the route it is about; every other one is left  *)
(* alone or loses rules, which keeps its invariants (ApartKept,            *)
(* UntouchedKnown).                                                        *)
(***************************************************************************)
EXTENDS L7Route, TLAPS

USE L7RouteAssumption, NilAssumption

----------------------------------------------------------------------------
(* The worker.                                                             *)

\* The worker has matched listeners of a parent and works towards their rules.
Programs(job) ==
  \/ job.pc \in {"pending", "backends", "ensure", "commit", "drop", "status", "record", "refuse"}
  \/ job.pc = "unrule" /\ job.then \in {"drop", "refuse"}

\* The worker removes what a deleted route has left.
CleansUp(job) ==
  \/ job.pc \in {"clear", "delete", "release"}
  \/ job.pc = "unrule" /\ job.then = "clear"

\* A deleted route has its finalizer.
Marked(x) == x.deleting => Finalized(x)

JobSound(job) ==
  /\ Marked(job.copy)
  /\ Programs(job) => job.at \in Parents /\ MatchedNow(job) # {} /\ ~job.copy.deleting
  /\ CleansUp(job) => job.copy.deleting
  /\ job.pc = "commit" => job.left \subseteq MatchedNow(job)
  /\ job.todo \subseteq job.copy.on

\* How far the generation of a route has come.
Bounded ==
  \A r \in Routes : server[r] # Nil =>
    /\ server[r].gen <= edits + (IF server[r].deleting THEN 2 ELSE 1)
    /\ Marked(server[r])

Typed ==
  /\ TypeOK /\ Bounded
  /\ \A r \in Routes : cache[r] # Nil => Marked(cache[r])
  /\ \A k \in Kinds : Busy(k) => JobSound(work[k])

\* A step of worker k with its route.
Works(k, r) ==
  /\ r \in Routes /\ KindOf[r] = k /\ work[k].route = r
  /\ work[k] \in Job /\ JobSound(work[k])
  /\ work' = [work EXCEPT ![k] = work'[k]]

Stays(k) ==
  /\ work'[k] \in Job
  /\ work'[k].route = work[k].route /\ work'[k].seen = work[k].seen

LEMMA MatchedTypes ==
  ASSUME NEW job, job.at \in Parents
  PROVE  MatchedNow(job) \subseteq Listeners
BY DEF MatchedNow, Matched, Matching, Listeners

\* Removing rules, or going on at once when there are none to remove.
LEMMA UnrulingSays ==
  ASSUME NEW job \in Job, NEW names \in SUBSET Listeners,
         NEW then \in {"drop", "deny", "refuse", "clear"}, NEW new,
         new = Unruling(job, names, then)
  PROVE  /\ new \in Job /\ new.left = names /\ new.then = then
         /\ new.pc = IF names = {} THEN then ELSE "unrule"
         /\ new.route = job.route /\ new.copy = job.copy /\ new.seen = job.seen
         /\ new.todo = job.todo /\ new.at = job.at
<1>1. (IF names = {} THEN then ELSE "unrule") \in PCs
  BY DEF PCs
<1>. QED
  BY <1>1 DEF Unruling, Job

\* A worker that is busy is busy with a route of its kind.
LEMMA BusySays ==
  ASSUME Typed, NEW k \in Kinds, Busy(k)
  PROVE  /\ work[k] \in Job /\ work[k].route \in Routes /\ KindOf[work[k].route] = k
         /\ JobSound(work[k])
         /\ server[work[k].route] \in Route \cup {Nil} /\ cache[work[k].route] \in Route \cup {Nil}
<1>1. work[k] \in Job
  BY DEF Typed, TypeOK, Busy, Idle
<1>2. work[k].route \in Routes
  BY <1>1 DEF Job
<1>. QED
  BY <1>1, <1>2 DEF Typed, TypeOK

\* The worker turns to one of the parents.
LEMMA NextParentParts ==
  ASSUME Typed, NEW k \in Kinds, NextParent(k)
  PROVE  /\ Busy(k) /\ Works(k, work[k].route) /\ work[k].pc = "parents"
         /\ UNCHANGED <<server, rules, sets, lost, slipped>> /\ NoEvent
         /\ \/ work[k].todo = {} /\ work'[k] = Nil
            \/ /\ work[k].todo # {} /\ Stays(k)
               /\ work'[k].at \in work[k].todo /\ work'[k].todo = work[k].todo
               /\ work'[k].copy = work[k].copy
               /\ \/ /\ work[k].copy.deleting
                     /\ work'[k].left = work[k].copy.recorded /\ work'[k].then = "clear"
                     /\ work'[k].pc = IF work'[k].left = {} THEN "clear" ELSE "unrule"
                  \/ /\ ~work[k].copy.deleting /\ MatchedNow(work'[k]) = {}
                     /\ work'[k].left = work[k].copy.recorded /\ work'[k].then = "deny"
                     /\ work'[k].pc = IF work'[k].left = {} THEN "deny" ELSE "unrule"
                  \/ /\ ~work[k].copy.deleting /\ MatchedNow(work'[k]) # {}
                     /\ work'[k].pc = "pending"
                  \/ /\ ~work[k].copy.deleting /\ MatchedNow(work'[k]) # {}
                     /\ work[k].copy.recorded = MatchedNow(work'[k])
                     /\ work[k].copy.resolved[work'[k].at] = work[k].copy.gen
                     /\ work'[k].pc = "sync"
<1>1. /\ Busy(k) /\ work[k].pc = "parents" /\ work[k] \in Job /\ JobSound(work[k])
      /\ work[k].route \in Routes /\ KindOf[work[k].route] = k
      /\ UNCHANGED <<server, rules, sets, lost, slipped>> /\ NoEvent
  BY BusySays DEF NextParent, At, NoOCI
<1>2. work \in [Kinds -> Job \cup {Nil}]
  BY DEF Typed, TypeOK, Idle
<1>3. CASE work[k].todo = {} /\ Finish(k)
  BY <1>1, <1>2, <1>3 DEF Finish, Idle, Works
<1>4. ASSUME NEW p \in work[k].todo,
             LET on == [work[k] EXCEPT !.at = p]
                 listeners == MatchedNow(on)
             IN work' = [work EXCEPT ![k] =
                  IF work[k].copy.deleting THEN Unruling(on, Removable(on), "clear")
                  ELSE IF Denied(listeners) THEN Unruling(on, Removable(on), "deny")
                  ELSE IF Required(work[k].copy, p, listeners) THEN [on EXCEPT !.pc = "pending"]
                  ELSE [on EXCEPT !.pc = "sync"]]
      PROVE  /\ Works(k, work[k].route) /\ Stays(k)
             /\ work'[k].at \in work[k].todo /\ work'[k].todo = work[k].todo
             /\ work'[k].copy = work[k].copy
             /\ \/ /\ work[k].copy.deleting
                   /\ work'[k].left = work[k].copy.recorded /\ work'[k].then = "clear"
                   /\ work'[k].pc = IF work'[k].left = {} THEN "clear" ELSE "unrule"
                \/ /\ ~work[k].copy.deleting /\ MatchedNow(work'[k]) = {}
                   /\ work'[k].left = work[k].copy.recorded /\ work'[k].then = "deny"
                   /\ work'[k].pc = IF work'[k].left = {} THEN "deny" ELSE "unrule"
                \/ /\ ~work[k].copy.deleting /\ MatchedNow(work'[k]) # {}
                   /\ work'[k].pc = "pending"
                \/ /\ ~work[k].copy.deleting /\ MatchedNow(work'[k]) # {}
                   /\ work[k].copy.recorded = MatchedNow(work'[k])
                   /\ work[k].copy.resolved[work'[k].at] = work[k].copy.gen
                   /\ work'[k].pc = "sync"
  <2> DEFINE on == [work[k] EXCEPT !.at = p]
  <2>1. /\ on \in Job /\ on.at = p /\ on.route = work[k].route /\ on.seen = work[k].seen
        /\ on.todo = work[k].todo /\ on.copy = work[k].copy
        /\ work[k].copy.recorded \in SUBSET Listeners
    BY <1>1 DEF Job, Route
  <2>2. work' = [work EXCEPT ![k] = work'[k]] /\ Works(k, work[k].route)
    BY <1>1, <1>2, <1>4 DEF Works
  <2>3. work'[k] =
          IF work[k].copy.deleting THEN Unruling(on, on.copy.recorded, "clear")
          ELSE IF MatchedNow(on) = {} THEN Unruling(on, on.copy.recorded, "deny")
          ELSE IF Required(work[k].copy, p, MatchedNow(on)) THEN [on EXCEPT !.pc = "pending"]
          ELSE [on EXCEPT !.pc = "sync"]
    BY <1>2, <1>4 DEF Denied, Removable
  <2> HIDE DEF on
  <2>4. CASE work[k].copy.deleting \/ MatchedNow(on) = {}
    <3>1. \E then \in {"clear", "deny"} :
            /\ work'[k] = Unruling(on, on.copy.recorded, then)
            /\ then = IF work[k].copy.deleting THEN "clear" ELSE "deny"
      BY <2>3, <2>4
    <3>2. PICK then \in {"clear", "deny"} :
            /\ work'[k] = Unruling(on, on.copy.recorded, then)
            /\ then = IF work[k].copy.deleting THEN "clear" ELSE "deny"
      BY <3>1
    <3>3. /\ work'[k] \in Job /\ work'[k].left = on.copy.recorded /\ work'[k].then = then
          /\ work'[k].pc = IF on.copy.recorded = {} THEN then ELSE "unrule"
          /\ work'[k].route = on.route /\ work'[k].copy = on.copy /\ work'[k].seen = on.seen
          /\ work'[k].todo = on.todo /\ work'[k].at = on.at
      BY <2>1, <3>2, UnrulingSays
    <3>4. MatchedNow(work'[k]) = MatchedNow(on)
      BY <3>3 DEF MatchedNow
    <3>. QED
      BY <2>1, <2>2, <2>4, <3>2, <3>3, <3>4 DEF Stays
  <2>5. CASE ~(work[k].copy.deleting \/ MatchedNow(on) = {})
    <3>1. \E pc \in {"pending", "sync"} :
            /\ work'[k] = [on EXCEPT !.pc = pc]
            /\ pc = "sync" => /\ work[k].copy.recorded = MatchedNow(on)
                              /\ work[k].copy.resolved[on.at] = work[k].copy.gen
      BY <2>1, <2>3, <2>5 DEF Required, ListenersChanged
    <3>2. PICK pc \in {"pending", "sync"} :
            /\ work'[k] = [on EXCEPT !.pc = pc]
            /\ pc = "sync" => /\ work[k].copy.recorded = MatchedNow(on)
                              /\ work[k].copy.resolved[on.at] = work[k].copy.gen
      BY <3>1
    <3>3. /\ work'[k] \in Job /\ work'[k].pc = pc
          /\ work'[k].route = on.route /\ work'[k].copy = on.copy /\ work'[k].seen = on.seen
          /\ work'[k].todo = on.todo /\ work'[k].at = on.at
      BY <2>1, <3>2 DEF Job, PCs
    <3>4. MatchedNow(work'[k]) = MatchedNow(on)
      BY <3>3 DEF MatchedNow
    <3>. QED
      BY <2>1, <2>2, <2>5, <3>2, <3>3, <3>4 DEF Stays
  <2>. QED
    BY <2>4, <2>5
<1>. QED
  BY <1>1, <1>3, <1>4 DEF NextParent

\* What else the job says stays.
Keeps(k) ==
  /\ work'[k].todo = work[k].todo /\ work'[k].at = work[k].at
  /\ work'[k].left = work[k].left /\ work'[k].then = work[k].then

LEMMA GotoSays ==
  ASSUME Typed, NEW k \in Kinds, Busy(k), NEW pc \in PCs, Goto(k, pc)
  PROVE  /\ Works(k, work[k].route) /\ Stays(k) /\ Keeps(k)
         /\ work'[k].pc = pc /\ work'[k].copy = work[k].copy
<1>1. /\ work[k] \in Job /\ JobSound(work[k])
      /\ work[k].route \in Routes /\ KindOf[work[k].route] = k
  BY BusySays
<1>2. work \in [Kinds -> Job \cup {Nil}]
  BY DEF Typed, TypeOK, Idle
<1>3. work'[k] = [work[k] EXCEPT !.pc = pc]
  BY <1>2 DEF Goto
<1>4. work' = [work EXCEPT ![k] = work'[k]]
  BY <1>2 DEF Goto
<1>. QED
  BY <1>1, <1>3, <1>4 DEF Works, Stays, Keeps, Job

LEMMA DoneSays ==
  ASSUME Typed, NEW k \in Kinds, Busy(k), Done(k)
  PROVE  /\ Works(k, work[k].route) /\ Stays(k)
         /\ work'[k].pc = "parents" /\ work'[k].copy = work[k].copy
         /\ work'[k].todo = work[k].todo \ {work[k].at}
<1>1. /\ work[k] \in Job /\ JobSound(work[k])
      /\ work[k].route \in Routes /\ KindOf[work[k].route] = k
  BY BusySays
<1>2. work \in [Kinds -> Job \cup {Nil}]
  BY DEF Typed, TypeOK, Idle
<1>3. work'[k] = [work[k] EXCEPT !.pc = "parents", !.todo = @ \ {work[k].at}]
  BY <1>2 DEF Done
<1>4. work' = [work EXCEPT ![k] = work'[k]]
  BY <1>2 DEF Done
<1>. QED
  BY ZenonT(60), <1>1, <1>3, <1>4 DEF Works, Stays, Job, PCs

\* The two versions of a route differ in conditions at most.
SameSpec(x, y) ==
  /\ x.gen = y.gen /\ x.on = y.on /\ x.to = y.to /\ x.deleting = y.deleting
  /\ x.recorded = y.recorded /\ x.sets = y.sets

StatusWritten(r) ==
  /\ server[r] \in Route /\ server'[r] \in Route
  /\ server' = [server EXCEPT ![r] = server'[r]]
  /\ SameSpec(server'[r], server[r])

LEMMA SetConditionSays ==
  ASSUME Typed, NEW k \in Kinds, Busy(k), NEW gen \in Gens, SetCondition(k, gen)
  PROVE  /\ Current(k) /\ StatusWritten(work[k].route)
         /\ \A p \in Parents : server'[work[k].route].resolved[p] \in
                              {server[work[k].route].resolved[p], gen}
<1>1. work[k].route \in Routes /\ server[work[k].route] \in Route \cup {Nil}
  BY BusySays
<1>2. Current(k) /\ server[work[k].route] \in Route
  BY <1>1 DEF SetCondition, Current
<1>3. server \in [Routes -> Route \cup {Nil}]
  BY DEF Typed, TypeOK
<1>4. server' = [server EXCEPT ![work[k].route].resolved[work[k].at] = gen]
  BY DEF SetCondition
<1>5. server'[work[k].route] = [server[work[k].route] EXCEPT !.resolved[work[k].at] = gen]
  BY <1>1, <1>3, <1>4
<1>6. [server[work[k].route].resolved EXCEPT ![work[k].at] = gen] \in [Parents -> Gens]
  BY <1>2 DEF Route
<1>7. server'[work[k].route] \in Route /\ SameSpec(server'[work[k].route], server[work[k].route])
  BY <1>2, <1>5, <1>6 DEF Route, SameSpec
<1>8. server' = [server EXCEPT ![work[k].route] = server'[work[k].route]]
  BY <1>1, <1>3, <1>4
<1>9. \A p \in Parents : server'[work[k].route].resolved[p] \in
                          {server[work[k].route].resolved[p], gen}
  BY <1>2, <1>5 DEF Route
<1>. QED
  BY <1>2, <1>7, <1>8, <1>9 DEF StatusWritten

\* The worker writes a condition.
LEMMA SetPendingParts ==
  ASSUME Typed, NEW k \in Kinds, SetPending(k)
  PROVE  /\ Busy(k) /\ Works(k, work[k].route) /\ Stays(k) /\ Keeps(k)
         /\ StatusWritten(work[k].route)
         /\ UNCHANGED <<rules, sets, lost, slipped>> /\ NoEvent
         /\ work[k].pc = "pending" /\ work'[k].pc = "backends" /\ work'[k].copy = work[k].copy
         /\ \A p \in Parents : server'[work[k].route].resolved[p] \in
                              {server[work[k].route].resolved[p], 0}
<1>1. 0 \in Gens /\ "backends" \in PCs /\ Busy(k)
  BY DEF Gens, PCs, SetPending, At
<1>2. /\ StatusWritten(work[k].route)
      /\ \A p \in Parents : server'[work[k].route].resolved[p] \in
                           {server[work[k].route].resolved[p], 0}
  BY <1>1, SetConditionSays DEF SetPending
<1>3. /\ Works(k, work[k].route) /\ Stays(k) /\ Keeps(k)
      /\ work'[k].pc = "backends" /\ work'[k].copy = work[k].copy
  BY <1>1, GotoSays DEF SetPending
<1>. QED
  BY <1>1, <1>2, <1>3 DEF SetPending, At, NoOCI

LEMMA SetStatusParts ==
  ASSUME Typed, NEW k \in Kinds, SetStatus(k)
  PROVE  /\ Busy(k) /\ Works(k, work[k].route) /\ Stays(k) /\ Keeps(k)
         /\ StatusWritten(work[k].route)
         /\ lost' = lost \cup ({work[k].route} \X Overlooked(work[k]))
         /\ lost' \subseteq Routes \X Listeners
         /\ UNCHANGED <<rules, sets, slipped>> /\ NoEvent
         /\ work[k].pc = "status" /\ work'[k].pc = "record"
         /\ SameSpec(work'[k].copy, work[k].copy)
         /\ \/ work'[k].copy = work[k].copy
            \/ work'[k].copy = server'[work[k].route] /\ server[work[k].route] = work[k].copy
         /\ \A p \in Parents : server'[work[k].route].resolved[p] \in
                              {server[work[k].route].resolved[p], work[k].copy.gen}
<1>1. /\ work[k] \in Job /\ JobSound(work[k]) /\ Busy(k)
      /\ work[k].route \in Routes /\ KindOf[work[k].route] = k
  BY BusySays DEF SetStatus, At
<1>2. work[k].copy \in Route /\ work[k].copy.gen \in Gens
  BY <1>1 DEF Job, Route
<1>3. /\ StatusWritten(work[k].route)
      /\ \A p \in Parents : server'[work[k].route].resolved[p] \in
                           {server[work[k].route].resolved[p], work[k].copy.gen}
  BY <1>1, <1>2, SetConditionSays DEF SetStatus
<1>4. work \in [Kinds -> Job \cup {Nil}]
  BY DEF Typed, TypeOK, Idle
<1>5. \E copy \in {work[k].copy, server'[work[k].route]} :
        /\ work' = [work EXCEPT ![k].pc = "record", ![k].copy = copy]
        /\ copy # work[k].copy => server[work[k].route] = work[k].copy
  BY DEF SetStatus
<1>6. PICK copy \in {work[k].copy, server'[work[k].route]} :
        /\ work' = [work EXCEPT ![k].pc = "record", ![k].copy = copy]
        /\ copy # work[k].copy => server[work[k].route] = work[k].copy
  BY <1>5
<1>7. copy \in Route /\ SameSpec(copy, work[k].copy)
  BY <1>2, <1>3, <1>6 DEF StatusWritten, SameSpec
<1>8. work'[k] = [work[k] EXCEPT !.pc = "record", !.copy = copy]
  BY <1>4, <1>6
<1>9. work' = [work EXCEPT ![k] = work'[k]]
  BY <1>4, <1>6
<1>10. /\ work'[k] \in Job /\ work'[k].pc = "record" /\ work'[k].copy = copy
       /\ work'[k].route = work[k].route /\ work'[k].seen = work[k].seen /\ Keeps(k)
  BY <1>1, <1>7, <1>8 DEF Job, PCs, Keeps
<1>11. /\ work[k].pc = "status" /\ UNCHANGED <<rules, sets, slipped>> /\ NoEvent
       /\ lost' = lost \cup ({work[k].route} \X Overlooked(work[k]))
  BY DEF SetStatus, At
<1>12. lost' \subseteq Routes \X Listeners
  <2>1. server[work[k].route].recorded \subseteq Listeners
    BY <1>3 DEF StatusWritten, Route
  <2>. QED
    BY <1>1, <1>11, <2>1 DEF Typed, TypeOK, Overlooked
<1>. QED
  BY <1>1, <1>3, <1>6, <1>7, <1>9, <1>10, <1>11, <1>12 DEF Works, Stays

\* Finalizer and annotations.
LEMMA RecordParts ==
  ASSUME Typed, NEW k \in Kinds, NEW r, r = work[k].route, Record(k)
  PROVE  /\ Busy(k) /\ Works(k, r) /\ Stays(k) /\ Keeps(k)
         /\ work[k].pc = "record" /\ work'[k].pc = "sync" /\ work'[k].copy = work[k].copy
         /\ server[r] \in {work[k].copy, cache[r]}
         /\ server[r] \in Route /\ server'[r] \in Route
         /\ server' = [server EXCEPT ![r] = server'[r]]
         /\ server'[r].gen = server[r].gen /\ server'[r].on = server[r].on
         /\ server'[r].to = server[r].to /\ server'[r].deleting = server[r].deleting
         /\ server'[r].recorded = work[k].copy.recorded \cup MatchedNow(work[k])
         /\ server'[r].sets = {work[k].copy.to} /\ server'[r].resolved = server[r].resolved
         /\ slipped' = (slipped \ ({r} \X server'[r].recorded))
                         \cup ({r} \X (Ruled(r) \ server'[r].recorded))
         /\ UNCHANGED <<rules, sets, lost>> /\ NoEvent
<1>1. /\ work[k] \in Job /\ JobSound(work[k]) /\ Busy(k) /\ work[k].pc = "record"
      /\ r \in Routes /\ server[r] \in Route \cup {Nil}
  BY BusySays DEF Record, At
<1>2. server[r] \in Route /\ server[r] \in {work[k].copy, cache[r]}
  BY <1>1 DEF Record, Current
<1>3. work[k].at \in Parents
  BY <1>1 DEF JobSound, Programs
<1>4. /\ Merged(work[k]) \in SUBSET Listeners /\ {work[k].copy.to} \in SUBSET Services
      /\ Merged(work[k]) = work[k].copy.recorded \cup MatchedNow(work[k])
  BY <1>1, <1>3, MatchedTypes DEF Job, Route, Merged
<1>5. /\ server \in [Routes -> Route \cup {Nil}]
      /\ server' = [server EXCEPT ![r].recorded = Merged(work[k]), ![r].sets = {work[k].copy.to}]
  BY DEF Typed, TypeOK, Record
<1>6. server'[r] = [server[r] EXCEPT !.recorded = Merged(work[k]), !.sets = {work[k].copy.to}]
  BY <1>1, <1>5
<1>7. server' = [server EXCEPT ![r] = server'[r]]
  BY <1>1, <1>5
<1>8. /\ server'[r] \in Route
      /\ server'[r].gen = server[r].gen /\ server'[r].on = server[r].on
      /\ server'[r].to = server[r].to /\ server'[r].deleting = server[r].deleting
      /\ server'[r].recorded = Merged(work[k]) /\ server'[r].sets = {work[k].copy.to}
      /\ server'[r].resolved = server[r].resolved
  BY <1>2, <1>4, <1>6 DEF Route
<1>9. /\ Works(k, r) /\ Stays(k) /\ Keeps(k)
      /\ work'[k].pc = "sync" /\ work'[k].copy = work[k].copy
  <2>1. "sync" \in PCs /\ Goto(k, "sync")
    BY DEF PCs, Record
  <2>. QED
    BY <1>1, <2>1, GotoSays
<1>10. /\ slipped' = (slipped \ ({r} \X Merged(work[k]))) \cup ({r} \X (Ruled(r) \ Merged(work[k])))
       /\ UNCHANGED <<rules, sets, lost>> /\ NoEvent
  BY DEF Record
<1>. QED
  BY <1>1, <1>2, <1>4, <1>7, <1>8, <1>9, <1>10

\* The end of a parent.
LEMMA DoneParts ==
  ASSUME Typed, NEW k \in Kinds, Deny(k) \/ Refuse(k) \/ SyncEndpoints(k)
  PROVE  /\ Busy(k) /\ Works(k, work[k].route) /\ Stays(k)
         /\ work[k].pc \in {"deny", "refuse", "sync"} /\ work'[k].pc = "parents"
         /\ work'[k].copy = work[k].copy /\ work'[k].todo = work[k].todo \ {work[k].at}
         /\ UNCHANGED server \/ StatusWritten(work[k].route)
         /\ lost' \subseteq Routes \X Listeners
         /\ sets' \in [Services -> {"none", "empty", "filled"}]
         /\ UNCHANGED <<rules, slipped>> /\ NoEvent
<1>1. /\ Busy(k) /\ work[k] \in Job /\ JobSound(work[k]) /\ work[k].route \in Routes
      /\ work[k].pc \in {"deny", "refuse", "sync"}
  BY BusySays DEF Deny, Refuse, SyncEndpoints, At
<1>2. /\ Works(k, work[k].route) /\ Stays(k)
      /\ work'[k].pc = "parents" /\ work'[k].copy = work[k].copy
      /\ work'[k].todo = work[k].todo \ {work[k].at}
  BY <1>1, DoneSays DEF Deny, Refuse, SyncEndpoints
<1>3. UNCHANGED server \/ StatusWritten(work[k].route)
  <2>1. 0 \in Gens
    BY DEF Gens
  <2>. QED
    BY <1>1, <2>1, SetConditionSays DEF Deny, Refuse, SyncEndpoints, NoOCI
<1>4. /\ lost \subseteq Routes \X Listeners /\ sets \in [Services -> {"none", "empty", "filled"}]
  BY DEF Typed, TypeOK
<1>5. lost' \subseteq Routes \X Listeners
  <2>1. CASE Refuse(k)
    <3>1. work[k].at \in Parents
      BY <1>1, <2>1 DEF Refuse, At, JobSound, Programs
    <3>2. MatchedNow(work[k]) \subseteq Listeners
      BY <3>1, MatchedTypes
    <3>3. lost' = lost \cup ({work[k].route} \X MatchedNow(work[k]))
      BY <2>1 DEF Refuse
    <3>. QED
      BY <1>1, <1>4, <3>2, <3>3
  <2>. QED
    BY <1>4, <2>1 DEF Deny, SyncEndpoints, NoOCI
<1>6. sets' \in [Services -> {"none", "empty", "filled"}]
  BY <1>4 DEF Deny, Refuse, SyncEndpoints, NoOCI
<1>7. UNCHANGED <<rules, slipped>> /\ NoEvent
  BY DEF Deny, Refuse, SyncEndpoints, NoOCI
<1>. QED
  BY <1>1, <1>2, <1>3, <1>5, <1>6, <1>7

\* A step that has the rules at `names' removed before the worker goes on.
LEMMA UnrulesSays ==
  ASSUME Typed, NEW k \in Kinds, Busy(k),
         NEW names \in SUBSET Listeners, NEW then \in {"drop", "deny", "refuse", "clear"},
         work' = [work EXCEPT ![k] = Unruling(work[k], names, then)]
  PROVE  /\ Works(k, work[k].route) /\ Stays(k)
         /\ work'[k].left = names /\ work'[k].then = then
         /\ work'[k].pc = IF names = {} THEN then ELSE "unrule"
         /\ work'[k].copy = work[k].copy /\ work'[k].at = work[k].at
         /\ work'[k].todo = work[k].todo
<1>1. /\ work[k] \in Job /\ JobSound(work[k])
      /\ work[k].route \in Routes /\ KindOf[work[k].route] = k
  BY BusySays
<1>2. work'[k] = Unruling(work[k], names, then) /\ work' = [work EXCEPT ![k] = work'[k]]
  BY DEF Typed, TypeOK, Idle
<1>3. /\ work'[k] \in Job /\ work'[k].left = names /\ work'[k].then = then
      /\ work'[k].pc = IF names = {} THEN then ELSE "unrule"
      /\ work'[k].route = work[k].route /\ work'[k].copy = work[k].copy
      /\ work'[k].seen = work[k].seen
      /\ work'[k].todo = work[k].todo /\ work'[k].at = work[k].at
  BY <1>1, <1>2, UnrulingSays
<1>. QED
  BY <1>1, <1>2, <1>3 DEF Works, Stays

LEMMA ResolveBackendsParts ==
  ASSUME Typed, NEW k \in Kinds, ResolveBackends(k)
  PROVE  /\ Busy(k) /\ Works(k, work[k].route) /\ Stays(k) /\ work[k].pc = "backends"
         /\ work'[k].copy = work[k].copy /\ work'[k].at = work[k].at
         /\ work'[k].todo = work[k].todo
         /\ UNCHANGED <<server, rules, sets, lost, slipped>> /\ NoEvent
         /\ \/ work'[k].pc = "ensure"
            \/ /\ work'[k].left = work[k].copy.recorded /\ work'[k].then = "refuse"
               /\ work'[k].pc = IF work'[k].left = {} THEN "refuse" ELSE "unrule"
<1>1. /\ Busy(k) /\ work[k] \in Job /\ work[k].pc = "backends"
      /\ UNCHANGED <<server, rules, sets, lost, slipped>> /\ NoEvent
  BY BusySays DEF ResolveBackends, At, NoOCI
<1>2. CASE BackendsResolve(work[k].copy)
  <2>1. Goto(k, "ensure") /\ "ensure" \in PCs
    <3>1. work' = [work EXCEPT ![k] = [work[k] EXCEPT !.pc = "ensure"]]
      BY <1>2 DEF ResolveBackends
    <3>. QED
      BY <3>1 DEF Goto, PCs, Typed, TypeOK, Idle
  <2>. QED
    BY <1>1, <2>1, GotoSays DEF Keeps
<1>3. CASE ~BackendsResolve(work[k].copy)
  <2>1. work' = [work EXCEPT ![k] = Unruling(work[k], work[k].copy.recorded, "refuse")]
    BY <1>3 DEF ResolveBackends
  <2>2. work[k].copy.recorded \in SUBSET Listeners
    BY <1>1 DEF Job, Route
  <2>3. /\ Works(k, work[k].route) /\ Stays(k)
        /\ work'[k].left = work[k].copy.recorded /\ work'[k].then = "refuse"
        /\ work'[k].pc = IF work[k].copy.recorded = {} THEN "refuse" ELSE "unrule"
        /\ work'[k].copy = work[k].copy /\ work'[k].at = work[k].at
        /\ work'[k].todo = work[k].todo
    BY <1>1, <2>1, <2>2, UnrulesSays
  <2>. QED
    BY <1>1, <2>3
<1>. QED
  BY <1>2, <1>3

LEMMA EnsureSetParts ==
  ASSUME Typed, NEW k \in Kinds, EnsureSet(k)
  PROVE  /\ Busy(k) /\ Works(k, work[k].route) /\ Stays(k)
         /\ work[k].pc = "ensure" /\ work'[k].pc = "commit"
         /\ work'[k].copy = work[k].copy /\ work'[k].at = work[k].at
         /\ work'[k].todo = work[k].todo
         /\ work'[k].left = MatchedNow(work[k])
         /\ sets' = [sets EXCEPT ![work[k].copy.to] = IF @ = "none" THEN "empty" ELSE @]
         /\ sets' \in [Services -> {"none", "empty", "filled"}]
         /\ UNCHANGED <<server, rules, lost, slipped>> /\ NoEvent
<1>1. /\ Busy(k) /\ work[k] \in Job /\ JobSound(work[k]) /\ work[k].pc = "ensure"
      /\ work[k].route \in Routes /\ KindOf[work[k].route] = k
      /\ UNCHANGED <<server, rules, lost, slipped>> /\ NoEvent
  BY BusySays DEF EnsureSet, At
<1>2. MatchedNow(work[k]) \in SUBSET Listeners
  BY <1>1, MatchedTypes DEF JobSound, Programs
<1>3. work \in [Kinds -> Job \cup {Nil}]
  BY DEF Typed, TypeOK, Idle
<1>4. work' = [work EXCEPT ![k].pc = "commit", ![k].left = MatchedNow(work[k])]
  BY DEF EnsureSet
<1>5. work'[k] = [work[k] EXCEPT !.pc = "commit", !.left = MatchedNow(work[k])]
  BY <1>3, <1>4
<1>6. work' = [work EXCEPT ![k] = work'[k]]
  BY <1>3, <1>4
<1>7. /\ work'[k] \in Job /\ work'[k].pc = "commit" /\ work'[k].left = MatchedNow(work[k])
      /\ work'[k].route = work[k].route /\ work'[k].copy = work[k].copy
      /\ work'[k].seen = work[k].seen
      /\ work'[k].todo = work[k].todo /\ work'[k].at = work[k].at
  BY <1>1, <1>2, <1>5 DEF Job, PCs
<1>8. sets \in [Services -> {"none", "empty", "filled"}]
  BY DEF Typed, TypeOK
<1>9. sets' = [sets EXCEPT ![work[k].copy.to] = IF @ = "none" THEN "empty" ELSE @]
  BY DEF EnsureSet
<1>10. sets' \in [Services -> {"none", "empty", "filled"}]
  BY <1>8, <1>9
<1>. QED
  BY <1>1, <1>6, <1>7, <1>9, <1>10 DEF Works, Stays

LEMMA CommitRulesParts ==
  ASSUME Typed, NEW k \in Kinds, NEW l \in Listeners, NEW r, r = work[k].route,
         CommitRules(k, l)
  PROVE  /\ Busy(k) /\ Works(k, r) /\ Stays(k)
         /\ work[k].pc = "commit" /\ l \in work[k].left
         /\ work'[k].copy = work[k].copy /\ work'[k].at = work[k].at
         /\ work'[k].todo = work[k].todo
         /\ \/ work'[k].pc = "commit" /\ work'[k].left = work[k].left \ {l}
            \/ /\ work[k].left = {l}
               /\ work'[k].left = StaleListeners(work[k]) /\ work'[k].then = "drop"
               /\ work'[k].pc = IF work'[k].left = {} THEN "drop" ELSE "unrule"
         /\ rules' = [rules EXCEPT ![l][r] = work[k].copy.to]
         /\ rules' \in [Listeners -> [Routes -> Services \cup {Nil}]]
         /\ work[k].copy.to \in Services
         /\ lost' = lost \ {<<r, l>>}
         /\ slipped' = IF Outdated(work[k], l) /\ (server[r] # Nil => l \notin server[r].recorded)
                       THEN slipped \cup {<<r, l>>} ELSE slipped
         /\ UNCHANGED <<server, sets>> /\ NoEvent
<1>1. /\ Busy(k) /\ work[k] \in Job /\ JobSound(work[k]) /\ work[k].pc = "commit"
      /\ r \in Routes /\ KindOf[r] = k /\ l \in work[k].left
      /\ work[k].copy.to \in Services
      /\ work[k].copy.recorded \subseteq Listeners
  <2>1. work[k] \in Job /\ work[k].copy \in Route
    BY BusySays DEF CommitRules, At, Job
  <2>. QED
    BY <2>1, BusySays DEF CommitRules, At, Route
<1>2. /\ rules' = [rules EXCEPT ![l][r] = work[k].copy.to]
      /\ lost' = lost \ {<<r, l>>}
      /\ slipped' = IF Outdated(work[k], l) /\ (server[r] # Nil => l \notin server[r].recorded)
                    THEN slipped \cup {<<r, l>>} ELSE slipped
      /\ UNCHANGED <<server, sets>> /\ NoEvent
  BY DEF CommitRules
<1>3. rules' \in [Listeners -> [Routes -> Services \cup {Nil}]]
  BY <1>1, <1>2 DEF Typed, TypeOK
<1>4. work \in [Kinds -> Job \cup {Nil}]
  BY DEF Typed, TypeOK, Idle
<1>5. CASE work[k].left # {l}
  <2>1. work' = [work EXCEPT ![k] = [work[k] EXCEPT !.left = @ \ {l}]]
    BY <1>5 DEF CommitRules
  <2>2. work'[k] = [work[k] EXCEPT !.left = @ \ {l}]
    BY <1>4, <2>1
  <2>3. work' = [work EXCEPT ![k] = work'[k]]
    BY <1>4, <2>1
  <2>4. /\ work'[k] \in Job /\ work'[k].pc = "commit" /\ work'[k].left = work[k].left \ {l}
        /\ work'[k].route = work[k].route /\ work'[k].copy = work[k].copy
        /\ work'[k].seen = work[k].seen
        /\ work'[k].todo = work[k].todo /\ work'[k].at = work[k].at
    BY <1>1, <2>2 DEF Job
  <2>. QED
    BY <1>1, <1>2, <1>3, <2>3, <2>4 DEF Works, Stays
<1>6. CASE work[k].left = {l}
  <2>1. work' = [work EXCEPT ![k] = Unruling(work[k], StaleListeners(work[k]), "drop")]
    BY <1>6 DEF CommitRules
  <2>2. StaleListeners(work[k]) \in SUBSET Listeners
    BY <1>1 DEF StaleListeners
  <2>3. /\ Works(k, work[k].route) /\ Stays(k)
        /\ work'[k].left = StaleListeners(work[k]) /\ work'[k].then = "drop"
        /\ work'[k].pc = IF StaleListeners(work[k]) = {} THEN "drop" ELSE "unrule"
        /\ work'[k].copy = work[k].copy /\ work'[k].at = work[k].at
        /\ work'[k].todo = work[k].todo
    BY <1>1, <2>1, <2>2, UnrulesSays
  <2>. QED
    BY <1>1, <1>2, <1>3, <1>6, <2>3
<1>. QED
  BY <1>5, <1>6

LEMMA RemoveRulesParts ==
  ASSUME Typed, NEW k \in Kinds, NEW l \in Listeners, NEW r, r = work[k].route,
         RemoveRules(k, l)
  PROVE  /\ Busy(k) /\ Works(k, r) /\ Stays(k)
         /\ work[k].pc = "unrule" /\ l \in work[k].left
         /\ work'[k].copy = work[k].copy /\ work'[k].at = work[k].at
         /\ work'[k].todo = work[k].todo
         /\ work'[k].left = work[k].left \ {l} /\ work'[k].then = work[k].then
         /\ work'[k].left = {} => work'[k].pc = work[k].then
         /\ work'[k].left # {} => work'[k].pc = "unrule"
         /\ rules' = [rules EXCEPT ![l][r] = Nil]
         /\ rules' \in [Listeners -> [Routes -> Services \cup {Nil}]]
         /\ lost' = lost \cup {<<r, l>>}
         /\ slipped' = slipped \ {<<r, l>>}
         /\ UNCHANGED <<server, sets>> /\ NoEvent
<1>1. /\ Busy(k) /\ work[k] \in Job /\ JobSound(work[k]) /\ work[k].pc = "unrule"
      /\ r \in Routes /\ KindOf[r] = k /\ l \in work[k].left
  BY BusySays DEF RemoveRules, At
<1>2. /\ rules' = [rules EXCEPT ![l][r] = Nil]
      /\ lost' = lost \cup {<<r, l>>} /\ slipped' = slipped \ {<<r, l>>}
      /\ UNCHANGED <<server, sets>> /\ NoEvent
      /\ work' = [work EXCEPT ![k] = Unruling(work[k], work[k].left \ {l}, work[k].then)]
  BY DEF RemoveRules
<1>3. rules' \in [Listeners -> [Routes -> Services \cup {Nil}]]
  BY <1>1, <1>2 DEF Typed, TypeOK
<1>4. /\ work[k].left \ {l} \in SUBSET Listeners
      /\ work[k].then \in {"drop", "deny", "refuse", "clear"}
  BY <1>1 DEF Job
<1>5. work \in [Kinds -> Job \cup {Nil}]
  BY DEF Typed, TypeOK, Idle
<1>6. /\ work'[k] = Unruling(work[k], work[k].left \ {l}, work[k].then)
      /\ work' = [work EXCEPT ![k] = work'[k]]
  BY <1>2, <1>5
<1>7. \E pc \in PCs :
        /\ work'[k] = [work[k] EXCEPT !.pc = pc, !.left = work[k].left \ {l},
                                     !.then = work[k].then]
        /\ work[k].left \ {l} = {} => pc = work[k].then
        /\ work[k].left \ {l} # {} => pc = "unrule"
  <2>1. CASE work[k].left \ {l} = {}
    <3>1. work[k].then \in PCs
      BY <1>4 DEF PCs
    <3>. QED
      BY <1>6, <2>1, <3>1 DEF Unruling
  <2>2. CASE work[k].left \ {l} # {}
    <3>1. "unrule" \in PCs
      BY DEF PCs
    <3>. QED
      BY <1>6, <2>2, <3>1 DEF Unruling
  <2>. QED
    BY <2>1, <2>2
<1>8. PICK pc \in PCs :
        /\ work'[k] = [work[k] EXCEPT !.pc = pc, !.left = work[k].left \ {l},
                                     !.then = work[k].then]
        /\ work[k].left \ {l} = {} => pc = work[k].then
        /\ work[k].left \ {l} # {} => pc = "unrule"
  BY <1>7
<1>9. /\ work'[k] \in Job /\ work'[k].pc = pc
      /\ work'[k].left = work[k].left \ {l} /\ work'[k].then = work[k].then
      /\ work'[k].route = work[k].route /\ work'[k].copy = work[k].copy
      /\ work'[k].seen = work[k].seen
      /\ work'[k].todo = work[k].todo /\ work'[k].at = work[k].at
  BY <1>1, <1>4, <1>8 DEF Job
<1>. QED
  BY <1>1, <1>2, <1>3, <1>6, <1>8, <1>9 DEF Works, Stays

\* The steps that delete backend sets, or ask for references to one.
LEMMA SetsParts ==
  ASSUME Typed, NEW k \in Kinds, DropStaleSets(k) \/ CheckSet(k) \/ DeleteSet(k)
  PROVE  /\ Busy(k) /\ Works(k, work[k].route) /\ Stays(k) /\ Keeps(k)
         /\ work'[k].copy = work[k].copy
         /\ \/ work[k].pc = "drop" /\ work'[k].pc = "status"
            \/ work[k].pc \in {"clear", "delete"} /\ work'[k].pc \in {"delete", "release"}
         /\ sets' \in [Services -> {"none", "empty", "filled"}]
         /\ UNCHANGED <<server, rules, lost, slipped>> /\ NoEvent
<1>1. sets \in [Services -> {"none", "empty", "filled"}]
  BY DEF Typed, TypeOK
<1>2. /\ Busy(k) /\ sets' \in [Services -> {"none", "empty", "filled"}]
      /\ UNCHANGED <<server, rules, lost, slipped>> /\ NoEvent
  BY <1>1 DEF DropStaleSets, CheckSet, DeleteSet, At, WithoutSets, NoOCI
<1>3. \E pc \in {"status", "delete", "release"} :
        /\ Goto(k, pc)
        /\ \/ work[k].pc = "drop" /\ pc = "status"
           \/ work[k].pc \in {"clear", "delete"} /\ pc \in {"delete", "release"}
  BY DEF DropStaleSets, CheckSet, DeleteSet, At
<1>4. PICK pc \in {"status", "delete", "release"} :
        /\ Goto(k, pc)
        /\ \/ work[k].pc = "drop" /\ pc = "status"
           \/ work[k].pc \in {"clear", "delete"} /\ pc \in {"delete", "release"}
  BY <1>3
<1>5. pc \in PCs
  BY DEF PCs
<1>. QED
  BY <1>2, <1>4, <1>5, GotoSays

LEMMA RemoveFinalizerParts ==
  ASSUME Typed, NEW k \in Kinds, NEW r, r = work[k].route, RemoveFinalizer(k)
  PROVE  /\ Busy(k) /\ Works(k, r) /\ Stays(k)
         /\ work[k].pc = "release" /\ work'[k].pc = "parents"
         /\ work'[k].copy = work[k].copy /\ work'[k].todo = work[k].todo \ {work[k].at}
         /\ server[r] = work[k].copy /\ server' = [server EXCEPT ![r] = Nil]
         /\ UNCHANGED <<rules, sets, lost, slipped>> /\ NoEvent
<1>1. Busy(k) /\ Done(k)
  BY DEF RemoveFinalizer, At
<1>. QED
  BY <1>1, DoneSays DEF RemoveFinalizer, At, NoOCI

LEMMA FailParts ==
  ASSUME Typed, NEW k \in Kinds, NEW r, r = work[k].route, Fail(k)
  PROVE  /\ Busy(k) /\ Works(k, r) /\ work'[k] = Nil
         /\ queue' = queue \cup {r}
         /\ UNCHANGED <<server, rules, sets, lost, slipped>>
         /\ UNCHANGED <<cache, born, gateway, services, edits, crashes>>
<1>1. /\ Busy(k) /\ work[k] \in Job /\ JobSound(work[k])
      /\ r \in Routes /\ KindOf[r] = k
  BY BusySays DEF Fail
<1>2. work \in [Kinds -> Job \cup {Nil}]
  BY DEF Typed, TypeOK, Idle
<1>3. work' = [work EXCEPT ![k] = Nil]
  BY DEF Fail, Finish, Idle
<1>4. work'[k] = Nil
  BY <1>2, <1>3
<1>. QED
  BY <1>1, <1>3, <1>4 DEF Fail, NoOCI, Works

\* A new job, or none.
LEMMA TakeParts ==
  ASSUME Typed, NEW k \in Kinds, NEW r \in Routes, Take(k, r)
  PROVE  /\ ~Busy(k) /\ KindOf[r] = k /\ r \in queue /\ queue' = queue \ {r}
         /\ work' = [work EXCEPT ![k] = work'[k]]
         /\ UNCHANGED <<server, rules, sets, lost, slipped>>
         /\ UNCHANGED <<cache, born, gateway, services, edits, crashes>>
         /\ \/ /\ work'[k] = Nil
               /\ cache[r] = Nil
                    \/ (~cache[r].deleting /\ \A p \in cache[r].on : Matching(gateway, p) = {})
            \/ /\ cache[r] \in Route /\ work'[k] \in Job
               /\ work'[k].route = r /\ work'[k].copy = cache[r] /\ work'[k].seen = gateway
               /\ work'[k].todo = {p \in cache[r].on : Matching(gateway, p) # {}}
               /\ \/ work'[k].pc = "parents" /\ work'[k].todo # {}
                  \/ /\ cache[r].deleting /\ work'[k].todo = {}
                     /\ work'[k].left = cache[r].recorded /\ work'[k].then = "clear"
                     /\ work'[k].pc = IF work'[k].left = {} THEN "clear" ELSE "unrule"
<1> DEFINE job == NewJob(r)
<1>1. /\ ~Busy(k) /\ KindOf[r] = k /\ r \in queue /\ queue' = queue \ {r}
      /\ UNCHANGED <<server, rules, sets, lost, slipped>>
      /\ UNCHANGED <<cache, born, gateway, services, edits, crashes>>
  BY DEF Take, NoOCI
<1>2. work \in [Kinds -> Job \cup {Nil}] /\ cache[r] \in Route \cup {Nil}
      /\ gateway \in [Listeners -> {"absent", "same", "all"}] /\ work[k] = Nil
  BY <1>1 DEF Typed, TypeOK, Idle, Busy
<1>3. CASE cache[r] = Nil
  <2>1. UNCHANGED work
    BY <1>3 DEF Take
  <2>. QED
    BY <1>1, <1>2, <1>3, <2>1
<1>4. CASE cache[r] # Nil
  <2>1. /\ job.pc = "parents" /\ job.route = r /\ job.copy = cache[r] /\ job.seen = gateway
        /\ job.todo = {p \in cache[r].on : Matching(gateway, p) # {}}
    BY DEF NewJob
  <2>2. cache[r] \in Route /\ cache[r].on \subseteq Parents /\ cache[r].recorded \in SUBSET Listeners
    BY <1>2, <1>4 DEF Route
  <2>3. job \in Job
    BY <1>2, <2>2 DEF NewJob, Job, PCs
  <2>4. IF job.todo # {} THEN work' = [work EXCEPT ![k] = job]
        ELSE IF cache[r].deleting
        THEN work' = [work EXCEPT ![k] = Unruling(job, cache[r].recorded, "clear")]
        ELSE UNCHANGED work
    BY <1>4, <2>1 DEF Take, Detached
  <2> HIDE DEF job
  <2>5. CASE job.todo # {}
    BY <1>1, <1>2, <2>1, <2>2, <2>3, <2>4, <2>5
  <2>6. CASE job.todo = {} /\ cache[r].deleting
    <3>1. work'[k] = Unruling(job, cache[r].recorded, "clear")
          /\ work' = [work EXCEPT ![k] = work'[k]]
      BY <1>2, <2>4, <2>6
    <3>2. /\ work'[k] \in Job /\ work'[k].left = cache[r].recorded /\ work'[k].then = "clear"
          /\ work'[k].pc = IF cache[r].recorded = {} THEN "clear" ELSE "unrule"
          /\ work'[k].route = job.route /\ work'[k].copy = job.copy
          /\ work'[k].seen = job.seen /\ work'[k].todo = job.todo
      BY <2>2, <2>3, <3>1, UnrulingSays
    <3>. QED
      BY <1>1, <2>1, <2>2, <2>6, <3>1, <3>2
  <2>7. CASE job.todo = {} /\ ~cache[r].deleting
    <3>1. UNCHANGED work
      BY <2>4, <2>7
    <3>2. \A p \in cache[r].on : Matching(gateway, p) = {}
      BY <2>1, <2>7
    <3>. QED
      BY <1>1, <1>2, <2>7, <3>1, <3>2
  <2>. QED
    BY <2>5, <2>6, <2>7
<1>. QED
  BY <1>3, <1>4

----------------------------------------------------------------------------
(* Types.                                                                  *)

\* A job that goes on as it was.
LEMMA SoundStays ==
  ASSUME NEW old, NEW new, JobSound(old),
         new.route = old.route, new.seen = old.seen, new.at = old.at, new.todo = old.todo,
         new.copy = old.copy \/ SameSpec(new.copy, old.copy),
         Programs(new) => Programs(old), CleansUp(new) => CleansUp(old),
         new.pc = "commit" => new.left \subseteq MatchedNow(old)
  PROVE  JobSound(new)
<1>1. MatchedNow(new) = MatchedNow(old)
  BY DEF MatchedNow
<1>2. Marked(new.copy)
  BY DEF JobSound, Marked, SameSpec, Finalized
<1>3. (Programs(new) => new.at \in Parents /\ MatchedNow(new) # {} /\ ~new.copy.deleting)
  BY <1>1 DEF JobSound, SameSpec
<1>4. CleansUp(new) => new.copy.deleting
  BY DEF JobSound, SameSpec
<1>5. new.todo \subseteq new.copy.on
  BY DEF JobSound, SameSpec
<1>. QED
  BY <1>1, <1>2, <1>3, <1>4, <1>5 DEF JobSound

\* A job that is done with a parent.
LEMMA SoundDone ==
  ASSUME NEW old, NEW new, JobSound(old),
         new.pc = "parents", new.copy = old.copy, new.todo \subseteq old.todo
  PROVE  JobSound(new)
BY DEF JobSound, Programs, CleansUp

LEMMA NextParentSound ==
  ASSUME Typed, NEW k \in Kinds, NextParent(k), work'[k] # Nil
  PROVE  Stays(k) /\ JobSound(work'[k])
<1>1. /\ JobSound(work[k]) /\ Stays(k)
      /\ work'[k].at \in work[k].todo /\ work'[k].todo = work[k].todo
      /\ work'[k].copy = work[k].copy /\ work[k] \in Job
      /\ \/ work[k].copy.deleting /\ work'[k].then = "clear" /\ work'[k].pc \in {"clear", "unrule"}
         \/ ~work[k].copy.deleting /\ work'[k].then = "deny" /\ work'[k].pc \in {"deny", "unrule"}
         \/ ~work[k].copy.deleting /\ MatchedNow(work'[k]) # {} /\ work'[k].pc \in {"pending", "sync"}
  BY NextParentParts DEF Works
<1>2. work'[k].at \in Parents /\ work'[k].todo \subseteq work'[k].copy.on
  BY <1>1 DEF JobSound, Job, Route
<1>3. Programs(work'[k]) => MatchedNow(work'[k]) # {} /\ ~work[k].copy.deleting
  BY <1>1 DEF Programs
<1>4. CleansUp(work'[k]) => work[k].copy.deleting
  BY <1>1 DEF CleansUp
<1>. QED
  BY <1>1, <1>2, <1>3, <1>4 DEF JobSound

LEMMA WorkerTyped ==
  ASSUME Typed, NEW k \in Kinds, Busy(k), Works(k, work[k].route),
         work'[k] = Nil \/ (Stays(k) /\ JobSound(work'[k])),
         UNCHANGED <<cache, born, gateway, services, edits, crashes>>,
         queue' \subseteq Routes,
         UNCHANGED server \/ (server' \in [Routes -> Route \cup {Nil}] /\ Bounded'),
         UNCHANGED rules \/ rules' \in [Listeners -> [Routes -> Services \cup {Nil}]],
         sets' \in [Services -> {"none", "empty", "filled"}],
         lost' \subseteq Routes \X Listeners, slipped' \subseteq Routes \X Listeners
  PROVE  Typed'
<1>1. /\ server' \in [Routes -> Route \cup {Nil}] /\ Bounded'
      /\ rules' \in [Listeners -> [Routes -> Services \cup {Nil}]]
  BY DEF Typed, TypeOK, Bounded
<1>2. /\ work' \in [Kinds -> Job \cup {Nil}]
      /\ \A j \in Kinds \ {k} : work'[j] = work[j]
  BY DEF Typed, TypeOK, Idle, Works, Stays
<1>3. ASSUME NEW j \in Kinds, work'[j] # Nil
      PROVE  /\ KindOf[work'[j].route] = j /\ JobSound(work'[j])
             /\ work'[j].pc = "release" => work'[j].copy.deleting /\ Finalized(work'[j].copy)
  <2>1. KindOf[work'[j].route] = j /\ JobSound(work'[j])
    BY <1>2, <1>3 DEF Typed, TypeOK, Busy, Idle, Works, Stays
  <2>. QED
    BY <2>1 DEF JobSound, CleansUp, Marked
<1>4. \A j \in Kinds : Busy(j)' => JobSound(work[j])'
  BY <1>3 DEF Busy, Idle, JobSound, Programs, CleansUp, MatchedNow, Marked
<1>5. TypeOK'
  BY <1>1, <1>2, <1>3 DEF Typed, TypeOK, Busy, Idle, At
<1>. QED
  BY <1>1, <1>4, <1>5 DEF Typed, Marked

\* A step that leaves the route at the API server, or writes a condition.
LEMMA StatusTyped ==
  ASSUME Typed, NEW r \in Routes, StatusWritten(r), UNCHANGED edits
  PROVE  server' \in [Routes -> Route \cup {Nil}] /\ Bounded'
<1>1. server' \in [Routes -> Route \cup {Nil}]
  BY DEF Typed, TypeOK, StatusWritten
<1>2. \A q \in Routes \ {r} : server'[q] = server[q]
  BY DEF Typed, TypeOK, StatusWritten
<1>3. Bounded'
  BY <1>1, <1>2 DEF Typed, Bounded, StatusWritten, SameSpec, Marked, Finalized
<1>. QED
  BY <1>1, <1>3

LEMMA StepTyped ==
  ASSUME Typed, NEW k \in Kinds, Step(k) \/ Fail(k)
  PROVE  Typed'
<1> DEFINE Rest == /\ UNCHANGED <<cache, born, gateway, services, edits, crashes>>
                   /\ queue' \subseteq Routes
<1>1. /\ queue \subseteq Routes /\ lost \subseteq Routes \X Listeners
      /\ slipped \subseteq Routes \X Listeners
      /\ sets \in [Services -> {"none", "empty", "filled"}]
      /\ server \in [Routes -> Route \cup {Nil}]
  BY DEF Typed, TypeOK
<1>2. NoEvent => Rest
  BY <1>1 DEF NoEvent
<1>3. CASE NextParent(k)
  <2>1. work'[k] = Nil \/ (Stays(k) /\ JobSound(work'[k]))
    BY <1>3, NextParentSound
  <2>2. Busy(k) /\ Works(k, work[k].route) /\ UNCHANGED <<server, rules, sets, lost, slipped>> /\ Rest
    BY <1>2, <1>3, NextParentParts
  <2>. QED
    BY <1>1, <2>1, <2>2, WorkerTyped
<1>4. CASE SetPending(k) \/ SetStatus(k)
  <2>1. /\ Busy(k) /\ Works(k, work[k].route) /\ Stays(k) /\ Keeps(k) /\ StatusWritten(work[k].route)
        /\ lost' \subseteq Routes \X Listeners
        /\ UNCHANGED <<rules, sets, slipped>> /\ Rest
    BY <1>1, <1>2, <1>4, SetPendingParts, SetStatusParts
  <2>2. /\ work[k].pc \in {"pending", "status"} /\ work'[k].pc \in {"backends", "record"}
        /\ work'[k].copy = work[k].copy \/ SameSpec(work'[k].copy, work[k].copy)
    BY <1>4, SetPendingParts, SetStatusParts
  <2>3. JobSound(work'[k])
    BY <2>1, <2>2, SoundStays DEF Stays, Keeps, Works, Programs, CleansUp
  <2>4. work[k].route \in Routes
    BY <2>1 DEF Works
  <2>5. server' \in [Routes -> Route \cup {Nil}] /\ Bounded'
    BY <2>1, <2>4, StatusTyped
  <2>. QED
    BY <1>1, <2>1, <2>3, <2>5, WorkerTyped
<1>5. CASE Record(k)
  <2> DEFINE r == work[k].route
  <2>1. /\ Busy(k) /\ Works(k, r) /\ Stays(k) /\ Keeps(k)
        /\ work[k].pc = "record" /\ work'[k].pc = "sync" /\ work'[k].copy = work[k].copy
        /\ server[r] \in Route /\ server'[r] \in Route
        /\ server' = [server EXCEPT ![r] = server'[r]]
        /\ server'[r].gen = server[r].gen /\ server'[r].deleting = server[r].deleting
        /\ server'[r].recorded = work[k].copy.recorded \cup MatchedNow(work[k])
        /\ slipped' = (slipped \ ({r} \X server'[r].recorded))
                        \cup ({r} \X (Ruled(r) \ server'[r].recorded))
        /\ UNCHANGED <<rules, sets, lost>> /\ Rest
    BY <1>2, <1>5, RecordParts
  <2>2. r \in Routes /\ MatchedNow(work[k]) # {}
    BY <2>1 DEF Works, JobSound, Programs
  <2>3. Stays(k) /\ JobSound(work'[k])
    BY <2>1, SoundStays DEF Stays, Keeps, Works, Programs, CleansUp
  <2>4. Ruled(r) \subseteq Listeners
    BY DEF Ruled
  <2> HIDE DEF r
  <2>5. slipped' \subseteq Routes \X Listeners
    BY <1>1, <2>1, <2>2, <2>4
  <2>6. server' \in [Routes -> Route \cup {Nil}]
    BY <1>1, <2>1, <2>2
  <2>7. \A q \in Routes \ {r} : server'[q] = server[q]
    BY <1>1, <2>1, <2>2
  <2>8. Finalized(server'[r])
    BY <2>1, <2>2 DEF Finalized
  <2>9. Bounded'
    BY <2>1, <2>2, <2>7, <2>8 DEF Typed, Bounded, Marked, Finalized
  <2>. QED
    BY <1>1, <2>1, <2>3, <2>5, <2>6, <2>9, WorkerTyped DEF r
<1>6. CASE Deny(k) \/ Refuse(k) \/ SyncEndpoints(k)
  <2>1. /\ Busy(k) /\ Works(k, work[k].route) /\ Stays(k)
        /\ work'[k].pc = "parents" /\ work'[k].copy = work[k].copy
        /\ work'[k].todo = work[k].todo \ {work[k].at}
        /\ UNCHANGED server \/ StatusWritten(work[k].route)
        /\ lost' \subseteq Routes \X Listeners
        /\ sets' \in [Services -> {"none", "empty", "filled"}]
        /\ UNCHANGED <<rules, slipped>> /\ Rest
    BY <1>2, <1>6, DoneParts
  <2>2. JobSound(work'[k]) /\ work[k].route \in Routes
    BY <2>1, SoundDone DEF Works
  <2>3. UNCHANGED server \/ (server' \in [Routes -> Route \cup {Nil}] /\ Bounded')
    BY <2>1, <2>2, StatusTyped
  <2>. QED
    BY <1>1, <2>1, <2>2, <2>3, WorkerTyped
<1>7. CASE ResolveBackends(k)
  <2>1. /\ Busy(k) /\ Works(k, work[k].route) /\ Stays(k) /\ work[k].pc = "backends"
        /\ work'[k].copy = work[k].copy /\ work'[k].at = work[k].at
        /\ work'[k].todo = work[k].todo
        /\ UNCHANGED <<server, rules, sets, lost, slipped>> /\ Rest
    BY <1>2, <1>7, ResolveBackendsParts
  <2>2. \/ work'[k].pc = "ensure"
        \/ work'[k].then = "refuse" /\ work'[k].pc \in {"refuse", "unrule"}
    BY <1>7, ResolveBackendsParts
  <2>3. JobSound(work'[k])
    BY <2>1, <2>2, SoundStays DEF Stays, Works, Programs, CleansUp
  <2>. QED
    BY <1>1, <2>1, <2>3, WorkerTyped
<1>8. CASE EnsureSet(k)
  <2>1. /\ Busy(k) /\ Works(k, work[k].route) /\ Stays(k)
        /\ work[k].pc = "ensure" /\ work'[k].pc = "commit"
        /\ work'[k].copy = work[k].copy /\ work'[k].at = work[k].at
        /\ work'[k].todo = work[k].todo
        /\ work'[k].left = MatchedNow(work[k])
        /\ sets' \in [Services -> {"none", "empty", "filled"}]
        /\ UNCHANGED <<server, rules, lost, slipped>> /\ Rest
    BY <1>2, <1>8, EnsureSetParts
  <2>2. JobSound(work'[k])
    BY <2>1, SoundStays DEF Stays, Works, Programs, CleansUp
  <2>. QED
    BY <1>1, <2>1, <2>2, WorkerTyped
<1>9. ASSUME NEW l \in Listeners, CommitRules(k, l) PROVE Typed'
  <2>1. /\ Busy(k) /\ Works(k, work[k].route) /\ Stays(k)
        /\ work[k].pc = "commit" /\ l \in work[k].left
        /\ work'[k].copy = work[k].copy /\ work'[k].at = work[k].at
        /\ work'[k].todo = work[k].todo
        /\ rules' \in [Listeners -> [Routes -> Services \cup {Nil}]]
        /\ UNCHANGED <<server, sets>> /\ Rest
    BY <1>2, <1>9, CommitRulesParts
  <2>2. \/ work'[k].pc = "commit" /\ work'[k].left = work[k].left \ {l}
        \/ work'[k].then = "drop" /\ work'[k].pc \in {"drop", "unrule"}
    BY <1>9, CommitRulesParts
  <2>3. JobSound(work'[k])
    <3>1. work[k].left \subseteq MatchedNow(work[k])
      BY <2>1 DEF Works, JobSound
    <3>. QED
      BY <2>1, <2>2, <3>1, SoundStays DEF Stays, Works, Programs, CleansUp
  <2>4. lost' \subseteq Routes \X Listeners /\ slipped' \subseteq Routes \X Listeners
    <3>1. \E r \in Routes : r = work[k].route
      BY <2>1 DEF Works
    <3>2. PICK r \in Routes : r = work[k].route
      BY <3>1
    <3>3. lost' \subseteq lost /\ slipped' \subseteq slipped \cup {<<r, l>>}
      BY <1>9, <3>2, CommitRulesParts
    <3>. QED
      BY <1>1, <3>3
  <2>. QED
    BY <1>1, <2>1, <2>3, <2>4, WorkerTyped
<1>10. ASSUME NEW l \in Listeners, RemoveRules(k, l) PROVE Typed'
  <2>1. /\ Busy(k) /\ Works(k, work[k].route) /\ Stays(k)
        /\ work[k].pc = "unrule" /\ l \in work[k].left
        /\ work'[k].copy = work[k].copy /\ work'[k].at = work[k].at
        /\ work'[k].todo = work[k].todo
        /\ rules' \in [Listeners -> [Routes -> Services \cup {Nil}]]
        /\ UNCHANGED <<server, sets>> /\ Rest
    BY <1>2, <1>10, RemoveRulesParts
  <2>2. /\ work'[k].then = work[k].then
        /\ work'[k].left = {} => work'[k].pc = work[k].then
        /\ work'[k].left # {} => work'[k].pc = "unrule"
    BY <1>10, RemoveRulesParts
  <2>3. JobSound(work'[k])
    <3>1. work[k].then \in {"drop", "deny", "refuse", "clear"} /\ JobSound(work[k])
      BY <2>1 DEF Works, Job
    <3>2. /\ Programs(work'[k]) => Programs(work[k])
          /\ CleansUp(work'[k]) => CleansUp(work[k])
          /\ work'[k].pc # "commit"
      BY <2>1, <2>2, <3>1 DEF Programs, CleansUp
    <3>. QED
      BY <2>1, <3>1, <3>2, SoundStays DEF Stays
  <2>4. lost' \subseteq Routes \X Listeners /\ slipped' \subseteq Routes \X Listeners
    <3>1. \E r \in Routes : r = work[k].route
      BY <2>1 DEF Works
    <3>2. PICK r \in Routes : r = work[k].route
      BY <3>1
    <3>3. lost' \subseteq lost \cup {<<r, l>>} /\ slipped' \subseteq slipped
      BY <1>10, <3>2, RemoveRulesParts
    <3>. QED
      BY <1>1, <3>3
  <2>. QED
    BY <1>1, <2>1, <2>3, <2>4, WorkerTyped
<1>11. CASE DropStaleSets(k) \/ CheckSet(k) \/ DeleteSet(k)
  <2>1. /\ Busy(k) /\ Works(k, work[k].route) /\ Stays(k) /\ Keeps(k)
        /\ work'[k].copy = work[k].copy
        /\ \/ work[k].pc = "drop" /\ work'[k].pc = "status"
           \/ work[k].pc \in {"clear", "delete"} /\ work'[k].pc \in {"delete", "release"}
        /\ sets' \in [Services -> {"none", "empty", "filled"}]
        /\ UNCHANGED <<server, rules, lost, slipped>> /\ Rest
    BY <1>2, <1>11, SetsParts
  <2>2. JobSound(work'[k])
    BY <2>1, SoundStays DEF Stays, Keeps, Works, Programs, CleansUp
  <2>. QED
    BY <1>1, <2>1, <2>2, WorkerTyped
<1>12. CASE RemoveFinalizer(k)
  <2>1. /\ Busy(k) /\ Works(k, work[k].route) /\ Stays(k)
        /\ work'[k].pc = "parents" /\ work'[k].copy = work[k].copy
        /\ work'[k].todo = work[k].todo \ {work[k].at}
        /\ server' = [server EXCEPT ![work[k].route] = Nil]
        /\ UNCHANGED <<rules, sets, lost, slipped>> /\ Rest
    BY <1>2, <1>12, RemoveFinalizerParts
  <2>2. JobSound(work'[k])
    BY <2>1, SoundDone DEF Works
  <2>3. server' \in [Routes -> Route \cup {Nil}]
        /\ \A q \in Routes : server'[q] = Nil \/ server'[q] = server[q]
    BY <1>1, <2>1
  <2>4. Bounded'
    BY <2>1, <2>3 DEF Typed, Bounded, Marked, Finalized
  <2>. QED
    BY <1>1, <2>1, <2>2, <2>3, <2>4, WorkerTyped
<1>13. CASE Fail(k)
  <2>1. /\ Busy(k) /\ Works(k, work[k].route) /\ work'[k] = Nil
        /\ queue' = queue \cup {work[k].route}
        /\ UNCHANGED <<server, rules, sets, lost, slipped>>
        /\ UNCHANGED <<cache, born, gateway, services, edits, crashes>>
    BY <1>13, FailParts
  <2>2. queue' \subseteq Routes
    BY <1>1, <2>1 DEF Works
  <2>. QED
    BY <1>1, <2>1, <2>2, WorkerTyped
<1>14. ASSUME NEW r \in Routes, Take(k, r) PROVE Typed'
  <2>1. /\ KindOf[r] = k /\ queue' \subseteq Routes
        /\ work' = [work EXCEPT ![k] = work'[k]]
        /\ UNCHANGED <<server, rules, sets, lost, slipped>>
        /\ UNCHANGED <<cache, born, gateway, services, edits, crashes>>
    BY <1>1, <1>14, TakeParts
  <2>2. \/ work'[k] = Nil
        \/ /\ cache[r] # Nil /\ work'[k] \in Job
           /\ work'[k].route = r /\ work'[k].copy = cache[r]
           /\ work'[k].todo \subseteq cache[r].on
           /\ \/ work'[k].pc = "parents"
              \/ cache[r].deleting /\ work'[k].then = "clear" /\ work'[k].pc \in {"clear", "unrule"}
    BY <1>14, TakeParts
  <2>3. work'[k] = Nil \/ (work'[k] \in Job /\ work'[k].route = r /\ JobSound(work'[k]))
    BY <2>2 DEF JobSound, Programs, CleansUp, Typed, Marked
  <2>4. /\ work' \in [Kinds -> Job \cup {Nil}]
        /\ \A j \in Kinds \ {k} : work'[j] = work[j]
    BY <2>1, <2>3 DEF Typed, TypeOK, Idle
  <2>5. ASSUME NEW j \in Kinds, work'[j] # Nil
        PROVE  /\ KindOf[work'[j].route] = j /\ JobSound(work'[j])
               /\ work'[j].pc = "release" => work'[j].copy.deleting /\ Finalized(work'[j].copy)
    <3>1. KindOf[work'[j].route] = j /\ JobSound(work'[j])
      BY <2>1, <2>3, <2>4, <2>5 DEF Typed, TypeOK, Busy, Idle
    <3>. QED
      BY <3>1 DEF JobSound, CleansUp, Marked
  <2>6. \A j \in Kinds : Busy(j)' => JobSound(work[j])'
    BY <2>5 DEF Busy, Idle, JobSound, Programs, CleansUp, MatchedNow, Marked
  <2>7. TypeOK'
    BY <2>1, <2>4, <2>5 DEF Typed, TypeOK, Busy, Idle, At
  <2>. QED
    BY <2>1, <2>6, <2>7 DEF Typed, Bounded, Marked
<1>. QED
  BY <1>3, <1>4, <1>5, <1>6, <1>7, <1>8, <1>9, <1>10, <1>11, <1>12, <1>13, <1>14 DEF Step

\* The steps of the others.
LEMMA CreateParts ==
  ASSUME Typed, NEW r \in Routes, Create(r)
  PROVE  /\ r \notin born /\ born' = born \cup {r}
         /\ server'[r] \in Route /\ server' = [server EXCEPT ![r] = server'[r]]
         /\ server'[r].gen = 1 /\ ~server'[r].deleting /\ server'[r].recorded = {}
         /\ \A p \in Parents : server'[r].resolved[p] = 0
         /\ UNCHANGED <<rules, sets, lost, slipped>>
         /\ UNCHANGED <<cache, gateway, services, queue, work, edits, crashes>>
<1>1. 0 \in Gens /\ 1 \in Gens
  BY DEF Gens
<1>2. FirstTo[r] \in Services
  OBVIOUS
<1>3. [p \in Parents |-> 0] \in [Parents -> Gens]
  BY <1>1
<1>4. server'[r] = [gen |-> 1, on |-> Parents, to |-> FirstTo[r], deleting |-> FALSE,
                    resolved |-> [p \in Parents |-> 0], recorded |-> {}, sets |-> {}]
  BY DEF Create, Typed, TypeOK
<1>5. server' = [server EXCEPT ![r] = server'[r]]
  BY DEF Create, Typed, TypeOK
<1>6. /\ server'[r] \in Route
      /\ server'[r].gen = 1 /\ ~server'[r].deleting /\ server'[r].recorded = {}
      /\ \A p \in Parents : server'[r].resolved[p] = 0
  BY <1>1, <1>2, <1>3, <1>4 DEF Route
<1>7. /\ r \notin born /\ born' = born \cup {r}
      /\ UNCHANGED <<rules, sets, lost, slipped>>
      /\ UNCHANGED <<cache, gateway, services, queue, work, edits, crashes>>
  BY DEF Create, NoOCI
<1>. QED
  BY <1>5, <1>6, <1>7

LEMMA DeleteParts ==
  ASSUME Typed, NEW r \in Routes, Delete(r)
  PROVE  /\ server[r] \in Route /\ ~server[r].deleting
         /\ server' = [server EXCEPT ![r] = server'[r]]
         /\ \/ server'[r] = Nil /\ ~Finalized(server[r])
            \/ /\ server'[r] \in Route /\ Finalized(server[r])
               /\ server'[r].deleting /\ server'[r].gen = server[r].gen + 1
               /\ server'[r].on = server[r].on /\ server'[r].recorded = server[r].recorded
               /\ server'[r].resolved = server[r].resolved
         /\ slipped' = slipped \cup Unrecorded(r)
         /\ UNCHANGED <<rules, sets, lost>>
         /\ UNCHANGED <<cache, born, gateway, services, queue, work, edits, crashes>>
<1>1. server \in [Routes -> Route \cup {Nil}] /\ server[r] # Nil /\ ~server[r].deleting
  BY DEF Delete, Typed, TypeOK
<1>2. server' = [server EXCEPT ![r] = server'[r]]
  BY <1>1 DEF Delete
<1>3. CASE ~Finalized(server[r])
  <2>1. server'[r] = Nil
    BY <1>1, <1>3 DEF Delete
  <2>. QED
    BY <1>1, <1>2, <1>3, <2>1 DEF Delete
<1>4. CASE Finalized(server[r])
  <2>1. server'[r] = [server[r] EXCEPT !.deleting = TRUE, !.gen = server[r].gen + 1]
    BY <1>1, <1>4 DEF Delete
  <2>2. server[r] \in Route
    BY <1>1
  <2>3. server[r].gen + 1 \in Gens
    BY <1>1, <2>2 DEF Typed, Bounded, TypeOK, Route, Gens
  <2>4. /\ server'[r] \in Route /\ server'[r].deleting /\ server'[r].gen = server[r].gen + 1
        /\ server'[r].on = server[r].on /\ server'[r].recorded = server[r].recorded
        /\ server'[r].resolved = server[r].resolved
    BY <2>1, <2>2, <2>3 DEF Route
  <2>. QED
    BY <1>1, <1>2, <1>4, <2>2, <2>4 DEF Delete
<1>. QED
  BY <1>3, <1>4

\* A change of the specification.
LEMMA EditParts ==
  ASSUME Typed, NEW r \in Routes,
         (\E s \in Services : Redirect(r, s)) \/ (\E on \in SUBSET Parents : Attach(r, on))
  PROVE  /\ server[r] \in Route /\ ~server[r].deleting /\ server'[r] \in Route
         /\ server' = [server EXCEPT ![r] = server'[r]]
         /\ ~server'[r].deleting /\ server'[r].gen = server[r].gen + 1
         /\ server'[r].recorded = server[r].recorded
         /\ server'[r].resolved = server[r].resolved
         /\ edits \in Nat /\ edits' = edits + 1 /\ edits < MaxEdits
         /\ \/ slipped' = slipped \cup Unrecorded(r)
            \/ server'[r].on = server[r].on /\ slipped' = slipped
         /\ UNCHANGED <<rules, sets, lost>>
         /\ UNCHANGED <<cache, born, gateway, services, queue, work, crashes>>
<1>1. /\ server \in [Routes -> Route \cup {Nil}] /\ server[r] \in Route /\ ~server[r].deleting
      /\ edits \in 0..MaxEdits
  <2>1. server[r] # Nil /\ ~server[r].deleting
    BY DEF Redirect, Attach
  <2>. QED
    BY <2>1 DEF Typed, TypeOK
<1>2. edits < MaxEdits /\ edits' = edits + 1
  BY DEF Redirect, Attach, Edit
<1>3. server[r].gen + 1 \in Gens
  BY <1>1, <1>2 DEF Typed, Bounded, Route, Gens
<1>4. ASSUME NEW s \in Services, Redirect(r, s)
      PROVE  /\ server'[r] \in Route /\ server' = [server EXCEPT ![r] = server'[r]]
             /\ ~server'[r].deleting /\ server'[r].gen = server[r].gen + 1
             /\ server'[r].recorded = server[r].recorded /\ server'[r].on = server[r].on
             /\ server'[r].resolved = server[r].resolved
  <2>1. server'[r] = [server[r] EXCEPT !.to = s, !.gen = server[r].gen + 1]
        /\ server' = [server EXCEPT ![r] = server'[r]]
    BY <1>1, <1>4 DEF Redirect
  <2>. QED
    BY <1>1, <1>3, <2>1 DEF Route
<1>5. ASSUME NEW on \in SUBSET Parents, Attach(r, on)
      PROVE  /\ server'[r] \in Route /\ server' = [server EXCEPT ![r] = server'[r]]
             /\ ~server'[r].deleting /\ server'[r].gen = server[r].gen + 1
             /\ server'[r].recorded = server[r].recorded
             /\ server'[r].resolved = server[r].resolved
  <2>1. server'[r] = [server[r] EXCEPT !.on = on, !.gen = server[r].gen + 1]
        /\ server' = [server EXCEPT ![r] = server'[r]]
    BY <1>1, <1>5 DEF Attach
  <2>. QED
    BY <1>1, <1>3, <2>1 DEF Route
<1>6. /\ server'[r] \in Route /\ server' = [server EXCEPT ![r] = server'[r]]
      /\ ~server'[r].deleting /\ server'[r].gen = server[r].gen + 1
      /\ server'[r].recorded = server[r].recorded
      /\ server'[r].resolved = server[r].resolved
  BY <1>4, <1>5
<1>7. \/ slipped' = slipped \cup Unrecorded(r)
      \/ server'[r].on = server[r].on /\ slipped' = slipped
  BY <1>4 DEF Redirect, Attach, NoOCI
<1>8. /\ UNCHANGED <<rules, sets, lost>>
      /\ UNCHANGED <<cache, born, gateway, services, queue, work, crashes>>
  BY DEF Redirect, Attach, NoOCI
<1>. QED
  BY <1>1, <1>2, <1>6, <1>7, <1>8

\* What happens to the Gateway, the services, the informers and the process.
LEMMA OutsideParts ==
  ASSUME Typed,
         \/ \E l \in Listeners, st \in {"absent", "same", "all"} : EditListener(l, st)
         \/ \E s \in Services : EditService(s)
         \/ \E r \in Routes : Observe(r)
         \/ \E l \in Listeners : GatewayRemoves(l)
         \/ Crash
  PROVE  /\ UNCHANGED <<server, born>>
         /\ \/ cache' = cache \/ cache' = server
            \/ \E r \in Routes : cache' = [cache EXCEPT ![r] = server[r]]
         /\ gateway' \in [Listeners -> {"absent", "same", "all"}]
         /\ services' \subseteq Services
         /\ rules' \in [Listeners -> [Routes -> Services \cup {Nil}]]
         /\ sets' = sets /\ queue' \subseteq Routes
         /\ work' = work \/ work' = [k \in Kinds |-> Nil]
         /\ edits' \in 0..MaxEdits /\ edits' >= edits /\ crashes' \in 0..MaxCrashes
         /\ lost' \subseteq Routes \X Listeners /\ slipped' \subseteq Routes \X Listeners
<1> USE DEF Typed, TypeOK
<1>1. ASSUME NEW l \in Listeners, NEW st \in {"absent", "same", "all"}, EditListener(l, st)
      PROVE  /\ UNCHANGED <<server, born, cache, services, rules, sets, work, crashes, lost>>
             /\ gateway' \in [Listeners -> {"absent", "same", "all"}]
             /\ queue' \subseteq Routes
             /\ edits' \in 0..MaxEdits /\ edits' >= edits
             /\ slipped' \subseteq Routes \X Listeners
  <2>1. \A r \in Routes : Unrecorded(r) \subseteq Routes \X Listeners
    BY DEF Unrecorded, Ruled
  <2>2. slipped' \subseteq Routes \X Listeners
    <3>1. slipped' = slipped \cup UNION {Unrecorded(r) : r \in Routes}
      BY <1>1 DEF EditListener
    <3>2. UNION {Unrecorded(r) : r \in Routes} \subseteq Routes \X Listeners
      BY <2>1
    <3>. QED
      BY <3>1, <3>2
  <2>. QED
    BY <1>1, <2>2 DEF EditListener, Edit
<1>2. ASSUME NEW s \in Services, EditService(s)
      PROVE  /\ UNCHANGED <<server, born, cache, gateway, rules, sets, work, crashes, lost, slipped>>
             /\ services' \subseteq Services /\ queue' \subseteq Routes
             /\ edits' \in 0..MaxEdits /\ edits' >= edits
  BY <1>2 DEF EditService, Edit, Indexed, NoOCI
<1>3. ASSUME NEW r \in Routes, Observe(r)
      PROVE  /\ UNCHANGED <<server, born, gateway, services, rules, sets, work, edits, crashes,
                            lost, slipped>>
             /\ cache' = [cache EXCEPT ![r] = server[r]] /\ queue' \subseteq Routes
  <2>1. \A x : Paired(r, x) \subseteq Routes
    BY DEF Paired
  <2>. QED
    BY <1>3, <2>1 DEF Observe, NoOCI
<1>4. ASSUME NEW l \in Listeners, GatewayRemoves(l)
      PROVE  /\ UNCHANGED <<server, born, cache, gateway, services, sets, queue, work, edits, crashes>>
             /\ rules' \in [Listeners -> [Routes -> Services \cup {Nil}]]
             /\ lost' \subseteq Routes \X Listeners /\ slipped' \subseteq Routes \X Listeners
  <2>1. rules' = [rules EXCEPT ![l] = [r \in Routes |-> Nil]]
    BY <1>4 DEF GatewayRemoves
  <2>. QED
    BY <1>4, <2>1 DEF GatewayRemoves
<1>5. CASE Crash
  BY <1>5 DEF Crash, NoOCI, Idle
<1> QED
  BY <1>1, <1>2, <1>3, <1>4, <1>5

\* A step that leaves the workers alone, or stops them.
LEMMA OthersKeepTyped ==
  ASSUME Typed,
         server' \in [Routes -> Route \cup {Nil}], cache' \in [Routes -> Route \cup {Nil}],
         Bounded', \A r \in Routes : cache'[r] # Nil => Marked(cache'[r]),
         born' \subseteq Routes, queue' \subseteq Routes, services' \subseteq Services,
         gateway' \in [Listeners -> {"absent", "same", "all"}],
         rules' \in [Listeners -> [Routes -> Services \cup {Nil}]],
         sets' \in [Services -> {"none", "empty", "filled"}],
         work' = work \/ work' = [k \in Kinds |-> Nil],
         edits' \in 0..MaxEdits, crashes' \in 0..MaxCrashes,
         lost' \subseteq Routes \X Listeners, slipped' \subseteq Routes \X Listeners
  PROVE  Typed'
<1>1. work' \in [Kinds -> Job \cup {Nil}]
  BY DEF Typed, TypeOK, Idle
<1>2. \A k \in Kinds : work'[k] = Nil \/ work'[k] = work[k]
  OBVIOUS
<1>3. \A k \in Kinds : Busy(k)' =>
        /\ KindOf[work'[k].route] = k /\ JobSound(work'[k])
        /\ work'[k].pc = "release" => work'[k].copy.deleting /\ Finalized(work'[k].copy)
  BY <1>2 DEF Typed, TypeOK, Busy, Idle, At
<1>4. \A k \in Kinds : Busy(k)' => JobSound(work[k])'
  BY <1>3 DEF JobSound, Programs, CleansUp, MatchedNow, Marked
<1>5. TypeOK'
  BY <1>1, <1>3 DEF TypeOK, Busy, Idle, At
<1>. QED
  BY <1>4, <1>5 DEF Typed, Marked

LEMMA OthersTyped ==
  ASSUME Typed, Next, ~\E k \in Kinds : Step(k) \/ Fail(k)
  PROVE  Typed'
<1>1. /\ server \in [Routes -> Route \cup {Nil}] /\ cache \in [Routes -> Route \cup {Nil}]
      /\ born \subseteq Routes /\ queue \subseteq Routes /\ services \subseteq Services
      /\ gateway \in [Listeners -> {"absent", "same", "all"}]
      /\ rules \in [Listeners -> [Routes -> Services \cup {Nil}]]
      /\ sets \in [Services -> {"none", "empty", "filled"}]
      /\ edits \in 0..MaxEdits /\ crashes \in 0..MaxCrashes
      /\ lost \subseteq Routes \X Listeners /\ slipped \subseteq Routes \X Listeners
      /\ \A r \in Routes : cache[r] # Nil => Marked(cache[r])
  BY DEF Typed, TypeOK
<1>2. ASSUME NEW r \in Routes, Create(r) PROVE Typed'
  <2>1. /\ server' \in [Routes -> Route \cup {Nil}] /\ born' \subseteq Routes
        /\ \A q \in Routes \ {r} : server'[q] = server[q]
        /\ server'[r].gen = 1 /\ ~server'[r].deleting
        /\ UNCHANGED <<rules, sets, lost, slipped>>
        /\ UNCHANGED <<cache, gateway, services, queue, work, edits, crashes>>
    BY <1>1, <1>2, CreateParts
  <2>2. Bounded'
    BY <1>1, <2>1 DEF Typed, Bounded, Marked, Finalized
  <2>. QED
    BY <1>1, <2>1, <2>2, OthersKeepTyped
<1>3. ASSUME NEW r \in Routes, Delete(r) PROVE Typed'
  <2>1. /\ server' \in [Routes -> Route \cup {Nil}]
        /\ \A q \in Routes \ {r} : server'[q] = server[q]
        /\ server[r] \in Route /\ ~server[r].deleting
        /\ \/ server'[r] = Nil
           \/ /\ Finalized(server[r]) /\ server'[r].deleting
              /\ server'[r].gen = server[r].gen + 1 /\ server'[r].recorded = server[r].recorded
        /\ slipped' = slipped \cup Unrecorded(r)
        /\ UNCHANGED <<rules, sets, lost>>
        /\ UNCHANGED <<cache, born, gateway, services, queue, work, edits, crashes>>
    BY <1>1, <1>3, DeleteParts
  <2>2. Bounded'
    <3>1. server[r].gen <= edits + 1 /\ server[r].gen \in Nat
      BY <2>1 DEF Typed, Bounded, Route, Gens
    <3>. QED
      BY <1>1, <2>1, <3>1 DEF Typed, Bounded, Marked, Finalized
  <2>3. slipped' \subseteq Routes \X Listeners
    BY <1>1, <2>1 DEF Unrecorded, Ruled
  <2>. QED
    BY <1>1, <2>1, <2>2, <2>3, OthersKeepTyped
<1>4. ASSUME NEW r \in Routes,
             (\E s \in Services : Redirect(r, s)) \/ (\E on \in SUBSET Parents : Attach(r, on))
      PROVE Typed'
  <2>1. /\ server' \in [Routes -> Route \cup {Nil}]
        /\ \A q \in Routes \ {r} : server'[q] = server[q]
        /\ server[r] \in Route /\ ~server[r].deleting
        /\ ~server'[r].deleting /\ server'[r].gen = server[r].gen + 1
        /\ edits \in Nat /\ edits' = edits + 1 /\ edits < MaxEdits
        /\ slipped' = slipped \cup Unrecorded(r) \/ slipped' = slipped
        /\ UNCHANGED <<rules, sets, lost>>
        /\ UNCHANGED <<cache, born, gateway, services, queue, work, crashes>>
    BY <1>1, <1>4, EditParts
  <2>2. Bounded'
    <3>1. server[r].gen <= edits + 1 /\ server[r].gen \in Nat
      BY <2>1 DEF Typed, Bounded, Route, Gens
    <3>2. \A q \in Routes : server[q] # Nil => server[q].gen \in Nat
      BY <1>1 DEF Route, Gens
    <3>. QED
      BY <1>1, <2>1, <3>1, <3>2 DEF Typed, Bounded, Marked, Finalized
  <2>3. slipped' \subseteq Routes \X Listeners /\ edits' \in 0..MaxEdits
    BY <1>1, <2>1 DEF Unrecorded, Ruled
  <2>. QED
    BY <1>1, <2>1, <2>2, <2>3, OthersKeepTyped
<1>5. CASE \/ \E l \in Listeners, st \in {"absent", "same", "all"} : EditListener(l, st)
           \/ \E s \in Services : EditService(s)
           \/ \E r \in Routes : Observe(r)
           \/ \E l \in Listeners : GatewayRemoves(l)
           \/ Crash
  <2>1. /\ UNCHANGED <<server, born>>
        /\ \/ cache' = cache \/ cache' = server
           \/ \E r \in Routes : cache' = [cache EXCEPT ![r] = server[r]]
        /\ gateway' \in [Listeners -> {"absent", "same", "all"}]
        /\ services' \subseteq Services
        /\ rules' \in [Listeners -> [Routes -> Services \cup {Nil}]]
        /\ sets' = sets /\ queue' \subseteq Routes
        /\ work' = work \/ work' = [k \in Kinds |-> Nil]
        /\ edits' \in 0..MaxEdits /\ edits' >= edits /\ crashes' \in 0..MaxCrashes
        /\ lost' \subseteq Routes \X Listeners /\ slipped' \subseteq Routes \X Listeners
    BY <1>5, OutsideParts
  <2>2. cache' \in [Routes -> Route \cup {Nil}]
        /\ \A r \in Routes : cache'[r] = cache[r] \/ cache'[r] = server[r]
    BY <1>1, <2>1
  <2>3. \A r \in Routes : cache'[r] # Nil => Marked(cache'[r])
    BY <1>1, <2>2 DEF Typed, Bounded
  <2>4. Bounded'
    <3>1. \A q \in Routes : server[q] # Nil => server[q].gen \in Nat
      BY <1>1 DEF Route, Gens
    <3>. QED
      BY <1>1, <2>1, <3>1 DEF Typed, Bounded
  <2>. QED
    BY <1>1, <2>1, <2>2, <2>3, <2>4, OthersKeepTyped
<1>. QED
  BY <1>2, <1>3, <1>4, <1>5 DEF Next, Users

LEMMA InitTyped == Init => Typed
<1> SUFFICES ASSUME Init PROVE Typed
  OBVIOUS
<1>1. \A k \in Kinds : ~Busy(k)
  BY DEF Init, Busy
<1>2. TypeOK
  BY <1>1 DEF Init, TypeOK, Idle, At
<1>. QED
  BY <1>1, <1>2 DEF Init, Typed, Bounded

LEMMA NextTyped == Typed /\ [Next]_vars => Typed'
<1> SUFFICES ASSUME Typed, [Next]_vars PROVE Typed'
  OBVIOUS
<1>1. CASE UNCHANGED vars
  <2>1. TypeOK' /\ Bounded'
    BY <1>1 DEF vars, Typed, TypeOK, Bounded, Busy, At
  <2>. QED
    BY <1>1, <2>1 DEF vars, Typed, Busy, Marked, JobSound, Programs, CleansUp, MatchedNow
<1>. QED
  BY <1>1, StepTyped, OthersTyped

LEMMA AlwaysTyped == Spec => []Typed
BY InitTyped, NextTyped, PTL DEF Spec

\* The types of the variables; a worker has a route of its kind, and one that releases a
\* route has a deleted, recorded one.
THEOREM TypeCorrect == Spec => []TypeOK
<1>1. Typed => TypeOK
  BY DEF Typed
<1>. QED
  BY <1>1, AlwaysTyped, PTL

----------------------------------------------------------------------------
(* What is known of a route and of its rules.                              *)

\* The job about a route, or Nil.
JobOf(r) == IF Busy(KindOf[r]) /\ work[KindOf[r]].route = r THEN work[KindOf[r]] ELSE Nil

\* The listeners at which it has rules that are not in `slipped'.
Held(r) == {l \in Ruled(r) : <<r, l>> \notin slipped}

Live(r) == server[r] # Nil /\ ~server[r].deleting

\* A deletion is never taken back, and a generation has one list of parents.
Ages(r) ==
  /\ r \notin born => server[r] = Nil /\ cache[r] = Nil /\ JobOf(r) = Nil
  /\ Live(r) => /\ cache[r] # Nil => ~cache[r].deleting
                /\ JobOf(r) # Nil => ~JobOf(r).copy.deleting
  /\ server[r] # Nil /\ cache[r] # Nil =>
       /\ cache[r].gen <= server[r].gen
       /\ cache[r].gen = server[r].gen => cache[r].on = server[r].on

\* The rules are on record, or the route is at home where they are.
RuleKnown(r) ==
  \A l \in Held(r) : /\ server[r] # Nil
                     /\ l \in server[r].recorded \/ (~server[r].deleting /\ l \in Home(r))

\* A worker that cleans up a route, as it is now, has the rest of the rules before it.
CleanedUp(r) ==
  JobOf(r) # Nil /\ CleansUp(JobOf(r)) /\ server[r] = JobOf(r).copy =>
    \A l \in Held(r) : JobOf(r).pc = "unrule" /\ l \in JobOf(r).left

\* A worker that goes on to record its rules has removed the stale ones.
StaleGone(r) ==
  JobOf(r) # Nil =>
    /\ JobOf(r).pc = "unrule" /\ JobOf(r).then = "drop" =>
         StaleListeners(JobOf(r)) \cap Ruled(r) \subseteq JobOf(r).left
    /\ JobOf(r).pc \in {"drop", "status", "record"} =>
         StaleListeners(JobOf(r)) \cap Ruled(r) = {}

\* An event of the route's specification, or of its listeners, is before the worker.
Notified(r) == r \in queue \/ cache[r] = Nil \/ cache[r].gen # server[r].gen

\* The parents that the worker still has to do, or is about to make rules for.
Ahead(job) == job.todo \cup (IF Programs(job) THEN {job.at} ELSE {})

\* A worker that would make rules where the route is not at home will have to come back.
OutdatedQueued(r) ==
  Live(r) /\ JobOf(r) # Nil /\ ~Notified(r) =>
    \A p \in Ahead(JobOf(r)) : Matched(r, JobOf(r).seen, p) \subseteq Home(r)

\* The worker is going to remove the rules at listener l.
Removes(job, l) ==
  /\ l \in job.copy.recorded
  /\ \/ /\ job.pc = "parents" /\ job.todo # {}
        /\ \A p \in job.todo : l \notin Matched(job.route, job.seen, p)
     \/ job.pc \in {"pending", "backends", "ensure", "commit"} /\ l \notin MatchedNow(job)
     \/ job.pc = "unrule" /\ l \in job.left

HasListener(r) ==
  \E p \in server[r].on, m \in Listeners : m \in ListenersOf[p] /\ gateway[m] # "absent"

\* Rules where the route is not at home are going to be removed.
ForeignNoticed(r) ==
  Live(r) /\ HasListener(r) =>
    \A l \in Held(r) \ Home(r) :
      \/ r \in queue
      \/ Eventful(cache[r], server[r])
      \/ JobOf(r) # Nil /\ Removes(JobOf(r), l)

Kept(r) ==
  /\ Ages(r) /\ RuleKnown(r) /\ CleanedUp(r) /\ StaleGone(r)
  /\ OutdatedQueued(r) /\ ForeignNoticed(r)

Followed == Typed /\ \A r \in Routes : Kept(r)

\* A step that leaves a route alone, or removes rules of it.
Apart(r) ==
  /\ server'[r] = server[r] /\ cache'[r] = cache[r] /\ (r \in born') = (r \in born)
  /\ r \in queue => r \in queue'
  /\ JobOf(r)' = JobOf(r) /\ Held(r)' \subseteq Held(r) /\ Ruled(r)' \subseteq Ruled(r)
  /\ gateway' = gateway

LEMMA ApartKept ==
  ASSUME NEW r \in Routes, Kept(r), Apart(r)
  PROVE  Kept(r)'
<1>1. /\ Home(r)' = Home(r) /\ Live(r)' = Live(r)
      /\ server'[r] # Nil => HasListener(r)' = HasListener(r)
  BY DEF Apart, Home, Live, HasListener
<1>2. Ages(r)'
  BY <1>1 DEF Kept, Ages, Apart
<1>3. RuleKnown(r)'
  BY <1>1 DEF Kept, RuleKnown, Apart
<1>4. CleanedUp(r)'
  BY <1>1 DEF Kept, CleanedUp, Apart, CleansUp
<1>5. StaleGone(r)'
  BY <1>1 DEF Kept, StaleGone, Apart, StaleListeners, MatchedNow
<1>6. OutdatedQueued(r)'
  BY <1>1 DEF Kept, OutdatedQueued, Apart, Notified, Ahead, Programs
<1>7. ForeignNoticed(r)'
  BY <1>1 DEF Kept, ForeignNoticed, Apart, Live, Removes, MatchedNow, Eventful
<1>. QED
  BY <1>2, <1>3, <1>4, <1>5, <1>6, <1>7 DEF Kept

\* A step of a worker touches the job of its route only.
LEMMA WorkerJobs ==
  ASSUME Typed, NEW k \in Kinds, NEW r \in Routes, Busy(k), Works(k, r),
         work'[k] = Nil \/ Stays(k)
  PROVE  /\ JobOf(r) = work[k] /\ JobOf(r)' = work'[k]
         /\ \A q \in Routes \ {r} : JobOf(q)' = JobOf(q)
<1>1. \A j \in Kinds \ {k} : work'[j] = work[j]
  BY DEF Works, Typed, TypeOK, Idle
<1>2. KindOf[r] = k /\ work[k].route = r /\ work[k] # Nil
  BY DEF Works, Busy, Idle
<1>3. JobOf(r) = work[k]
  BY <1>2 DEF JobOf, Busy, Idle
<1>4. JobOf(r)' = work'[k]
  BY <1>2 DEF JobOf, Busy, Idle, Stays
<1>5. ASSUME NEW q \in Routes \ {r} PROVE JobOf(q)' = JobOf(q)
  <2>1. KindOf[q] \in Kinds
    OBVIOUS
  <2>2. CASE KindOf[q] = k
    BY <1>2, <2>2 DEF JobOf, Busy, Idle, Stays
  <2>3. CASE KindOf[q] # k
    BY <1>1, <2>1, <2>3 DEF JobOf, Busy, Idle
  <2>. QED
    BY <2>2, <2>3
<1>. QED
  BY <1>3, <1>4, <1>5

\* The other routes, when a worker leaves the rules alone.
LEMMA OthersApart ==
  ASSUME Typed, NEW k \in Kinds, NEW r \in Routes, Busy(k), Works(k, r),
         work'[k] = Nil \/ Stays(k),
         UNCHANGED <<cache, born, gateway>>, queue \subseteq queue',
         \A q \in Routes \ {r} : server'[q] = server[q],
         \A q \in Routes \ {r} : Ruled(q)' = Ruled(q) /\ Held(q)' = Held(q)
  PROVE  \A q \in Routes \ {r} : Apart(q)
BY WorkerJobs DEF Apart

LEMMA QuietRules ==
  ASSUME UNCHANGED <<rules, slipped>>, NEW q \in Routes
  PROVE  Ruled(q)' = Ruled(q) /\ Held(q)' = Held(q)
BY DEF Ruled, Held


\* A step of a worker with its route, as far as it does not touch the rules of others.
LEMMA WorkerFollows ==
  ASSUME Followed, NEW k \in Kinds, NEW r \in Routes, Step(k) \/ Fail(k),
         Busy(k), Works(k, r), work'[k] = Nil \/ Stays(k),
         UNCHANGED <<cache, born, gateway>>, queue \subseteq queue',
         \A q \in Routes \ {r} : server'[q] = server[q],
         \A q \in Routes \ {r} : Ruled(q)' = Ruled(q) /\ Held(q)' = Held(q),
         Kept(r)'
  PROVE  Followed'
<1>1. Typed'
  BY StepTyped DEF Followed
<1>2. \A q \in Routes \ {r} : Apart(q)
  BY OthersApart DEF Followed
<1>3. \A q \in Routes \ {r} : Kept(q)'
  BY <1>2, ApartKept DEF Followed
<1>. QED
  BY <1>1, <1>3 DEF Followed

\* The route at the API server is the same, conditions apart.
LEMMA QuietServer ==
  ASSUME NEW r \in Routes, UNCHANGED <<cache, gateway>>,
         \/ server'[r] = server[r]
         \/ server[r] # Nil /\ server'[r] # Nil /\ SameSpec(server'[r], server[r])
  PROVE  /\ (server'[r] = Nil) = (server[r] = Nil) /\ Live(r)' = Live(r)
         /\ server[r] # Nil => /\ server'[r].gen = server[r].gen /\ server'[r].on = server[r].on
                               /\ server'[r].deleting = server[r].deleting
                               /\ server'[r].recorded = server[r].recorded
                               /\ Home(r)' = Home(r) /\ HasListener(r)' = HasListener(r)
         /\ Eventful(cache[r], server[r])' = Eventful(cache[r], server[r])
BY DEF SameSpec, Live, Home, HasListener, Eventful

\* A step of a worker that changes no rules, and nothing of the route but conditions.
LEMMA QuietKept ==
  ASSUME NEW r \in Routes, Kept(r), UNCHANGED <<cache, born, gateway>>, queue \subseteq queue',
         \/ server'[r] = server[r]
         \/ server[r] # Nil /\ server'[r] # Nil /\ SameSpec(server'[r], server[r]),
         Ruled(r)' = Ruled(r), Held(r)' = Held(r),
         NEW old, old = JobOf(r), old # Nil, NEW new, new = JobOf(r)',
         \A l \in Held(r) : Removes(old, l) => r \in queue' \/ (new # Nil /\ Removes(new, l)),
         new # Nil =>
           /\ SameSpec(new.copy, old.copy)
           /\ new.route = old.route /\ new.seen = old.seen
           /\ Ahead(new) \subseteq Ahead(old)
           /\ CleansUp(new) /\ server'[r] = new.copy =>
                \A l \in Held(r) : new.pc = "unrule" /\ l \in new.left
           /\ new.pc = "unrule" /\ new.then = "drop" =>
                old.pc = "unrule" /\ old.then = "drop" /\ new.left = old.left /\ new.at = old.at
           /\ new.pc \in {"drop", "status", "record"} =>
                old.pc \in {"drop", "status", "record"} /\ new.at = old.at
  PROVE  Kept(r)'
<1>1. /\ (server'[r] = Nil) = (server[r] = Nil) /\ Live(r)' = Live(r)
      /\ server[r] # Nil => /\ server'[r].gen = server[r].gen /\ server'[r].on = server[r].on
                            /\ server'[r].deleting = server[r].deleting
                            /\ server'[r].recorded = server[r].recorded
                            /\ Home(r)' = Home(r) /\ HasListener(r)' = HasListener(r)
      /\ Eventful(cache[r], server[r])' = Eventful(cache[r], server[r])
  BY QuietServer
<1>2. Ages(r)'
  <2>1. r \notin born => server'[r] = Nil /\ cache'[r] = Nil /\ new = Nil
    BY <1>1 DEF Kept, Ages
  <2>2. Live(r)' => /\ cache'[r] # Nil => ~cache'[r].deleting
                    /\ new # Nil => ~new.copy.deleting
    BY <1>1 DEF Kept, Ages, SameSpec
  <2>3. server'[r] # Nil /\ cache'[r] # Nil =>
          /\ cache'[r].gen <= server'[r].gen
          /\ cache'[r].gen = server'[r].gen => cache'[r].on = server'[r].on
    BY <1>1 DEF Kept, Ages
  <2>. QED
    BY <2>1, <2>2, <2>3 DEF Ages
<1>3. RuleKnown(r)'
  <2>1. \A l \in Held(r) : /\ server'[r] # Nil
                           /\ l \in server'[r].recorded \/ (~server'[r].deleting /\ l \in Home(r)')
    BY <1>1 DEF Kept, RuleKnown
  <2>. QED
    BY <2>1 DEF RuleKnown
<1>4. CleanedUp(r)'
  BY DEF CleanedUp, CleansUp
<1>5. StaleGone(r)'
  <2>1. new # Nil /\ new.at = old.at => StaleListeners(new) = StaleListeners(old)
    BY DEF StaleListeners, MatchedNow, SameSpec
  <2>2. new # Nil /\ new.pc = "unrule" /\ new.then = "drop" =>
          StaleListeners(new) \cap Ruled(r) \subseteq new.left
    BY <2>1 DEF Kept, StaleGone
  <2>3. new # Nil /\ new.pc \in {"drop", "status", "record"} =>
          StaleListeners(new) \cap Ruled(r) = {}
    BY <2>1 DEF Kept, StaleGone
  <2>. QED
    BY <2>2, <2>3 DEF StaleGone, StaleListeners, MatchedNow
<1>6. OutdatedQueued(r)'
  <2>1. server[r] # Nil /\ Notified(r) => Notified(r)'
    BY <1>1 DEF Notified
  <2>2. Live(r) /\ new # Nil /\ ~Notified(r)' =>
          \A p \in Ahead(new) : Matched(r, new.seen, p) \subseteq Home(r)'
    BY <1>1, <2>1 DEF Kept, OutdatedQueued, Live
  <2>. QED
    BY <1>1, <2>2 DEF OutdatedQueued, Ahead, Programs
<1>7. ForeignNoticed(r)'
  <2>1. ASSUME Live(r), HasListener(r), NEW l \in Held(r), l \notin Home(r),
               r \notin queue', ~Eventful(cache[r], server[r])
        PROVE  new # Nil /\ Removes(new, l)
    BY <2>1 DEF Kept, ForeignNoticed
  <2>2. Live(r) => server[r] # Nil
    BY DEF Live
  <2>. QED
    BY <1>1, <2>1, <2>2 DEF ForeignNoticed, Removes, MatchedNow
<1>. QED
  BY <1>2, <1>3, <1>4, <1>5, <1>6, <1>7 DEF Kept

LEMMA NextParentFollows ==
  ASSUME Followed, NEW k \in Kinds, NEW r \in Routes, r = work[k].route,
         NextParent(k)
  PROVE  Followed'
<1>1. /\ Typed /\ Busy(k) /\ Works(k, r) /\ work[k].pc = "parents"
      /\ UNCHANGED <<server, rules, sets, lost, slipped>> /\ NoEvent
  BY NextParentParts DEF Followed
<1>2. \/ work[k].todo = {} /\ work'[k] = Nil
      \/ /\ work[k].todo # {} /\ Stays(k)
         /\ work'[k].at \in work[k].todo /\ work'[k].todo = work[k].todo
         /\ work'[k].copy = work[k].copy
         /\ \/ /\ work[k].copy.deleting
               /\ work'[k].left = work[k].copy.recorded /\ work'[k].then = "clear"
               /\ work'[k].pc = IF work'[k].left = {} THEN "clear" ELSE "unrule"
            \/ /\ ~work[k].copy.deleting /\ MatchedNow(work'[k]) = {}
               /\ work'[k].left = work[k].copy.recorded /\ work'[k].then = "deny"
               /\ work'[k].pc = IF work'[k].left = {} THEN "deny" ELSE "unrule"
            \/ /\ ~work[k].copy.deleting /\ MatchedNow(work'[k]) # {}
               /\ work'[k].pc = "pending"
            \/ /\ ~work[k].copy.deleting /\ MatchedNow(work'[k]) # {}
               /\ work[k].copy.recorded = MatchedNow(work'[k])
               /\ work'[k].pc = "sync"
  BY NextParentParts DEF Followed
<1>3. /\ r \in Routes /\ Kept(r) /\ JobOf(r) = work[k] /\ JobOf(r)' = work'[k]
      /\ work[k] # Nil
      /\ work'[k] # Nil => Stays(k)
  BY <1>1, <1>2, WorkerJobs DEF Works, Followed, Busy, Idle, Stays
<1>4. /\ \A q \in Routes : Ruled(q)' = Ruled(q) /\ Held(q)' = Held(q)
      /\ UNCHANGED <<cache, born, gateway, queue>>
  BY <1>1, QuietRules DEF NoEvent
<1>5. ASSUME work'[k] # Nil, NEW l \in Listeners, Removes(work[k], l)
      PROVE  Removes(work'[k], l)
  <2>1. /\ l \in work[k].copy.recorded /\ work[k].todo # {}
        /\ \A p \in work[k].todo : l \notin Matched(work[k].route, work[k].seen, p)
    BY <1>1, <1>5 DEF Removes
  <2>2. l \notin MatchedNow(work'[k])
    BY <1>2, <1>5, <2>1 DEF MatchedNow, Stays
  <2>. QED
    BY <1>2, <1>5, <2>1, <2>2 DEF Removes
<1>6. ASSUME work'[k] # Nil, CleansUp(work'[k]), server'[r] = work'[k].copy, NEW l \in Held(r)
      PROVE  work'[k].pc = "unrule" /\ l \in work'[k].left
  <2>1. /\ work[k].copy.deleting /\ server[r] = work[k].copy
        /\ work'[k].left = work[k].copy.recorded
        /\ work'[k].pc = IF work'[k].left = {} THEN "clear" ELSE "unrule"
    BY <1>1, <1>2, <1>6 DEF CleansUp
  <2>2. l \in work[k].copy.recorded
    BY <1>3, <1>6, <2>1 DEF Kept, RuleKnown
  <2>. QED
    BY <2>1, <2>2
<1>7. work'[k] # Nil => /\ SameSpec(work'[k].copy, work[k].copy)
                        /\ Ahead(work'[k]) \subseteq Ahead(work[k])
                        /\ ~(work'[k].pc = "unrule" /\ work'[k].then = "drop")
                        /\ work'[k].pc \notin {"drop", "status", "record"}
  BY <1>1, <1>2 DEF SameSpec, Ahead, Programs
<1>8. Kept(r)'
  <2>1. \A l \in Held(r) : l \in Listeners
    BY DEF Held, Ruled
  <2>2. work'[k] = Nil => \A l \in Held(r) : ~Removes(work[k], l)
    BY <1>1, <1>2 DEF Removes, Stays
  <2>. QED
    BY <1>1, <1>3, <1>4, <1>5, <1>6, <1>7, <2>1, <2>2, QuietKept DEF Stays
<1>. QED
  BY <1>1, <1>3, <1>4, <1>8, WorkerFollows DEF Step

LEMMA StatusFollows ==
  ASSUME Followed, NEW k \in Kinds, NEW r \in Routes, r = work[k].route,
         SetPending(k) \/ SetStatus(k)
  PROVE  Followed'
<1>1. /\ Typed /\ Busy(k) /\ Works(k, r) /\ Stays(k) /\ Keeps(k)
      /\ StatusWritten(r) /\ UNCHANGED <<rules, slipped>> /\ NoEvent
      /\ \/ work[k].pc = "pending" /\ work'[k].pc = "backends"
         \/ work[k].pc = "status" /\ work'[k].pc = "record"
      /\ work'[k].copy = work[k].copy \/ SameSpec(work'[k].copy, work[k].copy)
  BY SetPendingParts, SetStatusParts DEF Followed
<1>2. /\ r \in Routes /\ Kept(r) /\ JobOf(r) = work[k] /\ JobOf(r)' = work'[k]
      /\ work[k] # Nil /\ work'[k].route = work[k].route /\ work'[k].seen = work[k].seen
      /\ work'[k] # Nil
  BY <1>1, WorkerJobs DEF Works, Followed, Busy, Idle, Stays
<1>3. /\ \A q \in Routes : Ruled(q)' = Ruled(q) /\ Held(q)' = Held(q)
      /\ UNCHANGED <<cache, born, gateway, queue>>
  BY <1>1, QuietRules DEF NoEvent
<1>4. /\ server[r] # Nil /\ server'[r] # Nil /\ SameSpec(server'[r], server[r])
      /\ \A q \in Routes \ {r} : server'[q] = server[q]
  BY <1>1, <1>2 DEF StatusWritten, Typed, TypeOK
<1>5. SameSpec(work'[k].copy, work[k].copy)
  BY <1>1 DEF SameSpec
<1>6. \A l \in Held(r) : Removes(work[k], l) => Removes(work'[k], l)
  BY <1>1, <1>5 DEF Removes, Keeps, Stays, MatchedNow, SameSpec
<1>7. Ahead(work'[k]) \subseteq Ahead(work[k]) /\ ~CleansUp(work'[k])
  BY <1>1 DEF Ahead, Programs, CleansUp, Keeps
<1>8. Kept(r)'
  BY <1>1, <1>2, <1>3, <1>4, <1>5, <1>6, <1>7, QuietKept DEF Keeps
<1>. QED
  BY <1>1, <1>2, <1>3, <1>4, <1>8, WorkerFollows DEF Step

LEMMA DoneFollows ==
  ASSUME Followed, NEW k \in Kinds, NEW r \in Routes, r = work[k].route,
         Deny(k) \/ Refuse(k) \/ SyncEndpoints(k)
  PROVE  Followed'
<1>1. /\ Typed /\ Busy(k) /\ Works(k, r) /\ Stays(k)
      /\ work[k].pc \in {"deny", "refuse", "sync"} /\ work'[k].pc = "parents"
      /\ work'[k].copy = work[k].copy /\ work'[k].todo = work[k].todo \ {work[k].at}
      /\ UNCHANGED server \/ StatusWritten(r)
      /\ UNCHANGED <<rules, slipped>> /\ NoEvent
  BY DoneParts DEF Followed
<1>2. /\ r \in Routes /\ Kept(r) /\ JobOf(r) = work[k] /\ JobOf(r)' = work'[k]
      /\ work[k] # Nil /\ work'[k].route = work[k].route /\ work'[k].seen = work[k].seen
      /\ work'[k] # Nil
  BY <1>1, WorkerJobs DEF Works, Followed, Busy, Idle, Stays
<1>3. /\ \A q \in Routes : Ruled(q)' = Ruled(q) /\ Held(q)' = Held(q)
      /\ UNCHANGED <<cache, born, gateway, queue>>
  BY <1>1, QuietRules DEF NoEvent
<1>4. /\ \/ server'[r] = server[r]
         \/ server[r] # Nil /\ server'[r] # Nil /\ SameSpec(server'[r], server[r])
      /\ \A q \in Routes \ {r} : server'[q] = server[q]
  BY <1>1, <1>2 DEF StatusWritten, Typed, TypeOK
<1>5. SameSpec(work'[k].copy, work[k].copy) /\ \A l \in Held(r) : ~Removes(work[k], l)
  BY <1>1 DEF SameSpec, Removes
<1>6. Ahead(work'[k]) \subseteq Ahead(work[k]) /\ ~CleansUp(work'[k])
  BY <1>1 DEF Ahead, Programs, CleansUp
<1>7. Kept(r)'
  BY <1>1, <1>2, <1>3, <1>4, <1>5, <1>6, QuietKept
<1>. QED
  BY <1>1, <1>2, <1>3, <1>4, <1>7, WorkerFollows DEF Step

LEMMA BackendsFollow ==
  ASSUME Followed, NEW k \in Kinds, NEW r \in Routes, r = work[k].route,
         ResolveBackends(k) \/ EnsureSet(k)
  PROVE  Followed'
<1>1. /\ Typed /\ Busy(k) /\ Works(k, r) /\ Stays(k)
      /\ work[k].pc \in {"backends", "ensure"}
      /\ work'[k].copy = work[k].copy /\ work'[k].at = work[k].at
      /\ work'[k].todo = work[k].todo
      /\ UNCHANGED <<server, rules, slipped>> /\ NoEvent
      /\ \/ work'[k].pc \in {"ensure", "commit"}
         \/ /\ work'[k].left = work[k].copy.recorded /\ work'[k].then = "refuse"
            /\ work'[k].pc = IF work'[k].left = {} THEN "refuse" ELSE "unrule"
  <2>1. CASE ResolveBackends(k)
    BY <2>1, ResolveBackendsParts DEF Followed
  <2>2. CASE EnsureSet(k)
    BY <2>2, EnsureSetParts DEF Followed
  <2>. QED
    BY <2>1, <2>2
<1>2. /\ r \in Routes /\ Kept(r) /\ JobOf(r) = work[k] /\ JobOf(r)' = work'[k]
      /\ work[k] # Nil /\ work'[k].route = work[k].route /\ work'[k].seen = work[k].seen
      /\ work'[k] # Nil
  BY <1>1, WorkerJobs DEF Works, Followed, Busy, Idle, Stays
<1>3. /\ \A q \in Routes : Ruled(q)' = Ruled(q) /\ Held(q)' = Held(q)
      /\ UNCHANGED <<cache, born, gateway, queue>>
  BY <1>1, QuietRules DEF NoEvent
<1>4. MatchedNow(work'[k]) = MatchedNow(work[k])
  BY <1>1, <1>2 DEF MatchedNow
<1>5. SameSpec(work'[k].copy, work[k].copy)
  BY <1>1 DEF SameSpec
<1>6. \A l \in Held(r) : Removes(work[k], l) => Removes(work'[k], l)
  BY <1>1, <1>4 DEF Removes
<1>7. /\ Ahead(work'[k]) \subseteq Ahead(work[k]) /\ ~CleansUp(work'[k])
      /\ ~(work'[k].pc = "unrule" /\ work'[k].then = "drop")
      /\ work'[k].pc \notin {"drop", "status", "record"}
  BY <1>1 DEF Ahead, Programs, CleansUp
<1>8. Kept(r)'
  BY <1>1, <1>2, <1>3, <1>5, <1>6, <1>7, QuietKept
<1>. QED
  BY <1>1, <1>2, <1>3, <1>8, WorkerFollows DEF Step

LEMMA SetsFollow ==
  ASSUME Followed, NEW k \in Kinds, NEW r \in Routes, r = work[k].route,
         DropStaleSets(k) \/ CheckSet(k) \/ DeleteSet(k)
  PROVE  Followed'
<1>1. /\ Typed /\ Busy(k) /\ Works(k, r) /\ Stays(k) /\ Keeps(k)
      /\ work'[k].copy = work[k].copy
      /\ \/ work[k].pc = "drop" /\ work'[k].pc = "status"
         \/ work[k].pc \in {"clear", "delete"} /\ work'[k].pc \in {"delete", "release"}
      /\ UNCHANGED <<server, rules, slipped>> /\ NoEvent
  BY SetsParts DEF Followed
<1>2. /\ r \in Routes /\ Kept(r) /\ JobOf(r) = work[k] /\ JobOf(r)' = work'[k]
      /\ work[k] # Nil /\ work'[k].route = work[k].route /\ work'[k].seen = work[k].seen
      /\ work'[k] # Nil
  BY <1>1, WorkerJobs DEF Works, Followed, Busy, Idle, Stays
<1>3. /\ \A q \in Routes : Ruled(q)' = Ruled(q) /\ Held(q)' = Held(q)
      /\ UNCHANGED <<cache, born, gateway, queue>>
  BY <1>1, QuietRules DEF NoEvent
<1>4. SameSpec(work'[k].copy, work[k].copy) /\ \A l \in Held(r) : ~Removes(work[k], l)
  BY <1>1 DEF SameSpec, Removes
<1>5. Ahead(work'[k]) \subseteq Ahead(work[k])
  BY <1>1 DEF Ahead, Programs, Keeps
<1>6. ASSUME CleansUp(work'[k]), server'[r] = work'[k].copy, NEW l \in Held(r)
      PROVE  FALSE
  <2>1. CleansUp(work[k]) /\ server[r] = work[k].copy /\ work[k].pc # "unrule"
    BY <1>1, <1>6 DEF CleansUp
  <2>. QED
    BY <1>2, <1>6, <2>1 DEF Kept, CleanedUp
<1>7. /\ work'[k].pc # "unrule" /\ work'[k].at = work[k].at
      /\ work'[k].pc \in {"drop", "status", "record"} => work[k].pc = "drop"
  BY <1>1 DEF Keeps
<1>8. Kept(r)'
  BY <1>1, <1>2, <1>3, <1>4, <1>5, <1>6, <1>7, QuietKept
<1>. QED
  BY <1>1, <1>2, <1>3, <1>8, WorkerFollows DEF Step

LEMMA FailFollows ==
  ASSUME Followed, NEW k \in Kinds, NEW r \in Routes, r = work[k].route,
         Fail(k)
  PROVE  Followed'
<1>1. /\ Typed /\ Busy(k) /\ Works(k, r) /\ work'[k] = Nil /\ queue' = queue \cup {r}
      /\ UNCHANGED <<server, rules, sets, lost, slipped>>
      /\ UNCHANGED <<cache, born, gateway, services, edits, crashes>>
  BY FailParts DEF Followed
<1>2. /\ r \in Routes /\ Kept(r) /\ JobOf(r) = work[k] /\ JobOf(r)' = work'[k]
      /\ work[k] # Nil
  BY <1>1, WorkerJobs DEF Works, Followed, Busy, Idle
<1>3. \A q \in Routes : Ruled(q)' = Ruled(q) /\ Held(q)' = Held(q)
  BY <1>1, QuietRules
<1>4. Kept(r)'
  BY <1>1, <1>2, <1>3, QuietKept
<1>. QED
  BY <1>1, <1>2, <1>3, <1>4, WorkerFollows

\* A route is at home at the listeners of its parents that take it now.
LEMMA HomeSays ==
  ASSUME NEW r \in Routes, NEW p \in server[r].on
  PROVE  Matched(r, gateway, p) \subseteq Home(r)
BY DEF Matched, Matching, Allowed, Home

\* The rules and the history of one route change at one listener.
LEMMA RulesElsewhere ==
  ASSUME Typed, NEW r \in Routes, NEW l \in Listeners, NEW to,
         rules' = [rules EXCEPT ![l][r] = to],
         slipped' \in {slipped, slipped \cup {<<r, l>>}, slipped \ {<<r, l>>}}
  PROVE  /\ \A q \in Routes \ {r} : Ruled(q)' = Ruled(q) /\ Held(q)' = Held(q)
         /\ Ruled(r)' \ {l} = Ruled(r) \ {l} /\ Held(r)' \ {l} = Held(r) \ {l}
         /\ l \in Ruled(r)' <=> to # Nil
         /\ l \in Held(r)' <=> to # Nil /\ <<r, l>> \notin slipped'
<1>1. \A m \in Listeners, q \in Routes :
        rules'[m][q] = IF m = l /\ q = r THEN to ELSE rules[m][q]
  BY DEF Typed, TypeOK
<1>2. \A m \in Listeners, q \in Routes :
        m # l \/ q # r => (<<q, m>> \in slipped') = (<<q, m>> \in slipped)
  OBVIOUS
<1>. QED
  BY <1>1, <1>2 DEF Ruled, Held

LEMMA CommitRulesFollows ==
  ASSUME Followed, NEW k \in Kinds, NEW l \in Listeners, NEW r \in Routes, r = work[k].route,
         CommitRules(k, l)
  PROVE  Followed'
<1>1. /\ Typed /\ Busy(k) /\ Works(k, r) /\ Stays(k)
      /\ work[k].pc = "commit" /\ l \in work[k].left
      /\ work'[k].copy = work[k].copy /\ work'[k].at = work[k].at
      /\ work'[k].todo = work[k].todo
      /\ \/ work'[k].pc = "commit" /\ work'[k].left = work[k].left \ {l}
         \/ /\ work'[k].left = StaleListeners(work[k]) /\ work'[k].then = "drop"
            /\ work'[k].pc = IF work'[k].left = {} THEN "drop" ELSE "unrule"
      /\ UNCHANGED server /\ NoEvent
  BY CommitRulesParts DEF Followed
<1>2. /\ rules' = [rules EXCEPT ![l][r] = work[k].copy.to]
      /\ slipped' = IF Outdated(work[k], l) /\ (server[r] # Nil => l \notin server[r].recorded)
                    THEN slipped \cup {<<r, l>>} ELSE slipped
  BY CommitRulesParts DEF Followed
<1>3. /\ r \in Routes /\ Kept(r) /\ JobOf(r) = work[k] /\ JobOf(r)' = work'[k]
      /\ work[k] # Nil /\ work'[k].route = r /\ work'[k].seen = work[k].seen
      /\ work'[k] # Nil
  BY <1>1, WorkerJobs DEF Works, Followed, Busy, Idle, Stays
<1>4. /\ \A q \in Routes \ {r} : Ruled(q)' = Ruled(q) /\ Held(q)' = Held(q)
      /\ Ruled(r)' \ {l} = Ruled(r) \ {l} /\ Held(r)' \ {l} = Held(r) \ {l}
      /\ l \in Held(r)' => <<r, l>> \notin slipped'
  <2>1. slipped' \in {slipped, slipped \cup {<<r, l>>}, slipped \ {<<r, l>>}}
    BY <1>2
  <2>. QED
    BY <1>1, <1>2, <2>1, RulesElsewhere
<1>5. UNCHANGED <<cache, born, gateway, queue>>
  BY <1>1 DEF NoEvent
<1>6. /\ Home(r)' = Home(r) /\ Live(r)' = Live(r) /\ HasListener(r)' = HasListener(r)
      /\ Notified(r)' = Notified(r) /\ Eventful(cache[r], server[r])' = Eventful(cache[r], server[r])
  BY <1>1, <1>5 DEF Home, Live, HasListener, Notified, Eventful
<1>7. MatchedNow(work'[k]) = MatchedNow(work[k]) /\ StaleListeners(work'[k]) = StaleListeners(work[k])
  BY <1>1, <1>3 DEF MatchedNow, StaleListeners
<1>8. Ages(r)'
  BY <1>1, <1>3, <1>5, <1>6 DEF Kept, Ages
<1>9. RuleKnown(r)'
  <2>1. ASSUME NEW m \in Held(r)'
        PROVE  /\ server[r] # Nil
               /\ m \in server[r].recorded \/ (~server[r].deleting /\ m \in Home(r))
    <3>1. CASE m \in Held(r)
      BY <1>3, <3>1 DEF Kept, RuleKnown
    <3>2. CASE m = l
      <4>1. ~Outdated(work[k], l) \/ (server[r] # Nil /\ l \in server[r].recorded)
        BY <1>2, <1>4, <2>1, <3>2
      <4>2. ~Outdated(work[k], l) =>
              /\ server[r] # Nil /\ ~server[r].deleting /\ work[k].at \in server[r].on
              /\ l \in Matched(r, gateway, work[k].at)
        BY DEF Outdated
      <4>. QED
        BY <3>2, <4>1, <4>2, HomeSays
    <3>. QED
      BY <1>4, <3>1, <3>2
  <2>. QED
    BY <1>1, <1>6, <2>1 DEF RuleKnown
<1>10. CleanedUp(r)'
  <2>1. ~CleansUp(work'[k])
    BY <1>1 DEF CleansUp
  <2>. QED
    BY <1>3, <2>1 DEF CleanedUp, CleansUp
<1>11. StaleGone(r)'
  <2>1. /\ work'[k].pc = "unrule" => work'[k].left = StaleListeners(work[k])
        /\ work'[k].pc = "drop" => StaleListeners(work[k]) = {}
        /\ work'[k].pc \notin {"status", "record"}
    BY <1>1
  <2>2. /\ work'[k].pc = "unrule" /\ work'[k].then = "drop" =>
             StaleListeners(work'[k]) \cap Ruled(r)' \subseteq work'[k].left
        /\ work'[k].pc \in {"drop", "status", "record"} =>
             StaleListeners(work'[k]) \cap Ruled(r)' = {}
    BY <1>7, <2>1
  <2>. QED
    BY <1>3, <2>2 DEF StaleGone, StaleListeners, MatchedNow
<1>12. Programs(work[k]) /\ JobSound(work[k])
  BY <1>1 DEF Programs, Works
<1>13. OutdatedQueued(r)'
  <2>1. Ahead(work'[k]) \subseteq Ahead(work[k])
    BY <1>1, <1>12 DEF Ahead
  <2>2. Live(r) /\ ~Notified(r) =>
          \A p \in Ahead(work'[k]) : Matched(r, work'[k].seen, p) \subseteq Home(r)
    BY <1>3, <2>1 DEF Kept, OutdatedQueued
  <2>. QED
    BY <1>3, <1>6, <2>2 DEF OutdatedQueued, Ahead, Programs
<1>14. ForeignNoticed(r)'
  <2>1. ASSUME Live(r), HasListener(r), NEW m \in Held(r)', m \notin Home(r),
               r \notin queue, ~Eventful(cache[r], server[r])
        PROVE  Removes(work'[k], m)
    <3>1. m # l
      <4>1. ~Notified(r)
        BY <2>1 DEF Notified, Eventful
      <4>2. MatchedNow(work[k]) \subseteq Home(r)
        BY <1>3, <1>12, <2>1, <4>1 DEF Kept, OutdatedQueued, Ahead, MatchedNow
      <4>. QED
        BY <1>1, <1>12, <2>1, <4>2 DEF JobSound
    <3>2. Removes(work[k], m)
      BY <1>3, <1>4, <2>1, <3>1 DEF Kept, ForeignNoticed
    <3>3. m \in work[k].copy.recorded /\ m \notin MatchedNow(work[k])
      BY <1>1, <3>2 DEF Removes
    <3>. QED
      BY <1>1, <1>7, <3>3 DEF Removes, StaleListeners
  <2>. QED
    BY <1>3, <1>5, <1>6, <2>1 DEF ForeignNoticed, Removes, MatchedNow
<1>15. Kept(r)'
  BY <1>8, <1>9, <1>10, <1>11, <1>13, <1>14 DEF Kept
<1>16. Step(k)
  BY DEF Step
<1>. QED
  BY <1>1, <1>3, <1>4, <1>5, <1>15, <1>16, WorkerFollows

LEMMA RemoveRulesFollows ==
  ASSUME Followed, NEW k \in Kinds, NEW l \in Listeners, NEW r \in Routes, r = work[k].route,
         RemoveRules(k, l)
  PROVE  Followed'
<1>1. /\ Typed /\ Busy(k) /\ Works(k, r) /\ Stays(k)
      /\ work[k].pc = "unrule" /\ l \in work[k].left
      /\ work'[k].copy = work[k].copy /\ work'[k].at = work[k].at
      /\ work'[k].todo = work[k].todo
      /\ work'[k].left = work[k].left \ {l} /\ work'[k].then = work[k].then
      /\ UNCHANGED server /\ NoEvent
  BY RemoveRulesParts DEF Followed
<1>2. /\ work'[k].left = {} => work'[k].pc = work[k].then
      /\ work'[k].left # {} => work'[k].pc = "unrule"
      /\ work[k].then \in {"drop", "deny", "refuse", "clear"}
  BY <1>1, RemoveRulesParts DEF Works, Job
<1>3. rules' = [rules EXCEPT ![l][r] = Nil] /\ slipped' = slipped \ {<<r, l>>}
  BY <1>1, RemoveRulesParts
<1>4. /\ r \in Routes /\ Kept(r) /\ JobOf(r) = work[k] /\ JobOf(r)' = work'[k]
      /\ work[k] # Nil /\ work'[k].route = r /\ work'[k].seen = work[k].seen
      /\ work'[k] # Nil
  BY <1>1, WorkerJobs DEF Works, Followed, Busy, Idle, Stays
<1>5. /\ \A q \in Routes \ {r} : Ruled(q)' = Ruled(q) /\ Held(q)' = Held(q)
      /\ Ruled(r)' = Ruled(r) \ {l} /\ Held(r)' = Held(r) \ {l}
  <2>1. slipped' \in {slipped, slipped \cup {<<r, l>>}, slipped \ {<<r, l>>}}
    BY <1>3
  <2>2. /\ \A q \in Routes \ {r} : Ruled(q)' = Ruled(q) /\ Held(q)' = Held(q)
        /\ Ruled(r)' \ {l} = Ruled(r) \ {l} /\ Held(r)' \ {l} = Held(r) \ {l}
        /\ l \notin Ruled(r)' /\ l \notin Held(r)'
    BY <1>1, <1>3, <2>1, RulesElsewhere
  <2>. QED
    BY <2>2
<1>6. UNCHANGED <<cache, born, gateway, queue>>
  BY <1>1 DEF NoEvent
<1>7. /\ Home(r)' = Home(r) /\ Live(r)' = Live(r) /\ HasListener(r)' = HasListener(r)
      /\ Notified(r)' = Notified(r) /\ Eventful(cache[r], server[r])' = Eventful(cache[r], server[r])
  BY <1>1, <1>6 DEF Home, Live, HasListener, Notified, Eventful
<1>8. MatchedNow(work'[k]) = MatchedNow(work[k]) /\ StaleListeners(work'[k]) = StaleListeners(work[k])
  BY <1>1, <1>4 DEF MatchedNow, StaleListeners
<1>9. Ages(r)' /\ RuleKnown(r)'
  BY <1>1, <1>4, <1>5, <1>6, <1>7 DEF Kept, Ages, RuleKnown
<1>10. CleanedUp(r)'
  <2>1. ASSUME CleansUp(work'[k]), server[r] = work[k].copy, NEW m \in Held(r)'
        PROVE  work'[k].pc = "unrule" /\ m \in work'[k].left
    <3>1. CleansUp(work[k])
      BY <1>1, <1>2, <2>1 DEF CleansUp
    <3>2. m \in work[k].left /\ m # l
      BY <1>4, <1>5, <2>1, <3>1 DEF Kept, CleanedUp
    <3>. QED
      BY <1>1, <1>2, <3>2
  <2>. QED
    BY <1>1, <1>4, <2>1 DEF CleanedUp, CleansUp
<1>11. StaleGone(r)'
  <2>1. /\ work'[k].pc = "unrule" /\ work'[k].then = "drop" =>
             StaleListeners(work'[k]) \cap Ruled(r)' \subseteq work'[k].left
        /\ work'[k].pc \in {"drop", "status", "record"} =>
             StaleListeners(work'[k]) \cap Ruled(r)' = {}
    <3>1. work[k].then = "drop" => StaleListeners(work[k]) \cap Ruled(r) \subseteq work[k].left
      BY <1>1, <1>4 DEF Kept, StaleGone
    <3>2. work'[k].pc \in {"drop", "status", "record"} =>
            work[k].then = "drop" /\ work[k].left \ {l} = {}
      BY <1>1, <1>2
    <3>. QED
      BY <1>1, <1>5, <1>8, <3>1, <3>2
  <2>. QED
    BY <1>4, <2>1 DEF StaleGone, StaleListeners, MatchedNow
<1>12. OutdatedQueued(r)'
  <2>1. Ahead(work'[k]) \subseteq Ahead(work[k])
    BY <1>1, <1>2 DEF Ahead, Programs
  <2>2. Live(r) /\ ~Notified(r) =>
          \A p \in Ahead(work'[k]) : Matched(r, work'[k].seen, p) \subseteq Home(r)
    BY <1>4, <2>1 DEF Kept, OutdatedQueued
  <2>. QED
    BY <1>4, <1>7, <2>2 DEF OutdatedQueued, Ahead, Programs
<1>13. ForeignNoticed(r)'
  <2>1. ASSUME Live(r), HasListener(r), NEW m \in Held(r)', m \notin Home(r),
               r \notin queue, ~Eventful(cache[r], server[r])
        PROVE  Removes(work'[k], m)
    <3>1. Removes(work[k], m) /\ m # l
      BY <1>4, <1>5, <2>1 DEF Kept, ForeignNoticed
    <3>2. m \in work[k].copy.recorded /\ m \in work[k].left
      BY <1>1, <3>1 DEF Removes
    <3>. QED
      BY <1>1, <1>2, <3>1, <3>2 DEF Removes
  <2>. QED
    BY <1>4, <1>6, <1>7, <2>1 DEF ForeignNoticed, Removes, MatchedNow
<1>14. Kept(r)'
  BY <1>9, <1>10, <1>11, <1>12, <1>13 DEF Kept
<1>15. Step(k)
  BY DEF Step
<1>. QED
  BY <1>1, <1>4, <1>5, <1>6, <1>14, <1>15, WorkerFollows

LEMMA RecordFollows ==
  ASSUME Followed, NEW k \in Kinds, NEW r \in Routes, r = work[k].route, Record(k)
  PROVE  Followed'
<1>1. /\ Typed /\ Busy(k) /\ Works(k, r) /\ Stays(k) /\ Keeps(k)
      /\ work[k].pc = "record" /\ work'[k].pc = "sync" /\ work'[k].copy = work[k].copy
      /\ server[r] \in Route /\ server'[r] \in Route
      /\ server' = [server EXCEPT ![r] = server'[r]]
      /\ server'[r].gen = server[r].gen /\ server'[r].on = server[r].on
      /\ server'[r].deleting = server[r].deleting
      /\ server'[r].recorded = work[k].copy.recorded \cup MatchedNow(work[k])
      /\ slipped' = (slipped \ ({r} \X server'[r].recorded))
                      \cup ({r} \X (Ruled(r) \ server'[r].recorded))
      /\ UNCHANGED rules /\ NoEvent
  BY RecordParts DEF Followed
<1>2. /\ r \in Routes /\ Kept(r) /\ JobOf(r) = work[k] /\ JobOf(r)' = work'[k]
      /\ work[k] # Nil /\ work'[k].route = r /\ work'[k].seen = work[k].seen
      /\ work'[k] # Nil
  BY <1>1, WorkerJobs DEF Works, Followed, Busy, Idle, Stays
<1>3. \A q \in Routes : Ruled(q)' = Ruled(q)
  BY <1>1 DEF Ruled
<1>4. \A q \in Routes \ {r} : Held(q)' = Held(q)
  <2>1. \A q \in Routes \ {r}, l \in Listeners : (<<q, l>> \in slipped') = (<<q, l>> \in slipped)
    BY <1>1
  <2>. QED
    BY <1>3, <2>1 DEF Held, Ruled
<1>5. Held(r)' = Ruled(r) \cap server'[r].recorded
  <2>1. \A l \in Ruled(r) : <<r, l>> \in slipped' <=> l \notin server'[r].recorded
    BY <1>1
  <2>. QED
    BY <1>3, <2>1 DEF Held
<1>6. UNCHANGED <<cache, born, gateway, queue>> /\ \A q \in Routes \ {r} : server'[q] = server[q]
  BY <1>1 DEF NoEvent, Typed, TypeOK
<1>7. server[r] # Nil /\ server'[r] # Nil
  BY <1>1
<1>8. /\ Home(r)' = Home(r) /\ Live(r)' = Live(r) /\ HasListener(r)' = HasListener(r)
      /\ Notified(r)' = Notified(r)
  BY <1>1, <1>6, <1>7 DEF Home, Live, HasListener, Notified
<1>9. Ages(r)'
  BY <1>1, <1>2, <1>6, <1>7, <1>8 DEF Kept, Ages
<1>10. RuleKnown(r)'
  BY <1>5, <1>7 DEF RuleKnown
<1>11. CleanedUp(r)' /\ StaleGone(r)'
  BY <1>1, <1>2 DEF CleanedUp, CleansUp, StaleGone
<1>12. OutdatedQueued(r)'
  <2>1. Ahead(work'[k]) \subseteq Ahead(work[k])
    BY <1>1 DEF Ahead, Programs, Keeps
  <2>2. Live(r) /\ ~Notified(r) =>
          \A p \in Ahead(work'[k]) : Matched(r, work'[k].seen, p) \subseteq Home(r)
    BY <1>2, <2>1 DEF Kept, OutdatedQueued
  <2>. QED
    BY <1>2, <1>8, <2>2 DEF OutdatedQueued, Ahead, Programs
<1>13. ForeignNoticed(r)'
  <2>1. ASSUME Live(r), NEW l \in Held(r)', l \notin Home(r)
        PROVE  Notified(r)
    <3>1. l \in MatchedNow(work[k])
      BY <1>1, <1>2, <1>5, <2>1 DEF Kept, StaleGone, StaleListeners
    <3>2. work[k].at \in Ahead(work[k])
      BY <1>1 DEF Ahead, Programs
    <3>. QED
      BY <1>1, <1>2, <2>1, <3>1, <3>2 DEF Kept, OutdatedQueued, MatchedNow, Works
  <2>2. Notified(r) => r \in queue' \/ Eventful(cache[r], server[r])'
    BY <1>1, <1>6 DEF Notified, Eventful
  <2>. QED
    BY <1>8, <2>1, <2>2 DEF ForeignNoticed
<1>14. Kept(r)'
  BY <1>9, <1>10, <1>11, <1>12, <1>13 DEF Kept
<1>15. Step(k)
  BY DEF Step
<1>. QED
  BY <1>1, <1>2, <1>3, <1>4, <1>6, <1>14, <1>15, WorkerFollows

\* Nothing is left of a route that loses its finalizer.
LEMMA NothingHeld ==
  ASSUME Followed, NEW k \in Kinds, NEW r \in Routes, r = work[k].route, RemoveFinalizer(k)
  PROVE  Held(r) = {}
<1>1. /\ Typed /\ Busy(k) /\ Works(k, r) /\ Stays(k) /\ work[k].pc = "release"
      /\ server[r] = work[k].copy
  BY RemoveFinalizerParts DEF Followed
<1>2. Kept(r) /\ JobOf(r) = work[k] /\ work[k] # Nil
  BY <1>1, WorkerJobs DEF Works, Followed, Busy, Idle
<1>. QED
  BY <1>1, <1>2 DEF Kept, CleanedUp, CleansUp

LEMMA RemoveFinalizerFollows ==
  ASSUME Followed, NEW k \in Kinds, NEW r \in Routes, r = work[k].route, RemoveFinalizer(k)
  PROVE  Followed'
<1>1. /\ Typed /\ Busy(k) /\ Works(k, r) /\ Stays(k)
      /\ work[k].pc = "release" /\ work'[k].pc = "parents"
      /\ server[r] = work[k].copy /\ server' = [server EXCEPT ![r] = Nil]
      /\ UNCHANGED <<rules, sets, lost, slipped>> /\ NoEvent
  BY RemoveFinalizerParts DEF Followed
<1>2. /\ r \in Routes /\ Kept(r) /\ JobOf(r) = work[k] /\ JobOf(r)' = work'[k]
      /\ work[k] # Nil /\ work'[k] # Nil
  BY <1>1, WorkerJobs DEF Works, Followed, Busy, Idle, Stays
<1>3. /\ \A q \in Routes : Ruled(q)' = Ruled(q) /\ Held(q)' = Held(q)
      /\ UNCHANGED <<cache, born, gateway, queue>>
  BY <1>1, QuietRules DEF NoEvent
<1>4. server'[r] = Nil /\ \A q \in Routes \ {r} : server'[q] = server[q]
  BY <1>1 DEF Typed, TypeOK
<1>5. r \in born
  BY <1>2 DEF Kept, Ages
<1>6. Held(r)' = {}
  BY <1>3, NothingHeld
<1>7. ~Live(r)'
  BY <1>4 DEF Live
<1>8. Ages(r)' /\ RuleKnown(r)' /\ OutdatedQueued(r)' /\ ForeignNoticed(r)'
  BY <1>3, <1>4, <1>5, <1>6, <1>7 DEF Ages, RuleKnown, OutdatedQueued, ForeignNoticed
<1>9. CleanedUp(r)' /\ StaleGone(r)'
  BY <1>1, <1>2 DEF CleanedUp, CleansUp, StaleGone
<1>10. Kept(r)'
  BY <1>8, <1>9 DEF Kept
<1>11. Step(k)
  BY DEF Step
<1>. QED
  BY <1>1, <1>3, <1>4, <1>10, <1>11, WorkerFollows

LEMMA TakeFollows ==
  ASSUME Followed, NEW k \in Kinds, NEW r \in Routes, Take(k, r)
  PROVE  Followed'
<1>1. /\ ~Busy(k) /\ KindOf[r] = k /\ r \in queue /\ queue' = queue \ {r}
      /\ work' = [work EXCEPT ![k] = work'[k]]
      /\ UNCHANGED <<server, rules, sets, lost, slipped>>
      /\ UNCHANGED <<cache, born, gateway, services, edits, crashes>>
  BY TakeParts DEF Followed
<1>2. \/ /\ work'[k] = Nil
         /\ cache[r] = Nil
              \/ (~cache[r].deleting /\ \A p \in cache[r].on : Matching(gateway, p) = {})
      \/ /\ cache[r] \in Route /\ work'[k] \in Job
         /\ work'[k].route = r /\ work'[k].copy = cache[r] /\ work'[k].seen = gateway
         /\ work'[k].todo = {p \in cache[r].on : Matching(gateway, p) # {}}
         /\ \/ work'[k].pc = "parents" /\ work'[k].todo # {}
            \/ /\ cache[r].deleting /\ work'[k].todo = {}
               /\ work'[k].left = cache[r].recorded /\ work'[k].then = "clear"
               /\ work'[k].pc = IF work'[k].left = {} THEN "clear" ELSE "unrule"
  BY TakeParts DEF Followed
<1>3. /\ work \in [Kinds -> Job \cup {Nil}] /\ work[k] = Nil
      /\ \A j \in Kinds \ {k} : work'[j] = work[j]
  BY <1>1 DEF Followed, Typed, TypeOK, Idle, Busy
<1>4. /\ JobOf(r)' = work'[k]
      /\ \A q \in Routes \ {r} : JobOf(q)' = JobOf(q)
  <2>1. JobOf(r)' = work'[k]
    BY <1>1, <1>2 DEF JobOf, Busy, Idle
  <2>2. ASSUME NEW q \in Routes \ {r} PROVE JobOf(q)' = JobOf(q)
    <3>1. CASE KindOf[q] = k
      BY <1>2, <1>3, <3>1 DEF JobOf, Busy, Idle
    <3>2. CASE KindOf[q] # k
      <4>1. work'[KindOf[q]] = work[KindOf[q]]
        BY <1>3, <3>2
      <4>. QED
        BY <4>1 DEF JobOf, Busy, Idle
    <3>. QED
      BY <3>1, <3>2
  <2>. QED
    BY <2>1, <2>2
<1>5. /\ Kept(r) /\ \A q \in Routes : Ruled(q)' = Ruled(q) /\ Held(q)' = Held(q)
  BY <1>1, QuietRules DEF Followed
<1>6. /\ Home(r)' = Home(r) /\ Live(r)' = Live(r) /\ HasListener(r)' = HasListener(r)
      /\ Eventful(cache[r], server[r])' = Eventful(cache[r], server[r])
  BY <1>1 DEF Home, Live, HasListener, Eventful
<1>7. Ages(r)'
  BY <1>1, <1>2, <1>4, <1>5, <1>6 DEF Kept, Ages
<1>8. RuleKnown(r)'
  BY <1>1, <1>5, <1>6 DEF Kept, RuleKnown
<1>9. CleanedUp(r)'
  <2>1. ASSUME work'[k] # Nil, CleansUp(work'[k]), server[r] = work'[k].copy, NEW l \in Held(r)
        PROVE  work'[k].pc = "unrule" /\ l \in work'[k].left
    <3>1. /\ cache[r].deleting /\ work'[k].left = cache[r].recorded
          /\ server[r] = cache[r] /\ work'[k].pc = IF work'[k].left = {} THEN "clear" ELSE "unrule"
      BY <1>2, <2>1 DEF CleansUp
    <3>2. l \in cache[r].recorded
      BY <1>5, <2>1, <3>1 DEF Kept, RuleKnown
    <3>. QED
      BY <3>1, <3>2
  <2>. QED
    BY <1>1, <1>4, <1>5, <2>1 DEF CleanedUp, CleansUp
<1>10. StaleGone(r)'
  BY <1>2, <1>4 DEF StaleGone
\* The parents in the cache are the current ones.
<1>11. ASSUME Live(r), cache[r] # Nil, cache[r].gen = server[r].gen
       PROVE  cache[r].on = server[r].on /\ ~cache[r].deleting
  BY <1>5, <1>11 DEF Kept, Ages, Live
<1>12. OutdatedQueued(r)'
  <2>1. ASSUME Live(r), work'[k] # Nil, cache[r].gen = server[r].gen,
               NEW p \in Ahead(work'[k])
        PROVE  Matched(r, work'[k].seen, p) \subseteq Home(r)
    <3>1. p \in server[r].on
      BY <1>2, <1>11, <2>1 DEF Ahead, Programs
    <3>. QED
      BY <1>2, <2>1, <3>1, HomeSays
  <2>2. Live(r) /\ work'[k] # Nil /\ ~Notified(r)' => cache[r].gen = server[r].gen
    BY <1>1 DEF Notified
  <2>. QED
    BY <1>4, <1>6, <2>1, <2>2 DEF OutdatedQueued, Ahead, Programs
<1>13. ForeignNoticed(r)'
  <2>1. ASSUME Live(r), HasListener(r), NEW l \in Held(r), l \notin Home(r),
               ~Eventful(cache[r], server[r])
        PROVE  work'[k] # Nil /\ Removes(work'[k], l)
    <3>1. /\ cache[r] # Nil /\ cache[r].on = server[r].on /\ ~cache[r].deleting
          /\ cache[r].recorded = server[r].recorded
      BY <1>11, <2>1 DEF Eventful
    <3>2. ~\A p \in cache[r].on : Matching(gateway, p) = {}
      BY <2>1, <3>1 DEF HasListener, Matching
    <3>3. /\ work'[k] # Nil /\ work'[k].pc = "parents" /\ work'[k].todo # {}
          /\ work'[k].route = r /\ work'[k].copy = cache[r] /\ work'[k].seen = gateway
          /\ work'[k].todo \subseteq server[r].on
      BY <1>2, <3>1, <3>2
    <3>4. l \in server[r].recorded
      BY <1>5, <2>1 DEF Kept, RuleKnown
    <3>5. \A p \in work'[k].todo : l \notin Matched(r, gateway, p)
      BY <2>1, <3>3, HomeSays
    <3>. QED
      BY <3>1, <3>3, <3>4, <3>5 DEF Removes
  <2>. QED
    BY <1>4, <1>5, <1>6, <2>1 DEF ForeignNoticed, Removes, MatchedNow
<1>14. Kept(r)'
  BY <1>7, <1>8, <1>9, <1>10, <1>12, <1>13 DEF Kept
<1>15. \A q \in Routes \ {r} : Apart(q)
  BY <1>1, <1>4, <1>5 DEF Apart
<1>16. \A q \in Routes \ {r} : Kept(q)'
  BY <1>15, ApartKept DEF Followed
<1>17. Typed'
  <2>1. Step(k)
    BY DEF Step
  <2>. QED
    BY <2>1, StepTyped DEF Followed
<1>. QED
  BY <1>14, <1>16, <1>17 DEF Followed

\* A step that leaves the jobs alone.
LEMMA SameJobs ==
  ASSUME UNCHANGED work, NEW q \in Routes
  PROVE  JobOf(q)' = JobOf(q)
BY DEF JobOf, Busy, Idle

LEMMA CreateFollows ==
  ASSUME Followed, NEW r \in Routes, Create(r), Typed'
  PROVE  Followed'
<1>1. /\ r \notin born /\ born' = born \cup {r}
      /\ server'[r] \in Route /\ server' = [server EXCEPT ![r] = server'[r]]
      /\ UNCHANGED <<rules, slipped, cache, gateway, queue, work>>
  BY CreateParts DEF Followed
<1>2. /\ Kept(r) /\ \A q \in Routes : /\ Ruled(q)' = Ruled(q) /\ Held(q)' = Held(q)
                                      /\ JobOf(q)' = JobOf(q)
  BY <1>1, QuietRules, SameJobs DEF Followed
<1>3. server[r] = Nil /\ cache[r] = Nil /\ JobOf(r) = Nil
  BY <1>1, <1>2 DEF Kept, Ages
<1>4. Held(r) = {}
  BY <1>2, <1>3 DEF Kept, RuleKnown
<1>5. Kept(r)'
  BY <1>1, <1>2, <1>3, <1>4
     DEF Kept, Ages, RuleKnown, CleanedUp, StaleGone, OutdatedQueued, ForeignNoticed
<1>6. \A q \in Routes \ {r} : Apart(q)
  BY <1>1, <1>2 DEF Apart, Followed, Typed, TypeOK
<1>. QED
  BY <1>5, <1>6, ApartKept DEF Followed

\* What a user's change leaves on record.
LEMMA UnrecordedSays ==
  ASSUME UNCHANGED rules, NEW r \in Routes, slipped' = slipped \cup Unrecorded(r)
  PROVE  /\ Held(r)' \subseteq Held(r)
         /\ \A l \in Held(r)' : server[r] # Nil /\ l \in server[r].recorded
         /\ \A q \in Routes \ {r} : Held(q)' = Held(q)
<1>1. \A q \in Routes : Ruled(q)' = Ruled(q)
  BY DEF Ruled
<1>2. \A l \in Ruled(r) : <<r, l>> \notin slipped' =>
        <<r, l>> \notin slipped /\ server[r] # Nil /\ l \in server[r].recorded
  BY DEF Unrecorded
<1>3. \A q \in Routes \ {r}, l \in Listeners : (<<q, l>> \in slipped') = (<<q, l>> \in slipped)
  BY DEF Unrecorded
<1>. QED
  BY <1>1, <1>2, <1>3 DEF Held, Ruled

LEMMA DeleteFollows ==
  ASSUME Followed, NEW r \in Routes, Delete(r), Typed'
  PROVE  Followed'
<1>1. /\ server[r] \in Route /\ ~server[r].deleting
      /\ server' = [server EXCEPT ![r] = server'[r]]
      /\ \/ server'[r] = Nil /\ ~Finalized(server[r])
         \/ /\ server'[r] \in Route
            /\ server'[r].deleting /\ server'[r].gen = server[r].gen + 1
            /\ server'[r].recorded = server[r].recorded
      /\ slipped' = slipped \cup Unrecorded(r)
      /\ UNCHANGED <<rules, cache, born, gateway, queue, work>>
  BY DeleteParts DEF Followed
<1>2. /\ Kept(r) /\ \A q \in Routes : JobOf(q)' = JobOf(q) /\ Ruled(q)' = Ruled(q)
  BY <1>1, SameJobs DEF Followed, Ruled
<1>3. /\ \A l \in Held(r)' : l \in server[r].recorded
      /\ \A q \in Routes \ {r} : Held(q)' = Held(q)
  BY <1>1, UnrecordedSays
<1>4. Live(r) /\ ~Live(r)'
  BY <1>1 DEF Live
<1>5. Ages(r)'
  <2>1. r \in born
    BY <1>1, <1>2 DEF Kept, Ages
  <2>2. cache[r] # Nil => cache[r] \in Route
    BY DEF Followed, Typed, TypeOK
  <2>3. server'[r] # Nil /\ cache[r] # Nil => cache[r].gen < server'[r].gen
    BY <1>1, <1>2, <2>2 DEF Kept, Ages, Route, Gens
  <2>4. server'[r] # Nil /\ cache[r] # Nil =>
          cache[r].gen <= server'[r].gen /\ cache[r].gen # server'[r].gen
    BY <1>1, <2>2, <2>3 DEF Route, Gens
  <2>. QED
    BY <1>1, <1>4, <2>1, <2>4 DEF Ages
<1>6. RuleKnown(r)'
  BY <1>1, <1>3 DEF RuleKnown, Finalized
<1>7. CleanedUp(r)'
  <2>1. JobOf(r) # Nil => ~JobOf(r).copy.deleting
    BY <1>2, <1>4 DEF Kept, Ages
  <2>2. ~(JobOf(r) # Nil /\ CleansUp(JobOf(r)) /\ server'[r] = JobOf(r).copy)
    <3>1. ASSUME JobOf(r) # Nil, CleansUp(JobOf(r)) PROVE JobOf(r).copy.deleting
      BY <3>1 DEF JobOf, Followed, Typed, JobSound
    <3>. QED
      BY <2>1, <3>1
  <2>. QED
    BY <1>2, <2>2 DEF CleanedUp, CleansUp
<1>8. StaleGone(r)'
  BY <1>2 DEF Kept, StaleGone, StaleListeners, MatchedNow
<1>9. OutdatedQueued(r)' /\ ForeignNoticed(r)'
  BY <1>4 DEF OutdatedQueued, ForeignNoticed
<1>10. Kept(r)'
  BY <1>5, <1>6, <1>7, <1>8, <1>9 DEF Kept
<1>11. \A q \in Routes \ {r} : Apart(q)
  BY <1>1, <1>2, <1>3 DEF Apart, Followed, Typed, TypeOK
<1>. QED
  BY <1>10, <1>11, ApartKept DEF Followed

LEMMA EditFollows ==
  ASSUME Followed, NEW r \in Routes, Typed',
         (\E s \in Services : Redirect(r, s)) \/ (\E on \in SUBSET Parents : Attach(r, on))
  PROVE  Followed'
<1>1. /\ server[r] \in Route /\ ~server[r].deleting /\ server'[r] \in Route
      /\ server' = [server EXCEPT ![r] = server'[r]]
      /\ ~server'[r].deleting /\ server'[r].gen = server[r].gen + 1
      /\ server'[r].recorded = server[r].recorded
      /\ \/ slipped' = slipped \cup Unrecorded(r)
         \/ server'[r].on = server[r].on /\ slipped' = slipped
      /\ UNCHANGED <<rules, cache, born, gateway, queue, work>>
  BY EditParts DEF Followed
<1>2. /\ Kept(r) /\ \A q \in Routes : JobOf(q)' = JobOf(q) /\ Ruled(q)' = Ruled(q)
  BY <1>1, SameJobs DEF Followed, Ruled
<1>3. /\ \/ \A l \in Held(r)' : l \in server[r].recorded
         \/ server'[r].on = server[r].on /\ Held(r)' = Held(r)
      /\ \A q \in Routes \ {r} : Held(q)' = Held(q)
  BY <1>1, UnrecordedSays, QuietRules
<1>4. Live(r) /\ Live(r)'
  BY <1>1 DEF Live
<1>5. cache[r] # Nil => cache[r].gen <= server'[r].gen /\ cache[r].gen # server'[r].gen
  <2>1. cache[r] # Nil => cache[r] \in Route
    BY DEF Followed, Typed, TypeOK
  <2>2. cache[r] # Nil => cache[r].gen <= server[r].gen
    BY <1>1, <1>2 DEF Kept, Ages
  <2>. QED
    BY <1>1, <2>1, <2>2 DEF Route, Gens
<1>6. Ages(r)'
  <2>1. r \in born
    BY <1>1, <1>2 DEF Kept, Ages
  <2>. QED
    BY <1>1, <1>2, <1>4, <1>5, <2>1 DEF Kept, Ages
<1>7. RuleKnown(r)'
  <2>1. ASSUME NEW l \in Held(r)'
        PROVE  l \in server'[r].recorded \/ l \in Home(r)'
    <3>1. CASE server'[r].on = server[r].on /\ Held(r)' = Held(r)
      <4>1. Home(r)' = Home(r)
        BY <1>1, <3>1 DEF Home
      <4>. QED
        BY <1>1, <1>2, <2>1, <3>1, <4>1 DEF Kept, RuleKnown
    <3>. QED
      BY <1>1, <1>3, <2>1, <3>1
  <2>. QED
    BY <1>1, <2>1 DEF RuleKnown
<1>8. CleanedUp(r)'
  <2>1. JobOf(r) # Nil => ~JobOf(r).copy.deleting
    BY <1>2, <1>4 DEF Kept, Ages
  <2>2. ~(JobOf(r) # Nil /\ CleansUp(JobOf(r)))
    <3>1. ASSUME JobOf(r) # Nil, CleansUp(JobOf(r)) PROVE JobOf(r).copy.deleting
      BY <3>1 DEF JobOf, Followed, Typed, JobSound
    <3>. QED
      BY <2>1, <3>1
  <2>. QED
    BY <1>2, <2>2 DEF CleanedUp, CleansUp
<1>9. StaleGone(r)'
  BY <1>2 DEF Kept, StaleGone, StaleListeners, MatchedNow
<1>10. OutdatedQueued(r)' /\ ForeignNoticed(r)'
  BY <1>1, <1>5 DEF OutdatedQueued, ForeignNoticed, Notified, Eventful
<1>11. Kept(r)'
  BY <1>6, <1>7, <1>8, <1>9, <1>10 DEF Kept
<1>12. \A q \in Routes \ {r} : Apart(q)
  BY <1>1, <1>2, <1>3 DEF Apart, Followed, Typed, TypeOK
<1>. QED
  BY <1>11, <1>12, ApartKept DEF Followed

LEMMA EditListenerFollows ==
  ASSUME Followed, Typed', NEW l \in Listeners, NEW st \in {"absent", "same", "all"},
         EditListener(l, st)
  PROVE  Followed'
<1> SUFFICES ASSUME NEW r \in Routes PROVE Kept(r)'
  BY DEF Followed
<1>1. /\ gateway' = [gateway EXCEPT ![l] = st]
      /\ queue' = queue \cup {q \in Routes : /\ cache[q] # Nil /\ ~cache[q].deleting
                                             /\ \E p \in cache[q].on : l \in ListenersOf[p]}
      /\ slipped' = slipped \cup UNION {Unrecorded(q) : q \in Routes}
      /\ UNCHANGED <<rules, server, cache, born, work>>
  BY DEF EditListener
<1>2. Kept(r) /\ JobOf(r)' = JobOf(r) /\ Ruled(r)' = Ruled(r)
  BY <1>1, SameJobs DEF Followed, Ruled
<1>3. /\ Held(r)' \subseteq Held(r)
      /\ \A m \in Held(r)' : server[r] # Nil /\ m \in server[r].recorded
  <2>1. Unrecorded(r) \subseteq slipped' /\ slipped \subseteq slipped'
    BY <1>1
  <2>. QED
    BY <1>2, <2>1 DEF Held, Unrecorded
<1>4. Live(r)' = Live(r)
  BY <1>1 DEF Live
\* A route that is not queued has none of its parents' listeners changed.
<1>5. ASSUME Live(r), cache[r] # Nil, cache[r].gen = server[r].gen, r \notin queue'
      PROVE  Home(r)' = Home(r) /\ HasListener(r)' = HasListener(r)
  <2>1. ~cache[r].deleting /\ cache[r].on = server[r].on
    BY <1>2, <1>5 DEF Kept, Ages, Live
  <2>2. \A p \in server[r].on : l \notin ListenersOf[p]
    BY <1>1, <1>5, <2>1
  <2>3. \A p \in server[r].on : \A m \in ListenersOf[p] : gateway'[m] = gateway[m]
    BY <1>1, <2>2 DEF Followed, Typed, TypeOK
  <2>. QED
    BY <1>1, <2>3 DEF Home, HasListener
<1>6. Ages(r)'
  BY <1>1, <1>2, <1>4 DEF Kept, Ages
<1>7. RuleKnown(r)'
  BY <1>1, <1>3 DEF RuleKnown
<1>8. CleanedUp(r)' /\ StaleGone(r)'
  BY <1>1, <1>2, <1>3
     DEF Kept, CleanedUp, CleansUp, StaleGone, StaleListeners, MatchedNow
<1>9. OutdatedQueued(r)'
  <2>1. ASSUME Live(r), JobOf(r) # Nil, ~Notified(r)', NEW p \in Ahead(JobOf(r))
        PROVE  Matched(r, JobOf(r).seen, p) \subseteq Home(r)'
    <3>1. /\ r \notin queue' /\ cache[r] # Nil /\ cache[r].gen = server[r].gen
          /\ ~Notified(r)
      BY <1>1, <2>1 DEF Notified
    <3>. QED
      BY <1>2, <1>5, <2>1, <3>1 DEF Kept, OutdatedQueued
  <2>. QED
    BY <1>2, <1>4, <2>1 DEF OutdatedQueued, Ahead, Programs
<1>10. ForeignNoticed(r)'
  <2>1. ASSUME Live(r), HasListener(r)', NEW m \in Held(r)', m \notin Home(r)',
               r \notin queue', ~Eventful(cache[r], server[r])
        PROVE  JobOf(r) # Nil /\ Removes(JobOf(r), m)
    <3>1. cache[r] # Nil /\ cache[r].gen = server[r].gen /\ r \notin queue
      BY <1>1, <2>1 DEF Eventful
    <3>. QED
      BY <1>2, <1>3, <1>5, <2>1, <3>1 DEF Kept, ForeignNoticed
  <2>. QED
    BY <1>1, <1>2, <1>4, <2>1 DEF ForeignNoticed, Removes, MatchedNow, Eventful
<1>. QED
  BY <1>6, <1>7, <1>8, <1>9, <1>10 DEF Kept

LEMMA ObserveFollows ==
  ASSUME Followed, Typed', NEW r \in Routes, Observe(r)
  PROVE  Followed'
<1>1. /\ cache' = [cache EXCEPT ![r] = server[r]]
      /\ queue \subseteq queue'
      /\ Eventful(cache[r], server[r]) => r \in queue'
      /\ UNCHANGED <<rules, slipped, server, born, gateway, work>>
  BY DEF Observe, NoOCI
<1>2. \A q \in Routes : /\ JobOf(q)' = JobOf(q)
                        /\ Ruled(q)' = Ruled(q) /\ Held(q)' = Held(q)
  BY <1>1, QuietRules, SameJobs
<1>3. Kept(r) /\ cache'[r] = server[r]
  BY <1>1 DEF Followed, Typed, TypeOK
<1>4. Home(r)' = Home(r) /\ Live(r)' = Live(r) /\ HasListener(r)' = HasListener(r)
  BY <1>1 DEF Home, Live, HasListener
<1>5. Ages(r)'
  <2>1. server[r] # Nil => server[r].gen \in Nat
    BY DEF Followed, Typed, TypeOK, Route, Gens
  <2>2. server[r] # Nil => server[r].gen <= server[r].gen
    BY <2>1
  <2>. QED
    BY <1>1, <1>2, <1>3, <1>4, <2>2 DEF Kept, Ages, Live
<1>6. RuleKnown(r)'
  BY <1>1, <1>2, <1>3, <1>4 DEF Kept, RuleKnown
<1>7. CleanedUp(r)' /\ StaleGone(r)'
  BY <1>1, <1>2, <1>3 DEF Kept, CleanedUp, CleansUp, StaleGone, StaleListeners, MatchedNow
<1>8. OutdatedQueued(r)'
  <2>1. Live(r) /\ ~Notified(r)' => ~Notified(r)
    BY <1>1 DEF Notified, Eventful
  <2>2. Live(r) /\ JobOf(r) # Nil /\ ~Notified(r)' =>
          \A p \in Ahead(JobOf(r)) : Matched(r, JobOf(r).seen, p) \subseteq Home(r)
    BY <1>3, <2>1 DEF Kept, OutdatedQueued
  <2>. QED
    BY <1>2, <1>4, <2>2 DEF OutdatedQueued, Ahead, Programs
<1>9. ForeignNoticed(r)'
  <2>1. ASSUME Live(r), HasListener(r), NEW m \in Held(r), m \notin Home(r), r \notin queue'
        PROVE  JobOf(r) # Nil /\ Removes(JobOf(r), m)
    BY <1>1, <1>3, <2>1 DEF Kept, ForeignNoticed
  <2>. QED
    BY <1>2, <1>4, <2>1 DEF ForeignNoticed, Removes, MatchedNow
<1>10. Kept(r)'
  BY <1>5, <1>6, <1>7, <1>8, <1>9 DEF Kept
<1>11. \A q \in Routes \ {r} : Apart(q)
  BY <1>1, <1>2 DEF Apart, Followed, Typed, TypeOK
<1>. QED
  BY <1>10, <1>11, ApartKept DEF Followed

\* Other services, a policy that the Gateway's controller removes, and stuttering.
LEMMA RestFollows ==
  ASSUME Followed, Typed',
         \/ \E s \in Services : EditService(s)
         \/ \E l \in Listeners : GatewayRemoves(l)
         \/ UNCHANGED vars
  PROVE  Followed'
<1> SUFFICES ASSUME NEW r \in Routes PROVE Apart(r)
  BY ApartKept DEF Followed
<1>1. /\ UNCHANGED <<server, cache, born, gateway, work>> /\ queue \subseteq queue'
  BY DEF EditService, GatewayRemoves, vars, NoOCI
<1>2. Held(r)' \subseteq Held(r) /\ Ruled(r)' \subseteq Ruled(r)
  <2>1. ASSUME NEW l \in Listeners, GatewayRemoves(l)
        PROVE  Held(r)' \subseteq Held(r) /\ Ruled(r)' \subseteq Ruled(r)
    <3>1. /\ rules' = [rules EXCEPT ![l] = [q \in Routes |-> Nil]]
          /\ slipped' = slipped \ (Routes \X {l})
      BY <2>1 DEF GatewayRemoves
    <3>2. \A m \in Listeners : rules'[m][r] = IF m = l THEN Nil ELSE rules[m][r]
      BY <3>1 DEF Followed, Typed, TypeOK
    <3>3. \A m \in Listeners \ {l} : (<<r, m>> \in slipped') = (<<r, m>> \in slipped)
      BY <3>1
    <3>. QED
      BY <3>2, <3>3 DEF Held, Ruled
  <2>2. CASE UNCHANGED <<rules, slipped>>
    BY <2>2, QuietRules
  <2>. QED
    BY <2>1, <2>2 DEF EditService, vars, NoOCI
<1>3. JobOf(r)' = JobOf(r)
  BY <1>1, SameJobs
<1>. QED
  BY <1>1, <1>2, <1>3 DEF Apart

LEMMA CrashFollows ==
  ASSUME Followed, Typed', Crash
  PROVE  Followed'
<1> SUFFICES ASSUME NEW r \in Routes PROVE Kept(r)'
  BY DEF Followed
<1>1. /\ work' = [k \in Kinds |-> Nil] /\ cache' = server
      /\ queue' = {q \in Routes : server[q] # Nil}
      /\ UNCHANGED <<server, born, gateway, rules, slipped>>
  BY DEF Crash, NoOCI, Idle
<1>2. Kept(r) /\ Ruled(r)' = Ruled(r) /\ Held(r)' = Held(r)
  BY <1>1, QuietRules DEF Followed
<1>3. JobOf(r)' = Nil
  BY <1>1 DEF JobOf, Busy, Idle
<1>4. Live(r)' = Live(r) /\ Home(r)' = Home(r)
  BY <1>1 DEF Live, Home
<1>5. server[r] # Nil => server[r].gen <= server[r].gen
  BY DEF Followed, Typed, TypeOK, Route, Gens
<1>6. Ages(r)' /\ RuleKnown(r)'
  BY <1>1, <1>2, <1>3, <1>4, <1>5 DEF Kept, Ages, RuleKnown, Live
<1>7. CleanedUp(r)' /\ StaleGone(r)' /\ OutdatedQueued(r)'
  BY <1>3 DEF CleanedUp, StaleGone, OutdatedQueued
<1>8. ForeignNoticed(r)'
  BY <1>1, <1>4 DEF ForeignNoticed, Live
<1>. QED
  BY <1>6, <1>7, <1>8 DEF Kept

LEMMA NextFollows == Followed /\ [Next]_vars => Followed'
<1> SUFFICES ASSUME Followed, [Next]_vars PROVE Followed'
  OBVIOUS
<1>1. Typed'
  BY NextTyped DEF Followed
<1>2. ASSUME NEW k \in Kinds, Step(k) \/ Fail(k) PROVE Followed'
  <2>1. ASSUME Busy(k) PROVE \E r \in Routes : r = work[k].route
    BY <2>1, BusySays DEF Followed
  <2>2. ASSUME NEW r \in Routes, r = work[k].route, Step(k) \/ Fail(k),
               ~\E q \in Routes : Take(k, q)
        PROVE  Followed'
    BY <2>2, NextParentFollows, StatusFollows, DoneFollows, BackendsFollow, SetsFollow,
       FailFollows, CommitRulesFollows, RemoveRulesFollows, RecordFollows,
       RemoveFinalizerFollows DEF Step
  <2>3. CASE \E r \in Routes : Take(k, r)
    BY <2>3, TakeFollows
  <2>4. CASE ~\E r \in Routes : Take(k, r)
    <3>1. Busy(k)
      BY <1>2, <2>4 DEF Step, Fail, At, CommitRules, RemoveRules, NextParent, SetPending,
         ResolveBackends, EnsureSet, DropStaleSets, SetStatus, Record, SyncEndpoints, Deny,
         Refuse, CheckSet, DeleteSet, RemoveFinalizer
    <3>. QED
      BY <1>2, <2>1, <2>2, <2>4, <3>1
  <2>. QED
    BY <2>3, <2>4
<1>3. CASE Users
  BY <1>1, <1>3, CreateFollows, DeleteFollows, EditFollows, EditListenerFollows, RestFollows
     DEF Users
<1>. QED
  BY <1>1, <1>2, <1>3, ObserveFollows, RestFollows, CrashFollows DEF Next

LEMMA InitFollows == Init => Followed
<1> SUFFICES ASSUME Init PROVE Followed
  OBVIOUS
<1>1. ASSUME NEW r \in Routes PROVE Kept(r)
  <2>1. server[r] = Nil /\ cache[r] = Nil /\ JobOf(r) = Nil /\ Held(r) = {}
    BY DEF Init, JobOf, Busy, Idle, Held, Ruled
  <2>. QED
    BY <2>1 DEF Kept, Ages, RuleKnown, CleanedUp, StaleGone, OutdatedQueued, ForeignNoticed, Live
<1>. QED
  BY <1>1, InitTyped DEF Followed

LEMMA AlwaysFollowed == Spec => []Followed
BY InitFollows, NextFollows, PTL DEF Spec

\* When everything has settled, a live route has no rules at a listener of the Gateway that
\* does not take it.
THEOREM NoForeignRulesHolds == Spec => []NoForeignRules
<1>1. Followed => NoForeignRules
  <2> SUFFICES ASSUME Followed, Settled,
                      NEW r \in Routes, server[r] # Nil, ~server[r].deleting,
                      NEW l \in Listeners, l \notin Home(r), HasListener(r),
                      rules[l][r] # Nil, <<r, l>> \notin slipped
               PROVE  FALSE
    BY DEF NoForeignRules, HasListener
  <2>1. l \in Held(r) /\ Live(r) /\ Kept(r)
    BY DEF Held, Ruled, Live, Followed
  <2>2. r \notin queue /\ ~Eventful(cache[r], server[r]) /\ JobOf(r) = Nil
    BY DEF Settled, Eventful, JobOf
  <2>. QED
    BY <2>1, <2>2 DEF Kept, ForeignNoticed
<1>. QED
  BY <1>1, AlwaysFollowed, PTL

\* Only the removal of the finalizer makes a recorded route go away.
LEMMA OnlyRelease ==
  ASSUME Typed, [Next]_vars, NEW r \in Routes,
         server[r] # Nil, Finalized(server[r]), server'[r] = Nil
  PROVE  \E k \in Kinds : RemoveFinalizer(k) /\ r = work[k].route
<1>1. server \in [Routes -> Route \cup {Nil}]
  BY DEF Typed, TypeOK
<1>2. ASSUME NEW k \in Kinds, Step(k) \/ Fail(k)
      PROVE  RemoveFinalizer(k) /\ r = work[k].route
  <2>1. CASE SetPending(k) \/ SetStatus(k)
    <3>1. StatusWritten(work[k].route)
      BY <2>1, SetPendingParts, SetStatusParts
    <3>. QED
      BY <1>1, <3>1 DEF StatusWritten
  <2>2. CASE Deny(k) \/ Refuse(k) \/ SyncEndpoints(k)
    <3>1. UNCHANGED server \/ StatusWritten(work[k].route)
      BY <2>2, DoneParts
    <3>. QED
      BY <1>1, <3>1 DEF StatusWritten
  <2>3. CASE Record(k)
    <3>1. \E q \in Routes : q = work[k].route
      BY <2>3, BusySays DEF Record, At
    <3>2. PICK q \in Routes : q = work[k].route
      BY <3>1
    <3>3. server'[q] \in Route /\ server' = [server EXCEPT ![q] = server'[q]]
      BY <2>3, <3>2, RecordParts
    <3>. QED
      BY <1>1, <3>3
  <2>4. CASE RemoveFinalizer(k)
    BY <1>1, <2>4 DEF RemoveFinalizer
  <2>. QED
    BY <1>2, <2>1, <2>2, <2>3, <2>4
       DEF Step, Fail, Take, CommitRules, RemoveRules, NextParent, ResolveBackends, EnsureSet,
           DropStaleSets, CheckSet, DeleteSet, NoOCI
<1>3. ASSUME NEW q \in Routes, Create(q) PROVE FALSE
  BY <1>1, <1>3, CreateParts
<1>4. ASSUME NEW q \in Routes, Delete(q) PROVE FALSE
  BY <1>1, <1>4, DeleteParts
<1>5. ASSUME NEW q \in Routes,
             (\E s \in Services : Redirect(q, s)) \/ (\E on \in SUBSET Parents : Attach(q, on))
      PROVE  FALSE
  BY <1>1, <1>5, EditParts
<1>6. CASE \/ \E l \in Listeners, st \in {"absent", "same", "all"} : EditListener(l, st)
           \/ \E s \in Services : EditService(s)
           \/ \E q \in Routes : Observe(q)
           \/ \E l \in Listeners : GatewayRemoves(l)
           \/ Crash
  BY <1>6, OutsideParts
<1>. QED
  BY <1>2, <1>3, <1>4, <1>5, <1>6 DEF Next, Users, vars

\* A route loses its finalizer only when none of its rules are left, except for those that a
\* user's change cut off from the record.
THEOREM ReleasedMeansUnruledHolds == Spec => ReleasedMeansUnruled
<1> DEFINE Released == \A r \in Routes :
                         server[r] # Nil /\ Finalized(server[r]) /\ server'[r] = Nil =>
                           \A l \in Listeners : rules[l][r] = Nil \/ <<r, l>> \in slipped
<1>1. Followed /\ [Next]_vars => Released
  <2> SUFFICES ASSUME Followed, [Next]_vars,
                      NEW r \in Routes, server[r] # Nil, Finalized(server[r]), server'[r] = Nil
               PROVE  Held(r) = {}
    BY DEF Held, Ruled
  <2>1. PICK k \in Kinds : RemoveFinalizer(k) /\ r = work[k].route
    BY OnlyRelease DEF Followed
  <2>. QED
    BY <2>1, NothingHeld
<1>2. Followed /\ [Next]_vars => [Released]_vars
  BY <1>1
<1>3. Spec => [][Released]_vars
  BY <1>2, AlwaysFollowed, PTL DEF Spec
<1>. QED
  BY <1>3 DEF ReleasedMeansUnruled

----------------------------------------------------------------------------
(* Rules that a route should have.                                         *)

\* Two versions of the object, the first of them not newer; a generation has one
\* specification.
Older(x, y) ==
  /\ x.gen <= y.gen
  /\ x.gen = y.gen => x.to = y.to /\ x.on = y.on /\ x.deleting = y.deleting

\* A copy is not newer than the cache, nor the cache than the object.
Aged(r) ==
  server[r] # Nil =>
    /\ server[r].gen > 0
    /\ cache[r] # Nil => Older(cache[r], server[r])
    /\ JobOf(r) # Nil => cache[r] # Nil /\ Older(JobOf(r).copy, cache[r])

\* The newest generation that a worker has seen.
Newest(r) ==
  IF JobOf(r) # Nil THEN JobOf(r).copy.gen ELSE IF cache[r] # Nil THEN cache[r].gen ELSE 0

\* The condition is True for no generation that no worker has seen.
Latest(r) ==
  server[r] # Nil =>
    \A p \in Parents : /\ server[r].resolved[p] <= Newest(r)
                       /\ cache[r] # Nil => cache[r].resolved[p] <= Newest(r)

\* A request, or an event, of the route is to come.
Noticed(r) == r \in queue \/ Eventful(cache[r], server[r])

\* The copy is as the cache has it, or a request is to come.
CopyFresh(r) ==
  server[r] # Nil /\ JobOf(r) # Nil => r \in queue \/ ~Eventful(JobOf(r).copy, cache[r])

Fresh(r) == Aged(r) /\ Latest(r) /\ CopyFresh(r)

\* The rules at l are lost, or forward to service s.
Made(r, l, s) == <<r, l>> \in lost \/ rules[l][r] = s

\* The condition of x is True for its own generation.
Resolved(x) == \E p \in Parents : x.resolved[p] = x.gen

\* Where a version of the route says that it is resolved, its rules are as it says.
Means(r, x) ==
  x.gen = server[r].gen /\ Resolved(x) => \A l \in x.recorded : Made(r, l, server[r].to)

ResolvedMeans(r) ==
  Live(r) => /\ Means(r, server[r])
             /\ cache[r] # Nil => Means(r, cache[r])
             /\ JobOf(r) # Nil => Means(r, JobOf(r).copy)

\* What a worker has made and removed on the way to its record.
Committed(r) ==
  JobOf(r) # Nil =>
    /\ JobOf(r).pc = "commit" =>
         \A l \in MatchedNow(JobOf(r)) \ JobOf(r).left : Made(r, l, JobOf(r).copy.to)
    /\ JobOf(r).pc = "unrule" /\ JobOf(r).then = "drop" =>
         /\ \A l \in MatchedNow(JobOf(r)) : Made(r, l, JobOf(r).copy.to)
         /\ \A l \in StaleListeners(JobOf(r)) \ JobOf(r).left : <<r, l>> \in lost
    /\ JobOf(r).pc \in {"drop", "status", "record"} =>
         /\ \A l \in MatchedNow(JobOf(r)) : Made(r, l, JobOf(r).copy.to)
         /\ \A l \in StaleListeners(JobOf(r)) : <<r, l>> \in lost

\* The worker is going to make the rules at l, or to find that they are made.
ToDo(job, l) ==
  \/ \E p \in job.todo : /\ job.pc = "parents" \/ p # job.at
                         /\ l \in Matched(job.route, job.seen, p)
  \/ Programs(job) /\ l \in MatchedNow(job)

\* The rules at l are as they should be, but for the endpoints.
RulesDone(r, l) == rules[l][r] = server[r].to /\ l \in server[r].recorded

\* Rules that a route should have are there, or a worker will come to them.
Served(r) ==
  Live(r) /\ ~Noticed(r) =>
    \A l \in Home(r) :
      \/ <<r, l>> \in lost
      \/ JobOf(r) # Nil /\ ToDo(JobOf(r), l)
      \/ /\ RulesDone(r, l)
         /\ sets[server[r].to] = "filled" \/ (JobOf(r) # Nil /\ JobOf(r).pc = "sync")

Known(r) == Fresh(r) /\ ResolvedMeans(r) /\ Committed(r) /\ Served(r)

LEMMA VersionTypes ==
  ASSUME Typed, NEW r \in Routes
  PROVE  /\ \A g \in Gens : g \in Nat
         /\ server[r] # Nil => server[r] \in Route
         /\ cache[r] # Nil => cache[r] \in Route
         /\ JobOf(r) # Nil => /\ JobOf(r) \in Job /\ JobOf(r).copy \in Route
                              /\ JobSound(JobOf(r)) /\ JobOf(r).route = r
         /\ \A x \in Route : /\ x.gen \in Nat /\ x.recorded \subseteq Listeners
                             /\ x.to \in Services /\ x.on \subseteq Parents
                             /\ \A p \in Parents : x.resolved[p] \in Nat
<1>1. \A g \in Gens : g \in Nat
  BY DEF Gens
<1>2. (server[r] # Nil => server[r] \in Route) /\ (cache[r] # Nil => cache[r] \in Route)
  BY DEF Typed, TypeOK
<1>3. ASSUME NEW x \in Route
      PROVE  /\ x.gen \in Nat /\ x.recorded \subseteq Listeners
             /\ x.to \in Services /\ x.on \subseteq Parents
             /\ \A p \in Parents : x.resolved[p] \in Nat
  <2>1. x.gen \in Gens /\ \A p \in Parents : x.resolved[p] \in Gens
    BY DEF Route
  <2>. QED
    BY <1>1, <2>1 DEF Route
<1>4. ASSUME JobOf(r) # Nil
      PROVE  /\ JobOf(r) \in Job /\ JobOf(r).copy \in Route
             /\ JobSound(JobOf(r)) /\ JobOf(r).route = r
  <2>1. Busy(KindOf[r]) /\ JobOf(r) = work[KindOf[r]] /\ work[KindOf[r]].route = r
    BY <1>4 DEF JobOf
  <2>2. KindOf[r] \in Kinds
    OBVIOUS
  <2>3. JobOf(r) \in Job /\ JobSound(JobOf(r))
    BY <2>1, <2>2, BusySays
  <2>. QED
    BY <2>1, <2>3 DEF Job
<1>. QED
  BY <1>1, <1>2, <1>3, <1>4

\* A step of the worker with the route keeps generations in order.
LEMMA WorkerFresh ==
  ASSUME Typed, NEW r \in Routes, Fresh(r), UNCHANGED cache, queue \subseteq queue',
         NEW old, old = JobOf(r), old # Nil, NEW new, new = JobOf(r)',
         new # Nil => new \in Job /\ SameSpec(new.copy, old.copy),
         server'[r] # Nil =>
           /\ server[r] # Nil
           /\ server'[r].gen = server[r].gen /\ server'[r].to = server[r].to
           /\ server'[r].on = server[r].on /\ server'[r].deleting = server[r].deleting
           /\ \A p \in Parents : server'[r].resolved[p] \in
                                 {server[r].resolved[p], 0, old.copy.gen}
  PROVE  Fresh(r)'
<1>1. CASE server'[r] = Nil
  BY <1>1 DEF Fresh, Aged, Latest, CopyFresh
<1>2. CASE server'[r] # Nil
  <2>1. /\ server[r] # Nil /\ server[r].gen > 0 /\ cache[r] # Nil
        /\ Older(cache[r], server[r]) /\ Older(old.copy, cache[r])
    BY <1>2 DEF Fresh, Aged
  <2>2. /\ old.copy.gen \in Nat /\ cache[r].gen \in Nat /\ server[r].gen \in Nat
    BY <2>1, VersionTypes
  <2>3. Aged(r)'
    BY <1>2, <2>1 DEF Aged, Older, SameSpec
  <2>4. Newest(r) = old.copy.gen
    BY DEF Newest
  <2>5. Newest(r)' \in Nat /\ old.copy.gen <= Newest(r)'
    <3>1. CASE new = Nil
      BY <2>1, <2>2, <3>1 DEF Newest, Older
    <3>2. CASE new # Nil
      <4>1. Newest(r)' = old.copy.gen
        BY <3>2 DEF Newest, SameSpec
      <4>. QED
        BY <2>2, <4>1
    <3>. QED
      BY <3>1, <3>2
  <2>6. ASSUME NEW p \in Parents
        PROVE  server'[r].resolved[p] <= Newest(r)' /\ cache[r].resolved[p] <= Newest(r)'
    <3>1. server[r].resolved[p] \in Nat /\ cache[r].resolved[p] \in Nat
      BY <2>1, VersionTypes
    <3>2. server[r].resolved[p] <= old.copy.gen /\ cache[r].resolved[p] <= old.copy.gen
      BY <2>1, <2>4 DEF Fresh, Latest
    <3>3. server'[r].resolved[p] \in {server[r].resolved[p], 0, old.copy.gen}
      BY <1>2
    <3>4. server'[r].resolved[p] <= old.copy.gen /\ server'[r].resolved[p] \in Nat
      BY <2>2, <3>1, <3>2, <3>3
    <3>. QED
      BY <2>2, <2>5, <3>1, <3>2, <3>4
  <2>7. Latest(r)'
    BY <1>2, <2>1, <2>6 DEF Latest
  <2>8. CopyFresh(r)'
    <3>1. ASSUME new # Nil, r \notin queue' PROVE ~Eventful(new.copy, cache[r])
      <4>1. ~Eventful(old.copy, cache[r])
        BY <2>1, <3>1 DEF Fresh, CopyFresh
      <4>2. new.copy # Nil
        BY <3>1 DEF Job
      <4>. QED
        BY <2>1, <3>1, <4>1, <4>2 DEF Eventful, SameSpec
    <3>. QED
      BY <3>1 DEF CopyFresh, Eventful
  <2>. QED
    BY <2>3, <2>7, <2>8 DEF Fresh
<1>. QED
  BY <1>1, <1>2

\* What a worker knows of a route that is not to come again.
LEMMA QuietJob ==
  ASSUME Typed, NEW r \in Routes, Fresh(r), Live(r), ~Noticed(r),
         NEW job, job = JobOf(r), job # Nil
  PROVE  /\ cache[r] # Nil /\ job.copy.gen = server[r].gen /\ job.copy.to = server[r].to
         /\ job.copy.on = server[r].on /\ ~job.copy.deleting
         /\ job.copy.recorded = server[r].recorded
<1>1. /\ server[r] # Nil /\ cache[r] # Nil /\ ~server[r].deleting
      /\ Older(cache[r], server[r]) /\ Older(job.copy, cache[r])
  BY DEF Fresh, Aged, Live
<1>2. /\ cache[r].gen = server[r].gen /\ cache[r].recorded = server[r].recorded
  BY DEF Noticed, Eventful
<1>3. /\ cache[r].gen = job.copy.gen /\ cache[r].recorded = job.copy.recorded
  BY <1>1 DEF Fresh, CopyFresh, Noticed, Eventful
<1>. QED
  BY <1>1, <1>2, <1>3 DEF Older

\* A step that leaves a route alone, or loses rules of it.
Untouched(r) ==
  /\ server'[r] = server[r] /\ cache'[r] = cache[r] /\ JobOf(r)' = JobOf(r)
  /\ r \in queue => r \in queue'
  /\ gateway' = gateway
  /\ \A l \in Listeners : <<r, l>> \notin lost' =>
       <<r, l>> \notin lost /\ rules'[l][r] = rules[l][r]
  /\ \A s \in Services : sets[s] = "filled" /\ Used(s) => sets'[s] = "filled"

\* Rules that are made stay so, unless they are lost.
LEMMA MadeStays ==
  ASSUME NEW r \in Routes, NEW l \in Listeners, NEW s, Made(r, l, s),
         <<r, l>> \notin lost' => <<r, l>> \notin lost /\ rules'[l][r] = rules[l][r]
  PROVE  Made(r, l, s)'
BY DEF Made

LEMMA UntouchedKnown ==
  ASSUME Typed, NEW r \in Routes, Known(r), Untouched(r)
  PROVE  Known(r)'
<1>1. Fresh(r)'
  BY DEF Known, Fresh, Aged, Latest, Newest, CopyFresh, Untouched, Older
<1>2. Home(r)' = Home(r) /\ Live(r)' = Live(r)
  BY DEF Untouched, Home, Live
<1>3. ResolvedMeans(r)'
  <2>1. ASSUME NEW x \in Route, Means(r, x) PROVE Means(r, x)'
    <3>1. \A l \in x.recorded : l \in Listeners
      BY VersionTypes
    <3>. QED
      BY <2>1, <3>1, MadeStays DEF Means, Untouched, Resolved
  <2>. QED
    BY <1>2, <2>1, VersionTypes DEF Known, ResolvedMeans, Untouched, Live, Means
<1>4. Committed(r)'
  <2>0. PICK job : job = JobOf(r)
    OBVIOUS
  <2>1. job # Nil /\ job.pc \in {"commit", "drop", "status", "record"}
          => MatchedNow(job) \subseteq Listeners /\ StaleListeners(job) \subseteq Listeners
    <3>1. job # Nil /\ job.pc \in {"commit", "drop", "status", "record"} => job.at \in Parents
      BY <2>0, VersionTypes DEF JobSound, Programs
    <3>. QED
      BY <2>0, <3>1, VersionTypes, MatchedTypes DEF StaleListeners
  <2>2. job # Nil /\ job.pc = "unrule" /\ job.then = "drop"
          => MatchedNow(job) \subseteq Listeners /\ StaleListeners(job) \subseteq Listeners
    <3>1. job # Nil /\ job.pc = "unrule" /\ job.then = "drop" => job.at \in Parents
      BY <2>0, VersionTypes DEF JobSound, Programs
    <3>. QED
      BY <2>0, <3>1, VersionTypes, MatchedTypes DEF StaleListeners
  <2>3. \A l \in Listeners : <<r, l>> \in lost => <<r, l>> \in lost'
    BY DEF Untouched
  <2>4. \A s : \A l \in Listeners : Made(r, l, s) => Made(r, l, s)'
    BY MadeStays DEF Untouched
  <2>5. JobOf(r)' = job
    BY <2>0 DEF Untouched
  <2>6. ASSUME job # Nil, job.pc = "commit"
        PROVE  \A l \in MatchedNow(job) \ job.left : Made(r, l, job.copy.to)'
    BY <2>0, <2>1, <2>4, <2>6 DEF Known, Committed
  <2>7. ASSUME job # Nil, job.pc = "unrule", job.then = "drop"
        PROVE  /\ \A l \in MatchedNow(job) : Made(r, l, job.copy.to)'
               /\ \A l \in StaleListeners(job) \ job.left : <<r, l>> \in lost'
    BY <2>0, <2>2, <2>3, <2>4, <2>7 DEF Known, Committed
  <2>8. ASSUME job # Nil, job.pc \in {"drop", "status", "record"}
        PROVE  /\ \A l \in MatchedNow(job) : Made(r, l, job.copy.to)'
               /\ \A l \in StaleListeners(job) : <<r, l>> \in lost'
    BY <2>0, <2>1, <2>3, <2>4, <2>8 DEF Known, Committed
  <2>. QED
    BY <2>5, <2>6, <2>7, <2>8 DEF Committed, Made, MatchedNow, StaleListeners
<1>5. Served(r)'
  <2>1. ASSUME Live(r), ~Noticed(r)', NEW l \in Home(r), <<r, l>> \notin lost'
        PROVE  \/ JobOf(r) # Nil /\ ToDo(JobOf(r), l)
               \/ /\ RulesDone(r, l)'
                  /\ sets'[server[r].to] = "filled" \/ (JobOf(r) # Nil /\ JobOf(r).pc = "sync")
    <3>1. ~Noticed(r)
      BY <2>1 DEF Noticed, Untouched, Eventful
    <3>2. l \in Listeners /\ server[r].to \in Services
      <4>1. server[r] \in Route
        BY <2>1, VersionTypes DEF Live
      <4>. QED
        BY <4>1, VersionTypes DEF Home, Listeners
    <3>3. <<r, l>> \notin lost /\ rules'[l][r] = rules[l][r]
      BY <2>1, <3>2 DEF Untouched
    <3>4. RulesDone(r, l) => RulesDone(r, l)' /\ Used(server[r].to)
      BY <3>2, <3>3 DEF RulesDone, Untouched, Used
    <3>. QED
      BY <2>1, <3>1, <3>2, <3>3, <3>4 DEF Known, Served, Untouched
  <2>. QED
    BY <1>2, <2>1 DEF Served, Untouched, ToDo, Programs, MatchedNow, RulesDone
<1>. QED
  BY <1>1, <1>3, <1>4, <1>5 DEF Known

\* The other routes, when a worker makes or removes rules of its own.
LEMMA OthersUntouched ==
  ASSUME Typed, NEW k \in Kinds, NEW r \in Routes, Busy(k), Works(k, r),
         work'[k] = Nil \/ Stays(k),
         UNCHANGED <<cache, gateway>>, queue \subseteq queue',
         \A q \in Routes \ {r} : server'[q] = server[q],
         \A q \in Routes \ {r}, l \in Listeners :
           <<q, l>> \notin lost' => <<q, l>> \notin lost /\ rules'[l][q] = rules[l][q],
         \A s \in Services : sets[s] = "filled" /\ Used(s) => sets'[s] = "filled"
  PROVE  \A q \in Routes \ {r} : Untouched(q)
BY WorkerJobs DEF Untouched

\* A step that makes no rules, and no condition True.
LEMMA MeansStays ==
  ASSUME Typed, NEW r \in Routes, Fresh(r), ResolvedMeans(r), UNCHANGED cache,
         NEW old, old = JobOf(r), NEW new, new = JobOf(r)',
         new # Nil => old # Nil /\ new.copy = old.copy,
         \A l \in Listeners :
           <<r, l>> \notin lost' => <<r, l>> \notin lost /\ rules'[l][r] = rules[l][r],
         server'[r] # Nil =>
           /\ server[r] # Nil /\ SameSpec(server'[r], server[r])
           /\ \A p \in Parents : server'[r].resolved[p] \in {server[r].resolved[p], 0}
  PROVE  ResolvedMeans(r)'
<1> SUFFICES ASSUME Live(r)' PROVE ResolvedMeans(r)'
  BY DEF ResolvedMeans
<1>1. /\ server'[r] # Nil /\ server[r] # Nil /\ server[r].gen > 0 /\ Live(r)
      /\ SameSpec(server'[r], server[r])
      /\ \A p \in Parents : server'[r].resolved[p] \in {server[r].resolved[p], 0}
  BY DEF Live, Fresh, Aged, SameSpec
<1>2. ASSUME NEW x \in Route, Means(r, x) PROVE Means(r, x)'
  <2>1. \A l \in x.recorded : l \in Listeners
    BY VersionTypes
  <2>. QED
    BY <1>1, <1>2, <2>1, MadeStays DEF Means, Resolved, SameSpec
<1>3. Means(r, server[r])'
  <2>1. server[r] \in Route /\ server[r].gen \in Nat
    BY <1>1, VersionTypes
  <2>2. Resolved(server'[r]) => Resolved(server[r])
    BY <1>1, <2>1 DEF Resolved, SameSpec
  <2>3. Means(r, server[r])
    BY <1>1 DEF ResolvedMeans
  <2>4. \A l \in server[r].recorded : l \in Listeners
    BY <2>1, VersionTypes
  <2>5. ASSUME Resolved(server'[r]), NEW l \in server'[r].recorded
        PROVE  <<r, l>> \in lost' \/ rules'[l][r] = server'[r].to
    <3>1. Made(r, l, server[r].to) /\ l \in Listeners
      BY <1>1, <2>2, <2>3, <2>4, <2>5 DEF Means, SameSpec
    <3>. QED
      BY <1>1, <3>1 DEF SameSpec, Made
  <2>. QED
    BY <2>5 DEF Means, Resolved, Made
<1>4. cache'[r] # Nil => Means(r, cache[r])'
  <2>1. cache[r] # Nil => cache[r] \in Route /\ Means(r, cache[r])
    BY <1>1, VersionTypes DEF ResolvedMeans
  <2>2. cache[r] # Nil => \A l \in cache[r].recorded : l \in Listeners
    BY <2>1, VersionTypes
  <2>3. ASSUME cache[r] # Nil, cache[r].gen = server'[r].gen, Resolved(cache[r]),
               NEW l \in cache[r].recorded
        PROVE  <<r, l>> \in lost' \/ rules'[l][r] = server'[r].to
    <3>1. Made(r, l, server[r].to)
      BY <1>1, <2>1, <2>3 DEF Means, SameSpec
    <3>. QED
      BY <1>1, <2>2, <2>3, <3>1 DEF SameSpec, Made
  <2>. QED
    BY <2>3 DEF Means, Resolved, Made
<1>5. new # Nil => Means(r, JobOf(r).copy)'
  <2>1. new # Nil => old.copy \in Route /\ Means(r, old.copy)
    BY <1>1, VersionTypes DEF ResolvedMeans
  <2>2. new # Nil => \A l \in old.copy.recorded : l \in Listeners
    BY <2>1, VersionTypes
  <2>3. ASSUME new # Nil, old.copy.gen = server'[r].gen, Resolved(old.copy),
               NEW l \in old.copy.recorded
        PROVE  <<r, l>> \in lost' \/ rules'[l][r] = server'[r].to
    <3>1. Made(r, l, server[r].to)
      BY <1>1, <2>1, <2>3 DEF Means, SameSpec
    <3>. QED
      BY <1>1, <2>2, <2>3, <3>1 DEF SameSpec, Made
  <2>. QED
    BY <2>3 DEF Means, Resolved, Made
<1>. QED
  BY <1>3, <1>4, <1>5 DEF ResolvedMeans

\* A step of a worker that makes no rules and leaves the record alone.
LEMMA ServedStays ==
  ASSUME Typed, NEW r \in Routes, Fresh(r), ResolvedMeans(r), Served(r),
         UNCHANGED <<cache, gateway>>, queue \subseteq queue',
         NEW old, old = JobOf(r), old # Nil, NEW new, new = JobOf(r)',
         \/ server'[r] = server[r]
         \/ server[r] # Nil /\ server'[r] # Nil /\ SameSpec(server'[r], server[r]),
         \A l \in Listeners :
           <<r, l>> \notin lost' => <<r, l>> \notin lost /\ rules'[l][r] = rules[l][r],
         \A s \in Services : sets[s] = "filled" /\ Used(s) => sets'[s] = "filled",
         r \notin queue' /\ ~old.copy.deleting =>
           /\ old.pc = "sync" =>
                (new # Nil /\ new.pc = "sync") \/ sets'[old.copy.to] = "filled"
           /\ \A l \in Listeners : <<r, l>> \notin lost' /\ ToDo(old, l) =>
                /\ new # Nil
                /\ \/ ToDo(new, l)
                   \/ new.pc = "sync" /\ l \in old.copy.recorded /\ Resolved(old.copy)
  PROVE  Served(r)'
<1>1. /\ (server'[r] = Nil) = (server[r] = Nil) /\ Live(r)' = Live(r)
      /\ server[r] # Nil => /\ server'[r].gen = server[r].gen /\ server'[r].to = server[r].to
                            /\ server'[r].recorded = server[r].recorded
                            /\ Home(r)' = Home(r)
      /\ Noticed(r) => Noticed(r)'
  <2>1. Eventful(cache[r], server[r])' = Eventful(cache[r], server[r])
    BY QuietServer
  <2>. QED
    BY <2>1, QuietServer DEF SameSpec, Noticed
<1> SUFFICES ASSUME Live(r)', ~Noticed(r)', NEW l \in Home(r)', <<r, l>> \notin lost'
             PROVE  \/ new # Nil /\ ToDo(new, l)
                    \/ /\ RulesDone(r, l)'
                       /\ \/ sets'[server'[r].to] = "filled"
                          \/ new # Nil /\ new.pc = "sync"
  BY DEF Served, ToDo, Programs, MatchedNow
<1>2. Live(r) /\ ~Noticed(r) /\ server[r] # Nil /\ l \in Home(r) /\ r \notin queue'
  BY <1>1 DEF Live, Noticed
<1>3. /\ old.copy.to = server[r].to /\ ~old.copy.deleting /\ old.copy.gen = server[r].gen
      /\ old.copy.recorded = server[r].recorded
  BY <1>2, QuietJob
<1>4. l \in Listeners /\ server[r].to \in Services
  <2>1. server[r] \in Route
    BY <1>2, VersionTypes
  <2>. QED
    BY <1>2, <2>1, VersionTypes DEF Home, Listeners
<1>5. <<r, l>> \notin lost /\ rules'[l][r] = rules[l][r]
  BY <1>4
<1>6. CASE ToDo(old, l)
  <2>1. CASE ToDo(new, l) /\ new # Nil
    BY <2>1
  <2>2. CASE ~(ToDo(new, l) /\ new # Nil)
    <3>1. new # Nil /\ new.pc = "sync" /\ l \in old.copy.recorded /\ Resolved(old.copy)
      BY <1>2, <1>3, <1>4, <1>6, <2>2
    <3>2. Made(r, l, server[r].to)
      BY <1>2, <1>3, <3>1 DEF ResolvedMeans, Means
    <3>. QED
      BY <1>1, <1>2, <1>3, <1>5, <3>1, <3>2 DEF RulesDone, Made
  <2>. QED
    BY <2>1, <2>2
<1>7. CASE /\ RulesDone(r, l)
           /\ sets[server[r].to] = "filled" \/ old.pc = "sync"
  <2>1. RulesDone(r, l)' /\ Used(server[r].to)
    BY <1>1, <1>2, <1>4, <1>5, <1>7 DEF RulesDone, Used
  <2>2. CASE sets[server[r].to] = "filled"
    BY <1>1, <1>2, <1>4, <2>1, <2>2
  <2>3. CASE old.pc = "sync"
    BY <1>1, <1>2, <1>3, <2>1, <2>3
  <2>. QED
    BY <1>7, <2>1, <2>2, <2>3
<1>. QED
  BY <1>2, <1>5, <1>6, <1>7 DEF Served

\* What is known of every route.
Understood == Followed /\ \A r \in Routes : Known(r)

\* Nothing is used less than before.
LEMMA SameSets ==
  ASSUME UNCHANGED sets
  PROVE  \A s \in Services : sets[s] = "filled" /\ Used(s) => sets'[s] = "filled"
OBVIOUS

LEMMA NextParentKnows ==
  ASSUME Understood, NEW k \in Kinds, NEW r \in Routes, r = work[k].route, NextParent(k)
  PROVE  Known(r)' /\ \A q \in Routes \ {r} : Untouched(q)
<1>1. /\ Typed /\ Busy(k) /\ Works(k, r) /\ work[k].pc = "parents"
      /\ UNCHANGED <<server, rules, sets, lost, slipped>> /\ NoEvent
  BY NextParentParts DEF Understood, Followed
<1>2. \/ work[k].todo = {} /\ work'[k] = Nil
      \/ /\ work[k].todo # {} /\ Stays(k)
         /\ work'[k].at \in work[k].todo /\ work'[k].todo = work[k].todo
         /\ work'[k].copy = work[k].copy
         /\ \/ /\ work[k].copy.deleting
               /\ work'[k].left = work[k].copy.recorded /\ work'[k].then = "clear"
               /\ work'[k].pc = IF work'[k].left = {} THEN "clear" ELSE "unrule"
            \/ /\ ~work[k].copy.deleting /\ MatchedNow(work'[k]) = {}
               /\ work'[k].left = work[k].copy.recorded /\ work'[k].then = "deny"
               /\ work'[k].pc = IF work'[k].left = {} THEN "deny" ELSE "unrule"
            \/ /\ ~work[k].copy.deleting /\ MatchedNow(work'[k]) # {}
               /\ work'[k].pc = "pending"
            \/ /\ ~work[k].copy.deleting /\ MatchedNow(work'[k]) # {}
               /\ work[k].copy.recorded = MatchedNow(work'[k])
               /\ work[k].copy.resolved[work'[k].at] = work[k].copy.gen
               /\ work'[k].pc = "sync"
  BY NextParentParts DEF Understood, Followed
<1>3. /\ r \in Routes /\ Known(r) /\ JobOf(r) = work[k] /\ JobOf(r)' = work'[k]
      /\ work[k] # Nil /\ JobSound(work[k]) /\ work[k].copy \in Route
      /\ work'[k] # Nil => Stays(k)
  BY <1>1, <1>2, WorkerJobs, VersionTypes DEF Works, Understood, Busy, Idle, Stays
<1>4. UNCHANGED <<cache, gateway, queue>>
  BY <1>1 DEF NoEvent
<1>5. work'[k] # Nil => work'[k] \in Job /\ work'[k].copy = work[k].copy
  BY <1>2, <1>3 DEF Stays
<1>6. Fresh(r)'
  BY <1>1, <1>3, <1>4, <1>5, WorkerFresh DEF SameSpec, Known
<1>7. ResolvedMeans(r)'
  BY <1>1, <1>3, <1>4, <1>5, MeansStays DEF SameSpec, Known
<1>8. Committed(r)'
  <2>1. work'[k] # Nil => /\ work'[k].pc \notin {"commit", "drop", "status", "record"}
                          /\ work'[k].pc = "unrule" => work'[k].then # "drop"
    BY <1>2, <1>3
  <2>. QED
    BY <1>3, <2>1 DEF Committed
<1>9. Served(r)'
  <2>1. ASSUME ~work[k].copy.deleting, NEW l \in Listeners, ToDo(work[k], l)
        PROVE  /\ work'[k] # Nil
               /\ \/ ToDo(work'[k], l)
                  \/ /\ work'[k].pc = "sync" /\ l \in work[k].copy.recorded
                     /\ Resolved(work[k].copy)
    <3>1. PICK p \in work[k].todo : l \in Matched(r, work[k].seen, p)
      BY <1>1, <2>1 DEF ToDo, Programs
    <3>2. /\ work'[k] # Nil /\ Stays(k) /\ work'[k].todo = work[k].todo
          /\ work'[k].at \in work[k].todo
      BY <1>2, <1>3, <3>1 DEF Stays
    <3>5. work'[k].at \in Parents
      BY <1>1, <3>2 DEF Works, Job
    <3>3. CASE p # work'[k].at
      BY <3>1, <3>2, <3>3 DEF ToDo, Stays
    <3>4. CASE p = work'[k].at
      <4>1. l \in MatchedNow(work'[k])
        BY <3>1, <3>2, <3>4 DEF MatchedNow, Stays
      <4>2. \/ work'[k].pc = "pending"
            \/ /\ work'[k].pc = "sync" /\ work[k].copy.recorded = MatchedNow(work'[k])
               /\ work[k].copy.resolved[work'[k].at] = work[k].copy.gen
        BY <1>2, <2>1, <3>1, <4>1
      <4>. QED
        BY <3>2, <3>5, <4>1, <4>2 DEF ToDo, Programs, Resolved
    <3>. QED
      BY <3>3, <3>4
  <2>. QED
    BY <1>1, <1>3, <1>4, <2>1, ServedStays, SameSets DEF Known
<1>10. \A q \in Routes \ {r} : Untouched(q)
  BY <1>1, <1>2, <1>4, OthersUntouched, SameSets
<1>. QED
  BY <1>6, <1>7, <1>8, <1>9, <1>10, <1>3 DEF Known

\* The steps before the first commit.
LEMMA PreparationKnows ==
  ASSUME Understood, NEW k \in Kinds, NEW r \in Routes, r = work[k].route,
         SetPending(k) \/ ResolveBackends(k) \/ EnsureSet(k)
  PROVE  Known(r)' /\ \A q \in Routes \ {r} : Untouched(q)
<1>1. /\ Typed /\ Busy(k) /\ Works(k, r) /\ Stays(k)
      /\ work[k].pc \in {"pending", "backends", "ensure"}
      /\ work'[k].copy = work[k].copy /\ work'[k].at = work[k].at
      /\ work'[k].todo = work[k].todo
      /\ UNCHANGED <<rules, lost>> /\ NoEvent
      /\ \/ work'[k].pc \in {"backends", "ensure"}
         \/ work'[k].pc = "commit" /\ work'[k].left = MatchedNow(work[k])
         \/ work'[k].then = "refuse" /\ work'[k].pc \in {"refuse", "unrule"}
  <2>1. CASE SetPending(k)
    BY <2>1, SetPendingParts DEF Understood, Followed, Keeps
  <2>2. CASE ResolveBackends(k)
    BY <2>2, ResolveBackendsParts DEF Understood, Followed
  <2>3. CASE EnsureSet(k)
    BY <2>3, EnsureSetParts DEF Understood, Followed
  <2>. QED
    BY <2>1, <2>2, <2>3
<1>2. /\ UNCHANGED server \/ StatusWritten(r)
      /\ \A p \in Parents : server'[r].resolved[p] \in {server[r].resolved[p], 0}
      /\ UNCHANGED sets
           \/ sets' = [sets EXCEPT ![work[k].copy.to] = IF @ = "none" THEN "empty" ELSE @]
  <2>1. CASE SetPending(k)
    BY <2>1, SetPendingParts DEF Understood, Followed
  <2>2. CASE ResolveBackends(k)
    BY <2>2, ResolveBackendsParts DEF Understood, Followed
  <2>3. CASE EnsureSet(k)
    BY <2>3, EnsureSetParts DEF Understood, Followed
  <2>. QED
    BY <2>1, <2>2, <2>3
<1>3. /\ Known(r) /\ JobOf(r) = work[k] /\ JobOf(r)' = work'[k]
      /\ work[k] # Nil /\ work'[k] \in Job /\ work'[k] # Nil
      /\ work'[k].route = work[k].route /\ work'[k].seen = work[k].seen
  BY <1>1, WorkerJobs DEF Understood, Busy, Idle, Stays
<1>4. UNCHANGED <<cache, gateway, queue>>
  BY <1>1 DEF NoEvent
<1>5. /\ \/ server'[r] = server[r]
         \/ server[r] # Nil /\ server'[r] # Nil /\ SameSpec(server'[r], server[r])
      /\ \A q \in Routes \ {r} : server'[q] = server[q]
  BY SMTT(30), <1>1, <1>2 DEF StatusWritten, Typed, TypeOK
<1>13. server'[r] # Nil => server[r] # Nil /\ SameSpec(server'[r], server[r])
  BY <1>5 DEF SameSpec
<1>6. \A s \in Services : sets[s] = "filled" => sets'[s] = "filled"
  BY <1>1, <1>2 DEF Typed, TypeOK
<1>7. Fresh(r)'
  <2>1. Typed /\ Fresh(r) /\ UNCHANGED cache /\ queue \subseteq queue'
    BY <1>1, <1>3, <1>4 DEF Known
  <2>2. work'[k] \in Job /\ SameSpec(work'[k].copy, work[k].copy)
    BY <1>1, <1>3 DEF SameSpec
  <2>3. server'[r] # Nil =>
          /\ server[r] # Nil
          /\ server'[r].gen = server[r].gen /\ server'[r].to = server[r].to
          /\ server'[r].on = server[r].on /\ server'[r].deleting = server[r].deleting
          /\ \A p \in Parents : server'[r].resolved[p] \in
                                 {server[r].resolved[p], 0, work[k].copy.gen}
    BY <1>1, <1>2, <1>13 DEF SameSpec
  <2>. QED
    BY <1>3, <2>1, <2>2, <2>3, WorkerFresh
<1>8. ResolvedMeans(r)'
  BY <1>1, <1>2, <1>3, <1>4, <1>13, MeansStays DEF Known
<1>9. MatchedNow(work'[k]) = MatchedNow(work[k])
  BY <1>1, <1>3 DEF MatchedNow
<1>10. Committed(r)'
  <2>1. /\ work'[k].pc \notin {"drop", "status", "record"}
        /\ work'[k].pc = "unrule" => work'[k].then # "drop"
        /\ work'[k].pc = "commit" => MatchedNow(work'[k]) \ work'[k].left = {}
    BY <1>1, <1>9
  <2>. QED
    BY <1>3, <2>1 DEF Committed, MatchedNow
<1>11. Served(r)'
  <2>1. \A l : ToDo(work[k], l) => ToDo(work'[k], l)
    BY <1>1, <1>3, <1>9 DEF ToDo, Programs
  <2>2. work[k].pc # "sync"
    BY <1>1
  <2>. QED
    BY <1>1, <1>3, <1>4, <1>5, <1>6, <2>1, <2>2, ServedStays DEF Known
<1>12. \A q \in Routes \ {r} : Untouched(q)
  BY <1>1, <1>4, <1>5, <1>6, OthersUntouched
<1>. QED
  BY <1>7, <1>8, <1>10, <1>11, <1>12 DEF Known

\* A set that some rule uses is not deleted.
LEMMA UsedSetsStay ==
  ASSUME Typed, NEW k \in Kinds, DropStaleSets(k) \/ CheckSet(k) \/ DeleteSet(k)
  PROVE  \A s \in Services : sets[s] = "filled" /\ Used(s) => sets'[s] = "filled"
BY DEF DropStaleSets, CheckSet, DeleteSet, WithoutSets, NoOCI

LEMMA SetsKnows ==
  ASSUME Understood, NEW k \in Kinds, NEW r \in Routes, r = work[k].route,
         DropStaleSets(k) \/ CheckSet(k) \/ DeleteSet(k)
  PROVE  Known(r)' /\ \A q \in Routes \ {r} : Untouched(q)
<1>1. /\ Typed /\ Busy(k) /\ Works(k, r) /\ Stays(k) /\ Keeps(k)
      /\ work'[k].copy = work[k].copy
      /\ \/ work[k].pc = "drop" /\ work'[k].pc = "status"
         \/ work[k].pc \in {"clear", "delete"} /\ work'[k].pc \in {"delete", "release"}
      /\ UNCHANGED <<server, rules, lost, slipped>> /\ NoEvent
      /\ \A s \in Services : sets[s] = "filled" /\ Used(s) => sets'[s] = "filled"
  BY SetsParts, UsedSetsStay DEF Understood, Followed
<1>2. /\ Known(r) /\ JobOf(r) = work[k] /\ JobOf(r)' = work'[k]
      /\ work[k] # Nil /\ work'[k] \in Job /\ work'[k] # Nil /\ JobSound(work[k])
      /\ work'[k].route = work[k].route /\ work'[k].seen = work[k].seen
  BY <1>1, WorkerJobs DEF Understood, Busy, Idle, Stays, Works
<1>3. UNCHANGED <<cache, gateway, queue>>
  BY <1>1 DEF NoEvent
<1>4. Fresh(r)'
  BY <1>1, <1>2, <1>3, WorkerFresh DEF SameSpec, Known
<1>5. ResolvedMeans(r)'
  BY <1>1, <1>2, <1>3, MeansStays DEF SameSpec, Known
<1>6. MatchedNow(work'[k]) = MatchedNow(work[k]) /\ StaleListeners(work'[k]) = StaleListeners(work[k])
  BY <1>1, <1>2 DEF MatchedNow, StaleListeners, Keeps
<1>7. Committed(r)'
  <2>1. CASE work[k].pc = "drop" /\ work'[k].pc = "status"
    BY <1>1, <1>2, <1>6, <2>1 DEF Known, Committed, MatchedNow, StaleListeners, Made
  <2>2. CASE work'[k].pc \in {"delete", "release"}
    BY <1>2, <2>2 DEF Committed
  <2>. QED
    BY <1>1, <2>1, <2>2
<1>8. Served(r)'
  <2>1. ~work[k].copy.deleting => work[k].pc = "drop" /\ work'[k].pc = "status"
    BY <1>1, <1>2 DEF JobSound, CleansUp
  <2>2. ~work[k].copy.deleting => \A l : ToDo(work[k], l) => ToDo(work'[k], l)
    BY <1>1, <1>2, <1>6, <2>1 DEF ToDo, Programs, Keeps
  <2>3. work[k].pc # "sync"
    BY <1>1
  <2>. QED
    BY <1>1, <1>2, <1>3, <2>2, <2>3, ServedStays DEF Known
<1>9. \A q \in Routes \ {r} : Untouched(q)
  BY <1>1, <1>3, OthersUntouched
<1>. QED
  BY <1>4, <1>5, <1>7, <1>8, <1>9 DEF Known

\* What the last step at a parent does to the history and to the sets.
LEMMA DoneSets ==
  ASSUME Typed, NEW k \in Kinds, NEW r, r = work[k].route,
         Deny(k) \/ Refuse(k) \/ SyncEndpoints(k)
  PROVE  /\ \A s \in Services : sets[s] = "filled" => sets'[s] = "filled"
         /\ work[k].pc = "sync" => sets'[work[k].copy.to] = "filled"
         /\ lost \subseteq lost' /\ (r \in Routes => \A q \in Routes \ {r}, l \in Listeners :
                                       (<<q, l>> \in lost') = (<<q, l>> \in lost))
         /\ work[k].pc = "refuse" => \A l \in MatchedNow(work[k]) : <<r, l>> \in lost'
         /\ \A p \in Parents : server'[r].resolved[p] \in {server[r].resolved[p], 0}
<1>1. /\ Busy(k) /\ work[k] \in Job /\ r \in Routes
      /\ sets \in [Services -> {"none", "empty", "filled"}]
  BY BusySays DEF Deny, Refuse, SyncEndpoints, At, Typed, TypeOK
<1>2. work[k].copy.to \in Services
  BY <1>1 DEF Job, Route
<1>3. CASE Deny(k)
  BY <1>3 DEF Deny, NoOCI, At
<1>4. CASE Refuse(k)
  <2>1. 0 \in Gens
    BY DEF Gens
  <2>2. \A p \in Parents : server'[r].resolved[p] \in {server[r].resolved[p], 0}
    BY <1>1, <1>4, <2>1, SetConditionSays DEF Refuse
  <2>3. /\ lost' = lost \cup ({r} \X MatchedNow(work[k])) /\ sets' = sets
        /\ work[k].pc = "refuse"
    BY <1>4 DEF Refuse, At
  <2>. QED
    BY <2>2, <2>3
<1>5. CASE SyncEndpoints(k)
  BY <1>1, <1>2, <1>5 DEF SyncEndpoints, At
<1>. QED
  BY <1>3, <1>4, <1>5

LEMMA DoneKnows ==
  ASSUME Understood, NEW k \in Kinds, NEW r \in Routes, r = work[k].route,
         Deny(k) \/ Refuse(k) \/ SyncEndpoints(k)
  PROVE  Known(r)' /\ \A q \in Routes \ {r} : Untouched(q)
<1>1. /\ Typed /\ Busy(k) /\ Works(k, r) /\ Stays(k)
      /\ work[k].pc \in {"deny", "refuse", "sync"} /\ work'[k].pc = "parents"
      /\ work'[k].copy = work[k].copy /\ work'[k].todo = work[k].todo \ {work[k].at}
      /\ UNCHANGED server \/ StatusWritten(r)
      /\ UNCHANGED <<rules, slipped>> /\ NoEvent
  BY DoneParts DEF Understood, Followed
<1>2. /\ \A s \in Services : sets[s] = "filled" => sets'[s] = "filled"
      /\ work[k].pc = "sync" => sets'[work[k].copy.to] = "filled"
      /\ lost \subseteq lost' /\ \A q \in Routes \ {r}, l \in Listeners :
                                   (<<q, l>> \in lost') = (<<q, l>> \in lost)
      /\ work[k].pc = "refuse" => \A l \in MatchedNow(work[k]) : <<r, l>> \in lost'
      /\ \A p \in Parents : server'[r].resolved[p] \in {server[r].resolved[p], 0}
  BY <1>1, DoneSets
<1>3. /\ Known(r) /\ JobOf(r) = work[k] /\ JobOf(r)' = work'[k]
      /\ work[k] # Nil /\ work'[k] \in Job /\ work'[k] # Nil
      /\ work'[k].route = work[k].route /\ work'[k].seen = work[k].seen
  BY <1>1, WorkerJobs DEF Understood, Busy, Idle, Stays
<1>4. UNCHANGED <<cache, gateway, queue>>
  BY <1>1 DEF NoEvent
<1>5. /\ \/ server'[r] = server[r]
         \/ server[r] # Nil /\ server'[r] # Nil /\ SameSpec(server'[r], server[r])
      /\ \A q \in Routes \ {r} : server'[q] = server[q]
  BY <1>1 DEF StatusWritten, Typed, TypeOK
<1>6. server'[r] # Nil => server[r] # Nil /\ SameSpec(server'[r], server[r])
  BY <1>5 DEF SameSpec
<1>7. Fresh(r)'
  <2>1. Typed /\ Fresh(r) /\ UNCHANGED cache /\ queue \subseteq queue'
    BY <1>1, <1>3, <1>4 DEF Known
  <2>2. work'[k] \in Job /\ SameSpec(work'[k].copy, work[k].copy)
    BY <1>1, <1>3 DEF SameSpec
  <2>3. server'[r] # Nil =>
          /\ server[r] # Nil
          /\ server'[r].gen = server[r].gen /\ server'[r].to = server[r].to
          /\ server'[r].on = server[r].on /\ server'[r].deleting = server[r].deleting
          /\ \A p \in Parents : server'[r].resolved[p] \in
                                 {server[r].resolved[p], 0, work[k].copy.gen}
    BY <1>1, <1>2, <1>6 DEF SameSpec
  <2>. QED
    BY <1>3, <2>1, <2>2, <2>3, WorkerFresh
<1>8. ResolvedMeans(r)'
  BY <1>1, <1>2, <1>3, <1>4, <1>6, MeansStays DEF Known
<1>9. Committed(r)'
  BY <1>1, <1>3 DEF Committed
<1>10. Served(r)'
  <2>1. ASSUME NEW l \in Listeners, <<r, l>> \notin lost', ToDo(work[k], l)
        PROVE  ToDo(work'[k], l)
    <3>1. ~(Programs(work[k]) /\ l \in MatchedNow(work[k]))
      BY <1>1, <1>2, <2>1 DEF Programs
    <3>. QED
      BY <1>1, <1>3, <2>1, <3>1 DEF ToDo
  <2>. QED
    BY <1>1, <1>2, <1>3, <1>4, <1>5, <2>1, ServedStays DEF Known
<1>11. \A q \in Routes \ {r} : Untouched(q)
  BY <1>1, <1>2, <1>4, <1>5, OthersUntouched
<1>. QED
  BY <1>7, <1>8, <1>9, <1>10, <1>11 DEF Known

LEMMA FailKnows ==
  ASSUME Understood, NEW k \in Kinds, NEW r \in Routes, r = work[k].route, Fail(k)
  PROVE  Known(r)' /\ \A q \in Routes \ {r} : Untouched(q)
<1>1. /\ Typed /\ Busy(k) /\ Works(k, r) /\ work'[k] = Nil /\ queue' = queue \cup {r}
      /\ UNCHANGED <<server, rules, sets, lost, slipped>>
      /\ UNCHANGED <<cache, born, gateway, services, edits, crashes>>
  BY FailParts DEF Understood, Followed
<1>2. Known(r) /\ JobOf(r) = work[k] /\ JobOf(r)' = Nil /\ work[k] # Nil
  BY <1>1, WorkerJobs DEF Understood, Busy, Idle
<1>3. Fresh(r)'
  BY <1>1, <1>2, WorkerFresh DEF Known
<1>4. ResolvedMeans(r)'
  BY <1>1, <1>2, MeansStays DEF SameSpec, Known
<1>5. Committed(r)' /\ Served(r)'
  BY <1>1, <1>2 DEF Committed, Served, Noticed
<1>6. \A q \in Routes \ {r} : Untouched(q)
  BY <1>1, OthersUntouched, SameSets
<1>. QED
  BY <1>3, <1>4, <1>5, <1>6 DEF Known

LEMMA RemoveFinalizerKnows ==
  ASSUME Understood, NEW k \in Kinds, NEW r \in Routes, r = work[k].route, RemoveFinalizer(k)
  PROVE  Known(r)' /\ \A q \in Routes \ {r} : Untouched(q)
<1>1. /\ Typed /\ Busy(k) /\ Works(k, r) /\ Stays(k)
      /\ work'[k].pc = "parents" /\ work'[k].copy = work[k].copy
      /\ server' = [server EXCEPT ![r] = Nil]
      /\ UNCHANGED <<rules, sets, lost, slipped>> /\ NoEvent
  BY RemoveFinalizerParts DEF Understood, Followed
<1>2. JobOf(r)' = work'[k]
  BY <1>1, WorkerJobs
<1>3. server'[r] = Nil /\ \A q \in Routes \ {r} : server'[q] = server[q]
  BY <1>1 DEF Typed, TypeOK
<1>4. UNCHANGED <<cache, gateway, queue>>
  BY <1>1 DEF NoEvent
<1>5. Known(r)'
  BY <1>1, <1>2, <1>3 DEF Known, Fresh, Aged, Latest, CopyFresh, ResolvedMeans, Committed,
     Served, Live
<1>6. \A q \in Routes \ {r} : Untouched(q)
  BY <1>1, <1>3, <1>4, OthersUntouched, SameSets
<1>. QED
  BY <1>5, <1>6

\* A condition that is True for the present generation is the present worker's.
LEMMA GenSays ==
  ASSUME Typed, NEW r \in Routes, Fresh(r), server[r] # Nil, NEW job, job = JobOf(r), job # Nil
  PROVE  /\ job.copy.gen = server[r].gen => job.copy.to = server[r].to
         /\ Resolved(server[r]) => job.copy.gen = server[r].gen
         /\ cache[r] # Nil /\ cache[r].gen = server[r].gen /\ Resolved(cache[r]) =>
              job.copy.gen = server[r].gen
<1>1. /\ cache[r] # Nil /\ Older(cache[r], server[r]) /\ Older(job.copy, cache[r])
      /\ Newest(r) = job.copy.gen
  BY DEF Fresh, Aged, Newest
<1>2. /\ server[r].gen \in Nat /\ cache[r].gen \in Nat /\ job.copy.gen \in Nat
  BY <1>1, VersionTypes
<1>3. job.copy.gen <= cache[r].gen /\ cache[r].gen <= server[r].gen
  BY <1>1 DEF Older
<1>4. job.copy.gen = server[r].gen => job.copy.to = server[r].to
  <2>1. job.copy.gen = server[r].gen =>
          cache[r].gen = server[r].gen /\ job.copy.gen = cache[r].gen
    BY <1>2, <1>3
  <2>. QED
    BY <1>1, <2>1 DEF Older
<1>5. ASSUME NEW p \in Parents,
             \/ server[r].resolved[p] = server[r].gen
             \/ cache[r].resolved[p] = server[r].gen
      PROVE  job.copy.gen = server[r].gen
  <2>1. server[r].gen <= job.copy.gen
    BY <1>1, <1>5 DEF Fresh, Latest
  <2>. QED
    BY <1>2, <1>3, <2>1
<1>. QED
  BY <1>4, <1>5 DEF Resolved

LEMMA CommitRulesKnows ==
  ASSUME Understood, NEW k \in Kinds, NEW l \in Listeners, NEW r \in Routes, r = work[k].route,
         CommitRules(k, l)
  PROVE  Known(r)' /\ \A q \in Routes \ {r} : Untouched(q)
<1>1. /\ Typed /\ Busy(k) /\ Works(k, r) /\ Stays(k)
      /\ work[k].pc = "commit" /\ l \in work[k].left
      /\ work'[k].copy = work[k].copy /\ work'[k].at = work[k].at
      /\ work'[k].todo = work[k].todo
      /\ \/ work'[k].pc = "commit" /\ work'[k].left = work[k].left \ {l}
         \/ /\ work[k].left = {l}
            /\ work'[k].left = StaleListeners(work[k]) /\ work'[k].then = "drop"
            /\ work'[k].pc = IF work'[k].left = {} THEN "drop" ELSE "unrule"
      /\ rules' = [rules EXCEPT ![l][r] = work[k].copy.to]
      /\ lost' = lost \ {<<r, l>>}
      /\ UNCHANGED <<server, sets>> /\ NoEvent
  BY CommitRulesParts DEF Understood, Followed
<1>2. /\ Known(r) /\ JobOf(r) = work[k] /\ JobOf(r)' = work'[k]
      /\ work[k] # Nil /\ work'[k] \in Job /\ work'[k] # Nil /\ JobSound(work[k])
      /\ work'[k].route = work[k].route /\ work'[k].seen = work[k].seen
  BY <1>1, WorkerJobs DEF Understood, Busy, Idle, Stays, Works
<1>3. UNCHANGED <<cache, gateway, queue>>
  BY <1>1 DEF NoEvent
<1>4. /\ \A m \in Listeners, q \in Routes :
           rules'[m][q] = IF m = l /\ q = r THEN work[k].copy.to ELSE rules[m][q]
      /\ \A m \in Listeners, q \in Routes :
           m # l \/ q # r => (<<q, m>> \in lost') = (<<q, m>> \in lost)
  BY <1>1 DEF Typed, TypeOK
<1>5. MatchedNow(work'[k]) = MatchedNow(work[k]) /\ StaleListeners(work'[k]) = StaleListeners(work[k])
  BY <1>1, <1>2 DEF MatchedNow, StaleListeners
<1>6. l \in MatchedNow(work[k]) /\ MatchedNow(work[k]) \subseteq Listeners
  <2>1. work[k].at \in Parents /\ work[k].left \subseteq MatchedNow(work[k])
    BY <1>1, <1>2 DEF JobSound, Programs
  <2>. QED
    BY <1>1, <2>1, MatchedTypes
<1>7. Fresh(r)'
  BY <1>1, <1>2, <1>3, WorkerFresh DEF SameSpec, Known
<1>8. ResolvedMeans(r)'
  <2> SUFFICES ASSUME server[r] # Nil, ~server[r].deleting PROVE ResolvedMeans(r)'
    BY <1>1 DEF ResolvedMeans, Live
  <2>1. ASSUME NEW x \in Route, Means(r, x),
               x.gen = server[r].gen /\ Resolved(x) => work[k].copy.to = server[r].to
        PROVE  Means(r, x)'
    <3>1. \A m \in x.recorded : m \in Listeners
      BY <1>1, VersionTypes
    <3>2. ASSUME x.gen = server[r].gen, Resolved(x), NEW m \in x.recorded
          PROVE  <<r, m>> \in lost' \/ rules'[m][r] = server[r].to
      BY <1>4, <2>1, <3>1, <3>2 DEF Means, Made
    <3>. QED
      BY <1>1, <3>2 DEF Means, Made, Resolved
  <2>2. /\ server[r] \in Route /\ (cache[r] # Nil => cache[r] \in Route)
        /\ work[k].copy \in Route
    BY <1>1, <1>2, VersionTypes
  <2>3. /\ work[k].copy.gen = server[r].gen => work[k].copy.to = server[r].to
        /\ Resolved(server[r]) => work[k].copy.gen = server[r].gen
        /\ cache[r] # Nil /\ cache[r].gen = server[r].gen /\ Resolved(cache[r]) =>
             work[k].copy.gen = server[r].gen
    BY <1>1, <1>2, GenSays DEF Known
  <2>4. /\ Means(r, server[r]) /\ (cache[r] # Nil => Means(r, cache[r]))
        /\ Means(r, work[k].copy)
    BY <1>2 DEF Known, ResolvedMeans, Live
  <2>5. Means(r, server[r])'
    BY <1>1, <2>1, <2>2, <2>3, <2>4 DEF Means
  <2>6. cache[r] # Nil => Means(r, cache[r])'
    BY <1>3, <2>1, <2>2, <2>3, <2>4 DEF Means
  <2>7. Means(r, JobOf(r).copy)'
    BY <1>1, <1>2, <2>1, <2>2, <2>3, <2>4 DEF Means
  <2>. QED
    BY <1>3, <2>5, <2>6, <2>7 DEF ResolvedMeans
<1>9. Committed(r)'
  <2>1. \A m \in MatchedNow(work[k]) \ work[k].left : Made(r, m, work[k].copy.to)
    BY <1>1, <1>2 DEF Known, Committed
  <2>2. \A m \in MatchedNow(work[k]) : m \notin work[k].left \ {l} =>
          <<r, m>> \in lost' \/ rules'[m][r] = work[k].copy.to
    BY <1>4, <1>6, <2>1 DEF Made
  <2>3. CASE work'[k].pc = "commit" /\ work'[k].left = work[k].left \ {l}
    BY <1>1, <1>2, <1>5, <2>2, <2>3 DEF Committed, Made, MatchedNow
  <2>4. CASE /\ work[k].left = {l}
             /\ work'[k].left = StaleListeners(work[k])
             /\ work'[k].pc = IF work'[k].left = {} THEN "drop" ELSE "unrule"
    <3>1. \A m \in MatchedNow(work[k]) : <<r, m>> \in lost' \/ rules'[m][r] = work[k].copy.to
      BY <2>2, <2>4
    <3>2. /\ work'[k].pc = "unrule" => StaleListeners(work'[k]) \ work'[k].left = {}
          /\ work'[k].pc \in {"drop", "status", "record"} => StaleListeners(work'[k]) = {}
          /\ work'[k].pc # "commit"
      BY <1>5, <2>4
    <3>. QED
      BY <1>1, <1>2, <1>5, <3>1, <3>2 DEF Committed, Made, MatchedNow, StaleListeners
  <2>. QED
    BY <1>1, <2>3, <2>4
<1>10. Served(r)'
  <2>1. Live(r)' = Live(r) /\ Noticed(r)' = Noticed(r) /\ Home(r)' = Home(r)
    BY <1>1, <1>3 DEF Live, Noticed, Eventful, Home
  <2>2. Programs(work'[k])
    BY <1>1 DEF Programs
  <2>3. ASSUME Live(r), ~Noticed(r), NEW m \in Home(r), <<r, m>> \notin lost'
        PROVE  ToDo(work'[k], m) \/ (RulesDone(r, m)' /\ sets[server[r].to] = "filled")
    <3>1. m \in Listeners
      <4>1. server[r] \in Route
        BY <1>1, <2>3, VersionTypes DEF Live
      <4>. QED
        BY <1>1, <2>3, <4>1, VersionTypes DEF Home, Listeners
    <3>2. CASE m = l
      BY <1>5, <1>6, <2>2, <3>2 DEF ToDo
    <3>3. CASE m # l
      <4>1. <<r, m>> \notin lost /\ rules'[m][r] = rules[m][r]
        BY <1>4, <2>3, <3>1, <3>3
      <4>2. \/ ToDo(work[k], m)
            \/ RulesDone(r, m) /\ sets[server[r].to] = "filled"
        BY <1>1, <1>2, <2>3, <4>1 DEF Known, Served
      <4>3. ToDo(work[k], m) => ToDo(work'[k], m)
        BY <1>1, <1>2, <1>5, <2>2 DEF ToDo
      <4>. QED
        BY <1>1, <4>1, <4>2, <4>3 DEF RulesDone
    <3>. QED
      BY <3>2, <3>3
  <2>. QED
    BY <1>1, <1>2, <2>1, <2>3 DEF Served, ToDo, Programs, MatchedNow
<1>11. \A q \in Routes \ {r} : Untouched(q)
  BY <1>1, <1>3, <1>4, OthersUntouched, SameSets
<1>. QED
  BY <1>7, <1>8, <1>9, <1>10, <1>11 DEF Known

LEMMA RemoveRulesKnows ==
  ASSUME Understood, NEW k \in Kinds, NEW l \in Listeners, NEW r \in Routes, r = work[k].route,
         RemoveRules(k, l)
  PROVE  Known(r)' /\ \A q \in Routes \ {r} : Untouched(q)
<1>1. /\ Typed /\ Busy(k) /\ Works(k, r) /\ Stays(k)
      /\ work[k].pc = "unrule" /\ l \in work[k].left
      /\ work'[k].copy = work[k].copy /\ work'[k].at = work[k].at
      /\ work'[k].todo = work[k].todo
      /\ work'[k].left = work[k].left \ {l} /\ work'[k].then = work[k].then
      /\ rules' = [rules EXCEPT ![l][r] = Nil] /\ lost' = lost \cup {<<r, l>>}
      /\ UNCHANGED <<server, sets>> /\ NoEvent
  BY RemoveRulesParts DEF Understood, Followed
<1>2. /\ work'[k].left = {} => work'[k].pc = work[k].then
      /\ work'[k].left # {} => work'[k].pc = "unrule"
      /\ work[k].then \in {"drop", "deny", "refuse", "clear"}
  BY <1>1, RemoveRulesParts DEF Works, Job
<1>3. /\ Known(r) /\ JobOf(r) = work[k] /\ JobOf(r)' = work'[k]
      /\ work[k] # Nil /\ work'[k] \in Job /\ work'[k] # Nil /\ JobSound(work[k])
      /\ work'[k].route = work[k].route /\ work'[k].seen = work[k].seen
  BY <1>1, WorkerJobs DEF Understood, Busy, Idle, Stays, Works
<1>4. UNCHANGED <<cache, gateway, queue>>
  BY <1>1 DEF NoEvent
<1>5. /\ \A m \in Listeners, q \in Routes : m # l \/ q # r => rules'[m][q] = rules[m][q]
      /\ \A m \in Listeners, q \in Routes :
           m # l \/ q # r => (<<q, m>> \in lost') = (<<q, m>> \in lost)
      /\ <<r, l>> \in lost'
  BY <1>1 DEF Typed, TypeOK
<1>6. MatchedNow(work'[k]) = MatchedNow(work[k]) /\ StaleListeners(work'[k]) = StaleListeners(work[k])
  BY <1>1, <1>3 DEF MatchedNow, StaleListeners
<1>7. \A m \in Listeners :
        <<r, m>> \notin lost' => <<r, m>> \notin lost /\ rules'[m][r] = rules[m][r]
  BY <1>5
<1>8. Fresh(r)'
  BY <1>1, <1>3, <1>4, WorkerFresh DEF SameSpec, Known
<1>9. ResolvedMeans(r)'
  BY <1>1, <1>3, <1>4, <1>7, MeansStays DEF SameSpec, Known
<1>10. Committed(r)'
  <2> SUFFICES ASSUME work[k].then = "drop" PROVE Committed(r)'
    BY <1>1, <1>2, <1>3 DEF Committed
  <2>1. /\ \A m \in MatchedNow(work[k]) : Made(r, m, work[k].copy.to)
        /\ \A m \in StaleListeners(work[k]) \ work[k].left : <<r, m>> \in lost
    BY <1>1, <1>3 DEF Known, Committed
  <2>2. MatchedNow(work[k]) \subseteq Listeners
    <3>1. work[k].at \in Parents
      BY <1>1, <1>3 DEF JobSound, Programs
    <3>. QED
      BY <3>1, MatchedTypes
  <2>3. \A m \in MatchedNow(work[k]) : <<r, m>> \in lost' \/ rules'[m][r] = work[k].copy.to
    BY <1>7, <2>1, <2>2 DEF Made
  <2>4. \A m \in StaleListeners(work[k]) : m \notin work'[k].left => <<r, m>> \in lost'
    BY <1>1, <2>1
  <2>5. \/ work'[k].pc = "unrule"
        \/ work'[k].pc = "drop" /\ work'[k].left = {}
    BY <1>2
  <2>. QED
    BY <1>1, <1>3, <1>6, <2>3, <2>4, <2>5 DEF Committed, Made, MatchedNow, StaleListeners
<1>11. Served(r)'
  <2>1. ~work[k].copy.deleting => work[k].then \in {"drop", "deny", "refuse"}
    BY <1>1, <1>2, <1>3 DEF JobSound, CleansUp
  <2>2. ~work[k].copy.deleting => \A m : ToDo(work[k], m) => ToDo(work'[k], m)
    BY <1>1, <1>2, <1>3, <1>6, <2>1 DEF ToDo, Programs
  <2>3. work[k].pc # "sync"
    BY <1>1
  <2>. QED
    BY <1>1, <1>3, <1>4, <1>7, <2>2, <2>3, ServedStays, SameSets DEF Known
<1>12. \A q \in Routes \ {r} : Untouched(q)
  BY <1>1, <1>4, <1>5, OthersUntouched, SameSets
<1>. QED
  BY <1>8, <1>9, <1>10, <1>11, <1>12 DEF Known

LEMMA SetStatusKnows ==
  ASSUME Understood, NEW k \in Kinds, NEW r \in Routes, r = work[k].route, SetStatus(k)
  PROVE  Known(r)' /\ \A q \in Routes \ {r} : Untouched(q)
<1>1. /\ Typed /\ Busy(k) /\ Works(k, r) /\ Stays(k) /\ Keeps(k)
      /\ StatusWritten(r)
      /\ lost' = lost \cup ({r} \X Overlooked(work[k]))
      /\ UNCHANGED <<rules, sets, slipped>> /\ NoEvent
      /\ work[k].pc = "status" /\ work'[k].pc = "record"
      /\ SameSpec(work'[k].copy, work[k].copy)
      /\ \/ work'[k].copy = work[k].copy
         \/ work'[k].copy = server'[r] /\ server[r] = work[k].copy
      /\ \A p \in Parents : server'[r].resolved[p] \in {server[r].resolved[p], work[k].copy.gen}
  BY SetStatusParts DEF Understood, Followed
<1>2. /\ Known(r) /\ JobOf(r) = work[k] /\ JobOf(r)' = work'[k]
      /\ work[k] # Nil /\ work'[k] \in Job /\ work'[k] # Nil /\ JobSound(work[k])
      /\ work'[k].route = work[k].route /\ work'[k].seen = work[k].seen
  BY <1>1, WorkerJobs DEF Understood, Busy, Idle, Stays, Works
<1>3. UNCHANGED <<cache, gateway, queue>>
  BY <1>1 DEF NoEvent
<1>4. /\ server[r] # Nil /\ server'[r] # Nil /\ SameSpec(server'[r], server[r])
      /\ \A q \in Routes \ {r} : server'[q] = server[q]
  BY <1>1 DEF StatusWritten, Typed, TypeOK
<1>5. MatchedNow(work'[k]) = MatchedNow(work[k]) /\ StaleListeners(work'[k]) = StaleListeners(work[k])
  BY <1>1, <1>2 DEF MatchedNow, StaleListeners, Keeps, SameSpec
<1>6. Fresh(r)'
  <2>1. Typed /\ Fresh(r) /\ UNCHANGED cache /\ queue \subseteq queue'
    BY <1>1, <1>2, <1>3 DEF Known
  <2>2. SameSpec(work'[k].copy, work[k].copy)
    BY <1>1
  <2>3. /\ server'[r].gen = server[r].gen /\ server'[r].to = server[r].to
        /\ server'[r].on = server[r].on /\ server'[r].deleting = server[r].deleting
    BY <1>4 DEF SameSpec
  <2>4. \A p \in Parents : server'[r].resolved[p] \in
                            {server[r].resolved[p], 0, work[k].copy.gen}
    BY <1>1
  <2>. QED
    BY <1>2, <1>4, <2>1, <2>2, <2>3, <2>4, WorkerFresh
<1>7. /\ \A m \in MatchedNow(work[k]) : Made(r, m, work[k].copy.to)
      /\ \A m \in StaleListeners(work[k]) : <<r, m>> \in lost
  BY <1>1, <1>2 DEF Known, Committed
<1>8. lost \subseteq lost'
  BY <1>1
<1>9. Committed(r)'
  BY ZenonT(60), <1>1, <1>2, <1>5, <1>7, <1>8
     DEF Committed, Made, MatchedNow, StaleListeners, SameSpec
<1>10. ResolvedMeans(r)'
  <2> SUFFICES ASSUME Live(r) PROVE ResolvedMeans(r)'
    BY <1>4 DEF ResolvedMeans, Live, SameSpec
  <2>1. /\ work[k].copy.gen = server[r].gen => work[k].copy.to = server[r].to
        /\ Means(r, server[r]) /\ (cache[r] # Nil => Means(r, cache[r]))
        /\ Means(r, work[k].copy)
    BY <1>1, <1>2, <1>4, GenSays DEF Known, ResolvedMeans
  <2>2. ASSUME NEW x, Means(r, x) PROVE Means(r, x)'
    BY <1>1, <1>4, <1>8, <2>2 DEF Means, Made, Resolved, SameSpec
  <2>3. ASSUME Resolved(server'[r]), NEW m \in server[r].recorded
        PROVE  <<r, m>> \in lost' \/ rules[m][r] = server[r].to
    <3>1. CASE Resolved(server[r])
      BY <1>8, <2>1, <2>3, <3>1 DEF Means, Made
    <3>2. CASE ~Resolved(server[r])
      <4>1. work[k].copy.gen = server[r].gen /\ work[k].copy.to = server[r].to
        <5>1. PICK p \in Parents : server'[r].resolved[p] = server[r].gen
          BY <1>4, <2>3 DEF Resolved, SameSpec
        <5>2. server[r].resolved[p] # server[r].gen
          BY <3>2 DEF Resolved
        <5>. QED
          BY <1>1, <2>1, <5>1, <5>2
      <4>2. CASE m \in Merged(work[k])
        BY <1>7, <1>8, <4>1, <4>2 DEF Merged, StaleListeners, Made
      <4>3. CASE m \notin Merged(work[k])
        <5>1. rules[m][r] # work[k].copy.to => m \in Overlooked(work[k])
          BY <2>3, <4>3 DEF Overlooked
        <5>. QED
          BY <1>1, <4>1, <5>1
      <4>. QED
        BY <4>2, <4>3
    <3>. QED
      BY <3>1, <3>2
  <2>4. Means(r, server[r])'
    BY <1>1, <1>4, <2>3 DEF Means, Made, SameSpec, Resolved
  <2>5. cache'[r] # Nil => Means(r, cache[r])'
    BY <1>3, <2>1, <2>2 DEF Means
  <2>6. Means(r, JobOf(r).copy)'
    <3>1. CASE work'[k].copy = work[k].copy
      BY <1>2, <2>1, <2>2, <3>1 DEF Means
    <3>2. CASE work'[k].copy = server'[r]
      BY <1>2, <2>4, <3>2 DEF Means
    <3>. QED
      BY <1>1, <3>1, <3>2
  <2>. QED
    BY <2>4, <2>5, <2>6 DEF ResolvedMeans
<1>11. Served(r)'
  <2>1. \A m : ToDo(work[k], m) => ToDo(work'[k], m)
    BY <1>1, <1>2, <1>5 DEF ToDo, Programs, Keeps
  <2>2. work[k].pc # "sync"
    BY <1>1
  <2>. QED
    BY <1>1, <1>2, <1>3, <1>4, <1>8, <2>1, <2>2, ServedStays, SameSets DEF Known
<1>12. \A q \in Routes \ {r} : Untouched(q)
  BY <1>1, <1>3, <1>4, OthersUntouched, SameSets
<1>. QED
  BY <1>6, <1>9, <1>10, <1>11, <1>12 DEF Known

LEMMA RecordKnows ==
  ASSUME Understood, NEW k \in Kinds, NEW r \in Routes, r = work[k].route, Record(k)
  PROVE  Known(r)' /\ \A q \in Routes \ {r} : Untouched(q)
<1>1. /\ Typed /\ Busy(k) /\ Works(k, r) /\ Stays(k) /\ Keeps(k)
      /\ work[k].pc = "record" /\ work'[k].pc = "sync" /\ work'[k].copy = work[k].copy
      /\ server[r] \in {work[k].copy, cache[r]}
      /\ server[r] \in Route /\ server'[r] \in Route
      /\ server' = [server EXCEPT ![r] = server'[r]]
      /\ server'[r].gen = server[r].gen /\ server'[r].on = server[r].on
      /\ server'[r].to = server[r].to /\ server'[r].deleting = server[r].deleting
      /\ server'[r].recorded = work[k].copy.recorded \cup MatchedNow(work[k])
      /\ server'[r].resolved = server[r].resolved
      /\ UNCHANGED <<rules, sets, lost>> /\ NoEvent
  BY RecordParts DEF Understood, Followed
<1>2. /\ Known(r) /\ JobOf(r) = work[k] /\ JobOf(r)' = work'[k]
      /\ work[k] # Nil /\ work'[k] \in Job /\ work'[k] # Nil /\ JobSound(work[k])
      /\ work'[k].route = work[k].route /\ work'[k].seen = work[k].seen
  BY <1>1, WorkerJobs DEF Understood, Busy, Idle, Stays, Works
<1>3. UNCHANGED <<cache, gateway, queue>>
  BY <1>1 DEF NoEvent
<1>4. /\ server[r] # Nil /\ server'[r] # Nil
      /\ \A q \in Routes \ {r} : server'[q] = server[q]
  BY <1>1 DEF Typed, TypeOK
<1>5. Live(r)' = Live(r) /\ Home(r)' = Home(r)
  BY <1>1, <1>3, <1>4 DEF Live, Home
<1>6. Fresh(r)'
  <2>1. Typed /\ Fresh(r) /\ UNCHANGED cache /\ queue \subseteq queue'
    BY <1>1, <1>2, <1>3 DEF Known
  <2>2. work'[k] \in Job /\ SameSpec(work'[k].copy, work[k].copy)
    BY <1>1, <1>2 DEF SameSpec
  <2>3. server'[r] # Nil =>
          /\ server[r] # Nil
          /\ server'[r].gen = server[r].gen /\ server'[r].to = server[r].to
          /\ server'[r].on = server[r].on /\ server'[r].deleting = server[r].deleting
          /\ \A p \in Parents : server'[r].resolved[p] \in
                                 {server[r].resolved[p], 0, work[k].copy.gen}
    BY <1>1, <1>4
  <2>. QED
    BY <1>2, <2>1, <2>2, <2>3, WorkerFresh
<1>7. \A m \in server'[r].recorded : Made(r, m, work[k].copy.to)
  <2>1. /\ \A m \in MatchedNow(work[k]) : Made(r, m, work[k].copy.to)
        /\ \A m \in StaleListeners(work[k]) : <<r, m>> \in lost
    BY <1>1, <1>2 DEF Known, Committed
  <2>. QED
    BY <1>1, <2>1 DEF StaleListeners, Made
<1>8. ResolvedMeans(r)'
  <2> SUFFICES ASSUME Live(r) PROVE ResolvedMeans(r)'
    BY <1>5 DEF ResolvedMeans
  <2>1. /\ work[k].copy.gen = server[r].gen => work[k].copy.to = server[r].to
        /\ Resolved(server[r]) => work[k].copy.gen = server[r].gen
        /\ (cache[r] # Nil => Means(r, cache[r])) /\ Means(r, work[k].copy)
    BY <1>1, <1>2, <1>4, GenSays DEF Known, ResolvedMeans
  <2>2. Means(r, server[r])'
    <3>1. Resolved(server'[r]) => work[k].copy.to = server'[r].to
      BY <1>1, <2>1 DEF Resolved
    <3>. QED
      BY <1>1, <1>7, <3>1 DEF Means, Made
  <2>3. ASSUME NEW x, Means(r, x) PROVE Means(r, x)'
    BY <1>1, <2>3 DEF Means, Resolved, Made
  <2>. QED
    BY ZenonT(60), <1>1, <1>2, <1>3, <2>1, <2>2, <2>3 DEF ResolvedMeans, Means
<1>9. Committed(r)'
  BY <1>1, <1>2 DEF Committed
\* The record is written over the object that the worker or the cache has.
<1>10. Noticed(r) => Noticed(r)'
  <2> SUFFICES ASSUME r \notin queue, Eventful(cache[r], server[r]) PROVE FALSE
    BY <1>3 DEF Noticed
  <2>1. ~Eventful(work[k].copy, cache[r]) /\ cache[r] # Nil
    BY <1>2, <1>4 DEF Known, Fresh, CopyFresh, Aged
  <2>2. CASE server[r] = cache[r]
    BY <1>4, <2>2 DEF Eventful
  <2>3. CASE server[r] = work[k].copy
    BY <1>4, <2>1, <2>3 DEF Eventful
  <2>. QED
    BY <1>1, <2>2, <2>3
<1>11. Served(r)'
  <2>1. ASSUME Live(r), ~Noticed(r), NEW l \in Home(r), <<r, l>> \notin lost
        PROVE  ToDo(work'[k], l) \/ RulesDone(r, l)'
    <3>1. /\ work[k].copy.to = server[r].to /\ work[k].copy.recorded = server[r].recorded
      BY <1>1, <1>2, <2>1, QuietJob DEF Known
    <3>2. CASE RulesDone(r, l)
      BY <1>1, <3>1, <3>2 DEF RulesDone
    <3>3. CASE ToDo(work[k], l)
      <4>1. CASE l \in MatchedNow(work[k])
        BY <1>1, <1>7, <2>1, <3>1, <4>1 DEF RulesDone, Made
      <4>2. CASE l \notin MatchedNow(work[k])
        BY <1>1, <1>2, <3>3, <4>2 DEF ToDo, Keeps
      <4>. QED
        BY <4>1, <4>2
    <3>. QED
      BY <1>2, <2>1, <3>2, <3>3 DEF Known, Served
  <2>. QED
    BY <1>1, <1>2, <1>5, <1>10, <2>1 DEF Served, ToDo, Programs, MatchedNow
<1>12. \A q \in Routes \ {r} : Untouched(q)
  BY <1>1, <1>3, <1>4, OthersUntouched, SameSets
<1>. QED
  BY <1>6, <1>8, <1>9, <1>11, <1>12 DEF Known

\* A route is at home at listeners that a parent of it matches.
LEMMA HomeMatched ==
  ASSUME NEW r \in Routes, NEW l \in Home(r)
  PROVE  \E p \in server[r].on : /\ l \in Matched(r, gateway, p)
                                 /\ Matching(gateway, p) # {}
BY DEF Home, Matched, Matching, Allowed

LEMMA TakeKnows ==
  ASSUME Understood, NEW k \in Kinds, NEW r \in Routes, Take(k, r)
  PROVE  Known(r)' /\ \A q \in Routes \ {r} : Untouched(q)
<1>1. /\ ~Busy(k) /\ KindOf[r] = k /\ r \in queue /\ queue' = queue \ {r}
      /\ work' = [work EXCEPT ![k] = work'[k]]
      /\ UNCHANGED <<server, rules, sets, lost, slipped>>
      /\ UNCHANGED <<cache, born, gateway, services, edits, crashes>>
  BY TakeParts DEF Understood, Followed
<1>2. \/ /\ work'[k] = Nil
         /\ cache[r] = Nil
              \/ (~cache[r].deleting /\ \A p \in cache[r].on : Matching(gateway, p) = {})
      \/ /\ cache[r] \in Route /\ work'[k] \in Job
         /\ work'[k].route = r /\ work'[k].copy = cache[r] /\ work'[k].seen = gateway
         /\ work'[k].todo = {p \in cache[r].on : Matching(gateway, p) # {}}
         /\ \/ work'[k].pc = "parents" /\ work'[k].todo # {}
            \/ /\ cache[r].deleting /\ work'[k].todo = {}
               /\ work'[k].left = cache[r].recorded /\ work'[k].then = "clear"
               /\ work'[k].pc = IF work'[k].left = {} THEN "clear" ELSE "unrule"
  BY TakeParts DEF Understood, Followed
<1>3. /\ work \in [Kinds -> Job \cup {Nil}] /\ work[k] = Nil
      /\ \A j \in Kinds \ {k} : work'[j] = work[j]
  BY <1>1 DEF Understood, Followed, Typed, TypeOK, Idle, Busy
<1>4. /\ JobOf(r) = Nil /\ JobOf(r)' = work'[k]
      /\ \A q \in Routes \ {r} : JobOf(q)' = JobOf(q)
  <2>1. JobOf(r) = Nil /\ JobOf(r)' = work'[k]
    BY <1>1, <1>2 DEF JobOf, Busy, Idle
  <2>2. ASSUME NEW q \in Routes \ {r} PROVE JobOf(q)' = JobOf(q)
    <3>1. CASE KindOf[q] = k
      BY <1>2, <1>3, <3>1 DEF JobOf, Busy, Idle
    <3>2. CASE KindOf[q] # k
      <4>1. work'[KindOf[q]] = work[KindOf[q]]
        BY <1>3, <3>2
      <4>. QED
        BY <4>1 DEF JobOf, Busy, Idle
    <3>. QED
      BY <3>1, <3>2
  <2>. QED
    BY <2>1, <2>2
<1>5. Known(r) /\ Typed
  BY DEF Understood, Followed
<1>6. work'[k] # Nil => work'[k].copy = cache[r] /\ cache[r] \in Route
  BY <1>2
<1>7. Fresh(r)'
  <2>1. cache[r] # Nil => cache[r].gen \in Nat
    BY <1>5, VersionTypes
  <2>2. Aged(r)'
    <3>1. work'[k] # Nil => cache[r] # Nil /\ Older(cache[r], cache[r])
      BY <1>6, <2>1 DEF Older
    <3>. QED
      BY <1>1, <1>4, <1>5, <1>6, <3>1 DEF Known, Fresh, Aged
  <2>3. Latest(r)'
    <3>1. Newest(r)' = Newest(r)
      BY <1>1, <1>4, <1>6 DEF Newest
    <3>. QED
      BY <1>1, <1>5, <3>1 DEF Known, Fresh, Latest
  <2>4. CopyFresh(r)'
    BY <1>1, <1>4, <1>6 DEF CopyFresh, Eventful
  <2>. QED
    BY <2>2, <2>3, <2>4 DEF Fresh
<1>8. ResolvedMeans(r)'
  BY <1>1, <1>4, <1>5, <1>6 DEF Known, ResolvedMeans, Means, Live, Made, Resolved
<1>9. Committed(r)'
  <2>1. work'[k] # Nil => /\ work'[k].pc \in {"parents", "clear", "unrule"}
                          /\ work'[k].pc = "unrule" => work'[k].then = "clear"
    BY <1>2
  <2>. QED
    BY <1>4, <2>1 DEF Committed
<1>10. Served(r)'
  <2>1. ASSUME Live(r), ~Eventful(cache[r], server[r]), NEW l \in Home(r)
        PROVE  work'[k] # Nil /\ ToDo(work'[k], l)
    <3>1. /\ cache[r] # Nil /\ cache[r].on = server[r].on /\ ~cache[r].deleting
      BY <1>5, <2>1 DEF Known, Fresh, Aged, Older, Eventful, Live
    <3>2. PICK p \in server[r].on : l \in Matched(r, gateway, p) /\ Matching(gateway, p) # {}
      BY HomeMatched
    <3>. QED
      BY <1>2, <3>1, <3>2 DEF ToDo
  <2>2. /\ Live(r)' = Live(r) /\ Home(r)' = Home(r)
        /\ Eventful(cache[r], server[r])' = Eventful(cache[r], server[r])
    BY <1>1 DEF Live, Home, Eventful
  <2>. QED
    BY <1>4, <2>1, <2>2 DEF Served, Noticed, ToDo, Programs, MatchedNow
<1>11. \A q \in Routes \ {r} : Untouched(q)
  BY <1>1, <1>4 DEF Untouched
<1>. QED
  BY <1>7, <1>8, <1>9, <1>10, <1>11 DEF Known

----------------------------------------------------------------------------
(* The steps of the users, the informers, the Gateway's controller and     *)
(* the process.                                                            *)

\* A step of a user, or of the Gateway's controller, about another route.
LEMMA UsersApart ==
  ASSUME Typed, NEW r \in Routes, UNCHANGED <<cache, gateway, queue, work, rules, lost, sets>>,
         server' = [server EXCEPT ![r] = server'[r]]
  PROVE  \A q \in Routes \ {r} : Untouched(q)
BY SameJobs DEF Untouched, Typed, TypeOK

LEMMA CreateKnows ==
  ASSUME Understood, NEW r \in Routes, Create(r)
  PROVE  Known(r)' /\ \A q \in Routes \ {r} : Untouched(q)
<1>1. /\ r \notin born /\ server'[r].gen = 1 /\ server'[r].recorded = {}
      /\ server'[r] \in Route /\ server' = [server EXCEPT ![r] = server'[r]]
      /\ \A p \in Parents : server'[r].resolved[p] = 0
      /\ UNCHANGED <<cache, gateway, queue, work, rules, lost, sets>>
  BY CreateParts DEF Understood, Followed
<1>2. cache[r] = Nil /\ JobOf(r)' = Nil
  BY <1>1, SameJobs DEF Understood, Followed, Kept, Ages
<1>3. Fresh(r)'
  BY <1>1, <1>2 DEF Fresh, Aged, Latest, Newest, CopyFresh
<1>4. ResolvedMeans(r)' /\ Committed(r)' /\ Served(r)'
  BY <1>1, <1>2 DEF ResolvedMeans, Means, Committed, Served, Noticed, Eventful
<1>5. \A q \in Routes \ {r} : Untouched(q)
  BY <1>1, UsersApart DEF Understood, Followed
<1>. QED
  BY <1>3, <1>4, <1>5 DEF Known

\* A new generation, which no worker and no informer has seen.
LEMMA NewGenKnows ==
  ASSUME Understood, NEW r \in Routes, server[r] # Nil,
         UNCHANGED <<cache, gateway, queue, work, rules, lost, sets>>,
         server'[r] # Nil => /\ server'[r].gen = server[r].gen + 1
                             /\ server'[r].resolved = server[r].resolved
  PROVE  Known(r)'
<1>1. /\ Typed /\ Known(r) /\ server[r].gen \in Nat
      /\ cache[r] # Nil => cache[r].gen \in Nat
      /\ JobOf(r) # Nil => JobOf(r).copy.gen \in Nat
  BY VersionTypes DEF Understood, Followed
<1>2. JobOf(r)' = JobOf(r)
  BY SameJobs
<1>3. CASE server'[r] = Nil
  <2>1. Fresh(r)' /\ ~Live(r)'
    BY <1>3 DEF Fresh, Aged, Latest, CopyFresh, Live
  <2>2. Committed(r)'
    BY <1>1, <1>2 DEF Known, Committed, Made, MatchedNow, StaleListeners
  <2>. QED
    BY <2>1, <2>2 DEF Known, ResolvedMeans, Served
<1>4. CASE server'[r] # Nil
  <2>1. /\ cache[r] # Nil => cache[r].gen <= server[r].gen
        /\ JobOf(r) # Nil => cache[r] # Nil /\ JobOf(r).copy.gen <= cache[r].gen
    BY <1>1 DEF Known, Fresh, Aged, Older
  <2>2. /\ cache[r] # Nil => cache[r].gen <= server'[r].gen /\ cache[r].gen # server'[r].gen
        /\ JobOf(r) # Nil => JobOf(r).copy.gen # server'[r].gen
        /\ server'[r].gen > 0
    BY <1>1, <1>4, <2>1
  <2>3. Fresh(r)'
    <3>1. Aged(r)'
      BY <1>1, <1>2, <2>2 DEF Known, Fresh, Aged, Older
    <3>2. Latest(r)'
      BY <1>1, <1>2, <1>4 DEF Known, Fresh, Latest, Newest
    <3>3. CopyFresh(r)'
      BY <1>1, <1>2 DEF Known, Fresh, CopyFresh, Eventful
    <3>. QED
      BY <3>1, <3>2, <3>3 DEF Fresh
  <2>4. Noticed(r)'
    BY <2>2 DEF Noticed, Eventful
  <2>5. ~Resolved(server'[r])
    <3>1. Newest(r) \in Nat /\ Newest(r) <= server[r].gen
      BY <1>1, <2>1 DEF Newest
    <3>2. \A p \in Parents : server[r].resolved[p] \in Nat /\ server[r].resolved[p] <= Newest(r)
      <4>1. server[r] \in Route
        BY <1>1, VersionTypes
      <4>. QED
        BY <1>1, <4>1, VersionTypes DEF Known, Fresh, Latest
    <3>3. \A p \in Parents : server'[r].resolved[p] # server'[r].gen
      BY <1>1, <1>4, <3>1, <3>2
    <3>. QED
      BY <3>3 DEF Resolved
  <2>6. ResolvedMeans(r)'
    BY <1>2, <2>2, <2>5 DEF ResolvedMeans, Means, Resolved
  <2>7. Committed(r)'
    BY <1>1, <1>2 DEF Known, Committed, Made, MatchedNow, StaleListeners
  <2>. QED
    BY <2>3, <2>4, <2>6, <2>7 DEF Known, Served
<1>. QED
  BY <1>3, <1>4

LEMMA UsersKnow ==
  ASSUME Understood, NEW r \in Routes,
         \/ Delete(r)
         \/ \E s \in Services : Redirect(r, s)
         \/ \E on \in SUBSET Parents : Attach(r, on)
  PROVE  Known(r)' /\ \A q \in Routes \ {r} : Untouched(q)
<1>1. Typed
  BY DEF Understood, Followed
<1>2. CASE Delete(r)
  <2>1. /\ server[r] # Nil /\ server' = [server EXCEPT ![r] = server'[r]]
        /\ server'[r] # Nil => /\ server'[r].gen = server[r].gen + 1
                               /\ server'[r].resolved = server[r].resolved
        /\ UNCHANGED <<cache, gateway, queue, work, rules, lost, sets>>
    BY <1>1, <1>2, DeleteParts
  <2>. QED
    BY <1>1, <2>1, NewGenKnows, UsersApart
<1>3. CASE (\E s \in Services : Redirect(r, s)) \/ (\E on \in SUBSET Parents : Attach(r, on))
  <2>1. /\ server[r] # Nil /\ server' = [server EXCEPT ![r] = server'[r]]
        /\ server'[r] # Nil => /\ server'[r].gen = server[r].gen + 1
                               /\ server'[r].resolved = server[r].resolved
        /\ UNCHANGED <<cache, gateway, queue, work, rules, lost, sets>>
    BY <1>1, <1>3, EditParts
  <2>. QED
    BY <1>1, <2>1, NewGenKnows, UsersApart
<1>. QED
  BY <1>2, <1>3

\* The route and its rules stay; the listeners change under routes that are queued.
LEMMA EditListenerKnows ==
  ASSUME Understood, NEW l \in Listeners, NEW st \in {"absent", "same", "all"},
         EditListener(l, st), NEW r \in Routes
  PROVE  Known(r)'
<1>1. /\ gateway' = [gateway EXCEPT ![l] = st]
      /\ queue' = queue \cup {q \in Routes : /\ cache[q] # Nil /\ ~cache[q].deleting
                                             /\ \E p \in cache[q].on : l \in ListenersOf[p]}
      /\ UNCHANGED <<server, cache, work, rules, lost, sets>>
  BY DEF EditListener
<1>2. Typed /\ Known(r) /\ JobOf(r)' = JobOf(r) /\ Live(r)' = Live(r)
  BY <1>1, SameJobs DEF Understood, Followed, Live
<1>3. Fresh(r)'
  BY <1>1, <1>2 DEF Known, Fresh, Aged, Older, Latest, Newest, CopyFresh, Eventful
<1>4. ResolvedMeans(r)' /\ Committed(r)'
  BY <1>1, <1>2 DEF Known, ResolvedMeans, Means, Resolved, Committed, Made, MatchedNow,
     StaleListeners
<1>5. Served(r)'
  <2>1. ASSUME Live(r), ~Noticed(r)', NEW m \in Home(r)'
        PROVE  m \in Home(r) /\ ~Noticed(r)
    <3>1. r \notin queue' /\ ~Noticed(r) /\ ~Eventful(cache[r], server[r])
      BY <1>1, <2>1 DEF Noticed, Eventful
    <3>2. cache[r] # Nil /\ ~cache[r].deleting /\ cache[r].on = server[r].on
      BY <1>2, <2>1, <3>1 DEF Known, Fresh, Aged, Older, Eventful, Live
    <3>3. \A p \in server[r].on : l \notin ListenersOf[p]
      BY <1>1, <3>1, <3>2
    <3>4. \A p \in server[r].on : \A n \in ListenersOf[p] : gateway'[n] = gateway[n]
      BY <1>1, <1>2, <3>3 DEF Typed, TypeOK
    <3>5. m \in Home(r)
      BY <1>1, <2>1, <3>4 DEF Home
    <3>. QED
      BY <3>1, <3>5
  <2>. QED
    BY <1>1, <1>2, <2>1 DEF Known, Served, RulesDone, ToDo, Programs, MatchedNow
<1>. QED
  BY <1>3, <1>4, <1>5 DEF Known

\* The informers catch up with the object.
LEMMA ObserveKnows ==
  ASSUME Understood, NEW r \in Routes, Observe(r)
  PROVE  Known(r)' /\ \A q \in Routes \ {r} : Untouched(q)
<1>1. /\ cache' = [cache EXCEPT ![r] = server[r]]
      /\ queue \subseteq queue'
      /\ Eventful(cache[r], server[r]) => r \in queue'
      /\ UNCHANGED <<server, gateway, work, rules, lost, sets>>
  BY DEF Observe, NoOCI
<1>2. /\ Typed /\ Known(r) /\ cache'[r] = server[r] /\ \A q \in Routes : JobOf(q)' = JobOf(q)
      /\ Home(r)' = Home(r) /\ Live(r)' = Live(r)
  BY <1>1, SameJobs DEF Understood, Followed, Typed, TypeOK, Home, Live
<1>3. /\ server[r] # Nil => server[r].gen \in Nat
      /\ cache[r] # Nil => cache[r].gen \in Nat
      /\ JobOf(r) # Nil => JobOf(r).copy.gen \in Nat
  BY <1>2, VersionTypes
<1>4. Fresh(r)'
  <2>1. Aged(r)'
    BY <1>1, <1>2, <1>3 DEF Known, Fresh, Aged, Older
  <2>2. Latest(r)'
    <3>1. CASE server[r] = Nil
      BY <1>1, <3>1 DEF Latest
    <3>2. CASE server[r] # Nil
      <4>1. Newest(r) \in Nat /\ Newest(r)' \in Nat /\ Newest(r) <= Newest(r)'
        BY <1>2, <1>3, <3>2 DEF Newest, Known, Fresh, Aged, Older
      <4>2. \A p \in Parents : server[r].resolved[p] \in Nat /\ server[r].resolved[p] <= Newest(r)
        BY <1>2, <3>2, VersionTypes DEF Known, Fresh, Latest
      <4>3. \A p \in Parents : server[r].resolved[p] <= Newest(r)'
        BY <4>1, <4>2
      <4>. QED
        BY <1>1, <1>2, <4>3 DEF Latest
    <3>. QED
      BY <3>1, <3>2
  <2>3. CopyFresh(r)'
    <3>1. ASSUME server[r] # Nil, JobOf(r) # Nil, r \notin queue'
          PROVE  ~Eventful(JobOf(r).copy, server[r])
      <4>1. ~Eventful(JobOf(r).copy, cache[r]) /\ ~Eventful(cache[r], server[r])
        BY <1>1, <1>2, <3>1 DEF Known, Fresh, CopyFresh
      <4>. QED
        BY <4>1 DEF Eventful
    <3>. QED
      BY <1>1, <1>2, <3>1 DEF CopyFresh, Eventful
  <2>. QED
    BY <2>1, <2>2, <2>3 DEF Fresh
<1>5. ResolvedMeans(r)' /\ Committed(r)'
  BY <1>1, <1>2 DEF Known, ResolvedMeans, Means, Resolved, Committed, Made, MatchedNow,
     StaleListeners, Live
<1>6. Served(r)'
  <2>1. Noticed(r) => Noticed(r)' \/ r \in queue'
    BY <1>1 DEF Noticed
  <2>2. ~Noticed(r)' => r \notin queue'
    BY DEF Noticed
  <2>. QED
    BY <1>1, <1>2, <2>1, <2>2 DEF Known, Served, RulesDone, ToDo, Programs, MatchedNow
<1>7. \A q \in Routes \ {r} : Untouched(q)
  BY <1>1, <1>2 DEF Untouched, Typed, TypeOK
<1>. QED
  BY <1>4, <1>5, <1>6, <1>7 DEF Known

\* Other services, a policy that the Gateway's controller removes, and stuttering.
LEMMA RestKnows ==
  ASSUME Understood,
         \/ \E s \in Services : EditService(s)
         \/ \E l \in Listeners : GatewayRemoves(l)
         \/ UNCHANGED vars,
         NEW r \in Routes
  PROVE  Untouched(r)
<1>1. /\ UNCHANGED <<server, cache, gateway, work, sets>> /\ queue \subseteq queue'
  BY DEF EditService, GatewayRemoves, vars, NoOCI
<1>2. \A m \in Listeners : <<r, m>> \notin lost' =>
        <<r, m>> \notin lost /\ rules'[m][r] = rules[m][r]
  <2>1. ASSUME NEW l \in Listeners, GatewayRemoves(l), NEW m \in Listeners, <<r, m>> \notin lost'
        PROVE  <<r, m>> \notin lost /\ rules'[m][r] = rules[m][r]
    <3>1. /\ rules' = [rules EXCEPT ![l] = [q \in Routes |-> Nil]]
          /\ lost' = lost \cup {<<q, l>> : q \in {q \in Routes : rules[l][q] # Nil}}
      BY <2>1 DEF GatewayRemoves
    <3>2. rules'[m][r] = IF m = l THEN Nil ELSE rules[m][r]
      BY <3>1 DEF Understood, Followed, Typed, TypeOK
    <3>. QED
      BY <2>1, <3>1, <3>2
  <2>2. CASE UNCHANGED <<rules, lost>>
    BY <2>2
  <2>. QED
    BY <2>1, <2>2 DEF EditService, vars, NoOCI
<1>3. JobOf(r)' = JobOf(r)
  BY <1>1, SameJobs
<1>. QED
  BY <1>1, <1>2, <1>3 DEF Untouched

LEMMA CrashKnows ==
  ASSUME Understood, Crash, NEW r \in Routes
  PROVE  Known(r)'
<1>1. /\ work' = [k \in Kinds |-> Nil] /\ cache' = server
      /\ queue' = {q \in Routes : server[q] # Nil}
      /\ UNCHANGED <<server, gateway, rules, lost>>
  BY DEF Crash, NoOCI, Idle
<1>2. Typed /\ Known(r) /\ JobOf(r)' = Nil /\ Live(r)' = Live(r)
  BY <1>1 DEF Understood, Followed, JobOf, Busy, Idle, Live
<1>3. Fresh(r)'
  <2>1. server[r] # Nil => /\ server[r] \in Route /\ server[r].gen \in Nat
                           /\ Older(server[r], server[r])
    BY <1>2, VersionTypes DEF Older
  <2>2. Aged(r)' /\ CopyFresh(r)'
    BY <1>1, <1>2, <2>1 DEF Known, Fresh, Aged, CopyFresh
  <2>3. server[r] # Nil => \A p \in Parents : server[r].resolved[p] <= server[r].gen
    <3>1. server[r] # Nil => Newest(r) \in Nat /\ Newest(r) <= server[r].gen
      BY <1>2, <2>1, VersionTypes DEF Newest, Known, Fresh, Aged, Older
    <3>2. server[r] # Nil =>
            \A p \in Parents : server[r].resolved[p] \in Nat /\ server[r].resolved[p] <= Newest(r)
      BY <1>2, <2>1, VersionTypes DEF Known, Fresh, Latest
    <3>. QED
      BY <2>1, <3>1, <3>2
  <2>4. Latest(r)'
    BY <1>1, <1>2, <2>3 DEF Latest, Newest
  <2>. QED
    BY <2>2, <2>4 DEF Fresh
<1>4. ResolvedMeans(r)' /\ Committed(r)'
  BY <1>1, <1>2 DEF Known, ResolvedMeans, Means, Resolved, Committed, Made, Live
<1>5. Served(r)'
  BY <1>1 DEF Served, Noticed, Live
<1>. QED
  BY <1>3, <1>4, <1>5 DEF Known

LEMMA NextUnderstood == Understood /\ [Next]_vars => Understood'
<1> SUFFICES ASSUME Understood, [Next]_vars PROVE Understood'
  OBVIOUS
<1>1. Followed' /\ Typed /\ \A r \in Routes : Known(r)
  BY NextFollows DEF Understood, Followed
<1>2. ASSUME NEW r \in Routes, Known(r)' /\ \A q \in Routes \ {r} : Untouched(q)
      PROVE  Understood'
  BY <1>1, <1>2, UntouchedKnown DEF Understood
<1>3. ASSUME NEW k \in Kinds, Step(k) \/ Fail(k) PROVE Understood'
  <2>1. ASSUME Busy(k) PROVE \E r \in Routes : r = work[k].route
    BY <1>1, <2>1, BusySays
  <2>2. ASSUME NEW r \in Routes, r = work[k].route, ~\E q \in Routes : Take(k, q)
        PROVE  Known(r)' /\ \A q \in Routes \ {r} : Untouched(q)
    BY <1>3, <2>2, NextParentKnows, PreparationKnows, SetsKnows, DoneKnows, FailKnows,
       RemoveFinalizerKnows, CommitRulesKnows, RemoveRulesKnows, SetStatusKnows, RecordKnows
       DEF Step
  <2>3. CASE \E r \in Routes : Take(k, r)
    BY <1>2, <2>3, TakeKnows
  <2>4. CASE ~\E r \in Routes : Take(k, r)
    <3>1. Busy(k)
      BY <1>3, <2>4 DEF Step, Fail, At, CommitRules, RemoveRules, NextParent, SetPending,
         ResolveBackends, EnsureSet, DropStaleSets, SetStatus, Record, SyncEndpoints, Deny,
         Refuse, CheckSet, DeleteSet, RemoveFinalizer
    <3>. QED
      BY <1>2, <2>1, <2>2, <2>4, <3>1
  <2>. QED
    BY <2>3, <2>4
<1>4. CASE Users
  <2>1. ASSUME NEW r \in Routes, Create(r) \/ Delete(r) PROVE Understood'
    BY <1>2, <2>1, CreateKnows, UsersKnow
  <2>2. ASSUME NEW r \in Routes,
               \/ \E s \in Services : Redirect(r, s)
               \/ \E on \in SUBSET Parents : Attach(r, on)
        PROVE  Understood'
    BY <1>2, <2>2, UsersKnow
  <2>3. CASE \E l \in Listeners, st \in {"absent", "same", "all"} : EditListener(l, st)
    BY <1>1, <2>3, EditListenerKnows DEF Understood
  <2>4. CASE \E s \in Services : EditService(s)
    BY <1>1, <2>4, RestKnows, UntouchedKnown DEF Understood
  <2>. QED
    BY <1>4, <2>1, <2>2, <2>3, <2>4 DEF Users
<1>5. CASE \E r \in Routes : Observe(r)
  BY <1>2, <1>5, ObserveKnows
<1>6. CASE (\E l \in Listeners : GatewayRemoves(l)) \/ UNCHANGED vars
  BY <1>1, <1>6, RestKnows, UntouchedKnown DEF Understood
<1>7. CASE Crash
  BY <1>1, <1>7, CrashKnows DEF Understood
<1>. QED
  BY <1>3, <1>4, <1>5, <1>6, <1>7 DEF Next

LEMMA InitUnderstood == Init => Understood
<1> SUFFICES ASSUME Init PROVE Understood
  OBVIOUS
<1>1. ASSUME NEW r \in Routes PROVE Known(r)
  <2>1. server[r] = Nil /\ JobOf(r) = Nil
    BY DEF Init, JobOf, Busy, Idle
  <2>. QED
    BY <2>1 DEF Known, Fresh, Aged, Latest, CopyFresh, ResolvedMeans, Committed, Served, Live
<1>. QED
  BY <1>1, InitFollows DEF Understood

LEMMA AlwaysUnderstood == Spec => []Understood
BY InitUnderstood, NextUnderstood, PTL DEF Spec

\* When everything has settled, a live route has its rules at every listener that takes
\* it, on record and with their endpoints, except where `lost' says that the code has
\* nothing to bring them back.
THEOREM RoutesServedHolds == Spec => []RoutesServed
<1>1. Understood => RoutesServed
  <2> SUFFICES ASSUME Understood, Settled,
                      NEW r \in Routes, server[r] # Nil, ~server[r].deleting,
                      NEW l \in Home(r), <<r, l>> \notin lost
               PROVE  /\ rules[l][r] = server[r].to
                      /\ l \in server[r].recorded
                      /\ sets[server[r].to] = "filled"
    BY DEF RoutesServed
  <2>1. Known(r) /\ Live(r) /\ JobOf(r) = Nil
    BY DEF Understood, Live, Settled, JobOf
  <2>2. ~Noticed(r)
    BY DEF Settled, Noticed, Eventful
  <2>. QED
    BY <2>1, <2>2 DEF Known, Served, RulesDone
<1>. QED
  BY <1>1, AlwaysUnderstood, PTL

=============================================================================
