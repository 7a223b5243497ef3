---------------------------- MODULE NLBGatewayProofs ----------------------------
(***************************************************************************)
(* Proofs about NLBGateway, for every set of names, shapes and             *)
(* specifications, and every bound.                                        *)
(*                                                                         *)
(* That the Gateway is protected while its load balancer is written rests  *)
(* on two facts.  A reconcile that programs has itself put the finalizer   *)
(* on the Gateway, and nobody else removes it.  A reconcile that cleans up *)
(* finds the finalizer, because once the Gateway is gone the informer's    *)
(* old copy of it is not reconciled again: nothing that could queue it has *)
(* happened since the reconcile that removed the finalizer was taken.      *)
(***************************************************************************)
EXTENDS NLBGateway, TLAPS

\* The informer is behind the API server, not ahead.
CacheIsOlder ==
  /\ server # Nil => cache # Nil
  /\ cache # Nil /\ cache.deleting => server = Nil \/ server.deleting

\* From the read of the load balancer to the end of its requests.
Writing == job.pc \in {"read", "write", "wait"}
Ending == job.pc \in {"refresh", "report", "record", "reject"}

\* A reconcile that programs has put the finalizer on the Gateway.
ProgramsProtected ==
  Busy /\ (Ending \/ ((Writing \/ job.pc = "release") /\ ~job.copy.deleting)) =>
    server # Nil /\ server.finalizer

\* A reconcile that cleans up has a Gateway whose deletion nobody can take back; if its
\* copy is the current one, nothing has queued the Gateway since it was taken.
CleansUpProtected ==
  Busy /\ job.copy.deleting /\ (Writing \/ job.pc = "release") =>
    /\ server # Nil /\ server.deleting /\ server.finalizer
    /\ server = job.copy => cache = server /\ ~queued

\* Until the request is done or the load balancer written, a reconcile that programs
\* started from a Gateway that was not being deleted.
StartsUndeleted ==
  Busy /\ job.pc \in {"accept", "check", "pend", "protect"} => ~job.copy.deleting

\* A Gateway that is gone is not reconciled from the informer's old copy.
GoneIsNotQueued ==
  server = Nil /\ cache # Nil /\ cache.deleting => ~queued /\ ~Busy

Protection ==
  /\ CacheIsOlder
  /\ ProgramsProtected
  /\ CleansUpProtected
  /\ StartsUndeleted
  /\ GoneIsNotQueued

USE NLBGatewayAssumption, NilAssumption

----------------------------------------------------------------------------
(* Types.                                                                  *)

\* The type of the worker's state, as a part of TypeOK.
JobOK == Busy => job \in Job /\ (job.todo # {} => job.pc \in {"write", "wait"})

LEMMA NewTyped ==
  ASSUME NEW spec \in Specs
  PROVE  New(spec) \in Gateway /\ ~New(spec).deleting
BY DEF New, Gateway, Generations, Condition

LEMMA InitTyped == Init => TypeOK
<1> SUFFICES ASSUME Init PROVE TypeOK
  OBVIOUS
<1>1. PICK spec \in Specs : server = New(spec)
  BY DEF Init
<1>2. server \in Gateway /\ cache = server /\ ~server.deleting
  BY <1>1, NewTyped DEF Init
<1>3. listeners \in [Names -> Shapes \cup {Nil}] /\ sets \subseteq Names
  BY DEF Init, Shapes
<1>4. named \subseteq Names
  BY DEF Init, Desired
<1>5. \A g \in {server, cache} \ {Nil} : g.deleting => g.finalizer
  BY <1>2
<1>6. crashes \in 0..MaxCrashes
  BY DEF Init
<1>7. pending = Nil /\ ~Busy /\ queued = TRUE /\ misreported = FALSE
  BY DEF Init, Busy
<1>. QED
  BY <1>2, <1>3, <1>4, <1>5, <1>6, <1>7 DEF TypeOK

\* A write of the worker changes the Gateway and its copy of it, and nothing else.
LEMMA UpdateTyped ==
  ASSUME TypeOK, Busy, job.pc \notin {"write", "wait"}, NEW pc \in PCs,
         NEW new \in Gateway, new.deleting => new.finalizer,
         Update(new, pc), misreported' \in BOOLEAN, named' = named
  PROVE  TypeOK'
<1>1. job \in Job /\ job.todo = {}
  BY DEF TypeOK
<1>2. job' \in Job /\ job'.todo = {}
  BY <1>1 DEF Update, Job
<1>. QED
  BY <1>2 DEF Update, TypeOK, Busy, oci

LEMMA ConditionTyped ==
  ASSUME NEW g \in Gateway, NEW c \in Gateway, NEW status \in {"Unknown", "False", "True"}
  PROVE  /\ [g EXCEPT !.accepted = [status |-> status, generation |-> c.generation]]
              \in Gateway
         /\ [g EXCEPT !.programmed = [status |-> status, generation |-> c.generation]]
              \in Gateway
<1>1. [status |-> status, generation |-> c.generation] \in Condition
  BY DEF Gateway, Condition, Generations
<1>. QED
  BY <1>1 DEF Gateway

LEMMA SetConditionTyped ==
  ASSUME TypeOK, Busy, job.pc \notin {"write", "wait"}, NEW pc \in PCs,
         NEW status \in {"Unknown", "False", "True"},
         SetAccepted(status, pc) \/ SetProgrammed(status, pc),
         misreported' \in BOOLEAN, named' = named
  PROVE  TypeOK'
<1>1. server \in Gateway /\ job.copy \in Gateway /\ (server.deleting => server.finalizer)
  BY DEF TypeOK, Job, SetAccepted, SetProgrammed, Update, Current
<1>. DEFINE a == [server EXCEPT !.accepted =
                   [status |-> status, generation |-> job.copy.generation]]
            p == [server EXCEPT !.programmed =
                   [status |-> status, generation |-> job.copy.generation]]
<1>2. a \in Gateway /\ p \in Gateway
  BY <1>1, ConditionTyped
<1>3. (a.deleting => a.finalizer) /\ (p.deleting => p.finalizer)
  BY <1>1 DEF Gateway
<1>4. Update(a, pc) \/ Update(p, pc)
  BY DEF SetAccepted, SetProgrammed
<1>. HIDE DEF a, p
<1>. QED
  BY <1>2, <1>3, <1>4, UpdateTyped

\* A step that moves the worker on, and leaves its copies alone.
LEMMA GotoTyped ==
  ASSUME TypeOK, Busy, NEW pc \in PCs, Goto(pc),
         job.todo # {} => pc \in {"write", "wait"},
         UNCHANGED <<server, cache, oci, queued, crashes, history>>
  PROVE  TypeOK'
BY DEF TypeOK, Goto, Busy, Job, oci, history

LEMMA TakeTyped == TypeOK /\ Take => TypeOK'
<1> SUFFICES ASSUME TypeOK, Take PROVE TypeOK'
  OBVIOUS
<1>1. job' = Nil \/ (job' \in Job /\ job'.todo = {})
  <2>1. CASE cache = Nil \/ (cache.deleting /\ ~cache.finalizer)
    BY <2>1 DEF Take
  <2>2. CASE ~(cache = Nil \/ (cache.deleting /\ ~cache.finalizer))
    <3>1. cache \in Gateway
      BY <2>2 DEF TypeOK
    <3>. QED
      BY <2>2, <3>1 DEF Take, Job, PCs
  <2>. QED
    BY <2>1, <2>2
<1>. QED
  BY <1>1 DEF Take, TypeOK, Busy, oci, history

LEMMA AcceptTyped == TypeOK /\ Accept => TypeOK'
<1> SUFFICES ASSUME TypeOK, Accept PROVE TypeOK'
  OBVIOUS
<1>1. Busy /\ job.pc = "accept" /\ job.todo = {} /\ "check" \in PCs
  BY DEF Accept, At, TypeOK, PCs
<1>2. misreported' \in BOOLEAN /\ named' = named
  BY DEF Accept, history, TypeOK
<1>3. CASE IsSet(job.copy.accepted, job.copy)
  BY <1>1, <1>3, GotoTyped DEF Accept
<1>4. CASE ~IsSet(job.copy.accepted, job.copy)
  BY <1>1, <1>2, <1>4, SetConditionTyped DEF Accept
<1>. QED
  BY <1>3, <1>4

\* The steps of the worker that write nothing.
LEMMA QuietTyped ==
  TypeOK /\ (CheckProgrammed \/ Waited \/ Written \/ Refresh) => TypeOK'
<1> SUFFICES ASSUME TypeOK, CheckProgrammed \/ Waited \/ Written \/ Refresh PROVE TypeOK'
  OBVIOUS
<1>1. CASE CheckProgrammed
  <2>1. Busy /\ job.todo = {} /\ "pend" \in PCs
    BY <1>1 DEF CheckProgrammed, At, TypeOK, PCs
  <2>2. CASE Programmed(job.copy)
    BY <1>1, <2>2 DEF CheckProgrammed, Finish, TypeOK, Busy, oci, history
  <2>3. CASE ~Programmed(job.copy)
    BY <1>1, <2>1, <2>3, GotoTyped DEF CheckProgrammed
  <2>. QED
    BY <2>2, <2>3
<1>2. CASE Waited
  BY <1>2, GotoTyped DEF Waited, At, PCs
<1>3. CASE Written
  <2>1. Busy /\ job.todo = {} /\ "release" \in PCs /\ "refresh" \in PCs
    BY <1>3 DEF Written, At, PCs
  <2>. QED
    BY <1>3, <2>1, GotoTyped DEF Written
<1>4. CASE Refresh
  <2>1. job \in Job /\ job.todo = {} /\ cache \in Gateway
    BY <1>4 DEF Refresh, At, TypeOK
  <2>2. job' \in Job /\ job'.todo = {}
    BY <1>4, <2>1 DEF Refresh, Job, PCs
  <2>. QED
    BY <1>4, <2>2 DEF Refresh, TypeOK, Busy, oci, history
<1>. QED
  BY <1>1, <1>2, <1>3, <1>4

\* The steps of the worker that write a condition.
LEMMA ConditionStepsTyped == TypeOK /\ (MarkPending \/ Report) => TypeOK'
<1> SUFFICES ASSUME TypeOK, MarkPending \/ Report PROVE TypeOK'
  OBVIOUS
<1>1. Busy /\ job.pc \notin {"write", "wait"} /\ {"protect", "record"} \subseteq PCs
  BY DEF MarkPending, Report, At, PCs
<1>2. misreported' \in BOOLEAN /\ named' = named
  BY DEF MarkPending, Report, history, TypeOK
<1>. QED
  BY <1>1, <1>2, SetConditionTyped DEF MarkPending, Report

LEMMA ProtectTyped == TypeOK /\ Protect => TypeOK'
<1> SUFFICES ASSUME TypeOK, Protect PROVE TypeOK'
  OBVIOUS
<1>1. Busy /\ job.pc \notin {"write", "wait"} /\ "read" \in PCs
  BY DEF Protect, At, PCs
<1>2. misreported' \in BOOLEAN /\ named' = named
  BY DEF Protect, history, TypeOK
<1>3. server \in Gateway
  BY DEF Protect, Update, Current, TypeOK
<1>. DEFINE new == [server EXCEPT !.finalizer = TRUE]
<1>4. new \in Gateway /\ new.finalizer
  BY <1>3 DEF Gateway
<1>. QED
  BY <1>1, <1>2, <1>4, UpdateTyped DEF Protect

LEMMA ReadJobTyped ==
  ASSUME TypeOK, ReadLoadBalancer
  PROVE  job' \in Job /\ (job'.todo # {} => job'.pc = "write")
<1>1. job \in Job /\ job.todo = {} /\ Busy
  BY DEF ReadLoadBalancer, At, TypeOK
<1>2. Owned(job.copy) \subseteq Names /\ Stale(job.copy) \subseteq Names
  <2>1. Recorded(job.copy) \subseteq Names
    BY <1>1 DEF Recorded, Job, Gateway
  <2>. QED
    BY <2>1 DEF Owned, Stale, Desired
<1>3. \A names \in SUBSET Names : ToDelete(names) \subseteq Request
  <2> SUFFICES ASSUME NEW names \in SUBSET Names, NEW x \in ToDelete(names)
               PROVE  x \in Request
    OBVIOUS
  <2>1. PICK l \in Names, k \in {"delete listener", "delete set"} :
          x = [kind |-> k, name |-> l]
    BY DEF ToDelete
  <2>. QED
    BY <2>1 DEF Request, Kinds
<1>4. ToReconcile(job.copy.spec) \subseteq Request
  <2> SUFFICES ASSUME NEW x \in ToReconcile(job.copy.spec)
               PROVE  x \in Request
    OBVIOUS
  <2>1. PICK l \in Names, k \in {"set", "listener"} : x = [kind |-> k, name |-> l]
    BY DEF ToReconcile, ManagedNames
  <2>. QED
    BY <2>1 DEF Request, Kinds
<1>5. CASE job' = [job EXCEPT !.pc = "reject"]
  BY <1>1, <1>5 DEF Job, PCs
<1>6. CASE \E todo \in SUBSET Request : job' = [job EXCEPT !.pc = "write", !.todo = todo]
  BY <1>1, <1>6 DEF Job, PCs
<1>7. job' = [job EXCEPT !.pc = "reject"]
      \/ \E todo \in SUBSET Request : job' = [job EXCEPT !.pc = "write", !.todo = todo]
  BY <1>2, <1>3, <1>4 DEF ReadLoadBalancer, Goto
<1>. QED
  BY <1>5, <1>6, <1>7

LEMMA ReadTyped == TypeOK /\ ReadLoadBalancer => TypeOK'
<1> SUFFICES ASSUME TypeOK, ReadLoadBalancer PROVE TypeOK'
  OBVIOUS
<1>1. job' \in Job /\ (job'.todo # {} => job'.pc = "write")
  BY ReadJobTyped
<1>. QED
  BY <1>1 DEF ReadLoadBalancer, TypeOK, Busy, oci, history

LEMMA SubmitTyped ==
  ASSUME NEW x \in Request, TypeOK, Submit(x)
  PROVE  TypeOK'
<1>1. job \in Job
  BY DEF Submit, At, TypeOK
<1>2. job' \in Job /\ job'.pc = "wait"
  BY <1>1 DEF Submit, Job, PCs
<1>3. pending' \in WorkRequest
  <2>1. job.copy.spec[x.name] \in Shapes \cup {Nil}
    BY <1>1 DEF Job, Gateway, Spec0, Request
  <2>. QED
    BY <2>1 DEF Submit, WorkRequest
<1>. QED
  BY <1>2, <1>3 DEF Submit, TypeOK, Busy, history

\* The last write of a reconcile.
LEMMA LastTyped == TypeOK /\ (Record \/ Reject \/ RemoveFinalizer) => TypeOK'
<1> SUFFICES ASSUME TypeOK, Record \/ Reject \/ RemoveFinalizer PROVE TypeOK'
  OBVIOUS
<1>1. job \in Job
  BY DEF Record, Reject, RemoveFinalizer, At, TypeOK
<1>2. CASE Record
  <2>1. server \in Gateway
    BY <1>2 DEF Record, Current, TypeOK
  <2>2. Desired(Reported) \subseteq Names
    BY DEF Desired
  <2>3. server' \in Gateway /\ server'.finalizer
    BY <1>2, <2>1, <2>2 DEF Record, Gateway
  <2>. QED
    BY <1>2, <2>3 DEF Record, Finish, TypeOK, Busy, oci, history
<1>3. CASE Reject
  <2>1. server \in Gateway /\ job.copy \in Gateway /\ (server.deleting => server.finalizer)
    BY <1>1, <1>3 DEF Reject, Current, TypeOK, Job
  <2>2. server' \in Gateway
    BY <1>3, <2>1, ConditionTyped DEF Reject
  <2>3. server'.deleting => server'.finalizer
    BY <1>3, <2>1 DEF Reject, Gateway
  <2>. QED
    BY <1>3, <2>2, <2>3 DEF Reject, Finish, TypeOK, Busy, oci, history
<1>4. CASE RemoveFinalizer
  BY <1>4 DEF RemoveFinalizer, Finish, TypeOK, Busy, oci, history
<1>. QED
  BY <1>2, <1>3, <1>4

LEMMA FailTyped == TypeOK /\ Fail => TypeOK'
BY DEF Fail, Finish, TypeOK, Busy, oci, history

LEMMA OCITyped == TypeOK /\ (Carry \/ RequestFails) => TypeOK'
<1> SUFFICES ASSUME TypeOK, Carry \/ RequestFails PROVE TypeOK'
  OBVIOUS
<1>1. CASE Carry
  <2>1. /\ pending.request \in Request
        /\ pending.shape \in Shapes \cup {Nil}
    BY <1>1 DEF Carry, TypeOK, WorkRequest
  <2>2. pending.request.name \in Names
    BY <2>1 DEF Request
  <2>3. listeners' \in [Names -> Shapes \cup {Nil}] /\ sets' \subseteq Names
    <3>1. pending.request.kind \in Kinds
      BY <2>1 DEF Request
    <3>2. CASE pending.request.kind \in {"listener", "delete listener"}
      <4>1. sets' = sets /\ \E shape \in Shapes \cup {Nil} :
              listeners' = [listeners EXCEPT ![pending.request.name] = shape]
        BY <1>1, <2>1, <3>2 DEF Carry
      <4>. QED
        BY <2>2, <4>1 DEF TypeOK
    <3>3. CASE pending.request.kind \in {"set", "delete set"}
      <4>1. /\ listeners' = listeners
            /\ sets' \in {sets \cup {pending.request.name}, sets \ {pending.request.name}}
        BY <1>1, <3>3 DEF Carry
      <4>2. sets \subseteq Names /\ listeners \in [Names -> Shapes \cup {Nil}]
        BY DEF TypeOK
      <4>3. sets' \subseteq Names
        BY <2>2, <4>1, <4>2
      <4>. QED
        BY <4>1, <4>2, <4>3
    <3>. QED
      BY <3>1, <3>2, <3>3 DEF Kinds
  <2>. QED
    BY <1>1, <2>3 DEF Carry, TypeOK, Busy, history
<1>2. CASE RequestFails
  <2>1. CASE At("wait")
    BY <1>2, <2>1 DEF RequestFails, Finish, TypeOK, Busy, history
  <2>2. CASE ~At("wait")
    BY <1>2, <2>2 DEF RequestFails, TypeOK, Busy, history
  <2>. QED
    BY <2>1, <2>2
<1>. QED
  BY <1>1, <1>2

LEMMA EditServer ==
  ASSUME NEW spec \in Specs, TypeOK, Edit(spec)
  PROVE  server' \in Gateway /\ ~server'.deleting
<1>1. server \in Gateway /\ ~server.deleting
  BY DEF Edit, TypeOK
<1>2. server.generation + 1 \in Generations
  BY <1>1 DEF Edit, Gateway, Generations
<1>3. spec \in Spec0
  OBVIOUS
<1>4. server' = [server EXCEPT !.spec = spec, !.generation = server.generation + 1]
  BY DEF Edit
<1>. QED
  BY <1>1, <1>2, <1>3, <1>4 DEF Gateway

LEMMA EditTyped ==
  ASSUME NEW spec \in Specs, TypeOK, Edit(spec)
  PROVE  TypeOK'
<1>1. named' \subseteq Names
  BY DEF Edit, TypeOK, Desired
<1>. QED
  BY <1>1, EditServer DEF Edit, TypeOK, Busy, oci

LEMMA DeleteTyped == TypeOK /\ Delete => TypeOK'
<1> SUFFICES ASSUME TypeOK, Delete PROVE TypeOK'
  OBVIOUS
<1>1. server \in Gateway
  BY DEF Delete, TypeOK
<1>2. server' = Nil \/ (server' \in Gateway /\ server'.finalizer)
  BY <1>1 DEF Delete, Gateway
<1>. QED
  BY <1>2 DEF Delete, TypeOK, Busy, oci, history

LEMMA ObserveTyped == TypeOK /\ Observe => TypeOK'
<1> SUFFICES ASSUME TypeOK, Observe PROVE TypeOK'
  OBVIOUS
<1>1. queued' \in BOOLEAN
  BY DEF Observe, TypeOK
<1>. QED
  BY <1>1 DEF Observe, TypeOK, Busy, oci, history

LEMMA CrashTyped == TypeOK /\ Crash => TypeOK'
<1> SUFFICES ASSUME TypeOK, Crash PROVE TypeOK'
  OBVIOUS
<1>1. crashes' \in 0..MaxCrashes
  BY DEF Crash, TypeOK
<1>2. queued' \in BOOLEAN
  BY DEF Crash
<1>. QED
  BY <1>1, <1>2 DEF Crash, Finish, TypeOK, Busy, oci, history

LEMMA NextTyped == TypeOK /\ [Next]_vars => TypeOK'
<1> SUFFICES ASSUME TypeOK, [Next]_vars PROVE TypeOK'
  OBVIOUS
<1>1. CASE Step
  BY <1>1, TakeTyped, AcceptTyped, QuietTyped, ConditionStepsTyped, ProtectTyped, ReadTyped,
     SubmitTyped, LastTyped DEF Step
<1>2. CASE Users
  BY <1>2, EditTyped, DeleteTyped DEF Users
<1>3. CASE UNCHANGED vars
  BY <1>3 DEF vars, history, TypeOK, Busy
<1>. QED
  BY <1>1, <1>2, <1>3, FailTyped, OCITyped, ObserveTyped, CrashTyped DEF Next

\* The variables keep their types, nothing is being deleted without a finalizer, and no
\* request is left over, whatever the numbers of names, generations and restarts.
THEOREM TypeCorrect == Spec => []TypeOK
<1>1. Init => TypeOK
  BY InitTyped
<1>2. TypeOK /\ [Next]_vars => TypeOK'
  BY NextTyped
<1>. QED
  BY <1>1, <1>2, PTL DEF Spec

----------------------------------------------------------------------------
(* Protection.                                                             *)

IInv == TypeOK /\ Protection

USE DEF Protection, CacheIsOlder, ProgramsProtected, CleansUpProtected,
        StartsUndeleted, GoneIsNotQueued, Writing, Ending

LEMMA InitProtected == Init => Protection
<1> SUFFICES ASSUME Init PROVE Protection
  OBVIOUS
<1>1. PICK spec \in Specs : server = New(spec)
  BY DEF Init
<1>2. server \in Gateway /\ cache = server /\ ~server.deleting /\ ~Busy
  BY <1>1, NewTyped DEF Init, Busy
<1>. QED
  BY <1>2

\* The worker's copy is of the type of its state.
LEMMA CopyTyped == TypeOK /\ Busy => job.copy \in Gateway /\ job.pc \in PCs
BY DEF TypeOK, Job

LEMMA TakeProtects == IInv /\ Take => Protection'
<1> SUFFICES ASSUME IInv, Take PROVE Protection'
  OBVIOUS
<1>1. CASE cache = Nil \/ (cache.deleting /\ ~cache.finalizer)
  BY <1>1 DEF Take, Busy, IInv
<1>2. CASE cache # Nil /\ ~cache.deleting
  BY <1>2 DEF Take, Busy, IInv
<1>3. CASE cache # Nil /\ cache.deleting /\ cache.finalizer
  <2>1. server # Nil /\ server.deleting
    BY <1>3 DEF Take, IInv
  <2>2. server.finalizer
    BY <2>1 DEF TypeOK, IInv
  <2>. QED
    BY <1>3, <2>1, <2>2 DEF Take, Busy, IInv
<1>. QED
  BY <1>1, <1>2, <1>3

\* The writes of a reconcile that programs, other than the last.
LEMMA UpdateProtects ==
  ASSUME IInv, Busy, NEW pc \in PCs, NEW new \in Gateway, Update(new, pc),
         new.deleting = server.deleting,
         server.finalizer => new.finalizer,
         \/ /\ job.pc \in {"accept", "check", "pend", "protect"}
            /\ \/ pc \in {"accept", "check", "pend", "protect"}
               \/ pc = "read" /\ new.finalizer
         \/ Ending /\ pc \in {"refresh", "report", "record", "reject"}
  PROVE  Protection'
<1>1. job \in Job /\ server # Nil /\ new # Nil
  BY DEF IInv, TypeOK, Update, Current
<1>2. job'.pc = pc
  BY <1>1 DEF Update, Job
<1>3. job'.copy = IF server = job.copy THEN new ELSE job.copy
  BY <1>1 DEF Update, Job
<1>4. server' = new /\ cache' = cache /\ queued' = queued /\ Busy
  BY DEF Update
<1>5. CASE job.pc \in {"accept", "check", "pend", "protect"}
  <2>1. ~job.copy.deleting /\ ~job'.copy.deleting
    BY <1>3, <1>5 DEF IInv
  <2>. QED
    BY <1>1, <1>2, <1>4, <1>5, <2>1 DEF IInv
<1>6. CASE Ending /\ pc \in {"refresh", "report", "record", "reject"}
  BY <1>1, <1>2, <1>4, <1>6 DEF IInv
<1>. QED
  BY <1>5, <1>6

LEMMA SetConditionProtects ==
  ASSUME IInv, Busy, NEW pc \in PCs, NEW status \in {"Unknown", "False", "True"},
         SetAccepted(status, pc) \/ SetProgrammed(status, pc),
         \/ /\ job.pc \in {"accept", "check", "pend", "protect"}
            /\ pc \in {"accept", "check", "pend", "protect"}
         \/ Ending /\ pc \in {"refresh", "report", "record", "reject"}
  PROVE  Protection'
<1>1. server \in Gateway /\ job.copy \in Gateway
  BY DEF IInv, TypeOK, Job, SetAccepted, SetProgrammed, Update, Current
<1>. DEFINE a == [server EXCEPT !.accepted =
                   [status |-> status, generation |-> job.copy.generation]]
            p == [server EXCEPT !.programmed =
                   [status |-> status, generation |-> job.copy.generation]]
<1>2. a \in Gateway /\ p \in Gateway
  BY <1>1, ConditionTyped
<1>3. /\ a.deleting = server.deleting /\ a.finalizer = server.finalizer
      /\ p.deleting = server.deleting /\ p.finalizer = server.finalizer
  BY <1>1 DEF Gateway
<1>4. Update(a, pc) \/ Update(p, pc)
  BY DEF SetAccepted, SetProgrammed
<1>. HIDE DEF a, p
<1>5. CASE Update(a, pc)
  BY <1>2, <1>3, <1>5, UpdateProtects
<1>6. CASE Update(p, pc)
  BY <1>2, <1>3, <1>6, UpdateProtects
<1>. QED
  BY <1>4, <1>5, <1>6

\* A step that moves the worker on, or ends the reconcile, and leaves the Gateway alone.
LEMMA GotoProtects ==
  ASSUME IInv, Busy, NEW pc \in PCs,
         job' = Nil \/ (job'.pc = pc /\ job'.copy = job.copy),
         UNCHANGED <<server, cache, queued>>,
         \/ /\ job.pc \in {"accept", "check", "pend", "protect"}
            /\ pc \in {"accept", "check", "pend", "protect"}
         \/ Writing /\ pc \in {"read", "write", "wait"}
         \/ Writing /\ pc = "release" /\ job.copy.deleting
         \/ Writing /\ pc \in {"refresh", "reject"} /\ ~job.copy.deleting
  PROVE  Protection'
BY DEF IInv, Busy

\* The steps up to the one that puts the finalizer on the Gateway.
LEMMA StartProtects ==
  IInv /\ (Accept \/ CheckProgrammed \/ MarkPending \/ Protect) => Protection'
<1> SUFFICES ASSUME IInv, Accept \/ CheckProgrammed \/ MarkPending \/ Protect
             PROVE  Protection'
  OBVIOUS
<1>1. {"check", "pend", "protect", "read"} \subseteq PCs
  BY DEF PCs
<1>2. job \in Job /\ Busy
  BY DEF Accept, CheckProgrammed, MarkPending, Protect, At, IInv, TypeOK
<1>3. CASE Accept
  <2>1. CASE IsSet(job.copy.accepted, job.copy)
    <3>1. job'.pc = "check" /\ job'.copy = job.copy
      BY <1>2, <1>3, <2>1 DEF Accept, Goto, Job
    <3>. QED
      BY <1>1, <1>2, <1>3, <2>1, <3>1, GotoProtects DEF Accept, At
  <2>2. CASE ~IsSet(job.copy.accepted, job.copy)
    BY <1>1, <1>2, <1>3, <2>2, SetConditionProtects DEF Accept, At
  <2>. QED
    BY <2>1, <2>2
<1>4. CASE CheckProgrammed
  <2>1. job' = Nil \/ (job'.pc = "pend" /\ job'.copy = job.copy)
    BY <1>2, <1>4 DEF CheckProgrammed, Goto, Finish, Job
  <2>. QED
    BY <1>1, <1>2, <1>4, <2>1, GotoProtects DEF CheckProgrammed, At
<1>5. CASE MarkPending
  BY <1>1, <1>2, <1>5, SetConditionProtects DEF MarkPending, At
<1>6. CASE Protect
  <2>1. server \in Gateway
    BY <1>6 DEF Protect, Update, Current, IInv, TypeOK, Job
  <2>. DEFINE new == [server EXCEPT !.finalizer = TRUE]
  <2>2. new \in Gateway /\ new.finalizer /\ new.deleting = server.deleting
    BY <2>1 DEF Gateway
  <2>3. Update(new, "read") /\ job.pc = "protect"
    BY <1>6 DEF Protect, At
  <2>. HIDE DEF new
  <2>. QED
    BY <1>1, <1>2, <2>2, <2>3, UpdateProtects
<1>. QED
  BY <1>3, <1>4, <1>5, <1>6

LEMMA WritingProtects ==
  IInv /\ (ReadLoadBalancer \/ Waited \/ Written \/ \E x \in Request : Submit(x))
    => Protection'
<1> SUFFICES ASSUME IInv,
                    ReadLoadBalancer \/ Waited \/ Written \/ \E x \in Request : Submit(x)
             PROVE  Protection'
  OBVIOUS
<1>1. {"reject", "write", "wait", "release", "refresh"} \subseteq PCs
  BY DEF PCs
<1>2. job \in Job /\ Busy /\ job.copy.deleting \in BOOLEAN
  BY DEF ReadLoadBalancer, Waited, Written, Submit, At, IInv, TypeOK, Job, Gateway
<1>3. CASE ReadLoadBalancer
  <2>1. \/ job'.pc = "reject" /\ job'.copy = job.copy /\ ~job.copy.deleting
        \/ job'.pc = "write" /\ job'.copy = job.copy
    BY <1>2, <1>3 DEF ReadLoadBalancer, Goto, Job
  <2>. QED
    BY <1>1, <1>2, <1>3, <2>1, GotoProtects DEF ReadLoadBalancer, At
<1>4. CASE Waited
  <2>1. job'.pc = "write" /\ job'.copy = job.copy
    BY <1>2, <1>4 DEF Waited, Goto, Job
  <2>. QED
    BY <1>1, <1>2, <1>4, <2>1, GotoProtects DEF Waited, At
<1>5. CASE Written
  <2>1. /\ job'.copy = job.copy
        /\ job'.pc = IF job.copy.deleting THEN "release" ELSE "refresh"
    BY <1>2, <1>5 DEF Written, Goto, Job
  <2>. QED
    BY <1>1, <1>2, <1>5, <2>1, GotoProtects DEF Written, At
<1>6. CASE \E x \in Request : Submit(x)
  <2>1. job'.pc = "wait" /\ job'.copy = job.copy
    BY <1>2, <1>6 DEF Submit, Job
  <2>. QED
    BY <1>1, <1>2, <1>6, <2>1, GotoProtects DEF Submit, At
<1>. QED
  BY <1>3, <1>4, <1>5, <1>6

LEMMA EndingProtects ==
  IInv /\ (Refresh \/ Report \/ Record \/ Reject \/ RemoveFinalizer) => Protection'
<1> SUFFICES ASSUME IInv, Refresh \/ Report \/ Record \/ Reject \/ RemoveFinalizer
             PROVE  Protection'
  OBVIOUS
<1>1. job \in Job /\ Busy
  BY DEF Refresh, Report, Record, Reject, RemoveFinalizer, At, IInv, TypeOK
<1>2. CASE Refresh
  <2>1. job'.pc = "report" /\ job.pc = "refresh"
    BY <1>1, <1>2 DEF Refresh, At, Job
  <2>. QED
    BY <1>1, <1>2, <2>1 DEF Refresh, IInv, Busy
<1>3. CASE Report
  BY <1>1, <1>3, SetConditionProtects DEF Report, At, PCs
<1>4. CASE Record \/ Reject
  <2>1. server \in Gateway
    BY <1>4 DEF Record, Reject, Current, IInv, TypeOK
  <2>2. server'.deleting = server.deleting /\ server' # Nil
    <3>1. CASE Record
      <4>1. Desired(Reported) \subseteq Names
        BY DEF Desired
      <4>2. server' \in Gateway
        BY <2>1, <3>1, <4>1 DEF Record, Gateway
      <4>3. server'.deleting = server.deleting
        BY <2>1, <3>1 DEF Record, Gateway
      <4>. QED
        BY <4>2, <4>3
    <3>2. CASE Reject
      <4>1. job.copy \in Gateway
        BY <1>1, CopyTyped DEF IInv
      <4>2. server' \in Gateway
        BY <2>1, <3>2, <4>1, ConditionTyped DEF Reject
      <4>3. server'.deleting = server.deleting
        BY <2>1, <3>2 DEF Reject, Gateway
      <4>. QED
        BY <4>2, <4>3
    <3>. QED
      BY <1>4, <3>1, <3>2
  <2>. QED
    BY <1>4, <2>1, <2>2 DEF Record, Reject, Finish, Busy, IInv
<1>5. CASE RemoveFinalizer
  <2>1. CASE job.copy.deleting
    BY <1>1, <1>5, <2>1 DEF RemoveFinalizer, At, Finish, Busy, IInv
  <2>2. CASE ~job.copy.deleting
    BY <1>1, <1>5, <2>2 DEF RemoveFinalizer, At, Finish, Busy, IInv
  <2>. QED
    BY <2>1, <2>2
<1>. QED
  BY <1>2, <1>3, <1>4, <1>5

LEMMA OthersProtect ==
  IInv /\ (Fail \/ Carry \/ RequestFails \/ Users \/ Observe \/ Crash) => Protection'
<1> SUFFICES ASSUME IInv, Fail \/ Carry \/ RequestFails \/ Users \/ Observe \/ Crash
             PROVE  Protection'
  OBVIOUS
<1>1. CASE Fail
  BY <1>1 DEF Fail, Finish, Busy, IInv
<1>2. CASE Carry
  BY <1>2 DEF Carry, Busy, IInv
<1>3. CASE RequestFails
  BY <1>3 DEF RequestFails, At, Finish, Busy, IInv
<1>4. CASE \E spec \in Specs : Edit(spec)
  <2>1. server \in Gateway
    BY <1>4 DEF Edit, IInv, TypeOK
  <2>2. /\ server'.deleting = server.deleting /\ server'.finalizer = server.finalizer
        /\ server' # Nil
    <3>1. server'.deleting = server.deleting /\ server'.finalizer = server.finalizer
      BY <1>4, <2>1 DEF Edit, Gateway
    <3>2. server' # Nil
      BY <1>4, EditServer DEF IInv
    <3>. QED
      BY <3>1, <3>2
  <2>3. ~server.deleting /\ job' = job /\ cache' = cache /\ queued' = queued
    BY <1>4 DEF Edit
  <2>. QED
    BY <2>1, <2>2, <2>3 DEF Busy, IInv
<1>5. CASE Delete
  <2>1. server \in Gateway /\ ~server.deleting
    BY <1>5 DEF Delete, IInv, TypeOK
  <2>2. ASSUME server.finalizer
        PROVE  server'.deleting /\ server'.finalizer /\ server' # Nil
    <3>1. server' = [server EXCEPT !.deleting = TRUE]
      BY <1>5, <2>2 DEF Delete
    <3>2. server' \in Gateway
      BY <2>1, <3>1 DEF Gateway
    <3>3. server'.deleting /\ server'.finalizer
      BY <2>1, <2>2, <3>1 DEF Gateway
    <3>. QED
      BY <3>2, <3>3
  <2>3. ~server.finalizer => server' = Nil
    BY <1>5 DEF Delete
  <2>4. job' = job /\ cache' = cache /\ queued' = queued
    BY <1>5 DEF Delete
  <2>. QED
    BY <2>1, <2>2, <2>3, <2>4 DEF Busy, IInv
<1>6. CASE Observe
  BY <1>6 DEF Observe, Busy, IInv
<1>7. CASE Crash
  BY <1>7 DEF Crash, Finish, Busy, IInv
<1>. QED
  BY <1>1, <1>2, <1>3, <1>4, <1>5, <1>6, <1>7 DEF Users

LEMMA NextIInv == IInv /\ [Next]_vars => IInv'
<1> SUFFICES ASSUME IInv, [Next]_vars PROVE IInv'
  OBVIOUS
<1>1. TypeOK'
  BY NextTyped DEF IInv
<1>2. Protection'
  <2>1. CASE Step
    BY <2>1, TakeProtects, StartProtects, WritingProtects, EndingProtects DEF Step
  <2>2. CASE UNCHANGED vars
    BY <2>2 DEF vars, Busy, IInv
  <2>. QED
    BY <2>1, <2>2, OthersProtect DEF Next
<1>. QED
  BY <1>1, <1>2 DEF IInv

\* While the worker writes to the load balancer the Gateway has the finalizer, however
\* conflicts, deletions, restarts and the informer's lag fall together.
THEOREM WritesAreProtectedHolds == Spec => []WritesAreProtected
<1>1. Init => IInv
  BY InitTyped, InitProtected DEF IInv
<1>2. IInv /\ [Next]_vars => IInv'
  BY NextIInv
<1>3. IInv => WritesAreProtected
  BY DEF IInv, WritesAreProtected, At
<1>. QED
  BY <1>1, <1>2, <1>3, PTL DEF Spec

----------------------------------------------------------------------------
(* What others have on the load balancer.                                  *)

\* Whatever names the program works with, some specification has had.
GatewaysAreNamed == \A g \in {server, cache} \ {Nil} : Owned(g) \subseteq named

JobIsNamed ==
  Busy => /\ Owned(job.copy) \cup Desired(job.resolved.spec) \subseteq named
          /\ \A x \in job.todo : x.name \in named

RequestIsNamed == pending # Nil => pending.request.name \in named

NamedInv ==
  /\ TypeOK
  /\ GatewaysAreNamed
  /\ JobIsNamed
  /\ RequestIsNamed

USE DEF GatewaysAreNamed, JobIsNamed, RequestIsNamed

LEMMA InitNamed == Init => NamedInv
<1> SUFFICES ASSUME Init PROVE NamedInv
  OBVIOUS
<1>1. PICK spec \in Specs : server = New(spec)
  BY DEF Init
<1>2. Owned(server) = Desired(server.spec)
  BY <1>1 DEF New, Owned, Recorded
<1>. QED
  BY <1>2, InitTyped DEF Init, Busy, NamedInv

\* A write that adds no names to the Gateway.
LEMMA UpdateNamed ==
  ASSUME NamedInv, Busy, job.todo = {}, NEW pc \in PCs, NEW new, Update(new, pc),
         Owned(new) = Owned(server), named' = named
  PROVE  GatewaysAreNamed' /\ JobIsNamed' /\ RequestIsNamed'
<1>1. job \in Job /\ server # Nil
  BY DEF NamedInv, TypeOK, Update, Current
<1>2. /\ job'.copy = IF server = job.copy THEN new ELSE job.copy
      /\ job'.resolved = job.resolved /\ job'.todo = job.todo
  BY <1>1 DEF Update, Job
<1>3. Owned(new) \subseteq named
  BY <1>1 DEF NamedInv
<1>4. Owned(job'.copy) \subseteq named
  BY <1>2, <1>3 DEF NamedInv
<1>5. GatewaysAreNamed'
  BY <1>3 DEF Update, NamedInv, Owned, Recorded, Desired
<1>6. JobIsNamed'
  BY <1>2, <1>4 DEF NamedInv, Owned, Recorded, Desired
<1>7. RequestIsNamed'
  BY DEF Update, oci, NamedInv
<1>. QED
  BY <1>5, <1>6, <1>7

LEMMA SetConditionNamed ==
  ASSUME NamedInv, Busy, job.todo = {}, NEW pc \in PCs,
         NEW status \in {"Unknown", "False", "True"},
         SetAccepted(status, pc) \/ SetProgrammed(status, pc), named' = named
  PROVE  GatewaysAreNamed' /\ JobIsNamed' /\ RequestIsNamed'
<1>1. server \in Gateway
  BY DEF NamedInv, TypeOK, Job, SetAccepted, SetProgrammed, Update, Current
<1>. DEFINE a == [server EXCEPT !.accepted =
                   [status |-> status, generation |-> job.copy.generation]]
            p == [server EXCEPT !.programmed =
                   [status |-> status, generation |-> job.copy.generation]]
<1>2. Owned(a) = Owned(server) /\ Owned(p) = Owned(server)
  BY <1>1 DEF Owned, Recorded, Gateway
<1>3. Update(a, pc) \/ Update(p, pc)
  BY DEF SetAccepted, SetProgrammed
<1>. HIDE DEF a, p
<1>. QED
  BY <1>2, <1>3, UpdateNamed

\* A step of the worker that keeps its copies and takes on no requests.
LEMMA KeepsNamed ==
  ASSUME NamedInv, Busy,
         job' = Nil \/ (job'.copy = job.copy /\ job'.resolved = job.resolved
                        /\ job'.todo \subseteq job.todo),
         UNCHANGED <<server, cache, named>>,
         pending' = pending \/ pending'.request \in job.todo
  PROVE  GatewaysAreNamed' /\ JobIsNamed' /\ RequestIsNamed'
BY DEF NamedInv, Busy, Owned, Recorded, Desired

NamedNext == GatewaysAreNamed' /\ JobIsNamed' /\ RequestIsNamed'

LEMMA StartNamed ==
  NamedInv /\ (Take \/ Accept \/ CheckProgrammed \/ MarkPending \/ Protect \/ Report)
    => NamedNext
<1> SUFFICES ASSUME NamedInv,
                    Take \/ Accept \/ CheckProgrammed \/ MarkPending \/ Protect \/ Report
             PROVE  NamedNext
  OBVIOUS
<1>. USE DEF NamedNext
<1>1. {"check", "pend", "protect", "read", "record"} \subseteq PCs
  BY DEF PCs
<1>2. CASE Take
  <2>1. UNCHANGED <<server, cache, pending, named>>
    BY <1>2 DEF Take, oci, history
  <2>2. CASE cache = Nil \/ (cache.deleting /\ ~cache.finalizer)
    BY <1>2, <2>1, <2>2 DEF Take, NamedInv, Busy, Owned, Recorded, Desired
  <2>3. CASE ~(cache = Nil \/ (cache.deleting /\ ~cache.finalizer))
    <3>1. job'.copy = cache /\ job'.resolved = cache /\ job'.todo = {}
      BY <1>2, <2>3 DEF Take
    <3>2. Owned(cache) \subseteq named
      BY <2>3 DEF NamedInv
    <3>3. JobIsNamed'
      BY <2>1, <3>1, <3>2 DEF Owned, Recorded, Desired
    <3>. QED
      BY <2>1, <3>3 DEF NamedInv, Owned, Recorded, Desired
  <2>. QED
    BY <2>2, <2>3
<1>3. CASE ~Take
  <2>1. job \in Job /\ Busy /\ job.todo = {}
    BY <1>3 DEF Accept, CheckProgrammed, MarkPending, Protect, Report, At, NamedInv, TypeOK
  <2>2. named' = named
    BY <1>3 DEF Accept, CheckProgrammed, MarkPending, Protect, Report, history
  <2>3. CASE Accept
    <3>1. CASE IsSet(job.copy.accepted, job.copy)
      <4>1. job' = [job EXCEPT !.pc = "check"]
        BY <2>3, <3>1 DEF Accept, Goto
      <4>2. job'.copy = job.copy /\ job'.resolved = job.resolved /\ job'.todo = job.todo
        BY <2>1, <4>1 DEF Job
      <4>. QED
        BY <2>1, <2>2, <2>3, <3>1, <4>2, KeepsNamed DEF Accept, oci
    <3>2. CASE ~IsSet(job.copy.accepted, job.copy)
      BY <1>1, <2>1, <2>2, <2>3, <3>2, SetConditionNamed DEF Accept
    <3>. QED
      BY <3>1, <3>2
  <2>4. CASE CheckProgrammed
    <3>1. job' = Nil \/ job' = [job EXCEPT !.pc = "pend"]
      BY <2>4 DEF CheckProgrammed, Goto, Finish
    <3>2. \/ job' = Nil
          \/ job'.copy = job.copy /\ job'.resolved = job.resolved /\ job'.todo = job.todo
      BY <2>1, <3>1 DEF Job
    <3>. QED
      BY <2>1, <2>2, <2>4, <3>2, KeepsNamed DEF CheckProgrammed, oci
  <2>5. CASE MarkPending \/ Report
    BY <1>1, <2>1, <2>2, <2>5, SetConditionNamed DEF MarkPending, Report
  <2>6. CASE Protect
    <3>1. server \in Gateway
      BY <2>6 DEF Protect, Update, Current, NamedInv, TypeOK, Job
    <3>. DEFINE new == [server EXCEPT !.finalizer = TRUE]
    <3>2. Owned(new) = Owned(server)
      BY <3>1 DEF Owned, Recorded, Gateway
    <3>3. Update(new, "read")
      BY <2>6 DEF Protect
    <3>. HIDE DEF new
    <3>. QED
      BY <1>1, <2>1, <2>2, <3>2, <3>3, UpdateNamed
  <2>. QED
    BY <1>3, <2>3, <2>4, <2>5, <2>6
<1>. QED
  BY <1>2, <1>3

\* Requests to delete are about the names they are computed from.
LEMMA DeletesOnlyThese ==
  ASSUME NEW names, NEW x \in ToDelete(names)
  PROVE  x.name \in names
<1>1. PICK l \in names, k \in {"delete listener", "delete set"} :
        x = [kind |-> k, name |-> l]
  BY DEF ToDelete
<1>. QED
  BY <1>1

LEMMA ReadNamed == NamedInv /\ ReadLoadBalancer => NamedNext
<1> SUFFICES ASSUME NamedInv, ReadLoadBalancer PROVE NamedNext
  OBVIOUS
<1>. USE DEF NamedNext
<1>1. job \in Job /\ Busy /\ job.todo = {}
  BY DEF ReadLoadBalancer, At, NamedInv, TypeOK
<1>2. UNCHANGED <<server, cache, pending, named>>
  BY DEF ReadLoadBalancer, oci, history
<1>3. \A x \in ToDelete(Owned(job.copy)) : x.name \in Owned(job.copy)
  BY DeletesOnlyThese
<1>4. \A x \in ToDelete(Stale(job.copy)) : x.name \in Owned(job.copy)
  <2>1. Stale(job.copy) \subseteq Owned(job.copy)
    BY DEF Stale, Owned
  <2>. QED
    BY <2>1, DeletesOnlyThese
<1>5. \A x \in ToReconcile(job.copy.spec) : x.name \in Owned(job.copy)
  BY DEF ToReconcile, ManagedNames, Owned, Desired
<1>6. /\ job'.copy = job.copy /\ job'.resolved = job.resolved
      /\ \A x \in job'.todo : x.name \in Owned(job.copy)
  <2>1. CASE job' = [job EXCEPT !.pc = "reject"]
    BY <1>1, <2>1 DEF Job
  <2>2. CASE job' # [job EXCEPT !.pc = "reject"]
    <3>. DEFINE todo == IF job.copy.deleting THEN ToDelete(Owned(job.copy))
                        ELSE ToReconcile(job.copy.spec) \cup ToDelete(Stale(job.copy))
    <3>1. job' = [job EXCEPT !.pc = "write", !.todo = todo]
      BY <2>2 DEF ReadLoadBalancer, Goto
    <3>2. \A x \in todo : x.name \in Owned(job.copy)
      BY <1>3, <1>4, <1>5
    <3>. HIDE DEF todo
    <3>. QED
      BY <1>1, <3>1, <3>2 DEF Job
  <2>. QED
    BY <2>1, <2>2
<1>. QED
  BY <1>1, <1>2, <1>6 DEF NamedInv, Busy, Owned, Recorded, Desired

LEMMA WritingNamed ==
  NamedInv /\ (Waited \/ Written \/ \E x \in Request : Submit(x)) => NamedNext
<1> SUFFICES ASSUME NamedInv, Waited \/ Written \/ \E x \in Request : Submit(x)
             PROVE  NamedNext
  OBVIOUS
<1>. USE DEF NamedNext
<1>1. job \in Job /\ Busy
  BY DEF Waited, Written, Submit, At, NamedInv, TypeOK
<1>2. UNCHANGED <<server, cache, named>>
  BY DEF Waited, Written, Submit, history
<1>3. CASE Waited \/ Written
  <2>1. \E pc \in PCs : job' = [job EXCEPT !.pc = pc]
    BY <1>3 DEF Waited, Written, Goto, PCs
  <2>2. job'.copy = job.copy /\ job'.resolved = job.resolved /\ job'.todo = job.todo
    BY <1>1, <2>1 DEF Job
  <2>3. pending' = pending
    BY <1>3 DEF Waited, Written, oci
  <2>. QED
    BY <1>1, <1>2, <2>2, <2>3, KeepsNamed
<1>4. CASE \E x \in Request : Submit(x)
  <2>1. PICK x \in Request : Submit(x)
    BY <1>4
  <2>2. job' = [job EXCEPT !.pc = "wait", !.todo = job.todo \ {x}]
    BY <2>1 DEF Submit
  <2>3. job'.copy = job.copy /\ job'.resolved = job.resolved /\ job'.todo \subseteq job.todo
    BY <1>1, <2>2 DEF Job
  <2>4. pending'.request \in job.todo
    BY <2>1 DEF Submit
  <2>. QED
    BY <1>1, <1>2, <2>3, <2>4, KeepsNamed
<1>. QED
  BY <1>3, <1>4

LEMMA EndingNamed ==
  NamedInv /\ (Refresh \/ Record \/ Reject \/ RemoveFinalizer \/ Fail) => NamedNext
<1> SUFFICES ASSUME NamedInv, Refresh \/ Record \/ Reject \/ RemoveFinalizer \/ Fail
             PROVE  NamedNext
  OBVIOUS
<1>. USE DEF NamedNext
<1>1. job \in Job /\ Busy
  BY DEF Refresh, Record, Reject, RemoveFinalizer, Fail, At, NamedInv, TypeOK
<1>2. pending' = pending /\ named' = named
  BY DEF Refresh, Record, Reject, RemoveFinalizer, Fail, oci, history
<1>3. RequestIsNamed'
  BY <1>2 DEF NamedInv
<1>4. CASE Refresh
  <2>1. /\ job'.copy = cache /\ job'.resolved = job.resolved /\ job'.todo = job.todo
        /\ Owned(cache) \subseteq named
    BY <1>1, <1>4 DEF Refresh, Job, NamedInv
  <2>2. UNCHANGED <<server, cache>>
    BY <1>4 DEF Refresh
  <2>. QED
    BY <1>1, <1>2, <1>3, <2>1, <2>2 DEF NamedInv, Owned, Recorded, Desired
<1>5. CASE Record \/ Reject
  <2>1. server \in Gateway /\ cache' = cache /\ job' = Nil
    BY <1>5 DEF Record, Reject, Current, Finish, NamedInv, TypeOK
  <2>2. Owned(server') \subseteq named
    <3>1. CASE Record
      <4>1. server'.spec = server.spec /\ server'.recorded = Desired(Reported)
        BY <2>1, <3>1 DEF Record, Gateway
      <4>2. Desired(Reported) \subseteq named /\ Owned(server) \subseteq named
        BY <1>1, <2>1 DEF NamedInv, Reported, Owned
      <4>. QED
        BY <4>1, <4>2 DEF Owned, Recorded
    <3>2. CASE Reject
      <4>1. server'.spec = server.spec /\ server'.recorded = server.recorded
        BY <2>1, <3>2 DEF Reject, Gateway
      <4>. QED
        BY <2>1, <4>1 DEF NamedInv, Owned, Recorded
    <3>. QED
      BY <1>5, <3>1, <3>2
  <2>. QED
    BY <1>2, <1>3, <2>1, <2>2 DEF NamedInv, Busy, Owned, Recorded, Desired
<1>6. CASE RemoveFinalizer \/ Fail
  <2>1. server' \in {server, Nil} /\ cache' = cache /\ job' = Nil
    BY <1>6 DEF RemoveFinalizer, Fail, Finish
  <2>. QED
    BY <1>2, <1>3, <2>1 DEF NamedInv, Busy, Owned, Recorded, Desired
<1>. QED
  BY <1>4, <1>5, <1>6

LEMMA OthersNamed ==
  NamedInv /\ (Carry \/ RequestFails \/ Users \/ Observe \/ Crash) => NamedNext
<1> SUFFICES ASSUME NamedInv, Carry \/ RequestFails \/ Users \/ Observe \/ Crash
             PROVE  NamedNext
  OBVIOUS
<1>. USE DEF NamedNext
<1>1. CASE Carry \/ RequestFails
  <2>1. UNCHANGED <<server, cache, named>> /\ job' \in {job, Nil} /\ pending' = Nil
    BY <1>1 DEF Carry, RequestFails, Finish, history
  <2>. QED
    BY <2>1 DEF NamedInv, Busy, Owned, Recorded, Desired
<1>2. CASE \E spec \in Specs : Edit(spec)
  <2>1. PICK spec \in Specs : Edit(spec)
    BY <1>2
  <2>2. server \in Gateway /\ server # Nil
    BY <2>1 DEF Edit, NamedInv, TypeOK
  <2>3. server'.spec = spec /\ server'.recorded = server.recorded
    <3>1. server' = [server EXCEPT !.spec = spec, !.generation = server.generation + 1]
      BY <2>1 DEF Edit
    <3>. QED
      BY <2>2, <3>1 DEF Gateway
  <2>4. named' = named \cup Desired(spec)
    BY <2>1 DEF Edit
  <2>5. Owned(server') \subseteq named'
    BY <2>2, <2>3, <2>4 DEF NamedInv, Owned, Recorded
  <2>6. UNCHANGED <<cache, job, pending>>
    BY <2>1 DEF Edit, oci
  <2>. QED
    BY <2>4, <2>5, <2>6 DEF NamedInv, Busy, Owned, Recorded, Desired
<1>3. CASE Delete
  <2>1. server \in Gateway /\ server # Nil
    BY <1>3 DEF Delete, NamedInv, TypeOK
  <2>2. server' = Nil \/ (server'.spec = server.spec /\ server'.recorded = server.recorded)
    BY <1>3, <2>1 DEF Delete, Gateway
  <2>3. UNCHANGED <<cache, job, pending, named>>
    BY <1>3 DEF Delete, oci, history
  <2>4. server' = Nil \/ Owned(server') \subseteq named
    BY <2>1, <2>2 DEF NamedInv, Owned, Recorded
  <2>. QED
    BY <2>3, <2>4 DEF NamedInv, Busy, Owned, Recorded, Desired
<1>4. CASE Observe \/ Crash
  <2>1. UNCHANGED <<server, pending, named>> /\ cache' = server /\ job' \in {job, Nil}
    BY <1>4 DEF Observe, Crash, Finish, oci, history
  <2>. QED
    BY <2>1 DEF NamedInv, Busy, Owned, Recorded, Desired
<1>. QED
  BY <1>1, <1>2, <1>3, <1>4 DEF Users

LEMMA NextNamed == NamedInv /\ [Next]_vars => NamedInv'
<1> SUFFICES ASSUME NamedInv, [Next]_vars PROVE NamedInv'
  OBVIOUS
<1>1. TypeOK'
  BY NextTyped DEF NamedInv
<1>2. NamedNext
  <2>1. CASE Step
    BY <2>1, StartNamed, ReadNamed, WritingNamed, EndingNamed DEF Step
  <2>2. CASE UNCHANGED vars
    BY <2>2 DEF vars, history, Busy, NamedInv, NamedNext, Owned, Recorded, Desired
  <2>. QED
    BY <2>1, <2>2, EndingNamed, OthersNamed DEF Next
<1>. QED
  BY <1>1, <1>2 DEF NamedInv, NamedNext

\* The parts of ForeignKept that a step has to respect.
KeptInStep ==
  \A l \in Names \ named : listeners'[l] = listeners[l] /\ (l \in sets' <=> l \in sets)

LEMMA StepKeeps == NamedInv /\ [Next]_vars => KeptInStep
<1> SUFFICES ASSUME NamedInv, [Next]_vars PROVE KeptInStep
  OBVIOUS
<1>1. CASE Carry
  <2>1. /\ pending.request.kind \in Kinds /\ pending.request.name \in named
        /\ listeners \in [Names -> Shapes \cup {Nil}]
    BY <1>1 DEF Carry, NamedInv, TypeOK, Request, WorkRequest
  <2>. QED
    BY ZenonT(40), <1>1, <2>1 DEF Carry, Kinds, KeptInStep
<1>2. CASE ~Carry
  <2>1. UNCHANGED <<listeners, sets>>
    <3>1. CASE Step
      BY <3>1 DEF Step, Take, Accept, CheckProgrammed, MarkPending, Protect,
        ReadLoadBalancer, Submit, Waited, Written, Refresh, Report, Record, Reject,
        RemoveFinalizer, SetAccepted, SetProgrammed, Update, oci
    <3>2. CASE Fail \/ RequestFails \/ Users \/ Observe \/ Crash
      BY <3>2 DEF Fail, RequestFails, Users, Edit, Delete, Observe, Crash, oci
    <3>3. CASE UNCHANGED vars
      BY <3>3 DEF vars
    <3>. QED
      BY <1>2, <3>1, <3>2, <3>3 DEF Next
  <2>. QED
    BY <2>1 DEF KeptInStep
<1>. QED
  BY <1>1, <1>2

\* A listener or backend set whose name no specification of the Gateway has had is never
\* touched, however many others use the load balancer.
THEOREM ForeignKeptHolds == Spec => ForeignKept
<1>1. Init => NamedInv
  BY InitNamed
<1>2. NamedInv /\ [Next]_vars => NamedInv'
  BY NextNamed
<1>3. NamedInv /\ [Next]_vars => [KeptInStep]_vars
  BY StepKeeps
<1>4. Spec => [][KeptInStep]_vars
  BY <1>1, <1>2, <1>3, PTL DEF Spec
<1>. QED
  BY <1>4 DEF ForeignKept, KeptInStep

=============================================================================
