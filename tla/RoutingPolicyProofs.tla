-------------------------- MODULE RoutingPolicyProofs --------------------------
(***************************************************************************)
(* Proofs about RoutingPolicy: any number of routes, of controllers and of *)
(* rules, whatever the routes commit.                                      *)
(*                                                                         *)
(* The invariants build on one another:                                    *)
(*                                                                         *)
(*   - Typed: the types, and that only OCI's kinds of lists are queued;    *)
(*   - Staged: whoever is between reading and the end of its wait holds    *)
(*     the lock, a queued write belongs to the holder or to an owner that  *)
(*     gave up on it, and a route that is writing is not settled;          *)
(*   - Current: unless someone gave up, what the lock's holder has read,   *)
(*     and what is queued, is still computed from the policy as it is.     *)
(*     The Gateway's deletion takes no lock, but what is updated after it  *)
(*     is refused, because the policy is gone;                             *)
(*   - DefaultInv: the default rule stays in everything that is read,      *)
(*     queued or there, from the Gateway's repair on; a Gateway that has   *)
(*     not given up has no write in flight when it reports;                *)
(*   - KeepInv: with at most one owner that gave up there is at most one   *)
(*     late request.  What the lock's holder has read and what is queued   *)
(*     has the rules of every other route that is settled; the late        *)
(*     request leaves the rules of other routes as they are, or is         *)
(*     refused; and a route that was not overtaken has read its own rules  *)
(*     as they are.                                                        *)
(***************************************************************************)
EXTENDS RoutingPolicy, SequenceTheorems, FiniteSetTheorems, TLAPS

USE RoutingPolicyAssumption, NilAssumption

----------------------------------------------------------------------------
(* Lemmas on rules and commits.                                            *)

LEMMA CommitParts ==
  ASSUME NEW c \in AnyCommit
  PROVE  /\ c.route \in Routes /\ c \in Commits(c.route)
         /\ c.new \subseteq RulesOf(c.route) /\ OneRulePerName(c.new)
         /\ \A name \in c.gone \cup NamesOf(c.new) : name[1] = c.route
         /\ NamesOf(c.new) \cap c.gone = {}
         /\ c # Nil
BY DEF AnyCommit, Commits, NamesOf, RulesOf

LEMMA DefaultParts ==
  ASSUME NEW b \in Backends
  PROVE  /\ DefaultRule(b) \in Rule /\ DefaultRule(b).name = DefaultName
         /\ DefaultName \in Names /\ DefaultName[1] = Gateway
         /\ DefaultRule(b) \in RulesOf(Gateway)
BY DEF DefaultRule, DefaultName, Rule, Names, Owners, RulesOf

\* What a commit makes of a policy still has one rule of each name.
LEMMA MergedTyped ==
  ASSUME NEW p \in RuleLists, NEW c \in AnyCommit
  PROVE  Merged(p, c) \in RuleLists \cup {{}}
<1>1. Merged(p, c) \subseteq Rule
  BY CommitParts DEF Merged, RuleLists, RulesOf
<1>2. OneRulePerName(Merged(p, c))
  BY CommitParts DEF Merged, RuleLists, OneRulePerName, NamesOf
<1>. QED
  BY <1>1, <1>2 DEF RuleLists

LEMMA NewTyped ==
  ASSUME NEW c \in AnyCommit
  PROVE  c.new \in RuleLists \cup {{}}
BY CommitParts DEF RuleLists, RulesOf

LEMMA WithDefaultTyped ==
  ASSUME NEW p \in RuleLists \cup {{}}
  PROVE  WithDefault(p) \in RuleLists
<1>1. WithDefault(p) \subseteq Rule
  BY DefaultParts DEF WithDefault, RuleLists
<1>2. OneRulePerName(WithDefault(p))
  BY DefaultParts DEF WithDefault, RuleLists, OneRulePerName
<1>. QED
  BY <1>1, <1>2 DEF RuleLists, WithDefault

----------------------------------------------------------------------------
(* Lemmas on the queue.                                                    *)

InQueue == DOMAIN queue

LEMMA Appended ==
  ASSUME queue \in Seq(Requests), NEW req \in Requests, queue' = Append(queue, req)
  PROVE  /\ queue' \in Seq(Requests) /\ Len(queue) + 1 \in Nat
         /\ Len(queue) + 1 \in InQueue' /\ queue'[Len(queue) + 1] = req
         /\ \A i \in InQueue : i \in Nat /\ i \in InQueue' /\ queue'[i] = queue[i] /\ i < Len(queue) + 1
         /\ \A i \in InQueue' : i \in InQueue \/ i = Len(queue) + 1
BY AppendProperties, LenProperties DEF InQueue

LEMMA Tailed ==
  ASSUME queue \in Seq(Requests), queue # <<>>, queue' = Tail(queue)
  PROVE  /\ queue' \in Seq(Requests)
         /\ Head(queue) = queue[1] /\ 1 \in InQueue /\ queue[1] \in Requests
         /\ \A i \in InQueue' : /\ i \in Nat \ {0}
                                /\ i + 1 \in InQueue /\ queue'[i] = queue[i + 1]
<1>1. Len(queue) \in Nat \ {0} /\ InQueue = 1..Len(queue)
  BY EmptySeq, LenProperties DEF InQueue
<1>2. /\ queue' \in Seq(Requests) /\ Len(queue') = Len(queue) - 1
      /\ \A i \in 1..Len(queue') : queue'[i] = queue[i + 1]
  BY HeadTailProperties
<1>3. InQueue' = 1..Len(queue')
  BY <1>2, LenProperties DEF InQueue
<1>4. queue[1] \in Requests
  BY <1>1, ElementOfSeq
<1>5. Head(queue) = queue[1]
  BY <1>1
<1>. QED
  BY <1>1, <1>2, <1>3, <1>4, <1>5

LEMMA Marked ==
  ASSUME queue \in Seq(Requests), NEW i \in InQueue, queue' = [queue EXCEPT ![i].by = Nil]
  PROVE  /\ queue' \in Seq(Requests)
         /\ InQueue' = InQueue
         /\ queue'[i].by = Nil /\ queue'[i].owner = queue[i].owner
         /\ queue'[i].kind = queue[i].kind /\ queue'[i].rules = queue[i].rules
         /\ \A j \in InQueue \ {i} : queue'[j] = queue[j]
<1>1. InQueue = 1..Len(queue) /\ queue[i] \in Requests
  BY LenProperties, ElementOfSeq DEF InQueue
<1>. DEFINE late == [queue[i] EXCEPT !.by = Nil]
<1>2. /\ late \in Requests
      /\ late.by = Nil /\ late.owner = queue[i].owner
      /\ late.kind = queue[i].kind /\ late.rules = queue[i].rules
  BY <1>1 DEF Requests
<1>3. queue' = [queue EXCEPT ![i] = late]
  OBVIOUS
<1>. HIDE DEF late
<1>. QED
  BY <1>1, <1>2, <1>3, ExceptSeq, LenProperties DEF InQueue

LEMMA InQueueTyped ==
  ASSUME queue \in Seq(Requests), NEW i \in InQueue
  PROVE  queue[i] \in Requests /\ i \in Nat \ {0}
BY ElementOfSeq, LenProperties DEF InQueue

----------------------------------------------------------------------------
(* Types.                                                                  *)

CanHold == {"reading", "merging", "waiting"}

\* A route controller that is not idle carries a commit of one of its routes.
RouteStages ==
  \A w \in RouteWorkers :
    /\ pc[w] \in {"idle", "locking"} \cup CanHold
    /\ pc[w] = "idle" => op[w] = Nil
    /\ pc[w] # "idle" => op[w] \in AnyCommit /\ op[w].route \in Reconciles[w]

\* A write is a list that OCI takes: not empty, one rule of a name.  A missing policy is
\* created from the rules of one owner.
Listed(req) ==
  /\ IF req.kind = "delete" THEN req.rules = {} ELSE req.rules \in RuleLists
  /\ req.kind = "create" => req.rules \subseteq RulesOf(req.owner)

RequestsListed == \A i \in InQueue : Listed(queue[i])

Typed == TypeOK /\ RouteStages /\ RequestsListed

LEMMA InitTyped == Init => Typed
<1> SUFFICES ASSUME Init PROVE Typed
  OBVIOUS
<1>1. policy \in Policies
  <2>1. \A b \in Backends : {DefaultRule(b)} \in RuleLists
    BY DefaultParts DEF RuleLists, OneRulePerName
  <2>. QED
    BY <2>1 DEF Init, Policies
<1>2. holder \in [{PolicyKey} -> Workers \cup {Nil}]
  BY DEF Init, Mutex!Init
<1>3. queue \in Seq(Requests) /\ InQueue = {}
  BY EmptySeq DEF Init, InQueue
<1>4. TypeOK
  BY <1>1, <1>2, <1>3 DEF Init, TypeOK, Stages, Policies
<1>. QED
  BY <1>3, <1>4 DEF Init, Typed, RouteStages, RequestsListed, Workers

\* A worker whose call returns is idle and forgets what it read.
LEMMA Returned ==
  ASSUME TypeOK, RouteStages, NEW w \in Workers, Return(w)
  PROVE  /\ pc' \in [Workers -> Stages] /\ op' \in [Workers -> AnyCommit \cup {Nil}]
         /\ read' \in [Workers -> Policies] /\ overtaken' \subseteq RouteWorkers
         /\ outcome' \in [Workers -> {"none", "succeeded", "failed"}]
         /\ pc'[w] = "idle" /\ op'[w] = Nil /\ outcome'[w] = "none"
         /\ \A v \in Workers \ {w} : /\ pc'[v] = pc[v] /\ op'[v] = op[v]
                                     /\ read'[v] = read[v] /\ outcome'[v] = outcome[v]
         /\ RouteStages'
<1>1. Nil \in Policies /\ "idle" \in Stages
  BY DEF Policies, Stages
<1>2. /\ pc' \in [Workers -> Stages] /\ op' \in [Workers -> AnyCommit \cup {Nil}]
      /\ read' \in [Workers -> Policies] /\ overtaken' \subseteq RouteWorkers
      /\ outcome' \in [Workers -> {"none", "succeeded", "failed"}]
      /\ pc'[w] = "idle" /\ op'[w] = Nil /\ outcome'[w] = "none"
      /\ \A v \in Workers \ {w} : /\ pc'[v] = pc[v] /\ op'[v] = op[v]
                                  /\ read'[v] = read[v] /\ outcome'[v] = outcome[v]
  BY <1>1 DEF TypeOK, Return
<1>. QED
  BY <1>2 DEF RouteStages, Workers, CanHold

LEMMA MoveTyped ==
  ASSUME TypeOK, RouteStages, NEW w \in RouteWorkers, NEW from, NEW to \in CanHold,
         from # "idle", Move(w, from, to), UNCHANGED op
  PROVE  pc' \in [Workers -> Stages] /\ RouteStages'
<1>1. pc' \in [Workers -> Stages] /\ pc[w] # "idle" /\ pc'[w] = to /\ to # "idle"
  BY DEF TypeOK, Move, CanHold, Stages, Workers
<1>2. \A v \in Workers \ {w} : pc'[v] = pc[v]
  BY DEF TypeOK, Move
<1>. QED
  BY <1>1, <1>2 DEF RouteStages, Workers

LEMMA GatewayMoveTyped ==
  ASSUME TypeOK, RouteStages, NEW from, NEW to \in Stages, Move(Gateway, from, to), UNCHANGED op
  PROVE  pc' \in [Workers -> Stages] /\ RouteStages'
BY DEF TypeOK, Move, RouteStages, Workers

LEMMA SettleTyped ==
  ASSUME Typed, NEW w \in RouteWorkers, pc[w] # "idle", Settle(w)
  PROVE  /\ settled' \in [Routes -> AnyCommit \cup {Nil}]
         /\ \A r \in Routes : settled'[r] # Nil => settled'[r].route = r
BY DEF Typed, TypeOK, Settle, RouteStages

LEMMA CommitTyped == ASSUME Typed, NEW w \in RouteWorkers, Commit(w) PROVE Typed'
<1>0. PICK r \in Reconciles[w] : \E c \in Commits(r) : op' = [op EXCEPT ![w] = c]
  BY DEF Commit
<1>1. PICK c \in Commits(r) : op' = [op EXCEPT ![w] = c]
  BY <1>0
<1>2. r \in Routes /\ c \in AnyCommit /\ c.route \in Reconciles[w]
  BY DEF AnyCommit, Commits
<1>3. op' \in [Workers -> AnyCommit \cup {Nil}] /\ op'[w] = c
  BY <1>1, <1>2 DEF Typed, TypeOK, Workers
<1>4. pc' \in [Workers -> Stages] /\ pc'[w] = "locking"
  BY DEF Commit, Move, Typed, TypeOK, Stages, Workers
<1>5. \A v \in Workers \ {w} : pc'[v] = pc[v] /\ op'[v] = op[v]
  BY <1>1 DEF Commit, Move, Typed, TypeOK
<1>6. RouteStages'
  BY <1>2, <1>3, <1>4, <1>5 DEF Typed, RouteStages, Workers
<1>. QED
  BY <1>3, <1>4, <1>6 DEF Commit, Typed, TypeOK, RequestsListed, InQueue, oci

LEMMA EnterCommitTyped == ASSUME Typed, NEW w \in RouteWorkers, EnterCommit(w) PROVE Typed'
<1>1. pc' \in [Workers -> Stages] /\ RouteStages'
  BY MoveTyped DEF EnterCommit, Typed, CanHold
<1>2. holder' \in [{PolicyKey} -> Workers \cup {Nil}]
  BY DEF EnterCommit, Enter, Mutex!Enter, Typed, TypeOK, Workers
<1>. QED
  BY <1>1, <1>2 DEF EnterCommit, Typed, TypeOK, RequestsListed, InQueue, oci

LEMMA GetPolicyTyped == ASSUME Typed, NEW w \in RouteWorkers, GetPolicy(w) PROVE Typed'
<1>1. pc' \in [Workers -> Stages] /\ RouteStages'
  BY MoveTyped DEF GetPolicy, Typed, CanHold
<1>. QED
  BY <1>1 DEF GetPolicy, Typed, TypeOK, RequestsListed, InQueue, oci

LEMMA ReturnsTyped ==
  ASSUME Typed, NEW w \in RouteWorkers, SkipCommit(w) \/ CommitSucceeds(w) \/ CommitFails(w)
  PROVE  Typed'
<1>1. Return(w) /\ w \in Workers /\ UNCHANGED <<oci, attached, ready, abandoned>>
  BY DEF SkipCommit, CommitSucceeds, CommitFails, Workers
<1>2. (pc[w] # "idle" /\ Settle(w)) \/ UNCHANGED settled
  BY DEF SkipCommit, CommitSucceeds, CommitFails
<1>3. /\ settled' \in [Routes -> AnyCommit \cup {Nil}]
      /\ \A r \in Routes : settled'[r] # Nil => settled'[r].route = r
  BY <1>2, SettleTyped DEF Typed, TypeOK
<1>4. holder' \in [{PolicyKey} -> Workers \cup {Nil}]
  BY DEF SkipCommit, CommitSucceeds, CommitFails, Leave, Typed, TypeOK
<1>. QED
  BY <1>1, <1>3, <1>4, Returned DEF Typed, TypeOK, RequestsListed, InQueue, oci

\* What a commit comes to.
LEMMA WriteParts ==
  ASSUME Typed, NEW w \in RouteWorkers, pc[w] # "idle"
  PROVE  /\ op[w] \in AnyCommit /\ op[w].route \in Routes /\ read[w] \in Policies
         /\ WriteOf(w).kind \in {"create", "update", "delete"}
         /\ WriteOf(w).rules \in RuleLists \cup {{}}
         /\ WriteOf(w).kind = "create" <=> read[w] = Nil
         /\ read[w] = Nil => WriteOf(w).rules = op[w].new
         /\ read[w] # Nil => WriteOf(w).rules = Merged(read[w], op[w])
         /\ WriteOf(w).kind = "delete" <=> read[w] # Nil /\ WriteOf(w).rules = {}
         /\ ~UpToDate(w) => (WriteOf(w).rules = {} <=> WriteOf(w).kind = "delete")
         /\ read[w] = Nil => WriteOf(w).rules \subseteq RulesOf(op[w].route)
<1>1. op[w] \in AnyCommit /\ op[w].route \in Routes /\ read[w] \in Policies
  BY DEF Typed, TypeOK, RouteStages, Workers
<1>2. op[w].new \in RuleLists \cup {{}} /\ op[w].new \subseteq RulesOf(op[w].route)
  BY <1>1, NewTyped, CommitParts
<1>3. read[w] # Nil => Merged(read[w], op[w]) \in RuleLists \cup {{}}
  BY <1>1, MergedTyped DEF Policies
<1>. QED
  BY <1>1, <1>2, <1>3 DEF WriteOf, UpToDate

\* What OCI accepts joins the queue.
LEMMA SubmitTyped ==
  ASSUME Typed, NEW w \in Workers, NEW owner \in Owners, NEW kind \in {"create", "update", "delete"},
         NEW rules \in RuleLists \cup {{}}, rules = {} <=> kind = "delete",
         kind = "create" => rules \subseteq RulesOf(owner),
         Submit(w, owner, kind, rules)
  PROVE  queue' \in Seq(Requests) /\ RequestsListed'
<1>. DEFINE req == [by |-> w, owner |-> owner, kind |-> kind, rules |-> rules]
<1>1. req \in Requests /\ queue \in Seq(Requests) /\ queue' = Append(queue, req)
  BY DEF Requests, RuleLists, Submit, Typed, TypeOK
<1>2. Listed(req)
  BY DEF Listed
<1>. HIDE DEF req
<1>. QED
  BY <1>1, <1>2, Appended DEF RequestsListed, Typed

LEMMA WriteCommitTyped == ASSUME Typed, NEW w \in RouteWorkers, WriteCommit(w) PROVE Typed'
<1>1. pc' \in [Workers -> Stages] /\ RouteStages' /\ pc[w] # "idle"
  BY MoveTyped DEF WriteCommit, Move, Typed, CanHold
<1>2. op[w] \in AnyCommit /\ op[w].route \in Routes /\ w \in Workers
  BY <1>1, WriteParts DEF Workers
<1>3. /\ WriteOf(w).kind \in {"create", "update", "delete"}
      /\ WriteOf(w).rules \in RuleLists \cup {{}}
      /\ WriteOf(w).rules = {} <=> WriteOf(w).kind = "delete"
      /\ WriteOf(w).kind = "create" => WriteOf(w).rules \subseteq RulesOf(op[w].route)
  BY <1>1, WriteParts DEF WriteCommit
<1>4. queue' \in Seq(Requests) /\ RequestsListed'
  BY <1>2, <1>3, SubmitTyped DEF WriteCommit, Owners
<1>. QED
  BY <1>1, <1>2, <1>4 DEF WriteCommit, Typed, TypeOK

LEMMA GiveUpTyped ==
  ASSUME Typed, NEW w \in Workers, NEW owner \in Owners, GiveUp(w, owner)
  PROVE  Typed'
<1>1. PICK i \in InQueue : queue' = [queue EXCEPT ![i].by = Nil]
  BY DEF GiveUp, InQueue
<1>2. queue[i] \in Requests /\ queue \in Seq(Requests)
  BY InQueueTyped DEF Typed, TypeOK
<1>3. queue' \in Seq(Requests) /\ RequestsListed'
  <2>1. /\ queue' \in Seq(Requests) /\ InQueue' = InQueue
        /\ queue'[i].by = Nil /\ queue'[i].owner = queue[i].owner
        /\ queue'[i].kind = queue[i].kind /\ queue'[i].rules = queue[i].rules
        /\ \A j \in InQueue \ {i} : queue'[j] = queue[j]
    BY <1>1, <1>2, Marked
  <2>2. Listed(queue'[i])
    BY <2>1 DEF Typed, RequestsListed, Listed
  <2>. QED
    BY <2>1, <2>2 DEF Typed, RequestsListed, Listed
<1>4. holder' \in [{PolicyKey} -> Workers \cup {Nil}]
  BY DEF GiveUp, Leave, Typed, TypeOK
<1>5. Return(w) /\ attached' \in BOOLEAN /\ abandoned' \subseteq Owners
  BY DEF GiveUp, Typed, TypeOK
<1>. QED
  BY <1>3, <1>4, <1>5, Returned DEF GiveUp, Typed, TypeOK

\* The steps of the Gateway that send OCI nothing.
LEMMA GatewayMovesTyped ==
  ASSUME Typed,
         GatewaySnapshot \/ EnterReconcile \/ TrustSnapshot \/ Refresh \/ NothingToRepair
           \/ Repaired \/ Detach
  PROVE  Typed'
<1>1. pc' \in [Workers -> Stages] /\ RouteStages'
  <2>1. \E from, to \in Stages : Move(Gateway, from, to)
    BY DEF GatewaySnapshot, EnterReconcile, TrustSnapshot, Refresh, NothingToRepair, Repaired,
           Detach, Stages
  <2>2. UNCHANGED op
    BY DEF GatewaySnapshot, EnterReconcile, TrustSnapshot, Refresh, NothingToRepair, Repaired,
           Detach
  <2>. QED
    BY <2>1, <2>2, GatewayMoveTyped DEF Typed
<1>2. read' \in [Workers -> Policies]
  BY DEF GatewaySnapshot, EnterReconcile, TrustSnapshot, Refresh, NothingToRepair, Repaired,
         Detach, Refreshed, Typed, TypeOK, Workers
<1>3. holder' \in [{PolicyKey} -> Workers \cup {Nil}]
  BY DEF GatewaySnapshot, EnterReconcile, TrustSnapshot, Refresh, NothingToRepair, Repaired,
         Detach, Enter, Mutex!Enter, Leave, Typed, TypeOK, Workers
<1>4. outcome' \in [Workers -> {"none", "succeeded", "failed"}]
  BY DEF GatewaySnapshot, EnterReconcile, TrustSnapshot, Refresh, NothingToRepair, Repaired,
         Detach, Typed, TypeOK
<1>5. listener' \in BOOLEAN /\ attached' \in BOOLEAN /\ ready' \in BOOLEAN
  BY DEF GatewaySnapshot, EnterReconcile, TrustSnapshot, Refresh, NothingToRepair, Repaired,
         Detach, Typed, TypeOK, oci
<1>6. UNCHANGED <<policy, queue, op, settled, overtaken, abandoned>>
  BY DEF GatewaySnapshot, EnterReconcile, TrustSnapshot, Refresh, NothingToRepair, Repaired,
         Detach, oci
<1>. QED
  BY <1>1, <1>2, <1>3, <1>4, <1>5, <1>6 DEF Typed, TypeOK, RequestsListed, InQueue

LEMMA RepairTyped == ASSUME Typed, Repair PROVE Typed'
<1>1. pc' \in [Workers -> Stages] /\ RouteStages'
  BY GatewayMoveTyped DEF Repair, Typed, Stages
<1>2. queue' \in Seq(Requests) /\ RequestsListed'
  <2>1. read[Gateway] \in RuleLists \cup {Nil} /\ Gateway \in Workers \cap Owners
    BY DEF Typed, TypeOK, Policies, Workers, Owners
  <2>2. CASE read[Gateway] = Nil
    <3>1. WithDefault({}) \in RuleLists /\ WithDefault({}) # {}
      BY WithDefaultTyped DEF RuleLists
    <3>2. WithDefault({}) \subseteq RulesOf(Gateway)
      BY DefaultParts DEF WithDefault
    <3>. QED
      BY <2>1, <2>2, <3>1, <3>2, SubmitTyped DEF Repair
  <2>3. CASE read[Gateway] # Nil
    <3>1. WithDefault(read[Gateway]) \in RuleLists /\ WithDefault(read[Gateway]) # {}
      BY <2>1, <2>3, WithDefaultTyped DEF RuleLists
    <3>. QED
      BY <2>1, <2>3, <3>1, SubmitTyped DEF Repair
  <2>. QED
    BY <2>2, <2>3
<1>. QED
  BY <1>1, <1>2 DEF Repair, Typed, TypeOK

LEMMA DeletePolicyTyped == ASSUME Typed, DeletePolicy PROVE Typed'
<1>1. pc' \in [Workers -> Stages] /\ RouteStages'
  BY GatewayMoveTyped DEF DeletePolicy, Typed, Stages
<1>2. queue' \in Seq(Requests) /\ RequestsListed'
  BY SubmitTyped DEF DeletePolicy, Workers, Owners
<1>. QED
  BY <1>1, <1>2 DEF DeletePolicy, Typed, TypeOK

LEMMA GatewayReturnsTyped ==
  ASSUME Typed, Attach \/ Detached \/ GatewayFails
  PROVE  Typed'
<1>1. /\ Return(Gateway) /\ attached' = FALSE
      /\ UNCHANGED <<policy, queue, settled, abandoned>>
  BY DEF Attach, Detached, GatewayFails, oci
<1>2. holder' \in [{PolicyKey} -> Workers \cup {Nil}]
  BY DEF Attach, Detached, GatewayFails, Leave, Typed, TypeOK
<1>3. ready' \in BOOLEAN /\ listener' \in BOOLEAN
  BY DEF Attach, Detached, GatewayFails, Typed, TypeOK, oci
<1>. QED
  BY <1>1, <1>2, <1>3, Returned DEF Typed, TypeOK, RequestsListed, InQueue, Workers

LEMMA OCITyped == ASSUME Typed, CarryOut \/ Refuse PROVE Typed'
<1>1. queue # <<>> /\ \E result \in {"succeeded", "failed"} : Answer(result)
  BY DEF CarryOut, Refuse
<1>2. Head(queue) = queue[1] /\ queue[1] \in Requests /\ 1 \in InQueue
  BY <1>1, Tailed DEF Answer, Typed, TypeOK
<1>3. queue' \in Seq(Requests) /\ RequestsListed'
  <2>1. queue \in Seq(Requests) /\ queue' = Tail(queue)
    BY <1>1 DEF Answer, Typed, TypeOK
  <2>. QED
    BY <1>1, <2>1, Tailed DEF Typed, RequestsListed
<1>4. outcome' \in [Workers -> {"none", "succeeded", "failed"}]
  BY <1>1, <1>2 DEF Answer, Typed, TypeOK, Requests
<1>5. policy' \in Policies
  BY <1>2 DEF CarryOut, Refuse, Typed, TypeOK, RequestsListed, Listed, Policies
<1>6. /\ settled' \in [Routes -> AnyCommit \cup {Nil}]
      /\ \A r \in Routes : settled'[r] # Nil => settled'[r].route = r
  BY DEF CarryOut, Refuse, Typed, TypeOK
<1>7. overtaken' \subseteq RouteWorkers
  BY DEF CarryOut, Refuse, Overtakes, Typed, TypeOK
<1>8. RouteStages'
  BY <1>1 DEF Answer, Typed, RouteStages
<1>. QED
  BY <1>1, <1>3, <1>4, <1>5, <1>6, <1>7, <1>8 DEF Answer, Typed, TypeOK

LEMMA NextTyped == Typed /\ [Next]_vars => Typed'
<1> SUFFICES ASSUME Typed, [Next]_vars PROVE Typed'
  OBVIOUS
<1>1. ASSUME NEW w \in RouteWorkers, Commit(w) \/ CommitStep(w) PROVE Typed'
  <2>1. CASE op[w] # Nil /\ GiveUp(w, op[w].route)
    <3>1. op[w] \in AnyCommit
      BY <2>1 DEF Typed, TypeOK, Workers
    <3>. QED
      BY <2>1, <3>1, CommitParts, GiveUpTyped DEF Owners, Workers
  <2>. QED
    BY <1>1, <2>1, CommitTyped, EnterCommitTyped, GetPolicyTyped, ReturnsTyped, WriteCommitTyped
    DEF CommitStep
<1>2. CASE GatewaySnapshot
  BY <1>2, GatewayMovesTyped
<1>3. CASE GatewayStep
  BY <1>3, GatewayMovesTyped, RepairTyped, DeletePolicyTyped, GatewayReturnsTyped, GiveUpTyped
  DEF GatewayStep, Workers, Owners
<1>4. CASE CarryOut \/ Refuse
  BY <1>4, OCITyped
<1>5. CASE UNCHANGED vars
  BY <1>5 DEF vars, oci, Typed, TypeOK, RouteStages, RequestsListed, InQueue
<1>. QED
  BY <1>1, <1>2, <1>3, <1>4, <1>5 DEF Next

THEOREM TypeCorrect == Spec => []TypeOK
<1>1. Typed => TypeOK
  BY DEF Typed
<1>. QED
  BY <1>1, InitTyped, NextTyped, PTL DEF Spec

----------------------------------------------------------------------------
(* The lock and the requests.                                              *)

Holds(w) == holder[PolicyKey] = w

\* A route controller holds the lock from its read to the end of its wait, the Gateway
\* from its check to the end of the wait for a repair.
LockStages ==
  /\ \A w \in RouteWorkers : pc[w] \in CanHold <=> Holds(w)
  /\ pc[Gateway] \notin {"reading", "merging"}
  /\ pc[Gateway] \in {"checking", "repairing"} => Holds(Gateway)
  /\ Holds(Gateway) => pc[Gateway] \in {"checking", "repairing", "waiting"}

AnswersAwaited == \A w \in Workers : outcome[w] # "none" => pc[w] = "waiting"

\* A request that is not late has a worker that waits for it, and for no other.
RequestsAwaited ==
  \A i \in InQueue : queue[i].by # Nil =>
    /\ pc[queue[i].by] = "waiting" /\ outcome[queue[i].by] = "none"
    /\ \A j \in InQueue : queue[j].by = queue[i].by => i = j

\* What the Gateway writes, from what it read.
RepairOf(p) == WithDefault(IF p = Nil THEN {} ELSE p)

\* The request a worker waits for is the write of what it read, and it is sent under
\* the lock unless it is the Gateway's deletion.
Planned(w, req) ==
  IF w = Gateway
  THEN /\ req.owner = Gateway
       /\ Holds(Gateway) <=> ~Wipes(req)
       /\ Holds(Gateway) => /\ req.rules = RepairOf(read[Gateway])
                            /\ req.kind = IF read[Gateway] = Nil THEN "create" ELSE "update"
  ELSE /\ req.owner = op[w].route
       /\ req.kind = WriteOf(w).kind
       /\ req.rules = WriteOf(w).rules

RequestsPlanned ==
  \A i \in InQueue : queue[i].by # Nil => Planned(queue[i].by, queue[i])

\* Only late requests are ahead of one that was sent under the lock.
InOrder ==
  \A i, j \in InQueue :
    i < j /\ ~Wipes(queue[i]) /\ ~Wipes(queue[j]) => queue[i].by = Nil

\* When the holder of the lock has its answer, only a deletion can be queued.
AnsweredLast ==
  \A w \in Workers : Holds(w) /\ outcome[w] # "none" => \A i \in InQueue : Wipes(queue[i])

\* A route that is being written has no success on record.
Unsettled ==
  \A w \in RouteWorkers : pc[w] = "waiting" => settled[op[w].route] = Nil

Locking == LockStages /\ AnswersAwaited
Queued == RequestsAwaited /\ RequestsPlanned /\ InOrder /\ AnsweredLast
Staged == Typed /\ Locking /\ Queued /\ Unsettled

LEMMA InitStaged == Init => Staged
<1> SUFFICES ASSUME Init PROVE Staged
  OBVIOUS
<1>1. InQueue = {}
  BY EmptySeq DEF Init, InQueue
<1>2. \A w \in Workers : ~Holds(w) /\ pc[w] = "idle" /\ outcome[w] = "none" /\ w # Nil
  BY DEF Init, Mutex!Init, Holds, Workers
<1>. QED
  BY <1>1, <1>2, InitTyped
  DEF Staged, Locking, Queued, LockStages, AnswersAwaited, RequestsAwaited, RequestsPlanned,
      InOrder, AnsweredLast, Unsettled, Workers, CanHold

\* Two route controllers never carry commits of one route.
LEMMA OneWorker ==
  ASSUME Typed, NEW v \in RouteWorkers, NEW w \in RouteWorkers,
         pc[v] # "idle", pc[w] # "idle", op[v].route = op[w].route
  PROVE  v = w
BY DEF Typed, RouteStages

\* A worker without a request in the queue may go anywhere.
LEMMA QueueKept ==
  ASSUME Staged, NEW w \in Workers, ~(pc[w] = "waiting" /\ outcome[w] = "none"),
         UNCHANGED queue,
         w # Gateway => (Holds(Gateway)' <=> Holds(Gateway)),
         \A v \in Workers \ {w} : /\ pc'[v] = pc[v] /\ op'[v] = op[v]
                                  /\ read'[v] = read[v] /\ outcome'[v] = outcome[v]
  PROVE  RequestsAwaited' /\ RequestsPlanned' /\ InOrder'
<1>1. \A i \in InQueue : queue[i].by \in Workers \cup {Nil}
  BY InQueueTyped DEF Staged, Typed, TypeOK, Requests
<1>2. \A i \in InQueue : queue[i].by # w
  BY DEF Staged, Queued, RequestsAwaited, Workers
<1>3. RequestsAwaited' /\ InOrder'
  BY <1>1, <1>2 DEF Staged, Queued, RequestsAwaited, InOrder, InQueue, Wipes
<1>4. RequestsPlanned'
  <2> SUFFICES ASSUME NEW i \in InQueue, queue[i].by # Nil
               PROVE  Planned(queue[i].by, queue[i])'
    BY DEF RequestsPlanned, InQueue
  <2>1. Planned(queue[i].by, queue[i]) /\ queue[i].by \in Workers \ {w}
    BY <1>1, <1>2 DEF Staged, Queued, RequestsPlanned
  <2>. QED
    BY <2>1 DEF Planned, Wipes, WriteOf
<1>. QED
  BY <1>3, <1>4

Ordered == Locking /\ Queued /\ Unsettled

LEMMA StartStaged ==
  ASSUME Staged, NEW w \in RouteWorkers, Commit(w) \/ EnterCommit(w) \/ GetPolicy(w)
  PROVE  Ordered'
<1>1. /\ UNCHANGED <<queue, outcome, settled>> /\ w \in Workers /\ w # Gateway
      /\ pc[w] # "waiting" /\ pc'[w] # "waiting" /\ pc'[w] # "idle"
  BY DEF Commit, EnterCommit, GetPolicy, Move, oci, Workers, Staged, Typed, TypeOK, CanHold
<1>2. \A v \in Workers \ {w} : /\ pc'[v] = pc[v] /\ op'[v] = op[v]
                               /\ read'[v] = read[v] /\ outcome'[v] = outcome[v]
  BY DEF Commit, EnterCommit, GetPolicy, Move, Staged, Typed, TypeOK
<1>3. \/ /\ holder'[PolicyKey] = holder[PolicyKey]
         /\ pc'[w] \in CanHold <=> pc[w] \in CanHold
      \/ /\ holder[PolicyKey] = Nil /\ holder'[PolicyKey] = w
         /\ pc'[w] \in CanHold
  <2>1. CASE Commit(w)
    BY <2>1 DEF Commit, Move, Staged, Typed, TypeOK, CanHold, Workers
  <2>2. CASE EnterCommit(w)
    BY <2>2 DEF EnterCommit, Move, Enter, Mutex!Enter, Staged, Typed, TypeOK, CanHold, Workers
  <2>3. CASE GetPolicy(w)
    BY <2>3 DEF GetPolicy, Move, Staged, Typed, TypeOK, CanHold, Workers
  <2>. QED
    BY <2>1, <2>2, <2>3
<1>4. outcome[w] = "none"
  BY <1>1 DEF Staged, Locking, AnswersAwaited, Staged, Typed, TypeOK
<1>5. RequestsAwaited' /\ RequestsPlanned' /\ InOrder'
  BY <1>1, <1>2, <1>3, QueueKept DEF Holds
<1>6. Locking'
  <2>1. pc'[Gateway] = pc[Gateway] /\ (Holds(Gateway)' <=> Holds(Gateway))
    BY <1>1, <1>2, <1>3 DEF Holds, Workers
  <2>2. LockStages'
    BY <1>1, <1>2, <1>3, <2>1 DEF Staged, Locking, LockStages, Holds, Workers
  <2>. QED
    BY <1>1, <1>2, <1>4, <2>2 DEF Staged, Locking, AnswersAwaited
<1>7. AnsweredLast'
  BY <1>1, <1>3, <1>4 DEF Staged, Queued, AnsweredLast, Holds, InQueue, Wipes, Workers
<1>8. Unsettled'
  BY <1>1, <1>2 DEF Staged, Unsettled, Workers
<1>. QED
  BY <1>5, <1>6, <1>7, <1>8 DEF Ordered, Queued

LEMMA EndStaged ==
  ASSUME Staged, NEW w \in RouteWorkers, SkipCommit(w) \/ CommitSucceeds(w) \/ CommitFails(w)
  PROVE  Ordered'
<1>1. /\ UNCHANGED queue /\ w \in Workers /\ w # Gateway /\ Return(w)
      /\ Settle(w) \/ UNCHANGED settled
      /\ holder' = [holder EXCEPT ![PolicyKey] = Nil]
      /\ pc[w] \in CanHold /\ (pc[w] = "waiting" => outcome[w] # "none")
  BY DEF SkipCommit, CommitSucceeds, CommitFails, oci, Workers, Leave, CanHold, Staged, Locking,
         AnswersAwaited
<1>2. Holds(w) /\ holder'[PolicyKey] = Nil
  BY <1>1 DEF Staged, Locking, LockStages, Typed, TypeOK
<1>3. /\ pc'[w] = "idle" /\ op'[w] = Nil /\ outcome'[w] = "none"
      /\ \A v \in Workers \ {w} : /\ pc'[v] = pc[v] /\ op'[v] = op[v]
                                  /\ read'[v] = read[v] /\ outcome'[v] = outcome[v]
  BY <1>1, Returned DEF Staged, Typed
<1>4. \A v \in Workers : ~Holds(v)' /\ (v # w => ~Holds(v))
  BY <1>2 DEF Holds, Workers
<1>5. RequestsAwaited' /\ RequestsPlanned' /\ InOrder'
  BY <1>1, <1>3, <1>4, QueueKept DEF Workers
<1>6. Locking'
  BY <1>3, <1>4 DEF Staged, Locking, LockStages, AnswersAwaited, Workers, CanHold
<1>7. AnsweredLast'
  BY <1>4 DEF AnsweredLast
<1>8. Unsettled'
  <2> SUFFICES ASSUME NEW v \in RouteWorkers, pc'[v] = "waiting" PROVE settled'[op'[v].route] = Nil
    BY DEF Unsettled
  <2>1. v # w /\ pc[v] = "waiting" /\ op'[v] = op[v] /\ settled[op[v].route] = Nil
    BY <1>3 DEF Staged, Unsettled, Workers
  <2>2. op[v].route # op[w].route
    BY <1>1, <2>1, OneWorker DEF Staged, CanHold
  <2>3. op[v].route \in Routes /\ op[w].route \in Routes
    BY <1>1, <2>1, WriteParts DEF Staged, CanHold
  <2>. QED
    BY <1>1, <2>1, <2>2, <2>3 DEF Settle, Staged, Typed, TypeOK
<1>. QED
  BY <1>5, <1>6, <1>7, <1>8 DEF Ordered, Queued

\* A request that its sender waits for, sent under the lock or a deletion, joins the queue.
LEMMA SubmitQueued ==
  ASSUME Staged, NEW w \in Workers, NEW req \in Requests, req.by = w,
         queue' = Append(queue, req), pc[w] # "waiting", pc'[w] = "waiting",
         \A v \in Workers \ {w} : pc'[v] = pc[v],
         UNCHANGED <<op, read, outcome, holder>>,
         Holds(w) \/ Wipes(req), Planned(w, req)
  PROVE  Queued'
<1>1. \A i \in InQueue : queue[i].by \in (Workers \cup {Nil}) \ {w}
  BY InQueueTyped DEF Staged, Typed, TypeOK, Requests, Queued, RequestsAwaited, Workers
<1>2. outcome[w] = "none" /\ w # Nil
  BY DEF Staged, Locking, AnswersAwaited, Workers
<1>. DEFINE n == Len(queue) + 1
<1>3. /\ n \in InQueue' /\ n \in Nat /\ queue'[n] = req
      /\ \A i \in InQueue : i \in Nat /\ i \in InQueue' /\ queue'[i] = queue[i] /\ i < n
      /\ \A i \in InQueue' : i \in InQueue \/ i = n
  BY Appended DEF Staged, Typed, TypeOK
<1>4. n \notin InQueue
  BY <1>3
<1>. HIDE DEF n
<1>5. RequestsAwaited'
  <2> SUFFICES ASSUME NEW i \in InQueue', queue'[i].by # Nil
               PROVE  /\ pc'[queue'[i].by] = "waiting" /\ outcome[queue'[i].by] = "none"
                      /\ \A j \in InQueue' : queue'[j].by = queue'[i].by => i = j
    BY DEF RequestsAwaited
  <2>1. CASE i \in InQueue
    <3>1. /\ queue'[i] = queue[i] /\ queue[i].by \in Workers \ {w}
          /\ pc[queue[i].by] = "waiting" /\ outcome[queue[i].by] = "none"
          /\ \A j \in InQueue : queue[j].by = queue[i].by => i = j
      BY <1>1, <1>3, <2>1 DEF Staged, Queued, RequestsAwaited
    <3>. QED
      BY <1>3, <3>1
  <2>2. CASE i = n
    BY <1>1, <1>2, <1>3, <2>2
  <2>. QED
    BY <1>3, <2>1, <2>2
<1>6. RequestsPlanned'
  <2> SUFFICES ASSUME NEW i \in InQueue', queue'[i].by # Nil PROVE Planned(queue[i].by, queue[i])'
    BY DEF RequestsPlanned
  <2>1. Planned(queue'[i].by, queue'[i])
    BY <1>3 DEF Staged, Queued, RequestsPlanned
  <2>. QED
    BY <2>1 DEF Planned, Wipes, WriteOf, Holds
<1>7. InOrder'
  <2> SUFFICES ASSUME NEW i \in InQueue', NEW j \in InQueue', i < j,
                      ~Wipes(queue'[i]), ~Wipes(queue'[j])
               PROVE  queue'[i].by = Nil
    BY DEF InOrder, Wipes
  <2>1. CASE j \in InQueue
    <3>1. i \in InQueue
      BY <1>3, <2>1, InQueueTyped DEF n, Staged, Typed, TypeOK, InQueue
    <3>. QED
      BY ZenonT(40), <1>3, <2>1, <3>1 DEF Staged, Queued, InOrder, Wipes
  <2>2. CASE j = n
    <3>0. i # n
      BY <1>3, <2>2
    <3>1. i \in InQueue /\ queue'[i] = queue[i]
      BY <1>3, <3>0
    <3>2. Holds(w)
      BY <1>3, <2>2
    <3>3. ASSUME queue[i].by # Nil PROVE FALSE
      <4>1. /\ queue[i].by \in Workers \ {w} /\ Planned(queue[i].by, queue[i])
            /\ pc[queue[i].by] = "waiting"
        BY <1>1, <3>1, <3>3 DEF Staged, Queued, RequestsPlanned, RequestsAwaited
      <4>2. Holds(queue[i].by)
        BY <3>1, <4>1 DEF Planned, Staged, Locking, LockStages, Workers, CanHold
      <4>. QED
        BY <3>2, <4>1, <4>2 DEF Holds
    <3>. QED
      BY <3>1, <3>3
  <2>. QED
    BY <1>3, <2>1, <2>2
<1>8. AnsweredLast'
  <2> SUFFICES ASSUME NEW v \in Workers, Holds(v), outcome[v] # "none", NEW i \in InQueue'
               PROVE  Wipes(queue'[i])
    BY DEF AnsweredLast, Holds, Wipes
  <2>1. ~Holds(w)
    BY <1>2 DEF Holds
  <2>. QED
    BY <1>3, <2>1 DEF Staged, Queued, AnsweredLast
<1>. QED
  BY <1>5, <1>6, <1>7, <1>8 DEF Queued

LEMMA SubmitRequest ==
  ASSUME Typed, NEW w \in Workers, NEW owner \in Owners, NEW kind \in {"create", "update", "delete"},
         NEW rules \in RuleLists \cup {{}}, Submit(w, owner, kind, rules)
  PROVE  \E req \in Requests :
           /\ req.by = w /\ req.owner = owner /\ req.kind = kind /\ req.rules = rules
           /\ queue' = Append(queue, req)
<1>. DEFINE req == [by |-> w, owner |-> owner, kind |-> kind, rules |-> rules]
<1>1. req \in Requests /\ queue' = Append(queue, req)
  BY DEF Submit, Requests, RuleLists
<1>. QED
  BY <1>1

LEMMA WriteCommitStaged ==
  ASSUME Staged, NEW w \in RouteWorkers, WriteCommit(w)
  PROVE  Ordered'
<1>1. /\ pc[w] = "merging" /\ pc'[w] = "waiting" /\ w \in Workers /\ w # Gateway
      /\ \A v \in Workers \ {w} : pc'[v] = pc[v]
      /\ UNCHANGED <<op, read, outcome, holder>>
  BY DEF WriteCommit, Move, Workers, Staged, Typed, TypeOK
<1>2. /\ op[w] \in AnyCommit /\ op[w].route \in Routes
      /\ WriteOf(w).kind \in {"create", "update", "delete"}
      /\ WriteOf(w).rules \in RuleLists \cup {{}}
  BY <1>1, WriteParts DEF Staged
<1>3. PICK req \in Requests :
        /\ req.by = w /\ req.owner = op[w].route
        /\ req.kind = WriteOf(w).kind /\ req.rules = WriteOf(w).rules
        /\ queue' = Append(queue, req)
  BY <1>1, <1>2, SubmitRequest DEF WriteCommit, Owners, Staged
<1>4. Holds(w)
  BY <1>1 DEF Staged, Locking, LockStages, CanHold
<1>5. Planned(w, req)
  BY <1>1, <1>3 DEF Planned
<1>6. Queued'
  BY <1>1, <1>3, <1>4, <1>5, SubmitQueued
<1>7. Locking'
  BY <1>1 DEF Staged, Locking, LockStages, AnswersAwaited, Holds, CanHold, Workers
<1>8. Unsettled'
  BY <1>1, <1>2 DEF WriteCommit, Staged, Unsettled, Typed, TypeOK, Workers
<1>. QED
  BY <1>6, <1>7, <1>8 DEF Ordered

\* The Gateway writes what it read with the default rule, or deletes the policy.
LEMMA GatewaySubmits ==
  ASSUME Staged, Repair \/ DeletePolicy
  PROVE  \E req \in Requests :
           /\ req.by = Gateway /\ queue' = Append(queue, req)
           /\ Planned(Gateway, req) /\ (Holds(Gateway) \/ Wipes(req))
<1>0. Gateway \in Workers /\ Gateway \in Owners /\ read[Gateway] \in Policies
  BY DEF Staged, Typed, TypeOK, Workers, Owners
<1>1. CASE Repair
  <2>1. Holds(Gateway)
    BY <1>1 DEF Repair, Move, Staged, Locking, LockStages
  <2>2. /\ Submit(Gateway, Gateway, IF read[Gateway] = Nil THEN "create" ELSE "update",
                  RepairOf(read[Gateway]))
        /\ RepairOf(read[Gateway]) \in RuleLists
    BY <1>0, <1>1, WithDefaultTyped DEF Repair, RepairOf, Policies
  <2>3. PICK req \in Requests :
          /\ req.by = Gateway /\ req.owner = Gateway
          /\ req.kind = IF read[Gateway] = Nil THEN "create" ELSE "update"
          /\ req.rules = RepairOf(read[Gateway])
          /\ queue' = Append(queue, req)
    BY <1>0, <2>2, SubmitRequest DEF Staged
  <2>. QED
    BY <2>1, <2>3 DEF Planned, Wipes
<1>2. CASE DeletePolicy
  <2>1. ~Holds(Gateway)
    BY <1>2 DEF DeletePolicy, Move, Staged, Locking, LockStages
  <2>2. PICK req \in Requests :
          /\ req.by = Gateway /\ req.owner = Gateway /\ req.kind = "delete"
          /\ queue' = Append(queue, req)
    BY <1>0, <1>2, SubmitRequest DEF DeletePolicy, Staged
  <2>. QED
    BY <2>1, <2>2 DEF Planned, Wipes
<1>. QED
  BY <1>1, <1>2

LEMMA GatewaySubmitStaged == ASSUME Staged, Repair \/ DeletePolicy PROVE Ordered'
<1>1. /\ pc[Gateway] \in {"repairing", "deleting", "detaching"} /\ pc'[Gateway] = "waiting"
      /\ \A v \in Workers \ {Gateway} : pc'[v] = pc[v]
      /\ UNCHANGED <<op, read, outcome, holder, settled>> /\ Gateway \in Workers
  BY DEF Repair, DeletePolicy, Move, Workers, Staged, Typed, TypeOK
<1>2. PICK req \in Requests :
        /\ req.by = Gateway /\ queue' = Append(queue, req)
        /\ Planned(Gateway, req) /\ (Holds(Gateway) \/ Wipes(req))
  BY GatewaySubmits
<1>3. Queued'
  BY <1>1, <1>2, SubmitQueued
<1>4. Locking'
  BY <1>1 DEF Staged, Locking, LockStages, AnswersAwaited, Holds, CanHold, Workers
<1>5. Unsettled'
  BY <1>1 DEF Staged, Unsettled, Workers
<1>. QED
  BY <1>3, <1>4, <1>5 DEF Ordered

LEMMA GatewayMovesStaged ==
  ASSUME Staged,
         GatewaySnapshot \/ EnterReconcile \/ TrustSnapshot \/ Refresh \/ NothingToRepair
           \/ Repaired \/ Detach
  PROVE  Ordered'
<1>1. /\ UNCHANGED <<queue, op, settled>> /\ Gateway \in Workers
      /\ ~(pc[Gateway] = "waiting" /\ outcome[Gateway] = "none")
      /\ outcome'[Gateway] = "none"
  <2>1. outcome[Gateway] # "none" => pc[Gateway] = "waiting"
    BY DEF Staged, Locking, AnswersAwaited, Workers
  <2>. QED
    BY <2>1 DEF GatewaySnapshot, EnterReconcile, TrustSnapshot, Refresh, NothingToRepair,
           Repaired, Detach, Move, oci, Workers, Staged, Typed, TypeOK
<1>2. \A v \in Workers \ {Gateway} : /\ pc'[v] = pc[v] /\ op'[v] = op[v]
                                     /\ read'[v] = read[v] /\ outcome'[v] = outcome[v]
  BY DEF GatewaySnapshot, EnterReconcile, TrustSnapshot, Refresh, NothingToRepair,
         Repaired, Detach, Move, Staged, Typed, TypeOK
<1>3. /\ \A w \in RouteWorkers : Holds(w)' <=> Holds(w)
      /\ pc'[Gateway] \notin {"reading", "merging", "waiting"}
      /\ Holds(Gateway)' <=> pc'[Gateway] \in {"checking", "repairing"}
  <2>1. Gateway \notin RouteWorkers /\ Nil \notin RouteWorkers /\ Gateway # Nil
    OBVIOUS
  <2>2. CASE GatewaySnapshot \/ Detach
    BY <2>1, <2>2 DEF GatewaySnapshot, Detach, Move, Holds, Staged, Typed, TypeOK, Locking,
                      LockStages, Workers
  <2>3. CASE EnterReconcile
    BY <2>1, <2>3 DEF EnterReconcile, Enter, Mutex!Enter, Move, Holds, Staged, Typed, TypeOK,
                      Workers
  <2>4. CASE TrustSnapshot \/ NothingToRepair \/ Repaired
    BY <2>1, <2>4 DEF TrustSnapshot, NothingToRepair, Repaired, Leave, Move, Holds, Staged,
                      Typed, TypeOK, Locking, LockStages, Workers
  <2>5. CASE Refresh
    BY <2>1, <2>5 DEF Refresh, Move, Holds, Staged, Typed, TypeOK, Locking, LockStages, Workers
  <2>. QED
    BY <2>2, <2>3, <2>4, <2>5
<1>4. RequestsAwaited' /\ RequestsPlanned' /\ InOrder'
  BY <1>1, <1>2, QueueKept
<1>5. Locking'
  BY <1>1, <1>2, <1>3 DEF Staged, Locking, LockStages, AnswersAwaited, Workers
<1>6. AnsweredLast'
  BY <1>1, <1>2, <1>3 DEF Staged, Queued, AnsweredLast, InQueue, Wipes, Workers
<1>7. Unsettled'
  BY <1>1, <1>2 DEF Staged, Unsettled, Workers
<1>. QED
  BY <1>4, <1>5, <1>6, <1>7 DEF Ordered, Queued

LEMMA GatewayReturnsStaged == ASSUME Staged, Attach \/ Detached \/ GatewayFails PROVE Ordered'
<1>0. outcome[Gateway] # "none" => pc[Gateway] = "waiting"
  BY DEF Staged, Locking, AnswersAwaited, Workers
<1>1. /\ UNCHANGED <<queue, settled>> /\ Gateway \in Workers /\ Return(Gateway)
      /\ ~(pc[Gateway] = "waiting" /\ outcome[Gateway] = "none")
  BY <1>0 DEF Attach, Detached, GatewayFails, oci, Workers
<1>2. /\ pc'[Gateway] = "idle" /\ op'[Gateway] = Nil /\ outcome'[Gateway] = "none"
      /\ \A v \in Workers \ {Gateway} : /\ pc'[v] = pc[v] /\ op'[v] = op[v]
                                        /\ read'[v] = read[v] /\ outcome'[v] = outcome[v]
  BY <1>1, Returned DEF Staged, Typed
<1>3. (\A w \in RouteWorkers : Holds(w)' <=> Holds(w)) /\ ~Holds(Gateway)'
  <2>1. Gateway \notin RouteWorkers /\ Nil \notin RouteWorkers /\ Gateway # Nil
    OBVIOUS
  <2>. QED
    BY <2>1 DEF Attach, Detached, GatewayFails, Leave, Holds, Staged, Typed, TypeOK, Locking,
                LockStages, Workers
<1>4. RequestsAwaited' /\ RequestsPlanned' /\ InOrder'
  BY <1>1, <1>2, QueueKept
<1>5. Locking'
  BY <1>1, <1>2, <1>3 DEF Staged, Locking, LockStages, AnswersAwaited, Workers
<1>6. AnsweredLast'
  BY <1>1, <1>2, <1>3 DEF Staged, Queued, AnsweredLast, InQueue, Wipes, Workers
<1>7. Unsettled'
  BY <1>1, <1>2 DEF Staged, Unsettled, Workers
<1>. QED
  BY <1>4, <1>5, <1>6, <1>7 DEF Ordered, Queued

LEMMA GiveUpStaged ==
  ASSUME Staged, NEW w \in Workers, NEW owner \in Owners, GiveUp(w, owner)
  PROVE  Ordered'
<1>1. PICK i \in InQueue : queue[i].by = w /\ queue' = [queue EXCEPT ![i].by = Nil]
  BY DEF GiveUp, InQueue
<1>2. /\ InQueue' = InQueue
      /\ queue'[i].by = Nil /\ queue'[i].owner = queue[i].owner
      /\ queue'[i].kind = queue[i].kind /\ queue'[i].rules = queue[i].rules
      /\ \A j \in InQueue \ {i} : queue'[j] = queue[j] /\ queue[j].by # w
      /\ \A j \in InQueue : queue[j].by \in Workers \cup {Nil}
      /\ pc[w] = "waiting" /\ w # Nil
  <2>1. queue \in Seq(Requests)
    BY DEF Staged, Typed, TypeOK
  <2>2. \A j \in InQueue : queue[j].by \in Workers \cup {Nil}
    BY <2>1, InQueueTyped DEF Requests
  <2>3. pc[w] = "waiting" /\ w # Nil
    BY DEF GiveUp, Workers
  <2>4. \A j \in InQueue \ {i} : queue[j].by # w
    BY <1>1, <2>3 DEF Staged, Queued, RequestsAwaited
  <2>. QED
    BY <1>1, <2>1, <2>2, <2>3, <2>4, Marked
<1>3. /\ pc'[w] = "idle" /\ op'[w] = Nil /\ outcome'[w] = "none"
      /\ \A v \in Workers \ {w} : /\ pc'[v] = pc[v] /\ op'[v] = op[v]
                                  /\ read'[v] = read[v] /\ outcome'[v] = outcome[v]
  BY Returned DEF GiveUp, Staged, Typed
<1>4. \A v \in Workers : Holds(v)' <=> v # w /\ Holds(v)
  BY DEF GiveUp, Leave, Holds, Staged, Typed, TypeOK, Workers
<1>5. RequestsAwaited'
  BY <1>2, <1>3 DEF Staged, Queued, RequestsAwaited
<1>6. RequestsPlanned'
  <2> SUFFICES ASSUME NEW j \in InQueue \ {i}, queue[j].by # Nil
               PROVE  Planned(queue[j].by, queue[j])'
    BY <1>2 DEF RequestsPlanned
  <2>1. /\ Planned(queue[j].by, queue[j]) /\ queue[j].by \in Workers \ {w}
        /\ queue'[j] = queue[j]
    BY <1>2 DEF Staged, Queued, RequestsPlanned
  <2>. QED
    BY <1>3, <1>4, <2>1 DEF Planned, Wipes, WriteOf, Workers
<1>7. InOrder' /\ AnsweredLast'
  BY <1>2, <1>3, <1>4 DEF Staged, Queued, InOrder, AnsweredLast, Wipes
<1>8. Locking'
  BY <1>2, <1>3, <1>4 DEF Staged, Locking, LockStages, AnswersAwaited, Workers, CanHold
<1>9. Unsettled'
  BY <1>3 DEF GiveUp, Staged, Unsettled, Workers
<1>. QED
  BY <1>5, <1>6, <1>7, <1>8, <1>9 DEF Ordered, Queued

\* A request sent under the lock is not a deletion by the Gateway.
LEMMA HolderWrites ==
  ASSUME Staged, NEW i \in InQueue, queue[i].by # Nil
  PROVE  /\ queue[i].by \in Workers
         /\ Holds(queue[i].by) <=> ~Wipes(queue[i])
         /\ Planned(queue[i].by, queue[i])
         /\ pc[queue[i].by] = "waiting" /\ outcome[queue[i].by] = "none"
<1>1. queue[i].by \in Workers
  BY InQueueTyped DEF Staged, Typed, TypeOK, Requests
<1>2. /\ Planned(queue[i].by, queue[i])
      /\ pc[queue[i].by] = "waiting" /\ outcome[queue[i].by] = "none"
  BY DEF Staged, Queued, RequestsPlanned, RequestsAwaited
<1>3. CASE queue[i].by = Gateway
  BY <1>1, <1>2, <1>3 DEF Planned
<1>4. CASE queue[i].by # Gateway
  <2>1. queue[i].by \in RouteWorkers /\ queue[i].owner = op[queue[i].by].route
    BY <1>1, <1>2, <1>4 DEF Planned, Workers
  <2>2. op[queue[i].by].route \in Routes
    BY <1>2, <2>1, WriteParts DEF Staged
  <2>3. ~Wipes(queue[i])
    BY <2>1, <2>2 DEF Wipes
  <2>4. Holds(queue[i].by)
    BY <1>2, <2>1 DEF Staged, Locking, LockStages, CanHold
  <2>. QED
    BY <1>1, <1>2, <2>3, <2>4
<1>. QED
  BY <1>3, <1>4

LEMMA Answered ==
  ASSUME Typed, CarryOut \/ Refuse
  PROVE  /\ Head(queue) = queue[1] /\ 1 \in InQueue /\ queue[1] \in Requests
         /\ \A i \in InQueue' : i \in Nat /\ 1 < i + 1 /\ i + 1 \in InQueue /\ queue'[i] = queue[i + 1]
         /\ UNCHANGED <<listener, holder, pc, op, read, attached, ready, abandoned>>
         /\ \A v \in Workers : v # queue[1].by => outcome'[v] = outcome[v]
         /\ Refuse => UNCHANGED <<policy, settled, overtaken>>
         /\ Refuse /\ queue[1].by # Nil => outcome'[queue[1].by] = "failed"
         /\ CarryOut => /\ Applicable(queue[1])
                        /\ policy' = IF queue[1].kind = "delete" THEN Nil ELSE queue[1].rules
                        /\ settled' = IF Wipes(queue[1]) THEN [r \in Routes |-> Nil] ELSE settled
                        /\ overtaken' = overtaken \cup Overtakes(queue[1])
         /\ CarryOut /\ queue[1].by # Nil => outcome'[queue[1].by] = "succeeded"
<1>1. queue \in Seq(Requests) /\ queue # <<>> /\ queue' = Tail(queue)
  BY DEF CarryOut, Refuse, Answer, Typed, TypeOK
<1>2. /\ Head(queue) = queue[1] /\ 1 \in InQueue /\ queue[1] \in Requests
      /\ \A i \in InQueue' : i \in Nat \ {0} /\ i + 1 \in InQueue /\ queue'[i] = queue[i + 1]
  BY <1>1, Tailed
<1>3. queue[1].by \in Workers \cup {Nil}
  BY <1>2 DEF Requests
<1>. QED
  BY <1>2, <1>3 DEF CarryOut, Refuse, Answer, Typed, TypeOK

LEMMA OCIStaged == ASSUME Staged, CarryOut \/ Refuse PROVE Ordered'
<1>1. /\ 1 \in InQueue /\ queue[1] \in Requests
      /\ \A i \in InQueue' : i \in Nat /\ 1 < i + 1 /\ i + 1 \in InQueue /\ queue'[i] = queue[i + 1]
      /\ UNCHANGED <<listener, holder, pc, op, read, attached, ready, abandoned>>
      /\ \A v \in Workers : v # queue[1].by => outcome'[v] = outcome[v]
  BY Answered DEF Staged
<1>2. ASSUME NEW v \in Workers, v = queue[1].by
      PROVE  pc[v] = "waiting" /\ \A i \in InQueue : 1 < i => queue[i].by # v
  BY <1>1, <1>2, HolderWrites DEF Staged, Queued, RequestsAwaited, Workers
<1>3. Locking'
  BY <1>1, <1>2 DEF Staged, Locking, LockStages, AnswersAwaited, Holds
<1>4. RequestsAwaited'
  <2> SUFFICES ASSUME NEW i \in InQueue', queue'[i].by # Nil
               PROVE  /\ pc[queue'[i].by] = "waiting" /\ outcome'[queue'[i].by] = "none"
                      /\ \A j \in InQueue' : queue'[j].by = queue'[i].by => i = j
    BY <1>1 DEF RequestsAwaited
  <2>1. i + 1 \in InQueue /\ 1 < i + 1 /\ queue'[i] = queue[i + 1] /\ i \in Nat
    BY <1>1
  <2>2. /\ queue[i + 1].by \in Workers /\ pc[queue[i + 1].by] = "waiting"
        /\ outcome[queue[i + 1].by] = "none"
        /\ \A j \in InQueue : queue[j].by = queue[i + 1].by => i + 1 = j
    BY <2>1, HolderWrites DEF Staged, Queued, RequestsAwaited
  <2>3. queue[i + 1].by # queue[1].by
    BY <1>1, <2>1, <2>2
  <2>4. \A j \in InQueue' : queue'[j].by = queue'[i].by => i = j
    <3> SUFFICES ASSUME NEW j \in InQueue', queue'[j].by = queue'[i].by PROVE i = j
      OBVIOUS
    <3>1. j \in Nat /\ j + 1 \in InQueue /\ queue'[j] = queue[j + 1]
      BY <1>1
    <3>2. i + 1 = j + 1
      BY <2>1, <2>2, <3>1
    <3>. QED
      BY <2>1, <3>1, <3>2
  <2>. QED
    BY <1>1, <2>1, <2>2, <2>3, <2>4
<1>5. RequestsPlanned'
  <2> SUFFICES ASSUME NEW i \in InQueue', queue'[i].by # Nil
               PROVE  Planned(queue[i].by, queue[i])'
    BY DEF RequestsPlanned
  <2>1. i + 1 \in InQueue /\ queue'[i] = queue[i + 1]
    BY <1>1
  <2>2. Planned(queue[i + 1].by, queue[i + 1])
    BY <2>1 DEF Staged, Queued, RequestsPlanned
  <2>. QED
    BY <1>1, <2>1, <2>2 DEF Planned, Wipes, WriteOf, Holds
<1>6. InOrder'
  <2> SUFFICES ASSUME NEW i \in InQueue', NEW j \in InQueue', i < j,
                      ~Wipes(queue'[i]), ~Wipes(queue'[j])
               PROVE  queue'[i].by = Nil
    BY DEF InOrder, Wipes
  <2>1. /\ i + 1 \in InQueue /\ queue'[i] = queue[i + 1] /\ i \in Nat
        /\ j + 1 \in InQueue /\ queue'[j] = queue[j + 1] /\ j \in Nat
    BY <1>1
  <2>2. i + 1 < j + 1
    BY <2>1
  <2>. QED
    BY <2>1, <2>2 DEF Staged, Queued, InOrder
<1>7. AnsweredLast'
  <2> SUFFICES ASSUME NEW v \in Workers, Holds(v), outcome'[v] # "none", NEW i \in InQueue'
               PROVE  Wipes(queue'[i])
    BY <1>1 DEF AnsweredLast, Holds, Wipes
  <2>1. i + 1 \in InQueue /\ 1 < i + 1 /\ queue'[i] = queue[i + 1]
    BY <1>1
  <2>2. CASE v = queue[1].by
    <3>1. v # Nil
      BY DEF Workers
    <3>2. ~Wipes(queue[1])
      BY <1>1, <2>2, <3>1, HolderWrites
    <3>. QED
      BY <1>1, <2>1, <2>2, <3>1, <3>2 DEF Staged, Queued, InOrder
  <2>3. CASE v # queue[1].by
    BY <1>1, <2>1, <2>3 DEF Staged, Queued, AnsweredLast
  <2>. QED
    BY <2>2, <2>3
<1>8. Unsettled'
  <2>1. settled' = settled \/ settled' = [r \in Routes |-> Nil]
    BY Answered DEF Staged
  <2>2. \A w \in RouteWorkers : pc[w] = "waiting" => op[w].route \in Routes
    BY WriteParts DEF Staged
  <2>. QED
    BY <1>1, <2>1, <2>2 DEF Staged, Unsettled
<1>. QED
  BY <1>3, <1>4, <1>5, <1>6, <1>7, <1>8 DEF Ordered, Queued

LEMMA NextStaged == Staged /\ [Next]_vars => Staged'
<1> SUFFICES ASSUME Staged, [Next]_vars PROVE Staged'
  OBVIOUS
<1>0. Typed'
  BY NextTyped DEF Staged
<1> SUFFICES Ordered'
  BY <1>0 DEF Staged, Ordered
<1>1. ASSUME NEW w \in RouteWorkers, Commit(w) \/ CommitStep(w) PROVE Ordered'
  <2>1. CASE op[w] # Nil /\ GiveUp(w, op[w].route)
    <3>1. op[w] \in AnyCommit
      BY <2>1 DEF Staged, Typed, TypeOK, Workers
    <3>. QED
      BY <2>1, <3>1, CommitParts, GiveUpStaged DEF Owners, Workers
  <2>. QED
    BY <1>1, <2>1, StartStaged, EndStaged, WriteCommitStaged DEF CommitStep
<1>2. CASE GatewaySnapshot
  BY <1>2, GatewayMovesStaged
<1>3. CASE GatewayStep
  BY <1>3, GatewayMovesStaged, GatewaySubmitStaged, GatewayReturnsStaged, GiveUpStaged
  DEF GatewayStep, Workers, Owners
<1>4. CASE CarryOut \/ Refuse
  BY <1>4, OCIStaged
<1>5. CASE UNCHANGED vars
  <2>1. UNCHANGED <<queue, holder, outcome, pc, op, read, settled>>
    BY <1>5 DEF vars, oci
  <2>2. Locking' /\ Unsettled' /\ RequestsAwaited' /\ InOrder' /\ AnsweredLast'
    BY <2>1 DEF Staged, Locking, Queued, Unsettled, LockStages, AnswersAwaited, RequestsAwaited,
                InOrder, AnsweredLast, Holds, InQueue, Wipes
  <2>3. RequestsPlanned'
    BY <2>1 DEF Staged, Queued, RequestsPlanned, Planned, Holds, InQueue, Wipes, WriteOf
  <2>. QED
    BY <2>2, <2>3 DEF Ordered, Queued
<1>. QED
  BY <1>1, <1>2, <1>3, <1>4, <1>5 DEF Next

----------------------------------------------------------------------------
(* While no one has given up waiting.                                      *)

\* A late request belongs to an owner that gave up.
LateOwners == \A i \in InQueue : queue[i].by = Nil => queue[i].owner \in abandoned

Merging(w) == pc[w] = "merging" \/ (pc[w] = "waiting" /\ outcome[w] = "none")
Repairing ==
  pc[Gateway] = "repairing" \/ (Holds(Gateway) /\ pc[Gateway] = "waiting" /\ outcome[Gateway] = "none")

\* What the holder of the lock read is the policy, unless the Gateway deletes it.
ReadsCurrent ==
  abandoned = {} =>
    /\ \A w \in RouteWorkers :
         /\ Merging(w) => policy \in {read[w], Nil}
         /\ pc[w] = "waiting" /\ outcome[w] = "succeeded" => policy \in {WriteOf(w).rules, Nil}
    /\ Repairing => policy \in {read[Gateway], Nil}

Current == Staged /\ LateOwners /\ ReadsCurrent

LEMMA InitCurrent == Init => Current
<1> SUFFICES ASSUME Init PROVE Current
  OBVIOUS
<1>1. InQueue = {}
  BY EmptySeq DEF Init, InQueue
<1>. QED
  BY <1>1, InitStaged DEF Current, LateOwners, ReadsCurrent, Merging, Repairing, Init, Workers

\* Only giving up makes a request late.
LEMMA LateOwnersKept == Staged /\ LateOwners /\ [Next]_vars => LateOwners'
<1> SUFFICES ASSUME Staged, LateOwners, [Next]_vars PROVE LateOwners'
  OBVIOUS
<1>0. queue \in Seq(Requests)
  BY DEF Staged, Typed, TypeOK
<1>1. ASSUME UNCHANGED queue, abandoned' = abandoned PROVE LateOwners'
  BY <1>1 DEF LateOwners, InQueue
<1>2. ASSUME NEW req \in Requests, req.by # Nil, queue' = Append(queue, req),
             UNCHANGED abandoned
      PROVE  LateOwners'
  BY <1>0, <1>2, Appended DEF LateOwners
<1>3. ASSUME NEW w \in Workers, NEW owner \in Owners, GiveUp(w, owner),
             owner = IF w = Gateway THEN Gateway ELSE op[w].route
      PROVE  LateOwners'
  <2>1. PICK i \in InQueue : queue[i].by = w /\ queue' = [queue EXCEPT ![i].by = Nil]
    BY <1>3 DEF GiveUp, InQueue
  <2>2. queue[i].owner = owner
    BY <1>3, <2>1, HolderWrites DEF Planned, Workers
  <2>3. abandoned' = abandoned \cup {owner}
    BY <1>3 DEF GiveUp
  <2>4. /\ InQueue' = InQueue /\ queue'[i].owner = queue[i].owner
        /\ \A j \in InQueue \ {i} : queue'[j] = queue[j]
    BY <1>0, <2>1, Marked
  <2>. QED
    BY <2>2, <2>3, <2>4 DEF LateOwners
<1>4. ASSUME NEW w \in RouteWorkers, Commit(w) \/ CommitStep(w) PROVE LateOwners'
  <2>1. CASE op[w] # Nil /\ GiveUp(w, op[w].route)
    <3>1. op[w] \in AnyCommit
      BY <2>1 DEF Staged, Typed, TypeOK, Workers
    <3>. QED
      BY <1>3, <2>1, <3>1, CommitParts DEF Owners, Workers
  <2>2. CASE WriteCommit(w)
    <3>1. /\ op[w].route \in Routes /\ WriteOf(w).kind \in {"create", "update", "delete"}
          /\ WriteOf(w).rules \in RuleLists \cup {{}}
      BY <2>2, WriteParts DEF WriteCommit, Move, Staged
    <3>2. PICK req \in Requests : req.by = w /\ queue' = Append(queue, req)
      BY <2>2, <3>1, SubmitRequest DEF WriteCommit, Owners, Workers, Staged
    <3>. QED
      BY <1>2, <2>2, <3>2 DEF WriteCommit
  <2>3. CASE Commit(w) \/ EnterCommit(w) \/ GetPolicy(w) \/ SkipCommit(w) \/ CommitSucceeds(w)
               \/ CommitFails(w)
    BY <1>1, <2>3 DEF Commit, EnterCommit, GetPolicy, SkipCommit, CommitSucceeds, CommitFails, oci
  <2>. QED
    BY <1>4, <2>1, <2>2, <2>3 DEF CommitStep
<1>5. CASE GatewaySnapshot
  BY <1>1, <1>5 DEF GatewaySnapshot, oci
<1>6. CASE GatewayStep
  <2>1. CASE Repair \/ DeletePolicy
    <3>1. PICK req \in Requests : req.by = Gateway /\ queue' = Append(queue, req)
      BY <2>1, GatewaySubmits
    <3>. QED
      BY <1>2, <2>1, <3>1 DEF Repair, DeletePolicy
  <2>2. CASE GiveUp(Gateway, Gateway)
    BY <1>3, <2>2 DEF Workers, Owners
  <2>. QED
    BY <1>1, <1>6, <2>1, <2>2
    DEF GatewayStep, EnterReconcile, TrustSnapshot, Refresh, NothingToRepair, Repaired, Attach,
        Detach, Detached, GatewayFails, oci
<1>7. CASE CarryOut \/ Refuse
  BY <1>7, Answered DEF Staged, LateOwners
<1>8. CASE UNCHANGED vars
  BY <1>1, <1>8 DEF vars, oci
<1>. QED
  BY <1>4, <1>5, <1>6, <1>7, <1>8 DEF Next

\* A step that leaves the policy alone, and whose worker then neither merges nor has its
\* write carried out, or goes on merging what it read.
LEMMA ReadsKept ==
  ASSUME Current, NEW w \in Workers, policy' = policy, abandoned' = {} => abandoned = {},
         \A v \in Workers \ {w} : /\ pc'[v] = pc[v] /\ op'[v] = op[v]
                                  /\ read'[v] = read[v] /\ outcome'[v] = outcome[v],
         w # Gateway => (Holds(Gateway)' <=> Holds(Gateway)),
         w # Gateway =>
           /\ Merging(w)' => policy = read'[w] \/ (Merging(w) /\ read'[w] = read[w])
           /\ ~(pc'[w] = "waiting" /\ outcome'[w] = "succeeded"),
         w = Gateway /\ Repairing' =>
           policy \in {read'[Gateway], Nil} \/ (Repairing /\ read'[Gateway] = read[Gateway])
  PROVE  ReadsCurrent'
<1> SUFFICES ASSUME abandoned' = {} PROVE ReadsCurrent'
  BY DEF ReadsCurrent
<1>1. ASSUME NEW v \in RouteWorkers
      PROVE  /\ Merging(v)' => policy' \in {read'[v], Nil}
             /\ pc'[v] = "waiting" /\ outcome'[v] = "succeeded" => policy' \in {WriteOf(v).rules, Nil}'
  <2>1. v \in Workers /\ v # Gateway
    BY DEF Workers
  <2>2. CASE v = w
    BY <2>1, <2>2 DEF Current, ReadsCurrent
  <2>3. CASE v # w
    BY <2>1, <2>3 DEF Current, ReadsCurrent, Merging, WriteOf
  <2>. QED
    BY <2>2, <2>3
<1>2. Repairing' => policy' \in {read'[Gateway], Nil}
  BY DEF Current, ReadsCurrent, Repairing, Workers
<1>. QED
  BY <1>1, <1>2 DEF ReadsCurrent

LEMMA CarryOutReads == ASSUME Current, CarryOut PROVE ReadsCurrent'
<1> SUFFICES ASSUME abandoned' = {} PROVE ReadsCurrent'
  BY DEF ReadsCurrent
<1>1. /\ 1 \in InQueue /\ queue[1] \in Requests
      /\ UNCHANGED <<listener, holder, pc, op, read, attached, ready, abandoned>>
      /\ \A v \in Workers : v # queue[1].by => outcome'[v] = outcome[v]
      /\ queue[1].by # Nil => outcome'[queue[1].by] = "succeeded"
      /\ policy' = IF queue[1].kind = "delete" THEN Nil ELSE queue[1].rules
  BY Answered DEF Current, Staged
<1>2. queue[1].by # Nil
  BY <1>1 DEF Current, LateOwners
<1>3. /\ queue[1].by \in Workers
      /\ Holds(queue[1].by) <=> ~Wipes(queue[1])
      /\ Planned(queue[1].by, queue[1])
      /\ pc[queue[1].by] = "waiting" /\ outcome[queue[1].by] = "none"
  BY <1>1, <1>2, HolderWrites DEF Current
<1>4. CASE Wipes(queue[1])
  BY <1>1, <1>4 DEF Wipes, ReadsCurrent
<1>5. CASE ~Wipes(queue[1])
  <2>1. \A v \in RouteWorkers : (pc[v] \in CanHold => v = queue[1].by) /\ v \in Workers
    BY <1>3, <1>5 DEF Current, Staged, Locking, LockStages, Holds, Workers
  <2>2. ~Repairing'
    BY <1>1, <1>2, <1>3, <1>5 DEF Repairing, Holds, Current, Staged, Locking, LockStages
  <2>3. ASSUME NEW v \in RouteWorkers
        PROVE  /\ Merging(v)' => policy' \in {read'[v], Nil}
               /\ pc'[v] = "waiting" /\ outcome'[v] = "succeeded" => policy' \in {WriteOf(v).rules, Nil}'
    <3>1. CASE v = queue[1].by
      <4>1. ~Merging(v)'
        BY <1>1, <1>2, <1>3, <3>1 DEF Merging
      <4>2. queue[1].rules = WriteOf(v).rules
        BY <1>3, <3>1 DEF Planned
      <4>. QED
        BY <1>1, <4>1, <4>2 DEF WriteOf
    <3>2. CASE v # queue[1].by
      BY <1>1, <2>1, <3>2 DEF Merging, CanHold
    <3>. QED
      BY <3>1, <3>2
  <2>. QED
    BY <2>2, <2>3 DEF ReadsCurrent
<1>. QED
  BY <1>4, <1>5

LEMMA RefuseReads == ASSUME Current, Refuse PROVE ReadsCurrent'
<1>1. /\ UNCHANGED <<listener, holder, pc, op, read, attached, ready, abandoned, policy>>
      /\ \A v \in Workers : v # queue[1].by => outcome'[v] = outcome[v]
      /\ queue[1].by # Nil => outcome'[queue[1].by] = "failed"
      /\ queue[1].by # Nil => outcome[queue[1].by] = "none"
  BY Answered, HolderWrites DEF Current, Staged
<1>2. \A v \in Workers : /\ Merging(v)' => Merging(v)
                         /\ outcome'[v] = "succeeded" => outcome[v] = "succeeded"
  BY <1>1 DEF Merging, Workers
<1>3. Repairing' => Repairing
  BY <1>1 DEF Repairing, Holds, Workers
<1>. QED
  BY <1>1, <1>2, <1>3 DEF Current, ReadsCurrent, WriteOf, Workers

LEMMA RouteReads ==
  ASSUME Current, NEW w \in RouteWorkers,
         Commit(w) \/ EnterCommit(w) \/ GetPolicy(w) \/ SkipCommit(w) \/ WriteCommit(w)
           \/ CommitSucceeds(w) \/ CommitFails(w)
  PROVE  ReadsCurrent'
<1>1. w \in Workers /\ w # Gateway /\ policy' = policy /\ abandoned' = abandoned
  BY DEF Commit, EnterCommit, GetPolicy, SkipCommit, WriteCommit, CommitSucceeds, CommitFails,
         oci, Workers
<1>2. \A v \in Workers \ {w} : /\ pc'[v] = pc[v] /\ op'[v] = op[v]
                               /\ read'[v] = read[v] /\ outcome'[v] = outcome[v]
  BY Returned
  DEF Commit, EnterCommit, GetPolicy, SkipCommit, WriteCommit, CommitSucceeds, CommitFails,
      Move, Current, Staged, Typed, TypeOK, Workers
<1>3. Holds(Gateway)' <=> Holds(Gateway)
  BY DEF Commit, EnterCommit, GetPolicy, SkipCommit, WriteCommit, CommitSucceeds, CommitFails,
         Leave, Enter, Mutex!Enter, Holds, Move, Current, Staged, Typed, TypeOK, Locking,
         LockStages, CanHold, AnswersAwaited, Workers
<1>4. /\ Merging(w)' => policy = read'[w] \/ (Merging(w) /\ read'[w] = read[w])
      /\ ~(pc'[w] = "waiting" /\ outcome'[w] = "succeeded")
  <2>1. outcome[w] # "none" => pc[w] = "waiting"
    BY <1>1 DEF Current, Staged, Locking, AnswersAwaited
  <2>2. CASE Commit(w) \/ EnterCommit(w) \/ GetPolicy(w) \/ WriteCommit(w)
    BY <1>1, <2>1, <2>2 DEF Commit, EnterCommit, GetPolicy, WriteCommit, Move, Merging, Current,
                            Staged, Typed, TypeOK
  <2>3. CASE SkipCommit(w) \/ CommitSucceeds(w) \/ CommitFails(w)
    <3>1. pc'[w] = "idle"
      BY <1>1, <2>3, Returned DEF SkipCommit, CommitSucceeds, CommitFails, Current, Staged, Typed
    <3>. QED
      BY <3>1 DEF Merging
  <2>. QED
    BY <2>2, <2>3
<1>. QED
  BY <1>1, <1>2, <1>3, <1>4, ReadsKept

LEMMA GatewayReads ==
  ASSUME Current,
         GatewaySnapshot \/ EnterReconcile \/ TrustSnapshot \/ Refresh \/ NothingToRepair
           \/ Repair \/ Repaired \/ Attach \/ Detach \/ DeletePolicy \/ Detached \/ GatewayFails
  PROVE  ReadsCurrent'
<1>1. Gateway \in Workers /\ policy' = policy /\ abandoned' = abandoned
  BY DEF GatewaySnapshot, EnterReconcile, TrustSnapshot, Refresh, NothingToRepair, Repair,
         Repaired, Attach, Detach, DeletePolicy, Detached, GatewayFails, oci, Workers
<1>2. \A v \in Workers \ {Gateway} : /\ pc'[v] = pc[v] /\ op'[v] = op[v]
                                     /\ read'[v] = read[v] /\ outcome'[v] = outcome[v]
  BY Returned
  DEF GatewaySnapshot, EnterReconcile, TrustSnapshot, Refresh, NothingToRepair, Repair,
      Repaired, Attach, Detach, DeletePolicy, Detached, GatewayFails, Move, Current, Staged,
      Typed, TypeOK, Workers
<1>3. Repairing' =>
        policy \in {read'[Gateway], Nil} \/ (Repairing /\ read'[Gateway] = read[Gateway])
  <2>1. CASE Refresh
    BY <1>1, <2>1 DEF Refresh, Refreshed, Current, Staged, Typed, TypeOK
  <2>2. CASE Repair
    BY <1>1, <2>2 DEF Repair, Move, Repairing
  <2>3. CASE DeletePolicy
    BY <1>1, <2>3 DEF DeletePolicy, Move, Repairing, Holds, Current, Staged, Typed, TypeOK,
                      Locking, LockStages
  <2>4. CASE GatewaySnapshot \/ EnterReconcile \/ TrustSnapshot \/ NothingToRepair \/ Repaired
               \/ Detach
    BY <1>1, <2>4 DEF GatewaySnapshot, EnterReconcile, TrustSnapshot, NothingToRepair, Repaired,
                      Detach, Move, Repairing, Current, Staged, Typed, TypeOK
  <2>5. CASE Attach \/ Detached \/ GatewayFails
    <3>1. pc'[Gateway] = "idle"
      BY <1>1, <2>5, Returned DEF Attach, Detached, GatewayFails, Current, Staged, Typed
    <3>. QED
      BY <3>1 DEF Repairing
  <2>. QED
    BY <2>1, <2>2, <2>3, <2>4, <2>5
<1>. QED
  BY <1>1, <1>2, <1>3, ReadsKept

LEMMA NextCurrent == Current /\ [Next]_vars => Current'
<1> SUFFICES ASSUME Current, [Next]_vars PROVE Current'
  OBVIOUS
<1>0. Staged' /\ LateOwners'
  BY NextStaged, LateOwnersKept DEF Current
<1> SUFFICES ReadsCurrent'
  BY <1>0 DEF Current
<1>1. ASSUME NEW w, NEW owner, GiveUp(w, owner) PROVE ReadsCurrent'
  BY <1>1 DEF GiveUp, ReadsCurrent
<1>2. CASE UNCHANGED vars
  BY <1>2 DEF vars, oci, Current, ReadsCurrent, Merging, Repairing, Holds, WriteOf
<1>. QED
  BY <1>1, <1>2, CarryOutReads, RefuseReads, RouteReads, GatewayReads
  DEF Next, CommitStep, GatewayStep

LEMMA OnlyOCIWrites == [Next]_vars => policy' = policy \/ CarryOut
BY DEF Next, Commit, CommitStep, EnterCommit, GetPolicy, SkipCommit, WriteCommit, CommitSucceeds,
       CommitFails, GiveUp, GatewaySnapshot, GatewayStep, EnterReconcile, TrustSnapshot, Refresh,
       NothingToRepair, Repair, Repaired, Attach, Detach, DeletePolicy, Detached, GatewayFails,
       Refuse, vars, oci

\* The list that OCI writes while no one has given up, and who computed it from what.
LEMMA CarriedOut ==
  ASSUME Current, CarryOut, abandoned = {}
  PROVE  \/ policy' = Nil /\ Wipes(queue[1])
         \/ /\ queue[1].by = Gateway /\ queue[1].owner = Gateway
            /\ policy' = RepairOf(policy) /\ ~Wipes(queue[1])
            /\ queue[1].kind = IF policy = Nil THEN "create" ELSE "update"
         \/ /\ queue[1].by \in RouteWorkers /\ pc[queue[1].by] = "waiting" /\ ~Wipes(queue[1])
            /\ policy = read[queue[1].by] /\ queue[1].kind = WriteOf(queue[1].by).kind
            /\ policy' = IF queue[1].kind = "delete" THEN Nil ELSE WriteOf(queue[1].by).rules
<1>. DEFINE req == queue[1]
            w == queue[1].by
<1>1. /\ 1 \in InQueue /\ req \in Requests /\ Applicable(req)
      /\ policy' = IF req.kind = "delete" THEN Nil ELSE req.rules
  BY Answered DEF Current, Staged
<1>2. w # Nil
  BY <1>1 DEF Current, LateOwners
<1>3. /\ w \in Workers /\ (Holds(w) <=> ~Wipes(req)) /\ Planned(w, req)
      /\ pc[w] = "waiting" /\ outcome[w] = "none"
  BY <1>1, <1>2, HolderWrites DEF Current
<1>4. CASE Wipes(req)
  BY <1>1, <1>4 DEF Wipes
<1>5. CASE ~Wipes(req) /\ w = Gateway
  <2>1. policy \in {read[Gateway], Nil}
    BY <1>3, <1>5 DEF Current, ReadsCurrent, Repairing
  <2>2. /\ req.owner = Gateway /\ req.rules = RepairOf(read[Gateway])
        /\ req.kind = IF read[Gateway] = Nil THEN "create" ELSE "update"
    BY <1>3, <1>5 DEF Planned
  <2>3. policy = read[Gateway]
    BY <1>1, <2>1, <2>2 DEF Applicable
  <2>. QED
    BY <1>1, <1>5, <2>2, <2>3
<1>6. CASE ~Wipes(req) /\ w # Gateway
  <2>1. w \in RouteWorkers
    BY <1>3, <1>6 DEF Workers
  <2>2. policy \in {read[w], Nil}
    BY <1>3, <2>1 DEF Current, ReadsCurrent, Merging
  <2>3. req.kind = WriteOf(w).kind /\ req.rules = WriteOf(w).rules
    BY <1>3, <1>6 DEF Planned
  <2>4. policy = read[w]
    BY <1>1, <1>3, <2>1, <2>2, <2>3, WriteParts DEF Applicable, Current, Staged
  <2>. QED
    BY <1>1, <1>3, <1>6, <2>1, <2>3, <2>4
<1>. QED
  BY <1>4, <1>5, <1>6

LEMMA StepIsAtomic ==
  ASSUME Current, [Next]_vars, abandoned = {}, policy' # policy, Head(queue).kind = "update"
  PROVE  \/ Head(queue).owner = Gateway /\ policy' = WithDefault(policy)
         \/ \E w \in RouteWorkers :
              Head(queue).by = w /\ policy' = Merged(policy, op[w])
<1>1. CarryOut
  BY OnlyOCIWrites
<1>2. Head(queue) = queue[1]
  BY <1>1, Answered DEF Current, Staged
<1>3. CASE queue[1].by \in RouteWorkers /\ pc[queue[1].by] = "waiting"
           /\ policy = read[queue[1].by] /\ queue[1].kind = WriteOf(queue[1].by).kind
           /\ policy' = IF queue[1].kind = "delete" THEN Nil ELSE WriteOf(queue[1].by).rules
  BY <1>2, <1>3, WriteParts DEF Current, Staged
<1>. QED
  BY <1>1, <1>2, <1>3, CarriedOut DEF Wipes, RepairOf

\* Read, merge and write back are one step for the policy, as long as no one gives up
\* waiting (commitRoutingPolicy, reconcileListenerRoutingPolicyLocked): the lock keeps the
\* other writers out, and the one that needs no lock leaves no policy to update.
THEOREM WritesAreAtomicHolds == Spec => WritesAreAtomic
<1>1. Current /\ [Next]_vars =>
        [abandoned = {} /\ policy' # policy /\ Head(queue).kind = "update" =>
           \/ Head(queue).owner = Gateway /\ policy' = WithDefault(policy)
           \/ \E w \in RouteWorkers :
                Head(queue).by = w /\ policy' = Merged(policy, op[w])]_vars
  BY StepIsAtomic
<1>. QED
  BY <1>1, InitCurrent, NextCurrent, PTL DEF Spec, WritesAreAtomic

----------------------------------------------------------------------------
(* Removed rules.                                                          *)

\* Nothing of the policy p is a rule that commit c removed or replaced.
Clean(p, c) == \A rule \in p \ c.new : rule.name \notin c.gone \cup NamesOf(c.new)

LEMMA MergedClean ==
  ASSUME NEW p, NEW c \in AnyCommit
  PROVE  Clean(Merged(p, c), c) /\ Clean(c.new, c)
BY DEF Clean, Merged

\* What another route or the Gateway writes brings nothing back.
LEMMA OthersClean ==
  ASSUME NEW p, NEW c \in AnyCommit, Clean(p, c)
  PROVE  /\ Clean(WithDefault(p), c) /\ Clean(WithDefault({}), c)
         /\ \A o \in AnyCommit : o.route # c.route => Clean(Merged(p, o), c) /\ Clean(o.new, c)
<1>1. /\ DefaultRule(DefaultBackend).name[1] = Gateway /\ Gateway \notin Routes
      /\ c.route \in Routes /\ \A name \in c.gone \cup NamesOf(c.new) : name[1] = c.route
  BY DefaultParts, CommitParts
<1>2. \A o \in AnyCommit : \A rule \in o.new : rule.name[1] = o.route
  BY CommitParts DEF NamesOf
<1>3. Clean(WithDefault(p), c) /\ Clean(WithDefault({}), c)
  BY <1>1 DEF Clean, WithDefault
<1>4. ASSUME NEW o \in AnyCommit, o.route # c.route
      PROVE  Clean(Merged(p, o), c) /\ Clean(o.new, c)
  BY <1>1, <1>2, <1>4 DEF Clean, Merged
<1>. QED
  BY <1>3, <1>4

LEMMA SuccessClean ==
  ASSUME Current, NEW w \in RouteWorkers, SkipCommit(w) \/ CommitSucceeds(w),
         abandoned = {}, policy # Nil
  PROVE  Clean(policy, op[w])
<1>1. CASE SkipCommit(w)
  <2>1. policy = read[w] /\ op[w] \in AnyCommit
    BY <1>1, WriteParts DEF SkipCommit, Current, Staged, ReadsCurrent, Merging
  <2>2. WriteOf(w).rules = Merged(policy, op[w]) /\ WriteOf(w).rules = policy
    BY <1>1, <2>1 DEF SkipCommit, UpToDate, WriteOf
  <2>3. Clean(Merged(policy, op[w]), op[w])
    BY <2>1, MergedClean
  <2>4. policy = Merged(policy, op[w])
    BY <2>2
  <2>. QED
    BY <2>3, <2>4, SMT
<1>2. CASE CommitSucceeds(w)
  <2>1. op[w] \in AnyCommit /\ pc[w] = "waiting"
    BY <1>2, WriteParts DEF CommitSucceeds, Current, Staged
  <2>2. policy = WriteOf(w).rules
    BY <1>2, <2>1 DEF CommitSucceeds, Current, ReadsCurrent
  <2>3. policy = op[w].new \/ policy = Merged(read[w], op[w])
    BY <2>1, <2>2, WriteParts DEF Current, Staged
  <2>. QED
    BY <2>1, <2>3, MergedClean
<1>. QED
  BY <1>1, <1>2

LEMMA NextClean ==
  ASSUME Current, RemovedRulesStayGone, [Next]_vars
  PROVE  RemovedRulesStayGone'
<1> SUFFICES ASSUME NEW r \in Routes, settled'[r] # Nil, policy' # Nil, abandoned' = {}
             PROVE  Clean(policy', settled'[r])
  BY DEF RemovedRulesStayGone, Clean, NamesOf
<1>0. settled \in [Routes -> AnyCommit \cup {Nil}] /\ (settled[r] # Nil => settled[r].route = r)
  BY DEF Current, Staged, Typed, TypeOK
<1>1. settled[r] # Nil /\ policy # Nil /\ abandoned = {} => Clean(policy, settled[r])
  BY DEF RemovedRulesStayGone, Clean, NamesOf
<1>2. CASE CarryOut
  <2>1. /\ abandoned = {} /\ queue[1] \in Requests /\ 1 \in InQueue
        /\ settled' = IF Wipes(queue[1]) THEN [x \in Routes |-> Nil] ELSE settled
    BY <1>2, Answered DEF Current, Staged
  <2>2. settled'[r] = settled[r] /\ ~Wipes(queue[1]) /\ settled[r] \in AnyCommit
    BY <1>0, <2>1
  <2>3. policy # Nil => Clean(policy, settled[r])
    BY <1>1, <2>1, <2>2
  <2>4. CASE policy' = RepairOf(policy)
    BY <2>2, <2>3, <2>4, OthersClean DEF RepairOf, Clean
  <2>5. CASE /\ queue[1].by \in RouteWorkers /\ pc[queue[1].by] = "waiting"
             /\ policy = read[queue[1].by] /\ queue[1].kind = WriteOf(queue[1].by).kind
             /\ policy' = IF queue[1].kind = "delete" THEN Nil ELSE WriteOf(queue[1].by).rules
    <3>. DEFINE o == op[queue[1].by]
    <3>1. /\ o \in AnyCommit /\ o.route # r
      BY <1>0, <2>2, <2>5, WriteParts DEF Current, Staged, Unsettled
    <3>2. policy' = IF policy = Nil THEN o.new ELSE Merged(policy, o)
      BY <2>5, WriteParts DEF Current, Staged
    <3>3. Clean({}, settled[r])
      BY DEF Clean
    <3>. HIDE DEF o
    <3>. QED
      BY <1>0, <2>2, <2>3, <3>1, <3>2, <3>3, OthersClean
  <2>. QED
    BY <1>2, <2>1, <2>2, <2>4, <2>5, CarriedOut
<1>3. CASE ~CarryOut
  <2>1. policy' = policy
    BY <1>3, OnlyOCIWrites
  <2>2. CASE UNCHANGED settled /\ abandoned = {}
    BY <1>1, <2>1, <2>2
  <2>3. ASSUME NEW w \in RouteWorkers, SkipCommit(w) \/ CommitSucceeds(w)
        PROVE  Clean(policy', settled'[r])
    <3>1. abandoned = {} /\ Settle(w)
      BY <2>3 DEF SkipCommit, CommitSucceeds
    <3>2. Clean(policy, op[w])
      BY <2>1, <2>3, <3>1, SuccessClean
    <3>. QED
      BY <1>0, <1>1, <2>1, <3>1, <3>2 DEF Settle
  <2>4. ASSUME NEW w \in RouteWorkers, WriteCommit(w)
        PROVE  Clean(policy', settled'[r])
    BY <1>0, <1>1, <2>1, <2>4 DEF WriteCommit
  <2>5. (UNCHANGED settled /\ abandoned = {})
          \/ \E w \in RouteWorkers : SkipCommit(w) \/ CommitSucceeds(w) \/ WriteCommit(w)
    BY <1>3 DEF Next, Commit, CommitStep, EnterCommit, GetPolicy, CommitFails, GiveUp,
       GatewaySnapshot, GatewayStep, EnterReconcile, TrustSnapshot, Refresh, NothingToRepair,
       Repair, Repaired, Attach, Detach, DeletePolicy, Detached, GatewayFails, Refuse, Answer, vars
  <2>. QED
    BY <2>2, <2>3, <2>4, <2>5
<1>. QED
  BY <1>2, <1>3

\* A rule that a route removed, or an older version of one it replaced, does not come back
\* as long as no one gives up waiting: the other writers of the policy compute what they
\* write from the policy as it is (commitRoutingPolicy).
THEOREM RemovedRulesStayGoneHolds == Spec => []RemovedRulesStayGone
<1>1. Init => RemovedRulesStayGone
  BY DEF Init, RemovedRulesStayGone
<1>. QED
  BY <1>1, InitCurrent, NextCurrent, NextClean, PTL DEF Spec

----------------------------------------------------------------------------
(* The default rule.                                                       *)

Good(p) == p # Nil /\ ~Drifted(p)

\* Everyone who is to write a good policy read it good.
GoodIsKept ==
  Good(policy) =>
    /\ \A i \in InQueue :
         ~Wipes(queue[i]) => queue[i].kind = "update" /\ ~Drifted(queue[i].rules)
    /\ \A w \in RouteWorkers : pc[w] = "merging" => Good(read[w])

\* A route that read a good policy, now deleted or drifted, finds no policy to write back to.
OldIsRefused ==
  ~Good(policy) =>
    /\ \A j \in InQueue :
         queue[j].owner # Gateway /\ ~Drifted(queue[j].rules) =>
           policy = Nil /\ \A i \in InQueue : i < j => queue[i].kind # "create"
    /\ \A w \in RouteWorkers :
         pc[w] = "merging" /\ Good(read[w]) =>
           policy = Nil /\ \A i \in InQueue : queue[i].kind # "create"

\* What the Gateway trusts is so.
GatewaySees ==
  /\ pc[Gateway] \in {"locking", "checking", "repairing"} /\ Good(read[Gateway]) => Good(policy)
  /\ pc[Gateway] = "attaching" => Good(policy)
  /\ pc[Gateway] = "waiting" /\ Holds(Gateway) /\ outcome[Gateway] = "succeeded" => Good(policy)

\* A Gateway that deletes no longer reports the listener programmed.
DeletesUnready ==
  pc[Gateway] \in {"detaching", "deleting"} \/ (pc[Gateway] = "waiting" /\ ~Holds(Gateway)) =>
    ~ready

DefaultKept ==
  Gateway \notin abandoned =>
    /\ GoodIsKept
    /\ OldIsRefused
    /\ GatewaySees
    /\ DeletesUnready
    /\ ready => listener /\ Good(policy)

DefaultInv == Current /\ DefaultKept

LEMMA InitDefault == Init => DefaultInv
<1> SUFFICES ASSUME Init PROVE DefaultKept
  BY InitCurrent DEF DefaultInv
<1>1. InQueue = {}
  BY EmptySeq DEF Init, InQueue
<1>. QED
  BY <1>1 DEF Init, DefaultKept, GoodIsKept, OldIsRefused, GatewaySees, DeletesUnready, Workers

\* The default rule is no route's own: a commit neither adds nor removes it.
LEMMA CommitLeavesDefault ==
  ASSUME NEW c \in AnyCommit
  PROVE  /\ Drifted(c.new)
         /\ \A p : Drifted(Merged(p, c)) <=> Drifted(p)
<1>1. /\ DefaultRule(DefaultBackend).name[1] = Gateway /\ Gateway \notin Routes
      /\ c.route \in Routes /\ \A name \in c.gone \cup NamesOf(c.new) : name[1] = c.route
  BY DefaultParts, CommitParts
<1>2. \A rule \in c.new : rule.name[1] = c.route
  BY <1>1 DEF NamesOf
<1>. QED
  BY <1>1, <1>2 DEF Drifted, Merged

LEMMA WriteLeavesDefault ==
  ASSUME Typed, NEW w \in RouteWorkers, pc[w] # "idle"
  PROVE  /\ ~Drifted(WriteOf(w).rules) <=> Good(read[w])
         /\ Good(read[w]) => WriteOf(w).kind = "update"
BY WriteParts, CommitLeavesDefault DEF Good, Drifted

LEMMA RepairIsGood ==
  ASSUME NEW p
  PROVE  ~Drifted(RepairOf(p))
BY DEF Drifted, RepairOf, WithDefault

\* A request of the Gateway that is not late is the one it waits for.
LEMMA GatewayAsks ==
  ASSUME Current, Gateway \notin abandoned, NEW i \in InQueue
  PROVE  queue[i].owner = Gateway <=> queue[i].by = Gateway
<1>1. queue[i].by # Nil =>
        /\ queue[i].by \in Workers /\ Planned(queue[i].by, queue[i]) /\ pc[queue[i].by] = "waiting"
  BY HolderWrites DEF Current
<1>2. queue[i].by = Nil => queue[i].owner # Gateway
  BY DEF Current, LateOwners
<1>3. ASSUME queue[i].by \in RouteWorkers PROVE queue[i].owner # Gateway
  BY <1>1, <1>3, WriteParts DEF Planned, Current, Staged
<1>. QED
  BY <1>1, <1>2, <1>3 DEF Planned, Workers

\* A step of a worker that leaves the policy, the queue and the listener alone.
LEMMA DefaultQuiet ==
  ASSUME DefaultInv, Gateway \notin abandoned, UNCHANGED <<policy, queue>>,
         \A w \in RouteWorkers :
           pc'[w] = "merging" => (pc[w] = "merging" /\ read'[w] = read[w]) \/ read'[w] = policy
  PROVE  GoodIsKept' /\ OldIsRefused'
BY DEF DefaultInv, DefaultKept, GoodIsKept, OldIsRefused, InQueue, Wipes, Good, Drifted

LEMMA RouteDefault ==
  ASSUME DefaultInv, NEW w \in RouteWorkers, Gateway \notin abandoned,
         Commit(w) \/ EnterCommit(w) \/ GetPolicy(w) \/ SkipCommit(w)
           \/ CommitSucceeds(w) \/ CommitFails(w)
  PROVE  DefaultKept'
<1>1. UNCHANGED <<policy, listener, queue, ready>> /\ w \in Workers /\ w # Gateway
  BY DEF Commit, EnterCommit, GetPolicy, SkipCommit, CommitSucceeds, CommitFails, oci, Workers
<1>2. \A v \in Workers \ {w} : /\ pc'[v] = pc[v] /\ op'[v] = op[v]
                               /\ read'[v] = read[v] /\ outcome'[v] = outcome[v]
  BY Returned
  DEF Commit, EnterCommit, GetPolicy, SkipCommit, CommitSucceeds, CommitFails,
      Move, DefaultInv, Current, Staged, Typed, TypeOK, Workers
<1>3. Holds(Gateway)' <=> Holds(Gateway)
  BY DEF Commit, EnterCommit, GetPolicy, SkipCommit, CommitSucceeds, CommitFails,
         Leave, Enter, Mutex!Enter, Holds, Move, DefaultInv, Current, Staged, Typed, TypeOK,
         Locking, LockStages, CanHold, AnswersAwaited, Workers
<1>4. pc'[w] = "merging" => read'[w] = policy
  <2>1. CASE Commit(w) \/ EnterCommit(w) \/ GetPolicy(w)
    BY <1>1, <2>1 DEF Commit, EnterCommit, GetPolicy, Move, DefaultInv, Current, Staged, Typed, TypeOK
  <2>2. CASE SkipCommit(w) \/ CommitSucceeds(w) \/ CommitFails(w)
    BY <1>1, <2>2, Returned DEF SkipCommit, CommitSucceeds, CommitFails, DefaultInv, Current,
                                Staged, Typed
  <2>. QED
    BY <2>1, <2>2
<1>5. GoodIsKept' /\ OldIsRefused'
  BY <1>1, <1>2, <1>4, DefaultQuiet DEF Workers
<1>6. GatewaySees' /\ DeletesUnready' /\ (ready' => listener' /\ Good(policy'))
  BY <1>1, <1>2, <1>3 DEF DefaultInv, DefaultKept, GatewaySees, DeletesUnready, Good, Drifted, Workers
<1>. QED
  BY <1>5, <1>6 DEF DefaultKept, Good, Drifted

LEMMA WriteCommitDefault ==
  ASSUME DefaultInv, NEW w \in RouteWorkers, Gateway \notin abandoned, WriteCommit(w)
  PROVE  DefaultKept'
<1>1. /\ pc[w] = "merging" /\ pc'[w] = "waiting" /\ w \in Workers /\ w # Gateway
      /\ \A v \in Workers \ {w} : pc'[v] = pc[v]
      /\ UNCHANGED <<policy, listener, op, read, outcome, holder, ready>>
  BY DEF WriteCommit, Move, Workers, DefaultInv, Current, Staged, Typed, TypeOK
<1>2. /\ op[w].route \in Routes /\ WriteOf(w).kind \in {"create", "update", "delete"}
      /\ WriteOf(w).rules \in RuleLists \cup {{}}
      /\ ~Drifted(WriteOf(w).rules) <=> Good(read[w])
      /\ Good(read[w]) => WriteOf(w).kind = "update"
  BY <1>1, WriteParts, WriteLeavesDefault DEF DefaultInv, Current, Staged
<1>3. PICK req \in Requests :
        /\ req.by = w /\ req.owner = op[w].route
        /\ req.kind = WriteOf(w).kind /\ req.rules = WriteOf(w).rules
        /\ queue' = Append(queue, req)
  BY <1>1, <1>2, SubmitRequest DEF WriteCommit, Owners, DefaultInv, Current, Staged
<1>. DEFINE n == Len(queue) + 1
<1>4. /\ n \in InQueue' /\ n \in Nat /\ queue'[n] = req
      /\ \A i \in InQueue : i \in Nat /\ i \in InQueue' /\ queue'[i] = queue[i] /\ i < n
      /\ \A i \in InQueue' : i \in InQueue \/ i = n
  BY <1>3, Appended DEF DefaultInv, Current, Staged, Typed, TypeOK
<1>. HIDE DEF n
<1>5. \A v \in RouteWorkers : pc'[v] # "merging"
  BY <1>1 DEF DefaultInv, Current, Staged, Locking, LockStages, CanHold, Holds, Workers
<1>6. GoodIsKept'
  <2> SUFFICES ASSUME Good(policy), NEW i \in InQueue', ~Wipes(queue'[i])
               PROVE  queue'[i].kind = "update" /\ ~Drifted(queue'[i].rules)
    BY <1>1, <1>5 DEF GoodIsKept, Good, Drifted, Wipes
  <2>1. CASE i = n
    <3>1. Good(read[w])
      BY <1>1 DEF DefaultInv, DefaultKept, GoodIsKept
    <3>. QED
      BY <1>2, <1>3, <1>4, <2>1, <3>1
  <2>2. CASE i \in InQueue
    BY <1>4, <2>2 DEF DefaultInv, DefaultKept, GoodIsKept
  <2>. QED
    BY <1>4, <2>1, <2>2
<1>7. OldIsRefused'
  <2> SUFFICES ASSUME ~Good(policy), NEW j \in InQueue',
                      queue'[j].owner # Gateway, ~Drifted(queue'[j].rules)
               PROVE  policy = Nil /\ \A i \in InQueue' : i < j => queue'[i].kind # "create"
    BY <1>1, <1>5 DEF OldIsRefused, Good, Drifted
  <2>1. CASE j = n
    <3>1. policy = Nil /\ \A i \in InQueue : queue[i].kind # "create"
      BY <1>1, <1>2, <1>3, <1>4, <2>1 DEF DefaultInv, DefaultKept, OldIsRefused
    <3>2. ~(n < n)
      BY <1>4
    <3>. QED
      BY <1>4, <2>1, <3>1, <3>2
  <2>2. CASE j \in InQueue
    <3>1. policy = Nil /\ \A i \in InQueue : i < j => queue[i].kind # "create"
      BY <1>4, <2>2 DEF DefaultInv, DefaultKept, OldIsRefused
    <3>2. ~(n < j)
      BY <1>4, <2>2
    <3>. QED
      BY <1>4, <3>1, <3>2
  <2>. QED
    BY <1>4, <2>1, <2>2
<1>8. GatewaySees' /\ DeletesUnready' /\ (ready' => listener' /\ Good(policy'))
  BY <1>1 DEF DefaultInv, DefaultKept, GatewaySees, DeletesUnready, Good, Drifted, Holds, Workers
<1>. QED
  BY <1>6, <1>7, <1>8 DEF DefaultKept, Good, Drifted

\* The Gateway's requests: a repair that is good, or a deletion.
LEMMA GatewaySubmitDefault ==
  ASSUME DefaultInv, Gateway \notin abandoned, Repair \/ DeletePolicy
  PROVE  DefaultKept'
<1>1. /\ pc'[Gateway] = "waiting" /\ \A v \in Workers \ {Gateway} : pc'[v] = pc[v]
      /\ UNCHANGED <<policy, listener, read, outcome, holder, ready>>
  BY DEF Repair, DeletePolicy, Move, DefaultInv, Current, Staged, Typed, TypeOK, Workers
<1>2. PICK req \in Requests :
        /\ req.by = Gateway /\ queue' = Append(queue, req)
        /\ Planned(Gateway, req) /\ (Holds(Gateway) \/ Wipes(req))
  BY GatewaySubmits DEF DefaultInv, Current
<1>3. req.owner = Gateway /\ (Holds(Gateway) <=> ~Wipes(req))
  BY <1>2 DEF Planned
<1>4. Good(policy) /\ ~Wipes(req) => req.kind = "update" /\ ~Drifted(req.rules)
  <2> SUFFICES ASSUME Good(policy), ~Wipes(req) PROVE req.kind = "update" /\ ~Drifted(req.rules)
    OBVIOUS
  <2>1. Repair
    BY <1>3 DEF DeletePolicy, Move, DefaultInv, Current, Staged, Locking, LockStages
  <2>2. /\ req.rules = RepairOf(read[Gateway])
        /\ req.kind = IF read[Gateway] = Nil THEN "create" ELSE "update"
    BY <1>2, <1>3 DEF Planned
  <2>3. read[Gateway] # Nil
    BY <2>1 DEF Repair, Submit, Applicable, Good
  <2>. QED
    BY <2>2, <2>3, RepairIsGood
<1>5. \A v \in RouteWorkers : pc'[v] = "merging" => pc[v] = "merging" /\ ~Holds(Gateway)
  BY <1>1 DEF DefaultInv, Current, Staged, Locking, LockStages, CanHold, Holds, Workers
<1>. DEFINE n == Len(queue) + 1
<1>6. /\ n \in InQueue' /\ n \in Nat /\ queue'[n] = req
      /\ \A i \in InQueue : i \in Nat /\ i \in InQueue' /\ queue'[i] = queue[i] /\ i < n
      /\ \A i \in InQueue' : i \in InQueue \/ i = n
  BY <1>2, Appended DEF DefaultInv, Current, Staged, Typed, TypeOK
<1>. HIDE DEF n
<1>7. GoodIsKept'
  <2>1. ASSUME Good(policy), NEW i \in InQueue', ~Wipes(queue'[i])
        PROVE  queue'[i].kind = "update" /\ ~Drifted(queue'[i].rules)
    BY <1>4, <1>6, <2>1 DEF DefaultInv, DefaultKept, GoodIsKept
  <2>2. ASSUME Good(policy), NEW v \in RouteWorkers, pc'[v] = "merging" PROVE Good(read[v])
    BY <1>5, <2>2 DEF DefaultInv, DefaultKept, GoodIsKept
  <2>. QED
    BY <1>1, <2>1, <2>2 DEF GoodIsKept, Good, Drifted, Wipes
<1>8. OldIsRefused'
  <2>1. ASSUME ~Good(policy), NEW j \in InQueue', queue'[j].owner # Gateway,
               ~Drifted(queue'[j].rules), NEW i \in InQueue', i < j
        PROVE  policy = Nil /\ queue'[i].kind # "create"
    <3>1. j \in InQueue /\ j \in Nat /\ i # n
      BY <1>3, <1>6, <2>1
    <3>. QED
      BY <1>6, <2>1, <3>1 DEF DefaultInv, DefaultKept, OldIsRefused
  <2>2. ASSUME ~Good(policy), NEW j \in InQueue', queue'[j].owner # Gateway,
               ~Drifted(queue'[j].rules)
        PROVE  policy = Nil
    <3>1. j \in InQueue
      BY <1>3, <1>6, <2>2
    <3>. QED
      BY <1>6, <2>2, <3>1 DEF DefaultInv, DefaultKept, OldIsRefused
  <2>3. ASSUME ~Good(policy), NEW v \in RouteWorkers, pc'[v] = "merging", Good(read[v])
        PROVE  policy = Nil /\ \A i \in InQueue' : queue'[i].kind # "create"
    <3>1. pc[v] = "merging" /\ req.kind = "delete"
      BY <1>3, <1>5, <2>3 DEF Wipes
    <3>2. policy = Nil /\ \A i \in InQueue : queue[i].kind # "create"
      BY <2>3, <3>1 DEF DefaultInv, DefaultKept, OldIsRefused
    <3>. QED
      BY <1>6, <3>1, <3>2
  <2>. QED
    BY <1>1, <2>1, <2>2, <2>3 DEF OldIsRefused, Good, Drifted
<1>9. GatewaySees' /\ DeletesUnready' /\ (ready' => listener' /\ Good(policy'))
  <2>1. outcome[Gateway] = "none"
    BY DEF Repair, DeletePolicy, Move, DefaultInv, Current, Staged, Locking, AnswersAwaited, Workers
  <2>2. ~Holds(Gateway) => ~ready
    BY DEF Repair, DeletePolicy, Move, DefaultInv, DefaultKept, DeletesUnready, Current, Staged,
           Locking, LockStages
  <2>. QED
    BY <1>1, <2>1, <2>2
    DEF DefaultInv, DefaultKept, GatewaySees, DeletesUnready, Good, Drifted, Holds
<1>. QED
  BY <1>7, <1>8, <1>9 DEF DefaultKept, Good, Drifted

LEMMA GatewayDefault ==
  ASSUME DefaultInv, Gateway \notin abandoned,
         GatewaySnapshot \/ EnterReconcile \/ TrustSnapshot \/ Refresh \/ NothingToRepair
           \/ Repaired \/ Attach \/ Detach \/ Detached \/ GatewayFails
  PROVE  DefaultKept'
<1>1. Gateway \in Workers /\ UNCHANGED <<policy, queue>>
  BY DEF GatewaySnapshot, EnterReconcile, TrustSnapshot, Refresh, NothingToRepair, Repaired,
         Attach, Detach, Detached, GatewayFails, oci, Workers
<1>2. \A v \in Workers \ {Gateway} : /\ pc'[v] = pc[v] /\ op'[v] = op[v]
                                     /\ read'[v] = read[v] /\ outcome'[v] = outcome[v]
  BY Returned
  DEF GatewaySnapshot, EnterReconcile, TrustSnapshot, Refresh, NothingToRepair, Repaired,
      Attach, Detach, Detached, GatewayFails, Move, DefaultInv, Current, Staged, Typed, TypeOK,
      Workers
<1>3. GoodIsKept' /\ OldIsRefused'
  BY <1>1, <1>2, DefaultQuiet DEF Workers
<1>4. GatewaySees' /\ DeletesUnready' /\ (ready' => listener' /\ Good(policy))
  <2>1. CASE GatewaySnapshot
    BY ZenonT(40), <1>1, <2>1 DEF GatewaySnapshot, Move, oci, DefaultInv, DefaultKept, GatewaySees,
       DeletesUnready, Good, Drifted, Holds, Current, Staged, Typed, TypeOK, Locking, LockStages
  <2>2. CASE EnterReconcile
    BY <1>1, <2>2 DEF EnterReconcile, Move, oci, DefaultInv, DefaultKept, GatewaySees,
       DeletesUnready, Good, Drifted, Current, Staged, Typed, TypeOK
  <2>3. CASE TrustSnapshot
    BY <1>1, <2>3 DEF TrustSnapshot, Move, oci, SnapshotGood, DefaultInv, DefaultKept, GatewaySees,
       DeletesUnready, Good, Drifted, Current, Staged, Typed, TypeOK
  <2>4. CASE Refresh
    BY <1>1, <2>4 DEF Refresh, Refreshed, Move, oci, SnapshotGood, DefaultInv, DefaultKept,
       GatewaySees, DeletesUnready, Good, Drifted, Current, Staged, Typed, TypeOK
  <2>5. CASE NothingToRepair
    BY <1>1, <2>5 DEF NothingToRepair, Move, oci, SnapshotGood, DefaultInv, DefaultKept,
       GatewaySees, DeletesUnready, Good, Drifted, Current, Staged, Typed, TypeOK
  <2>6. CASE Repaired
    BY <1>1, <2>6 DEF Repaired, Move, oci, Holds, DefaultInv, DefaultKept,
       GatewaySees, DeletesUnready, Good, Drifted, Current, Staged, Typed, TypeOK
  <2>7. CASE Detach
    BY <1>1, <2>7 DEF Detach, Move, oci, DefaultInv, DefaultKept, GatewaySees,
       DeletesUnready, Good, Drifted, Current, Staged, Typed, TypeOK
  <2>8. CASE Attach \/ Detached \/ GatewayFails
    <3>1. pc'[Gateway] = "idle"
      BY <1>1, <2>8, Returned DEF Attach, Detached, GatewayFails, DefaultInv, Current, Staged, Typed
    <3>2. ready' => listener' /\ Good(policy)
      BY <2>8 DEF Attach, Detached, GatewayFails, oci, DefaultInv, DefaultKept, GatewaySees
    <3>. QED
      BY <3>1, <3>2 DEF GatewaySees, DeletesUnready
  <2>. QED
    BY <2>1, <2>2, <2>3, <2>4, <2>5, <2>6, <2>7, <2>8
<1>. QED
  BY <1>1, <1>3, <1>4 DEF DefaultKept, Good, Drifted

\* A route that gives up leaves its request in the queue.
LEMMA GiveUpDefault ==
  ASSUME DefaultInv, NEW w \in RouteWorkers, op[w] # Nil, GiveUp(w, op[w].route),
         Gateway \notin abandoned
  PROVE  DefaultKept'
<1>1. PICK i \in InQueue : queue[i].by = w /\ queue' = [queue EXCEPT ![i].by = Nil]
  BY DEF GiveUp, InQueue
<1>2. /\ InQueue' = InQueue
      /\ \A j \in InQueue : /\ queue'[j].owner = queue[j].owner /\ queue'[j].kind = queue[j].kind
                            /\ queue'[j].rules = queue[j].rules
  BY <1>1, Marked DEF DefaultInv, Current, Staged, Typed, TypeOK
<1>3. /\ w \in Workers /\ w # Gateway /\ UNCHANGED <<policy, listener, ready>>
      /\ pc'[w] = "idle"
      /\ \A v \in Workers \ {w} : /\ pc'[v] = pc[v] /\ op'[v] = op[v]
                                  /\ read'[v] = read[v] /\ outcome'[v] = outcome[v]
  BY Returned DEF GiveUp, Workers, DefaultInv, Current, Staged, Typed
<1>4. Holds(Gateway)' <=> Holds(Gateway)
  BY <1>3 DEF GiveUp, Leave, Holds, DefaultInv, Current, Staged, Typed, TypeOK
<1>5. GoodIsKept' /\ OldIsRefused'
  BY <1>2, <1>3
  DEF DefaultInv, DefaultKept, GoodIsKept, OldIsRefused, Wipes, Good, Drifted, Workers
<1>6. GatewaySees' /\ DeletesUnready' /\ (ready' => listener' /\ Good(policy'))
  BY <1>3, <1>4 DEF DefaultInv, DefaultKept, GatewaySees, DeletesUnready, Good, Drifted, Workers
<1>. QED
  BY <1>5, <1>6 DEF DefaultKept, Good, Drifted

LEMMA RefuseDefault ==
  ASSUME DefaultInv, Gateway \notin abandoned, Refuse
  PROVE  DefaultKept'
<1>1. /\ \A i \in InQueue' : i \in Nat /\ 1 < i + 1 /\ i + 1 \in InQueue /\ queue'[i] = queue[i + 1]
      /\ UNCHANGED <<listener, holder, pc, op, read, attached, ready, abandoned, policy>>
      /\ \A v \in Workers : v # queue[1].by => outcome'[v] = outcome[v]
      /\ queue[1].by # Nil => outcome'[queue[1].by] = "failed"
  BY Answered DEF DefaultInv, Current, Staged
<1>2. GoodIsKept'
  BY <1>1 DEF DefaultInv, DefaultKept, GoodIsKept, Wipes, Good, Drifted
<1>3. OldIsRefused'
  <2>1. ASSUME ~Good(policy), NEW j \in InQueue', queue'[j].owner # Gateway,
               ~Drifted(queue'[j].rules)
        PROVE  policy = Nil /\ \A i \in InQueue' : i < j => queue'[i].kind # "create"
    <3>1. j + 1 \in InQueue /\ queue'[j] = queue[j + 1] /\ j \in Nat
      BY <1>1
    <3>2. policy = Nil /\ \A i \in InQueue : i < j + 1 => queue[i].kind # "create"
      BY <2>1, <3>1 DEF DefaultInv, DefaultKept, OldIsRefused
    <3>3. ASSUME NEW i \in InQueue', i < j PROVE queue'[i].kind # "create"
      <4>1. i + 1 \in InQueue /\ i + 1 < j + 1 /\ queue'[i] = queue[i + 1]
        BY <1>1, <3>1, <3>3
      <4>. QED
        BY <3>2, <4>1
    <3>. QED
      BY <3>2, <3>3
  <2>. QED
    BY <1>1, <2>1 DEF OldIsRefused, DefaultInv, DefaultKept, Good, Drifted
<1>4. GatewaySees' /\ DeletesUnready' /\ (ready' => listener' /\ Good(policy'))
  BY <1>1 DEF DefaultInv, DefaultKept, GatewaySees, DeletesUnready, Good, Drifted, Holds, Workers
<1>. QED
  BY <1>2, <1>3, <1>4 DEF DefaultKept, Good, Drifted

LEMMA CarryOutDefault ==
  ASSUME DefaultInv, Gateway \notin abandoned, CarryOut
  PROVE  DefaultKept'
<1>. DEFINE req == queue[1]
<1>1. /\ 1 \in InQueue /\ req \in Requests
      /\ \A i \in InQueue' : i \in Nat /\ 1 < i + 1 /\ i + 1 \in InQueue /\ queue'[i] = queue[i + 1]
      /\ UNCHANGED <<listener, holder, pc, op, read, attached, ready, abandoned>>
      /\ \A v \in Workers : v # req.by => outcome'[v] = outcome[v]
      /\ Applicable(req)
      /\ policy' = IF req.kind = "delete" THEN Nil ELSE req.rules
  BY Answered DEF DefaultInv, Current, Staged
<1>2. Listed(req) /\ req.owner \in Owners /\ (req.kind # "delete" => req.rules # Nil)
  BY <1>1 DEF DefaultInv, Current, Staged, Typed, RequestsListed, Listed, Requests
<1>3. req.owner = Gateway <=> req.by = Gateway
  BY <1>1, GatewayAsks DEF DefaultInv
<1>4. req.by = Gateway =>
        /\ pc[Gateway] = "waiting" /\ (Holds(Gateway) <=> ~Wipes(req))
        /\ ~Wipes(req) => ~Drifted(req.rules) /\ req.kind # "delete"
  BY <1>1, HolderWrites, RepairIsGood DEF Planned, DefaultInv, Current
\* What is refused can come only after the policy is gone.
<1>5. ASSUME ~Good(policy), Applicable(req), NEW j \in InQueue, queue[j].owner # Gateway,
             ~Drifted(queue[j].rules)
      PROVE  FALSE
  <2>1. /\ policy = Nil /\ \A i \in InQueue : i < j => queue[i].kind # "create"
        /\ j \in Nat \ {0} /\ req.kind \in {"create", "update", "delete"}
    BY <1>1, <1>5, InQueueTyped
    DEF DefaultInv, DefaultKept, OldIsRefused, Current, Staged, Typed, TypeOK, Requests
  <2>2. req.kind = "create"
    BY <1>5, <2>1 DEF Applicable
  <2>3. j = 1
    BY <1>1, <2>1, <2>2
  <2>4. req.rules \subseteq RulesOf(req.owner)
    BY <1>2, <2>2 DEF Listed
  <2>5. DefaultRule(DefaultBackend) \notin RulesOf(req.owner)
    BY <1>5, <2>3, DefaultParts DEF RulesOf
  <2>. QED
    BY <1>5, <2>3, <2>4, <2>5 DEF Drifted
<1>6. ASSUME ~Good(policy), Applicable(req), NEW w \in RouteWorkers, pc[w] = "merging",
             Good(read[w])
      PROVE  FALSE
  <2>1. policy = Nil /\ req.kind # "create" /\ req.kind \in {"create", "update", "delete"}
    BY <1>1, <1>6 DEF DefaultInv, DefaultKept, OldIsRefused, Requests
  <2>. QED
    BY <1>6, <2>1 DEF Applicable
<1>7. CASE Wipes(req)
  <2>1. policy' = Nil /\ pc[Gateway] = "waiting" /\ ~Holds(Gateway) /\ ~ready
    BY <1>1, <1>3, <1>4, <1>7 DEF Wipes, DefaultInv, DefaultKept, DeletesUnready
  <2>2. \A i \in InQueue : Good(policy) => queue[i].kind # "create"
    BY DEF DefaultInv, DefaultKept, GoodIsKept, Wipes
  <2>3. GoodIsKept'
    BY <2>1 DEF GoodIsKept, Good
  <2>4. OldIsRefused'
    <3>1. ASSUME NEW j \in InQueue', queue'[j].owner # Gateway, ~Drifted(queue'[j].rules),
                 NEW i \in InQueue'
          PROVE  queue'[i].kind # "create"
      BY <1>1, <1>5, <2>2, <3>1
    <3>2. ASSUME NEW w \in RouteWorkers, pc[w] = "merging", Good(read[w]), NEW i \in InQueue'
          PROVE  queue'[i].kind # "create"
      BY <1>1, <1>6, <2>2, <3>2
    <3>. QED
      BY <1>1, <2>1, <3>1, <3>2 DEF OldIsRefused, Good, Drifted
  <2>5. GatewaySees' /\ DeletesUnready' /\ ~ready'
    BY <1>1, <2>1 DEF GatewaySees, DeletesUnready, Holds
  <2>. QED
    BY <2>3, <2>4, <2>5 DEF DefaultKept
<1>8. CASE ~Wipes(req) /\ req.by = Gateway
  <2>1. Good(policy') /\ Holds(Gateway) /\ pc[Gateway] = "waiting"
    BY <1>1, <1>2, <1>4, <1>8 DEF Good, Drifted
  <2>2. GoodIsKept'
    <3>1. \A i \in InQueue' : Wipes(queue'[i])
      BY <1>1, <1>8 DEF DefaultInv, Current, Staged, Queued, InOrder, Wipes
    <3>2. \A w \in RouteWorkers : pc[w] # "merging"
      BY <2>1 DEF DefaultInv, Current, Staged, Locking, LockStages, Holds, CanHold
    <3>. QED
      BY <1>1, <3>1, <3>2 DEF GoodIsKept, Wipes
  <2>3. OldIsRefused'
    BY <2>1 DEF OldIsRefused, Good, Drifted
  <2>4. GatewaySees' /\ DeletesUnready' /\ (ready' => listener' /\ Good(policy'))
    BY <1>1, <2>1 DEF DefaultInv, DefaultKept, GatewaySees, DeletesUnready, Good, Drifted, Holds
  <2>. QED
    BY <2>2, <2>3, <2>4 DEF DefaultKept, Good, Drifted
<1>9. CASE ~Wipes(req) /\ req.by # Gateway
  <2>1. outcome'[Gateway] = outcome[Gateway] /\ req.owner # Gateway
    BY <1>1, <1>3, <1>9 DEF Workers
  <2>2. CASE Good(policy)
    <3>1. Good(policy')
      BY <1>1, <1>2, <1>9, <2>2 DEF DefaultInv, DefaultKept, GoodIsKept, Good, Drifted
    <3>2. GoodIsKept' /\ OldIsRefused'
      BY <1>1, <2>2, <3>1
      DEF DefaultInv, DefaultKept, GoodIsKept, OldIsRefused, Wipes, Good, Drifted
    <3>3. GatewaySees' /\ DeletesUnready' /\ (ready' => listener' /\ Good(policy'))
      BY <1>1, <2>1, <3>1
      DEF DefaultInv, DefaultKept, GatewaySees, DeletesUnready, Good, Drifted, Holds
    <3>. QED
      BY <3>2, <3>3 DEF DefaultKept, Good, Drifted
  <2>3. CASE ~Good(policy)
    <3>1. Drifted(req.rules)
      BY <1>1, <1>5, <2>1, <2>3
    <3>2. ~Good(policy')
      BY <1>1, <3>1 DEF Good, Drifted
    <3>3. GoodIsKept'
      BY <3>2 DEF GoodIsKept, Good, Drifted
    <3>4. OldIsRefused'
      BY <1>1, <1>5, <1>6, <2>3 DEF OldIsRefused, Good, Drifted
    <3>5. GatewaySees' /\ DeletesUnready' /\ ~ready'
      BY <1>1, <2>1, <2>3
      DEF DefaultInv, DefaultKept, GatewaySees, DeletesUnready, Good, Drifted, Holds
    <3>. QED
      BY <3>3, <3>4, <3>5 DEF DefaultKept
  <2>. QED
    BY <2>2, <2>3
<1>. QED
  BY <1>7, <1>8, <1>9

LEMMA NextDefault == DefaultInv /\ [Next]_vars => DefaultInv'
<1> SUFFICES ASSUME DefaultInv, [Next]_vars PROVE DefaultKept'
  BY NextCurrent DEF DefaultInv
<1>1. CASE Gateway \in abandoned
  <2>1. Gateway \in abandoned'
    BY <1>1 DEF Next, Commit, CommitStep, EnterCommit, GetPolicy, SkipCommit, WriteCommit,
       CommitSucceeds, CommitFails, GiveUp, GatewaySnapshot, GatewayStep, EnterReconcile,
       TrustSnapshot, Refresh, NothingToRepair, Repair, Repaired, Attach, Detach, DeletePolicy,
       Detached, GatewayFails, CarryOut, Refuse, Answer, vars
  <2>. QED
    BY <2>1 DEF DefaultKept
<1>2. CASE Gateway \notin abandoned
  <2>1. CASE UNCHANGED vars
    BY <2>1 DEF vars, oci, DefaultInv, DefaultKept, GoodIsKept, OldIsRefused, GatewaySees,
                DeletesUnready, Wipes, Good, Drifted, Holds, InQueue
  <2>2. CASE GiveUp(Gateway, Gateway)
    BY <2>2 DEF GiveUp, DefaultKept
  <2>. QED
    BY <1>2, <2>1, <2>2, RouteDefault, WriteCommitDefault, GiveUpDefault, GatewayDefault,
       GatewaySubmitDefault, CarryOutDefault, RefuseDefault
    DEF Next, CommitStep, GatewayStep
<1>. QED
  BY <1>1, <1>2

\* Once the Gateway has reported the listener programmed, the policy has its default rule,
\* whatever the routes commit and however late OCI completes it, until the Gateway itself
\* deletes the policy or gives up on a write (reconcileListenerRoutingPolicyLocked).
THEOREM DefaultRuleServedHolds == Spec => []DefaultRuleServed
<1>1. DefaultInv => DefaultRuleServed
  BY DEF DefaultInv, DefaultKept, DefaultRuleServed, Good, Drifted
<1>. QED
  BY <1>1, InitDefault, NextDefault, PTL DEF Spec

----------------------------------------------------------------------------
(* Committed rules.                                                        *)

Kept(r) == settled[r] # Nil /\ settled[r].new # {}
Keeps(p, r) == p # Nil /\ settled[r].new \subseteq p
Own(p, r) == IF p = Nil THEN {} ELSE p \cap RulesOf(r)

\* Whoever gave up, one request at most is late.
OneLate ==
  /\ \A x, y \in abandoned : x = y
  /\ \A i, j \in InQueue : queue[i].by = Nil /\ queue[j].by = Nil => i = j

\* What OCI is to write has the rules that the other routes were told are there.
RequestsKeep ==
  \A i \in InQueue : ~Wipes(queue[i]) =>
    \A r \in Routes :
      /\ r = queue[i].owner => settled[r] = Nil
      /\ Kept(r) => queue[i].kind # "delete" /\ settled[r].new \subseteq queue[i].rules

\* So has what the holder of the lock read.
ReadsKeep ==
  /\ \A w \in RouteWorkers : Merging(w) =>
       \A r \in Routes : r # op[w].route /\ Kept(r) => Keeps(read[w], r)
  /\ Repairing => \A r \in Routes : Kept(r) => Keeps(read[Gateway], r)

\* The late request leaves the rules of the routes it does not belong to as they are, or is
\* refused.
LateBase ==
  \A i \in InQueue : queue[i].by = Nil /\ ~Wipes(queue[i]) =>
    \A r \in Routes \ {queue[i].owner} :
      \/ queue[i].kind = "create"
      \/ policy = Nil
      \/ queue[i].rules \cap RulesOf(r) = Own(policy, r)

\* A route that was not overtaken read its own rules as they are, or has written them.
OwnRead ==
  \A w \in RouteWorkers \ overtaken :
    /\ pc[w] = "merging" => Own(policy, op[w].route) = Own(read[w], op[w].route)
    /\ pc[w] = "waiting" /\ outcome[w] = "succeeded" /\ op[w].new # {} =>
         policy # Nil /\ op[w].new \subseteq policy

Keeping == OneLate /\ RequestsKeep /\ ReadsKeep /\ LateBase /\ OwnRead /\ CommittedRulesStay
KeepInv == Current /\ Keeping

LEMMA InitKeep == Init => KeepInv
<1> SUFFICES ASSUME Init PROVE Keeping
  BY InitCurrent DEF KeepInv
<1>1. InQueue = {}
  BY EmptySeq DEF Init, InQueue
<1>. QED
  BY <1>1 DEF Init, Keeping, OneLate, RequestsKeep, ReadsKeep, Kept, LateBase, OwnRead,
              CommittedRulesStay, Merging, Repairing, Workers

\* The rules of the other routes are left as they are.
LEMMA OthersLeft ==
  ASSUME NEW r \in Routes
  PROVE  /\ \A p : WithDefault(p) \cap RulesOf(r) = p \cap RulesOf(r)
         /\ RulesOf(Gateway) \cap RulesOf(r) = {}
         /\ \A c \in AnyCommit : c.route # r =>
              /\ c.new \cap RulesOf(r) = {}
              /\ \A p : Merged(p, c) \cap RulesOf(r) = p \cap RulesOf(r)
<1>1. /\ DefaultRule(DefaultBackend).name[1] = Gateway /\ Gateway # r
      /\ DefaultRule(DefaultBackend).name = DefaultName
  BY DefaultParts
<1>2. \A rule \in RulesOf(r) : rule.name[1] = r
  BY DEF RulesOf
<1>3. \A c \in AnyCommit : /\ \A name \in c.gone \cup NamesOf(c.new) : name[1] = c.route
                           /\ \A rule \in c.new : rule.name[1] = c.route
  BY CommitParts DEF NamesOf
<1>4. \A p : WithDefault(p) \cap RulesOf(r) = p \cap RulesOf(r)
  BY <1>1, <1>2 DEF WithDefault
<1>5. RulesOf(Gateway) \cap RulesOf(r) = {}
  BY <1>1 DEF RulesOf
<1>6. ASSUME NEW c \in AnyCommit, c.route # r
      PROVE  /\ c.new \cap RulesOf(r) = {}
             /\ \A p : Merged(p, c) \cap RulesOf(r) = p \cap RulesOf(r)
  BY <1>2, <1>3, <1>6 DEF Merged
<1>. QED
  BY <1>4, <1>5, <1>6

LEMMA SettledOwn ==
  ASSUME Typed, NEW r \in Routes, settled[r] # Nil
  PROVE  settled[r] \in AnyCommit /\ settled[r].new \subseteq RulesOf(r)
BY CommitParts DEF Typed, TypeOK

\* A worker that neither merges nor repairs, nor has an answer of success, may go
\* anywhere, and forget that it was overtaken.
LEMMA KeepQuiet ==
  ASSUME KeepInv, NEW w \in Workers, UNCHANGED <<policy, queue, settled, abandoned>>,
         \A v \in Workers \ {w} : /\ pc'[v] = pc[v] /\ op'[v] = op[v]
                                  /\ read'[v] = read[v] /\ outcome'[v] = outcome[v],
         overtaken \ {w} \subseteq overtaken',
         w # Gateway => (Holds(Gateway)' <=> Holds(Gateway)),
         w # Gateway => pc'[w] \notin {"merging", "waiting"},
         w = Gateway => (Repairing' => Repairing /\ read'[Gateway] = read[Gateway])
  PROVE  Keeping'
<1>1. OneLate' /\ RequestsKeep' /\ LateBase' /\ CommittedRulesStay'
  BY DEF KeepInv, Keeping, OneLate, RequestsKeep, LateBase, CommittedRulesStay, Own, Kept, Wipes,
         InQueue
<1>2. ASSUME NEW v \in RouteWorkers, pc'[v] \in {"merging", "waiting"}
      PROVE  v # w /\ pc'[v] = pc[v] /\ op'[v] = op[v] /\ read'[v] = read[v]
             /\ outcome'[v] = outcome[v]
  BY <1>2 DEF Workers
<1>3. ReadsKeep'
  <2>1. ASSUME NEW v \in RouteWorkers, Merging(v)', NEW r \in Routes, r # op'[v].route, Kept(r)'
        PROVE  Keeps(read[v], r)'
    BY <1>2, <2>1 DEF KeepInv, Keeping, ReadsKeep, Kept, Keeps, Merging
  <2>2. ASSUME Repairing', NEW r \in Routes, Kept(r)'
        PROVE  Keeps(read[Gateway], r)'
    BY <2>2 DEF KeepInv, Keeping, ReadsKeep, Kept, Keeps, Repairing, Workers
  <2>. QED
    BY <2>1, <2>2 DEF ReadsKeep
<1>4. OwnRead'
  BY <1>2 DEF KeepInv, Keeping, OwnRead, Own
<1>. QED
  BY <1>1, <1>3, <1>4 DEF Keeping

LEMMA RouteKeep ==
  ASSUME KeepInv, NEW w \in RouteWorkers,
         Commit(w) \/ EnterCommit(w) \/ CommitFails(w)
           \/ ((SkipCommit(w) \/ CommitSucceeds(w)) /\ UNCHANGED settled)
  PROVE  Keeping'
<1>1. UNCHANGED <<policy, queue, settled, abandoned>> /\ w \in Workers /\ w # Gateway
  BY DEF Commit, EnterCommit, SkipCommit, CommitSucceeds, CommitFails, oci, Workers
<1>2. \A v \in Workers \ {w} : /\ pc'[v] = pc[v] /\ op'[v] = op[v]
                               /\ read'[v] = read[v] /\ outcome'[v] = outcome[v]
  BY Returned
  DEF Commit, EnterCommit, SkipCommit, CommitSucceeds, CommitFails,
      Move, KeepInv, Current, Staged, Typed, TypeOK, Workers
<1>3. Holds(Gateway)' <=> Holds(Gateway)
  BY DEF Commit, EnterCommit, SkipCommit, CommitSucceeds, CommitFails,
         Leave, Enter, Mutex!Enter, Holds, Move, KeepInv, Current, Staged, Typed, TypeOK,
         Locking, LockStages, CanHold, AnswersAwaited, Workers
<1>4. pc'[w] \notin {"merging", "waiting"} /\ overtaken \ {w} \subseteq overtaken'
  <2>1. CASE Commit(w) \/ EnterCommit(w)
    BY <1>1, <2>1 DEF Commit, EnterCommit, Move, KeepInv, Current, Staged, Typed, TypeOK
  <2>2. CASE SkipCommit(w) \/ CommitSucceeds(w) \/ CommitFails(w)
    BY <1>1, <2>2 DEF SkipCommit, CommitSucceeds, CommitFails, Return, KeepInv, Current,
                      Staged, Typed, TypeOK
  <2>. QED
    BY <2>1, <2>2
<1>. QED
  BY <1>1, <1>2, <1>3, <1>4, KeepQuiet

LEMMA GetPolicyKeep == ASSUME KeepInv, NEW w \in RouteWorkers, GetPolicy(w) PROVE Keeping'
<1>1. /\ UNCHANGED <<policy, queue, settled, abandoned, outcome, op, holder, overtaken>>
      /\ w \in Workers /\ w # Gateway /\ pc'[w] = "merging" /\ read'[w] = policy
      /\ \A v \in Workers \ {w} : pc'[v] = pc[v] /\ read'[v] = read[v]
  BY DEF GetPolicy, Move, oci, Workers, KeepInv, Current, Staged, Typed, TypeOK
<1>2. OneLate' /\ RequestsKeep' /\ LateBase' /\ CommittedRulesStay'
  BY <1>1 DEF KeepInv, Keeping, OneLate, RequestsKeep, LateBase, CommittedRulesStay, Own, Kept,
              Wipes, InQueue
<1>3. ReadsKeep'
  <2>1. ASSUME NEW v \in RouteWorkers, Merging(v)', NEW r \in Routes, r # op[v].route, Kept(r)
        PROVE  read'[v] # Nil /\ settled[r].new \subseteq read'[v]
    <3>1. CASE v = w
      BY <1>1, <2>1, <3>1 DEF KeepInv, Keeping, CommittedRulesStay, Kept
    <3>2. CASE v # w
      BY <1>1, <2>1, <3>2 DEF KeepInv, Keeping, ReadsKeep, Keeps, Merging, Workers
    <3>. QED
      BY <3>1, <3>2
  <2>2. ASSUME Repairing', NEW r \in Routes, Kept(r)
        PROVE  read'[Gateway] # Nil /\ settled[r].new \subseteq read'[Gateway]
    BY <1>1, <2>2 DEF KeepInv, Keeping, ReadsKeep, Keeps, Repairing, Holds, Workers
  <2>. QED
    BY <1>1, <2>1, <2>2 DEF ReadsKeep, Kept, Keeps
<1>4. OwnRead'
  <2> SUFFICES ASSUME NEW v \in RouteWorkers \ overtaken
               PROVE  /\ pc'[v] = "merging" => Own(policy, op[v].route) = Own(read'[v], op[v].route)
                      /\ pc'[v] = "waiting" /\ outcome[v] = "succeeded" /\ op[v].new # {} =>
                           policy # Nil /\ op[v].new \subseteq policy
    BY <1>1 DEF OwnRead, Own
  <2>1. CASE v = w
    BY <1>1, <2>1
  <2>2. CASE v # w
    BY <1>1, <2>2 DEF KeepInv, Keeping, OwnRead, Workers
  <2>. QED
    BY <2>1, <2>2
<1>. QED
  BY <1>2, <1>3, <1>4 DEF Keeping

\* When a commit succeeds, its rules are in the policy, and nothing else is queued.
LEMMA SettleKeep ==
  ASSUME KeepInv, NEW w \in RouteWorkers, SkipCommit(w) \/ CommitSucceeds(w),
         ~UNCHANGED settled
  PROVE  Keeping'
<1>. DEFINE r == op[w].route
<1>1. /\ UNCHANGED <<policy, queue, abandoned>> /\ w \in Workers /\ w # Gateway /\ Return(w)
      /\ holder' = [holder EXCEPT ![PolicyKey] = Nil]
      /\ w \notin overtaken /\ (\A i \in InQueue : queue[i].by # Nil)
      /\ settled' = [settled EXCEPT ![r] = op[w]] /\ pc[w] \in CanHold
  BY DEF SkipCommit, CommitSucceeds, oci, Workers, Leave, Settle, InQueue, CanHold
<1>2. op[w] \in AnyCommit /\ r \in Routes /\ op[w].new \subseteq RulesOf(r)
  BY <1>1, WriteParts, CommitParts DEF CanHold, KeepInv, Current, Staged
<1>3. Holds(w) /\ \A v \in Workers : ~Holds(v)' /\ (v # w => ~Holds(v))
  BY <1>1 DEF KeepInv, Current, Staged, Locking, LockStages, Holds, Typed, TypeOK, Workers
<1>4. ~(pc[w] = "waiting" /\ outcome[w] = "none")
  BY DEF SkipCommit, CommitSucceeds
<1>5. \A i \in InQueue : Wipes(queue[i])
  BY <1>1, <1>3, <1>4, HolderWrites DEF KeepInv, Current
<1>6. /\ pc'[w] = "idle" /\ \A v \in Workers \ {w} : pc'[v] = pc[v] /\ outcome'[v] = outcome[v]
      /\ overtaken' = overtaken \ {w}
  BY ZenonT(40), <1>1, Returned DEF KeepInv, Current, Staged, Typed, Return
<1>7. op[w].new # {} => policy # Nil /\ op[w].new \subseteq policy
  <2>1. CASE SkipCommit(w)
    <3> SUFFICES ASSUME op[w].new # {} PROVE policy # Nil /\ op[w].new \subseteq policy
      OBVIOUS
    <3>1. pc[w] = "merging" /\ UpToDate(w)
      BY <2>1 DEF SkipCommit
    <3>2. read[w] # Nil /\ op[w].new \subseteq read[w]
      BY <3>1 DEF UpToDate, WriteOf, Merged
    <3>3. Own(policy, r) = Own(read[w], r)
      BY <1>1, <3>1 DEF KeepInv, Keeping, OwnRead
    <3>. HIDE DEF r
    <3>. QED
      BY <1>2, <3>2, <3>3 DEF Own
  <2>2. CASE CommitSucceeds(w)
    BY <1>1, <2>2 DEF CommitSucceeds, KeepInv, Keeping, OwnRead
  <2>. QED
    BY <2>1, <2>2
<1>8. OneLate' /\ RequestsKeep' /\ LateBase'
  BY <1>1, <1>5 DEF KeepInv, Keeping, OneLate, RequestsKeep, LateBase, Wipes, InQueue
<1>9. CommittedRulesStay'
  <2>1. \A x \in Routes : settled'[x] = IF x = r THEN op[w] ELSE settled[x]
    BY <1>1 DEF KeepInv, Current, Staged, Typed, TypeOK
  <2>. QED
    BY <1>1, <1>7, <2>1 DEF CommittedRulesStay, KeepInv, Keeping
<1>10. (\A v \in RouteWorkers : pc'[v] \notin CanHold) /\ ~Repairing'
  <2>1. \A v \in RouteWorkers : pc'[v] \notin CanHold
    BY <1>3, <1>6 DEF KeepInv, Current, Staged, Locking, LockStages, Workers, CanHold
  <2>2. ~Repairing'
    BY <1>1, <1>3, <1>6 DEF KeepInv, Current, Staged, Locking, LockStages, Workers, Repairing
  <2>. QED
    BY <2>1, <2>2
<1>11. ReadsKeep' /\ OwnRead'
  BY <1>10 DEF ReadsKeep, OwnRead, Merging, CanHold
<1>. QED
  BY <1>8, <1>9, <1>11 DEF Keeping

LEMMA WriteCommitKeep == ASSUME KeepInv, NEW w \in RouteWorkers, WriteCommit(w) PROVE Keeping'
<1>. DEFINE c == op[w]
<1>1. /\ pc[w] = "merging" /\ pc'[w] = "waiting" /\ w \in Workers /\ w # Gateway
      /\ \A v \in Workers \ {w} : pc'[v] = pc[v]
      /\ UNCHANGED <<policy, op, read, outcome, holder, abandoned, overtaken>>
      /\ settled' = [settled EXCEPT ![c.route] = Nil]
  BY DEF WriteCommit, Move, Workers, KeepInv, Current, Staged, Typed, TypeOK
<1>2. /\ c \in AnyCommit /\ c.route \in Routes /\ WriteOf(w).kind \in {"create", "update", "delete"}
      /\ WriteOf(w).rules \in RuleLists \cup {{}}
      /\ outcome[w] = "none"
  BY <1>1, WriteParts DEF KeepInv, Current, Staged, Locking, AnswersAwaited
<1>3. \A r \in Routes : settled'[r] = IF r = c.route THEN Nil ELSE settled[r]
  BY <1>1 DEF KeepInv, Current, Staged, Typed, TypeOK
<1>4. PICK req \in Requests :
        /\ req.by = w /\ req.owner = c.route
        /\ req.kind = WriteOf(w).kind /\ req.rules = WriteOf(w).rules
        /\ queue' = Append(queue, req)
  BY <1>1, <1>2, SubmitRequest DEF WriteCommit, Owners, KeepInv, Current, Staged
<1>. DEFINE n == Len(queue) + 1
<1>5. /\ n \in InQueue' /\ n \in Nat /\ queue'[n] = req
      /\ \A i \in InQueue : i \in Nat /\ i \in InQueue' /\ queue'[i] = queue[i] /\ i < n
      /\ \A i \in InQueue' : i \in InQueue \/ i = n
  BY <1>4, Appended DEF KeepInv, Current, Staged, Typed, TypeOK
<1>. HIDE DEF n, c
<1>6. ASSUME NEW r \in Routes, r # c.route, Kept(r)
      PROVE  req.kind # "delete" /\ settled[r].new \subseteq req.rules
  <2>1. Keeps(read[w], r)
    BY <1>1, <1>6 DEF KeepInv, Keeping, ReadsKeep, Merging, c
  <2>2. settled[r].new \subseteq RulesOf(r) /\ settled[r].new # {}
    BY <1>6, SettledOwn DEF Kept, KeepInv, Current, Staged
  <2>3. req.rules = Merged(read[w], c)
    BY <1>4, <2>1 DEF Keeps, WriteOf, c
  <2>4. settled[r].new \subseteq req.rules
    BY <1>2, <1>6, <2>1, <2>2, <2>3, OthersLeft DEF Keeps
  <2>5. req.rules # {}
    BY <2>2, <2>4
  <2>. QED
    BY <1>1, <1>4, <2>4, <2>5, WriteParts DEF KeepInv, Current, Staged
<1>7. OneLate'
  <2>1. req.by # Nil
    BY <1>4 DEF Workers
  <2>. QED
    BY <1>1, <1>5, <2>1 DEF KeepInv, Keeping, OneLate
<1>8. RequestsKeep'
  <2> SUFFICES ASSUME NEW i \in InQueue', ~Wipes(queue'[i]), NEW r \in Routes
               PROVE  /\ r = queue'[i].owner => settled'[r] = Nil
                      /\ settled'[r] # Nil /\ settled'[r].new # {} =>
                           queue'[i].kind # "delete" /\ settled'[r].new \subseteq queue'[i].rules
    BY DEF RequestsKeep, Kept, Wipes
  <2>1. CASE i = n
    BY ZenonT(40), <1>3, <1>4, <1>5, <1>6, <2>1 DEF Kept
  <2>2. CASE i \in InQueue
    <3>1. queue'[i] = queue[i]
      BY <1>5, <2>2
    <3>2. /\ r = queue[i].owner => settled[r] = Nil
          /\ Kept(r) => queue[i].kind # "delete" /\ settled[r].new \subseteq queue[i].rules
      BY <2>2, <3>1 DEF KeepInv, Keeping, RequestsKeep
    <3>. QED
      BY <1>3, <3>1, <3>2 DEF Kept
  <2>. QED
    BY <1>5, <2>1, <2>2
<1>9. ReadsKeep'
  BY <1>1, <1>2, <1>3 DEF KeepInv, Keeping, ReadsKeep, Kept, Keeps, Merging, Repairing, Holds, Workers
<1>10. LateBase'
  <2>1. req.by # Nil
    BY <1>4 DEF Workers
  <2>. QED
    BY <1>1, <1>5, <2>1 DEF KeepInv, Keeping, LateBase, Own, Wipes
<1>11. OwnRead'
  BY <1>1, <1>2 DEF KeepInv, Keeping, OwnRead, Own, Workers
<1>12. CommittedRulesStay'
  BY <1>1, <1>3 DEF KeepInv, Keeping, CommittedRulesStay
<1>. QED
  BY <1>7, <1>8, <1>9, <1>10, <1>11, <1>12 DEF Keeping

\* Whoever gives up is the first to do so: what it leaves queued is computed from the
\* policy as it is.
LEMMA GiveUpKeep ==
  ASSUME MaxLate <= 1, KeepInv, NEW w \in Workers, NEW owner \in Owners, GiveUp(w, owner),
         owner = IF w = Gateway THEN Gateway ELSE op[w].route
  PROVE  Keeping'
<1>1. abandoned = {} /\ abandoned' = {owner}
  <2>1. abandoned' = abandoned \cup {owner} /\ Cardinality(abandoned) < MaxLate
    BY DEF GiveUp
  <2>2. ASSUME NEW x \in abandoned PROVE FALSE
    <3>1. abandoned = {x}
      BY <2>2 DEF KeepInv, Keeping, OneLate
    <3>2. Cardinality(abandoned) = 1
      BY <3>1, FS_Singleton
    <3>. QED
      BY <2>1, <3>2
  <2>. QED
    BY <2>1, <2>2
<1>2. PICK i \in InQueue : queue[i].by = w /\ queue' = [queue EXCEPT ![i].by = Nil]
  BY DEF GiveUp, InQueue
<1>3. /\ InQueue' = InQueue /\ queue'[i].by = Nil
      /\ \A j \in InQueue : /\ queue'[j].owner = queue[j].owner /\ queue'[j].kind = queue[j].kind
                            /\ queue'[j].rules = queue[j].rules
      /\ \A j \in InQueue \ {i} : queue'[j] = queue[j]
  BY <1>2, Marked DEF KeepInv, Current, Staged, Typed, TypeOK
<1>4. \A j \in InQueue : queue[j].by # Nil
  BY <1>1 DEF KeepInv, Current, LateOwners
<1>5. /\ UNCHANGED <<policy, settled>> /\ pc'[w] = "idle" /\ overtaken' = overtaken \ {w}
      /\ \A v \in Workers \ {w} : /\ pc'[v] = pc[v] /\ op'[v] = op[v]
                                  /\ read'[v] = read[v] /\ outcome'[v] = outcome[v]
  BY Returned DEF GiveUp, KeepInv, Current, Staged, Typed, Return
<1>6. w # Gateway => (Holds(Gateway)' <=> Holds(Gateway))
  BY DEF GiveUp, Leave, Holds, KeepInv, Current, Staged, Typed, TypeOK, Workers
<1>7. /\ w # Nil /\ Planned(w, queue[i]) /\ pc[w] = "waiting" /\ outcome[w] = "none"
      /\ (Holds(w) <=> ~Wipes(queue[i]))
  BY <1>2, <1>4, HolderWrites DEF KeepInv, Current
<1>8. OneLate'
  BY <1>1, <1>3, <1>4 DEF OneLate
<1>9. RequestsKeep'
  BY <1>3, <1>5 DEF KeepInv, Keeping, RequestsKeep, Kept, Wipes
<1>10. LateBase'
  <2> SUFFICES ASSUME ~Wipes(queue[i]), NEW r \in Routes, r # queue[i].owner,
                      queue[i].kind # "create", policy # Nil
               PROVE  queue[i].rules \cap RulesOf(r) = Own(policy, r)
    BY <1>3, <1>4, <1>5 DEF LateBase, Own, Wipes
  <2>1. CASE w = Gateway
    <3>1. policy \in {read[Gateway], Nil}
      BY <1>1, <1>7, <2>1 DEF KeepInv, Current, ReadsCurrent, Repairing
    <3>2. queue[i].rules = RepairOf(policy)
      BY <1>7, <2>1, <3>1 DEF Planned
    <3>. QED
      BY <3>2, OthersLeft DEF RepairOf, Own
  <2>2. CASE w # Gateway
    <3>1. w \in RouteWorkers /\ queue[i].owner = op[w].route
      BY <1>7, <2>2 DEF Planned, Workers
    <3>2. policy = read[w] /\ op[w] \in AnyCommit
      BY <1>1, <1>7, <3>1, WriteParts DEF KeepInv, Current, Staged, ReadsCurrent, Merging
    <3>3. queue[i].rules = Merged(policy, op[w])
      BY <1>7, <2>2, <3>1, <3>2, WriteParts DEF Planned, KeepInv, Current, Staged
    <3>. QED
      BY <3>1, <3>2, <3>3, OthersLeft DEF Own
  <2>. QED
    BY <2>1, <2>2
<1>11. ReadsKeep'
  <2>1. ASSUME NEW v \in RouteWorkers, Merging(v)'
        PROVE  v # w /\ Merging(v) /\ op'[v] = op[v] /\ read'[v] = read[v]
    BY <1>5, <2>1 DEF Merging, Workers
  <2>2. Repairing' => Repairing /\ read'[Gateway] = read[Gateway]
    BY <1>5, <1>6 DEF Repairing, Workers
  <2>. QED
    BY <1>5, <2>1, <2>2 DEF KeepInv, Keeping, ReadsKeep, Kept, Keeps
<1>12. OwnRead'
  <2>1. ASSUME NEW v \in RouteWorkers, pc'[v] \in {"merging", "waiting"}
        PROVE  v # w /\ pc'[v] = pc[v] /\ op'[v] = op[v] /\ read'[v] = read[v]
               /\ outcome'[v] = outcome[v]
    BY <1>5, <2>1 DEF Workers
  <2>. QED
    BY ZenonT(40), <1>5, <2>1 DEF KeepInv, Keeping, OwnRead, Own
<1>13. CommittedRulesStay'
  BY <1>5 DEF KeepInv, Keeping, CommittedRulesStay
<1>. QED
  BY <1>8, <1>9, <1>10, <1>11, <1>12, <1>13 DEF Keeping

LEMMA GatewayKeep ==
  ASSUME KeepInv,
         GatewaySnapshot \/ EnterReconcile \/ TrustSnapshot \/ NothingToRepair
           \/ Repaired \/ Attach \/ Detach \/ Detached \/ GatewayFails
  PROVE  Keeping'
<1>1. Gateway \in Workers /\ UNCHANGED <<policy, queue, settled, abandoned>>
  BY DEF GatewaySnapshot, EnterReconcile, TrustSnapshot, NothingToRepair, Repaired,
         Attach, Detach, Detached, GatewayFails, oci, Workers
<1>2. /\ \A v \in Workers \ {Gateway} : /\ pc'[v] = pc[v] /\ op'[v] = op[v]
                                        /\ read'[v] = read[v] /\ outcome'[v] = outcome[v]
      /\ overtaken \ {Gateway} \subseteq overtaken'
  BY Returned
  DEF GatewaySnapshot, EnterReconcile, TrustSnapshot, NothingToRepair, Repaired,
      Attach, Detach, Detached, GatewayFails, Move, KeepInv, Current, Staged, Typed, TypeOK,
      Workers, Return
<1>3. ~Repairing'
  <2>1. CASE GatewaySnapshot \/ EnterReconcile \/ TrustSnapshot \/ NothingToRepair \/ Repaired
               \/ Detach
    BY <1>1, <2>1 DEF GatewaySnapshot, EnterReconcile, TrustSnapshot, NothingToRepair, Repaired,
                      Detach, Move, Repairing, KeepInv, Current, Staged, Typed, TypeOK
  <2>2. CASE Attach \/ Detached \/ GatewayFails
    BY <1>1, <2>2, Returned DEF Attach, Detached, GatewayFails, Repairing, KeepInv, Current,
                                Staged, Typed
  <2>. QED
    BY <2>1, <2>2
<1>. QED
  BY <1>1, <1>2, <1>3, KeepQuiet

LEMMA RefreshKeep == ASSUME KeepInv, Refresh PROVE Keeping'
<1>1. /\ UNCHANGED <<policy, queue, settled, abandoned, outcome, op, holder, overtaken>>
      /\ read'[Gateway] = IF policy # Nil THEN policy ELSE read[Gateway]
      /\ \A v \in Workers \ {Gateway} : pc'[v] = pc[v] /\ read'[v] = read[v]
  BY DEF Refresh, Refreshed, Move, oci, Workers, KeepInv, Current, Staged, Typed, TypeOK
<1>2. OneLate' /\ RequestsKeep' /\ LateBase' /\ CommittedRulesStay'
  BY <1>1 DEF KeepInv, Keeping, OneLate, RequestsKeep, LateBase, CommittedRulesStay, Own,
              Kept, Wipes, InQueue
<1>3. ReadsKeep'
  <2>1. ASSUME NEW v \in RouteWorkers, Merging(v)', NEW r \in Routes, r # op[v].route, Kept(r)
        PROVE  read'[v] # Nil /\ settled[r].new \subseteq read'[v]
    BY <1>1, <2>1 DEF KeepInv, Keeping, ReadsKeep, Keeps, Merging, Workers
  <2>2. ASSUME NEW r \in Routes, Kept(r)
        PROVE  read'[Gateway] # Nil /\ settled[r].new \subseteq read'[Gateway]
    BY <1>1, <2>2 DEF KeepInv, Keeping, CommittedRulesStay, Kept
  <2>. QED
    BY <1>1, <2>1, <2>2 DEF ReadsKeep, Kept, Keeps
<1>4. OwnRead'
  <2>1. \A v \in RouteWorkers : pc'[v] = pc[v] /\ read'[v] = read[v]
    BY <1>1 DEF Workers
  <2>. QED
    BY <1>1, <2>1 DEF KeepInv, Keeping, OwnRead, Own
<1>. QED
  BY <1>2, <1>3, <1>4 DEF Keeping

LEMMA GatewaySubmitKeep == ASSUME KeepInv, Repair \/ DeletePolicy PROVE Keeping'
<1>1. /\ pc'[Gateway] = "waiting" /\ \A v \in Workers \ {Gateway} : pc'[v] = pc[v]
      /\ UNCHANGED <<policy, op, read, outcome, holder, settled, abandoned, overtaken>>
  BY DEF Repair, DeletePolicy, Move, KeepInv, Current, Staged, Typed, TypeOK, Workers
<1>2. PICK req \in Requests :
        /\ req.by = Gateway /\ queue' = Append(queue, req)
        /\ Planned(Gateway, req) /\ (Holds(Gateway) \/ Wipes(req))
  BY GatewaySubmits DEF KeepInv, Current
<1>3. req.owner = Gateway /\ (Holds(Gateway) <=> ~Wipes(req)) /\ req.by # Nil
  BY <1>2 DEF Planned
<1>4. Repairing' => Repairing
  BY <1>1 DEF Repair, DeletePolicy, Move, Repairing, Holds, KeepInv, Current, Staged, Locking,
              LockStages
<1>5. ASSUME NEW r \in Routes, Kept(r), ~Wipes(req)
      PROVE  req.kind # "delete" /\ settled[r].new \subseteq req.rules
  <2>1. Repairing
    BY <1>3, <1>5 DEF Repair, DeletePolicy, Move, Repairing, KeepInv, Current, Staged, Locking,
                      LockStages
  <2>2. Keeps(read[Gateway], r)
    BY <1>5, <2>1 DEF KeepInv, Keeping, ReadsKeep
  <2>3. req.kind = "update" /\ req.rules = WithDefault(read[Gateway])
    BY <1>2, <1>3, <1>5, <2>2 DEF Planned, Keeps, RepairOf
  <2>4. settled[r].new \subseteq RulesOf(r)
    BY <1>5, SettledOwn DEF Kept, KeepInv, Current, Staged
  <2>. QED
    BY <2>2, <2>3, <2>4, OthersLeft DEF Keeps
<1>. DEFINE n == Len(queue) + 1
<1>6. /\ n \in InQueue' /\ n \in Nat /\ queue'[n] = req
      /\ \A i \in InQueue : i \in Nat /\ i \in InQueue' /\ queue'[i] = queue[i] /\ i < n
      /\ \A i \in InQueue' : i \in InQueue \/ i = n
  BY <1>2, Appended DEF KeepInv, Current, Staged, Typed, TypeOK
<1>. HIDE DEF n
<1>7. OneLate' /\ LateBase'
  BY <1>1, <1>3, <1>6 DEF KeepInv, Keeping, OneLate, LateBase, Own, Wipes
<1>8. RequestsKeep'
  <2> SUFFICES ASSUME NEW i \in InQueue', ~Wipes(queue'[i]), NEW r \in Routes
               PROVE  /\ r = queue'[i].owner => settled[r] = Nil
                      /\ Kept(r) => queue'[i].kind # "delete" /\ settled[r].new \subseteq queue'[i].rules
    BY <1>1 DEF RequestsKeep, Kept, Wipes
  <2>1. CASE i = n
    BY <1>3, <1>5, <1>6, <2>1
  <2>2. CASE i \in InQueue
    BY <1>6, <2>2 DEF KeepInv, Keeping, RequestsKeep
  <2>. QED
    BY <1>6, <2>1, <2>2
<1>9. ReadsKeep'
  BY <1>1, <1>4 DEF KeepInv, Keeping, ReadsKeep, Kept, Keeps, Merging, Workers
<1>10. OwnRead' /\ CommittedRulesStay'
  BY <1>1 DEF KeepInv, Keeping, OwnRead, Own, CommittedRulesStay, Workers
<1>. QED
  BY <1>7, <1>8, <1>9, <1>10 DEF Keeping

LEMMA RefuseKeep == ASSUME KeepInv, Refuse PROVE Keeping'
<1>1. /\ \A i \in InQueue' : i \in Nat /\ 1 < i + 1 /\ i + 1 \in InQueue /\ queue'[i] = queue[i + 1]
      /\ UNCHANGED <<listener, holder, pc, op, read, abandoned, policy, settled, overtaken>>
      /\ \A v \in Workers : v # queue[1].by => outcome'[v] = outcome[v]
      /\ queue[1].by # Nil => outcome'[queue[1].by] = "failed" /\ outcome[queue[1].by] = "none"
  BY Answered, HolderWrites DEF KeepInv, Current, Staged
<1>2. \A v \in Workers : /\ outcome'[v] = "none" => outcome[v] = "none"
                         /\ outcome'[v] = "succeeded" => outcome[v] = "succeeded"
  BY <1>1 DEF Workers
<1>3. OneLate'
  <2>1. ASSUME NEW i \in InQueue', NEW j \in InQueue', queue'[i].by = Nil, queue'[j].by = Nil
        PROVE  i = j
    <3>1. i + 1 = j + 1
      BY <1>1, <2>1 DEF KeepInv, Keeping, OneLate
    <3>. QED
      BY <1>1, <3>1
  <2>. QED
    BY <1>1, <2>1 DEF KeepInv, Keeping, OneLate
<1>4. RequestsKeep' /\ LateBase'
  BY <1>1 DEF KeepInv, Keeping, RequestsKeep, LateBase, Kept, Own, Wipes
<1>5. ReadsKeep'
  BY <1>1, <1>2 DEF KeepInv, Keeping, ReadsKeep, Merging, Repairing, Holds, Kept, Keeps, Workers
<1>6. OwnRead' /\ CommittedRulesStay'
  BY <1>1, <1>2 DEF KeepInv, Keeping, OwnRead, Own, CommittedRulesStay, Workers
<1>. QED
  BY <1>3, <1>4, <1>5, <1>6 DEF Keeping

\* OCI carries out a deletion of the Gateway: nobody is told that its rules stay.
LEMMA WipeKeep == ASSUME KeepInv, CarryOut, Wipes(queue[1]) PROVE Keeping'
<1>1. /\ \A i \in InQueue' : i \in Nat /\ 1 < i + 1 /\ i + 1 \in InQueue /\ queue'[i] = queue[i + 1]
      /\ UNCHANGED <<pc, op, abandoned>>
      /\ policy' = Nil /\ settled' = [r \in Routes |-> Nil]
      /\ overtaken' = overtaken \cup Overtakes(queue[1])
  BY Answered DEF KeepInv, Current, Staged, Wipes
<1>2. \A r \in Routes : settled'[r] = Nil
  BY <1>1
<1>3. OneLate'
  <2>1. ASSUME NEW i \in InQueue', NEW j \in InQueue', queue'[i].by = Nil, queue'[j].by = Nil
        PROVE  i = j
    <3>1. i + 1 = j + 1
      BY <1>1, <2>1 DEF KeepInv, Keeping, OneLate
    <3>. QED
      BY <1>1, <3>1
  <2>. QED
    BY <1>1, <2>1 DEF KeepInv, Keeping, OneLate
<1>4. RequestsKeep' /\ ReadsKeep' /\ LateBase' /\ CommittedRulesStay'
  BY <1>1, <1>2 DEF RequestsKeep, ReadsKeep, LateBase, CommittedRulesStay, Kept
<1>5. OwnRead'
  <2>1. ASSUME NEW w \in RouteWorkers, pc[w] # "idle" PROVE w \in overtaken'
    <3>1. op[w] \in AnyCommit /\ op[w] # Nil
      BY <2>1, WriteParts DEF KeepInv, Current, Staged
    <3>. QED
      BY <1>1, <3>1 DEF Overtakes
  <2>. QED
    BY <1>1, <2>1 DEF OwnRead
<1>. QED
  BY <1>3, <1>4, <1>5 DEF Keeping

LEMMA CarryOutKeep == ASSUME KeepInv, CarryOut, ~Wipes(queue[1]) PROVE Keeping'
<1>. DEFINE req == queue[1]
<1>1. /\ 1 \in InQueue /\ req \in Requests
      /\ \A i \in InQueue' : i \in Nat /\ 1 < i + 1 /\ i + 1 \in InQueue /\ queue'[i] = queue[i + 1]
      /\ UNCHANGED <<listener, holder, pc, op, read, abandoned, settled>>
      /\ \A v \in Workers : v # req.by => outcome'[v] = outcome[v]
      /\ req.by # Nil => outcome'[req.by] = "succeeded"
      /\ Applicable(req)
      /\ policy' = IF req.kind = "delete" THEN Nil ELSE req.rules
      /\ overtaken' = overtaken \cup Overtakes(req)
  BY Answered DEF KeepInv, Current, Staged
<1>2. Listed(req) /\ (req.kind # "delete" => req.rules # Nil)
  BY <1>1 DEF KeepInv, Current, Staged, Typed, RequestsListed, Listed
<1>3. req.by # Nil =>
        /\ req.by \in Workers /\ Holds(req.by) /\ Planned(req.by, req)
        /\ pc[req.by] = "waiting" /\ outcome[req.by] = "none"
  BY <1>1, HolderWrites DEF KeepInv, Current
<1>4. \A v \in Workers : outcome'[v] = "none" => outcome[v] = "none"
  BY <1>1 DEF Workers
<1>5. OneLate'
  <2>1. ASSUME NEW i \in InQueue', NEW j \in InQueue', queue'[i].by = Nil, queue'[j].by = Nil
        PROVE  i = j
    <3>1. i + 1 = j + 1
      BY <1>1, <2>1 DEF KeepInv, Keeping, OneLate
    <3>. QED
      BY <1>1, <3>1
  <2>. QED
    BY <1>1, <2>1 DEF KeepInv, Keeping, OneLate
<1>6. RequestsKeep'
  BY <1>1 DEF KeepInv, Keeping, RequestsKeep, Kept, Wipes
<1>7. ReadsKeep'
  BY <1>1, <1>4 DEF KeepInv, Keeping, ReadsKeep, Merging, Repairing, Holds, Kept, Keeps, Workers
<1>8. LateBase'
  <2>1. ASSUME NEW i \in InQueue', queue'[i].by = Nil, ~Wipes(queue'[i]) PROVE FALSE
    <3>1. /\ i + 1 \in InQueue /\ 1 < i + 1 /\ queue[i + 1].by = Nil /\ ~Wipes(queue[i + 1])
          /\ i + 1 # 1
      BY <1>1, <2>1
    <3>2. req.by = Nil
      BY <1>1, <3>1 DEF KeepInv, Current, Staged, Queued, InOrder
    <3>. QED
      BY <1>1, <3>1, <3>2 DEF KeepInv, Keeping, OneLate
  <2>. QED
    BY <2>1 DEF LateBase, Wipes
<1>9. CommittedRulesStay'
  BY <1>1, <1>2 DEF KeepInv, Keeping, RequestsKeep, Kept, CommittedRulesStay
<1>10. OwnRead'
  <2> SUFFICES ASSUME NEW w \in RouteWorkers \ overtaken'
               PROVE  /\ pc[w] = "merging" => Own(policy', op[w].route) = Own(read[w], op[w].route)
                      /\ pc[w] = "waiting" /\ outcome'[w] = "succeeded" /\ op[w].new # {} =>
                           policy' # Nil /\ op[w].new \subseteq policy'
    BY <1>1 DEF OwnRead, Own
  <2>0. /\ w \in Workers /\ w # Gateway /\ w \notin overtaken /\ w \notin Overtakes(req)
        /\ (pc[w] \in {"merging", "waiting"} => Holds(w))
    BY <1>1 DEF Workers, KeepInv, Current, Staged, Locking, LockStages, CanHold
  <2>1. CASE req.by # Nil
    <3>1. Holds(w) => w = req.by
      BY <1>3, <2>1 DEF Holds
    <3>2. pc[w] # "merging"
      BY <1>3, <2>0, <2>1, <3>1
    <3>3. ASSUME pc[w] = "waiting", op[w].new # {}
          PROVE  policy' # Nil /\ op[w].new \subseteq policy'
      <4>1. req.kind = WriteOf(w).kind /\ req.rules = WriteOf(w).rules
        BY <1>3, <2>0, <2>1, <3>1, <3>3 DEF Planned
      <4>2. op[w].new \subseteq req.rules
        BY <4>1 DEF WriteOf, Merged
      <4>3. req.kind # "delete"
        BY <3>3, <4>2, <1>2 DEF Listed
      <4>. QED
        BY <1>1, <1>2, <4>2, <4>3
    <3>. QED
      BY <3>2, <3>3
  <2>2. CASE req.by = Nil
    <3>1. ASSUME pc[w] = "merging"
          PROVE  Own(policy', op[w].route) = Own(read[w], op[w].route)
      <4>. DEFINE r == op[w].route
      <4>1. /\ op[w] \in AnyCommit /\ r \in Routes
        BY <3>1, WriteParts DEF KeepInv, Current, Staged
      <4>2. op[w] # Nil
        BY <4>1
      <4>3. r # req.owner
        BY <2>0, <2>2, <4>2 DEF Overtakes
      <4>4. Own(policy, r) = Own(read[w], r)
        BY <2>0, <3>1 DEF KeepInv, Keeping, OwnRead
      <4>. HIDE DEF r
      <4>5. Own(policy', r) = req.rules \cap RulesOf(r)
        BY <1>1, <1>2 DEF Own, Listed
      <4>6. CASE policy = Nil \/ req.kind = "create"
        <5>1. req.kind = "create" /\ policy = Nil
          BY <1>1, <4>6 DEF Applicable, Requests
        <5>2. req.rules \subseteq RulesOf(req.owner) /\ RulesOf(req.owner) \cap RulesOf(r) = {}
          BY <1>2, <4>3, <5>1 DEF Listed, RulesOf
        <5>3. Own(policy', r) = Own(policy, r)
          BY <4>5, <5>1, <5>2 DEF Own
        <5>. QED
          BY <4>4, <5>3 DEF r
      <4>7. CASE ~(policy = Nil \/ req.kind = "create")
        <5>1. req.rules \cap RulesOf(r) = Own(policy, r)
          BY <1>1, <2>2, <4>1, <4>3, <4>7 DEF KeepInv, Keeping, LateBase
        <5>. QED
          BY <4>4, <4>5, <5>1 DEF r
      <4>. QED
        BY <4>6, <4>7
    <3>2. ~(pc[w] = "waiting" /\ outcome'[w] = "succeeded")
      <4>1. outcome'[w] = outcome[w]
        BY <1>1, <2>0, <2>2 DEF Workers
      <4>. QED
        BY <1>1, <2>0, <4>1 DEF KeepInv, Current, Staged, Queued, AnsweredLast
    <3>. QED
      BY <3>1, <3>2
  <2>. QED
    BY <2>1, <2>2
<1>. QED
  BY <1>5, <1>6, <1>7, <1>8, <1>9, <1>10 DEF Keeping

LEMMA NextKeep == MaxLate <= 1 => (KeepInv /\ [Next]_vars => KeepInv')
<1> SUFFICES ASSUME MaxLate <= 1, KeepInv, [Next]_vars PROVE Keeping'
  BY NextCurrent DEF KeepInv
<1>1. ASSUME NEW w \in RouteWorkers, Commit(w) \/ CommitStep(w) PROVE Keeping'
  <2>1. CASE op[w] # Nil /\ GiveUp(w, op[w].route)
    <3>1. op[w] \in AnyCommit
      BY <2>1 DEF KeepInv, Current, Staged, Typed, TypeOK, Workers
    <3>. QED
      BY <2>1, <3>1, CommitParts, GiveUpKeep DEF Owners, Workers
  <2>. QED
    BY <1>1, <2>1, RouteKeep, GetPolicyKeep, SettleKeep, WriteCommitKeep DEF CommitStep
<1>2. CASE GatewaySnapshot
  BY <1>2, GatewayKeep
<1>3. CASE GatewayStep
  BY <1>3, GatewayKeep, RefreshKeep, GatewaySubmitKeep, GiveUpKeep DEF GatewayStep, Workers, Owners
<1>4. CASE CarryOut \/ Refuse
  BY <1>4, WipeKeep, CarryOutKeep, RefuseKeep
<1>5. CASE UNCHANGED vars
  <2>1. OneLate' /\ RequestsKeep' /\ ReadsKeep' /\ LateBase' /\ CommittedRulesStay'
    BY <1>5 DEF vars, oci, KeepInv, Keeping, OneLate, RequestsKeep, ReadsKeep, LateBase,
                CommittedRulesStay, Own, Kept, Keeps, Wipes, Merging, Repairing, Holds, InQueue
  <2>2. OwnRead'
    BY <1>5 DEF vars, oci, KeepInv, Keeping, OwnRead, Own
  <2>. QED
    BY <2>1, <2>2 DEF Keeping
<1>. QED
  BY <1>1, <1>2, <1>3, <1>4, <1>5 DEF Next

\* The rules that a route was told are in the policy stay there until the route writes
\* again or the Gateway deletes the policy, if one owner at most ever gives up waiting and
\* leaves its write to OCI (commitRoutingPolicy).  With two, TLC shows that they can be lost.
THEOREM CommittedRulesStayHolds ==
  ASSUME MaxLate <= 1
  PROVE  Spec => []CommittedRulesStay
<1>1. KeepInv => CommittedRulesStay
  BY DEF KeepInv, Keeping
<1>2. KeepInv /\ [Next]_vars => KeepInv'
  BY NextKeep
<1>. QED
  BY <1>1, <1>2, InitKeep, PTL DEF Spec
=============================================================================
