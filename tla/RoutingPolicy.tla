----------------------------- MODULE RoutingPolicy -----------------------------
(***************************************************************************)
(* One listener's OCI routing policy and everyone who writes it            *)
(* (oci_load_balancer_model.go).  The policy is one list of rules that OCI *)
(* replaces as a whole; the HTTPRoutes and GRPCRoutes attached to the      *)
(* listener own some of its rules and the Gateway owns the default rule.   *)
(*                                                                         *)
(*   - a route commits its rules (commitRoutingPolicy): under the policy's *)
(*     lock it reads the policy, replaces and removes its own rules in     *)
(*     what it read, and writes the whole list back;                       *)
(*   - the Gateway, from a snapshot of the load balancer it took before    *)
(*     the lock, creates the policy or repairs its default rule under the  *)
(*     lock (reconcileListenerRoutingPolicy), and creates the listener;    *)
(*   - the Gateway deletes the listener and its policy, or an orphaned     *)
(*     policy, without the lock (removeMissingListeners).                  *)
(*                                                                         *)
(* A write returns a work request that the writer then waits for.  The     *)
(* wait may end before the work does: the watcher returns on its deadline  *)
(* and on the first error reading the request's state.  The write is then  *)
(* still queued at OCI while its writer reports an error and retries.      *)
(***************************************************************************)
EXTENDS Naturals, Sequences, FiniteSets

CONSTANTS
  Routes,       \* HTTPRoutes and GRPCRoutes attached to the listener
  RouteWorkers, \* the route controllers, which each run one reconcile at a time
  Reconciles,   \* route controller -> the routes of its kind
  Gateway,      \* the Gateway controller, and the owner of the default rule
  Indexes,      \* positions of rules in a route
  Backends,     \* what a rule forwards to
  DefaultBackend, \* the Gateway's default backend set
  MaxLate,      \* bound: the owners that may give up on a work request
  Nil

ASSUME RoutingPolicyAssumption ==
  /\ Reconciles \in [RouteWorkers -> SUBSET Routes]
  /\ \A w1, w2 \in RouteWorkers : w1 # w2 => Reconciles[w1] \cap Reconciles[w2] = {}
  /\ Gateway \notin Routes \cup RouteWorkers
  /\ DefaultBackend \in Backends
  /\ Indexes # {}
  /\ MaxLate \in Nat
  /\ Nil \notin RouteWorkers \cup Routes \cup {Gateway}

VARIABLES
  policy,    \* at OCI: the set of the policy's rules, or Nil if there is no policy
  listener,  \* at OCI: whether the listener, which refers to the policy, exists
  queue,     \* at OCI: the accepted work requests, in order
  outcome,   \* worker -> what became of the request it waits for
  holder,    \* the lock of the policy
  pc,        \* worker -> where it is
  op,        \* worker -> the commit it was called for, or Nil
  read,      \* worker -> the policy as the worker last read it
  attached,  \* the listener as the Gateway's snapshot has it
  settled,   \* history: route -> the last commit it was told succeeded, or Nil
  ready,     \* history: the Gateway has programmed the listener
  overtaken, \* history: the workers whose commit raced with a late request of its
             \* own route or the Gateway's deletion of the policy
  abandoned  \* history: the owners that gave up waiting for a request

oci == <<policy, listener, queue>>
vars == <<policy, listener, queue, outcome, holder, pc, op, read, attached,
          settled, ready, overtaken, abandoned>>

----------------------------------------------------------------------------
Workers == RouteWorkers \cup {Gateway}
Owners == Routes \cup {Gateway}
PolicyKey == "policy"

Names == Owners \X Indexes
Rule == [name : Names, backend : Backends]
RulesOf(r) == {rule \in Rule : rule.name[1] = r}
NamesOf(rules) == {rule.name : rule \in rules}
OneRulePerName(rules) == \A x, y \in rules : x.name = y.name => x = y

DefaultName == <<Gateway, CHOOSE i \in Indexes : TRUE>>
DefaultRule(b) == [name |-> DefaultName, backend |-> b]

RuleLists == {p \in SUBSET Rule : OneRulePerName(p) /\ p # {}}
Policies == RuleLists \cup {Nil}
\* A commit of route r: the rules it wants, and the names it removes.
Commits(r) ==
  {c \in [route : {r}, new : SUBSET RulesOf(r), gone : SUBSET NamesOf(RulesOf(r))] :
     /\ OneRulePerName(c.new)
     /\ NamesOf(c.new) \cap c.gone = {}
     /\ NamesOf(c.new) \cup c.gone # {}}
AnyCommit == UNION {Commits(r) : r \in Routes}

ASSUME NilAssumption == \A x \in RuleLists \cup AnyCommit : x # Nil

Requests ==
  [by : Workers \cup {Nil}, owner : Owners, kind : {"create", "update", "delete"},
   rules : SUBSET Rule]
Stages ==
  {"idle", "locking", "reading", "merging", "waiting",
   "checking", "repairing", "attaching", "detaching", "deleting"}

TypeOK ==
  /\ policy \in Policies
  /\ listener \in BOOLEAN
  /\ queue \in Seq(Requests)
  /\ outcome \in [Workers -> {"none", "succeeded", "failed"}]
  /\ holder \in [{PolicyKey} -> Workers \cup {Nil}]
  /\ pc \in [Workers -> Stages]
  /\ op \in [Workers -> AnyCommit \cup {Nil}]
  /\ read \in [Workers -> Policies]
  /\ attached \in BOOLEAN
  /\ settled \in [Routes -> AnyCommit \cup {Nil}]
  /\ \A r \in Routes : settled[r] # Nil => settled[r].route = r
  /\ ready \in BOOLEAN
  /\ overtaken \subseteq RouteWorkers
  /\ abandoned \subseteq Owners

\* The policy's lock is one of KeyedLocks, which implements KeyedMutex.
Mutex == INSTANCE KeyedMutex WITH Keys <- {PolicyKey}

\* A policy is found with a good or a drifted default rule, or not at all.
Init ==
  /\ policy \in {Nil} \cup {{DefaultRule(b)} : b \in Backends}
  /\ listener \in BOOLEAN /\ (listener => policy # Nil)
  /\ queue = <<>>
  /\ outcome = [w \in Workers |-> "none"]
  /\ Mutex!Init
  /\ pc = [w \in Workers |-> "idle"]
  /\ op = [w \in Workers |-> Nil]
  /\ read = [w \in Workers |-> Nil]
  /\ attached = FALSE
  /\ settled = [r \in Routes |-> Nil]
  /\ ready = FALSE
  /\ overtaken = {}
  /\ abandoned = {}

----------------------------------------------------------------------------
(***************************************************************************)
(* What the writers compute from what they read.  DefaultTrusted,          *)
(* MergedAppending, SnapshotTrusted and EnterUnlocked are not part of the  *)
(* specification: each is what a bug would make of the operator after it.  *)
(***************************************************************************)

\* The policy p with the rules of commit c replaced and removed.
MergedAppending(p, c) == {rule \in p : rule.name \notin c.gone} \cup c.new
Merged(p, c) ==
  {rule \in p : rule.name \notin c.gone \cup NamesOf(c.new)} \cup c.new

WithDefault(p) ==
  {rule \in p : rule.name # DefaultName} \cup {DefaultRule(DefaultBackend)}

DefaultTrusted(p) == DefaultName \notin NamesOf(p)
Drifted(p) == DefaultRule(DefaultBackend) \notin p

\* The policy as the Gateway reads it again under the lock; what it had in its
\* snapshot stands when the policy is gone.
SnapshotTrusted == IF read[Gateway] # Nil THEN read[Gateway] ELSE policy
Refreshed == IF policy # Nil THEN policy ELSE read[Gateway]

EnterUnlocked(w) == UNCHANGED holder
Enter(w) == Mutex!Enter(w, PolicyKey)
Leave == holder' = [holder EXCEPT ![PolicyKey] = Nil]

Move(w, from, to) == pc[w] = from /\ pc' = [pc EXCEPT ![w] = to]

\* The worker's call returns, with or without an error.
Return(w) ==
  /\ pc' = [pc EXCEPT ![w] = "idle"]
  /\ op' = [op EXCEPT ![w] = Nil]
  /\ read' = [read EXCEPT ![w] = Nil]
  /\ outcome' = [outcome EXCEPT ![w] = "none"]
  /\ overtaken' = overtaken \ {w}

\* OCI creates no policy that exists, writes or deletes none that does not, and
\* deletes none that a listener refers to.
Applicable(req) ==
  CASE req.kind = "create" -> policy = Nil
    [] req.kind = "update" -> policy # Nil
    [] req.kind = "delete" -> policy # Nil /\ ~listener

\* OCI accepts a write it could carry out now, and answers with a work request.
Submit(w, owner, kind, rules) ==
  LET req == [by |-> w, owner |-> owner, kind |-> kind, rules |-> rules]
  IN Applicable(req) /\ queue' = Append(queue, req)

\* A caller learns that its commit succeeded.  It is no promise when the commit
\* was overtaken, or a request that outlived its wait is still queued.
Settle(w) ==
  settled' = IF w \in overtaken \/ \E i \in DOMAIN queue : queue[i].by = Nil
             THEN settled
             ELSE [settled EXCEPT ![op[w].route] = op[w]]

----------------------------------------------------------------------------
\* A route controller commits the route's rules and removes the names that the
\* route has on record (prevPolicyRules) and that are not among them.
Commit(w) ==
  /\ Move(w, "idle", "locking")
  /\ \E r \in Reconciles[w] : \E c \in Commits(r) : op' = [op EXCEPT ![w] = c]
  /\ UNCHANGED <<oci, outcome, holder, read, attached, settled, ready, overtaken, abandoned>>

EnterCommit(w) ==
  /\ Move(w, "locking", "reading")
  /\ Enter(w)
  /\ UNCHANGED <<oci, outcome, op, read, attached, settled, ready, overtaken, abandoned>>

GetPolicy(w) ==
  /\ Move(w, "reading", "merging")
  /\ read' = [read EXCEPT ![w] = policy]
  /\ UNCHANGED <<oci, outcome, holder, op, attached, settled, ready, overtaken, abandoned>>

\* The write the commit comes to: it creates a missing policy from its own rules
\* and deletes one it leaves without a rule.
WriteOf(w) ==
  LET c == op[w]
      merged == IF read[w] = Nil THEN c.new ELSE Merged(read[w], c)
  IN [kind |-> IF read[w] = Nil THEN "create" ELSE IF merged = {} THEN "delete" ELSE "update",
      rules |-> merged]

\* Nothing to write: the policy is as it should be.
UpToDate(w) == WriteOf(w).rules = IF read[w] = Nil THEN {} ELSE read[w]

SkipCommit(w) ==
  /\ pc[w] = "merging"
  /\ UpToDate(w)
  /\ Settle(w)
  /\ Leave
  /\ Return(w)
  /\ UNCHANGED <<oci, attached, ready, abandoned>>

WriteCommit(w) ==
  /\ Move(w, "merging", "waiting")
  /\ ~UpToDate(w)
  /\ Submit(w, op[w].route, WriteOf(w).kind, WriteOf(w).rules)
  /\ settled' = [settled EXCEPT ![op[w].route] = Nil]
  /\ UNCHANGED <<policy, listener, outcome, holder, op, read, attached, ready,
                 overtaken, abandoned>>

CommitSucceeds(w) ==
  /\ pc[w] = "waiting"
  /\ outcome[w] = "succeeded"
  /\ Settle(w)
  /\ Leave
  /\ Return(w)
  /\ UNCHANGED <<oci, attached, ready, abandoned>>

\* OCI refuses the read or the write, or its work request fails.
CommitFails(w) ==
  /\ pc[w] \in {"reading", "merging"} \/ outcome[w] = "failed"
  /\ Leave
  /\ Return(w)
  /\ UNCHANGED <<oci, attached, settled, ready, abandoned>>

\* The wait ends before the work request does.  (Once for each owner.)
GiveUp(w, owner) ==
  /\ owner \notin abandoned
  /\ Cardinality(abandoned) < MaxLate
  /\ abandoned' = abandoned \cup {owner}
  /\ pc[w] = "waiting"
  /\ \E i \in DOMAIN queue :
       /\ queue[i].by = w
       /\ queue' = [queue EXCEPT ![i].by = Nil]
  /\ IF holder[PolicyKey] = w THEN Leave ELSE UNCHANGED holder
  /\ Return(w)
  /\ attached' = IF w = Gateway THEN FALSE ELSE attached
  /\ UNCHANGED <<policy, listener, settled, ready>>

CommitStep(w) ==
  \/ EnterCommit(w) \/ GetPolicy(w) \/ SkipCommit(w) \/ WriteCommit(w)
  \/ CommitSucceeds(w) \/ CommitFails(w)
  \/ op[w] # Nil /\ GiveUp(w, op[w].route)

----------------------------------------------------------------------------
\* programGateway and deprovisionGateway: the Gateway takes a snapshot of the
\* load balancer, and then either wants the listener or does not.
GatewaySnapshot ==
  /\ read' = [read EXCEPT ![Gateway] = policy]
  /\ attached' = listener
  /\ Move(Gateway, "idle", "locking") \/ Move(Gateway, "idle", "detaching")
  /\ ready' = (ready /\ pc'[Gateway] = "locking")
  /\ UNCHANGED <<oci, outcome, holder, op, settled, overtaken, abandoned>>

EnterReconcile ==
  /\ Move(Gateway, "locking", "checking")
  /\ Enter(Gateway)
  /\ UNCHANGED <<oci, outcome, op, read, attached, settled, ready, overtaken, abandoned>>

\* reconcileListenerRoutingPolicyLocked trusts a snapshot whose default rule is good.
SnapshotGood == read[Gateway] # Nil /\ ~Drifted(read[Gateway])

TrustSnapshot ==
  /\ Move(Gateway, "checking", "attaching")
  /\ SnapshotGood
  /\ Leave
  /\ UNCHANGED <<oci, outcome, op, read, attached, settled, ready, overtaken, abandoned>>

Refresh ==
  /\ Move(Gateway, "checking", "repairing")
  /\ ~SnapshotGood
  /\ read' = [read EXCEPT ![Gateway] = Refreshed]
  /\ UNCHANGED <<oci, outcome, holder, op, attached, settled, ready, overtaken, abandoned>>

NothingToRepair ==
  /\ Move(Gateway, "repairing", "attaching")
  /\ SnapshotGood
  /\ Leave
  /\ UNCHANGED <<oci, outcome, op, read, attached, settled, ready, overtaken, abandoned>>

\* createListenerRoutingPolicy or updateListenerRoutingPolicyDefaultRule
Repair ==
  /\ Move(Gateway, "repairing", "waiting")
  /\ ~SnapshotGood
  /\ IF read[Gateway] = Nil
     THEN Submit(Gateway, Gateway, "create", WithDefault({}))
     ELSE Submit(Gateway, Gateway, "update", WithDefault(read[Gateway]))
  /\ UNCHANGED <<policy, listener, outcome, holder, op, read, attached,
                 settled, ready, overtaken, abandoned>>

Repaired ==
  /\ Move(Gateway, "waiting", "attaching")
  /\ holder[PolicyKey] = Gateway
  /\ outcome[Gateway] = "succeeded"
  /\ outcome' = [outcome EXCEPT ![Gateway] = "none"]
  /\ Leave
  /\ UNCHANGED <<oci, op, read, attached, settled, ready, overtaken, abandoned>>

\* reconcileExistingHTTPListener or createHTTPListener, which OCI refuses while
\* the policy it names is missing.
Attach ==
  /\ pc[Gateway] = "attaching"
  /\ attached \/ policy # Nil
  /\ listener' = TRUE
  /\ ready' = TRUE
  /\ Return(Gateway)
  /\ attached' = FALSE
  /\ UNCHANGED <<policy, queue, holder, settled, abandoned>>

\* deleteMissingListener, for a listener of the snapshot.
Detach ==
  /\ Move(Gateway, "detaching", "deleting")
  /\ attached
  /\ listener' = FALSE
  /\ UNCHANGED <<policy, queue, outcome, holder, op, read, attached,
                 settled, ready, overtaken, abandoned>>

\* shouldRemoveOrphanedListenerRoutingPolicy, by the snapshot.
Orphaned ==
  /\ ~attached
  /\ read[Gateway] # Nil
  /\ NamesOf(read[Gateway]) = {DefaultName}

\* deleteMissingRoutingPolicy, without the lock: after the listener, or for an orphan.
DeletePolicy ==
  /\ \/ Move(Gateway, "deleting", "waiting")
     \/ Orphaned /\ Move(Gateway, "detaching", "waiting")
  /\ Submit(Gateway, Gateway, "delete", {})
  /\ UNCHANGED <<policy, listener, outcome, holder, op, read, attached,
                 settled, ready, overtaken, abandoned>>

\* Nothing of this listener is left to delete, or the policy is deleted.
Detached ==
  /\ \/ pc[Gateway] = "detaching" /\ ~attached /\ ~Orphaned
     \/ holder[PolicyKey] # Gateway /\ outcome[Gateway] = "succeeded"
  /\ Return(Gateway)
  /\ attached' = FALSE
  /\ UNCHANGED <<oci, holder, settled, ready, abandoned>>

\* OCI refuses a call of the Gateway, or its work request fails.
GatewayFails ==
  /\ \/ pc[Gateway] \in {"checking", "repairing", "attaching", "detaching", "deleting"}
     \/ outcome[Gateway] = "failed"
  /\ IF holder[PolicyKey] = Gateway THEN Leave ELSE UNCHANGED holder
  /\ Return(Gateway)
  /\ attached' = FALSE
  /\ UNCHANGED <<oci, settled, ready, abandoned>>

GatewayStep ==
  \/ EnterReconcile \/ TrustSnapshot \/ Refresh \/ NothingToRepair \/ Repair
  \/ Repaired \/ Attach \/ Detach \/ DeletePolicy \/ Detached \/ GatewayFails
  \/ GiveUp(Gateway, Gateway)

----------------------------------------------------------------------------
(***************************************************************************)
(* OCI carries out the work requests of a load balancer in the order it    *)
(* accepted them.  A request that is not applicable any more fails, and so *)
(* may any other.                                                          *)
(***************************************************************************)
Answer(result) ==
  /\ queue' = Tail(queue)
  /\ outcome' = IF Head(queue).by = Nil THEN outcome
                ELSE [outcome EXCEPT ![Head(queue).by] = result]
  /\ UNCHANGED <<listener, holder, pc, op, read, attached, ready, abandoned>>

\* The Gateway's deletion takes every route's rules with it.
Wipes(req) == req.owner = Gateway /\ req.kind = "delete"
Overtakes(req) ==
  {w \in RouteWorkers :
     op[w] # Nil /\ (Wipes(req) \/ (req.by = Nil /\ req.owner = op[w].route))}

CarryOut ==
  /\ queue # <<>>
  /\ Applicable(Head(queue))
  /\ policy' = IF Head(queue).kind = "delete" THEN Nil ELSE Head(queue).rules
  /\ settled' = IF Wipes(Head(queue)) THEN [r \in Routes |-> Nil] ELSE settled
  /\ overtaken' = overtaken \cup Overtakes(Head(queue))
  /\ Answer("succeeded")

Refuse ==
  /\ queue # <<>>
  /\ UNCHANGED <<policy, settled, overtaken>>
  /\ Answer("failed")

Next ==
  \/ \E w \in RouteWorkers : Commit(w) \/ CommitStep(w)
  \/ GatewaySnapshot \/ GatewayStep
  \/ CarryOut \/ Refuse

Spec == Init /\ [][Next]_vars

----------------------------------------------------------------------------
\* The rules of a commit whose success was reported stay in the policy, whatever
\* the other routes and the Gateway write since, requests of theirs that OCI
\* completes late included, until the route writes again or the Gateway deletes
\* the policy.
CommittedRulesStay ==
  \A r \in Routes :
    settled[r] # Nil /\ settled[r].new # {} => policy # Nil /\ settled[r].new \subseteq policy

\* The names it removed, or an older version of a rule it replaced, do not come
\* back: no one writes back a policy read before the commit.  (With a late request
\* the Gateway can: see the README.)
RemovedRulesStayGone ==
  \A r \in Routes :
    settled[r] # Nil /\ policy # Nil /\ abandoned = {} =>
      \A rule \in policy \ settled[r].new :
        rule.name \notin settled[r].gone \cup NamesOf(settled[r].new)

\* A listener that the Gateway reported programmed has a policy with the Gateway's
\* own default rule, even after routes created, emptied or rewrote the policy.
\* (A Gateway that gave up on a write is not covered: its next reconcile may
\* trust a snapshot that a route's older read then overwrites.)
DefaultRuleServed ==
  ready /\ Gateway \notin abandoned =>
    listener /\ policy # Nil /\ DefaultRule(DefaultBackend) \in policy

\* As long as no one gives up waiting, reading and writing back is atomic: a
\* write that OCI carries out is computed from the policy it replaces.
WritesAreAtomic ==
  [][abandoned = {} /\ policy' # policy /\ Head(queue).kind = "update" =>
       \/ Head(queue).owner = Gateway /\ policy' = WithDefault(policy)
       \/ \E w \in RouteWorkers :
            Head(queue).by = w /\ policy' = Merged(policy, op[w])]_vars

=============================================================================
