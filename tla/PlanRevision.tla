----------------------------- MODULE PlanRevision -----------------------------
(* The plan of a goal and who may change it (goal_ownership.py, delegation.py):  *)
(* one coordinator at a time, of a version that every handoff raises, proposes   *)
(* revisions of the plan and commits them, perhaps much later and after others.  *)
(* Every operation is one transaction on the goal's ownership file.             *)
EXTENDS Lifecycle, PathScope, FiniteSets

CONSTANTS
  Coord, NoCoord,
  Proposal,
  Plan,        \* the plans coordinators come up with
  Autonomy,    \* the scopes of autonomy the upper level may set
  Grant,       \* the grants it may make
  GivenContract,  \* the contracts claim may be given; Unlimited says none
  MaxVersion, MaxRevision  \* bounds: handoffs, committed revisions

Omitted == -1
Unlimited == [budget |-> Omitted, must |-> {}, gates |-> {}, allow |-> {}]

ASSUME RevisionAssumption ==
  /\ NoCoord \notin Coord /\ Unlimited \in GivenContract
  /\ MaxVersion \in Nat /\ MaxRevision \in Nat

VARIABLES
  ownership,   \* coordinator_id and version
  plan,        \* the plan in force
  revision,    \* plan_revision
  contract,    \* goal_contract
  autonomy,
  proposals
rvars == <<ownership, plan, revision, contract, autonomy, proposals>>

\* A plan: its tasks with status, assignee and attempt; its budget; and what each of
\* its places that state a list says of must and must_not, of gates and of allowed
\* ranges: "boundaries" (the plan's, or its goal's where it has none), "plan", "goal"
\* and others.  The ranges of its tasks are kept apart.
EmptyPlan == [tasks |-> <<>>, budget |-> Omitted, must |-> <<>>, gates |-> <<>>,
              allow |-> <<>>, taskAllow |-> {}]
NoProposal == [status |-> "none", who |-> NoCoord, version |-> 0, plan |-> EmptyPlan]
Undeclared == [mode |-> "undeclared", plan |-> TRUE, rework |-> TRUE, reassign |-> TRUE]

RevInit ==
  /\ ownership = [who |-> NoCoord, version |-> 0]
  /\ plan = EmptyPlan /\ revision = 0
  /\ contract = Unlimited /\ autonomy = Undeclared
  /\ proposals = [p \in Proposal |-> NoProposal]

----------------------------------------------------------------------------
(* Legality of a plan.                                                         *)

ActiveTask == {"running", "awaiting_decision", "review", "cancel_requested"}
NewTaskStatus == {"queued", "blocked"}
Tasks(p) == DOMAIN p.tasks
Both(old, new) == Tasks(old) \cap Tasks(new)

\* A task that is active stays in the plan, a new one is not started, and the others
\* move along the lifecycle of tasks.
LifecycleKept(old, new) ==
  /\ \A t \in Tasks(old) \ Tasks(new) : old.tasks[t].status \notin ActiveTask
  /\ \A t \in Tasks(new) \ Tasks(old) : new.tasks[t].status \in NewTaskStatus
  /\ \A t \in Both(old, new) : TaskMay(old.tasks[t].status, new.tasks[t].status)

\* Numeric limits may be tightened, never set anew.
BudgetKept(new, ceiling) ==
  new.budget # Omitted => ceiling.budget # Omitted /\ new.budget <= ceiling.budget
\* Wherever a list of required things is stated again it is whole.
GatesKept(new, ceiling) ==
  /\ \A place \in DOMAIN new.must : ceiling.must \subseteq new.must[place]
  /\ \A place \in DOMAIN new.gates : ceiling.gates \subseteq new.gates[place]
\* _auth_sources: the lists of the plan and those of its tasks.
AllowRanges(p) == UNION {p.allow[place] : place \in DOMAIN p.allow} \cup UNION p.taskAllow
RangesKept(new, ceiling) ==
  \A item \in AllowRanges(new) : AllowItemCovered(item, ceiling.allow)

\* extract_goal_contract: the boundaries, and of gates and ranges what the plan or its
\* goal says where the boundaries are silent.  It is the ceiling when there is no contract.
Said(list, place) == IF place \in DOMAIN list THEN list[place] ELSE {}
Foremost(list) ==
  Said(list, IF "boundaries" \in DOMAIN list THEN "boundaries"
             ELSE IF "plan" \in DOMAIN list THEN "plan" ELSE "goal")
ContractOf(p) == [budget |-> p.budget, must |-> Said(p.must, "boundaries"),
                  gates |-> Foremost(p.gates), allow |-> Foremost(p.allow)]
Ceiling(current, c) == IF c = Unlimited THEN ContractOf(current) ELSE c
CeilingKept(new, ceiling) ==
  BudgetKept(new, ceiling) /\ GatesKept(new, ceiling) /\ RangesKept(new, ceiling)

ReworkFrom == {"failed", "succeeded"}
ReworkTo == {"queued", "running", "blocked", "review"}
Reassigned(old, new) == \E t \in Both(old, new) : new.tasks[t].assignee # old.tasks[t].assignee
Reworked(old, new) ==
  \E t \in Both(old, new) :
    \/ old.tasks[t].status \in ReworkFrom /\ new.tasks[t].status \in ReworkTo
    \/ new.tasks[t].attempt > old.tasks[t].attempt

\* check_plan_against_autonomy: a mode nobody knows allows nothing.
AutonomyAllows(a, old, new) ==
  \/ a.mode = "undeclared"
  \/ /\ a.mode \in {"explicit_plan", "bounded"}
     /\ a.plan \/ Tasks(old) = Tasks(new)
     /\ a.reassign \/ ~Reassigned(old, new)
     /\ a.rework \/ ~Reworked(old, new)

\* validate_plan_revision, against what is in force.
Legal(new) ==
  /\ LifecycleKept(plan, new)
  /\ CeilingKept(new, Ceiling(plan, contract))
  /\ AutonomyAllows(autonomy, plan, new)

----------------------------------------------------------------------------
(* Ownership.                                                                  *)

Owned == ownership.version > 0
\* check_submitter: the live instance.
IsSubmitter(c, v) == Owned /\ ownership = [who |-> c, version |-> v]

\* The first claim brings the first plan, whose own limits are the contract unless one
\* is given.  Nobody compares the two.
ClaimOwnership(c, first, given, a) ==
  /\ ~Owned
  /\ LifecycleKept(EmptyPlan, first)
  /\ ownership' = [who |-> c, version |-> 1]
  /\ plan' = first /\ revision' = (IF first.tasks = <<>> THEN 0 ELSE 1)
  /\ contract' = IF given = Unlimited THEN ContractOf(first) ELSE given
  /\ autonomy' = a
  /\ UNCHANGED proposals

\* Also to oneself (succeed).  Without a version to expect, the name is enough.
HandOver(src, dst) ==
  /\ Owned /\ ownership.who = src /\ ownership.version < MaxVersion
  /\ ownership' = [who |-> dst, version |-> ownership.version + 1]
  /\ UNCHANGED <<plan, revision, contract, autonomy, proposals>>

SetAutonomy(a) ==
  /\ autonomy' = a
  /\ UNCHANGED <<ownership, plan, revision, contract, proposals>>

\* apply_authorized_grant: lists are united, a limit that is named replaces the old one.
Merged(c, g) ==
  [budget |-> IF g.budget = Omitted THEN c.budget ELSE g.budget,
   must |-> c.must \cup g.must, gates |-> c.gates \cup g.gates, allow |-> c.allow \cup g.allow]
ApplyGrant(g) ==
  /\ contract' = Merged(contract, g)
  /\ UNCHANGED <<ownership, plan, revision, autonomy, proposals>>

----------------------------------------------------------------------------
(* Revisions.                                                                  *)

\* What nobody will commit any more.
Closed(status) == [NoProposal EXCEPT !.status = status]

\* A proposal is recorded whoever makes it; under a known id it replaces the other one.
Propose(p, c, v, new) ==
  /\ proposals' = [proposals EXCEPT ![p] =
       IF IsSubmitter(c, v) /\ Legal(new)
       THEN [status |-> "proposed", who |-> c, version |-> v, plan |-> new]
       ELSE Closed("rejected")]
  /\ UNCHANGED <<ownership, plan, revision, contract, autonomy>>

\* Mutant: who commits is looked at, not who proposed.
MayCommitForAnyone(p, c, v) == IsSubmitter(c, v) /\ Legal(proposals[p].plan)
\* Both who commits and who proposed are the live instance, and the plan is legal as
\* things are now.
MayCommit(p, c, v) ==
  LET rec == proposals[p] IN
  IsSubmitter(c, v) /\ IsSubmitter(rec.who, rec.version) /\ Legal(rec.plan)

Commit(p, c, v) ==
  /\ proposals[p].status = "proposed" /\ MayCommit(p, c, v) /\ revision < MaxRevision
  /\ plan' = proposals[p].plan /\ revision' = revision + 1
  /\ proposals' = [proposals EXCEPT ![p] = Closed("committed")]
  /\ UNCHANGED <<ownership, contract, autonomy>>

\* A refusal is final.
CommitRefused(p, c, v) ==
  /\ proposals[p].status = "proposed" /\ ~MayCommit(p, c, v)
  /\ proposals' = [proposals EXCEPT ![p] = Closed("rejected")]
  /\ UNCHANGED <<ownership, plan, revision, contract, autonomy>>

\* first: the plan the goal brings.
RevNext(first) ==
  \/ \E c \in Coord : \E given \in GivenContract, a \in Autonomy \cup {autonomy} : ClaimOwnership(c, first, given, a)
  \/ \E src, dst \in Coord : HandOver(src, dst)
  \/ \E a \in Autonomy : SetAutonomy(a)
  \/ \E g \in Grant : ApplyGrant(g)
  \/ \E p \in Proposal, c \in Coord, v \in 1..MaxVersion :
       \/ \E new \in Plan : Propose(p, c, v, new)
       \/ Commit(p, c, v) \/ CommitRefused(p, c, v)

----------------------------------------------------------------------------
(* Properties.                                                                 *)

\* Whatever a committed revision allows, the contract in force allowed, and the one
\* who proposed it is the coordinator of now: however long the proposal has lain, and
\* whatever handoffs, grants and other commits came first (goal_ownership.py:987-1135:
\* "Proposal was minted under a (possibly older) instance - must still match live").
CommitIsCurrent ==
  [][revision' # revision /\ Owned =>
       \E p \in Proposal :
         /\ proposals[p].status = "proposed" /\ proposals'[p].status = "committed"
         /\ plan' = proposals[p].plan
         /\ ownership = [who |-> proposals[p].who, version |-> proposals[p].version]
         /\ \A item \in AllowRanges(plan') :
              contract # Unlimited => AllowItemCovered(item, contract.allow)]_rvars

\* A task at work never drops out of the plan: a revision that was written before the
\* task was started is refused (goal_ownership.py:419-424).
ActiveTaskIsKept ==
  [][\A t \in Tasks(plan) : plan.tasks[t].status \in ActiveTask => t \in Tasks(plan')]_rvars
=============================================================================
