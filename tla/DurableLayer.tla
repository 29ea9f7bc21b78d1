---------------------------- MODULE DurableLayer ----------------------------
(***************************************************************************)
(* framework/durable_api.py: the durable store of goals, their tasks and   *)
(* their decisions, with the goal-ownership file of                        *)
(* framework/goal_ownership.py that a few operations also write.           *)
(*                                                                         *)
(* Every method of DurableLayer runs under the persist lock: it reloads    *)
(* store.json, checks, mutates one goal snapshot and replaces the file.    *)
(* A method is therefore one action, and the service, the command lines    *)
(* and any number of their threads call the methods in every order.  A     *)
(* call that is refused changes nothing on disk and is a stuttering step.  *)
(*                                                                         *)
(* What is kept of a task: its status, the run handle and the dispatch     *)
(* token bound to it, the decision it is paused on (blocked_on_decision),  *)
(* the checkpoint that parked it (run_parked, parked_decision), the kind   *)
(* of result stored with it, and run_started_at, of which only the run it  *)
(* was stamped for matters.  A contract is the set of scopes it allows,    *)
(* so that a contract fingerprint is the contract itself.                  *)
(***************************************************************************)
EXTENDS Naturals, FiniteSets, Lifecycle

CONSTANTS
  Goal, Task, Run, Claim, Decision,   \* identities; task ids name their goal
  Actor, Coordinator, Submitter,      \* who may resolve, own, and who submitted
  Scope, Authority,                   \* what grants add, and each goal's ceiling
  GoalOf, DependsOn,                  \* the goal and the depends_on of each task
  NoGoal, NoTask, NoRun, NoClaim, NoDecision, NoActor,
  MaxRetries,                         \* bound on retry_task history rows
  MaxVersion                          \* bound on ownership versions

ASSUME DurableAssumption ==
  /\ GoalOf \in [Task -> Goal]
  /\ DependsOn \in [Task -> SUBSET Task]
  /\ \A t \in Task : \A u \in DependsOn[t] : GoalOf[u] = GoalOf[t]
  /\ Authority \in [Goal -> SUBSET Scope]
  /\ Coordinator \subseteq Actor /\ Submitter \in Actor
  /\ NoGoal \notin Goal /\ NoTask \notin Task /\ NoRun \notin Run
  /\ NoClaim \notin Claim /\ NoDecision \notin Decision /\ NoActor \notin Actor
  /\ MaxRetries \in Nat /\ MaxVersion \in Nat

VARIABLES
  goal,      \* the snapshots of store.json, without their tasks and decisions
  task,      \* the child tasks of the snapshots
  decision,  \* pending_decisions and resolved_decisions of the snapshots
  owner      \* the ownership file of each goal

durableVars == <<goal, task, decision, owner>>

----------------------------------------------------------------------------
Result      == {"none", "ok", "fail", "need_human"}
Kind        == {"approval", "escalate", "insufficient_auth", "checkpoint"}
UpperKind   == {"escalate", "insufficient_auth"}   \* returned to the upper layer
FailureKind == {"none", "plain", "need_human"}

Verdicts == [approval          |-> {"allow", "deny"},
             escalate          |-> {"ack", "need_evidence", "withdraw", "deny", "grant"},
             insufficient_auth |-> {"ack", "need_evidence", "withdraw", "deny", "grant"},
             checkpoint        |-> {"continue", "stop"}]
Verdict  == {"none"} \cup UNION {Verdicts[k] : k \in Kind}

NoFailure == [kind |-> "none", task |-> NoTask]

EmptySnapshot == [state |-> "absent", cancelReq |-> FALSE, accepting |-> TRUE,
                  failure |-> NoFailure, retries |-> 0, contract |-> {}]
NewTask == [status |-> "queued", run |-> NoRun, claim |-> NoClaim,
            blockedOn |-> NoDecision, parkedOn |-> NoDecision,
            result |-> "none", clock |-> NoRun]
AbsentTask == [NewTask EXCEPT !.status = "absent"]
NoOwner == [id |-> NoActor, ver |-> 0, contract |-> {}]
Unopened == [status |-> "unopened", kind |-> "approval", goal |-> NoGoal,
             task |-> NoTask, bound |-> {}, verdict |-> "none", by |-> NoActor]

Failure  == [kind : FailureKind, task : Task \cup {NoTask}]
Snapshot == [state : GoalState \cup {"absent"}, cancelReq : BOOLEAN, accepting : BOOLEAN,
             failure : Failure, retries : 0 .. MaxRetries, contract : SUBSET Scope]
TaskRow == [status : TaskState \cup {"absent"}, run : Run \cup {NoRun},
            claim : Claim \cup {NoClaim}, blockedOn : Decision \cup {NoDecision},
            parkedOn : Decision \cup {NoDecision}, result : Result, clock : Run \cup {NoRun}]
DecisionRow == [status : {"unopened", "pending", "resolved"}, kind : Kind,
                goal : Goal \cup {NoGoal}, task : Task \cup {NoTask},
                bound : SUBSET Scope, verdict : Verdict, by : Actor \cup {NoActor}]
Ownership == [id : Coordinator \cup {NoActor}, ver : 0 .. MaxVersion, contract : SUBSET Scope]

TypeOK ==
  /\ goal     \in [Goal -> Snapshot]
  /\ task     \in [Task -> TaskRow]
  /\ decision \in [Decision -> DecisionRow]
  /\ owner    \in [Goal -> Ownership]

Init ==
  /\ goal     = [g \in Goal |-> EmptySnapshot]
  /\ task     = [t \in Task |-> AbsentTask]
  /\ decision = [d \in Decision |-> Unopened]
  /\ owner    = [g \in Goal |-> NoOwner]

----------------------------------------------------------------------------
(* Reading a snapshot. *)
Known(g)     == goal[g].state # "absent"
TasksOf(g)   == {t \in Task : GoalOf[t] = g /\ task[t].status # "absent"}
Pending(g)   == {d \in Decision : decision[d].goal = g /\ decision[d].status = "pending"}

\* Mutant: a failed dependency still counts as live.
WaitsOnAnyDependency(t) ==
  /\ task[t].status = "queued"
  /\ \E u \in DependsOn[t] : task[u].status # "succeeded"
\* concurrency.py: a dependency missing from the store counts as live.
Ready(t) == task[t].status = "queued"
            /\ \A u \in DependsOn[t] : task[u].status = "succeeded"
WaitsOnLiveDependency(t) ==
  /\ task[t].status = "queued"
  /\ \A u \in DependsOn[t] : task[u].status \notin {"failed", "cancelled"}
  /\ \E u \in DependsOn[t] : task[u].status # "succeeded"
HasProgress(g) ==
  \E t \in TasksOf(g) : \/ task[t].status \in InFlight
                        \/ Ready(t)
                        \/ WaitsOnLiveDependency(t)
AllSucceeded(g) == TasksOf(g) # {} /\ \A t \in TasksOf(g) : task[t].status = "succeeded"
AnyFailed(g)    == \E t \in TasksOf(g) : task[t].status = "failed"

\* need_human.goal_need_human_view: the failure object, else any task's result.
NeedHumanView(g) == \/ goal[g].failure.kind = "need_human"
                    \/ \E t \in TasksOf(g) : task[t].result = "need_human"

\* A queued goal starts running with its first started task.
Started(s) == IF s = "queued" THEN "running" ELSE s

----------------------------------------------------------------------------
(* Submission and admission. *)

\* submit_goal: claims the ownership file first (same coordinator again is
\* idempotent, another one is refused), then writes the snapshot.
CanClaim(g, c) == c = NoActor \/ owner[g].ver = 0 \/ owner[g].id = c
Claimed(g, c)  == IF c = NoActor \/ owner[g].ver > 0 THEN owner[g]
                  ELSE [id |-> c, ver |-> 1, contract |-> {}]

Submit(g, c, seed) ==
  /\ ~Known(g) /\ CanClaim(g, c)
  /\ c # NoActor => MaxVersion > 0
  /\ owner' = [owner EXCEPT ![g] = Claimed(g, c)]
  /\ goal'  = [goal EXCEPT ![g].state = IF seed = {} THEN "queued" ELSE "running"]
  /\ task'  = [t \in Task |-> IF t \in seed THEN NewTask ELSE task[t]]
  /\ UNCHANGED decision

\* The process dies between the two files of submit_goal.
CrashInSubmit(g, c) ==
  /\ ~Known(g) /\ c # NoActor /\ CanClaim(g, c) /\ MaxVersion > 0
  /\ owner' = [owner EXCEPT ![g] = Claimed(g, c)]
  /\ UNCHANGED <<goal, task, decision>>

CanAddChildTask(t) ==
  /\ task[t].status = "absent" /\ Known(GoalOf[t])
  /\ goal[GoalOf[t]].accepting /\ goal[GoalOf[t]].state \notin CancelClosed
AddChildTask(t) ==
  /\ CanAddChildTask(t)
  /\ task' = [task EXCEPT ![t] = NewTask]
  /\ goal' = [goal EXCEPT ![GoalOf[t]].state = Started(@)]
  /\ UNCHANGED <<decision, owner>>

----------------------------------------------------------------------------
(* Dispatch. *)

\* Mutant: start_task does not look at the goal.
CanStartInAnyGoal(t) == Known(GoalOf[t]) /\ TaskMay(task[t].status, "running")
\* start_task keeps whatever claim or run the task has.
CanStart(t) == /\ Known(GoalOf[t]) /\ goal[GoalOf[t]].state \notin CancelClosed
               /\ TaskMay(task[t].status, "running")
StartTask(t) ==
  /\ CanStart(t)
  /\ task' = [task EXCEPT ![t].status = "running"]
  /\ goal' = [goal EXCEPT ![GoalOf[t]].state = Started(@)]
  /\ UNCHANGED <<decision, owner>>

CanClaimDispatch(t) ==
  /\ Known(GoalOf[t]) /\ goal[GoalOf[t]].state \notin CancelClosed \cup TerminalGoal
  /\ task[t].status = "queued" /\ task[t].run = NoRun /\ task[t].claim = NoClaim
ClaimTaskDispatch(t, k) ==
  /\ CanClaimDispatch(t)
  /\ \A u \in Task : task[u].claim # k          \* tokens are fresh uuids
  /\ task' = [task EXCEPT ![t] = [task[t] EXCEPT !.status = "running", !.claim = k]]
  /\ goal' = [goal EXCEPT ![GoalOf[t]].state = Started(@)]
  /\ UNCHANGED <<decision, owner>>

\* bind_task_run asks for a running task, not for the token that claimed it.
CanBind(t, r) == task[t].status = "running" /\ task[t].run \in {NoRun, r}
BindTaskRun(t, r) ==
  /\ CanBind(t, r)
  /\ task' = [task EXCEPT ![t] = [task[t] EXCEPT !.run = r, !.claim = NoClaim]]
  /\ UNCHANGED <<goal, decision, owner>>

\* mark_run_started, called after a bind: only the first stamp is kept.
MarkRunStarted(t) ==
  /\ task[t].run # NoRun /\ task[t].clock = NoRun
  /\ task' = [task EXCEPT ![t].clock = task[t].run]
  /\ UNCHANGED <<goal, decision, owner>>

----------------------------------------------------------------------------
(* Results. *)

Outcome(res) == IF res = "ok" THEN "succeeded" ELSE "failed"

\* Mutant: one success completes the goal.
FinishIgnoresSiblings(t, res, close) ==
  LET s == goal[GoalOf[t]].state
  IN IF s \in TerminalGoal THEN s
     ELSE IF res = "ok" THEN "completed"
     ELSE IF res = "need_human" \/ (res = "fail" /\ close) THEN "failed"
     ELSE s
\* The goal after finish_task: need_human, or close_goal, fails it at once.
GoalAfterFinish(t, res, close) ==
  LET g    == GoalOf[t]
      s    == goal[g].state
      done == res = "ok" /\ \A u \in TasksOf(g) \ {t} : task[u].status = "succeeded"
  IN IF s \in TerminalGoal THEN s
     ELSE IF done THEN "completed"
     ELSE IF res = "need_human" \/ (res = "fail" /\ close) THEN "failed"
     ELSE s

CanFinish(t, res, close) ==
  /\ TaskMay(task[t].status, Outcome(res))
  /\ GoalMay(goal[GoalOf[t]].state, GoalAfterFinish(t, res, close))
\* r is the run that the result names, NoRun when it names none.
FinishTask(t, res, close, r) ==
  /\ CanFinish(t, res, close)
  /\ task' = [task EXCEPT ![t] = [task[t] EXCEPT !.status = Outcome(res), !.claim = NoClaim,
                                                 !.result = res,
                                                 !.run = IF r = NoRun THEN @ ELSE r]]
  /\ goal' = [goal EXCEPT ![GoalOf[t]] =
                 [goal[GoalOf[t]] EXCEPT !.state = GoalAfterFinish(t, res, close),
                           !.failure = IF res = "need_human"
                                       THEN [kind |-> "need_human", task |-> t] ELSE @]]
  /\ UNCHANGED <<decision, owner>>

\* reconcile_goal_progress leaves terminal and cancel_requested goals alone.
Reconciled(g) ==
  LET s == goal[g].state
  IN IF s \in TerminalGoal \cup {"cancel_requested"} THEN s
     ELSE IF AllSucceeded(g) THEN "completed"
     ELSE IF AnyFailed(g) /\ ~HasProgress(g) THEN "failed"
     ELSE s
CanReconcile(g) == Known(g) /\ GoalMay(goal[g].state, Reconciled(g))
ReconcileGoalProgress(g) ==
  /\ CanReconcile(g)
  /\ goal' = [goal EXCEPT ![g].state = Reconciled(g)]
  /\ UNCHANGED <<task, decision, owner>>

\* fail_goal replaces the failure object even of a goal that is terminal.
FailGoal(g) ==
  /\ Known(g)
  /\ goal' = [goal EXCEPT ![g] =
                 [goal[g] EXCEPT !.state = IF @ \in TerminalGoal THEN @ ELSE "failed",
                           !.failure = [kind |-> "plain", task |-> NoTask]]]
  /\ UNCHANGED <<task, decision, owner>>

----------------------------------------------------------------------------
(* Retry. *)

\* The task of the failure object if it is known, else a failed need_human
\* task, else any failed task.
RetryTargets(g) ==
  LET failed == {t \in TasksOf(g) : task[t].status = "failed"}
      nh     == {t \in failed : task[t].result = "need_human"}
  IN IF goal[g].failure.task \in TasksOf(g) THEN {goal[g].failure.task}
     ELSE IF nh # {} THEN nh ELSE failed

CanRetry(g, t) == /\ goal[g].state = "failed" /\ NeedHumanView(g)
                  /\ t \in RetryTargets(g) /\ TaskMay(task[t].status, "queued")
\* Mutant: the failure object survives the retry.
RetryKeepsFailure(g, t, resume) ==
  /\ CanRetry(g, t) /\ goal[g].retries < MaxRetries
  /\ task' = [task EXCEPT ![t] = [task[t] EXCEPT !.status = "queued", !.result = "none",
                                           !.run = IF resume THEN @ ELSE NoRun]]
  /\ goal' = [goal EXCEPT ![g] = [goal[g] EXCEPT !.state = "queued", !.retries = @ + 1]]
  /\ UNCHANGED <<decision, owner>>
\* retry_need_human: run_started_at and blocked_on_decision stay as they were.
RetryNeedHuman(g, t, resume) ==
  /\ CanRetry(g, t) /\ goal[g].retries < MaxRetries
  /\ task' = [task EXCEPT ![t] = [task[t] EXCEPT !.status = "queued", !.result = "none",
                                           !.run = IF resume THEN @ ELSE NoRun]]
  /\ goal' = [goal EXCEPT ![g] = [goal[g] EXCEPT !.state = "queued", !.failure = NoFailure,
                                           !.retries = @ + 1]]
  /\ UNCHANGED <<decision, owner>>

----------------------------------------------------------------------------
(* Decisions. *)

Open(d, k, g, t) ==
  decision' = [decision EXCEPT ![d] =
    [Unopened EXCEPT !.status = "pending", !.kind = k, !.goal = g, !.task = t,
                     !.bound = goal[g].contract]]

\* _pause_task_for_decision: only a running task is moved, and a task that
\* already waits keeps the decision it waits for.
Paused(t, d) ==
  IF task[t].status = "running"
  THEN [task[t] EXCEPT !.status = "awaiting_decision", !.blockedOn = d]
  ELSE IF task[t].status = "awaiting_decision" /\ task[t].blockedOn = NoDecision
  THEN [task[t] EXCEPT !.blockedOn = d]
  ELSE task[t]

OpenDecision(d, k, g, t) ==
  /\ k \in Kind \ {"checkpoint"}
  /\ decision[d].status = "unopened" /\ Known(g)
  /\ t \in TasksOf(g) \cup {NoTask}
  /\ Open(d, k, g, t)
  /\ task' = IF k \in UpperKind /\ t # NoTask THEN [task EXCEPT ![t] = Paused(t, d)] ELSE task
  /\ UNCHANGED <<goal, owner>>

PendingCheckpoint(t) == {d \in Decision : /\ decision[d].status = "pending"
                                          /\ decision[d].kind = "checkpoint"
                                          /\ decision[d].task = t}
\* Mutant: a parked task keeps its token.
ParkKeepsClaim(d, t) ==
  /\ decision[d].status = "unopened" /\ PendingCheckpoint(t) = {} /\ Known(GoalOf[t])
  /\ TaskMay(task[t].status, "awaiting_decision")
  /\ Open(d, "checkpoint", GoalOf[t], t)
  /\ task' = [task EXCEPT ![t] =
                 [task[t] EXCEPT !.status = "awaiting_decision", !.result = "need_human",
                           !.blockedOn = d, !.parkedOn = d]]
  /\ UNCHANGED <<goal, owner>>
\* open_checkpoint: a second call returns the pending checkpoint of the task.
CanOpenCheckpoint(t) == /\ Known(GoalOf[t]) /\ PendingCheckpoint(t) = {}
                        /\ TaskMay(task[t].status, "awaiting_decision")
OpenCheckpoint(d, t) ==
  /\ decision[d].status = "unopened" /\ CanOpenCheckpoint(t)
  /\ Open(d, "checkpoint", GoalOf[t], t)
  /\ task' = [task EXCEPT ![t] =
                 [task[t] EXCEPT !.status = "awaiting_decision", !.result = "need_human",
                           !.claim = NoClaim, !.blockedOn = d, !.parkedOn = d]]
  /\ UNCHANGED <<goal, owner>>

\* Mutant: "continue" is not counted as a rework.
RequeueUncounted(t) ==
  /\ task[t].status # "queued" /\ TaskMay(task[t].status, "queued")
  /\ task' = [task EXCEPT ![t] = [NewTask EXCEPT !.parkedOn = task[t].parkedOn]]
  /\ UNCHANGED <<goal, decision, owner>>
\* requeue_checkpoint_task follows any edge into queued, not only the one from
\* awaiting_decision; a task that is queued is left as it is.
CanRequeue(t) == task[t].status # "queued" /\ TaskMay(task[t].status, "queued")
RequeueCheckpointTask(t) ==
  /\ CanRequeue(t) /\ goal[GoalOf[t]].retries < MaxRetries
  /\ task' = [task EXCEPT ![t] = [NewTask EXCEPT !.parkedOn = task[t].parkedOn]]
  /\ goal' = [goal EXCEPT ![GoalOf[t]].retries = @ + 1]
  /\ UNCHANGED <<decision, owner>>

\* _authorize_resolve_actor.  ver is the ownership version the caller names,
\* 0 when it names none.
LiveCoordinator(g) == IF owner[g].ver > 0 THEN owner[g].id ELSE NoActor
VersionFits(g, ver) == ver = 0 \/ ver = owner[g].ver
MayResolve(d, a, ver, v) ==
  LET g == decision[d].goal
      c == LiveCoordinator(g)
  IN IF decision[d].kind \in UpperKind
     THEN IF v = "grant" THEN a # c /\ a = Submitter
          ELSE a \in {Submitter, c} /\ (a = c => VersionFits(g, ver))
     ELSE c = NoActor \/ (a = c /\ VersionFits(g, ver))

\* Mutant: the submitter's authority is not compared.
GrantBeyondAuthority(d, v, scope) ==
  v = "grant" => /\ decision[d].bound = goal[decision[d].goal].contract
                 /\ decision[d].kind = "insufficient_auth" => scope # {}
\* A grant is refused when the contract changed since the decision was opened,
\* when it goes beyond the submitter's authority, and, for insufficient_auth,
\* when it names no scope.
GrantFits(d, v, scope) ==
  v = "grant" => /\ decision[d].bound = goal[decision[d].goal].contract
                 /\ scope \subseteq Authority[decision[d].goal]
                 /\ decision[d].kind = "insufficient_auth" => scope # {}

\* Mutant: any granted decision of the task resumes it.
ResumesOnAnyGrant(d, v, scope) ==
  /\ v = "grant" /\ scope # {} /\ decision[d].task # NoTask
  /\ task[decision[d].task].status = "awaiting_decision"
\* _resume_task_after_grant: only the decision the task is blocked on resumes it.
Resumes(d, v, scope) ==
  /\ v = "grant" /\ scope # {} /\ decision[d].task # NoTask
  /\ task[decision[d].task].status = "awaiting_decision"
  /\ task[decision[d].task].blockedOn \in {NoDecision, d}

CanResolve(d, a, ver, v, scope) ==
  /\ decision[d].status = "pending" /\ v \in Verdicts[decision[d].kind]
  /\ v # "grant" => scope = {}
  /\ GrantFits(d, v, scope) /\ MayResolve(d, a, ver, v)

\* apply_authorized_grant: the ownership file, when there is one.
OwnerGranted(g, scope) ==
  IF owner[g].ver > 0 THEN [owner EXCEPT ![g].contract = @ \cup scope] ELSE owner

ResolveDecision(d, a, ver, v, scope) ==
  /\ CanResolve(d, a, ver, v, scope)
  /\ decision' = [decision EXCEPT ![d] = [decision[d] EXCEPT !.status = "resolved", !.verdict = v, !.by = a]]
  /\ goal'  = [goal EXCEPT ![decision[d].goal].contract = @ \cup scope]
  /\ owner' = OwnerGranted(decision[d].goal, scope)
  /\ task'  = IF Resumes(d, v, scope)
              THEN [task EXCEPT ![decision[d].task] =
                     [task[decision[d].task] EXCEPT !.status = "running", !.blockedOn = NoDecision]]
              ELSE task

\* The process dies after the ownership file and before store.json.
CrashInResolve(d, a, ver, scope) ==
  /\ CanResolve(d, a, ver, "grant", scope)
  /\ owner' = OwnerGranted(decision[d].goal, scope)
  /\ UNCHANGED <<goal, task, decision>>

\* handoff_coordinator; from itself to itself is a succession.
Handoff(g, src, dst, ver) ==
  /\ Known(g) /\ owner[g].ver \in 1 .. (MaxVersion - 1)
  /\ owner[g].id = src /\ VersionFits(g, ver)
  /\ owner' = [owner EXCEPT ![g] = [owner[g] EXCEPT !.id = dst, !.ver = @ + 1]]
  /\ UNCHANGED <<goal, task, decision>>

----------------------------------------------------------------------------
(* Cancellation: the request, and its effect. *)

\* cancel_goal: completed and failed goals keep their state but not the flags,
\* and in-flight tasks are asked to stop whatever edge they are on.
CanCancelGoal(g) == Known(g) /\ goal[g].state # "cancelled"
CancelGoal(g) ==
  /\ CanCancelGoal(g)
  /\ goal' = [goal EXCEPT ![g] =
                 [goal[g] EXCEPT !.accepting = FALSE, !.cancelReq = TRUE,
                           !.state = IF @ \in TerminalGoal THEN @ ELSE "cancel_requested"]]
  /\ task' = [t \in Task |-> IF t \in TasksOf(g) /\ task[t].status \in TerminableTask
                             THEN [task[t] EXCEPT !.status = "cancel_requested"]
                             ELSE task[t]]
  /\ UNCHANGED <<decision, owner>>

CanEffectCancel(g) == goal[g].state = "cancel_requested"
EffectCancel(g) ==
  /\ CanEffectCancel(g)
  /\ goal' = [goal EXCEPT ![g] = [goal[g] EXCEPT !.state = "cancelled", !.accepting = FALSE]]
  /\ task' = [t \in Task |-> IF t \in TasksOf(g)
                                /\ task[t].status \in InFlight \cup {"queued", "blocked"}
                             THEN [task[t] EXCEPT !.status = "cancelled"]
                             ELSE task[t]]
  /\ UNCHANGED <<decision, owner>>

----------------------------------------------------------------------------
GoalNext(g) ==
  \/ \E c \in Coordinator \cup {NoActor} :
       \/ \E seed \in SUBSET {t \in Task : GoalOf[t] = g} : Submit(g, c, seed)
       \/ CrashInSubmit(g, c)
  \/ ReconcileGoalProgress(g) \/ FailGoal(g)
  \/ \E t \in Task, resume \in BOOLEAN : RetryNeedHuman(g, t, resume)
  \/ CancelGoal(g) \/ EffectCancel(g)
  \/ \E src, dst \in Coordinator, ver \in 0 .. MaxVersion : Handoff(g, src, dst, ver)

TaskNext(t) ==
  \/ AddChildTask(t) \/ StartTask(t) \/ MarkRunStarted(t) \/ RequeueCheckpointTask(t)
  \/ \E k \in Claim : ClaimTaskDispatch(t, k)
  \/ \E r \in Run : BindTaskRun(t, r)
  \/ \E res \in Result \ {"none"}, close \in BOOLEAN, r \in Run \cup {NoRun} :
       /\ task[t].run = NoRun \/ r \in {NoRun, task[t].run}  \* the run callers observed
       /\ FinishTask(t, res, close, r)
  \/ \E d \in Decision : OpenCheckpoint(d, t)

DecisionNext(d) ==
  \/ \E k \in Kind, g \in Goal, t \in Task \cup {NoTask} : OpenDecision(d, k, g, t)
  \/ \E a \in Actor, ver \in 0 .. MaxVersion, v \in Verdict, scope \in SUBSET Scope :
       ResolveDecision(d, a, ver, v, scope)
  \/ \E a \in Actor, ver \in 0 .. MaxVersion, scope \in SUBSET Scope :
       CrashInResolve(d, a, ver, scope)

Next == \/ \E g \in Goal : GoalNext(g)
        \/ \E t \in Task : TaskNext(t)
        \/ \E d \in Decision : DecisionNext(d)

Spec == Init /\ [][Next]_durableVars

----------------------------------------------------------------------------
(* Safety. *)

\* Once effect_cancel has spoken ("execution stopped for this goal_id"), no
\* order of start, bind, resume, pause and requeue calls puts one of the goal's
\* tasks in flight again.
CancelledIsQuiet ==
  \A g \in Goal : goal[g].state = "cancelled" =>
    \A t \in TasksOf(g) : task[t].status \notin InFlight

\* claim_task_dispatch promises that a concurrent tick loses the race: a task
\* that carries a dispatch token has no run yet, and is never queued, parked by
\* a checkpoint or finished, where a second dispatch could start beside it.
DispatchIsExclusive ==
  \A t \in Task : task[t].claim # NoClaim =>
    /\ task[t].run = NoRun
    /\ task[t].status \in {"running", "awaiting_decision", "cancel_requested", "cancelled"}

\* The task that a failure object names, the one retry_need_human will reopen,
\* belongs to that goal, and nothing dispatches it before the retry: the goal is
\* terminal, which claim_task_dispatch refuses, and no token is left on the task.
FailureIsSettled ==
  \A g \in Goal, t \in Task : goal[g].failure.task = t =>
    /\ GoalOf[t] = g
    /\ goal[g].state \in TerminalGoal
    /\ task[t].claim = NoClaim

\* concurrency.occupies_run_slot gives a task's slot back while it is parked.
FreesSlot(t) == /\ task[t].status = "awaiting_decision" /\ task[t].parkedOn # NoDecision
                /\ task[t].parkedOn = task[t].blockedOn

\* A slot is given back only for a checkpoint of that very task, never for an
\* escalation opened after it, and never while a dispatch is under way.
SlotFreedOnlyByCheckpoint ==
  \A t \in Task : FreesSlot(t) =>
    /\ task[t].claim = NoClaim
    /\ decision[task[t].parkedOn].kind = "checkpoint"
    /\ decision[task[t].parkedOn].task = t

\* open_checkpoint is idempotent: however calls interleave with pauses, resumes
\* and retries, a task never has two checkpoints waiting for a verdict.
OnePendingCheckpoint ==
  \A d, e \in Decision :
    /\ decision[d].status = "pending" /\ decision[d].kind = "checkpoint"
    /\ decision[e].status = "pending" /\ decision[e].kind = "checkpoint"
    /\ decision[d].task = decision[e].task
    => d = e

\* Grants never widen a contract beyond the submitter's authority, and whatever
\* store.json allows the ownership file allows too, even when a crash separates
\* the two writes of a grant.
GrantsStayInAuthority ==
  \A g \in Goal :
    /\ goal[g].contract \cup owner[g].contract \subseteq Authority[g]
    /\ owner[g].ver > 0 => goal[g].contract \subseteq owner[g].contract

----------------------------------------------------------------------------
(* What a step may never do. *)

\* Completed and cancelled goals and succeeded and cancelled tasks stay so,
\* although cancel_goal and effect_cancel overwrite a status without asking
\* assert_transition.
FinalStaysFinal ==
  [][/\ \A g \in Goal : goal[g].state \in {"completed", "cancelled"} =>
                           goal'[g].state = goal[g].state
     /\ \A t \in Task : task[t].status \in {"succeeded", "cancelled"} =>
                           task'[t].status = task[t].status]_durableVars

\* A goal completes only by a step after which every one of its tasks has
\* succeeded, whichever of finish_task and reconcile_goal_progress saw it.
CompletionIsEarned ==
  [][\A g \in Goal : goal[g].state # "completed" /\ goal'[g].state = "completed" =>
       AllSucceeded(g)']_durableVars

\* A contract grows only by the submitter's grant on a pending escalation that
\* was opened under the contract in force; the live coordinator never grants.
OnlySubmitterGrants ==
  [][\A g \in Goal : goal'[g].contract # goal[g].contract =>
       \E d \in Decision :
         /\ decision[d].goal = g /\ decision[d].kind \in UpperKind
         /\ decision[d].status = "pending" /\ decision[d].bound = goal[g].contract
         /\ decision'[d].verdict = "grant" /\ decision'[d].by = Submitter
         /\ LiveCoordinator(g) # Submitter]_durableVars

\* A paused task is unblocked only by a grant on the very decision it is blocked
\* on, or by going back to the queue.
UnblockedByItsDecision ==
  [][\A t \in Task :
       LET d == task[t].blockedOn IN
       d # NoDecision /\ task[t].status = "awaiting_decision" /\ task'[t].blockedOn = NoDecision =>
         \/ task'[t].status = "queued"
         \/ decision[d].status = "pending" /\ decision'[d].verdict = "grant"]_durableVars
=============================================================================
