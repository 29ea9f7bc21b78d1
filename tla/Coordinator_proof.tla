--------------------------- MODULE Coordinator_proof ---------------------------
(***************************************************************************)
(* Theorems about the durable store and about the service that works on    *)
(* it, on DurableAssumption and CoordinatorAssumption.                     *)
(*                                                                         *)
(* First of the store alone, as DurableLayer specifies it: for any goals,  *)
(* tasks, runs, dispatch tokens, decisions, actors, scopes and bounds.     *)
(* The type invariant is inductive as it stands; the others are            *)
(* strengthened where they are proved, each with one lemma for the steps   *)
(* of a goal, one for those of a task and one for those of a decision.     *)
(* The invariants of a state come first, then those of checkpoints, then   *)
(* what a single step may never do.                                        *)
(*                                                                         *)
(* Then of the service: for any limits and faults, every step of it is one *)
(* operation of the store or leaves it alone, so that what is proved of    *)
(* the store holds of the service.  The threads carry what an operation is *)
(* called with across steps of others, so the invariant says what they     *)
(* hold: the tick a goal, the task it settles and a run that is that       *)
(* task's or none's; a launch its task; and whoever applies a verdict, a   *)
(* checkpoint.  On top of that: parked tasks can be answered, runs are     *)
(* counted by the retries, and a goal that cannot go on is closed by       *)
(* somebody; and while nothing strands a worker, the workers keep to the   *)
(* limits and to their directories.                                        *)
(***************************************************************************)
EXTENDS Coordinator, TLAPS, FiniteSetTheorems

----------------------------------------------------------------------------

\* A task names a goal.
LEMMA GoalOfTask == \A t \in Task : GoalOf[t] \in Goal
  BY DurableAssumption

\* What the type invariant says of one goal, task or decision.
LEMMA Rows ==
  ASSUME TypeOK
  PROVE  /\ \A g \in Goal : goal[g] \in Snapshot /\ owner[g] \in Ownership
         /\ \A t \in Task : task[t] \in TaskRow
         /\ \A d \in Decision : decision[d] \in DecisionRow
  BY DEF TypeOK

\* Starting the goal of a task, by whichever operation, yields snapshots.
LEMMA GoalStarts ==
  ASSUME TypeOK, NEW t \in Task
  PROVE  [goal EXCEPT ![GoalOf[t]].state = Started(@)] \in [Goal -> Snapshot]
<1> DEFINE g == GoalOf[t]
           row == [goal[g] EXCEPT !.state = Started(@)]
<1>1. g \in Goal /\ goal[g] \in Snapshot BY GoalOfTask, Rows
<1> HIDE DEF g
<1>2. row \in Snapshot BY <1>1 DEF Started, GoalState, Snapshot
<1>3. [goal EXCEPT ![g].state = Started(@)] = [goal EXCEPT ![g] = row] OBVIOUS
<1> HIDE DEF row
<1>4. [goal EXCEPT ![g] = row] \in [Goal -> Snapshot] BY <1>2 DEF TypeOK
<1> QED BY <1>3, <1>4 DEF g

\* submit_goal, its crash and add_child_task keep the types.
LEMMA TypeAdmission ==
  ASSUME TypeOK, NEW g \in Goal
  PROVE  /\ \A c \in Coordinator \cup {NoActor} :
              /\ \A seed \in SUBSET Task : Submit(g, c, seed) => TypeOK'
              /\ CrashInSubmit(g, c) => TypeOK'
         /\ \A t \in Task : AddChildTask(t) => TypeOK'
<1>1. ASSUME NEW c \in Coordinator \cup {NoActor}, CanClaim(g, c), c # NoActor => MaxVersion > 0
      PROVE  [owner EXCEPT ![g] = Claimed(g, c)] \in [Goal -> Ownership]
  BY <1>1, DurableAssumption DEF TypeOK, Claimed, Ownership
<1>2. ASSUME NEW c \in Coordinator \cup {NoActor}, NEW seed \in SUBSET Task, Submit(g, c, seed)
      PROVE  TypeOK'
  <2>1. owner' \in [Goal -> Ownership] BY <1>1, <1>2 DEF Submit
  <2>2. goal' \in [Goal -> Snapshot] BY <1>2 DEF Submit, TypeOK, GoalState, Snapshot
  <2>3. NewTask \in TaskRow BY DEF NewTask, TaskState, Result, TaskRow
  <2>4. task' \in [Task -> TaskRow] BY <1>2, <2>3 DEF Submit, TypeOK
  <2> QED BY <1>2, <2>1, <2>2, <2>4 DEF Submit, TypeOK
<1>3. ASSUME NEW c \in Coordinator \cup {NoActor}, CrashInSubmit(g, c)
      PROVE  TypeOK'
  BY <1>1, <1>3 DEF CrashInSubmit, TypeOK
<1>4. ASSUME NEW t \in Task, AddChildTask(t)
      PROVE  TypeOK'
  <2>1. NewTask \in TaskRow BY DEF NewTask, TaskState, Result, TaskRow
  <2>2. task' \in [Task -> TaskRow] BY <1>4, <2>1 DEF AddChildTask, TypeOK
  <2>3. goal' \in [Goal -> Snapshot] BY <1>4, GoalStarts DEF AddChildTask
  <2> QED BY <1>4, <2>2, <2>3 DEF AddChildTask, TypeOK
<1> QED BY <1>2, <1>3, <1>4

\* start_task, claim_task_dispatch, bind_task_run and mark_run_started do.
LEMMA TypeDispatch ==
  ASSUME TypeOK, NEW t \in Task
  PROVE  /\ StartTask(t) => TypeOK'
         /\ \A k \in Claim : ClaimTaskDispatch(t, k) => TypeOK'
         /\ \A r \in Run : BindTaskRun(t, r) => TypeOK'
         /\ MarkRunStarted(t) => TypeOK'
<1>1. [goal EXCEPT ![GoalOf[t]].state = Started(@)] \in [Goal -> Snapshot]
  BY GoalStarts
<1>2. ASSUME StartTask(t) PROVE TypeOK'
  <2>1. task' \in [Task -> TaskRow] BY <1>2 DEF StartTask, TypeOK, TaskState, TaskRow
  <2> QED BY <1>1, <1>2, <2>1 DEF StartTask, TypeOK
<1>3. ASSUME NEW k \in Claim, ClaimTaskDispatch(t, k) PROVE TypeOK'
  <2> DEFINE row == [task[t] EXCEPT !.status = "running", !.claim = k]
  <2>1. row \in TaskRow BY Rows DEF TaskRow, TaskState
  <2>2. task' = [task EXCEPT ![t] = row] BY <1>3 DEF ClaimTaskDispatch
  <2> HIDE DEF row
  <2>3. task' \in [Task -> TaskRow] BY <2>1, <2>2 DEF TypeOK
  <2> QED BY <1>1, <1>3, <2>3 DEF ClaimTaskDispatch, TypeOK
<1>4. ASSUME NEW r \in Run, BindTaskRun(t, r) PROVE TypeOK'
  <2> DEFINE row == [task[t] EXCEPT !.run = r, !.claim = NoClaim]
  <2>1. row \in TaskRow BY Rows DEF TaskRow
  <2>2. task' = [task EXCEPT ![t] = row] BY <1>4 DEF BindTaskRun
  <2> HIDE DEF row
  <2>3. task' \in [Task -> TaskRow] BY <2>1, <2>2 DEF TypeOK
  <2> QED BY <1>4, <2>3 DEF BindTaskRun, TypeOK
<1>5. ASSUME MarkRunStarted(t) PROVE TypeOK'
  BY <1>5 DEF MarkRunStarted, TypeOK, TaskRow
<1> QED BY <1>2, <1>3, <1>4, <1>5

\* So do finish_task, reconcile_goal_progress, fail_goal and retry_need_human.
LEMMA TypeResult ==
  ASSUME TypeOK
  PROVE  /\ \A t \in Task, res \in Result \ {"none"}, close \in BOOLEAN, r \in Run \cup {NoRun} :
              FinishTask(t, res, close, r) => TypeOK'
         /\ \A g \in Goal : ReconcileGoalProgress(g) => TypeOK'
         /\ \A g \in Goal : FailGoal(g) => TypeOK'
         /\ \A g \in Goal, t \in Task, resume \in BOOLEAN :
              RetryNeedHuman(g, t, resume) => TypeOK'
<1>1. ASSUME NEW t \in Task, NEW res \in Result \ {"none"}, NEW close \in BOOLEAN,
             NEW r \in Run \cup {NoRun}, FinishTask(t, res, close, r)
      PROVE  TypeOK'
  <2>1. task' \in [Task -> TaskRow]
    <3> DEFINE row == [task[t] EXCEPT !.status = Outcome(res), !.claim = NoClaim,
                                      !.result = res, !.run = IF r = NoRun THEN @ ELSE r]
    <3>1. Outcome(res) \in TaskState BY DEF Outcome, TaskState
    <3>2. row \in TaskRow BY <3>1, Rows DEF TaskRow
    <3>3. task' = [task EXCEPT ![t] = row] BY <1>1 DEF FinishTask
    <3> HIDE DEF row
    <3> QED BY <3>2, <3>3 DEF TypeOK
  <2>2. GoalAfterFinish(t, res, close) \in GoalState \cup {"absent"}
    BY GoalOfTask DEF GoalAfterFinish, TypeOK, GoalState, Snapshot
  <2>3. [kind |-> "need_human", task |-> t] \in Failure BY DEF Failure, FailureKind
  <2>4. goal' \in [Goal -> Snapshot]
    <3> DEFINE row == [goal[GoalOf[t]] EXCEPT
                         !.state = GoalAfterFinish(t, res, close),
                         !.failure = IF res = "need_human"
                                     THEN [kind |-> "need_human", task |-> t] ELSE @]
    <3>1. goal[GoalOf[t]] \in Snapshot BY GoalOfTask, Rows
    <3>2. row \in Snapshot BY <3>1, <2>2, <2>3 DEF Snapshot
    <3>3. goal' = [goal EXCEPT ![GoalOf[t]] = row] BY <1>1 DEF FinishTask
    <3> HIDE DEF row
    <3> QED BY <3>2, <3>3, GoalOfTask DEF TypeOK
  <2> QED BY <1>1, <2>1, <2>4 DEF FinishTask, TypeOK
<1>2. ASSUME NEW g \in Goal, ReconcileGoalProgress(g)
      PROVE  TypeOK'
  <2>1. Reconciled(g) \in GoalState \cup {"absent"}
    BY DEF Reconciled, TypeOK, GoalState, Snapshot
  <2> QED BY <1>2, <2>1 DEF ReconcileGoalProgress, TypeOK, Snapshot
<1>3. ASSUME NEW g \in Goal, FailGoal(g)
      PROVE  TypeOK'
  <2>1. [kind |-> "plain", task |-> NoTask] \in Failure BY DEF Failure, FailureKind
  <2> DEFINE row == [goal[g] EXCEPT !.state = IF @ \in TerminalGoal THEN @ ELSE "failed",
                                    !.failure = [kind |-> "plain", task |-> NoTask]]
  <2>2. row \in Snapshot BY <2>1, Rows DEF Snapshot, GoalState
  <2>3. goal' = [goal EXCEPT ![g] = row] BY <1>3 DEF FailGoal
  <2> HIDE DEF row
  <2>4. goal' \in [Goal -> Snapshot] BY <2>2, <2>3 DEF TypeOK
  <2> QED BY <1>3, <2>4 DEF FailGoal, TypeOK
<1>4. ASSUME NEW g \in Goal, NEW t \in Task, NEW resume \in BOOLEAN, RetryNeedHuman(g, t, resume)
      PROVE  TypeOK'
  <2>1. task' \in [Task -> TaskRow]
    <3> DEFINE row == [task[t] EXCEPT !.status = "queued", !.result = "none",
                                      !.run = IF resume THEN @ ELSE NoRun]
    <3>1. row \in TaskRow BY DEF TypeOK, TaskState, Result, TaskRow
    <3>2. task' = [task EXCEPT ![t] = row] BY <1>4 DEF RetryNeedHuman
    <3> HIDE DEF row
    <3> QED BY <3>1, <3>2 DEF TypeOK
  <2>2. goal' \in [Goal -> Snapshot]
    <3> DEFINE row == [goal[g] EXCEPT !.state = "queued", !.failure = NoFailure, !.retries = @ + 1]
    <3>1. NoFailure \in Failure BY DEF NoFailure, Failure, FailureKind
    <3>2. goal[g].retries + 1 \in 0 .. MaxRetries
      BY <1>4, DurableAssumption DEF RetryNeedHuman, TypeOK, Snapshot
    <3>3. row \in Snapshot BY <3>1, <3>2 DEF TypeOK, GoalState, Snapshot
    <3>4. goal' = [goal EXCEPT ![g] = row] BY <1>4 DEF RetryNeedHuman
    <3> HIDE DEF row
    <3> QED BY <3>3, <3>4 DEF TypeOK
  <2> QED BY <1>4, <2>1, <2>2 DEF RetryNeedHuman, TypeOK
<1> QED BY <1>1, <1>2, <1>3, <1>4

\* So do open_decision and open_checkpoint.
LEMMA TypeDecision ==
  ASSUME TypeOK, NEW d \in Decision
  PROVE  /\ \A k \in Kind, g \in Goal, t \in Task \cup {NoTask} :
              OpenDecision(d, k, g, t) => TypeOK'
         /\ \A t \in Task : OpenCheckpoint(d, t) => TypeOK'
<1>1. ASSUME NEW k \in Kind, NEW g \in Goal, NEW t \in Task \cup {NoTask}, Open(d, k, g, t)
      PROVE  decision' \in [Decision -> DecisionRow]
  <2> DEFINE row == [Unopened EXCEPT !.status = "pending", !.kind = k, !.goal = g, !.task = t,
                                     !.bound = goal[g].contract]
  <2>1. goal[g].contract \in SUBSET Scope BY DEF TypeOK, Snapshot
  <2>2. row \in DecisionRow BY <2>1 DEF Unopened, DecisionRow, Verdict
  <2>3. decision' = [decision EXCEPT ![d] = row] BY <1>1 DEF Open
  <2> HIDE DEF row
  <2> QED BY <2>2, <2>3 DEF TypeOK
<1>2. ASSUME NEW k \in Kind, NEW g \in Goal, NEW t \in Task \cup {NoTask},
             OpenDecision(d, k, g, t)
      PROVE  TypeOK'
  <2>1. decision' \in [Decision -> DecisionRow] BY <1>1, <1>2 DEF OpenDecision
  <2>2. CASE k \in UpperKind /\ t # NoTask
    <3>1. t \in Task BY <2>2
    <3>2. Paused(t, d) \in TaskRow BY <3>1 DEF Paused, TypeOK, TaskRow, TaskState
    <3>3. task' = [task EXCEPT ![t] = Paused(t, d)] BY <1>2, <2>2 DEF OpenDecision
    <3>4. task' \in [Task -> TaskRow] BY <3>1, <3>2, <3>3 DEF TypeOK
    <3> QED BY <1>2, <2>1, <3>4 DEF OpenDecision, TypeOK
  <2>3. CASE ~(k \in UpperKind /\ t # NoTask)
    BY <1>2, <2>1, <2>3 DEF OpenDecision, TypeOK
  <2> QED BY <2>2, <2>3
<1>3. ASSUME NEW t \in Task, OpenCheckpoint(d, t)
      PROVE  TypeOK'
  <2>1. decision' \in [Decision -> DecisionRow]
    BY <1>1, <1>3, GoalOfTask DEF OpenCheckpoint, Kind
  <2> DEFINE row == [task[t] EXCEPT !.status = "awaiting_decision", !.result = "need_human",
                                    !.claim = NoClaim, !.blockedOn = d, !.parkedOn = d]
  <2>2. row \in TaskRow BY DEF TypeOK, TaskRow, TaskState, Result
  <2>3. task' = [task EXCEPT ![t] = row] BY <1>3 DEF OpenCheckpoint
  <2> HIDE DEF row
  <2>4. task' \in [Task -> TaskRow] BY <2>2, <2>3 DEF TypeOK
  <2> QED BY <1>3, <2>1, <2>4 DEF OpenCheckpoint, TypeOK
<1> QED BY <1>2, <1>3

\* So does resolve_decision, and its crash.
LEMMA TypeVerdict ==
  ASSUME TypeOK, NEW d \in Decision, NEW a \in Actor, NEW scope \in SUBSET Scope
  PROVE  /\ \A ver \in 0 .. MaxVersion, v \in Verdict :
              ResolveDecision(d, a, ver, v, scope) => TypeOK'
         /\ \A ver \in 0 .. MaxVersion : CrashInResolve(d, a, ver, scope) => TypeOK'
<1>1. ASSUME NEW g \in Goal \cup {NoGoal}
      PROVE  OwnerGranted(g, scope) \in [Goal -> Ownership]
  BY DEF OwnerGranted, TypeOK, Ownership
<1>2. decision[d].goal \in Goal \cup {NoGoal} BY DEF TypeOK, DecisionRow
<1>3. ASSUME NEW ver \in 0 .. MaxVersion, NEW v \in Verdict,
             ResolveDecision(d, a, ver, v, scope)
      PROVE  TypeOK'
  <2>1. owner' \in [Goal -> Ownership] BY <1>1, <1>2, <1>3 DEF ResolveDecision
  <2>2. goal' \in [Goal -> Snapshot]
    <3> DEFINE g == decision[d].goal
               row == [goal[g] EXCEPT !.contract = @ \cup scope]
    <3>1. goal' = [goal EXCEPT ![g] = row] BY <1>3 DEF ResolveDecision
    <3>2. ASSUME g \in Goal PROVE row \in Snapshot
      <4>1. goal[g] \in Snapshot BY <3>2, Rows
      <4> HIDE DEF g
      <4> QED BY <4>1 DEF Snapshot
    <3> HIDE DEF g, row
    <3> QED BY <3>1, <3>2 DEF TypeOK
  <2>3. decision' \in [Decision -> DecisionRow]
    <3> DEFINE row == [decision[d] EXCEPT !.status = "resolved", !.verdict = v, !.by = a]
    <3>1. row \in DecisionRow BY DEF TypeOK, DecisionRow
    <3>2. decision' = [decision EXCEPT ![d] = row] BY <1>3 DEF ResolveDecision
    <3> HIDE DEF row
    <3> QED BY <3>1, <3>2 DEF TypeOK
  <2>4. task' \in [Task -> TaskRow]
    <3>1. CASE Resumes(d, v, scope)
      <4> DEFINE t == decision[d].task
                 row == [task[t] EXCEPT !.status = "running", !.blockedOn = NoDecision]
      <4>1. t \in Task BY <3>1 DEF Resumes, TypeOK, DecisionRow
      <4>2. task[t] \in TaskRow BY <4>1, Rows
      <4>3. task' = [task EXCEPT ![t] = row] BY <1>3, <3>1 DEF ResolveDecision
      <4> HIDE DEF t
      <4>4. row \in TaskRow BY <4>2 DEF TaskRow, TaskState
      <4> HIDE DEF row
      <4> QED BY <4>1, <4>3, <4>4 DEF TypeOK
    <3>2. CASE ~Resumes(d, v, scope) BY <1>3, <3>2 DEF ResolveDecision, TypeOK
    <3> QED BY <3>1, <3>2
  <2> QED BY <2>1, <2>2, <2>3, <2>4 DEF TypeOK
<1>4. ASSUME NEW ver \in 0 .. MaxVersion, CrashInResolve(d, a, ver, scope)
      PROVE  TypeOK'
  BY <1>1, <1>2, <1>4 DEF CrashInResolve, TypeOK
<1> QED BY <1>3, <1>4

\* So does requeue_checkpoint_task.
LEMMA TypeRequeue ==
  ASSUME TypeOK, NEW t \in Task, RequeueCheckpointTask(t)
  PROVE  TypeOK'
<1> DEFINE row == [NewTask EXCEPT !.parkedOn = task[t].parkedOn]
<1>1. row \in TaskRow BY DEF TypeOK, NewTask, TaskRow, TaskState, Result
<1>2. task' = [task EXCEPT ![t] = row] BY DEF RequeueCheckpointTask
<1> HIDE DEF row
<1>3. task' \in [Task -> TaskRow] BY <1>1, <1>2 DEF TypeOK
<1>4. goal[GoalOf[t]].retries + 1 \in 0 .. MaxRetries
  BY GoalOfTask, DurableAssumption DEF RequeueCheckpointTask, TypeOK, Snapshot
<1>5. goal' \in [Goal -> Snapshot]
  BY <1>4, GoalOfTask DEF RequeueCheckpointTask, TypeOK, Snapshot
<1> QED BY <1>3, <1>5 DEF RequeueCheckpointTask, TypeOK

\* So do handoff_coordinator, cancel_goal and effect_cancel.
LEMMA TypeGoal ==
  ASSUME TypeOK, NEW g \in Goal
  PROVE  /\ \A src, dst \in Coordinator, ver \in 0 .. MaxVersion :
              Handoff(g, src, dst, ver) => TypeOK'
         /\ CancelGoal(g) => TypeOK'
         /\ EffectCancel(g) => TypeOK'
<1>1. ASSUME NEW src \in Coordinator, NEW dst \in Coordinator, NEW ver \in 0 .. MaxVersion,
             Handoff(g, src, dst, ver)
      PROVE  TypeOK'
  <2> DEFINE row == [owner[g] EXCEPT !.id = dst, !.ver = @ + 1]
  <2>1. owner[g] \in Ownership BY Rows
  <2>2. owner[g].ver \in 1 .. (MaxVersion - 1) BY <1>1 DEF Handoff
  <2>3. owner[g].ver + 1 \in 0 .. MaxVersion BY <2>2, DurableAssumption
  <2>4. row \in Ownership BY <2>1, <2>3 DEF Ownership
  <2>5. owner' = [owner EXCEPT ![g] = row] BY <1>1 DEF Handoff
  <2> HIDE DEF row
  <2>6. owner' \in [Goal -> Ownership] BY <2>4, <2>5 DEF TypeOK
  <2> QED BY <1>1, <2>6 DEF Handoff, TypeOK
<1>2. ASSUME CancelGoal(g) PROVE TypeOK'
  <2>1. task' \in [Task -> TaskRow] BY <1>2 DEF CancelGoal, TypeOK, TaskRow, TaskState
  <2> DEFINE row == [goal[g] EXCEPT !.accepting = FALSE, !.cancelReq = TRUE,
                       !.state = IF @ \in TerminalGoal THEN @ ELSE "cancel_requested"]
  <2>2. row \in Snapshot BY DEF TypeOK, Snapshot, GoalState
  <2>3. goal' = [goal EXCEPT ![g] = row] BY <1>2 DEF CancelGoal
  <2> HIDE DEF row
  <2>4. goal' \in [Goal -> Snapshot] BY <2>2, <2>3 DEF TypeOK
  <2> QED BY <1>2, <2>1, <2>4 DEF CancelGoal, TypeOK
<1>3. ASSUME EffectCancel(g) PROVE TypeOK'
  <2>1. task' \in [Task -> TaskRow] BY <1>3 DEF EffectCancel, TypeOK, TaskRow, TaskState
  <2> DEFINE row == [goal[g] EXCEPT !.state = "cancelled", !.accepting = FALSE]
  <2>2. row \in Snapshot BY DEF TypeOK, Snapshot, GoalState
  <2>3. goal' = [goal EXCEPT ![g] = row] BY <1>3 DEF EffectCancel
  <2> HIDE DEF row
  <2>4. goal' \in [Goal -> Snapshot] BY <2>2, <2>3 DEF TypeOK
  <2> QED BY <1>3, <2>1, <2>4 DEF EffectCancel, TypeOK
<1> QED BY <1>1, <1>2, <1>3

\* An empty store is well typed.
LEMMA TypeInit == Init => TypeOK
<1> SUFFICES ASSUME Init PROVE TypeOK OBVIOUS
<1>1. NoFailure \in Failure BY DEF NoFailure, Failure, FailureKind
<1>2. EmptySnapshot \in Snapshot BY <1>1, DurableAssumption DEF EmptySnapshot, Snapshot
<1>3. AbsentTask \in TaskRow BY DEF AbsentTask, NewTask, TaskRow, Result
<1>4. Unopened \in DecisionRow BY DEF Unopened, DecisionRow, Kind, Verdict
<1>5. NoOwner \in Ownership BY DurableAssumption DEF NoOwner, Ownership
<1> QED BY <1>2, <1>3, <1>4, <1>5 DEF Init, TypeOK

\* Every operation keeps the types.
LEMMA TypeStep == TypeOK /\ [Next]_durableVars => TypeOK'
<1> SUFFICES ASSUME TypeOK, [Next]_durableVars PROVE TypeOK' OBVIOUS
<1>1. ASSUME NEW g \in Goal, GoalNext(g) PROVE TypeOK'
  BY <1>1, TypeAdmission, TypeResult, TypeGoal DEF GoalNext
<1>2. ASSUME NEW t \in Task, TaskNext(t) PROVE TypeOK'
  <2>1. CASE AddChildTask(t) BY <2>1, GoalOfTask, TypeAdmission
  <2> QED BY <1>2, <2>1, TypeDispatch, TypeResult, TypeDecision, TypeRequeue DEF TaskNext
<1>3. ASSUME NEW d \in Decision, DecisionNext(d) PROVE TypeOK'
  BY <1>3, TypeDecision, TypeVerdict DEF DecisionNext
<1>4. CASE UNCHANGED durableVars BY <1>4 DEF durableVars, TypeOK
<1> QED BY <1>1, <1>2, <1>3, <1>4 DEF Next

\* store.json and the ownership files stay well typed, whatever the callers do.
THEOREM TypeCorrect == Spec => []TypeOK
  BY TypeInit, TypeStep, PTL DEF Spec

----------------------------------------------------------------------------
\* What each action does to the status of a task and to the state of a goal,
\* stated once: a goal is cancelled by effect_cancel alone, and a task comes
\* in flight only by start_task, claim_task_dispatch or from another state in
\* flight.
LEMMA QuietGoalNext ==
  ASSUME TypeOK, CancelledIsQuiet, NEW g \in Goal, GoalNext(g)
  PROVE  CancelledIsQuiet'
<1> SUFFICES ASSUME NEW u \in Task, goal'[GoalOf[u]].state = "cancelled"
             PROVE  task'[u].status \notin InFlight
  BY DEF CancelledIsQuiet, TasksOf
<1> DEFINE h == GoalOf[u]
<1>1. /\ h \in Goal /\ goal[h] \in Snapshot /\ goal[g] \in Snapshot /\ task[u] \in TaskRow
      /\ goal \in [Goal -> Snapshot] /\ task \in [Task -> TaskRow]
  BY Rows, GoalOfTask DEF TypeOK
<1>2. goal[h].state = "cancelled" => task[u].status \notin InFlight
  BY <1>1 DEF CancelledIsQuiet, TasksOf, InFlight, TerminableTask
<1>3. ASSUME NEW c \in Coordinator \cup {NoActor}, NEW seed \in SUBSET {t \in Task : GoalOf[t] = g},
             Submit(g, c, seed)
      PROVE  task'[u].status \notin InFlight
  <2>1. h # g BY <1>1, <1>3 DEF Submit
  <2>2. goal'[h] = goal[h] /\ task'[u] = task[u] BY <1>1, <1>3, <2>1 DEF Submit
  <2> QED BY <1>2, <2>2
<1>4. ASSUME task' = task, goal'[h].state = goal[h].state
      PROVE  task'[u].status \notin InFlight
  BY <1>2, <1>4
<1>5. CASE ReconcileGoalProgress(g)
  <2>1. goal'[h].state = goal[h].state \/ goal'[h].state # "cancelled"
    BY <1>1, <1>5 DEF ReconcileGoalProgress, Reconciled, Snapshot, TerminalGoal
  <2> QED BY <1>4, <1>5, <2>1 DEF ReconcileGoalProgress
<1>6. CASE FailGoal(g)
  <2>1. goal'[h].state = goal[h].state \/ goal'[h].state # "cancelled"
    BY <1>1, <1>6 DEF FailGoal, Snapshot
  <2> QED BY <1>4, <1>6, <2>1 DEF FailGoal
<1>7. ASSUME NEW t \in Task, NEW resume \in BOOLEAN, RetryNeedHuman(g, t, resume)
      PROVE  task'[u].status \notin InFlight
  <2>1. goal'[h].state = goal[h].state
    BY <1>1, <1>7 DEF RetryNeedHuman, Snapshot
  <2>2. task'[u].status = task[u].status \/ task'[u].status = "queued"
    BY <1>1, <1>7 DEF RetryNeedHuman, TaskRow
  <2> QED BY <1>2, <2>1, <2>2 DEF InFlight, TerminableTask
<1>8. CASE CancelGoal(g)
  <2>1. h # g
    BY <1>1, <1>8 DEF CancelGoal, CanCancelGoal, Snapshot
  <2>2. goal'[h] = goal[h] /\ task'[u] = task[u] BY <1>1, <1>8, <2>1 DEF CancelGoal, TasksOf
  <2> QED BY <1>2, <2>2
<1>9. CASE EffectCancel(g)
  <2>1. CASE h = g
    <3>1. task'[u].status = IF task[u].status \in InFlight \cup {"queued", "blocked"}
                            THEN "cancelled" ELSE task[u].status
      BY <1>1, <1>9, <2>1 DEF EffectCancel, TasksOf, InFlight, TerminableTask, TaskRow
    <3> QED BY <3>1 DEF InFlight, TerminableTask
  <2>2. CASE h # g
    <3>1. goal'[h] = goal[h] /\ task'[u] = task[u] BY <1>1, <1>9, <2>2 DEF EffectCancel, TasksOf
    <3> QED BY <1>2, <3>1
  <2> QED BY <2>1, <2>2
<1>10. ASSUME UNCHANGED <<goal, task>>
       PROVE  task'[u].status \notin InFlight
  BY <1>2, <1>10
<1> QED
  BY <1>3, <1>5, <1>6, <1>7, <1>8, <1>9, <1>10 DEF GoalNext, CrashInSubmit, Handoff

\* Operations on one task, which look at the goal or take an edge out of flight.
LEMMA QuietTaskNext ==
  ASSUME TypeOK, CancelledIsQuiet, NEW t \in Task, TaskNext(t)
  PROVE  CancelledIsQuiet'
<1> SUFFICES ASSUME NEW u \in Task, goal'[GoalOf[u]].state = "cancelled"
             PROVE  task'[u].status \notin InFlight
  BY DEF CancelledIsQuiet, TasksOf
<1> DEFINE h == GoalOf[u]
           g == GoalOf[t]
<1>1. /\ h \in Goal /\ goal[h] \in Snapshot /\ g \in Goal /\ goal[g] \in Snapshot
      /\ task[u] \in TaskRow /\ task[t] \in TaskRow
      /\ goal \in [Goal -> Snapshot] /\ task \in [Task -> TaskRow]
  BY Rows, GoalOfTask DEF TypeOK
<1>2. goal[h].state = "cancelled" => task[u].status \notin InFlight
  BY <1>1 DEF CancelledIsQuiet, TasksOf, InFlight, TerminableTask
<1>3. goal' = [goal EXCEPT ![g].state = Started(@)] => goal'[h].state = Started(goal[h].state)
                                                      \/ goal'[h].state = goal[h].state
  BY <1>1 DEF Snapshot
<1>4. ASSUME goal' = [goal EXCEPT ![g].state = Started(@)]
      PROVE  goal[h].state = "cancelled"
  BY <1>3, <1>4 DEF Started
<1>5. CASE AddChildTask(t)
  <2>1. u # t BY <1>1, <1>4, <1>5 DEF AddChildTask, CanAddChildTask, CancelClosed
  <2> QED BY <1>1, <1>2, <1>4, <1>5, <2>1 DEF AddChildTask
<1>6. CASE StartTask(t)
  <2>1. u # t BY <1>1, <1>4, <1>6 DEF StartTask, CanStart, CancelClosed
  <2> QED BY <1>1, <1>2, <1>4, <1>6, <2>1 DEF StartTask
<1>7. ASSUME NEW k \in Claim, ClaimTaskDispatch(t, k)
      PROVE  task'[u].status \notin InFlight
  <2>1. u # t BY <1>1, <1>4, <1>7 DEF ClaimTaskDispatch, CanClaimDispatch, CancelClosed
  <2> QED BY <1>1, <1>2, <1>4, <1>7, <2>1 DEF ClaimTaskDispatch
<1>8. CASE MarkRunStarted(t)
  BY <1>1, <1>2, <1>8 DEF MarkRunStarted, TaskRow
<1>9. CASE RequeueCheckpointTask(t)
  <2>1. goal'[h].state = goal[h].state BY <1>1, <1>9 DEF RequeueCheckpointTask, Snapshot
  <2>2. task'[u].status = task[u].status \/ task'[u].status = "queued"
    BY <1>1, <1>9 DEF RequeueCheckpointTask, NewTask
  <2> QED BY <1>2, <2>1, <2>2 DEF InFlight, TerminableTask
<1>10. ASSUME NEW r \in Run, BindTaskRun(t, r)
       PROVE  task'[u].status \notin InFlight
  <2>1. task'[u].status = task[u].status BY <1>1, <1>10 DEF BindTaskRun, TaskRow
  <2> QED BY <1>2, <1>10, <2>1 DEF BindTaskRun
<1>11. ASSUME NEW res \in Result \ {"none"}, NEW close \in BOOLEAN,
             NEW r \in Run \cup {NoRun}, FinishTask(t, res, close, r)
       PROVE  task'[u].status \notin InFlight
  <2>1. goal'[h].state = goal[h].state \/ goal'[h].state # "cancelled"
    BY <1>1, <1>11 DEF FinishTask, GoalAfterFinish, Snapshot
  <2>2. task'[u].status = task[u].status \/ task'[u].status \in {"succeeded", "failed"}
    BY <1>1, <1>11 DEF FinishTask, Outcome, TaskRow
  <2> QED BY <1>2, <2>1, <2>2 DEF InFlight, TerminableTask
<1>12. ASSUME NEW d \in Decision, OpenCheckpoint(d, t)
       PROVE  task'[u].status \notin InFlight
  <2>1. task[t].status \in InFlight
    BY <1>12 DEF OpenCheckpoint, CanOpenCheckpoint, TaskMay, TaskState, TaskEdge, InFlight,
                 TerminableTask
  <2>2. u # t BY <1>2, <1>12, <2>1 DEF OpenCheckpoint
  <2> QED BY <1>1, <1>2, <1>12, <2>2 DEF OpenCheckpoint
<1> QED BY <1>5, <1>6, <1>7, <1>8, <1>9, <1>10, <1>11, <1>12 DEF TaskNext

\* A decision pauses or resumes a task only from one in-flight state to another.
LEMMA QuietDecisionNext ==
  ASSUME TypeOK, CancelledIsQuiet, NEW d \in Decision, DecisionNext(d)
  PROVE  CancelledIsQuiet'
<1> SUFFICES ASSUME NEW u \in Task, goal'[GoalOf[u]].state = "cancelled"
             PROVE  task'[u].status \notin InFlight
  BY DEF CancelledIsQuiet, TasksOf
<1> DEFINE h == GoalOf[u]
<1>1. /\ h \in Goal /\ goal[h] \in Snapshot /\ task[u] \in TaskRow
      /\ goal \in [Goal -> Snapshot] /\ task \in [Task -> TaskRow]
  BY Rows, GoalOfTask DEF TypeOK
<1>2. goal[h].state = "cancelled" => task[u].status \notin InFlight
  BY <1>1 DEF CancelledIsQuiet, TasksOf, InFlight, TerminableTask
<1>3. ASSUME NEW k \in Kind, NEW g \in Goal, NEW t \in Task \cup {NoTask}, OpenDecision(d, k, g, t)
      PROVE  task'[u].status \notin InFlight
  <2>1. task'[u] = task[u] \/ task'[u] = Paused(u, d) BY <1>1, <1>3 DEF OpenDecision
  <2>2. Paused(u, d).status = task[u].status \/ task[u].status = "running"
    BY <1>1 DEF Paused, TaskRow
  <2> QED BY <1>2, <1>3, <2>1, <2>2 DEF OpenDecision, InFlight, TerminableTask
<1>4. ASSUME NEW a \in Actor, NEW ver \in 0 .. MaxVersion, NEW v \in Verdict,
             NEW scope \in SUBSET Scope, ResolveDecision(d, a, ver, v, scope)
      PROVE  task'[u].status \notin InFlight
  <2>1. goal'[h].state = goal[h].state BY <1>1, <1>4 DEF ResolveDecision, Snapshot
  <2>2. task'[u] = task[u] \/ task[u].status = "awaiting_decision"
    BY <1>1, <1>4 DEF ResolveDecision, Resumes
  <2> QED BY <1>2, <2>1, <2>2 DEF InFlight, TerminableTask
<1>5. ASSUME UNCHANGED <<goal, task>> PROVE task'[u].status \notin InFlight
  BY <1>2, <1>5
<1> QED BY <1>3, <1>4, <1>5 DEF DecisionNext, CrashInResolve

\* effect_cancel's promise, for any number of goals, tasks, runs and callers:
\* once a goal is cancelled none of its tasks is ever in flight again.
THEOREM CancelledStaysQuiet == Spec => []CancelledIsQuiet
<1>1. Init => CancelledIsQuiet
  BY GoalOfTask DEF Init, CancelledIsQuiet, EmptySnapshot, TasksOf
<1>2. TypeOK /\ CancelledIsQuiet /\ [Next]_durableVars => CancelledIsQuiet'
  <2> SUFFICES ASSUME TypeOK, CancelledIsQuiet, [Next]_durableVars PROVE CancelledIsQuiet'
    OBVIOUS
  <2>1. CASE UNCHANGED durableVars BY <2>1 DEF durableVars, CancelledIsQuiet, TasksOf
  <2> QED BY <2>1, QuietGoalNext, QuietTaskNext, QuietDecisionNext DEF Next
<1> QED BY <1>1, <1>2, TypeCorrect, PTL DEF Spec

----------------------------------------------------------------------------
\* DispatchIsExclusive is not inductive: retry_need_human requeues whatever task
\* the failure object names, so that one must be known to hold no token.
DispatchInv == DispatchIsExclusive /\ FailureIsSettled

\* Steps that change neither the tasks nor what a goal fails with.
LEMMA DispatchFrame ==
  ASSUME TypeOK, DispatchInv,
         \A u \in Task : task'[u].claim # NoClaim =>
           /\ task[u].claim = task'[u].claim /\ task[u].run = task'[u].run
           /\ task'[u].status \in {task[u].status, "running", "awaiting_decision",
                                   "cancel_requested", "cancelled"},
         \A g \in Goal : /\ goal'[g].failure \in {goal[g].failure, NoFailure,
                                                  [kind |-> "plain", task |-> NoTask]}
                         /\ goal[g].state \in TerminalGoal /\ goal'[g].failure = goal[g].failure
                              => goal'[g].state \in TerminalGoal
  PROVE  DispatchInv'
<1>1. DispatchIsExclusive' BY DEF DispatchInv, DispatchIsExclusive
<1>2. ASSUME NEW g \in Goal, NEW t \in Task, goal'[g].failure.task = t
      PROVE  GoalOf[t] = g /\ goal'[g].state \in TerminalGoal /\ task'[t].claim = NoClaim
  <2>1. t # NoTask BY DurableAssumption
  <2>2. goal'[g].failure = goal[g].failure BY <1>2, <2>1 DEF NoFailure
  <2>3. goal[g].failure.task = t BY <1>2, <2>2
  <2> QED BY <2>2, <2>3 DEF DispatchInv, FailureIsSettled
<1> QED BY <1>1, <1>2 DEF DispatchInv, FailureIsSettled

\* Operations on a whole goal issue no token, and only a retry reopens a goal.
LEMMA DispatchGoalNext ==
  ASSUME TypeOK, DispatchInv, NEW g \in Goal, GoalNext(g)
  PROVE  DispatchInv'
<1>1. /\ goal \in [Goal -> Snapshot] /\ task \in [Task -> TaskRow]
      /\ \A h \in Goal : goal[h] \in Snapshot
      /\ \A u \in Task : task[u] \in TaskRow
  BY Rows DEF TypeOK
<1>2. ASSUME NEW c \in Coordinator \cup {NoActor}, NEW seed \in SUBSET {t \in Task : GoalOf[t] = g},
             Submit(g, c, seed)
      PROVE  DispatchInv'
  <2>1. \A u \in Task : task'[u].claim # NoClaim => task'[u] = task[u]
    BY <1>1, <1>2 DEF Submit, NewTask
  <2>2. \A h \in Goal : goal'[h].failure = goal[h].failure BY <1>1, <1>2 DEF Submit, Snapshot
  <2>3. \A h \in Goal : goal[h].state \in TerminalGoal => goal'[h].state = goal[h].state
    BY <1>1, <1>2 DEF Submit, Known, TerminalGoal
  <2> QED BY <2>1, <2>2, <2>3, DispatchFrame
<1>3. CASE ReconcileGoalProgress(g)
  <2>1. \A h \in Goal : goal'[h].failure = goal[h].failure
    BY <1>1, <1>3 DEF ReconcileGoalProgress, Snapshot
  <2>2. \A h \in Goal : goal[h].state \in TerminalGoal => goal'[h].state = goal[h].state
    BY <1>1, <1>3 DEF ReconcileGoalProgress, Reconciled, Snapshot
  <2>3. task' = task BY <1>3 DEF ReconcileGoalProgress
  <2> QED BY <2>1, <2>2, <2>3, DispatchFrame
<1>4. CASE FailGoal(g)
  <2>1. \A h \in Goal : goal'[h].failure \in {goal[h].failure, [kind |-> "plain", task |-> NoTask]}
    BY <1>1, <1>4 DEF FailGoal, Snapshot
  <2>2. \A h \in Goal : goal[h].state \in TerminalGoal => goal'[h].state = goal[h].state
    BY <1>1, <1>4 DEF FailGoal, Snapshot
  <2>3. task' = task BY <1>4 DEF FailGoal
  <2> QED BY <2>1, <2>2, <2>3, DispatchFrame
<1>5. ASSUME NEW t \in Task, NEW resume \in BOOLEAN, RetryNeedHuman(g, t, resume)
      PROVE  DispatchInv'
  <2>1. task[t].claim = NoClaim
    BY <1>5 DEF DispatchInv, DispatchIsExclusive, FailureIsSettled, RetryNeedHuman, CanRetry,
                RetryTargets
  <2>2. task'[t].claim = NoClaim BY <1>1, <1>5, <2>1 DEF RetryNeedHuman, TaskRow
  <2>3. \A u \in Task : task'[u].claim # NoClaim => task'[u] = task[u]
    BY <1>1, <1>5, <2>2 DEF RetryNeedHuman
  <2>4. /\ goal'[g].failure = NoFailure
        /\ \A h \in Goal \ {g} : goal'[h] = goal[h]
    BY <1>1, <1>5 DEF RetryNeedHuman, Snapshot
  <2>5. DispatchIsExclusive'
    BY <2>3 DEF DispatchInv, DispatchIsExclusive
  <2>6. FailureIsSettled'
    <3> SUFFICES ASSUME NEW h \in Goal, NEW v \in Task, goal'[h].failure.task = v
                 PROVE  /\ GoalOf[v] = h /\ goal'[h].state \in TerminalGoal
                        /\ task'[v].claim = NoClaim
      BY DEF FailureIsSettled
    <3>1. h # g BY <2>4, DurableAssumption DEF NoFailure
    <3>2. goal'[h] = goal[h] BY <2>4, <3>1
    <3> QED BY <2>3, <3>2 DEF DispatchInv, FailureIsSettled
  <2> QED BY <2>5, <2>6 DEF DispatchInv
<1>6. CASE CancelGoal(g)
  <2>1. \A u \in Task : task'[u].claim # NoClaim =>
           /\ task[u].claim = task'[u].claim /\ task[u].run = task'[u].run
           /\ task'[u].status \in {task[u].status, "cancel_requested"}
    BY <1>1, <1>6 DEF CancelGoal, TaskRow
  <2>2. \A h \in Goal : goal'[h].failure = goal[h].failure
    BY <1>1, <1>6 DEF CancelGoal, Snapshot
  <2>3. \A h \in Goal : goal[h].state \in TerminalGoal => goal'[h].state = goal[h].state
    BY <1>1, <1>6 DEF CancelGoal, Snapshot
  <2> QED BY <2>1, <2>2, <2>3, DispatchFrame
<1>7. CASE EffectCancel(g)
  <2>1. \A u \in Task : task'[u].claim # NoClaim =>
           /\ task[u].claim = task'[u].claim /\ task[u].run = task'[u].run
           /\ task'[u].status \in {task[u].status, "cancelled"}
    BY <1>1, <1>7 DEF EffectCancel, TaskRow
  <2>2. \A h \in Goal : goal'[h].failure = goal[h].failure
    BY <1>1, <1>7 DEF EffectCancel, Snapshot
  <2>3. \A h \in Goal : goal[h].state \in TerminalGoal => goal'[h].state = goal[h].state
    BY <1>1, <1>7 DEF EffectCancel, CanEffectCancel, TerminalGoal
  <2> QED BY <2>1, <2>2, <2>3, DispatchFrame
<1>8. ASSUME UNCHANGED <<goal, task>> PROVE DispatchInv'
  BY <1>8 DEF DispatchInv, DispatchIsExclusive, FailureIsSettled
<1> QED BY <1>2, <1>3, <1>4, <1>5, <1>6, <1>7, <1>8 DEF GoalNext, CrashInSubmit, Handoff

\* Operations on one task: a token is issued where no run is, and goes with a bind.
LEMMA DispatchTaskNext ==
  ASSUME TypeOK, DispatchInv, NEW t \in Task, TaskNext(t)
  PROVE  DispatchInv'
<1> DEFINE g == GoalOf[t]
<1>1. /\ goal \in [Goal -> Snapshot] /\ task \in [Task -> TaskRow] /\ g \in Goal
      /\ \A h \in Goal : goal[h] \in Snapshot
      /\ \A u \in Task : task[u] \in TaskRow
  BY Rows, GoalOfTask DEF TypeOK
<1>2. ASSUME goal' = [goal EXCEPT ![g].state = Started(@)]
      PROVE  /\ \A h \in Goal : goal'[h].failure = goal[h].failure
             /\ \A h \in Goal : goal[h].state \in TerminalGoal => goal'[h].state = goal[h].state
  BY <1>1, <1>2 DEF Snapshot, Started, TerminalGoal
<1>3. CASE AddChildTask(t)
  <2>1. \A u \in Task : task'[u].claim # NoClaim => task'[u] = task[u]
    BY <1>1, <1>3 DEF AddChildTask, NewTask
  <2> QED BY <1>2, <1>3, <2>1, DispatchFrame DEF AddChildTask
<1>4. CASE StartTask(t)
  <2>1. \A u \in Task : task'[u].claim # NoClaim =>
           /\ task[u].claim = task'[u].claim /\ task[u].run = task'[u].run
           /\ task'[u].status \in {task[u].status, "running"}
    BY <1>1, <1>4 DEF StartTask, TaskRow
  <2> QED BY <1>2, <1>4, <2>1, DispatchFrame DEF StartTask
<1>5. ASSUME NEW k \in Claim, ClaimTaskDispatch(t, k)
      PROVE  DispatchInv'
  <2>1. \A u \in Task \ {t} : task'[u] = task[u]
    BY <1>1, <1>5 DEF ClaimTaskDispatch
  <2>2. task'[t].status = "running" /\ task'[t].run = NoRun
    BY <1>1, <1>5 DEF ClaimTaskDispatch, CanClaimDispatch, TaskRow
  <2>3. DispatchIsExclusive' BY <2>1, <2>2 DEF DispatchInv, DispatchIsExclusive
  <2>4. FailureIsSettled'
    <3> SUFFICES ASSUME NEW h \in Goal, NEW v \in Task, goal'[h].failure.task = v
                 PROVE  /\ GoalOf[v] = h /\ goal'[h].state \in TerminalGoal
                        /\ task'[v].claim = NoClaim
      BY DEF FailureIsSettled
    <3>1. goal'[h].failure = goal[h].failure BY <1>2, <1>5 DEF ClaimTaskDispatch
    <3>2. GoalOf[v] = h /\ goal[h].state \in TerminalGoal /\ task[v].claim = NoClaim
      BY <3>1 DEF DispatchInv, FailureIsSettled
    <3>3. v # t BY <3>2, <1>5 DEF ClaimTaskDispatch, CanClaimDispatch
    <3>4. goal'[h].state = goal[h].state BY <1>2, <1>5, <3>2 DEF ClaimTaskDispatch
    <3> QED BY <2>1, <3>2, <3>3, <3>4
  <2> QED BY <2>3, <2>4 DEF DispatchInv
<1>6. ASSUME NEW r \in Run, BindTaskRun(t, r)
      PROVE  DispatchInv'
  <2>1. task'[t].claim = NoClaim BY <1>1, <1>6 DEF BindTaskRun, TaskRow
  <2>2. \A u \in Task : task'[u].claim # NoClaim => task'[u] = task[u]
    BY <1>1, <1>6, <2>1 DEF BindTaskRun
  <2> QED BY <1>6, <2>2, DispatchFrame DEF BindTaskRun
<1>7. CASE MarkRunStarted(t)
  <2>1. \A u \in Task : /\ task'[u].claim = task[u].claim /\ task'[u].run = task[u].run
                        /\ task'[u].status = task[u].status
    BY <1>1, <1>7 DEF MarkRunStarted, TaskRow
  <2> QED BY <1>7, <2>1, DispatchFrame DEF MarkRunStarted
<1>8. CASE RequeueCheckpointTask(t)
  <2>1. task'[t].claim = NoClaim BY <1>1, <1>8 DEF RequeueCheckpointTask, NewTask
  <2>2. \A u \in Task : task'[u].claim # NoClaim => task'[u] = task[u]
    BY <1>1, <1>8, <2>1 DEF RequeueCheckpointTask
  <2>3. \A h \in Goal : goal'[h].failure = goal[h].failure /\ goal'[h].state = goal[h].state
    BY <1>1, <1>8 DEF RequeueCheckpointTask, Snapshot
  <2> QED BY <2>2, <2>3, DispatchFrame
<1>9. ASSUME NEW res \in Result \ {"none"}, NEW close \in BOOLEAN,
             NEW r \in Run \cup {NoRun}, FinishTask(t, res, close, r)
      PROVE  DispatchInv'
  <2>1. task'[t].claim = NoClaim BY <1>1, <1>9 DEF FinishTask, TaskRow
  <2>2. \A u \in Task : task'[u].claim # NoClaim => task'[u] = task[u]
    BY <1>1, <1>9, <2>1 DEF FinishTask
  <2>3. \A h \in Goal \ {g} : goal'[h] = goal[h] BY <1>1, <1>9 DEF FinishTask
  <2>4. /\ goal'[g].state = GoalAfterFinish(t, res, close)
        /\ goal'[g].failure = IF res = "need_human" THEN [kind |-> "need_human", task |-> t]
                              ELSE goal[g].failure
    BY <1>1, <1>9 DEF FinishTask, Snapshot
  <2>5. goal[g].state \in TerminalGoal => goal'[g].state \in TerminalGoal
    BY <2>4 DEF GoalAfterFinish
  <2>6. CASE res = "need_human"
    <3>1. goal'[g].state \in TerminalGoal BY <2>4, <2>6 DEF GoalAfterFinish, TerminalGoal
    <3>2. goal'[g].failure.task = t BY <2>4, <2>6
    <3>3. FailureIsSettled'
      BY <2>1, <2>2, <2>3, <3>1, <3>2 DEF DispatchInv, FailureIsSettled
    <3> QED BY <2>2, <3>3 DEF DispatchInv, DispatchIsExclusive
  <2>7. CASE res # "need_human"
    <3>1. \A h \in Goal : goal'[h].failure = goal[h].failure BY <2>3, <2>4, <2>7
    <3>2. \A h \in Goal : goal[h].state \in TerminalGoal => goal'[h].state \in TerminalGoal
      BY <2>3, <2>5
    <3> QED BY <2>2, <3>1, <3>2, DispatchFrame
  <2> QED BY <2>6, <2>7
<1>10. ASSUME NEW d \in Decision, OpenCheckpoint(d, t)
       PROVE  DispatchInv'
  <2>1. task'[t].claim = NoClaim BY <1>1, <1>10 DEF OpenCheckpoint, TaskRow
  <2>2. \A u \in Task : task'[u].claim # NoClaim => task'[u] = task[u]
    BY <1>1, <1>10, <2>1 DEF OpenCheckpoint
  <2> QED BY <1>10, <2>2, DispatchFrame DEF OpenCheckpoint
<1> QED BY <1>3, <1>4, <1>5, <1>6, <1>7, <1>8, <1>9, <1>10 DEF TaskNext

\* Operations on a decision keep the token and the run of every task.
LEMMA DispatchDecisionNext ==
  ASSUME TypeOK, DispatchInv, NEW d \in Decision, DecisionNext(d)
  PROVE  DispatchInv'
<1>1. /\ goal \in [Goal -> Snapshot] /\ task \in [Task -> TaskRow]
      /\ \A h \in Goal : goal[h] \in Snapshot
      /\ \A u \in Task : task[u] \in TaskRow
  BY Rows DEF TypeOK
<1>2. ASSUME NEW k \in Kind, NEW g \in Goal, NEW t \in Task \cup {NoTask}, OpenDecision(d, k, g, t)
      PROVE  DispatchInv'
  <2>1. ASSUME NEW u \in Task
        PROVE  /\ task'[u].claim = task[u].claim /\ task'[u].run = task[u].run
               /\ task'[u].status \in {task[u].status, "awaiting_decision"}
    <3>1. task'[u] = task[u] \/ task'[u] = Paused(u, d) BY <1>1, <1>2 DEF OpenDecision
    <3>2. /\ Paused(u, d).claim = task[u].claim /\ Paused(u, d).run = task[u].run
          /\ Paused(u, d).status \in {task[u].status, "awaiting_decision"}
      BY <1>1 DEF Paused, TaskRow
    <3> QED BY <3>1, <3>2
  <2> QED BY <1>2, <2>1, DispatchFrame DEF OpenDecision
<1>3. ASSUME NEW a \in Actor, NEW ver \in 0 .. MaxVersion, NEW v \in Verdict,
             NEW scope \in SUBSET Scope, ResolveDecision(d, a, ver, v, scope)
      PROVE  DispatchInv'
  <2>1. ASSUME NEW u \in Task
        PROVE  /\ task'[u].claim = task[u].claim /\ task'[u].run = task[u].run
               /\ task'[u].status \in {task[u].status, "running"}
    BY <1>1, <1>3 DEF ResolveDecision, Resumes, TaskRow
  <2>2. \A h \in Goal : goal'[h].failure = goal[h].failure /\ goal'[h].state = goal[h].state
    BY <1>1, <1>3 DEF ResolveDecision, Snapshot
  <2> QED BY <2>1, <2>2, DispatchFrame
<1>4. ASSUME UNCHANGED <<goal, task>> PROVE DispatchInv'
  BY <1>4 DEF DispatchInv, DispatchIsExclusive, FailureIsSettled
<1> QED BY <1>2, <1>3, <1>4 DEF DecisionNext, CrashInResolve

\* The strengthened invariant of dispatch is one of the specification.
LEMMA DispatchInvariant == Spec => []DispatchInv
<1>1. Init => DispatchInv
  BY DurableAssumption DEF Init, DispatchInv, DispatchIsExclusive, FailureIsSettled,
                           EmptySnapshot, NoFailure, AbsentTask, NewTask
<1>2. TypeOK /\ DispatchInv /\ [Next]_durableVars => DispatchInv'
  <2> SUFFICES ASSUME TypeOK, DispatchInv, [Next]_durableVars PROVE DispatchInv'
    OBVIOUS
  <2>1. CASE UNCHANGED durableVars
    BY <2>1 DEF durableVars, DispatchInv, DispatchIsExclusive, FailureIsSettled
  <2> QED BY <2>1, DispatchGoalNext, DispatchTaskNext, DispatchDecisionNext DEF Next
<1> QED BY <1>1, <1>2, TypeCorrect, PTL DEF Spec

\* However ticks, threads and processes interleave, a task that carries a
\* dispatch token has no run and is in no state that a second dispatch starts from.
THEOREM DispatchStaysExclusive == Spec => []DispatchIsExclusive
<1>1. DispatchInv => DispatchIsExclusive BY DEF DispatchInv
<1> QED BY <1>1, DispatchInvariant, PTL

\* The task that a failure object names is left alone until the retry.
THEOREM FailureStaysSettled == Spec => []FailureIsSettled
<1>1. DispatchInv => FailureIsSettled BY DEF DispatchInv
<1> QED BY <1>1, DispatchInvariant, PTL

----------------------------------------------------------------------------
\* Grants: a snapshot that is not written yet allows nothing, and a decision
\* waits only on a goal that the store knows.
GrantInv ==
  /\ GrantsStayInAuthority
  /\ \A g \in Goal : ~Known(g) => goal[g].contract = {}
  /\ \A d \in Decision : decision[d].status = "pending" =>
       decision[d].goal \in Goal /\ Known(decision[d].goal)

\* Steps that touch no contract and no ownership, and forget no goal.
LEMMA GrantFrame ==
  ASSUME GrantInv, owner' = owner,
         \A g \in Goal : /\ goal'[g].contract = goal[g].contract
                         /\ Known(g) => goal'[g].state # "absent",
         \A d \in Decision : decision'[d].status = "pending" =>
           \/ decision'[d] = decision[d]
           \/ decision'[d].goal \in Goal /\ Known(decision'[d].goal)
  PROVE  GrantInv'
<1>1. GrantsStayInAuthority' BY DEF GrantInv, GrantsStayInAuthority
<1>2. \A g \in Goal : goal'[g].state = "absent" => goal'[g].contract = {}
  BY DEF GrantInv, Known
<1>3. \A d \in Decision : decision'[d].status = "pending" =>
        decision'[d].goal \in Goal /\ goal'[decision'[d].goal].state # "absent"
  BY DEF GrantInv
<1> QED BY <1>1, <1>2, <1>3 DEF GrantInv, Known

\* Operations on a goal only create or hand over an ownership.
LEMMA GrantGoalNext ==
  ASSUME TypeOK, GrantInv, NEW g \in Goal, GoalNext(g)
  PROVE  GrantInv'
<1>1. /\ goal \in [Goal -> Snapshot] /\ owner \in [Goal -> Ownership]
      /\ \A h \in Goal : goal[h] \in Snapshot /\ owner[h] \in Ownership
  BY Rows DEF TypeOK
<1>2. ASSUME NEW c \in Coordinator \cup {NoActor}, ~Known(g),
             owner' = [owner EXCEPT ![g] = Claimed(g, c)], decision' = decision,
             \A h \in Goal : goal'[h].contract = goal[h].contract,
             \A h \in Goal : Known(h) => goal'[h].state # "absent"
      PROVE  GrantInv'
  <2>1. goal[g].contract = {} BY <1>2 DEF GrantInv
  <2>2. owner'[g].contract \subseteq owner[g].contract BY <1>1, <1>2 DEF Claimed
  <2>3. \A h \in Goal \ {g} : owner'[h] = owner[h] BY <1>1, <1>2
  <2>4. GrantsStayInAuthority'
    BY <1>2, <2>1, <2>2, <2>3 DEF GrantInv, GrantsStayInAuthority
  <2>5. \A h \in Goal : goal'[h].state = "absent" => goal'[h].contract = {}
    BY <1>2 DEF GrantInv, Known
  <2> QED BY <1>2, <2>4, <2>5 DEF GrantInv, Known
<1>3. ASSUME NEW c \in Coordinator \cup {NoActor}, NEW seed \in SUBSET {t \in Task : GoalOf[t] = g},
             Submit(g, c, seed)
      PROVE  GrantInv'
  <2>1. \A h \in Goal : goal'[h].contract = goal[h].contract
    BY <1>1, <1>3 DEF Submit, Snapshot
  <2>2. \A h \in Goal : Known(h) => goal'[h].state # "absent"
    BY <1>1, <1>3 DEF Submit, Known
  <2> QED BY <1>2, <1>3, <2>1, <2>2 DEF Submit
<1>4. ASSUME NEW c \in Coordinator \cup {NoActor}, CrashInSubmit(g, c)
      PROVE  GrantInv'
  BY <1>2, <1>4 DEF CrashInSubmit, Known
<1>5. CASE ReconcileGoalProgress(g)
  <2>1. Reconciled(g) # "absent" \/ ~Known(g) BY <1>5 DEF Reconciled, Known
  <2>2. \A h \in Goal : /\ goal'[h].contract = goal[h].contract
                        /\ Known(h) => goal'[h].state # "absent"
    BY <1>1, <1>5, <2>1 DEF ReconcileGoalProgress, Known, Snapshot
  <2> QED BY <1>5, <2>2, GrantFrame DEF ReconcileGoalProgress
<1>6. CASE FailGoal(g)
  <2>1. \A h \in Goal : /\ goal'[h].contract = goal[h].contract
                        /\ Known(h) => goal'[h].state # "absent"
    BY <1>1, <1>6 DEF FailGoal, Known, Snapshot
  <2> QED BY <1>6, <2>1, GrantFrame DEF FailGoal
<1>7. ASSUME NEW t \in Task, NEW resume \in BOOLEAN, RetryNeedHuman(g, t, resume)
      PROVE  GrantInv'
  <2>1. \A h \in Goal : /\ goal'[h].contract = goal[h].contract
                        /\ Known(h) => goal'[h].state # "absent"
    BY <1>1, <1>7 DEF RetryNeedHuman, Known, Snapshot
  <2> QED BY <1>7, <2>1, GrantFrame DEF RetryNeedHuman
<1>8. CASE CancelGoal(g)
  <2>1. \A h \in Goal : /\ goal'[h].contract = goal[h].contract
                        /\ Known(h) => goal'[h].state # "absent"
    BY <1>1, <1>8 DEF CancelGoal, Known, Snapshot
  <2> QED BY <1>8, <2>1, GrantFrame DEF CancelGoal
<1>9. CASE EffectCancel(g)
  <2>1. \A h \in Goal : /\ goal'[h].contract = goal[h].contract
                        /\ Known(h) => goal'[h].state # "absent"
    BY <1>1, <1>9 DEF EffectCancel, Known, Snapshot
  <2> QED BY <1>9, <2>1, GrantFrame DEF EffectCancel
<1>10. ASSUME NEW src \in Coordinator, NEW dst \in Coordinator, NEW ver \in 0 .. MaxVersion,
              Handoff(g, src, dst, ver)
       PROVE  GrantInv'
  <2>1. /\ owner[g].ver > 0
        /\ \A h \in Goal : /\ owner'[h].contract = owner[h].contract
                           /\ h # g => owner'[h] = owner[h]
    BY <1>1, <1>10, DurableAssumption DEF Handoff, Ownership
  <2>2. GrantsStayInAuthority' BY <1>10, <2>1 DEF Handoff, GrantInv, GrantsStayInAuthority
  <2> QED BY <1>10, <2>2 DEF Handoff, GrantInv, Known
<1> QED BY <1>3, <1>4, <1>5, <1>6, <1>7, <1>8, <1>9, <1>10 DEF GoalNext

\* Operations on a task grant nothing.
LEMMA GrantTaskNext ==
  ASSUME TypeOK, GrantInv, NEW t \in Task, TaskNext(t)
  PROVE  GrantInv'
<1> DEFINE g == GoalOf[t]
<1>1. /\ goal \in [Goal -> Snapshot] /\ decision \in [Decision -> DecisionRow] /\ g \in Goal
      /\ \A h \in Goal : goal[h] \in Snapshot
  BY Rows, GoalOfTask DEF TypeOK
<1>2. ASSUME goal' = [goal EXCEPT ![g].state = Started(@)], UNCHANGED <<decision, owner>>
      PROVE  GrantInv'
  <2>1. \A h \in Goal : /\ goal'[h].contract = goal[h].contract
                        /\ Known(h) => goal'[h].state # "absent"
    BY <1>1, <1>2 DEF Started, Known, Snapshot
  <2> QED BY <1>2, <2>1, GrantFrame
<1>3. ASSUME UNCHANGED <<goal, decision, owner>> PROVE GrantInv'
  BY <1>3, GrantFrame DEF Known
<1>4. CASE RequeueCheckpointTask(t)
  <2>1. \A h \in Goal : /\ goal'[h].contract = goal[h].contract
                        /\ Known(h) => goal'[h].state # "absent"
    BY <1>1, <1>4 DEF RequeueCheckpointTask, Known, Snapshot
  <2> QED BY <1>4, <2>1, GrantFrame DEF RequeueCheckpointTask
<1>5. ASSUME NEW res \in Result \ {"none"}, NEW close \in BOOLEAN,
             NEW r \in Run \cup {NoRun}, FinishTask(t, res, close, r)
      PROVE  GrantInv'
  <2>1. GoalAfterFinish(t, res, close) = "absent" => ~Known(g)
    BY DEF GoalAfterFinish, Known
  <2>2. \A h \in Goal : /\ goal'[h].contract = goal[h].contract
                        /\ Known(h) => goal'[h].state # "absent"
    BY <1>1, <1>5, <2>1 DEF FinishTask, Known, Snapshot
  <2> QED BY <1>5, <2>2, GrantFrame DEF FinishTask
<1>6. ASSUME NEW d \in Decision, OpenCheckpoint(d, t)
      PROVE  GrantInv'
  <2>1. decision'[d].goal = g /\ \A e \in Decision \ {d} : decision'[e] = decision[e]
    BY <1>1, <1>6 DEF OpenCheckpoint, Open, Unopened
  <2>2. Known(g) BY <1>6 DEF OpenCheckpoint, CanOpenCheckpoint
  <2> QED BY <1>1, <1>6, <2>1, <2>2, GrantFrame DEF OpenCheckpoint, Known
<1> QED
  BY <1>2, <1>3, <1>4, <1>5, <1>6
  DEF TaskNext, AddChildTask, StartTask, MarkRunStarted, ClaimTaskDispatch, BindTaskRun

\* A verdict adds to both contracts what the authority covers, a crash to one.
LEMMA GrantDecisionNext ==
  ASSUME TypeOK, GrantInv, NEW d \in Decision, DecisionNext(d)
  PROVE  GrantInv'
<1>1. /\ goal \in [Goal -> Snapshot] /\ owner \in [Goal -> Ownership]
      /\ decision \in [Decision -> DecisionRow]
      /\ \A h \in Goal : goal[h] \in Snapshot /\ owner[h] \in Ownership
      /\ \A e \in Decision : decision[e] \in DecisionRow
  BY Rows DEF TypeOK
<1>2. ASSUME NEW k \in Kind, NEW g \in Goal, NEW t \in Task \cup {NoTask}, OpenDecision(d, k, g, t)
      PROVE  GrantInv'
  <2>1. decision'[d].goal = g /\ \A e \in Decision \ {d} : decision'[e] = decision[e]
    BY <1>1, <1>2 DEF OpenDecision, Open, Unopened
  <2> QED BY <1>1, <1>2, <2>1, GrantFrame DEF OpenDecision, Known
\* What both writes of a grant do, separately or in one step.
<1>3. ASSUME NEW a \in Actor, NEW ver \in 0 .. MaxVersion, NEW v \in Verdict,
             NEW scope \in SUBSET Scope, CanResolve(d, a, ver, v, scope)
      PROVE  /\ decision[d].goal \in Goal /\ Known(decision[d].goal)
             /\ scope \subseteq Authority[decision[d].goal]
  BY <1>3 DEF CanResolve, GrantFits, GrantInv
<1>4. ASSUME NEW g \in Goal, NEW scope \in SUBSET Authority[g], owner' = OwnerGranted(g, scope)
      PROVE  \A h \in Goal : /\ owner'[h].ver = owner[h].ver
                             /\ owner[h].contract \subseteq owner'[h].contract
                             /\ owner'[h].contract \subseteq owner[h].contract \cup Authority[h]
                             /\ h = g /\ owner[g].ver > 0 => scope \subseteq owner'[h].contract
  BY <1>1, <1>4 DEF OwnerGranted, Ownership
<1>5. ASSUME NEW a \in Actor, NEW ver \in 0 .. MaxVersion, NEW v \in Verdict,
             NEW scope \in SUBSET Scope, ResolveDecision(d, a, ver, v, scope)
      PROVE  GrantInv'
  <2> DEFINE g == decision[d].goal
  <2>1. /\ g \in Goal /\ Known(g) /\ scope \in SUBSET Authority[g]
        /\ goal' = [goal EXCEPT ![g].contract = @ \cup scope] /\ owner' = OwnerGranted(g, scope)
    BY <1>3, <1>5 DEF ResolveDecision
  <2>2. \A e \in Decision : decision'[e].status = "pending" => decision'[e] = decision[e]
    BY <1>1, <1>5 DEF ResolveDecision, DecisionRow
  <2> HIDE DEF g
  <2>3. /\ \A h \in Goal \ {g} : goal'[h] = goal[h]
        /\ goal'[g].contract = goal[g].contract \cup scope /\ goal'[g].state = goal[g].state
    BY <1>1, <2>1 DEF Snapshot
  <2>4. GrantsStayInAuthority'
    BY <1>4, <2>1, <2>3 DEF GrantInv, GrantsStayInAuthority
  <2> QED BY <2>1, <2>2, <2>3, <2>4 DEF GrantInv, Known
<1>6. ASSUME NEW a \in Actor, NEW ver \in 0 .. MaxVersion, NEW scope \in SUBSET Scope,
             CrashInResolve(d, a, ver, scope)
      PROVE  GrantInv'
  <2> DEFINE g == decision[d].goal
  <2>1. "grant" \in Verdict BY DEF Verdict, Verdicts, Kind
  <2>2. /\ g \in Goal /\ scope \in SUBSET Authority[g] /\ owner' = OwnerGranted(g, scope)
    BY <1>3, <1>6, <2>1 DEF CrashInResolve
  <2> HIDE DEF g
  <2>3. GrantsStayInAuthority'
    BY <1>4, <1>6, <2>2 DEF CrashInResolve, GrantInv, GrantsStayInAuthority
  <2> QED BY <1>6, <2>3 DEF CrashInResolve, GrantInv, Known
<1> QED BY <1>2, <1>5, <1>6 DEF DecisionNext

\* No sequence of submissions, grants, handoffs and crashes between the two
\* files of a grant gives a contract more than its submitter may, nor leaves
\* store.json allowing what the ownership file does not.
THEOREM GrantsAreBounded == Spec => []GrantsStayInAuthority
<1>1. Init => GrantInv
  BY DurableAssumption DEF Init, GrantInv, GrantsStayInAuthority, EmptySnapshot, NoOwner, Known,
                           Unopened
<1>2. TypeOK /\ GrantInv /\ [Next]_durableVars => GrantInv'
  <2> SUFFICES ASSUME TypeOK, GrantInv, [Next]_durableVars PROVE GrantInv'
    OBVIOUS
  <2>1. CASE UNCHANGED durableVars
    BY <2>1 DEF durableVars, GrantInv, GrantsStayInAuthority, Known
  <2> QED BY <2>1, GrantGoalNext, GrantTaskNext, GrantDecisionNext DEF Next
<1>3. GrantInv => GrantsStayInAuthority BY DEF GrantInv
<1> QED BY <1>1, <1>2, <1>3, TypeCorrect, PTL DEF Spec

----------------------------------------------------------------------------
(* Checkpoints, and what a single step may never do.                       *)

\* A decision that was opened keeps what it was opened for.
Keeps(d) == /\ decision'[d].kind = decision[d].kind
            /\ decision'[d].goal = decision[d].goal /\ decision'[d].task = decision[d].task
            /\ decision'[d].status \in {"pending", "resolved"}

\* The three ways in which a step changes decisions.
LEMMA DecisionMoves ==
  ASSUME TypeOK, [Next]_durableVars
  PROVE  \A d \in Decision : decision[d].status # "unopened" => Keeps(d)
<1>1. decision \in [Decision -> DecisionRow] BY DEF TypeOK
<1>2. ASSUME NEW e \in Decision, NEW k \in Kind, NEW g, NEW t,
             decision[e].status = "unopened", Open(e, k, g, t)
      PROVE  \A d \in Decision : decision[d].status # "unopened" => Keeps(d)
  BY <1>1, <1>2 DEF Open, Keeps, DecisionRow
<1>3. ASSUME NEW e \in Decision, NEW a, NEW ver, NEW v, NEW scope,
             ResolveDecision(e, a, ver, v, scope)
      PROVE  \A d \in Decision : decision[d].status # "unopened" => Keeps(d)
  BY <1>1, <1>3 DEF ResolveDecision, CanResolve, Keeps, DecisionRow
<1>4. ASSUME decision' = decision
      PROVE  \A d \in Decision : decision[d].status # "unopened" => Keeps(d)
  BY <1>1, <1>4 DEF Keeps, DecisionRow
<1>5. ASSUME NEW g \in Goal, GoalNext(g) PROVE decision' = decision
  BY <1>5 DEF GoalNext, Submit, CrashInSubmit, ReconcileGoalProgress, FailGoal, RetryNeedHuman,
              CancelGoal, EffectCancel, Handoff
<1>6. ASSUME NEW t \in Task, TaskNext(t)
      PROVE  \/ decision' = decision
             \/ \E e \in Decision : decision[e].status = "unopened"
                                    /\ Open(e, "checkpoint", GoalOf[t], t)
  BY <1>6 DEF TaskNext, AddChildTask, StartTask, MarkRunStarted, RequeueCheckpointTask,
              ClaimTaskDispatch, BindTaskRun, FinishTask, OpenCheckpoint
<1>7. "checkpoint" \in Kind BY DEF Kind
<1>8. ASSUME NEW d \in Decision, DecisionNext(d)
      PROVE  \A e \in Decision : decision[e].status # "unopened" => Keeps(e)
  BY <1>2, <1>3, <1>4, <1>8 DEF DecisionNext, OpenDecision, CrashInResolve
<1> QED BY <1>2, <1>4, <1>5, <1>6, <1>7, <1>8 DEF Next, durableVars

----------------------------------------------------------------------------
(* Checkpoints.  A task that is parked by a checkpoint holds no token: it  *)
(* had none when it was parked, and a task that waits gets none; a retried *)
(* task that still names its checkpoint waits again only for a newer       *)
(* decision.                                                               *)
ParkInv ==
  \A t \in Task : task[t].parkedOn # NoDecision =>
    /\ decision[task[t].parkedOn].status # "unopened"
    /\ decision[task[t].parkedOn].kind = "checkpoint"
    /\ decision[task[t].parkedOn].task = t
    /\ FreesSlot(t) => task[t].claim = NoClaim

\* A task that is parked later was parked before, and gets no token.
StaysParked(t) ==
  /\ task'[t].parkedOn \in {task[t].parkedOn, NoDecision}
  /\ FreesSlot(t)' => FreesSlot(t) /\ task'[t].claim \in {task[t].claim, NoClaim}

\* Steps after which nobody is parked who was not.
LEMMA ParkFrame ==
  ASSUME TypeOK, ParkInv, [Next]_durableVars, NEW u \in Task, StaysParked(u)
  PROVE  task'[u].parkedOn # NoDecision =>
           /\ decision'[task'[u].parkedOn].status # "unopened"
           /\ decision'[task'[u].parkedOn].kind = "checkpoint"
           /\ decision'[task'[u].parkedOn].task = u
           /\ FreesSlot(u)' => task'[u].claim = NoClaim
<1> SUFFICES ASSUME task'[u].parkedOn # NoDecision
             PROVE  /\ decision'[task'[u].parkedOn].status # "unopened"
                    /\ decision'[task'[u].parkedOn].kind = "checkpoint"
                    /\ decision'[task'[u].parkedOn].task = u
                    /\ FreesSlot(u)' => task'[u].claim = NoClaim
  OBVIOUS
<1>1. task'[u].parkedOn = task[u].parkedOn BY DEF StaysParked
<1>2. task[u].parkedOn \in Decision BY <1>1, Rows DEF TaskRow
<1>3. /\ decision[task[u].parkedOn].status # "unopened"
      /\ decision[task[u].parkedOn].kind = "checkpoint"
      /\ decision[task[u].parkedOn].task = u
      /\ FreesSlot(u) => task[u].claim = NoClaim
  BY <1>1 DEF ParkInv
<1>4. Keeps(task[u].parkedOn) BY <1>2, <1>3, DecisionMoves
<1>5. FreesSlot(u)' => task'[u].claim = NoClaim BY <1>3 DEF StaysParked
<1> QED BY <1>1, <1>3, <1>4, <1>5 DEF Keeps

\* Operations on a goal park nobody.
LEMMA ParkGoalNext ==
  ASSUME TypeOK, NEW g \in Goal, GoalNext(g), NEW u \in Task
  PROVE  StaysParked(u)
<1>1. /\ task \in [Task -> TaskRow] /\ \A t \in Task : task[t] \in TaskRow BY Rows DEF TypeOK
<1>2. ASSUME task'[u] = task[u] PROVE StaysParked(u) BY <1>2 DEF StaysParked, FreesSlot
<1>3. ASSUME task'[u].status # "awaiting_decision",
             task'[u].parkedOn \in {task[u].parkedOn, NoDecision}
      PROVE  StaysParked(u)
  BY <1>3 DEF StaysParked, FreesSlot
<1>4. ASSUME NEW c \in Coordinator \cup {NoActor},
             NEW seed \in SUBSET {t \in Task : GoalOf[t] = g}, Submit(g, c, seed)
      PROVE  StaysParked(u)
  BY <1>1, <1>2, <1>3, <1>4 DEF Submit, NewTask
<1>5. ASSUME NEW t \in Task, NEW resume \in BOOLEAN, RetryNeedHuman(g, t, resume)
      PROVE  StaysParked(u)
  <2>1. u # t => task'[u] = task[u] BY <1>1, <1>5 DEF RetryNeedHuman
  <2>2. u = t => task'[u].status = "queued" /\ task'[u].parkedOn = task[u].parkedOn
    BY <1>1, <1>5 DEF RetryNeedHuman, TaskRow
  <2> QED BY <1>2, <1>3, <2>1, <2>2
<1>6. CASE CancelGoal(g)
  <2>1. \/ task'[u] = task[u]
        \/ task'[u].status = "cancel_requested" /\ task'[u].parkedOn = task[u].parkedOn
    BY <1>1, <1>6 DEF CancelGoal, TaskRow
  <2> QED BY <1>2, <1>3, <2>1
<1>7. CASE EffectCancel(g)
  <2>1. \/ task'[u] = task[u]
        \/ task'[u].status = "cancelled" /\ task'[u].parkedOn = task[u].parkedOn
    BY <1>1, <1>7 DEF EffectCancel, TaskRow
  <2> QED BY <1>2, <1>3, <2>1
<1>8. ASSUME task' = task PROVE StaysParked(u) BY <1>2, <1>8
<1> QED BY <1>4, <1>5, <1>6, <1>7, <1>8 DEF GoalNext, CrashInSubmit, ReconcileGoalProgress,
                                            FailGoal, Handoff

\* Of the operations on a task, only open_checkpoint parks it.
LEMMA ParkTaskNext ==
  ASSUME TypeOK, NEW t \in Task, TaskNext(t), NEW u \in Task
  PROVE  StaysParked(u) \/ \E d \in Decision : u = t /\ OpenCheckpoint(d, t)
<1>1. /\ task \in [Task -> TaskRow] /\ \A v \in Task : task[v] \in TaskRow BY Rows DEF TypeOK
<1>2. ASSUME task'[u] = task[u] PROVE StaysParked(u) BY <1>2 DEF StaysParked, FreesSlot
<1>3. ASSUME task'[u].status # "awaiting_decision",
             task'[u].parkedOn \in {task[u].parkedOn, NoDecision}
      PROVE  StaysParked(u)
  BY <1>3 DEF StaysParked, FreesSlot
<1>4. CASE u # t
  <2>1. task'[u] = task[u]
    BY <1>1, <1>4 DEF TaskNext, AddChildTask, StartTask, MarkRunStarted, RequeueCheckpointTask,
                      ClaimTaskDispatch, BindTaskRun, FinishTask, OpenCheckpoint
  <2> QED BY <1>2, <2>1
<1>5. CASE u = t
  <2>1. CASE AddChildTask(t) \/ StartTask(t) \/ RequeueCheckpointTask(t)
    BY <1>1, <1>3, <1>5, <2>1 DEF AddChildTask, StartTask, RequeueCheckpointTask, NewTask, TaskRow
  <2>2. ASSUME NEW k \in Claim, ClaimTaskDispatch(t, k) PROVE StaysParked(u)
    <3>1. task'[u].status = "running" /\ task'[u].parkedOn = task[u].parkedOn
      BY <1>1, <1>5, <2>2 DEF ClaimTaskDispatch, TaskRow
    <3> QED BY <1>3, <3>1
  <2>3. ASSUME NEW r \in Run, BindTaskRun(t, r) PROVE StaysParked(u)
    <3>1. task'[u].status = "running" /\ task'[u].parkedOn = task[u].parkedOn
      BY <1>1, <1>5, <2>3 DEF BindTaskRun, CanBind, TaskRow
    <3> QED BY <1>3, <3>1
  <2>4. CASE MarkRunStarted(t)
    <3>1. /\ task'[u].status = task[u].status /\ task'[u].parkedOn = task[u].parkedOn
          /\ task'[u].blockedOn = task[u].blockedOn /\ task'[u].claim = task[u].claim
      BY <1>1, <1>5, <2>4 DEF MarkRunStarted, TaskRow
    <3> QED BY <3>1 DEF StaysParked, FreesSlot
  <2>5. ASSUME NEW res \in Result \ {"none"}, NEW close \in BOOLEAN, NEW r \in Run \cup {NoRun},
               FinishTask(t, res, close, r)
        PROVE  StaysParked(u)
    <3>1. task'[u].status = Outcome(res) /\ task'[u].parkedOn = task[u].parkedOn
      BY <1>1, <1>5, <2>5 DEF FinishTask, TaskRow
    <3> QED BY <1>3, <3>1 DEF Outcome
  <2> QED BY <1>5, <2>1, <2>2, <2>3, <2>4, <2>5 DEF TaskNext
<1> QED BY <1>4, <1>5

\* Nor does a decision of another kind: what it makes a task wait for is new.
LEMMA ParkDecisionNext ==
  ASSUME TypeOK, ParkInv, NEW d \in Decision, DecisionNext(d), NEW u \in Task
  PROVE  StaysParked(u)
<1>1. /\ task \in [Task -> TaskRow] /\ \A v \in Task : task[v] \in TaskRow BY Rows DEF TypeOK
<1>2. ASSUME task'[u] = task[u] PROVE StaysParked(u) BY <1>2 DEF StaysParked, FreesSlot
<1>3. ASSUME NEW k \in Kind, NEW g \in Goal, NEW t \in Task \cup {NoTask}, OpenDecision(d, k, g, t)
      PROVE  StaysParked(u)
  <2>1. task'[u] = task[u] \/ task'[u] = Paused(u, d) BY <1>1, <1>3 DEF OpenDecision
  <2>2. task[u].parkedOn # d BY <1>3, DurableAssumption DEF ParkInv, OpenDecision
  <2>3. CASE task'[u] = Paused(u, d) /\ Paused(u, d) # task[u]
    <3>1. task'[u].blockedOn = d /\ task'[u].parkedOn = task[u].parkedOn
      BY <1>1, <2>3 DEF Paused, TaskRow
    <3> QED BY <2>2, <3>1 DEF StaysParked, FreesSlot
  <2> QED BY <1>2, <2>1, <2>3
<1>4. ASSUME NEW a \in Actor, NEW ver \in 0 .. MaxVersion, NEW v \in Verdict,
             NEW scope \in SUBSET Scope, ResolveDecision(d, a, ver, v, scope)
      PROVE  StaysParked(u)
  <2>1. \/ task'[u] = task[u]
        \/ task'[u].status = "running" /\ task'[u].parkedOn = task[u].parkedOn
    BY <1>1, <1>4 DEF ResolveDecision, Resumes, TaskRow
  <2> QED BY <1>2, <2>1 DEF StaysParked, FreesSlot
<1>5. ASSUME task' = task PROVE StaysParked(u) BY <1>2, <1>5
<1> QED BY <1>3, <1>4, <1>5 DEF DecisionNext, CrashInResolve

LEMMA ParkInvariant == Spec => []ParkInv
<1>1. Init => ParkInv BY DEF Init, ParkInv, AbsentTask, NewTask
<1>2. TypeOK /\ ParkInv /\ [Next]_durableVars => ParkInv'
  <2> SUFFICES ASSUME TypeOK, ParkInv, [Next]_durableVars, NEW u \in Task,
                      task'[u].parkedOn # NoDecision
               PROVE  /\ decision'[task'[u].parkedOn].status # "unopened"
                      /\ decision'[task'[u].parkedOn].kind = "checkpoint"
                      /\ decision'[task'[u].parkedOn].task = u
                      /\ FreesSlot(u)' => task'[u].claim = NoClaim
    BY DEF ParkInv
  <2>1. CASE StaysParked(u) BY <2>1, ParkFrame
  <2>2. ASSUME NEW d \in Decision, OpenCheckpoint(d, u)
        PROVE  /\ task'[u].parkedOn = d /\ task'[u].claim = NoClaim
               /\ decision'[d].status = "pending" /\ decision'[d].kind = "checkpoint"
               /\ decision'[d].task = u
    <3>1. task \in [Task -> TaskRow] /\ task[u] \in TaskRow /\ decision \in [Decision -> DecisionRow]
      BY Rows DEF TypeOK
    <3>2. task'[u].parkedOn = d /\ task'[u].claim = NoClaim
      BY <2>2, <3>1 DEF OpenCheckpoint, TaskRow
    <3> QED BY <2>2, <3>1, <3>2 DEF OpenCheckpoint, Open, Unopened
  <2>3. CASE UNCHANGED durableVars
    BY <2>1, <2>3 DEF durableVars, StaysParked, FreesSlot
  <2> QED BY <2>1, <2>2, <2>3, ParkGoalNext, ParkTaskNext, ParkDecisionNext DEF Next
<1> QED BY <1>1, <1>2, TypeCorrect, PTL DEF Spec

\* concurrency.occupies_run_slot gives a slot back only for a checkpoint of that
\* very task and never while a dispatch is under way, whatever retries, escalations
\* and grants follow the checkpoint.
THEOREM SlotsStayHeld == Spec => []SlotFreedOnlyByCheckpoint
<1>1. ParkInv => SlotFreedOnlyByCheckpoint
  BY DEF ParkInv, SlotFreedOnlyByCheckpoint, FreesSlot
<1> QED BY <1>1, ParkInvariant, PTL

\* open_checkpoint looks for a pending checkpoint of its task, and nothing else
\* opens one: there are never two, for any number of calls.
THEOREM CheckpointsAreSingle == Spec => []OnePendingCheckpoint
<1> DEFINE Waits(d) == decision[d].status = "pending" /\ decision[d].kind = "checkpoint"
<1>1. Init => OnePendingCheckpoint BY DEF Init, OnePendingCheckpoint, Unopened
<1>2. TypeOK /\ OnePendingCheckpoint /\ [Next]_durableVars => OnePendingCheckpoint'
  <2> SUFFICES ASSUME TypeOK, OnePendingCheckpoint, [Next]_durableVars
               PROVE  OnePendingCheckpoint'
    OBVIOUS
  <2>1. decision \in [Decision -> DecisionRow] BY DEF TypeOK
  <2>2. ASSUME \A e \in Decision :
                 decision'[e].status = "pending" /\ decision'[e].kind = "checkpoint" =>
                   Waits(e) /\ decision'[e].task = decision[e].task
        PROVE  OnePendingCheckpoint'
    BY <2>2 DEF OnePendingCheckpoint
  <2>3. ASSUME decision' = decision PROVE OnePendingCheckpoint' BY <2>3 DEF OnePendingCheckpoint
  <2>4. ASSUME NEW t \in Task, NEW d \in Decision, OpenCheckpoint(d, t)
        PROVE  OnePendingCheckpoint'
    <3>1. \A e \in Decision \ {d} : decision'[e] = decision[e]
      BY <2>1, <2>4 DEF OpenCheckpoint, Open
    <3>2. decision'[d].task = t BY <2>1, <2>4 DEF OpenCheckpoint, Open, Unopened
    <3>3. \A e \in Decision : Waits(e) => decision[e].task # t
      BY <2>4 DEF OpenCheckpoint, CanOpenCheckpoint, PendingCheckpoint
    <3> QED BY <3>1, <3>2, <3>3 DEF OnePendingCheckpoint
  <2>5. ASSUME NEW d \in Decision, NEW k \in Kind, NEW g \in Goal, NEW t \in Task \cup {NoTask},
               OpenDecision(d, k, g, t)
        PROVE  OnePendingCheckpoint'
    <3>1. \A e \in Decision \ {d} : decision'[e] = decision[e]
      BY <2>1, <2>5 DEF OpenDecision, Open
    <3>2. decision'[d].kind # "checkpoint" BY <2>1, <2>5 DEF OpenDecision, Open, Unopened
    <3> QED BY <2>2, <3>1, <3>2
  <2>6. ASSUME NEW d \in Decision, NEW a \in Actor, NEW ver \in 0 .. MaxVersion, NEW v \in Verdict,
               NEW scope \in SUBSET Scope, ResolveDecision(d, a, ver, v, scope)
        PROVE  OnePendingCheckpoint'
    <3>1. \A e \in Decision \ {d} : decision'[e] = decision[e] BY <2>1, <2>6 DEF ResolveDecision
    <3>2. decision'[d].status = "resolved" BY <2>1, <2>6 DEF ResolveDecision, DecisionRow
    <3> QED BY <2>2, <3>1, <3>2
  <2>7. ASSUME NEW g \in Goal, GoalNext(g) PROVE OnePendingCheckpoint'
    BY <2>3, <2>7 DEF GoalNext, Submit, CrashInSubmit, ReconcileGoalProgress, FailGoal,
                      RetryNeedHuman, CancelGoal, EffectCancel, Handoff
  <2>8. ASSUME NEW t \in Task, TaskNext(t) PROVE OnePendingCheckpoint'
    BY <2>3, <2>4, <2>8 DEF TaskNext, AddChildTask, StartTask, MarkRunStarted,
          RequeueCheckpointTask, ClaimTaskDispatch, BindTaskRun, FinishTask
  <2>9. ASSUME NEW d \in Decision, DecisionNext(d) PROVE OnePendingCheckpoint'
    BY <2>3, <2>5, <2>6, <2>9 DEF DecisionNext, CrashInResolve
  <2> QED BY <2>3, <2>7, <2>8, <2>9 DEF Next, durableVars
<1> QED BY <1>1, <1>2, TypeCorrect, PTL DEF Spec

----------------------------------------------------------------------------
(* What a step may never do. *)

\* What a step does to the state of a goal.
StateKept(g) == /\ goal[g].state # "absent" => goal'[g].state # "absent"
                /\ goal[g].state \in {"completed", "cancelled"} => goal'[g].state = goal[g].state

\* Decisions change the contract of a goal, never its state.
LEMMA DecisionKeepsState ==
  ASSUME TypeOK, NEW d \in Decision, DecisionNext(d), NEW h \in Goal
  PROVE  goal'[h].state = goal[h].state
<1>1. goal \in [Goal -> Snapshot] /\ \A g \in Goal : goal[g] \in Snapshot BY Rows DEF TypeOK
<1>2. ASSUME NEW a, NEW ver, NEW v, NEW scope, ResolveDecision(d, a, ver, v, scope)
      PROVE  goal'[h].state = goal[h].state
  BY <1>1, <1>2 DEF ResolveDecision, Snapshot
<1> QED BY <1>2 DEF DecisionNext, OpenDecision, CrashInResolve

LEMMA GoalMoves ==
  ASSUME TypeOK, [Next]_durableVars, NEW h \in Goal
  PROVE  StateKept(h)
<1>1. /\ goal \in [Goal -> Snapshot] /\ \A g \in Goal : goal[g] \in Snapshot
      /\ \A t \in Task : GoalOf[t] \in Goal
  BY Rows, GoalOfTask DEF TypeOK
<1>2. ASSUME goal'[h].state \in {goal[h].state, Started(goal[h].state)} PROVE StateKept(h)
  BY <1>2 DEF StateKept, Started
<1>3. ASSUME NEW g \in Goal, GoalNext(g) PROVE StateKept(h)
  <2>1. ASSUME NEW c, NEW seed, Submit(g, c, seed) PROVE StateKept(h)
    BY <1>1, <2>1 DEF Submit, Known, StateKept, Snapshot
  <2>2. CASE ReconcileGoalProgress(g)
    <3>1. h # g => goal'[h] = goal[h] BY <1>1, <2>2 DEF ReconcileGoalProgress
    <3>2. h = g => goal'[h].state = Reconciled(g) BY <1>1, <2>2 DEF ReconcileGoalProgress, Snapshot
    <3> QED BY <2>2, <3>1, <3>2 DEF StateKept, Reconciled, TerminalGoal
  <2>3. CASE FailGoal(g)
    BY <1>1, <2>3 DEF FailGoal, StateKept, TerminalGoal, Snapshot
  <2>4. ASSUME NEW t, NEW resume, RetryNeedHuman(g, t, resume) PROVE StateKept(h)
    BY <1>1, <2>4 DEF RetryNeedHuman, CanRetry, StateKept, Snapshot
  <2>5. CASE CancelGoal(g)
    BY <1>1, <2>5 DEF CancelGoal, StateKept, TerminalGoal, Snapshot
  <2>6. CASE EffectCancel(g)
    BY <1>1, <2>6 DEF EffectCancel, CanEffectCancel, StateKept, Snapshot
  <2>7. ASSUME goal' = goal PROVE StateKept(h) BY <2>7 DEF StateKept
  <2> QED BY <1>3, <2>1, <2>2, <2>3, <2>4, <2>5, <2>6, <2>7 DEF GoalNext, CrashInSubmit, Handoff
<1>4. ASSUME NEW t \in Task, TaskNext(t) PROVE StateKept(h)
  <2>1. ASSUME goal' = [goal EXCEPT ![GoalOf[t]].state = Started(@)] PROVE StateKept(h)
    BY <1>1, <1>2, <2>1 DEF Snapshot
  <2>2. ASSUME NEW res, NEW close, NEW r, FinishTask(t, res, close, r) PROVE StateKept(h)
    <3>1. h # GoalOf[t] => goal'[h] = goal[h] BY <1>1, <2>2 DEF FinishTask
    <3>2. h = GoalOf[t] => goal'[h].state = GoalAfterFinish(t, res, close)
      BY <1>1, <2>2 DEF FinishTask, Snapshot
    <3> QED BY <3>1, <3>2 DEF StateKept, GoalAfterFinish, TerminalGoal
  <2>3. CASE RequeueCheckpointTask(t)
    <3>1. goal'[h].state = goal[h].state BY <1>1, <2>3 DEF RequeueCheckpointTask, Snapshot
    <3> QED BY <1>2, <3>1
  <2>4. ASSUME goal' = goal PROVE StateKept(h) BY <2>4 DEF StateKept
  <2> QED BY <1>4, <2>1, <2>2, <2>3, <2>4 DEF TaskNext, AddChildTask, StartTask, MarkRunStarted,
                                             ClaimTaskDispatch, BindTaskRun, OpenCheckpoint
<1>5. ASSUME NEW d \in Decision, DecisionNext(d) PROVE StateKept(h)
  BY <1>2, <1>5, DecisionKeepsState
<1>6. CASE UNCHANGED durableVars BY <1>6 DEF durableVars, StateKept
<1> QED BY <1>3, <1>4, <1>5, <1>6 DEF Next

\* A task is only admitted to a goal that the store knows.
Admitted == \A t \in Task : task[t].status # "absent" => Known(GoalOf[t])

\* What a step does to the status of a task.
StatusKept(t) ==
  /\ task'[t].status # "absent" => task[t].status # "absent" \/ goal'[GoalOf[t]].state # "absent"
  /\ task[t].status \in {"succeeded", "cancelled"} => task'[t].status = task[t].status

LEMMA TaskMoves ==
  ASSUME TypeOK, Admitted, [Next]_durableVars, NEW u \in Task
  PROVE  StatusKept(u)
<1>1. /\ goal \in [Goal -> Snapshot] /\ task \in [Task -> TaskRow]
      /\ \A g \in Goal : goal[g] \in Snapshot
      /\ \A t \in Task : task[t] \in TaskRow /\ GoalOf[t] \in Goal
  BY Rows, GoalOfTask DEF TypeOK
<1>2. ASSUME task'[u].status = task[u].status PROVE StatusKept(u) BY <1>2 DEF StatusKept
<1>3. ASSUME task[u].status \notin {"absent", "succeeded", "cancelled"} PROVE StatusKept(u)
  BY <1>3 DEF StatusKept
<1>4. ASSUME NEW s, TaskMay(task[u].status, s), task'[u].status = s PROVE StatusKept(u)
  BY <1>4 DEF StatusKept, TaskMay, TaskState, TaskEdge
<1>5. ASSUME NEW g \in Goal, GoalNext(g) PROVE StatusKept(u)
  <2>1. ASSUME NEW c, NEW seed \in SUBSET {t \in Task : GoalOf[t] = g}, Submit(g, c, seed)
        PROVE  StatusKept(u)
    <3>1. CASE u \in seed
      <4>1. task[u].status = "absent" BY <2>1, <3>1 DEF Submit, Admitted
      <4>2. goal'[GoalOf[u]].state # "absent" BY <1>1, <2>1, <3>1 DEF Submit, Snapshot
      <4> QED BY <4>1, <4>2 DEF StatusKept
    <3>2. CASE u \notin seed BY <1>2, <2>1, <3>2 DEF Submit
    <3> QED BY <3>1, <3>2
  <2>2. ASSUME NEW t \in Task, NEW resume, RetryNeedHuman(g, t, resume) PROVE StatusKept(u)
    <3>1. u # t => task'[u] = task[u] BY <1>1, <2>2 DEF RetryNeedHuman
    <3>2. u = t => task'[u].status = "queued" BY <1>1, <2>2 DEF RetryNeedHuman, TaskRow
    <3> QED BY <1>2, <1>4, <2>2, <3>1, <3>2 DEF RetryNeedHuman, CanRetry
  <2>3. CASE CancelGoal(g)
    <3>1. task'[u] = task[u] \/ task[u].status \in TerminableTask BY <1>1, <2>3 DEF CancelGoal
    <3> QED BY <1>2, <1>3, <3>1 DEF TerminableTask
  <2>4. CASE EffectCancel(g)
    <3>1. task'[u] = task[u] \/ task[u].status \in InFlight \cup {"queued", "blocked"}
      BY <1>1, <2>4 DEF EffectCancel
    <3> QED BY <1>2, <1>3, <3>1 DEF InFlight, TerminableTask
  <2>5. ASSUME task' = task PROVE StatusKept(u) BY <1>2, <2>5
  <2> QED BY <1>5, <2>1, <2>2, <2>3, <2>4, <2>5 DEF GoalNext, CrashInSubmit,
                                                   ReconcileGoalProgress, FailGoal, Handoff
<1>6. ASSUME NEW t \in Task, TaskNext(t) PROVE StatusKept(u)
  <2>1. CASE u # t
    <3>1. task'[u] = task[u]
      BY <1>1, <1>6, <2>1 DEF TaskNext, AddChildTask, StartTask, MarkRunStarted,
            RequeueCheckpointTask, ClaimTaskDispatch, BindTaskRun, FinishTask, OpenCheckpoint
    <3> QED BY <1>2, <3>1
  <2>2. CASE u = t
    <3>1. CASE AddChildTask(t)
      <4>1. task[u].status = "absent" BY <2>2, <3>1 DEF AddChildTask, CanAddChildTask
      <4>2. goal[GoalOf[u]].state # "absent" BY <2>2, <3>1 DEF AddChildTask, CanAddChildTask, Known
      <4>3. goal'[GoalOf[u]].state # "absent" BY <1>1, <4>2, GoalMoves DEF StateKept
      <4> QED BY <4>1, <4>3 DEF StatusKept
    <3>2. CASE StartTask(t)
      <4>1. task'[u].status = "running" BY <1>1, <2>2, <3>2 DEF StartTask, TaskRow
      <4> QED BY <1>4, <2>2, <3>2, <4>1 DEF StartTask, CanStart
    <3>3. ASSUME NEW k, ClaimTaskDispatch(t, k) PROVE StatusKept(u)
      BY <1>3, <2>2, <3>3 DEF ClaimTaskDispatch, CanClaimDispatch
    <3>4. ASSUME NEW r, BindTaskRun(t, r) PROVE StatusKept(u)
      BY <1>3, <2>2, <3>4 DEF BindTaskRun, CanBind
    <3>5. CASE MarkRunStarted(t)
      <4>1. task'[u].status = task[u].status BY <1>1, <2>2, <3>5 DEF MarkRunStarted, TaskRow
      <4> QED BY <1>2, <4>1
    <3>6. ASSUME NEW res, NEW close, NEW r, FinishTask(t, res, close, r) PROVE StatusKept(u)
      <4>1. task'[u].status = Outcome(res) BY <1>1, <2>2, <3>6 DEF FinishTask, TaskRow
      <4> QED BY <1>4, <2>2, <3>6, <4>1 DEF FinishTask, CanFinish
    <3>7. CASE RequeueCheckpointTask(t)
      <4>1. task'[u].status = "queued" BY <1>1, <2>2, <3>7 DEF RequeueCheckpointTask, NewTask
      <4> QED BY <1>4, <2>2, <3>7, <4>1 DEF RequeueCheckpointTask, CanRequeue
    <3>8. ASSUME NEW d, OpenCheckpoint(d, t) PROVE StatusKept(u)
      <4>1. task'[u].status = "awaiting_decision" BY <1>1, <2>2, <3>8 DEF OpenCheckpoint, TaskRow
      <4> QED BY <1>4, <2>2, <3>8, <4>1 DEF OpenCheckpoint, CanOpenCheckpoint
    <3> QED BY <1>6, <3>1, <3>2, <3>3, <3>4, <3>5, <3>6, <3>7, <3>8 DEF TaskNext
  <2> QED BY <2>1, <2>2
<1>7. ASSUME NEW d \in Decision, DecisionNext(d) PROVE StatusKept(u)
  <2>1. ASSUME NEW k, NEW g, NEW t, OpenDecision(d, k, g, t) PROVE StatusKept(u)
    <3>1. task'[u] = task[u] \/ task'[u] = Paused(u, d) BY <1>1, <2>1 DEF OpenDecision
    <3>2. Paused(u, d).status = task[u].status \/ task[u].status = "running"
      BY <1>1 DEF Paused, TaskRow
    <3> QED BY <1>2, <1>3, <3>1, <3>2
  <2>2. ASSUME NEW a, NEW ver, NEW v, NEW scope, ResolveDecision(d, a, ver, v, scope)
        PROVE  StatusKept(u)
    <3>1. task'[u] = task[u] \/ task[u].status = "awaiting_decision"
      BY <1>1, <2>2 DEF ResolveDecision, Resumes
    <3> QED BY <1>2, <1>3, <3>1
  <2> QED BY <1>2, <1>7, <2>1, <2>2 DEF DecisionNext, CrashInResolve
<1>8. CASE UNCHANGED durableVars BY <1>2, <1>8 DEF durableVars
<1> QED BY <1>5, <1>6, <1>7, <1>8 DEF Next

LEMMA AdmittedInvariant == Spec => []Admitted
<1>1. Init => Admitted BY DEF Init, Admitted, AbsentTask, NewTask
<1>2. TypeOK /\ Admitted /\ [Next]_durableVars => Admitted'
  BY GoalMoves, TaskMoves, GoalOfTask DEF Admitted, Known, StateKept, StatusKept
<1> QED BY <1>1, <1>2, TypeCorrect, PTL DEF Spec

\* The states that lifecycle.py calls final are final, although cancel_goal and
\* effect_cancel write a status without assert_transition, and submit_goal and
\* fail_goal replace records.
THEOREM FinalIsFinal == Spec => FinalStaysFinal
<1>1. TypeOK /\ Admitted /\ [Next]_durableVars =>
        [/\ \A g \in Goal : goal[g].state \in {"completed", "cancelled"} =>
                               goal'[g].state = goal[g].state
         /\ \A t \in Task : task[t].status \in {"succeeded", "cancelled"} =>
                               task'[t].status = task[t].status]_durableVars
  BY GoalMoves, TaskMoves DEF StateKept, StatusKept
<1> QED BY <1>1, TypeCorrect, AdmittedInvariant, PTL DEF Spec, FinalStaysFinal

\* The state of a goal becomes completed by finish_task or by the reconciliation, and both
\* have seen all of its tasks.
THEOREM CompletionIsAlwaysEarned == Spec => CompletionIsEarned
<1> DEFINE Earned(g) == goal[g].state # "completed" /\ goal'[g].state = "completed"
                          => AllSucceeded(g)'
<1>1. ASSUME TypeOK, [Next]_durableVars, NEW h \in Goal PROVE Earned(h)
  <2>1. /\ goal \in [Goal -> Snapshot] /\ task \in [Task -> TaskRow]
        /\ \A g \in Goal : goal[g] \in Snapshot
        /\ \A t \in Task : task[t] \in TaskRow /\ GoalOf[t] \in Goal
    BY <1>1, Rows, GoalOfTask DEF TypeOK
  <2>2. CASE ReconcileGoalProgress(h)
    <3>1. goal'[h].state = Reconciled(h) /\ task' = task
      BY <2>1, <2>2 DEF ReconcileGoalProgress, Snapshot
    <3>2. Reconciled(h) = "completed" => goal[h].state = "completed" \/ AllSucceeded(h)
      BY DEF Reconciled
    <3>3. AllSucceeded(h) => AllSucceeded(h)' BY <3>1 DEF AllSucceeded, TasksOf
    <3> QED BY <3>1, <3>2, <3>3
  <2>3. ASSUME NEW t \in Task, NEW res, NEW close, NEW r, FinishTask(t, res, close, r), GoalOf[t] = h
        PROVE  Earned(h)
    <3>1. goal'[h].state = GoalAfterFinish(t, res, close)
      BY <2>1, <2>3 DEF FinishTask, Snapshot
    <3>2. GoalAfterFinish(t, res, close) = "completed" =>
            \/ goal[h].state = "completed"
            \/ res = "ok" /\ \A u \in TasksOf(h) \ {t} : task[u].status = "succeeded"
      BY <2>3 DEF GoalAfterFinish
    <3>3. /\ task'[t].status = Outcome(res)
          /\ \A u \in Task \ {t} : task'[u] = task[u]
      BY <2>1, <2>3 DEF FinishTask, TaskRow
    <3>4. ASSUME res = "ok", \A u \in TasksOf(h) \ {t} : task[u].status = "succeeded"
          PROVE  AllSucceeded(h)'
      BY <2>3, <3>3, <3>4 DEF AllSucceeded, TasksOf, Outcome
    <3> QED BY <3>1, <3>2, <3>4
  <2>4. ASSUME goal'[h].state = goal[h].state \/ goal'[h].state # "completed"
        PROVE  Earned(h)
    BY <2>4
  <2>5. ASSUME NEW g \in Goal, GoalNext(g) PROVE Earned(h)
    <3>1. CASE ReconcileGoalProgress(g)
      BY <2>1, <2>2, <2>4, <3>1 DEF ReconcileGoalProgress
    <3>2. ASSUME NEW c, NEW seed, Submit(g, c, seed) PROVE Earned(h)
      BY <2>1, <2>4, <3>2 DEF Submit, Snapshot
    <3>3. CASE FailGoal(g) BY <2>1, <2>4, <3>3 DEF FailGoal, Snapshot
    <3>4. ASSUME NEW t, NEW resume, RetryNeedHuman(g, t, resume) PROVE Earned(h)
      BY <2>1, <2>4, <3>4 DEF RetryNeedHuman, Snapshot
    <3>5. CASE CancelGoal(g) BY <2>1, <2>4, <3>5 DEF CancelGoal, Snapshot
    <3>6. CASE EffectCancel(g) BY <2>1, <2>4, <3>6 DEF EffectCancel, Snapshot
    <3> QED BY <2>4, <2>5, <3>1, <3>2, <3>3, <3>4, <3>5, <3>6 DEF GoalNext, CrashInSubmit, Handoff
  <2>6. ASSUME NEW t \in Task, TaskNext(t) PROVE Earned(h)
    <3>1. ASSUME goal' = [goal EXCEPT ![GoalOf[t]].state = Started(@)] PROVE Earned(h)
      <4>1. goal'[h].state \in {goal[h].state, Started(goal[h].state)} BY <2>1, <3>1 DEF Snapshot
      <4> QED BY <2>4, <4>1 DEF Started
    <3>2. ASSUME NEW res, NEW close, NEW r, FinishTask(t, res, close, r) PROVE Earned(h)
      <4>1. h # GoalOf[t] => goal'[h] = goal[h] BY <2>1, <3>2 DEF FinishTask
      <4> QED BY <2>3, <2>4, <3>2, <4>1
    <3>3. CASE RequeueCheckpointTask(t)
      <4>1. goal'[h].state = goal[h].state BY <2>1, <3>3 DEF RequeueCheckpointTask, Snapshot
      <4> QED BY <2>4, <4>1
    <3> QED BY <2>4, <2>6, <3>1, <3>2, <3>3 DEF TaskNext, AddChildTask, StartTask, MarkRunStarted,
                                               ClaimTaskDispatch, BindTaskRun, OpenCheckpoint
  <2>7. ASSUME NEW d \in Decision, DecisionNext(d) PROVE Earned(h)
    BY <1>1, <2>4, <2>7, DecisionKeepsState
  <2>8. CASE UNCHANGED durableVars BY <2>4, <2>8 DEF durableVars
  <2> QED BY <1>1, <2>5, <2>6, <2>7, <2>8 DEF Next
<1> HIDE DEF Earned
<1>2. TypeOK /\ [Next]_durableVars =>
        [\A g \in Goal : goal[g].state # "completed" /\ goal'[g].state = "completed" =>
           AllSucceeded(g)']_durableVars
  BY <1>1 DEF Earned
<1> QED BY <1>2, TypeCorrect, PTL DEF Spec, CompletionIsEarned

\* A contract is widened by the submitter alone, on a pending escalation and against the
\* contract that the escalation was opened under: the live coordinator never grants.
THEOREM GrantsAreTheSubmitters == Spec => OnlySubmitterGrants
<1> DEFINE Granted(g) ==
      goal'[g].contract # goal[g].contract =>
       \E d \in Decision :
         /\ decision[d].goal = g /\ decision[d].kind \in UpperKind
         /\ decision[d].status = "pending" /\ decision[d].bound = goal[g].contract
         /\ decision'[d].verdict = "grant" /\ decision'[d].by = Submitter
         /\ LiveCoordinator(g) # Submitter
<1>1. ASSUME TypeOK, [Next]_durableVars, NEW h \in Goal PROVE Granted(h)
  <2>1. /\ goal \in [Goal -> Snapshot] /\ decision \in [Decision -> DecisionRow]
        /\ \A g \in Goal : goal[g] \in Snapshot
        /\ \A d \in Decision : decision[d] \in DecisionRow
        /\ \A t \in Task : GoalOf[t] \in Goal
    BY <1>1, Rows, GoalOfTask DEF TypeOK
  <2>2. ASSUME goal'[h].contract = goal[h].contract PROVE Granted(h) BY <2>2
  <2>3. ASSUME NEW d \in Decision, NEW a, NEW ver, NEW v, NEW scope \in SUBSET Scope,
               ResolveDecision(d, a, ver, v, scope)
        PROVE  Granted(h)
    <3>1. h # decision[d].goal => goal'[h] = goal[h] BY <2>1, <2>3 DEF ResolveDecision
    <3>2. scope = {} => goal'[h].contract = goal[h].contract
      BY <2>1, <2>3 DEF ResolveDecision, Snapshot
    <3>3. CASE scope # {} /\ h = decision[d].goal
      <4>1. /\ v = "grant" /\ v \in Verdicts[decision[d].kind] /\ decision[d].status = "pending"
            /\ GrantFits(d, v, scope) /\ MayResolve(d, a, ver, v)
        BY <2>3, <3>3 DEF ResolveDecision, CanResolve
      <4>2. decision[d].kind \in Kind BY <2>1 DEF DecisionRow
      <4>3. decision[d].kind \in UpperKind BY <4>1, <4>2 DEF Verdicts, Kind, UpperKind
      <4>4. a = Submitter /\ LiveCoordinator(h) # Submitter BY <3>3, <4>1, <4>3 DEF MayResolve
      <4>5. decision[d].bound = goal[h].contract BY <3>3, <4>1 DEF GrantFits
      <4>6. decision'[d].verdict = "grant" /\ decision'[d].by = Submitter
        BY <2>1, <2>3, <4>1, <4>4 DEF ResolveDecision, DecisionRow
      <4> QED BY <3>3, <4>1, <4>3, <4>4, <4>5, <4>6
    <3> QED BY <2>2, <3>1, <3>2, <3>3
  <2>4. ASSUME NEW g \in Goal, GoalNext(g) PROVE goal'[h].contract = goal[h].contract
    <3>1. ASSUME NEW c, NEW seed, Submit(g, c, seed) PROVE goal'[h].contract = goal[h].contract
      BY <2>1, <3>1 DEF Submit, Snapshot
    <3>2. ASSUME NEW t, NEW resume, RetryNeedHuman(g, t, resume)
          PROVE  goal'[h].contract = goal[h].contract
      BY <2>1, <3>2 DEF RetryNeedHuman, Snapshot
    <3>3. CASE ReconcileGoalProgress(g) BY <2>1, <3>3 DEF ReconcileGoalProgress, Snapshot
    <3>4. CASE FailGoal(g) BY <2>1, <3>4 DEF FailGoal, Snapshot
    <3>5. CASE CancelGoal(g) BY <2>1, <3>5 DEF CancelGoal, Snapshot
    <3>6. CASE EffectCancel(g) BY <2>1, <3>6 DEF EffectCancel, Snapshot
    <3> QED BY <2>4, <3>1, <3>2, <3>3, <3>4, <3>5, <3>6 DEF GoalNext, CrashInSubmit, Handoff
  <2>5. ASSUME NEW t \in Task, TaskNext(t) PROVE goal'[h].contract = goal[h].contract
    <3>1. ASSUME goal' = [goal EXCEPT ![GoalOf[t]].state = Started(@)]
          PROVE  goal'[h].contract = goal[h].contract
      BY <2>1, <3>1 DEF Snapshot
    <3>2. ASSUME NEW res, NEW close, NEW r, FinishTask(t, res, close, r)
          PROVE  goal'[h].contract = goal[h].contract
      BY <2>1, <3>2 DEF FinishTask, Snapshot
    <3>3. CASE RequeueCheckpointTask(t) BY <2>1, <3>3 DEF RequeueCheckpointTask, Snapshot
    <3> QED BY <2>5, <3>1, <3>2, <3>3 DEF TaskNext, AddChildTask, StartTask, MarkRunStarted,
                                         ClaimTaskDispatch, BindTaskRun, OpenCheckpoint
  <2>6. ASSUME NEW d \in Decision, DecisionNext(d) PROVE Granted(h)
    BY <2>2, <2>3, <2>6 DEF DecisionNext, OpenDecision, CrashInResolve
  <2>7. CASE UNCHANGED durableVars BY <2>7 DEF durableVars
  <2> QED BY <1>1, <2>2, <2>4, <2>5, <2>6, <2>7 DEF Next
<1> HIDE DEF Granted
<1>2. TypeOK /\ [Next]_durableVars =>
        [\A g \in Goal : goal'[g].contract # goal[g].contract =>
          \E d \in Decision :
            /\ decision[d].goal = g /\ decision[d].kind \in UpperKind
            /\ decision[d].status = "pending" /\ decision[d].bound = goal[g].contract
            /\ decision'[d].verdict = "grant" /\ decision'[d].by = Submitter
            /\ LiveCoordinator(g) # Submitter]_durableVars
  BY <1>1 DEF Granted
<1> QED BY <1>2, TypeCorrect, PTL DEF Spec, OnlySubmitterGrants

\* A task that waits is let go by a grant on the decision it waits for, or goes back to the
\* queue; a verdict on an older decision of the task does not touch it.
THEOREM GrantsUnblockTheirTask == Spec => UnblockedByItsDecision
<1> DEFINE Own(t) ==
      task[t].blockedOn # NoDecision /\ task[t].status = "awaiting_decision"
        /\ task'[t].blockedOn = NoDecision =>
         \/ task'[t].status = "queued"
         \/ decision[task[t].blockedOn].status = "pending"
            /\ decision'[task[t].blockedOn].verdict = "grant"
<1>1. ASSUME TypeOK, [Next]_durableVars, NEW u \in Task PROVE Own(u)
  <2>1. /\ task \in [Task -> TaskRow] /\ decision \in [Decision -> DecisionRow]
        /\ \A t \in Task : task[t] \in TaskRow
    BY <1>1, Rows DEF TypeOK
  <2>2. ASSUME task'[u].blockedOn = task[u].blockedOn \/ task'[u].status = "queued"
               \/ task[u].status # "awaiting_decision"
        PROVE  Own(u)
    BY <2>2
  <2>3. ASSUME NEW d \in Decision, NEW a, NEW ver, NEW v, NEW scope,
               ResolveDecision(d, a, ver, v, scope)
        PROVE  Own(u)
    <3>1. CASE Resumes(d, v, scope) /\ u = decision[d].task
      <4>1. /\ decision[d].status = "pending" /\ v = "grant"
            /\ task[u].blockedOn \in {NoDecision, d}
        BY <2>3, <3>1 DEF ResolveDecision, CanResolve, Resumes
      <4>2. decision'[d].verdict = "grant"
        BY <2>1, <2>3, <4>1 DEF ResolveDecision, DecisionRow
      <4> QED BY <4>1, <4>2
    <3>2. CASE ~(Resumes(d, v, scope) /\ u = decision[d].task)
      <4>1. task'[u] = task[u] BY <2>1, <2>3, <3>2 DEF ResolveDecision
      <4> QED BY <2>2, <4>1
    <3> QED BY <3>1, <3>2
  <2>4. ASSUME NEW d \in Decision, NEW k, NEW g, NEW t, OpenDecision(d, k, g, t) PROVE Own(u)
    <3>1. task'[u] = task[u] \/ task'[u] = Paused(u, d) BY <2>1, <2>4 DEF OpenDecision
    <3>2. task[u].blockedOn # NoDecision /\ task[u].status = "awaiting_decision"
            => Paused(u, d) = task[u]
      BY DEF Paused
    <3> QED BY <2>2, <3>1, <3>2
  <2>5. ASSUME NEW g \in Goal, GoalNext(g) PROVE Own(u)
    <3>1. ASSUME NEW c, NEW seed, Submit(g, c, seed) PROVE Own(u)
      BY <2>1, <2>2, <3>1 DEF Submit, NewTask
    <3>2. ASSUME NEW t, NEW resume, RetryNeedHuman(g, t, resume) PROVE Own(u)
      <4>1. task'[u].blockedOn = task[u].blockedOn BY <2>1, <3>2 DEF RetryNeedHuman, TaskRow
      <4> QED BY <2>2, <4>1
    <3>3. CASE CancelGoal(g)
      <4>1. task'[u].blockedOn = task[u].blockedOn BY <2>1, <3>3 DEF CancelGoal, TaskRow
      <4> QED BY <2>2, <4>1
    <3>4. CASE EffectCancel(g)
      <4>1. task'[u].blockedOn = task[u].blockedOn BY <2>1, <3>4 DEF EffectCancel, TaskRow
      <4> QED BY <2>2, <4>1
    <3> QED BY <2>2, <2>5, <3>1, <3>2, <3>3, <3>4 DEF GoalNext, CrashInSubmit,
                                                    ReconcileGoalProgress, FailGoal, Handoff
  <2>6. ASSUME NEW t \in Task, TaskNext(t) PROVE Own(u)
    <3>1. CASE u # t
      <4>1. task'[u] = task[u]
        BY <2>1, <2>6, <3>1 DEF TaskNext, AddChildTask, StartTask, MarkRunStarted,
              RequeueCheckpointTask, ClaimTaskDispatch, BindTaskRun, FinishTask, OpenCheckpoint
      <4> QED BY <2>2, <4>1
    <3>2. CASE u = t
      <4>1. CASE AddChildTask(t) \/ RequeueCheckpointTask(t)
        BY <2>1, <2>2, <3>2, <4>1 DEF AddChildTask, RequeueCheckpointTask, NewTask
      <4>2. CASE StartTask(t) \/ MarkRunStarted(t)
        <5>1. task'[u].blockedOn = task[u].blockedOn
          BY <2>1, <4>2 DEF StartTask, MarkRunStarted, TaskRow
        <5> QED BY <2>2, <5>1
      <4>3. ASSUME NEW k, ClaimTaskDispatch(t, k) PROVE Own(u)
        BY <2>2, <3>2, <4>3 DEF ClaimTaskDispatch, CanClaimDispatch
      <4>4. ASSUME NEW r, BindTaskRun(t, r) PROVE Own(u)
        BY <2>2, <3>2, <4>4 DEF BindTaskRun, CanBind
      <4>5. ASSUME NEW res, NEW close, NEW r, FinishTask(t, res, close, r) PROVE Own(u)
        <5>1. task'[u].blockedOn = task[u].blockedOn BY <2>1, <4>5 DEF FinishTask, TaskRow
        <5> QED BY <2>2, <5>1
      <4>6. ASSUME NEW d \in Decision, OpenCheckpoint(d, t) PROVE Own(u)
        <5>1. task'[u].blockedOn = d BY <2>1, <3>2, <4>6 DEF OpenCheckpoint, TaskRow
        <5> QED BY <5>1, DurableAssumption
      <4> QED BY <2>6, <4>1, <4>2, <4>3, <4>4, <4>5, <4>6 DEF TaskNext
    <3> QED BY <3>1, <3>2
  <2>7. ASSUME NEW d \in Decision, DecisionNext(d) PROVE Own(u)
    BY <2>2, <2>3, <2>4, <2>7 DEF DecisionNext, CrashInResolve
  <2>8. CASE UNCHANGED durableVars BY <2>2, <2>8 DEF durableVars
  <2> QED BY <1>1, <2>5, <2>6, <2>7, <2>8 DEF Next
<1> HIDE DEF Own
<1>2. TypeOK /\ [Next]_durableVars =>
        [\A t \in Task :
           LET d == task[t].blockedOn IN
           d # NoDecision /\ task[t].status = "awaiting_decision"
             /\ task'[t].blockedOn = NoDecision =>
             \/ task'[t].status = "queued"
             \/ decision[d].status = "pending" /\ decision'[d].verdict = "grant"]_durableVars
  BY <1>1 DEF Own
<1> QED BY <1>2, TypeCorrect, PTL DEF Spec, UnblockedByItsDecision

-----------------------------------------------------------------------------
(* The service.                                                            *)

TickRow == [pc : {"idle", "stop", "effect", "admit", "observe", "dispatch", "claim", "stamp",
                  "fresh", "finish", "park", "reconcile", "budget"},
            goal : Goal \cup {NoGoal}, todo : SUBSET Task, task : Task \cup {NoTask},
            out : Result, run : Run \cup {NoRun}, back : {"idle", "observe", "dispatch"}]
LaunchRow == [st : {"none", "starting", "started", "failed"}, task : Task \cup {NoTask},
              run : Run \cup {NoRun}, skipped : SUBSET Task]
RunRow == [st : {"unused", "live", "asking", "exited", "lost"}, task : Task \cup {NoTask}]

\* CoordTypeOK without the types of the store.
ControlOK ==
  /\ tick \in TickRow
  /\ launch \in [Claim -> LaunchRow]
  /\ planning \in [Goal -> {"none", "busy", "done"}]
  /\ cancelling \in [Goal -> {"none", "stopping", "effecting"}]
  /\ resuming \subseteq Task
  /\ applying \in [Decision -> {"none", "record", "continue", "stop", "reconcile"}]
  /\ runs \in [Run -> RunRow]
  /\ expired \subseteq Goal
  /\ crashes \in 0 .. MaxCrashes

\* The thread with the lock has a goal, and from its claim to the result a task.  The run
\* it settles is the task's, unless a retry or a "continue" has taken it away meanwhile.
TickInv ==
  /\ tick.pc # "idle" => tick.goal \in Goal
  /\ tick.pc \in {"claim", "stamp", "fresh", "finish", "park"} => tick.task \in Task
  /\ tick.pc = "finish" => tick.out # "none"
  /\ tick.pc \in {"stamp", "fresh", "finish", "park"} =>
       tick.run = NoRun \/ task[tick.task].run \in {NoRun, tick.run}

LaunchInv ==
  \A k \in Claim : launch[k].st # "none" =>
    /\ launch[k].task \in Task
    /\ IF launch[k].st = "started" THEN launch[k].run \in Run ELSE launch[k].run = NoRun

\* Only verdicts on checkpoints are applied in a second step, and a checkpoint is about
\* a task.
ApplyInv ==
  \A d \in Decision :
    /\ decision[d].status = "unopened" => decision[d].kind # "checkpoint"
    /\ decision[d].kind = "checkpoint" => decision[d].task \in Task /\ decision[d].goal \in Goal
    /\ applying[d] \in {"continue", "stop", "reconcile"} => decision[d].kind = "checkpoint"

RefInv == TypeOK /\ ControlOK /\ TickInv /\ LaunchInv /\ ApplyInv

StoreStep == Next \/ UNCHANGED durableVars

\* Nobody but the thread with the lock gives a task a run.
RunsKept == \A u \in Task : task'[u].run \in {task[u].run, NoRun}

----------------------------------------------------------------------------
(* The parts of the invariant.                                             *)

LEMMA TypesJoin == TypeOK /\ ControlOK <=> CoordTypeOK
  BY DEF ControlOK, CoordTypeOK, TickRow, LaunchRow, RunRow

\* A decision that is opened is pending, and about a task if it is a checkpoint.
LEMMA DecisionOpens ==
  ASSUME TypeOK, [Next]_durableVars, NEW d \in Decision, decision[d].status = "unopened"
  PROVE  \/ decision'[d] = decision[d]
         \/ /\ decision'[d].status = "pending"
            /\ decision'[d].kind = "checkpoint" =>
                 decision'[d].task \in Task /\ decision'[d].goal \in Goal
<1> DEFINE Stands == \/ decision'[d] = decision[d]
                     \/ /\ decision'[d].status = "pending"
                        /\ decision'[d].kind = "checkpoint" =>
                             decision'[d].task \in Task /\ decision'[d].goal \in Goal
<1>1. decision \in [Decision -> DecisionRow] BY DEF TypeOK
<1>2. ASSUME NEW e \in Decision, NEW k \in Kind, NEW g, NEW t, Open(e, k, g, t),
             k = "checkpoint" => t \in Task /\ g \in Goal
      PROVE  Stands
  BY <1>1, <1>2 DEF Open, Unopened
<1>3. ASSUME NEW e \in Decision, NEW a, NEW ver, NEW v, NEW scope,
             ResolveDecision(e, a, ver, v, scope)
      PROVE  Stands
  BY <1>1, <1>3 DEF ResolveDecision, CanResolve
<1>4. ASSUME decision' = decision PROVE Stands BY <1>4
<1> HIDE DEF Stands
<1>5. ASSUME NEW g \in Goal, GoalNext(g) PROVE Stands
  BY <1>4, <1>5 DEF GoalNext, Submit, CrashInSubmit, ReconcileGoalProgress, FailGoal,
                    RetryNeedHuman, CancelGoal, EffectCancel, Handoff
<1>6. ASSUME NEW t \in Task, NEW e \in Decision, OpenCheckpoint(e, t) PROVE Stands
  BY <1>2, <1>6, GoalOfTask DEF OpenCheckpoint, Kind
<1>7. ASSUME NEW t \in Task, TaskNext(t) PROVE Stands
  BY <1>4, <1>6, <1>7 DEF TaskNext, AddChildTask, StartTask, MarkRunStarted,
        RequeueCheckpointTask, ClaimTaskDispatch, BindTaskRun, FinishTask
<1>8. ASSUME NEW e \in Decision, DecisionNext(e) PROVE Stands
  BY <1>2, <1>3, <1>4, <1>8 DEF DecisionNext, OpenDecision, CrashInResolve
<1> QED BY <1>4, <1>5, <1>7, <1>8 DEF Next, durableVars, Stands

\* Whatever the store does, a verdict that is being applied is on a checkpoint.
LEMMA ApplyFrame ==
  ASSUME TypeOK, ApplyInv, [Next]_durableVars,
         \A d \in Decision : applying'[d] \in {"continue", "stop", "reconcile"}
                               => decision[d].kind = "checkpoint"
  PROVE  ApplyInv'
<1> SUFFICES ASSUME NEW d \in Decision
             PROVE  /\ decision'[d].status = "unopened" => decision'[d].kind # "checkpoint"
                    /\ decision'[d].kind = "checkpoint" =>
                         decision'[d].task \in Task /\ decision'[d].goal \in Goal
                    /\ applying'[d] \in {"continue", "stop", "reconcile"}
                         => decision'[d].kind = "checkpoint"
  BY DEF ApplyInv
<1>1. CASE decision[d].status = "unopened"
  BY <1>1, DecisionOpens DEF ApplyInv
<1>2. CASE decision[d].status # "unopened"
  BY <1>2, DecisionMoves DEF Keeps, ApplyInv
<1> QED BY <1>1, <1>2

\* While others work, the tick keeps what it holds.
LEMMA TickFrame ==
  ASSUME TickInv, ControlOK, tick' = tick, RunsKept
  PROVE  TickInv'
  BY DEF TickInv, RunsKept

LEMMA LaunchFrame ==
  ASSUME LaunchInv, launch' = launch
  PROVE  LaunchInv'
  BY DEF LaunchInv

\* A cancelled run has exited.
LEMMA StopTypes ==
  ASSUME runs \in [Run -> RunRow], NEW S, Stop(S)
  PROVE  runs' \in [Run -> RunRow]
  BY DEF Stop, RunRow

----------------------------------------------------------------------------
(* The application operations leave the tick and the launches alone.       *)

Beside == tick' = tick /\ launch' = launch /\ RunsKept /\ ControlOK'
          /\ \A d \in Decision : applying'[d] \in {"continue", "stop", "reconcile"}
                                   => decision[d].kind = "checkpoint"

\* Nothing in the store changes.
LEMMA RunsSame == UNCHANGED durableVars => RunsKept
  BY DEF durableVars, RunsKept

LEMMA ApplyingSame ==
  ASSUME ApplyInv, applying' = applying
  PROVE  \A d \in Decision : applying'[d] \in {"continue", "stop", "reconcile"}
                               => decision[d].kind = "checkpoint"
  BY DEF ApplyInv

\* Submitting and cancelling a goal.
LEMMA ApiGoal ==
  ASSUME RefInv, NEW g \in Goal,
         ApiSubmit(g) \/ ApiCancel(g) \/ ApiStopRuns(g) \/ ApiEffect(g)
  PROVE  StoreStep /\ Beside
<1>1. task \in [Task -> TaskRow] /\ \A t \in Task : task[t] \in TaskRow
  BY Rows DEF RefInv, TypeOK
<1>2. CASE ApiSubmit(g)
  <2>1. GoalNext(g) BY <1>2 DEF ApiSubmit, GoalNext
  <2>2. RunsKept BY <1>1, <1>2 DEF ApiSubmit, Submit, RunsKept
  <2>3. ControlOK' /\ tick' = tick /\ launch' = launch /\ applying' = applying
    BY <1>2 DEF ApiSubmit, RefInv, ControlOK, coordVars, apiVars, envVars
  <2> QED BY <2>1, <2>2, <2>3, ApplyingSame DEF StoreStep, Next, Beside, RefInv
<1>3. CASE ApiCancel(g)
  <2>1. GoalNext(g) BY <1>3 DEF ApiCancel, GoalNext
  <2>2. RunsKept BY <1>1, <1>3 DEF ApiCancel, CancelGoal, RunsKept, TaskRow
  <2>3. ControlOK' /\ tick' = tick /\ launch' = launch /\ applying' = applying
    BY <1>3 DEF ApiCancel, RefInv, ControlOK, envVars
  <2> QED BY <2>1, <2>2, <2>3, ApplyingSame DEF StoreStep, Next, Beside, RefInv
<1>4. CASE ApiStopRuns(g)
  <2>1. runs' \in [Run -> RunRow] BY <1>4, StopTypes DEF ApiStopRuns, RefInv, ControlOK
  <2>2. cancelling' \in [Goal -> {"none", "stopping", "effecting"}]
    BY <1>4 DEF ApiStopRuns, RefInv, ControlOK
  <2>3. ControlOK' /\ tick' = tick /\ launch' = launch /\ applying' = applying
    BY <1>4, <2>1, <2>2 DEF ApiStopRuns, RefInv, ControlOK, coordVars
  <2> QED BY <1>4, <2>3, ApplyingSame, RunsSame DEF ApiStopRuns, StoreStep, Beside, RefInv
<1>5. CASE ApiEffect(g)
  <2>1. GoalNext(g) \/ UNCHANGED durableVars BY <1>5 DEF ApiEffect, GoalNext
  <2>2. EffectCancel(g) => RunsKept BY <1>1 DEF EffectCancel, RunsKept, TaskRow
  <2>3. RunsKept BY <1>5, <2>2, RunsSame DEF ApiEffect
  <2>4. ControlOK' /\ tick' = tick /\ launch' = launch /\ applying' = applying
    BY <1>5 DEF ApiEffect, RefInv, ControlOK, coordVars, envVars
  <2> QED BY <2>1, <2>3, <2>4, ApplyingSame DEF StoreStep, Next, Beside, RefInv
<1> QED BY <1>2, <1>3, <1>4, <1>5

\* Retrying a task.
LEMMA ApiTask ==
  ASSUME RefInv, NEW t \in Task, ApiRetry(t) \/ ApiResume(t)
  PROVE  StoreStep /\ Beside
<1>1. task \in [Task -> TaskRow] /\ \A u \in Task : task[u] \in TaskRow
  BY Rows DEF RefInv, TypeOK
<1>2. CASE ApiRetry(t)
  <2>1. PICK resume \in BOOLEAN : /\ RetryNeedHuman(GoalOf[t], t, resume)
                                  /\ resuming' = IF resume THEN resuming \cup {t} ELSE resuming
    BY <1>2 DEF ApiRetry
  <2>2. GoalNext(GoalOf[t]) BY <2>1 DEF GoalNext
  <2>3. RunsKept BY <1>1, <2>1 DEF RetryNeedHuman, RunsKept, TaskRow
  <2>4. ControlOK' /\ tick' = tick /\ launch' = launch /\ applying' = applying
    BY <1>2, <2>1 DEF ApiRetry, RefInv, ControlOK, coordVars, envVars
  <2> QED BY <2>2, <2>3, <2>4, ApplyingSame, GoalOfTask DEF StoreStep, Next, Beside, RefInv
<1>3. CASE ApiResume(t)
  <2>1. TaskNext(t) \/ UNCHANGED durableVars BY <1>3 DEF ApiResume, TaskNext
  <2>2. StartTask(t) => RunsKept BY <1>1 DEF StartTask, RunsKept, TaskRow
  <2>3. RunsKept BY <1>3, <2>2, RunsSame DEF ApiResume
  <2>4. ControlOK' /\ tick' = tick /\ launch' = launch /\ applying' = applying
    BY <1>3 DEF ApiResume, RefInv, ControlOK, coordVars, envVars
  <2> QED BY <2>1, <2>3, <2>4, ApplyingSame DEF StoreStep, Next, Beside, RefInv
<1> QED BY <1>2, <1>3

\* A verdict keeps the runs of the tasks.
LEMMA VerdictRuns ==
  ASSUME TypeOK, NEW d, NEW a, NEW ver, NEW v, NEW scope, ResolveDecision(d, a, ver, v, scope)
  PROVE  RunsKept
<1>1. task \in [Task -> TaskRow] /\ \A u \in Task : task[u] \in TaskRow BY Rows DEF TypeOK
<1> QED BY <1>1 DEF ResolveDecision, RunsKept, TaskRow

\* Recording a verdict is a step of the store.
LEMMA VerdictStep ==
  ASSUME TypeOK, NEW d \in Decision, NEW a \in Actor, NEW v, ResolveDecision(d, a, 0, v, {})
  PROVE  DecisionNext(d)
<1>1. v \in Verdicts[decision[d].kind] /\ decision[d].kind \in Kind
  BY Rows DEF ResolveDecision, CanResolve, DecisionRow
<1>2. v \in Verdict BY <1>1 DEF Verdict
<1>3. 0 \in 0 .. MaxVersion /\ {} \in SUBSET Scope BY DurableAssumption
<1> QED BY <1>2, <1>3 DEF DecisionNext

\* A result under the run that the task has.
LEMMA ResultStep ==
  ASSUME TypeOK, NEW t \in Task, NEW res \in Result \ {"none"}, NEW close \in BOOLEAN,
         NEW r \in Run \cup {NoRun}, r = NoRun \/ task[t].run \in {NoRun, r},
         FinishTask(t, res, close, r)
  PROVE  TaskNext(t)
<1>1. task[t].run = NoRun \/ r \in {NoRun, task[t].run} OBVIOUS
<1> QED BY <1>1 DEF TaskNext

\* Answering a decision: the task of a checkpoint that is applied is a task.
LEMMA ApiDecision ==
  ASSUME RefInv, NEW d \in Decision,
         \/ ApiAnswer(d) \/ ApiRecord(d) \/ ApiCheckpoint(d)
         \/ ApiContinue(d) \/ ApiStop(d) \/ ApiReconcile(d)
  PROVE  StoreStep /\ Beside
<1> DEFINE t == decision[d].task
<1>1. task \in [Task -> TaskRow] /\ \A u \in Task : task[u] \in TaskRow
  BY Rows DEF RefInv, TypeOK
<1>2. decision[d].kind = "checkpoint" => t \in Task /\ decision[d].goal \in Goal
  BY DEF RefInv, ApplyInv
<1>3. applying[d] \in {"continue", "stop", "reconcile"} => decision[d].kind = "checkpoint"
  BY DEF RefInv, ApplyInv
<1>4. TypeOK /\ applying \in [Decision -> {"none", "record", "continue", "stop", "reconcile"}]
  BY DEF RefInv, ControlOK
<1> HIDE DEF t
<1>5. ASSUME tick' = tick, launch' = launch, planning' = planning, cancelling' = cancelling,
             resuming' = resuming, expired' = expired, crashes' = crashes,
             runs' \in [Run -> RunRow], StoreStep, RunsKept,
             NEW x \in {"none", "record", "continue", "stop", "reconcile"},
             applying' = [applying EXCEPT ![d] = x],
             x \in {"continue", "stop", "reconcile"} => decision[d].kind = "checkpoint"
      PROVE  StoreStep /\ Beside
  <2>1. ControlOK' BY <1>4, <1>5 DEF RefInv, ControlOK
  <2>2. \A e \in Decision : applying'[e] \in {"continue", "stop", "reconcile"}
                              => decision[e].kind = "checkpoint"
    BY <1>4, <1>5 DEF RefInv, ApplyInv
  <2> QED BY <1>5, <2>1, <2>2 DEF Beside
<1>6. CASE ApiAnswer(d)
  <2>1. runs' \in [Run -> RunRow] BY <1>6 DEF ApiAnswer, RefInv, ControlOK, RunRow
  <2> QED BY <1>5, <1>6, <2>1, RunsSame DEF ApiAnswer, StoreStep, coordVars
<1>7. CASE ApiRecord(d)
  <2>1. PICK a \in Actor, v \in Verdicts.approval : ResolveDecision(d, a, 0, v, {})
    BY <1>7 DEF ApiRecord
  <2>2. StoreStep /\ RunsKept
    BY <1>4, <2>1, VerdictStep, VerdictRuns DEF StoreStep, Next
  <2>3. runs' \in [Run -> RunRow] BY <1>7 DEF ApiRecord, envVars, RefInv, ControlOK
  <2> QED BY <1>5, <1>7, <2>2, <2>3 DEF ApiRecord, coordVars, envVars
<1>8. CASE ApiCheckpoint(d)
  <2>1. PICK a \in Actor, v \in Verdicts.checkpoint :
          ResolveDecision(d, a, 0, v, {}) /\ applying' = [applying EXCEPT ![d] = v]
    BY <1>8 DEF ApiCheckpoint
  <2>2. v \in {"continue", "stop"} BY DEF Verdicts
  <2>3. StoreStep /\ RunsKept
    BY <1>4, <2>1, VerdictStep, VerdictRuns DEF StoreStep, Next
  <2>4. runs' \in [Run -> RunRow] BY <1>8 DEF ApiCheckpoint, envVars, RefInv, ControlOK
  <2> QED BY <1>5, <1>8, <2>1, <2>2, <2>3, <2>4 DEF ApiCheckpoint, coordVars, envVars
<1>9. CASE ApiContinue(d)
  <2>1. t \in Task BY <1>2, <1>3, <1>9 DEF ApiContinue
  <2>2. RequeueCheckpointTask(t) \/ UNCHANGED durableVars BY <1>9 DEF ApiContinue, t
  <2>3. RequeueCheckpointTask(t) => RunsKept
    BY <1>1, <2>1 DEF RequeueCheckpointTask, RunsKept, NewTask
  <2>4. StoreStep /\ RunsKept BY <2>1, <2>2, <2>3, RunsSame DEF StoreStep, Next, TaskNext
  <2>5. runs' \in [Run -> RunRow] BY <1>9 DEF ApiContinue, envVars, RefInv, ControlOK
  <2> QED BY <1>5, <1>9, <2>4, <2>5 DEF ApiContinue, coordVars, envVars
<1>10. CASE ApiStop(d)
  <2>1. t \in Task /\ decision[d].kind = "checkpoint" BY <1>2, <1>3, <1>10 DEF ApiStop
  <2>2. PICK res \in {"need_human", "fail"} :
          \/ FinishTask(t, res, FALSE, task[t].run)
             /\ applying' = [applying EXCEPT ![d] = "reconcile"]
          \/ UNCHANGED durableVars /\ applying' = [applying EXCEPT ![d] = "none"]
    BY <1>10 DEF ApiStop, t
  <2>3. res \in Result \ {"none"} /\ task[t].run \in Run \cup {NoRun}
    BY <1>1, <2>1 DEF Result, TaskRow
  <2>4. ASSUME FinishTask(t, res, FALSE, task[t].run) PROVE StoreStep /\ RunsKept
    <3>1. TaskNext(t) BY <1>4, <2>1, <2>3, <2>4, ResultStep
    <3>2. RunsKept BY <1>1, <2>1, <2>4 DEF FinishTask, RunsKept, TaskRow
    <3> QED BY <2>1, <3>1, <3>2 DEF StoreStep, Next
  <2>5. StoreStep /\ RunsKept BY <2>2, <2>4, RunsSame DEF StoreStep
  <2>6. runs' \in [Run -> RunRow] BY <1>10 DEF ApiStop, envVars, RefInv, ControlOK
  <2> QED BY <1>5, <1>10, <2>1, <2>2, <2>5, <2>6 DEF ApiStop, coordVars, envVars
<1>11. CASE ApiReconcile(d)
  <2>1. decision[d].goal \in Goal BY <1>2, <1>3, <1>11 DEF ApiReconcile
  <2>2. StoreStep /\ RunsKept
    BY <1>11, <2>1 DEF ApiReconcile, StoreStep, Next, GoalNext, ReconcileGoalProgress, RunsKept
  <2>3. runs' \in [Run -> RunRow] BY <1>11 DEF ApiReconcile, envVars, RefInv, ControlOK
  <2> QED BY <1>5, <1>11, <2>2, <2>3 DEF ApiReconcile, coordVars, envVars
<1> QED BY <1>6, <1>7, <1>8, <1>9, <1>10, <1>11

----------------------------------------------------------------------------
(* The tick and the launches.                                              *)

Goes == /\ StoreStep /\ UNCHANGED apiVars /\ UNCHANGED <<expired, crashes>>
        /\ tick' \in TickRow /\ TickInv'
        /\ launch' \in [Claim -> LaunchRow] /\ LaunchInv'
        /\ planning' \in [Goal -> {"none", "busy", "done"}]
        /\ runs' \in [Run -> RunRow]

LEMMA AdvanceTypes ==
  ASSUME ControlOK, NEW g \in Goal
  PROVE  /\ Advance(g) \in TickRow /\ Advance(g).goal = g
         /\ Advance(g).pc \in {"budget", "observe"}
<1>1. Active(g) \in SUBSET Task /\ {t \in TasksOf(g) : task[t].status = "running"} \in SUBSET Task
  BY DEF Active, TasksOf
<1> QED BY <1>1 DEF Advance, Idle, TickRow, Result

\* A tick that holds no task.
LEMMA TickWithoutTask ==
  ASSUME tick'.pc \notin {"claim", "stamp", "fresh", "finish", "park"},
         tick'.pc # "idle" => tick'.goal \in Goal
  PROVE  TickInv'
  BY DEF TickInv

\* A tick that settles or parks a task under its run.
LEMMA TickSettles ==
  ASSUME ControlOK, tick.goal \in Goal, NEW t \in Task, NEW r \in Run \cup {NoRun},
         NEW res \in Result \ {"none"}, tick' \in {Settle(t, r, res), ParkOn(t, r)},
         r = NoRun \/ task'[t].run \in {NoRun, r}
  PROVE  tick' \in TickRow /\ TickInv'
<1>1. tick \in TickRow BY DEF ControlOK
<1>2. /\ tick'.goal = tick.goal /\ tick'.task = t /\ tick'.run = r
      /\ (tick'.pc = "finish" /\ tick'.out = res) \/ tick'.pc = "park"
  BY <1>1 DEF Settle, ParkOn, TickRow
<1>3. tick' \in TickRow
  <2>1. tick.todo \ {t} \in SUBSET Task BY <1>1 DEF TickRow
  <2>2. CASE tick' = Settle(t, r, res) BY <1>1, <2>1, <2>2 DEF Settle, TickRow
  <2>3. CASE tick' = ParkOn(t, r) BY <1>1, <2>1, <2>3 DEF ParkOn, TickRow
  <2> QED BY <2>2, <2>3
<1>4. TickInv' BY <1>2 DEF TickInv
<1> QED BY <1>3, <1>4

\* Beginning the tick of a goal.
LEMMA TickStarts ==
  ASSUME RefInv, NEW g \in Goal, TickBegins(g)
  PROVE  Goes
<1> USE DEF RefInv
<1>1. ControlOK /\ tick \in TickRow /\ Idle \in TickRow /\ Idle.pc = "idle"
  BY DEF ControlOK, Idle, TickRow, Result
<1>2. CASE TickCancel(g)
  <2>1. tick' = Idle \/ tick' = [Idle EXCEPT !.pc = "effect", !.goal = g]
    BY <1>2 DEF TickCancel
  <2>2. tick' \in TickRow BY <1>1, <2>1 DEF Idle, TickRow
  <2>3. TickInv' BY <1>1, <2>1, TickWithoutTask DEF Idle
  <2>4. runs' \in [Run -> RunRow] BY <1>1, <1>2, StopTypes DEF TickCancel, ControlOK
  <2>5. planning' \in [Goal -> {"none", "busy", "done"}] BY <1>1, <1>2 DEF TickCancel, ControlOK
  <2> QED BY <1>1, <1>2, <2>2, <2>3, <2>4, <2>5, LaunchFrame DEF TickCancel, Goes, StoreStep, ControlOK
<1>3. CASE TickTerminated(g)
  <2>1. planning' \in [Goal -> {"none", "busy", "done"}] BY <1>1, <1>3 DEF TickTerminated, ControlOK
  <2>2. TickInv' BY <1>3, TickWithoutTask DEF TickTerminated
  <2> QED BY <1>1, <1>3, <2>1, <2>2, LaunchFrame
          DEF TickTerminated, Goes, StoreStep, ControlOK, envVars
<1>4. CASE TickPlan(g)
  <2>1. planning' \in [Goal -> {"none", "busy", "done"}] BY <1>1, <1>4 DEF TickPlan, ControlOK
  <2>2. TickInv' BY <1>4, TickWithoutTask DEF TickPlan
  <2> QED BY <1>1, <1>4, <2>1, <2>2, LaunchFrame DEF TickPlan, Goes, StoreStep, ControlOK, envVars
<1>5. CASE TickPlanned(g)
  <2>1. \/ /\ tick' = [Idle EXCEPT !.pc = "admit", !.goal = g, !.todo = {t \in Task : GoalOf[t] = g}]
           /\ UNCHANGED durableVars
        \/ FailGoal(g) /\ UNCHANGED tick
    BY <1>5 DEF TickPlanned
  <2>2. StoreStep BY <2>1 DEF StoreStep, Next, GoalNext
  <2>3. tick' \in TickRow
    <3>1. {t \in Task : GoalOf[t] = g} \in SUBSET Task OBVIOUS
    <3> QED BY <1>1, <2>1, <3>1 DEF Idle, TickRow
  <2>4. tick.pc = "idle" BY <1>5 DEF TickPlanned
  <2>5. TickInv' BY <2>1, <2>4, TickWithoutTask DEF Idle
  <2>6. planning' \in [Goal -> {"none", "busy", "done"}] BY <1>1, <1>5 DEF TickPlanned, ControlOK
  <2> QED BY <1>1, <1>5, <2>2, <2>3, <2>5, <2>6, LaunchFrame DEF TickPlanned, Goes, ControlOK, envVars
<1>6. CASE TickAdvance(g)
  <2>1. tick' = Advance(g) BY <1>6 DEF TickAdvance
  <2>2. tick' \in TickRow /\ TickInv' BY <1>1, <2>1, AdvanceTypes, TickWithoutTask
  <2> QED BY <1>1, <1>6, <2>2, LaunchFrame DEF TickAdvance, Goes, StoreStep, ControlOK, envVars
<1> QED BY <1>2, <1>3, <1>4, <1>5, <1>6 DEF TickBegins

\* What an observed run leads to.
LEMMA Collected ==
  ASSUME RefInv, tick.pc # "idle", NEW t \in Task, NEW r \in Run \cup {NoRun},
         r = NoRun \/ task[t].run \in {NoRun, r}, Collect(t, r) \/ Stall(t, r)
  PROVE  /\ tick' \in TickRow /\ TickInv' /\ runs' \in [Run -> RunRow]
         /\ UNCHANGED durableVars
<1>1. ControlOK /\ tick.goal \in Goal BY DEF RefInv, TickInv
<1>2. UNCHANGED durableVars BY DEF Collect, Stall
<1>3. task' = task BY <1>2 DEF durableVars
<1>4. PICK res \in {"ok", "fail", "need_human"} : tick' \in {Settle(t, r, res), ParkOn(t, r)}
  BY DEF Collect, Stall
<1>5. res \in Result \ {"none"} BY DEF Result
<1>6. tick' \in TickRow /\ TickInv' BY <1>1, <1>3, <1>4, <1>5, TickSettles
<1>7. runs' \in [Run -> RunRow] BY <1>1, StopTypes DEF Collect, Stall, ControlOK
<1> QED BY <1>2, <1>6, <1>7

\* The steps of a tick that follow its beginning, up to the results.
LEMMA TickObserves ==
  ASSUME RefInv, TickEffect \/ Admit \/ Observe \/ ObserveFresh
  PROVE  Goes
<1> USE DEF RefInv
<1>1. /\ ControlOK /\ tick \in TickRow /\ Idle \in TickRow /\ Idle.pc = "idle"
      /\ tick.pc # "idle" => tick.goal \in Goal
      /\ tick.todo \subseteq Task
  BY DEF ControlOK, Idle, TickRow, Result, TickInv
<1>2. CASE TickEffect
  <2>1. tick.goal \in Goal BY <1>1, <1>2 DEF TickEffect
  <2>2. StoreStep BY <1>2, <2>1 DEF TickEffect, StoreStep, Next, GoalNext
  <2>3. tick' \in TickRow /\ TickInv' BY <1>1, <1>2, TickWithoutTask DEF TickEffect
  <2> QED BY <1>1, <1>2, <2>2, <2>3, LaunchFrame DEF TickEffect, Goes, ControlOK, envVars
<1>3. CASE Admit
  <2>1. tick.goal \in Goal BY <1>1, <1>3 DEF Admit
  <2>2. StoreStep BY <1>1, <1>3 DEF Admit, StoreStep, Next, TaskNext
  <2>3. CASE tick' = Idle \/ tick' = Advance(tick.goal)
    <3>1. tick' \in TickRow /\ TickInv' BY <1>1, <2>1, <2>3, AdvanceTypes, TickWithoutTask
    <3> QED BY <1>1, <1>3, <2>2, <3>1, LaunchFrame DEF Admit, Goes, ControlOK, envVars
  <2>4. ASSUME NEW t \in Task, tick' = [tick EXCEPT !.todo = @ \ {t}]
        PROVE  Goes
    <3>1. tick' \in TickRow /\ tick'.pc = "admit" /\ tick'.goal = tick.goal
      BY <1>1, <1>3, <2>4 DEF Admit, TickRow
    <3>2. TickInv' BY <2>1, <3>1, TickWithoutTask
    <3> QED BY <1>1, <1>3, <2>2, <3>1, <3>2, LaunchFrame DEF Admit, Goes, ControlOK, envVars
  <2> QED BY <1>1, <1>3, <2>3, <2>4 DEF Admit
<1>4. CASE Observe
  <2>1. tick.pc = "observe" /\ tick.goal \in Goal BY <1>1, <1>4 DEF Observe
  <2>2. ASSUME StoreStep, tick' \in TickRow, TickInv', runs' \in [Run -> RunRow] PROVE Goes
    BY <1>1, <1>4, <2>2, LaunchFrame DEF Observe, Goes, ControlOK
  <2>3. ASSUME NEW t \in Task, tick' = [tick EXCEPT !.todo = @ \ {t}]
        PROVE  tick' \in TickRow /\ TickInv'
    <3>1. tick' \in TickRow /\ tick'.pc = "observe" /\ tick'.goal = tick.goal
      BY <1>1, <2>1, <2>3 DEF TickRow
    <3> QED BY <2>1, <3>1, TickWithoutTask
  <2>4. runs \in [Run -> RunRow] BY <1>1 DEF ControlOK
  <2>5. ASSUME NEW t \in Task, ObserveNothing(t) PROVE Goes
    BY <2>2, <2>3, <2>4, <2>5 DEF ObserveNothing, StoreStep
  <2>6. ASSUME NEW t \in Task, ObserveAbandoned(t) PROVE Goes
    <3>1. tick' \in TickRow /\ TickInv'
      BY <1>1, <2>1, <2>6, TickSettles DEF ObserveAbandoned, Result
    <3> QED BY <2>2, <2>4, <2>6, <3>1 DEF ObserveAbandoned, StoreStep
  <2>7. ASSUME NEW t \in Task, ObserveRequest(t) PROVE Goes
    <3>1. PICK d \in Decision : OpenDecision(d, "approval", GoalOf[t], t)
      BY <2>7 DEF ObserveRequest
    <3>2. DecisionNext(d) BY <3>1, GoalOfTask DEF DecisionNext, Kind
    <3> QED BY <2>2, <2>3, <2>4, <2>7, <3>2 DEF ObserveRequest, StoreStep, Next
  <2>8. ASSUME NEW t \in Task, ObserveRun(t) PROVE Goes
    <3>1. task[t].run \in Run \cup {NoRun} BY Rows DEF TaskRow
    <3>2. Collect(t, task[t].run) \/ Stall(t, task[t].run) BY <2>8 DEF ObserveRun
    <3>3. /\ tick' \in TickRow /\ TickInv' /\ runs' \in [Run -> RunRow] /\ UNCHANGED durableVars
      BY <2>1, <3>1, <3>2, Collected
    <3> QED BY <2>2, <3>3 DEF StoreStep
  <2>9. CASE /\ tick' = [tick EXCEPT !.pc = "dispatch", !.back = "dispatch"]
             /\ UNCHANGED <<durableVars, runs>>
    <3>1. tick' \in TickRow /\ tick'.pc = "dispatch" /\ tick'.goal = tick.goal
      BY <1>1, <2>9 DEF TickRow
    <3>2. TickInv' BY <2>1, <3>1, TickWithoutTask
    <3> QED BY <2>2, <2>4, <2>9, <3>1, <3>2 DEF StoreStep
  <2> QED BY <1>1, <1>4, <2>5, <2>6, <2>7, <2>8, <2>9 DEF Observe
<1>5. CASE ObserveFresh
  <2>1. /\ tick.pc = "fresh" /\ tick.goal \in Goal /\ tick.task \in Task
        /\ tick.run \in Run \cup {NoRun}
        /\ tick.run = NoRun \/ task[tick.task].run \in {NoRun, tick.run}
    BY <1>1, <1>5 DEF ObserveFresh, TickInv, TickRow
  <2>2. ASSUME StoreStep, tick' \in TickRow, TickInv', runs' \in [Run -> RunRow] PROVE Goes
    BY <1>1, <1>5, <2>2, LaunchFrame DEF ObserveFresh, Goes, ControlOK
  <2>3. CASE tick' = [tick EXCEPT !.pc = "dispatch"] /\ UNCHANGED <<durableVars, runs>>
    <3>1. tick' \in TickRow /\ tick'.pc = "dispatch" /\ tick'.goal = tick.goal
      BY <1>1, <2>3 DEF TickRow
    <3>2. TickInv' BY <2>1, <3>1, TickWithoutTask
    <3> QED BY <1>1, <2>2, <2>3, <3>1, <3>2 DEF StoreStep, ControlOK
  <2>4. CASE Collect(tick.task, tick.run) \/ Stall(tick.task, tick.run)
    <3>1. /\ tick' \in TickRow /\ TickInv' /\ runs' \in [Run -> RunRow] /\ UNCHANGED durableVars
      BY <2>1, <2>4, Collected
    <3> QED BY <2>2, <3>1 DEF StoreStep
  <2> QED BY <1>5, <2>3, <2>4 DEF ObserveFresh
<1> QED BY <1>2, <1>3, <1>4, <1>5

\* Results, parking and the budget.
LEMMA TickSettled ==
  ASSUME RefInv, Finish \/ Reconcile \/ Park \/ BudgetGoal \/ \E t \in Task : BudgetTask(t)
  PROVE  Goes
<1> USE DEF RefInv
<1>1. /\ ControlOK /\ TypeOK /\ tick \in TickRow /\ Idle \in TickRow /\ Idle.pc = "idle"
      /\ tick.pc # "idle" => tick.goal \in Goal
      /\ tick.todo \subseteq Task
  BY DEF ControlOK, Idle, TickRow, Result, TickInv
<1>2. CASE Finish
  <2>1. /\ tick.pc = "finish" /\ tick.task \in Task /\ tick.out \in Result \ {"none"}
        /\ tick.run \in Run \cup {NoRun}
        /\ tick.run = NoRun \/ task[tick.task].run \in {NoRun, tick.run}
    BY <1>1, <1>2 DEF Finish, TickInv, TickRow
  <2>2. FinishTask(tick.task, tick.out, FALSE, tick.run) => TaskNext(tick.task)
    BY <1>1, <2>1, ResultStep
  <2>3. StoreStep BY <1>2, <2>1, <2>2 DEF Finish, StoreStep, Next
  <2>4. tick' \in TickRow /\ tick'.pc = "reconcile" /\ tick'.goal = tick.goal
    BY <1>1, <1>2 DEF Finish, TickRow
  <2>5. TickInv' BY <1>1, <2>1, <2>4, TickWithoutTask
  <2> QED BY <1>1, <1>2, <2>3, <2>4, <2>5, LaunchFrame DEF Finish, Goes, ControlOK, envVars
<1>3. ASSUME tick' = Return, tick.pc # "idle"
      PROVE  tick' \in TickRow /\ TickInv'
  <2>1. /\ tick' \in TickRow /\ tick'.pc \in {"idle", "observe", "dispatch"}
        /\ tick'.goal = tick.goal
    BY <1>1, <1>3 DEF Return, TickRow, Result
  <2> QED BY <1>1, <1>3, <2>1, TickWithoutTask
<1>4. CASE Reconcile
  <2>1. tick.pc = "reconcile" /\ tick.goal \in Goal BY <1>1, <1>4 DEF Reconcile
  <2>2. StoreStep BY <1>4, <2>1 DEF Reconcile, StoreStep, Next, GoalNext
  <2>3. tick' \in TickRow /\ TickInv' BY <1>3, <1>4, <2>1 DEF Reconcile
  <2> QED BY <1>1, <1>4, <2>2, <2>3, LaunchFrame DEF Reconcile, Goes, ControlOK, envVars
<1>5. CASE Park
  <2>1. tick.pc = "park" /\ tick.task \in Task BY <1>5 DEF Park, TickInv
  <2>2. StoreStep BY <1>5, <2>1 DEF Park, StoreStep, Next, TaskNext
  <2>3. tick' \in TickRow /\ TickInv' BY <1>3, <1>5, <2>1 DEF Park
  <2> QED BY <1>1, <1>5, <2>2, <2>3, LaunchFrame DEF Park, Goes, ControlOK, envVars
<1>6. CASE BudgetGoal
  <2>1. tick.goal \in Goal BY <1>1, <1>6 DEF BudgetGoal
  <2>2. StoreStep BY <1>6, <2>1 DEF BudgetGoal, StoreStep, Next, GoalNext
  <2>3. tick' \in TickRow /\ TickInv' BY <1>1, <1>6, TickWithoutTask DEF BudgetGoal
  <2> QED BY <1>1, <1>6, <2>2, <2>3, LaunchFrame DEF BudgetGoal, Goes, ControlOK, envVars
<1>7. ASSUME NEW t \in Task, BudgetTask(t) PROVE Goes
  <2>1. task[t].run \in Run \cup {NoRun} /\ "fail" \in Result \ {"none"}
    BY Rows DEF TaskRow, Result
  <2>2. FinishTask(t, "fail", TRUE, task[t].run) => TaskNext(t) BY <1>1, <2>1, ResultStep
  <2>3. StoreStep BY <1>7, <2>2 DEF BudgetTask, StoreStep, Next
  <2>4. tick' \in TickRow /\ tick'.pc = "budget" /\ tick'.goal = tick.goal
    BY <1>1, <1>7 DEF BudgetTask, TickRow
  <2>5. TickInv' BY <1>1, <1>7, <2>4, TickWithoutTask DEF BudgetTask
  <2>6. runs' \in [Run -> RunRow] BY <1>1, <1>7, StopTypes DEF BudgetTask, ControlOK
  <2> QED BY <1>1, <1>7, <2>3, <2>4, <2>5, <2>6, LaunchFrame DEF BudgetTask, Goes, ControlOK
<1> QED BY <1>2, <1>4, <1>5, <1>6, <1>7

\* A tick under the lock that was taken again after start_run.
LEMMA RelockedTypes ==
  ASSUME ControlOK, LaunchInv, NEW k \in Claim, launch[k].st # "none"
  PROVE  /\ Relocked(k) \in TickRow
         /\ Relocked(k).goal \in Goal /\ Relocked(k).task = launch[k].task
         /\ Relocked(k).run = launch[k].run /\ launch[k].task \in Task
<1>1. launch[k] \in LaunchRow /\ launch[k].task \in Task BY DEF ControlOK, LaunchInv
<1>2. GoalOf[launch[k].task] \in Goal BY <1>1, GoalOfTask
<1> QED BY <1>1, <1>2 DEF Relocked, Idle, TickRow, LaunchRow, Result

\* A token that is let go.
LEMMA LaunchEnds ==
  ASSUME ControlOK, LaunchInv, NEW k \in Claim, launch' = [launch EXCEPT ![k] = NoLaunch]
  PROVE  launch' \in [Claim -> LaunchRow] /\ LaunchInv'
<1>1. NoLaunch \in LaunchRow /\ NoLaunch.st = "none" BY DEF NoLaunch, LaunchRow
<1> QED BY <1>1 DEF ControlOK, LaunchInv

\* The dispatch of a task.
LEMMA TickDispatches ==
  ASSUME RefInv, Dispatch \/ Stamp \/ \E k \in Claim : DispatchOne(k)
  PROVE  Goes
<1> USE DEF RefInv
<1>1. /\ ControlOK /\ TypeOK /\ tick \in TickRow /\ Idle \in TickRow /\ Idle.pc = "idle"
      /\ tick.pc # "idle" => tick.goal \in Goal
      /\ tick.todo \subseteq Task
  BY DEF ControlOK, Idle, TickRow, Result, TickInv
<1>2. CASE Dispatch
  <2>1. tick.goal \in Goal BY <1>1, <1>2 DEF Dispatch
  <2>2. Dispatchable \subseteq Task BY DEF Dispatchable, TasksOf
  <2>3. \/ tick' = Advance(tick.goal) \/ tick' = Idle
        \/ \E t \in Task : tick' = [tick EXCEPT !.pc = "claim", !.task = t]
    BY <1>2, <2>2 DEF Dispatch
  <2>4. ASSUME NEW t \in Task, tick' = [tick EXCEPT !.pc = "claim", !.task = t]
        PROVE  tick' \in TickRow /\ TickInv'
    BY <1>1, <2>1, <2>4 DEF TickRow, TickInv
  <2>5. tick' \in TickRow /\ TickInv'
    BY <1>1, <2>1, <2>3, <2>4, AdvanceTypes, TickWithoutTask
  <2> QED BY <1>1, <1>2, <2>5, LaunchFrame DEF Dispatch, Goes, StoreStep, ControlOK, envVars
<1>3. CASE Stamp
  <2>1. /\ tick.pc = "stamp" /\ tick.goal \in Goal /\ tick.task \in Task
        /\ tick.run = NoRun \/ task[tick.task].run \in {NoRun, tick.run}
    BY <1>1, <1>3 DEF Stamp, TickInv
  <2>2. StoreStep BY <1>3, <2>1 DEF Stamp, StoreStep, Next, TaskNext
  <2>3. task'[tick.task].run = task[tick.task].run
    <3>1. task \in [Task -> TaskRow] /\ task[tick.task] \in TaskRow
      BY <1>1, <2>1, Rows DEF TypeOK
    <3> QED BY <1>3, <2>1, <3>1 DEF Stamp, MarkRunStarted, durableVars, TaskRow
  <2>4. /\ tick' \in TickRow /\ tick'.pc = "fresh" /\ tick'.goal = tick.goal
        /\ tick'.task = tick.task /\ tick'.run = tick.run
    BY <1>1, <1>3 DEF Stamp, TickRow
  <2>5. TickInv' BY <2>1, <2>3, <2>4 DEF TickInv
  <2> QED BY <1>1, <1>3, <2>2, <2>4, <2>5, LaunchFrame DEF Stamp, Goes, ControlOK, envVars
<1>4. ASSUME NEW k \in Claim, DispatchOne(k) PROVE Goes
  <2>1. tick.pc = "claim" /\ tick.goal \in Goal /\ tick.task \in Task
    BY <1>1, <1>4 DEF DispatchOne, TickInv
  <2>2. StoreStep BY <1>4, <2>1 DEF DispatchOne, StoreStep, Next, TaskNext
  <2>3. ASSUME tick' \in TickRow, TickInv', launch' \in [Claim -> LaunchRow], LaunchInv'
        PROVE  Goes
    BY <1>1, <1>4, <2>2, <2>3 DEF DispatchOne, Goes, ControlOK, envVars
  <2>4. CASE /\ launch' = [launch EXCEPT ![k] = [st |-> "starting", task |-> tick.task,
                                                 run |-> NoRun, skipped |-> tick.todo]]
             /\ tick' = Idle
    <3>1. launch' \in [Claim -> LaunchRow] BY <1>1, <2>1, <2>4 DEF ControlOK, LaunchRow
    <3>2. LaunchInv' BY <1>1, <2>1, <2>4 DEF ControlOK, LaunchInv
    <3>3. tick' \in TickRow /\ TickInv' BY <1>1, <2>4, TickWithoutTask
    <3> QED BY <2>3, <3>1, <3>2, <3>3
  <2>5. CASE tick' = Settle(tick.task, NoRun, "fail") /\ UNCHANGED launch
    <3>1. tick' \in TickRow /\ TickInv' BY <1>1, <2>1, <2>5, TickSettles DEF Result
    <3> QED BY <1>1, <2>3, <2>5, <3>1, LaunchFrame DEF ControlOK
  <2>6. CASE /\ tick' = [tick EXCEPT !.pc = "dispatch", !.task = NoTask,
                                     !.todo = @ \cup {tick.task}]
             /\ UNCHANGED launch
    <3>1. tick.todo \cup {tick.task} \in SUBSET Task BY <1>1, <2>1
    <3>2. tick' \in TickRow /\ tick'.pc = "dispatch" /\ tick'.goal = tick.goal
      BY <1>1, <2>6, <3>1 DEF TickRow
    <3>3. TickInv' BY <2>1, <3>2, TickWithoutTask
    <3> QED BY <1>1, <2>3, <2>6, <3>2, <3>3, LaunchFrame DEF ControlOK
  <2> QED BY <1>4, <2>4, <2>5, <2>6 DEF DispatchOne
<1> QED BY <1>2, <1>3, <1>4

\* The threads that start a worker.
LEMMA Launches ==
  ASSUME RefInv, NEW k \in Claim, LaunchNext(k)
  PROVE  Goes
<1> USE DEF RefInv
<1>1. /\ ControlOK /\ TypeOK /\ tick \in TickRow /\ launch \in [Claim -> LaunchRow]
      /\ launch[k] \in LaunchRow
      /\ launch[k].st # "none" => launch[k].task \in Task
  BY DEF ControlOK, LaunchInv
<1>2. CASE StartRun(k)
  <2>1. launch[k].st = "starting" /\ launch[k].task \in Task /\ launch[k].run = NoRun
    BY <1>1, <1>2 DEF StartRun, LaunchInv
  <2>2. TickInv' BY <1>1, <1>2, TickFrame, RunsSame DEF StartRun
  <2>3. ASSUME launch' \in [Claim -> LaunchRow], LaunchInv', runs' \in [Run -> RunRow] PROVE Goes
    BY <1>1, <1>2, <2>2, <2>3 DEF StartRun, Goes, StoreStep, ControlOK
  <2>4. ASSUME NEW r \in Run,
               runs' = [runs EXCEPT ![r] = [st |-> "live", task |-> launch[k].task]],
               launch' = [launch EXCEPT ![k] = [@ EXCEPT !.st = "started", !.run = r]]
        PROVE  Goes
    <3>1. runs' \in [Run -> RunRow] BY <1>1, <2>1, <2>4 DEF ControlOK, RunRow
    <3>2. launch' \in [Claim -> LaunchRow] BY <1>1, <2>4 DEF LaunchRow
    <3>3. launch'[k].st = "started" /\ launch'[k].task = launch[k].task /\ launch'[k].run = r
      BY <1>1, <2>4 DEF LaunchRow
    <3>4. \A j \in Claim \ {k} : launch'[j] = launch[j] BY <1>1, <2>4
    <3>5. LaunchInv' BY <2>1, <3>3, <3>4 DEF LaunchInv
    <3> QED BY <2>3, <3>1, <3>2, <3>5
  <2>5. CASE launch' = [launch EXCEPT ![k].st = "failed"] /\ UNCHANGED runs
    <3>1. launch' \in [Claim -> LaunchRow] BY <1>1, <2>5 DEF LaunchRow
    <3>2. /\ launch'[k].st = "failed" /\ launch'[k].task = launch[k].task
          /\ launch'[k].run = launch[k].run
      BY <1>1, <2>5 DEF LaunchRow
    <3>3. \A j \in Claim \ {k} : launch'[j] = launch[j] BY <1>1, <2>5
    <3>4. LaunchInv' BY <2>1, <3>2, <3>3 DEF LaunchInv
    <3> QED BY <1>1, <2>3, <2>5, <3>1, <3>4 DEF ControlOK
  <2> QED BY <1>2, <2>4, <2>5 DEF StartRun
<1>3. CASE StartFailed(k)
  <2>1. launch[k].st = "failed" /\ launch[k].run = NoRun BY <1>1, <1>3 DEF StartFailed, LaunchInv
  <2>2. tick' = [Relocked(k) EXCEPT !.pc = "finish", !.out = "fail"] BY <1>3 DEF StartFailed
  <2>3. /\ tick' \in TickRow /\ tick'.goal \in Goal /\ tick'.task \in Task /\ tick'.run = NoRun
        /\ tick'.pc = "finish" /\ tick'.out = "fail"
    BY <1>1, <2>1, <2>2, RelockedTypes DEF TickRow, Result
  <2>4. TickInv' BY <2>3 DEF TickInv
  <2>5. launch' \in [Claim -> LaunchRow] /\ LaunchInv' BY <1>1, <1>3, LaunchEnds DEF StartFailed
  <2> QED BY <1>1, <1>3, <2>3, <2>4, <2>5 DEF StartFailed, Goes, StoreStep, ControlOK, envVars
<1>4. CASE Bind(k)
  <2>1. launch[k].st = "started" /\ launch[k].run \in Run /\ launch[k].task \in Task
    BY <1>1, <1>4 DEF Bind, LaunchInv
  <2>2. StoreStep BY <1>4, <2>1 DEF Bind, StoreStep, Next, TaskNext
  <2>3. launch' \in [Claim -> LaunchRow] /\ LaunchInv' BY <1>1, <1>4, LaunchEnds DEF Bind
  <2>4. CASE /\ BindTaskRun(launch[k].task, launch[k].run)
             /\ tick' = [Relocked(k) EXCEPT !.pc = "stamp"]
    <3>1. task \in [Task -> TaskRow] /\ task[launch[k].task] \in TaskRow
      BY <1>1, <2>1, Rows DEF TypeOK
    <3>2. task'[launch[k].task].run = launch[k].run
      BY <2>1, <2>4, <3>1 DEF BindTaskRun, TaskRow
    <3>3. /\ tick' \in TickRow /\ tick'.goal \in Goal /\ tick'.task = launch[k].task
          /\ tick'.run = launch[k].run /\ tick'.pc = "stamp"
      BY <1>1, <2>1, <2>4, RelockedTypes DEF TickRow
    <3>4. TickInv' BY <2>1, <3>2, <3>3 DEF TickInv
    <3> QED BY <1>1, <1>4, <2>2, <2>3, <3>3, <3>4 DEF Bind, Goes, ControlOK, envVars
  <2>5. CASE UNCHANGED <<durableVars, tick>>
    <3>1. TickInv' BY <1>1, <2>5, TickFrame, RunsSame
    <3> QED BY <1>1, <1>4, <2>2, <2>3, <2>5, <3>1 DEF Bind, Goes, ControlOK, envVars
  <2> QED BY <1>4, <2>4, <2>5 DEF Bind
<1> QED BY <1>2, <1>3, <1>4 DEF LaunchNext

LEMMA TickAll ==
  ASSUME RefInv, TickNext
  PROVE  Goes
<1>1. TickContinues => Goes
  BY TickObserves, TickSettled, TickDispatches DEF TickContinues
<1> QED BY <1>1, TickStarts, Launches DEF TickNext

\* The lead, the workers, the clock and a crash leave the store alone.
LEMMA EnvAll ==
  ASSUME RefInv, EnvNext
  PROVE  /\ UNCHANGED durableVars /\ ControlOK' /\ TickInv' /\ LaunchInv'
         /\ \A d \in Decision : applying'[d] \in {"continue", "stop", "reconcile"}
                                  => decision[d].kind = "checkpoint"
<1> USE DEF RefInv
<1>1. /\ ControlOK /\ planning \in [Goal -> {"none", "busy", "done"}] /\ runs \in [Run -> RunRow]
      /\ Idle \in TickRow /\ Idle.pc = "idle" /\ NoLaunch \in LaunchRow /\ NoLaunch.st = "none"
      /\ MaxCrashes \in Nat
  BY CoordinatorAssumption DEF ControlOK, Idle, TickRow, Result, NoLaunch, LaunchRow
<1>2. UNCHANGED durableVars
  BY DEF EnvNext, PlannerReturns, WallExpires, RunExits, RunAsks, Crash
<1>3. ASSUME UNCHANGED <<tick, launch, apiVars>>, ControlOK' 
      PROVE  /\ ControlOK' /\ TickInv' /\ LaunchInv'
             /\ \A d \in Decision : applying'[d] \in {"continue", "stop", "reconcile"}
                                      => decision[d].kind = "checkpoint"
  BY <1>1, <1>2, <1>3, TickFrame, LaunchFrame, RunsSame, ApplyingSame DEF apiVars
<1>4. ASSUME NEW g \in Goal, PlannerReturns(g)
      PROVE  ControlOK' /\ UNCHANGED <<tick, launch, apiVars>>
  BY <1>1, <1>4 DEF PlannerReturns, ControlOK, apiVars, envVars
<1>5. ASSUME NEW g \in Goal, WallExpires(g)
      PROVE  ControlOK' /\ UNCHANGED <<tick, launch, apiVars>>
  BY <1>1, <1>5 DEF WallExpires, ControlOK, apiVars, coordVars
<1>6. ASSUME NEW r \in Run, RunExits(r) \/ RunAsks(r)
      PROVE  ControlOK' /\ UNCHANGED <<tick, launch, apiVars>>
  <2>1. runs' \in [Run -> RunRow] BY <1>1, <1>6 DEF RunExits, RunAsks, RunRow
  <2> QED BY <1>1, <1>6, <2>1 DEF RunExits, RunAsks, ControlOK, apiVars, coordVars
<1>7. CASE Crash
  <2>1. runs' \in [Run -> RunRow] BY <1>1, <1>7 DEF Crash, RunRow
  <2>2. crashes' \in 0 .. MaxCrashes BY <1>1, <1>7 DEF Crash, ControlOK
  <2>3. ControlOK' BY <1>1, <1>7, <2>1, <2>2 DEF Crash, ControlOK
  <2>4. TickInv' BY <1>1, <1>7, TickWithoutTask DEF Crash
  <2>5. LaunchInv' BY <1>1, <1>7 DEF Crash, LaunchInv
  <2> QED BY <1>7, <2>3, <2>4, <2>5 DEF Crash
<1> QED BY <1>2, <1>3, <1>4, <1>5, <1>6, <1>7 DEF EnvNext

----------------------------------------------------------------------------
(* The invariant, and what follows from it.                                *)

LEMMA RefInit == CoordInit => Init /\ RefInv
<1> SUFFICES ASSUME CoordInit PROVE Init /\ RefInv OBVIOUS
<1>1. Init /\ TypeOK BY TypeInit DEF CoordInit
<1>2. /\ Idle \in TickRow /\ Idle.pc = "idle" /\ NoLaunch \in LaunchRow /\ NoLaunch.st = "none"
      /\ NotStarted \in RunRow
  BY DEF Idle, TickRow, Result, NoLaunch, LaunchRow, NotStarted, RunRow
<1>3. ControlOK BY <1>2, CoordinatorAssumption DEF CoordInit, ControlOK
<1>4. TickInv /\ LaunchInv BY <1>2 DEF CoordInit, TickInv, LaunchInv
<1>5. ApplyInv BY <1>1 DEF CoordInit, Init, ApplyInv, Unopened
<1> QED BY <1>1, <1>3, <1>4, <1>5 DEF RefInv

LEMMA RefStep == RefInv /\ [CoordNext]_vars => RefInv' /\ [Next]_durableVars
<1> SUFFICES ASSUME RefInv, [CoordNext]_vars PROVE RefInv' /\ [Next]_durableVars OBVIOUS
<1>1. ASSUME [Next]_durableVars, ControlOK', TickInv', LaunchInv',
             \A d \in Decision : applying'[d] \in {"continue", "stop", "reconcile"}
                                   => decision[d].kind = "checkpoint"
      PROVE  RefInv' /\ [Next]_durableVars
  BY <1>1, TypeStep, ApplyFrame DEF RefInv
<1>2. CASE ApiNext
  <2>1. StoreStep /\ Beside BY <1>2, ApiGoal, ApiTask, ApiDecision DEF ApiNext
  <2>2. TickInv' /\ LaunchInv' BY <2>1, TickFrame, LaunchFrame DEF Beside, RefInv
  <2> QED BY <1>1, <2>1, <2>2 DEF StoreStep, Beside
<1>3. CASE TickNext
  <2>1. Goes BY <1>3, TickAll
  <2>2. ControlOK' BY <2>1 DEF Goes, RefInv, ControlOK, apiVars
  <2>3. applying' = applying BY <2>1 DEF Goes, apiVars
  <2> QED BY <1>1, <2>1, <2>2, <2>3, ApplyingSame DEF Goes, StoreStep, RefInv
<1>4. CASE EnvNext BY <1>1, <1>4, EnvAll
<1>5. CASE UNCHANGED vars
  <2>1. UNCHANGED <<durableVars, coordVars, apiVars, envVars>> BY <1>5 DEF vars
  <2>2. ControlOK' BY <2>1 DEF RefInv, ControlOK, coordVars, apiVars, envVars
  <2>3. TickInv' /\ LaunchInv'
    BY <2>1, TickFrame, LaunchFrame, RunsSame DEF RefInv, coordVars
  <2> QED BY <1>1, <2>1, <2>2, <2>3, ApplyingSame DEF RefInv, apiVars
<1> QED BY <1>2, <1>3, <1>4, <1>5 DEF CoordNext

LEMMA RefInvariant == CoordSpec => []RefInv
  BY RefInit, RefStep, PTL DEF CoordSpec

\* Every register of the threads and every row of the store keeps its type, for any
\* number of goals, tasks, runs and tokens.
THEOREM CoordTypeCorrect == CoordSpec => []CoordTypeOK
<1>1. RefInv => CoordTypeOK BY TypesJoin DEF RefInv
<1> QED BY <1>1, RefInvariant, PTL

\* The service only ever calls the store's operations, and never with a task, a goal or a
\* run that they do not expect: AppCoordinator, CollabApplication and a crash of them
\* together implement the durable layer.
THEOREM CoordImplementsStore == CoordSpec => Spec
<1>1. CoordInit => Init BY RefInit
<1> QED BY <1>1, RefInvariant, RefStep, PTL DEF CoordSpec, Spec

\* So whatever is proved of the store alone holds while the service runs: no tick, launch,
\* retry or "continue" puts a task of a cancelled goal in flight again.
THEOREM ServiceKeepsCancelledQuiet == CoordSpec => []CancelledIsQuiet
  BY CoordImplementsStore, CancelledStaysQuiet, PTL

\* Of several ticks and launches only one holds a task that is being dispatched.
THEOREM ServiceDispatchIsExclusive == CoordSpec => []DispatchIsExclusive
  BY CoordImplementsStore, DispatchStaysExclusive, PTL

\* A parked task gives up its slot only while its checkpoint is the one pending.
THEOREM ServiceHoldsSlots == CoordSpec => []SlotFreedOnlyByCheckpoint
  BY CoordImplementsStore, SlotsStayHeld, PTL

\* No goal of the service is completed before all of its tasks have succeeded.
THEOREM ServiceCompletionIsEarned == CoordSpec => CompletionIsEarned
  BY CoordImplementsStore, CompletionIsAlwaysEarned, PTL

----------------------------------------------------------------------------
(* Parked tasks.  The checkpoint that parks a task is pending until        *)
(* somebody answers it, and whoever records the answer applies it.         *)

\* The tick opens decisions and answers none.
LEMMA TickAnswersNothing ==
  ASSUME TickNext
  PROVE  \/ decision' = decision
         \/ \E e \in Decision, k \in Kind : \E g, t :
              decision[e].status = "unopened" /\ Open(e, k, g, t)
<1> DEFINE Asks == \/ decision' = decision
                    \/ \E e \in Decision, k \in Kind : \E g, t :
                         decision[e].status = "unopened" /\ Open(e, k, g, t)
<1>1. ASSUME NEW g \in Goal, TickBegins(g) PROVE Asks
  BY <1>1 DEF TickBegins, TickCancel, TickTerminated, TickPlan, TickPlanned, TickAdvance,
              FailGoal, durableVars
<1>2. ASSUME NEW k \in Claim, LaunchNext(k) PROVE Asks
  BY <1>2 DEF LaunchNext, StartRun, StartFailed, Bind, BindTaskRun, durableVars
<1>3. CASE Observe \/ ObserveFresh
  BY <1>3 DEF Observe, ObserveFresh, ObserveNothing, ObserveAbandoned, ObserveRequest, ObserveRun,
              Collect, Stall, OpenDecision, durableVars
<1>4. CASE Park
  BY <1>4 DEF Park, OpenCheckpoint, durableVars, Kind
<1>5. CASE TickEffect \/ Admit \/ Finish \/ Reconcile \/ Dispatch \/ Stamp \/ BudgetGoal
  BY <1>5 DEF TickEffect, EffectCancel, Admit, AddChildTask, Finish, FinishTask, Reconcile,
              ReconcileGoalProgress, Dispatch, Stamp, MarkRunStarted, BudgetGoal, FailGoal,
              durableVars
<1>6. ASSUME NEW k \in Claim, DispatchOne(k) PROVE Asks
  BY <1>6 DEF DispatchOne, ClaimTaskDispatch, durableVars
<1>7. ASSUME NEW t \in Task, BudgetTask(t) PROVE Asks
  BY <1>7 DEF BudgetTask, FinishTask, durableVars
<1> QED BY <1>1, <1>2, <1>3, <1>4, <1>5, <1>6, <1>7 DEF TickNext, TickContinues

\* A checkpoint is answered by one operation, which goes on to apply the verdict.
LEMMA CheckpointAnswered ==
  ASSUME RefInv, [CoordNext]_vars, NEW d \in Decision, decision[d].kind = "checkpoint",
         decision[d].status = "pending", decision'[d].status # "pending"
  PROVE  ApiCheckpoint(d)
<1>1. decision \in [Decision -> DecisionRow] BY DEF RefInv, TypeOK
<1>2. decision' # decision OBVIOUS
<1>3. ASSUME NEW e \in Decision, NEW k, NEW g, NEW t, decision[e].status = "unopened",
             Open(e, k, g, t)
      PROVE  FALSE
  BY <1>1, <1>3 DEF Open
<1>4. CASE TickNext BY <1>2, <1>3, <1>4, TickAnswersNothing
<1>5. CASE EnvNext BY <1>2, <1>5, EnvAll DEF durableVars
<1>6. ASSUME NEW g \in Goal, ApiSubmit(g) \/ ApiCancel(g) \/ ApiStopRuns(g) \/ ApiEffect(g)
      PROVE  FALSE
  BY <1>2, <1>6 DEF ApiSubmit, Submit, ApiCancel, CancelGoal, ApiStopRuns, ApiEffect,
                    EffectCancel, durableVars
<1>7. ASSUME NEW t \in Task, ApiRetry(t) \/ ApiResume(t) PROVE FALSE
  BY <1>2, <1>7 DEF ApiRetry, RetryNeedHuman, ApiResume, StartTask, durableVars
<1>8. ASSUME NEW e \in Decision, ApiAnswer(e) \/ ApiContinue(e) \/ ApiStop(e) \/ ApiReconcile(e)
      PROVE  FALSE
  BY <1>2, <1>8 DEF ApiAnswer, ApiContinue, RequeueCheckpointTask, ApiStop, FinishTask,
                    ApiReconcile, ReconcileGoalProgress, durableVars
<1>9. ASSUME NEW e \in Decision, NEW a, NEW v, ResolveDecision(e, a, 0, v, {})
      PROVE  e = d /\ v \in {"continue", "stop"}
  BY <1>1, <1>9 DEF ResolveDecision, CanResolve, Verdicts
<1>10. ASSUME NEW e \in Decision, ApiRecord(e) PROVE FALSE
  BY <1>9, <1>10 DEF ApiRecord, Verdicts
<1>11. ASSUME NEW e \in Decision, ApiCheckpoint(e) PROVE ApiCheckpoint(d)
  BY <1>9, <1>11 DEF ApiCheckpoint
<1>12. CASE UNCHANGED vars BY <1>2, <1>12 DEF vars, durableVars
<1> QED BY <1>4, <1>5, <1>6, <1>7, <1>8, <1>10, <1>11, <1>12 DEF CoordNext, ApiNext

\* Who applies a verdict does so, unless the service dies.
LEMMA VerdictApplied ==
  ASSUME RefInv, [CoordNext]_vars, ~Crash, NEW d \in Decision,
         applying[d] \in {"continue", "stop"}
  PROVE  applying'[d] = applying[d] \/ ApiContinue(d) \/ ApiStop(d)
<1>1. applying \in [Decision -> {"none", "record", "continue", "stop", "reconcile"}]
  BY DEF RefInv, ControlOK
<1>2. CASE TickNext BY <1>2, TickAll DEF Goes, apiVars
<1>3. CASE EnvNext
  BY <1>3 DEF EnvNext, PlannerReturns, WallExpires, RunExits, RunAsks, apiVars
<1>4. ASSUME NEW g \in Goal, ApiSubmit(g) \/ ApiCancel(g) \/ ApiStopRuns(g) \/ ApiEffect(g)
      PROVE  applying'[d] = applying[d]
  BY <1>4 DEF ApiSubmit, ApiCancel, ApiStopRuns, ApiEffect, apiVars
<1>5. ASSUME NEW t \in Task, ApiRetry(t) \/ ApiResume(t) PROVE applying'[d] = applying[d]
  BY <1>5 DEF ApiRetry, ApiResume
<1>6. ASSUME NEW e \in Decision, ApiAnswer(e) \/ ApiRecord(e) \/ ApiCheckpoint(e) \/ ApiReconcile(e)
      PROVE  applying'[d] = applying[d]
  BY <1>1, <1>6 DEF ApiAnswer, ApiRecord, ApiCheckpoint, ApiReconcile
<1>7. ASSUME NEW e \in Decision, ApiContinue(e) \/ ApiStop(e)
      PROVE  applying'[d] = applying[d] \/ ApiContinue(d) \/ ApiStop(d)
  BY <1>1, <1>7 DEF ApiContinue, ApiStop
<1>8. CASE UNCHANGED vars BY <1>8 DEF vars, apiVars
<1> QED BY <1>2, <1>3, <1>4, <1>5, <1>6, <1>7, <1>8 DEF CoordNext, ApiNext

\* A verdict that is applied to a parked task ends its parking.
LEMMA VerdictUnparks ==
  ASSUME TypeOK, Admitted, NEW d \in Decision, ApiContinue(d) \/ ApiStop(d),
         NEW t \in Task, decision[d].task = t, FreesSlot(t)
  PROVE  ~FreesSlot(t)'
<1>1. task \in [Task -> TaskRow] /\ task[t] \in TaskRow /\ goal[GoalOf[t]] \in Snapshot
  BY Rows, GoalOfTask DEF TypeOK
<1>2. task[t].status = "awaiting_decision" BY DEF FreesSlot
<1>3. CASE ApiContinue(d)
  <2>1. CanRequeue(t) BY <1>2 DEF CanRequeue, TaskMay, TaskState, TaskEdge
  <2>2. RequeueCheckpointTask(t) BY <1>3, <2>1 DEF ApiContinue
  <2>3. task'[t].status = "queued" BY <1>1, <2>2 DEF RequeueCheckpointTask, NewTask
  <2> QED BY <2>3 DEF FreesSlot
<1>4. CASE ApiStop(d)
  <2>1. PICK res \in {"need_human", "fail"} :
          FinishTask(t, res, FALSE, task[t].run) \/ ~CanFinish(t, res, FALSE)
    BY <1>4 DEF ApiStop
  <2>2. goal[GoalOf[t]].state \in GoalState BY <1>1, <1>2 DEF Admitted, Known, Snapshot
  <2>3. \/ GoalAfterFinish(t, res, FALSE) = goal[GoalOf[t]].state
        \/ /\ goal[GoalOf[t]].state \notin TerminalGoal
           /\ GoalAfterFinish(t, res, FALSE) = "failed"
    BY <2>1 DEF GoalAfterFinish
  <2>4. GoalMay(goal[GoalOf[t]].state, GoalAfterFinish(t, res, FALSE))
    <3>1. ASSUME NEW s \in GoalState \ TerminalGoal PROVE GoalMay(s, "failed")
      BY <3>1 DEF GoalMay, GoalState, GoalEdge, TerminalGoal
    <3> QED BY <2>2, <2>3, <3>1 DEF GoalMay
  <2>5. Outcome(res) = "failed" BY <2>1 DEF Outcome
  <2>6. TaskMay(task[t].status, Outcome(res)) BY <1>2, <2>5 DEF TaskMay, TaskState, TaskEdge
  <2>7. FinishTask(t, res, FALSE, task[t].run) BY <2>1, <2>4, <2>6 DEF CanFinish
  <2>8. task'[t].status = "failed" BY <1>1, <2>5, <2>7 DEF FinishTask, TaskRow
  <2> QED BY <2>8 DEF FreesSlot
<1> QED BY <1>3, <1>4

\* A crash is remembered.
LEMMA CrashCounts ==
  ASSUME RefInv, [CoordNext]_vars, crashes' = 0
  PROVE  crashes = 0 /\ ~Crash
<1>1. crashes \in Nat BY CoordinatorAssumption DEF RefInv, ControlOK
<1>2. ~Crash BY <1>1 DEF Crash
<1>3. TickNext => crashes' = crashes BY TickAll DEF Goes
<1>4. EnvNext => crashes' = crashes
  BY <1>2 DEF EnvNext, PlannerReturns, WallExpires, RunExits, RunAsks, envVars
<1>5. ApiNext => crashes' = crashes
  BY DEF ApiNext, ApiSubmit, ApiCancel, ApiStopRuns, ApiEffect, ApiRetry, ApiResume, ApiAnswer,
         ApiRecord, ApiCheckpoint, ApiContinue, ApiStop, ApiReconcile, envVars
<1>6. UNCHANGED vars => crashes' = crashes BY DEF vars, envVars
<1> QED BY <1>2, <1>3, <1>4, <1>5, <1>6 DEF CoordNext

LEMMA AnswerStep ==
  ASSUME RefInv, ParkInv, Admitted, ParkedIsAnswerable, [CoordNext]_vars
  PROVE  ParkedIsAnswerable'
<1> SUFFICES ASSUME NEW t \in Task, crashes' = 0, FreesSlot(t)'
             PROVE  LET d == task'[t].parkedOn IN
                    decision'[d].status = "pending" \/ applying'[d] \in {"continue", "stop"}
  BY DEF ParkedIsAnswerable
<1> DEFINE d == task'[t].parkedOn
<1>1. crashes = 0 /\ ~Crash BY CrashCounts
<1>2. [Next]_durableVars /\ TypeOK BY RefStep DEF RefInv
<1>3. StaysParked(t) \/ \E e \in Decision : OpenCheckpoint(e, t)
  <2>1. UNCHANGED durableVars => StaysParked(t) BY DEF durableVars, StaysParked, FreesSlot
  <2> QED BY <1>2, <2>1, ParkGoalNext, ParkTaskNext, ParkDecisionNext DEF Next
<1>4. ASSUME NEW e \in Decision, OpenCheckpoint(e, t)
      PROVE  decision'[d].status = "pending"
  <2>1. task \in [Task -> TaskRow] /\ task[t] \in TaskRow /\ decision \in [Decision -> DecisionRow]
    BY <1>2, Rows DEF TypeOK
  <2>2. d = e BY <1>4, <2>1 DEF OpenCheckpoint, TaskRow
  <2> QED BY <1>4, <2>1, <2>2 DEF OpenCheckpoint, Open, Unopened
<1>5. CASE StaysParked(t)
  <2>1. FreesSlot(t) /\ d = task[t].parkedOn /\ d # NoDecision
    BY <1>5 DEF StaysParked, FreesSlot
  <2>2. d \in Decision BY <1>2, <2>1, Rows DEF TaskRow
  <2>3. decision[d].kind = "checkpoint" /\ decision[d].task = t BY <2>1 DEF ParkInv
  <2>4. decision[d].status = "pending" \/ applying[d] \in {"continue", "stop"}
    BY <1>1, <2>1 DEF ParkedIsAnswerable
  <2> HIDE DEF d
  <2>5. CASE decision[d].status = "pending" /\ decision'[d].status # "pending"
    <3>1. ApiCheckpoint(d) BY <2>2, <2>3, <2>5, CheckpointAnswered
    <3>2. applying \in [Decision -> {"none", "record", "continue", "stop", "reconcile"}]
      BY DEF RefInv, ControlOK
    <3> QED BY <2>2, <3>1, <3>2 DEF ApiCheckpoint, Verdicts, d
  <2>6. CASE applying[d] \in {"continue", "stop"}
    <3>1. ~(ApiContinue(d) \/ ApiStop(d)) BY <1>2, <2>1, <2>2, <2>3, VerdictUnparks
    <3> QED BY <1>1, <2>2, <2>6, <3>1, VerdictApplied DEF d
  <2> QED BY <2>4, <2>5, <2>6 DEF d
<1> QED BY <1>3, <1>4, <1>5

\* While the service lives nobody is parked for ever by a verdict that was recorded and
\* forgotten: the checkpoint of a parked task is pending, or a thread of resolve is
\* between the record and the requeue or the stop, whatever else retries, cancels,
\* exhausts its budget or parks meanwhile.
THEOREM ParkedStaysAnswerable == CoordSpec => []ParkedIsAnswerable
<1>1. CoordInit => ParkedIsAnswerable
  BY DEF CoordInit, Init, ParkedIsAnswerable, FreesSlot, AbsentTask, NewTask
<1>2. RefInv /\ ParkInv /\ Admitted /\ ParkedIsAnswerable /\ [CoordNext]_vars
        => ParkedIsAnswerable'
  BY AnswerStep
<1>3. CoordSpec => [](RefInv /\ ParkInv /\ Admitted)
  BY RefInvariant, CoordImplementsStore, ParkInvariant, AdmittedInvariant, PTL
<1> QED BY <1>1, <1>2, <1>3, PTL DEF CoordSpec

----------------------------------------------------------------------------
(* Runs and retries.  A task that is queued, or not admitted yet, has one  *)
(* start to come, a claim passes it on to the thread in start_run, and     *)
(* that to the run.  Only a retry and a "continue" put a task back into    *)
(* the queue, and each of them is counted.                                 *)
Starting(t) == {k \in Claim : launch[k].st = "starting" /\ launch[k].task = t}
Chance(t)   == IF task[t].status \in {"absent", "queued"} THEN 1 ELSE 0

RunInv ==
  /\ \A r \in Run : runs[r].st = "unused" => runs[r].task \notin Task
  /\ \A t \in Task :
       /\ IsFiniteSet(RunsFor(t)) /\ IsFiniteSet(Starting(t))
       /\ Cardinality(RunsFor(t)) + Cardinality(Starting(t)) + Chance(t)
            <= 1 + goal[GoalOf[t]].retries

\* What a step of the store does to the starts that a task has to come.
Counted(t) ==
  /\ goal'[GoalOf[t]].retries \in Nat /\ goal'[GoalOf[t]].retries >= goal[GoalOf[t]].retries
  /\ \/ task'[t].status \notin {"absent", "queued"}
     \/ task[t].status \in {"absent", "queued"}
     \/ goal'[GoalOf[t]].retries >= goal[GoalOf[t]].retries + 1

\* The count of retries only grows.
LEMMA RetriesGrow ==
  ASSUME TypeOK, [Next]_durableVars, NEW h \in Goal
  PROVE  goal'[h].retries \in Nat /\ goal'[h].retries >= goal[h].retries
<1>1. /\ goal \in [Goal -> Snapshot] /\ goal[h] \in Snapshot /\ goal[h].retries \in Nat
  BY Rows, DurableAssumption DEF TypeOK, Snapshot
<1>2. goal'[h] \in Snapshot /\ goal'[h].retries \in Nat
  BY TypeStep, DurableAssumption DEF TypeOK, Snapshot
<1>3. ASSUME goal'[h].retries = goal[h].retries PROVE goal'[h].retries >= goal[h].retries
  BY <1>1, <1>3
<1>4. ASSUME NEW g \in Goal, GoalNext(g) PROVE goal'[h].retries >= goal[h].retries
  <2>1. ASSUME NEW t, NEW resume, RetryNeedHuman(g, t, resume)
        PROVE  goal'[h].retries >= goal[h].retries
    <3>1. h # g => goal'[h] = goal[h] BY <1>1, <2>1 DEF RetryNeedHuman
    <3>2. h = g => goal'[h].retries = goal[h].retries + 1
      BY <1>1, <2>1 DEF RetryNeedHuman, Snapshot
    <3> QED BY <1>1, <3>1, <3>2
  <2>2. ASSUME NEW c, NEW seed, Submit(g, c, seed) PROVE goal'[h].retries = goal[h].retries
    BY <1>1, <2>2 DEF Submit, Snapshot
  <2>3. CASE ReconcileGoalProgress(g) BY <1>1, <1>3, <2>3 DEF ReconcileGoalProgress, Snapshot
  <2>4. CASE FailGoal(g) BY <1>1, <1>3, <2>4 DEF FailGoal, Snapshot
  <2>5. CASE CancelGoal(g) BY <1>1, <1>3, <2>5 DEF CancelGoal, Snapshot
  <2>6. CASE EffectCancel(g) BY <1>1, <1>3, <2>6 DEF EffectCancel, Snapshot
  <2>7. CASE goal' = goal BY <1>3, <2>7
  <2> QED BY <1>3, <1>4, <2>1, <2>2, <2>3, <2>4, <2>5, <2>6, <2>7
          DEF GoalNext, CrashInSubmit, Handoff
<1>5. ASSUME NEW t \in Task, TaskNext(t) PROVE goal'[h].retries >= goal[h].retries
  <2>1. CASE RequeueCheckpointTask(t)
    <3>1. h # GoalOf[t] => goal'[h] = goal[h] BY <1>1, <2>1 DEF RequeueCheckpointTask
    <3>2. h = GoalOf[t] => goal'[h].retries = goal[h].retries + 1
      BY <1>1, <2>1 DEF RequeueCheckpointTask, Snapshot
    <3> QED BY <1>1, <3>1, <3>2
  <2>2. ASSUME goal' = [goal EXCEPT ![GoalOf[t]].state = Started(@)]
        PROVE  goal'[h].retries = goal[h].retries
    BY <1>1, <2>2 DEF Snapshot
  <2>3. ASSUME NEW res, NEW close, NEW r, FinishTask(t, res, close, r)
        PROVE  goal'[h].retries = goal[h].retries
    BY <1>1, <2>3 DEF FinishTask, Snapshot
  <2>4. CASE goal' = goal BY <1>3, <2>4
  <2> QED BY <1>3, <1>5, <2>1, <2>2, <2>3, <2>4 DEF TaskNext, AddChildTask, StartTask,
        MarkRunStarted, ClaimTaskDispatch, BindTaskRun, OpenCheckpoint
<1>6. ASSUME NEW d \in Decision, DecisionNext(d) PROVE goal'[h].retries = goal[h].retries
  <2>1. ASSUME NEW a, NEW ver, NEW v, NEW scope, ResolveDecision(d, a, ver, v, scope)
        PROVE  goal'[h].retries = goal[h].retries
    BY <1>1, <2>1 DEF ResolveDecision, Snapshot
  <2> QED BY <1>6, <2>1 DEF DecisionNext, OpenDecision, CrashInResolve
<1>7. CASE UNCHANGED durableVars BY <1>2, <1>3, <1>7 DEF durableVars
<1> QED BY <1>2, <1>3, <1>4, <1>5, <1>6, <1>7 DEF Next

LEMMA StoreCounts ==
  ASSUME TypeOK, Admitted, [Next]_durableVars, NEW u \in Task
  PROVE  Counted(u)
<1> DEFINE Fresh == {"absent", "queued"}
<1>1. /\ goal \in [Goal -> Snapshot] /\ task \in [Task -> TaskRow]
      /\ \A g \in Goal : goal[g] \in Snapshot /\ goal[g].retries \in Nat
      /\ \A t \in Task : task[t] \in TaskRow /\ GoalOf[t] \in Goal
  BY Rows, GoalOfTask, DurableAssumption DEF TypeOK, Snapshot
<1>2. /\ goal'[GoalOf[u]].retries \in Nat
      /\ goal'[GoalOf[u]].retries >= goal[GoalOf[u]].retries
  BY <1>1, RetriesGrow
<1>3. ASSUME task'[u].status \notin Fresh PROVE Counted(u) BY <1>2, <1>3 DEF Counted
<1>4. ASSUME task'[u].status = task[u].status PROVE Counted(u) BY <1>2, <1>4 DEF Counted
<1>5. ASSUME task[u].status \in Fresh PROVE Counted(u) BY <1>2, <1>5 DEF Counted
<1>6. ASSUME goal'[GoalOf[u]].retries = goal[GoalOf[u]].retries + 1 PROVE Counted(u)
  BY <1>1, <1>2, <1>6 DEF Counted
<1> HIDE DEF Fresh
<1>7. ASSUME NEW g \in Goal, GoalNext(g) PROVE Counted(u)
  <2>1. ASSUME NEW c, NEW seed \in SUBSET {t \in Task : GoalOf[t] = g}, Submit(g, c, seed)
        PROVE  Counted(u)
    <3>1. u \in seed => task[u].status = "absent" BY <2>1 DEF Submit, Admitted
    <3>2. u \notin seed => task'[u] = task[u] BY <2>1 DEF Submit
    <3> QED BY <1>4, <1>5, <3>1, <3>2 DEF Fresh
  <2>2. ASSUME NEW t \in Task, NEW resume, RetryNeedHuman(g, t, resume) PROVE Counted(u)
    <3>1. u # t => task'[u] = task[u] BY <1>1, <2>2 DEF RetryNeedHuman
    <3>2. GoalOf[t] = g
      BY <2>2 DEF RetryNeedHuman, CanRetry, RetryTargets, TasksOf
    <3>3. u = t => goal'[GoalOf[u]].retries = goal[GoalOf[u]].retries + 1
      BY <1>1, <2>2, <3>2 DEF RetryNeedHuman, Snapshot
    <3> QED BY <1>4, <1>6, <3>1, <3>3
  <2>3. CASE CancelGoal(g)
    <3>1. task'[u] = task[u] \/ task'[u].status = "cancel_requested"
      BY <1>1, <2>3 DEF CancelGoal, TaskRow
    <3> QED BY <1>3, <1>4, <3>1 DEF Fresh
  <2>4. CASE EffectCancel(g)
    <3>1. task'[u] = task[u] \/ task'[u].status = "cancelled"
      BY <1>1, <2>4 DEF EffectCancel, TaskRow
    <3> QED BY <1>3, <1>4, <3>1 DEF Fresh
  <2>5. ASSUME task' = task PROVE Counted(u) BY <1>4, <2>5
  <2> QED BY <1>7, <2>1, <2>2, <2>3, <2>4, <2>5 DEF GoalNext, CrashInSubmit,
                                                   ReconcileGoalProgress, FailGoal, Handoff
<1>8. ASSUME NEW t \in Task, TaskNext(t) PROVE Counted(u)
  <2>1. CASE u # t
    <3>1. task'[u] = task[u]
      BY <1>1, <1>8, <2>1 DEF TaskNext, AddChildTask, StartTask, MarkRunStarted,
            RequeueCheckpointTask, ClaimTaskDispatch, BindTaskRun, FinishTask, OpenCheckpoint
    <3> QED BY <1>4, <3>1
  <2>2. CASE u = t
    <3>1. CASE AddChildTask(t)
      BY <1>5, <2>2, <3>1 DEF AddChildTask, CanAddChildTask, Fresh
    <3>2. CASE StartTask(t)
      <4>1. task'[u].status = "running" BY <1>1, <2>2, <3>2 DEF StartTask, TaskRow
      <4> QED BY <1>3, <4>1 DEF Fresh
    <3>3. ASSUME NEW k, ClaimTaskDispatch(t, k) PROVE Counted(u)
      BY <1>5, <2>2, <3>3 DEF ClaimTaskDispatch, CanClaimDispatch, Fresh
    <3>4. ASSUME NEW r, BindTaskRun(t, r) PROVE Counted(u)
      <4>1. task'[u].status = task[u].status BY <1>1, <2>2, <3>4 DEF BindTaskRun, TaskRow
      <4> QED BY <1>4, <4>1
    <3>5. CASE MarkRunStarted(t)
      <4>1. task'[u].status = task[u].status BY <1>1, <2>2, <3>5 DEF MarkRunStarted, TaskRow
      <4> QED BY <1>4, <4>1
    <3>6. ASSUME NEW res, NEW close, NEW r, FinishTask(t, res, close, r) PROVE Counted(u)
      <4>1. task'[u].status = Outcome(res) BY <1>1, <2>2, <3>6 DEF FinishTask, TaskRow
      <4> QED BY <1>3, <4>1 DEF Outcome, Fresh
    <3>7. CASE RequeueCheckpointTask(t)
      <4>1. goal'[GoalOf[u]].retries = goal[GoalOf[u]].retries + 1
        BY <1>1, <2>2, <3>7 DEF RequeueCheckpointTask, Snapshot
      <4> QED BY <1>6, <4>1
    <3>8. ASSUME NEW d, OpenCheckpoint(d, t) PROVE Counted(u)
      <4>1. task'[u].status = "awaiting_decision" BY <1>1, <2>2, <3>8 DEF OpenCheckpoint, TaskRow
      <4> QED BY <1>3, <4>1 DEF Fresh
    <3> QED BY <1>8, <3>1, <3>2, <3>3, <3>4, <3>5, <3>6, <3>7, <3>8 DEF TaskNext
  <2> QED BY <2>1, <2>2
<1>9. ASSUME NEW d \in Decision, DecisionNext(d) PROVE Counted(u)
  <2>1. ASSUME NEW k, NEW g, NEW t, OpenDecision(d, k, g, t) PROVE Counted(u)
    <3>1. task'[u] = task[u] \/ task'[u] = Paused(u, d) BY <1>1, <2>1 DEF OpenDecision
    <3>2. Paused(u, d).status \in {task[u].status, "awaiting_decision"}
      BY <1>1 DEF Paused, TaskRow
    <3> QED BY <1>3, <1>4, <3>1, <3>2 DEF Fresh
  <2>2. ASSUME NEW a, NEW ver, NEW v, NEW scope, ResolveDecision(d, a, ver, v, scope)
        PROVE  Counted(u)
    <3>1. task'[u] = task[u] \/ task'[u].status = "running"
      BY <1>1, <2>2 DEF ResolveDecision, TaskRow
    <3> QED BY <1>3, <1>4, <3>1 DEF Fresh
  <2> QED BY <1>4, <1>9, <2>1, <2>2 DEF DecisionNext, CrashInResolve
<1>10. CASE UNCHANGED durableVars BY <1>4, <1>10 DEF durableVars
<1> QED BY <1>7, <1>8, <1>9, <1>10 DEF Next

\* What a step that neither claims a task nor starts a run does.
Steady ==
  /\ \A r \in Run : /\ runs'[r].task = runs[r].task
                    /\ runs'[r].st = "unused" => runs[r].st = "unused"
  /\ \A k \in Claim : launch'[k].st = "starting" => launch'[k] = launch[k]

Starts(k) == \E r \in Run :
  /\ launch[k].st = "starting" /\ runs[r].st = "unused"
  /\ runs' = [runs EXCEPT ![r] = [st |-> "live", task |-> launch[k].task]]
  /\ launch' = [launch EXCEPT ![k] = [@ EXCEPT !.st = "started", !.run = r]]
  /\ UNCHANGED durableVars
Claims(k) ==
  /\ Unclaimed(k) /\ ClaimTaskDispatch(tick.task, k) /\ tick.task \in Task
  /\ launch' = [launch EXCEPT ![k] = [st |-> "starting", task |-> tick.task, run |-> NoRun,
                                      skipped |-> tick.todo]]
  /\ UNCHANGED runs

LEMMA StopSteady ==
  ASSUME runs \in [Run -> RunRow], NEW S, Stop(S)
  PROVE  \A r \in Run : /\ runs'[r].task = runs[r].task
                        /\ runs'[r].st = "unused" => runs[r].st = "unused"
  BY DEF Stop, RunRow

LEMMA ApiSteady ==
  ASSUME RefInv, ApiNext
  PROVE  Steady
<1>1. runs \in [Run -> RunRow] BY DEF RefInv, ControlOK
<1>2. launch' = launch BY ApiGoal, ApiTask, ApiDecision DEF ApiNext, Beside
<1>3. ASSUME runs' = runs PROVE Steady BY <1>2, <1>3 DEF Steady
<1>4. ASSUME NEW g \in Goal, ApiStopRuns(g) PROVE Steady
  BY <1>1, <1>2, <1>4, StopSteady DEF ApiStopRuns, Steady
<1>5. ASSUME NEW d \in Decision, ApiAnswer(d) PROVE Steady
  BY <1>1, <1>2, <1>5 DEF ApiAnswer, Steady, RunRow
<1>6. \/ runs' = runs
      \/ \E g \in Goal : ApiStopRuns(g)
      \/ \E d \in Decision : ApiAnswer(d)
  BY DEF ApiNext, ApiSubmit, ApiCancel, ApiEffect, ApiRetry, ApiResume, ApiRecord, ApiCheckpoint,
         ApiContinue, ApiStop, ApiReconcile, envVars
<1> QED BY <1>3, <1>4, <1>5, <1>6

LEMMA EnvSteady ==
  ASSUME RefInv, EnvNext
  PROVE  Steady
<1>1. runs \in [Run -> RunRow] BY DEF RefInv, ControlOK
<1>2. ASSUME launch' = launch, runs' = runs PROVE Steady BY <1>2 DEF Steady
<1>3. ASSUME NEW g \in Goal, PlannerReturns(g) \/ WallExpires(g) PROVE Steady
  BY <1>2, <1>3 DEF PlannerReturns, WallExpires, envVars, coordVars
<1>4. ASSUME NEW r \in Run, RunExits(r) \/ RunAsks(r) PROVE Steady
  BY <1>1, <1>4 DEF RunExits, RunAsks, Steady, RunRow, coordVars
<1>5. CASE Crash
  <2>1. \A r \in Run : /\ runs'[r].task = runs[r].task
                       /\ runs'[r].st = "unused" => runs[r].st = "unused"
    BY <1>1, <1>5 DEF Crash, RunRow
  <2>2. \A k \in Claim : launch'[k].st # "starting" BY <1>5 DEF Crash, NoLaunch
  <2> QED BY <2>1, <2>2 DEF Steady
<1> QED BY <1>3, <1>4, <1>5 DEF EnvNext

LEMMA TickSteady ==
  ASSUME RefInv, TickNext
  PROVE  Steady \/ \E k \in Claim : Starts(k) \/ Claims(k)
<1>1. runs \in [Run -> RunRow] /\ launch \in [Claim -> LaunchRow] BY DEF RefInv, ControlOK
<1>2. ASSUME launch' = launch, runs' = runs PROVE Steady BY <1>2 DEF Steady
<1>3. ASSUME launch' = launch, NEW S, Stop(S) PROVE Steady
  BY <1>1, <1>3, StopSteady DEF Steady
<1>4. ASSUME runs' = runs, NEW k \in Claim, NEW x, launch' = [launch EXCEPT ![k] = x],
             x.st # "starting"
      PROVE  Steady
  BY <1>1, <1>4 DEF Steady
<1>5. ASSUME NEW g \in Goal, TickBegins(g) PROVE Steady
  BY <1>2, <1>3, <1>5 DEF TickBegins, TickCancel, TickTerminated, TickPlan, TickPlanned,
                          TickAdvance, envVars
<1>6. ASSUME NEW t, NEW r, Collect(t, r) \/ Stall(t, r), launch' = launch PROVE Steady
  BY <1>2, <1>3, <1>6 DEF Collect, Stall
<1>7. CASE Observe
  <2>1. launch' = launch BY <1>7 DEF Observe
  <2>2. ASSUME NEW t, ObserveRun(t) PROVE Steady BY <1>6, <2>1, <2>2 DEF ObserveRun
  <2> QED BY <1>2, <1>7, <2>1, <2>2
          DEF Observe, ObserveNothing, ObserveAbandoned, ObserveRequest
<1>8. CASE ObserveFresh BY <1>2, <1>6, <1>8 DEF ObserveFresh
<1>9. CASE TickEffect \/ Admit \/ Finish \/ Reconcile \/ Park \/ Dispatch \/ Stamp \/ BudgetGoal
  BY <1>2, <1>9 DEF TickEffect, Admit, Finish, Reconcile, Park, Dispatch, Stamp, BudgetGoal, envVars
<1>10. ASSUME NEW t \in Task, BudgetTask(t) PROVE Steady BY <1>3, <1>10 DEF BudgetTask
<1>11. ASSUME NEW k \in Claim, DispatchOne(k) PROVE Steady \/ Claims(k)
  <2>1. tick.task \in Task BY <1>11 DEF DispatchOne, RefInv, TickInv
  <2> QED BY <1>2, <1>11, <2>1 DEF DispatchOne, Claims, envVars
<1>12. ASSUME NEW k \in Claim, StartRun(k) PROVE Steady \/ Starts(k)
  <2>1. CASE launch' = [launch EXCEPT ![k].st = "failed"] /\ UNCHANGED runs
    <3>1. launch' = [launch EXCEPT ![k] = [launch[k] EXCEPT !.st = "failed"]] BY <2>1
    <3>2. [launch[k] EXCEPT !.st = "failed"].st = "failed" BY <1>1 DEF LaunchRow
    <3> QED BY <1>4, <2>1, <3>1, <3>2
  <2> QED BY <1>12, <2>1 DEF StartRun, Starts
<1>13. ASSUME NEW k \in Claim, StartFailed(k) \/ Bind(k) PROVE Steady
  BY <1>4, <1>13 DEF StartFailed, Bind, NoLaunch, envVars
<1> QED BY <1>5, <1>7, <1>8, <1>9, <1>10, <1>11, <1>12, <1>13
        DEF TickNext, TickContinues, LaunchNext

\* A claim spends the start of its task on a thread, ...
LEMMA ClaimCounted ==
  ASSUME RefInv, RunInv, [Next]_durableVars, Admitted, NEW k \in Claim, Claims(k)
  PROVE  RunInv'
<1>1. /\ launch \in [Claim -> LaunchRow] /\ task \in [Task -> TaskRow] /\ TypeOK
      /\ \A t \in Task : task[t] \in TaskRow
      /\ \A t \in Task : GoalOf[t] \in Goal /\ goal[GoalOf[t]].retries \in Nat
  BY Rows, GoalOfTask, DurableAssumption DEF RefInv, ControlOK, TypeOK, Snapshot
<1>2. launch[k].st = "none" /\ tick.task \in Task BY DEF Claims, Unclaimed
<1>3. \A r \in Run : runs'[r].st = "unused" => runs'[r].task \notin Task
  BY DEF Claims, RunInv
<1>4. ASSUME NEW t \in Task
      PROVE  /\ IsFiniteSet(RunsFor(t)') /\ IsFiniteSet(Starting(t)')
             /\ Cardinality(RunsFor(t)') + Cardinality(Starting(t)') + Chance(t)'
                  <= 1 + goal'[GoalOf[t]].retries
  <2> DEFINE n == Cardinality(RunsFor(t))
             m == Cardinality(Starting(t))
             c == Chance(t)
             q == goal[GoalOf[t]].retries
  <2>1. RunsFor(t)' = RunsFor(t) BY DEF Claims, RunsFor
  <2>2. IsFiniteSet(RunsFor(t)) /\ IsFiniteSet(Starting(t)) /\ n + m + c <= 1 + q
    BY DEF RunInv
  <2>3. n \in Nat /\ m \in Nat /\ c \in Nat /\ q \in Nat
    BY <1>1, <2>2, FS_CardinalityType DEF Chance
  <2>4. CASE t = tick.task
    <3>1. Starting(t)' = Starting(t) \cup {k} BY <1>1, <1>2, <2>4 DEF Claims, Starting
    <3>2. k \notin Starting(t) BY <1>2 DEF Starting
    <3>3. IsFiniteSet(Starting(t)') /\ Cardinality(Starting(t)') = m + 1
      BY <2>2, <3>1, <3>2, FS_AddElement
    <3>4. task[t].status = "queued" /\ task'[t].status = "running"
      BY <1>1, <2>4 DEF Claims, ClaimTaskDispatch, CanClaimDispatch, TaskRow
    <3>5. c = 1 /\ Chance(t)' = 0 BY <3>4 DEF Chance
    <3>6. goal'[GoalOf[t]].retries >= q /\ goal'[GoalOf[t]].retries \in Nat
      BY <1>1, RetriesGrow
    <3> HIDE DEF n, m, c, q
    <3>7. n + (m + 1) + 0 <= 1 + goal'[GoalOf[t]].retries BY <2>2, <2>3, <3>5, <3>6
    <3> QED BY <2>1, <2>2, <3>3, <3>5, <3>7 DEF n
  <2>5. CASE t # tick.task
    <3>1. Starting(t)' = Starting(t) BY <1>1, <1>2, <2>5 DEF Claims, Starting
    <3>2. task'[t] = task[t] BY <1>1, <1>2, <2>5 DEF Claims, ClaimTaskDispatch
    <3>3. Chance(t)' = c BY <3>2 DEF Chance
    <3>4. goal'[GoalOf[t]].retries >= q /\ goal'[GoalOf[t]].retries \in Nat
      BY <1>1, RetriesGrow
    <3> HIDE DEF n, m, c, q
    <3>5. n + m + c <= 1 + goal'[GoalOf[t]].retries BY <2>2, <2>3, <3>4
    <3> QED BY <2>1, <2>2, <3>1, <3>3, <3>5 DEF n, m
  <2> QED BY <2>4, <2>5
<1> QED BY <1>3, <1>4 DEF RunInv

\* ... and the thread spends it on a run.
LEMMA StartCounted ==
  ASSUME RefInv, RunInv, NEW k \in Claim, Starts(k)
  PROVE  RunInv'
<1>1. launch \in [Claim -> LaunchRow] /\ runs \in [Run -> RunRow] /\ launch[k] \in LaunchRow
  BY DEF RefInv, ControlOK
<1>2. PICK r \in Run :
        /\ launch[k].st = "starting" /\ runs[r].st = "unused"
        /\ runs' = [runs EXCEPT ![r] = [st |-> "live", task |-> launch[k].task]]
        /\ launch' = [launch EXCEPT ![k] = [@ EXCEPT !.st = "started", !.run = r]]
        /\ UNCHANGED durableVars
  BY DEF Starts
<1>3. goal' = goal /\ task' = task BY <1>2 DEF durableVars
<1>4. runs[r].task \notin Task BY <1>2 DEF RunInv
<1>5. \A s \in Run : runs'[s].st = "unused" => runs'[s].task \notin Task
  BY <1>1, <1>2 DEF RunInv
<1>6. /\ runs'[r].task = launch[k].task /\ \A s \in Run \ {r} : runs'[s] = runs[s]
      /\ launch'[k].st = "started" /\ \A j \in Claim \ {k} : launch'[j] = launch[j]
  BY <1>1, <1>2 DEF LaunchRow
<1>7. ASSUME NEW t \in Task
      PROVE  /\ IsFiniteSet(RunsFor(t)') /\ IsFiniteSet(Starting(t)')
             /\ Cardinality(RunsFor(t)') + Cardinality(Starting(t)') + Chance(t)'
                  <= 1 + goal'[GoalOf[t]].retries
  <2> DEFINE n == Cardinality(RunsFor(t))
             m == Cardinality(Starting(t))
             c == Chance(t)
             q == 1 + goal[GoalOf[t]].retries
  <2>1. IsFiniteSet(RunsFor(t)) /\ IsFiniteSet(Starting(t)) /\ n + m + c <= q BY DEF RunInv
  <2>2. n \in Nat /\ m \in Nat /\ c \in Nat BY <2>1, FS_CardinalityType DEF Chance
  <2>3. Chance(t)' = c /\ 1 + goal'[GoalOf[t]].retries = q BY <1>3 DEF Chance
  <2>4. CASE t = launch[k].task
    <3>1. RunsFor(t)' = RunsFor(t) \cup {r} BY <1>6, <2>4 DEF RunsFor
    <3>2. r \notin RunsFor(t) BY <1>4 DEF RunsFor
    <3>3. IsFiniteSet(RunsFor(t)') /\ Cardinality(RunsFor(t)') = n + 1
      BY <2>1, <3>1, <3>2, FS_AddElement
    <3>4. Starting(t)' = Starting(t) \ {k} BY <1>6 DEF Starting
    <3>5. k \in Starting(t) BY <1>2, <2>4 DEF Starting
    <3>6. IsFiniteSet(Starting(t)') /\ Cardinality(Starting(t)') = m - 1
      BY <2>1, <3>4, <3>5, FS_RemoveElement
    <3> HIDE DEF n, m, c, q
    <3>7. (n + 1) + (m - 1) + c <= q
      <4>1. (n + 1) + (m - 1) + c = n + m + c BY <2>2
      <4> QED BY <2>1, <4>1
    <3> QED BY <2>3, <3>3, <3>6, <3>7
  <2>5. CASE t # launch[k].task
    <3>1. RunsFor(t)' = RunsFor(t) BY <1>4, <1>6, <2>5 DEF RunsFor
    <3>2. Starting(t)' = Starting(t) BY <1>6, <2>5 DEF Starting
    <3> QED BY <2>1, <2>3, <3>1, <3>2
  <2> QED BY <2>4, <2>5
<1> QED BY <1>5, <1>7 DEF RunInv

\* Nothing else makes a run, and a task that is queued again has been counted.
LEMMA SteadyCounted ==
  ASSUME RefInv, RunInv, [Next]_durableVars, Admitted, Steady
  PROVE  RunInv'
<1>1. \A r \in Run : runs'[r].st = "unused" => runs'[r].task \notin Task BY DEF RunInv, Steady
<1>2. ASSUME NEW t \in Task
      PROVE  /\ IsFiniteSet(RunsFor(t)') /\ IsFiniteSet(Starting(t)')
             /\ Cardinality(RunsFor(t)') + Cardinality(Starting(t)') + Chance(t)'
                  <= 1 + goal'[GoalOf[t]].retries
  <2> DEFINE n == Cardinality(RunsFor(t))
             m == Cardinality(Starting(t))
             c == Chance(t)
             q == goal[GoalOf[t]].retries
             x == Cardinality(Starting(t)')
             y == Chance(t)'
             z == goal'[GoalOf[t]].retries
  <2>1. IsFiniteSet(RunsFor(t)) /\ IsFiniteSet(Starting(t)) /\ n + m + c <= 1 + q BY DEF RunInv
  <2>2. RunsFor(t)' = RunsFor(t) BY DEF RunsFor, Steady
  <2>3. Starting(t)' \in SUBSET Starting(t) BY DEF Starting, Steady
  <2>4. IsFiniteSet(Starting(t)') /\ x <= m BY <2>1, <2>3, FS_Subset
  <2>5. Counted(t) BY StoreCounts DEF RefInv
  <2>6. c \in {0, 1} /\ y \in {0, 1} BY DEF Chance
  <2>7. /\ z \in Nat /\ z >= q
        /\ y = 0 \/ c = 1 \/ z >= q + 1
    BY <2>5 DEF Counted, Chance
  <2>8. n \in Nat /\ m \in Nat /\ x \in Nat BY <2>1, <2>4, FS_CardinalityType
  <2>9. q \in Nat BY Rows, GoalOfTask, DurableAssumption DEF RefInv, Snapshot
  <2> HIDE DEF n, m, c, q, x, y, z
  <2>10. n + x + y <= 1 + z BY <2>1, <2>4, <2>6, <2>7, <2>8, <2>9
  <2> QED BY <2>1, <2>2, <2>4, <2>10 DEF n, x, y, z
<1> QED BY <1>1, <1>2 DEF RunInv

LEMMA RunInvariant == CoordSpec => []RunInv
<1>1. CoordInit => RunInv
  <2> SUFFICES ASSUME CoordInit PROVE RunInv OBVIOUS
  <2>1. \A r \in Run : runs[r].st = "unused" /\ runs[r].task \notin Task
    BY DurableAssumption DEF CoordInit, NotStarted
  <2>2. ASSUME NEW t \in Task
        PROVE  /\ RunsFor(t) = {} /\ Starting(t) = {} /\ Chance(t) = 1
               /\ goal[GoalOf[t]].retries = 0
    BY <2>1, <2>2, GoalOfTask DEF CoordInit, Init, RunsFor, Starting, Chance, NoLaunch, AbsentTask,
                      NewTask, EmptySnapshot
  <2>3. Cardinality({}) + Cardinality({}) + 1 <= 1 + 0 BY FS_EmptySet
  <2>4. ASSUME NEW t \in Task
        PROVE  /\ IsFiniteSet(RunsFor(t)) /\ IsFiniteSet(Starting(t))
               /\ Cardinality(RunsFor(t)) + Cardinality(Starting(t)) + Chance(t)
                    <= 1 + goal[GoalOf[t]].retries
    BY <2>2, <2>3, FS_EmptySet, Zenon
  <2> QED BY <2>1, <2>4 DEF RunInv
<1>2. RefInv /\ Admitted /\ RunInv /\ [CoordNext]_vars => RunInv'
  <2> SUFFICES ASSUME RefInv, Admitted, RunInv, [CoordNext]_vars PROVE RunInv' OBVIOUS
  <2>1. [Next]_durableVars BY RefStep
  <2>2. UNCHANGED vars => Steady BY DEF vars, coordVars, envVars, Steady
  <2>3. Steady \/ \E k \in Claim : Starts(k) \/ Claims(k)
    BY <2>2, ApiSteady, TickSteady, EnvSteady DEF CoordNext
  <2> QED BY <2>1, <2>3, SteadyCounted, StartCounted, ClaimCounted
<1>3. CoordSpec => [](RefInv /\ Admitted)
  BY RefInvariant, CoordImplementsStore, AdmittedInvariant, PTL
<1> QED BY <1>1, <1>2, <1>3, PTL DEF CoordSpec

\* "retry" and "continue", which max_reworks bounds, are the only ways to a further run of a
\* task: no crash between the claim and the run, no failed start, no late bind and no
\* second tick starts a worker that is not counted.
THEOREM EveryRunStaysCounted == CoordSpec => []EveryRunIsCounted
<1>1. RefInv /\ RunInv => EveryRunIsCounted
  <2> SUFFICES ASSUME RefInv, RunInv, NEW t \in Task
               PROVE  Cardinality(RunsFor(t)) <= 1 + goal[GoalOf[t]].retries
    BY DEF EveryRunIsCounted
  <2> DEFINE n == Cardinality(RunsFor(t))
             m == Cardinality(Starting(t))
             c == Chance(t)
             q == goal[GoalOf[t]].retries
  <2>1. n + m + c <= 1 + q /\ IsFiniteSet(RunsFor(t)) /\ IsFiniteSet(Starting(t)) BY DEF RunInv
  <2>2. n \in Nat /\ m \in Nat /\ c \in Nat BY <2>1, FS_CardinalityType DEF Chance
  <2>3. q \in Nat BY Rows, GoalOfTask, DurableAssumption DEF RefInv, Snapshot
  <2> HIDE DEF n, m, c, q
  <2>4. n <= 1 + q BY <2>1, <2>2, <2>3
  <2> QED BY <2>4 DEF n, q
<1> QED BY <1>1, RefInvariant, RunInvariant, PTL

----------------------------------------------------------------------------
(* Goals that are settled.  A task leaves the queue only after the tasks   *)
(* it depends on have succeeded, which is final: from then on it is        *)
(* touched, and every register of a thread holds touched tasks of one      *)
(* goal.  A requeued or retried task can therefore go on, and what may     *)
(* take the last progress from a goal is a result, whose thread closes it. *)
Done(t)      == \A u \in DependsOn[t] : task[u].status = "succeeded"
Touched(t)   == t \in Task /\ task[t].status # "absent" /\ Done(t)
OfGoal(T, g) == \A t \in T : GoalOf[t] = g

StoreInv ==
  \A t \in Task :
    /\ task[t].status \notin {"review", "blocked", "unknown"}
    /\ task[t].status = "cancelled" => goal[GoalOf[t]].state = "cancelled"
    /\ task[t].status \notin {"absent", "queued", "cancelled"} => Done(t)

NamedInv ==
  /\ \A g \in Goal, t \in Task : goal[g].failure.task = t => Touched(t)
  /\ \A d \in Decision, t \in Task : decision[d].kind = "checkpoint" /\ decision[d].task = t =>
       Touched(t) /\ decision[d].goal = GoalOf[t]

TickHeld ==
  /\ tick.pc # "idle" => OfGoal(tick.todo, tick.goal)
  /\ tick.pc \in {"claim", "stamp", "fresh", "finish", "park"} =>
       \A t \in Task : tick.task = t => Touched(t) /\ GoalOf[t] = tick.goal
  /\ tick.pc = "budget" => \A t \in tick.todo : Touched(t)
LaunchHeld ==
  \A k \in Claim, t \in Task : launch[k].st # "none" /\ launch[k].task = t =>
    Touched(t) /\ OfGoal(launch[k].skipped, GoalOf[t])
HeldInv == TickHeld /\ LaunchHeld /\ \A t \in resuming : Touched(t)

\* While a plan is admitted nobody else has a task of the goal.
Planned(g) ==
  /\ goal[g].state \notin {"completed", "failed"}
  /\ \A t \in Task : GoalOf[t] = g =>
       task[t].status \in {"absent", "queued", "cancelled"} /\ t \notin resuming
  /\ \A d \in Decision : decision[d].kind = "checkpoint" => decision[d].goal # g
AdmitInv == \A g \in Goal : tick.pc = "admit" /\ tick.goal = g => Planned(g)

\* Whoever is about to close a goal.
Closing(g) == \/ tick.goal = g /\ tick.pc \in {"admit", "reconcile", "budget"}
              \/ \E d \in Decision : decision[d].goal = g /\ applying[d] = "reconcile"

SettleInv == StoreInv /\ NamedInv /\ HeldInv /\ AdmitInv
Holds     == RefInv /\ Admitted /\ SettleInv

\* What a step does to a task and to a goal.
Moves(u) ==
  /\ task[u].status # "absent" => task'[u].status # "absent"
  /\ \/ task'[u].status = task[u].status
     \/ /\ task'[u].status \in {"queued", "running", "awaiting_decision", "cancel_requested"}
        /\ Touched(u)
     \/ task'[u].status \in {"succeeded", "failed"} /\ Touched(u) /\ Closing(GoalOf[u])'
     \/ task[u].status = "absent" /\ task'[u].status = "queued" /\ Closing(GoalOf[u])'
     \/ task'[u].status = "cancelled" /\ goal'[GoalOf[u]].state = "cancelled"
Opens(g) ==
  goal'[g].state \in {"queued", "running"} =>
    \/ goal[g].state \in {"absent", "queued", "running"}
    \/ \E t \in Task : GoalOf[t] = g /\ Touched(t) /\ task'[t].status = "queued"
Names(g) == \A t \in Task : goal'[g].failure.task = t => goal[g].failure.task = t \/ Touched(t)
Effects == (\A u \in Task : Moves(u)) /\ \A g \in Goal : Opens(g) /\ Names(g)

\* A step that leaves the tasks where they are and opens no goal.
Quiet ==
  /\ \A u \in Task : task'[u].status = task[u].status
  /\ \A g \in Goal :
       /\ goal'[g].state \in {"queued", "running"} => goal[g].state \in {"absent", "queued", "running"}
       /\ goal'[g].failure.task \in {goal[g].failure.task, NoTask}

LEMMA QuietEffects == Quiet => Effects
  BY DurableAssumption DEF Quiet, Effects, Moves, Opens, Names

LEMMA QuietSame == UNCHANGED durableVars => Quiet
  BY DEF durableVars, Quiet

\* A goal that keeps its failure and starts at most.
LEMMA StartedGoals ==
  ASSUME TypeOK, NEW h \in Goal,
         goal' = goal \/ goal' = [goal EXCEPT ![h].state = Started(@)]
  PROVE  \A g \in Goal : Opens(g) /\ Names(g)
<1>1. goal \in [Goal -> Snapshot] /\ \A g \in Goal : goal[g] \in Snapshot BY Rows DEF TypeOK
<1>2. \A g \in Goal : /\ goal'[g].failure = goal[g].failure
                      /\ goal'[g].state \in {goal[g].state, Started(goal[g].state)}
  BY <1>1 DEF Snapshot
<1> QED BY <1>2 DEF Opens, Names, Started

\* The operations of the store: those on a goal, ...
LEMMA QuietOps ==
  ASSUME TypeOK,
         \/ \E g \in Goal : Submit(g, NoActor, {}) \/ ReconcileGoalProgress(g) \/ FailGoal(g)
         \/ \E d \in Decision, g \in Goal, t \in Task : OpenDecision(d, "approval", g, t)
         \/ \E d \in Decision : \E a, v : v # "grant" /\ ResolveDecision(d, a, 0, v, {})
         \/ \E t \in Task : MarkRunStarted(t) \/ \E r \in Run : BindTaskRun(t, r)
  PROVE  Quiet
<1>1. /\ goal \in [Goal -> Snapshot] /\ \A g \in Goal : goal[g] \in Snapshot
      /\ task \in [Task -> TaskRow] /\ \A t \in Task : task[t] \in TaskRow
  BY Rows DEF TypeOK
<1>2. ASSUME NEW g \in Goal, Submit(g, NoActor, {}) PROVE Quiet
  <2>1. \A u \in Task : task'[u].status = task[u].status BY <1>1, <1>2 DEF Submit
  <2>2. \A h \in Goal : goal'[h].failure = goal[h].failure /\ (h # g => goal'[h] = goal[h])
    BY <1>1, <1>2 DEF Submit, Snapshot
  <2>3. goal[g].state = "absent" BY <1>2 DEF Submit, Known
  <2> QED BY <2>1, <2>2, <2>3 DEF Quiet
<1>3. ASSUME NEW g \in Goal, ReconcileGoalProgress(g) PROVE Quiet
  <2>1. \A h \in Goal : goal'[h].failure = goal[h].failure /\ (h # g => goal'[h] = goal[h])
    BY <1>1, <1>3 DEF ReconcileGoalProgress, Snapshot
  <2>2. goal'[g].state = Reconciled(g) BY <1>1, <1>3 DEF ReconcileGoalProgress, Snapshot
  <2>3. Reconciled(g) \in {goal[g].state, "completed", "failed"} BY DEF Reconciled
  <2> QED BY <1>3, <2>1, <2>2, <2>3 DEF ReconcileGoalProgress, Quiet
<1>4. ASSUME NEW g \in Goal, FailGoal(g) PROVE Quiet
  <2>1. \A h \in Goal : h # g => goal'[h] = goal[h] BY <1>1, <1>4 DEF FailGoal
  <2>2. /\ goal'[g].state \in {goal[g].state, "failed"}
        /\ goal'[g].failure.task = NoTask
    BY <1>1, <1>4 DEF FailGoal, Snapshot
  <2> QED BY <1>4, <2>1, <2>2 DEF FailGoal, Quiet
<1>5. ASSUME NEW d \in Decision, NEW g \in Goal, NEW t \in Task, OpenDecision(d, "approval", g, t)
      PROVE  Quiet
  BY <1>5 DEF OpenDecision, UpperKind, Quiet
<1>6. ASSUME NEW d \in Decision, NEW a, NEW v, v # "grant", ResolveDecision(d, a, 0, v, {})
      PROVE  Quiet
  <2>1. task' = task BY <1>6 DEF ResolveDecision, Resumes
  <2>2. \A h \in Goal : goal'[h].state = goal[h].state /\ goal'[h].failure = goal[h].failure
    BY <1>1, <1>6 DEF ResolveDecision, Snapshot
  <2> QED BY <2>1, <2>2 DEF Quiet
<1>7. ASSUME NEW t \in Task, MarkRunStarted(t) PROVE Quiet
  <2>1. \A u \in Task : task'[u].status = task[u].status BY <1>1, <1>7 DEF MarkRunStarted, TaskRow
  <2> QED BY <1>7, <2>1 DEF MarkRunStarted, Quiet
<1>8. ASSUME NEW t \in Task, NEW r \in Run, BindTaskRun(t, r) PROVE Quiet
  <2>1. \A u \in Task : task'[u].status = task[u].status BY <1>1, <1>8 DEF BindTaskRun, TaskRow
  <2> QED BY <1>8, <2>1 DEF BindTaskRun, Quiet
<1> QED BY <1>2, <1>3, <1>4, <1>5, <1>6, <1>7, <1>8

\* ... those that put a touched task into the queue or in flight, ...
LEMMA TaskOps ==
  ASSUME TypeOK, NEW t, Touched(t),
         \/ StartTask(t) \/ RequeueCheckpointTask(t) \/ \E k \in Claim : ClaimTaskDispatch(t, k)
         \/ \E d \in Decision : OpenCheckpoint(d, t)
  PROVE  Effects
<1>1. /\ goal \in [Goal -> Snapshot] /\ task \in [Task -> TaskRow]
      /\ \A g \in Goal : goal[g] \in Snapshot
      /\ t \in Task /\ task[t] \in TaskRow /\ GoalOf[t] \in Goal
  BY Rows, GoalOfTask DEF TypeOK, Touched
<1>2. \A u \in Task : u # t => task'[u] = task[u]
  BY <1>1 DEF StartTask, RequeueCheckpointTask, ClaimTaskDispatch, OpenCheckpoint
<1>3. task'[t].status \in {"queued", "running", "awaiting_decision"}
  <2>1. StartTask(t) => task'[t].status = "running" BY <1>1 DEF StartTask, TaskRow
  <2>2. RequeueCheckpointTask(t) => task'[t].status = "queued"
    BY <1>1 DEF RequeueCheckpointTask, NewTask
  <2>3. ASSUME NEW k, ClaimTaskDispatch(t, k) PROVE task'[t].status = "running"
    BY <1>1, <2>3 DEF ClaimTaskDispatch, TaskRow
  <2>4. ASSUME NEW d, OpenCheckpoint(d, t) PROVE task'[t].status = "awaiting_decision"
    BY <1>1, <2>4 DEF OpenCheckpoint, TaskRow
  <2> QED BY <2>1, <2>2, <2>3, <2>4
<1>4. \A u \in Task : Moves(u) BY <1>2, <1>3 DEF Moves
<1>5. \A g \in Goal : Opens(g) /\ Names(g)
  <2>1. CASE RequeueCheckpointTask(t)
    <3>1. \A g \in Goal : goal'[g].state = goal[g].state /\ goal'[g].failure = goal[g].failure
      BY <1>1, <2>1 DEF RequeueCheckpointTask, Snapshot
    <3>2. ASSUME NEW g \in Goal, goal'[g].state = goal[g].state, goal'[g].failure = goal[g].failure
          PROVE  Opens(g) /\ Names(g)
      BY <3>2 DEF Opens, Names
    <3> QED BY <3>1, <3>2
  <2>2. CASE goal' = goal \/ goal' = [goal EXCEPT ![GoalOf[t]].state = Started(@)]
    BY <1>1, <2>2, StartedGoals
  <2> QED BY <2>1, <2>2 DEF StartTask, ClaimTaskDispatch, OpenCheckpoint
<1> QED BY <1>4, <1>5 DEF Effects

\* ... admission, ...
LEMMA AddOp ==
  ASSUME TypeOK, NEW t \in Task, AddChildTask(t), Closing(GoalOf[t])'
  PROVE  Effects
<1>1. task \in [Task -> TaskRow] /\ GoalOf[t] \in Goal BY GoalOfTask DEF TypeOK
<1>2. \A u \in Task : u # t => task'[u] = task[u] BY <1>1 DEF AddChildTask
<1>3. task[t].status = "absent" /\ task'[t].status = "queued"
  BY <1>1 DEF AddChildTask, CanAddChildTask, NewTask
<1>4. \A u \in Task : Moves(u) BY <1>2, <1>3 DEF Moves
<1>5. \A g \in Goal : Opens(g) /\ Names(g) BY <1>1, StartedGoals DEF AddChildTask
<1> QED BY <1>4, <1>5 DEF Effects

\* ... the result of a touched task, ...
LEMMA FinishOp ==
  ASSUME TypeOK, NEW t, Touched(t), Closing(GoalOf[t])',
         NEW res, NEW close, NEW r, FinishTask(t, res, close, r)
  PROVE  Effects
<1>1. /\ goal \in [Goal -> Snapshot] /\ task \in [Task -> TaskRow]
      /\ \A g \in Goal : goal[g] \in Snapshot
      /\ t \in Task /\ task[t] \in TaskRow /\ GoalOf[t] \in Goal
  BY Rows, GoalOfTask DEF TypeOK, Touched
<1>2. \A u \in Task : u # t => task'[u] = task[u] BY <1>1 DEF FinishTask
<1>3. task'[t].status \in {"succeeded", "failed"} BY <1>1 DEF FinishTask, Outcome, TaskRow
<1>4. \A u \in Task : Moves(u) BY <1>2, <1>3 DEF Moves
<1>5. \A g \in Goal : g # GoalOf[t] => goal'[g] = goal[g] BY <1>1 DEF FinishTask
<1>6. goal'[GoalOf[t]].state = GoalAfterFinish(t, res, close) BY <1>1 DEF FinishTask, Snapshot
<1>7. GoalAfterFinish(t, res, close) \in {goal[GoalOf[t]].state, "completed", "failed"}
  BY DEF GoalAfterFinish
<1>8. goal'[GoalOf[t]].failure \in {goal[GoalOf[t]].failure, [kind |-> "need_human", task |-> t]}
  BY <1>1 DEF FinishTask, Snapshot
<1>9. Opens(GoalOf[t]) /\ Names(GoalOf[t]) BY <1>6, <1>7, <1>8 DEF Opens, Names
<1>10. \A g \in Goal : Opens(g) /\ Names(g) BY <1>5, <1>9 DEF Opens, Names
<1> QED BY <1>4, <1>10 DEF Effects

\* ... a retry, ...
LEMMA RetryTouches ==
  ASSUME TypeOK, StoreInv, NamedInv, NEW g \in Goal, NEW t, CanRetry(g, t)
  PROVE  Touched(t) /\ GoalOf[t] = g
<1>1. t \in RetryTargets(g) BY DEF CanRetry
<1>2. \/ t = goal[g].failure.task /\ t \in TasksOf(g)
      \/ t \in TasksOf(g) /\ task[t].status = "failed"
  BY <1>1 DEF RetryTargets
<1>3. t \in Task /\ GoalOf[t] = g /\ task[t].status # "absent" BY <1>2 DEF TasksOf
<1>4. t # NoTask BY <1>3, DurableAssumption
<1>5. Touched(t) BY <1>2, <1>3, <1>4 DEF NamedInv, StoreInv, Touched
<1> QED BY <1>3, <1>5

LEMMA RetryOp ==
  ASSUME TypeOK, StoreInv, NamedInv, NEW g \in Goal, NEW t, NEW resume, RetryNeedHuman(g, t, resume)
  PROVE  Effects
<1>1. Touched(t) /\ GoalOf[t] = g /\ goal[g].state = "failed"
  BY RetryTouches DEF RetryNeedHuman, CanRetry
<1>2. /\ goal \in [Goal -> Snapshot] /\ task \in [Task -> TaskRow] /\ goal[g] \in Snapshot
      /\ t \in Task /\ task[t] \in TaskRow
  BY <1>1, Rows DEF TypeOK, Touched
<1>3. \A u \in Task : u # t => task'[u] = task[u] BY <1>2 DEF RetryNeedHuman
<1>4. task'[t].status = "queued" BY <1>2 DEF RetryNeedHuman, TaskRow
<1>5. \A u \in Task : Moves(u) BY <1>1, <1>3, <1>4 DEF Moves
<1>6. \A h \in Goal : h # g => goal'[h] = goal[h] BY <1>2 DEF RetryNeedHuman
<1>7. goal'[g].failure.task = NoTask BY <1>2 DEF RetryNeedHuman, NoFailure, Snapshot
<1>8. Opens(g) /\ Names(g) BY <1>1, <1>2, <1>4, <1>7, DurableAssumption DEF Opens, Names
<1>9. \A h \in Goal : Opens(h) /\ Names(h) BY <1>6, <1>8 DEF Opens, Names
<1> QED BY <1>5, <1>9 DEF Effects

\* ... and a cancellation.
LEMMA CancelOps ==
  ASSUME TypeOK, StoreInv, NEW g \in Goal, CancelGoal(g) \/ EffectCancel(g)
  PROVE  Effects
<1>1. /\ goal \in [Goal -> Snapshot] /\ task \in [Task -> TaskRow] /\ goal[g] \in Snapshot
      /\ \A t \in Task : task[t] \in TaskRow
  BY Rows DEF TypeOK
<1>2. \A h \in Goal : h # g => goal'[h] = goal[h] BY <1>1 DEF CancelGoal, EffectCancel
<1>3. goal'[g].failure = goal[g].failure
  <2>1. CASE CancelGoal(g) BY <1>1, <2>1 DEF CancelGoal, Snapshot
  <2>2. CASE EffectCancel(g) BY <1>1, <2>2 DEF EffectCancel, Snapshot
  <2> QED BY <2>1, <2>2
<1>4. goal'[g].state \notin {"queued", "running"}
  <2>1. CASE CancelGoal(g)
    <3>1. goal'[g].state = IF goal[g].state \in TerminalGoal THEN goal[g].state ELSE "cancel_requested"
      BY <1>1, <2>1 DEF CancelGoal, Snapshot
    <3> QED BY <3>1 DEF TerminalGoal
  <2>2. CASE EffectCancel(g)
    <3>1. goal'[g].state = "cancelled" BY <1>1, <2>2 DEF EffectCancel, Snapshot
    <3> QED BY <3>1
  <2> QED BY <2>1, <2>2
<1>5. \A h \in Goal : Opens(h) /\ Names(h) BY <1>2, <1>3, <1>4 DEF Opens, Names
<1>6. ASSUME NEW u \in Task PROVE Moves(u)
  <2>1. CASE CancelGoal(g)
    <3>1. \/ task'[u] = task[u]
          \/ task[u].status \in TerminableTask /\ task'[u].status = "cancel_requested"
      BY <1>1, <2>1 DEF CancelGoal, TaskRow
    <3>2. task[u].status \in TerminableTask => Touched(u)
      BY DEF StoreInv, Touched, TerminableTask
    <3> QED BY <3>1, <3>2 DEF Moves
  <2>2. CASE EffectCancel(g)
    <3>1. \/ task'[u] = task[u]
          \/ u \in TasksOf(g) /\ task'[u].status = "cancelled"
      BY <1>1, <2>2 DEF EffectCancel, TaskRow
    <3>2. goal'[g].state = "cancelled" BY <1>1, <2>2 DEF EffectCancel, Snapshot
    <3> QED BY <3>1, <3>2 DEF Moves, TasksOf
  <2> QED BY <2>1, <2>2
<1> QED BY <1>5, <1>6 DEF Effects

\* Touched tasks stay so, and a goal is closed for good.
LEMMA TouchedStays ==
  ASSUME TypeOK, Admitted, [Next]_durableVars, Effects, NEW t, Touched(t)
  PROVE  Touched(t)'
<1>1. t \in Task /\ DependsOn[t] \subseteq Task BY DurableAssumption DEF Touched
<1>2. task'[t].status # "absent" BY <1>1 DEF Effects, Moves, Touched
<1>3. ASSUME NEW u \in DependsOn[t] PROVE task'[u].status = "succeeded"
  <2>1. task[u].status = "succeeded" /\ u \in Task BY <1>1, <1>3 DEF Touched, Done
  <2> QED BY <2>1, TaskMoves DEF StatusKept
<1> QED BY <1>1, <1>2, <1>3 DEF Touched, Done

LEMMA StoreInvStep ==
  ASSUME TypeOK, Admitted, StoreInv, [Next]_durableVars, Effects
  PROVE  StoreInv'
<1> SUFFICES ASSUME NEW t \in Task
             PROVE  /\ task'[t].status \notin {"review", "blocked", "unknown"}
                    /\ task'[t].status = "cancelled" => goal'[GoalOf[t]].state = "cancelled"
                    /\ task'[t].status \notin {"absent", "queued", "cancelled"} => Done(t)'
  BY DEF StoreInv
<1>1. Moves(t) /\ GoalOf[t] \in Goal BY GoalOfTask DEF Effects
<1>2. Touched(t) => Touched(t)' BY TouchedStays
<1>3. Touched(t)' => Done(t)' BY DEF Touched
<1>4. task[t].status \notin {"absent", "queued", "cancelled"} => Touched(t)
  BY DEF StoreInv, Touched
<1>5. goal[GoalOf[t]].state = "cancelled" => goal'[GoalOf[t]].state = "cancelled"
  BY <1>1, GoalMoves DEF StateKept
<1>6. /\ task[t].status \notin {"review", "blocked", "unknown"}
      /\ task[t].status = "cancelled" => goal[GoalOf[t]].state = "cancelled"
  BY DEF StoreInv
<1>7. CASE task'[t].status = task[t].status BY <1>2, <1>3, <1>4, <1>5, <1>6, <1>7
<1>8. CASE task'[t].status # task[t].status BY <1>1, <1>2, <1>3, <1>8 DEF Moves
<1> QED BY <1>7, <1>8

\* A checkpoint is opened by the tick, about a task that it holds.
LEMMA NamedInvStep ==
  ASSUME RefInv, Admitted, NamedInv, [Next]_durableVars, Effects,
         \A d \in Decision : decision[d].kind # "checkpoint" /\ decision'[d].kind = "checkpoint" =>
           \E t : Touched(t) /\ OpenCheckpoint(d, t)
  PROVE  NamedInv'
<1>1. TypeOK /\ decision \in [Decision -> DecisionRow] BY DEF RefInv, TypeOK
<1>2. ASSUME NEW g \in Goal, NEW t \in Task, goal'[g].failure.task = t PROVE Touched(t)'
  <2>1. Touched(t) BY <1>2 DEF Effects, Names, NamedInv
  <2> QED BY <1>1, <2>1, TouchedStays
<1>3. ASSUME NEW d \in Decision, NEW t \in Task, decision'[d].kind = "checkpoint",
             decision'[d].task = t
      PROVE  Touched(t)' /\ decision'[d].goal = GoalOf[t]
  <2>1. CASE decision[d].kind = "checkpoint"
    <3>1. decision[d].status # "unopened" BY <2>1 DEF RefInv, ApplyInv
    <3>2. Keeps(d) BY <1>1, <3>1, DecisionMoves
    <3>3. decision[d].task = t /\ decision'[d].goal = decision[d].goal BY <1>3, <3>2 DEF Keeps
    <3>4. Touched(t) /\ decision[d].goal = GoalOf[t] BY <2>1, <3>3 DEF NamedInv
    <3> QED BY <1>1, <3>3, <3>4, TouchedStays
  <2>2. CASE decision[d].kind # "checkpoint"
    <3>1. PICK u : Touched(u) /\ OpenCheckpoint(d, u) BY <1>3, <2>2
    <3>2. decision'[d].task = u /\ decision'[d].goal = GoalOf[u]
      BY <1>1, <3>1 DEF OpenCheckpoint, Open, Unopened
    <3>3. u = t BY <1>3, <3>2
    <3> QED BY <1>1, <3>1, <3>2, <3>3, TouchedStays
  <2> QED BY <2>1, <2>2
<1> QED BY <1>2, <1>3 DEF NamedInv

\* While others work, a thread keeps what it holds.
LEMMA HeldFrame ==
  ASSUME TypeOK, Admitted, [Next]_durableVars, Effects
  PROVE  /\ TickHeld /\ tick' = tick => TickHeld'
         /\ LaunchHeld /\ (\A k \in Claim : launch'[k].st # "none" =>
                             /\ launch[k].st # "none" /\ launch'[k].task = launch[k].task
                             /\ launch'[k].skipped = launch[k].skipped)
              => LaunchHeld'
<1>1. \A t : Touched(t) => Touched(t)' BY TouchedStays
<1>2. ASSUME TickHeld, tick' = tick PROVE TickHeld'
  BY <1>1, <1>2 DEF TickHeld, OfGoal
<1>3. ASSUME LaunchHeld, \A k \in Claim : launch'[k].st # "none" =>
                            /\ launch[k].st # "none" /\ launch'[k].task = launch[k].task
                            /\ launch'[k].skipped = launch[k].skipped
      PROVE LaunchHeld'
  BY <1>1, <1>3 DEF LaunchHeld, OfGoal
<1> QED BY <1>2, <1>3

\* A goal goes on while one of its tasks is in flight, or queued behind nothing that failed.
Going(t) == \/ task[t].status \in InFlight
            \/ /\ task[t].status = "queued"
               /\ \A u \in DependsOn[t] : task[u].status \notin {"failed", "cancelled"}

LEMMA GoingProgress ==
  ASSUME NEW g
  PROVE  /\ HasProgress(g) <=> \E t \in TasksOf(g) : Going(t)
         /\ HasProgress(g)' <=> \E t \in TasksOf(g)' : Going(t)'
<1>1. ASSUME NEW t
      PROVE  Going(t) <=> task[t].status \in InFlight \/ Ready(t) \/ WaitsOnLiveDependency(t)
  BY DEF Going, Ready, WaitsOnLiveDependency, InFlight, TerminableTask
<1>2. ASSUME NEW t
      PROVE  Going(t)' <=> task'[t].status \in InFlight \/ Ready(t)' \/ WaitsOnLiveDependency(t)'
  BY DEF Going, Ready, WaitsOnLiveDependency, InFlight, TerminableTask
<1>3. HasProgress(g) <=> \E t \in TasksOf(g) : Going(t) BY <1>1 DEF HasProgress
<1>4. HasProgress(g)' <=> \E t \in TasksOf(g)' : Going(t)' BY <1>2 DEF HasProgress
<1> QED BY <1>3, <1>4

\* Only a result takes the last progress from an open goal.
LEMMA ProgressKept ==
  ASSUME TypeOK, Admitted, StoreInv, [Next]_durableVars, Effects, NEW g \in Goal,
         HasProgress(g), goal'[g].state # "cancelled"
  PROVE  HasProgress(g)' \/ Closing(g)'
<1> SUFFICES ASSUME ~Closing(g)' PROVE HasProgress(g)' OBVIOUS
<1>1. PICK w \in TasksOf(g) : Going(w) BY GoingProgress
<1>2. w \in Task /\ GoalOf[w] = g /\ task[w].status # "absent" BY <1>1 DEF TasksOf
<1>3. \A u \in DependsOn[w] : u \in Task /\ GoalOf[u] = g BY <1>2, DurableAssumption
<1>4. task'[w].status # "absent" BY <1>2 DEF Effects, Moves
<1>5. ASSUME NEW u \in Task, GoalOf[u] = g
      PROVE  \/ task'[u].status = task[u].status
             \/ /\ task'[u].status \in {"queued", "running", "awaiting_decision", "cancel_requested"}
                /\ Touched(u) \/ task[u].status = "absent"
  BY <1>5 DEF Effects, Moves
<1>6. Going(w)'
  <2>1. ASSUME task[w].status = "queued", task'[w].status = "queued", ~Touched(w)
        PROVE  Going(w)'
    <3>1. \A u \in DependsOn[w] : task[u].status \notin {"failed", "cancelled"}
      BY <1>1, <2>1 DEF Going, InFlight, TerminableTask
    <3>2. \A u \in DependsOn[w] : task'[u].status \notin {"failed", "cancelled"}
      BY <1>3, <1>5, <3>1
    <3> QED BY <2>1, <3>2 DEF Going
  <2>2. ASSUME Touched(w), task'[w].status = "queued" PROVE Going(w)'
    <3>1. Touched(w)' BY <2>2, TouchedStays
    <3> QED BY <2>2, <3>1 DEF Touched, Done, Going
  <2>3. task'[w].status \in InFlight => Going(w)' BY DEF Going
  <2>4. task[w].status \in InFlight \cup {"queued"} BY <1>1 DEF Going
  <2>5. task'[w].status \in InFlight \cup {"queued"}
    BY <1>2, <1>5, <2>4 DEF InFlight, TerminableTask
  <2>6. task'[w].status = "queued" /\ task[w].status # "queued" => Touched(w)
    BY <1>2, <1>5
  <2> QED BY <2>1, <2>2, <2>3, <2>4, <2>5, <2>6
<1>7. w \in TasksOf(g)' BY <1>2, <1>4 DEF TasksOf
<1> QED BY <1>6, <1>7, GoingProgress

\* An open goal whose tasks cannot go on is closed when it is reconciled.
LEMMA ReconcileCloses ==
  ASSUME TypeOK, StoreInv, NEW g \in Goal, goal[g].state \in {"queued", "running"},
         TasksOf(g) # {}, ~HasProgress(g)
  PROVE  CanReconcile(g) /\ Reconciled(g) \in {"completed", "failed"}
<1>1. \A t \in Task : task[t] \in TaskRow BY Rows DEF TypeOK
<1>2. ASSUME ~AllSucceeded(g) PROVE AnyFailed(g)
  <2>1. PICK t \in TasksOf(g) : task[t].status # "succeeded" BY <1>2 DEF AllSucceeded
  <2>2. t \in Task /\ GoalOf[t] = g /\ task[t].status # "absent" BY <2>1 DEF TasksOf
  <2>3. ~Going(t) BY <2>1, GoingProgress
  <2>4. \A u \in Task : GoalOf[u] = g => task[u].status # "cancelled" BY DEF StoreInv
  <2>5. task[t].status \in {"failed", "queued"}
    <3>1. task[t].status \notin InFlight BY <2>3 DEF Going
    <3>2. task[t].status \notin {"review", "blocked", "unknown"} BY <2>2 DEF StoreInv
    <3> QED BY <1>1, <2>1, <2>2, <2>4, <3>1, <3>2 DEF TaskRow, TaskState, InFlight, TerminableTask
  <2>6. CASE task[t].status = "queued"
    <3>1. PICK u \in DependsOn[t] : task[u].status \in {"failed", "cancelled"}
      BY <2>3, <2>6 DEF Going
    <3>2. u \in Task /\ GoalOf[u] = g BY <2>2, DurableAssumption
    <3>3. task[u].status = "failed" BY <2>4, <3>1, <3>2
    <3> QED BY <3>2, <3>3 DEF AnyFailed, TasksOf
  <2>7. CASE task[t].status = "failed" BY <2>1, <2>7 DEF AnyFailed
  <2> QED BY <2>5, <2>6, <2>7
<1>3. Reconciled(g) \in {"completed", "failed"}
  BY <1>2 DEF Reconciled, TerminalGoal
<1> QED BY <1>3 DEF CanReconcile, Known, GoalMay, GoalState, GoalEdge

----------------------------------------------------------------------------
(* Every step of the service has these effects.                            *)
Fits == /\ Effects
        /\ \A d \in Decision : decision[d].kind # "checkpoint" /\ decision'[d].kind = "checkpoint" =>
             \E t : Touched(t) /\ OpenCheckpoint(d, t)

LEMMA SameFits == UNCHANGED durableVars => Fits
  BY QuietSame, QuietEffects DEF Fits, durableVars

\* What the threads hold, one register at a time.
LEMMA HeldTasks ==
  ASSUME Holds
  PROVE  /\ TypeOK /\ StoreInv /\ NamedInv /\ TickHeld /\ LaunchHeld /\ tick.todo \subseteq Task
         /\ tick.pc # "idle" => tick.goal \in Goal /\ \A t \in tick.todo : GoalOf[t] = tick.goal
         /\ tick.pc \in {"claim", "stamp", "fresh", "finish", "park"} =>
              tick.task \in Task /\ Touched(tick.task) /\ GoalOf[tick.task] = tick.goal
         /\ tick.pc = "budget" => \A t \in tick.todo : Touched(t)
         /\ \A d \in Decision : decision[d].kind = "checkpoint" =>
              /\ decision[d].task \in Task /\ Touched(decision[d].task)
              /\ decision[d].goal \in Goal /\ decision[d].goal = GoalOf[decision[d].task]
         /\ \A d \in Decision : applying[d] \in {"continue", "stop", "reconcile"} =>
              decision[d].kind = "checkpoint"
         /\ \A k \in Claim : launch[k].st # "none" =>
              /\ launch[k].task \in Task /\ Touched(launch[k].task)
              /\ OfGoal(launch[k].skipped, GoalOf[launch[k].task])
<1>1. TypeOK /\ StoreInv /\ NamedInv /\ TickHeld /\ LaunchHeld
  BY DEF Holds, RefInv, SettleInv, HeldInv
<1>2. tick.todo \subseteq Task BY DEF Holds, RefInv, ControlOK, TickRow
<1>3. tick.pc # "idle" => tick.goal \in Goal /\ \A t \in tick.todo : GoalOf[t] = tick.goal
  BY <1>1 DEF Holds, RefInv, TickInv, TickHeld, OfGoal
<1>4. tick.pc \in {"claim", "stamp", "fresh", "finish", "park"} =>
        tick.task \in Task /\ Touched(tick.task) /\ GoalOf[tick.task] = tick.goal
  BY <1>1 DEF Holds, RefInv, TickInv, TickHeld
<1>5. tick.pc = "budget" => \A t \in tick.todo : Touched(t) BY <1>1 DEF TickHeld
<1>6. \A d \in Decision : decision[d].kind = "checkpoint" =>
        /\ decision[d].task \in Task /\ Touched(decision[d].task)
        /\ decision[d].goal \in Goal /\ decision[d].goal = GoalOf[decision[d].task]
  BY <1>1 DEF Holds, RefInv, ApplyInv, NamedInv
<1>7. \A d \in Decision : applying[d] \in {"continue", "stop", "reconcile"} =>
        decision[d].kind = "checkpoint"
  BY DEF Holds, RefInv, ApplyInv
<1>8. \A k \in Claim : launch[k].st # "none" =>
        /\ launch[k].task \in Task /\ Touched(launch[k].task)
        /\ OfGoal(launch[k].skipped, GoalOf[launch[k].task])
  BY <1>1 DEF Holds, RefInv, LaunchInv, LaunchHeld
<1> QED BY <1>1, <1>2, <1>3, <1>4, <1>5, <1>6, <1>7, <1>8

LEMMA TickFits ==
  ASSUME Holds, TickNext
  PROVE  Fits
<1>1. TypeOK /\ StoreInv /\ NamedInv BY HeldTasks
<1>2. tick \in TickRow /\ decision \in [Decision -> DecisionRow]
  BY <1>1 DEF Holds, RefInv, ControlOK, TypeOK
<1>3. ASSUME Effects, decision' = decision PROVE Fits BY <1>3 DEF Fits
<1>4. ASSUME NEW g \in Goal, TickBegins(g) PROVE Fits
  <2>1. FailGoal(g) => Fits BY <1>1, <1>3, QuietOps, QuietEffects DEF FailGoal
  <2> QED BY <1>4, <2>1, SameFits
          DEF TickBegins, TickCancel, TickTerminated, TickPlan, TickPlanned, TickAdvance
<1>5. CASE TickEffect
  <2>1. tick.goal \in Goal BY <1>5, HeldTasks DEF TickEffect
  <2>2. EffectCancel(tick.goal) => Fits BY <1>1, <1>3, <2>1, CancelOps DEF EffectCancel
  <2> QED BY <1>5, <2>2, SameFits DEF TickEffect
<1>6. CASE Admit
  <2>1. ASSUME NEW t \in tick.todo, AddChildTask(t), tick' = [tick EXCEPT !.todo = @ \ {t}]
        PROVE  Fits
    <3>1. t \in Task /\ GoalOf[t] = tick.goal BY <1>6, HeldTasks DEF Admit
    <3>2. tick'.pc = "admit" /\ tick'.goal = tick.goal BY <1>2, <1>6, <2>1 DEF Admit, TickRow
    <3>3. Closing(GoalOf[t])' BY <3>1, <3>2 DEF Closing
    <3> QED BY <1>1, <1>3, <2>1, <3>1, <3>3, AddOp DEF AddChildTask
  <2> QED BY <1>6, <2>1, SameFits DEF Admit
<1>7. CASE Observe \/ ObserveFresh
  <2>1. ASSUME NEW t \in tick.todo, ObserveRequest(t) PROVE Fits
    <3>1. PICK d \in Decision : OpenDecision(d, "approval", GoalOf[t], t)
      BY <2>1 DEF ObserveRequest
    <3>2. t \in Task /\ GoalOf[t] \in Goal BY HeldTasks, GoalOfTask
    <3>3. Effects BY <1>1, <3>1, <3>2, QuietOps, QuietEffects
    <3>4. \A e \in Decision : decision'[e] = decision[e] \/ decision'[e].kind = "approval"
      BY <1>2, <3>1 DEF OpenDecision, Open, Unopened
    <3> QED BY <3>3, <3>4 DEF Fits
  <2>2. UNCHANGED durableVars \/ \E t \in tick.todo : ObserveRequest(t)
    BY <1>7 DEF Observe, ObserveFresh, ObserveNothing, ObserveAbandoned, ObserveRun, Collect, Stall
  <2> QED BY <2>1, <2>2, SameFits
<1>8. CASE Finish
  <2>1. PICK t \in Task : t = tick.task /\ Touched(t) /\ GoalOf[t] = tick.goal
    BY <1>8, HeldTasks DEF Finish
  <2>2. tick'.pc = "reconcile" /\ tick'.goal = tick.goal BY <1>2, <1>8 DEF Finish, TickRow
  <2>3. Closing(GoalOf[t])' BY <2>1, <2>2 DEF Closing
  <2>4. FinishTask(t, tick.out, FALSE, tick.run) => Fits
    BY <1>1, <1>3, <2>1, <2>3, FinishOp DEF FinishTask
  <2> QED BY <1>8, <2>1, <2>4, SameFits DEF Finish
<1>9. CASE Reconcile
  <2>1. tick.goal \in Goal BY <1>9, HeldTasks DEF Reconcile
  <2>2. ReconcileGoalProgress(tick.goal) => Fits
    BY <1>1, <1>3, <2>1, QuietOps, QuietEffects DEF ReconcileGoalProgress
  <2> QED BY <1>9, <2>2, SameFits DEF Reconcile
<1>10. CASE Park
  <2>1. PICK t \in Task : t = tick.task /\ Touched(t) BY <1>10, HeldTasks DEF Park
  <2>2. ASSUME NEW d \in Decision, OpenCheckpoint(d, t) PROVE Fits
    <3>1. Effects BY <1>1, <2>1, <2>2, TaskOps
    <3>2. \A e \in Decision : decision'[e] = decision[e] \/ e = d
      BY <1>2, <2>2 DEF OpenCheckpoint, Open
    <3> QED BY <2>1, <2>2, <3>1, <3>2 DEF Fits
  <2> QED BY <1>10, <2>1, <2>2, SameFits DEF Park
<1>11. CASE Dispatch BY <1>11, SameFits DEF Dispatch
<1>12. ASSUME NEW k \in Claim, DispatchOne(k) PROVE Fits
  <2>1. PICK t \in Task : t = tick.task /\ Touched(t) BY <1>12, HeldTasks DEF DispatchOne
  <2>2. ASSUME ClaimTaskDispatch(t, k) PROVE Fits
    BY <1>1, <1>3, <2>1, <2>2, TaskOps DEF ClaimTaskDispatch
  <2> QED BY <1>12, <2>1, <2>2, SameFits DEF DispatchOne
<1>13. CASE Stamp
  <2>1. tick.task \in Task BY <1>13, HeldTasks DEF Stamp
  <2>2. MarkRunStarted(tick.task) => Fits
    BY <1>1, <1>3, <2>1, QuietOps, QuietEffects DEF MarkRunStarted
  <2> QED BY <1>13, <2>2, SameFits DEF Stamp
<1>14. ASSUME NEW t \in Task, BudgetTask(t) PROVE Fits
  <2>1. Touched(t) /\ GoalOf[t] = tick.goal BY <1>14, HeldTasks DEF BudgetTask
  <2>2. tick'.pc = "budget" /\ tick'.goal = tick.goal BY <1>2, <1>14 DEF BudgetTask, TickRow
  <2>3. Closing(GoalOf[t])' BY <2>1, <2>2 DEF Closing
  <2>4. FinishTask(t, "fail", TRUE, task[t].run) => Fits
    BY <1>1, <1>3, <2>1, <2>3, FinishOp DEF FinishTask
  <2> QED BY <1>14, <2>4, SameFits DEF BudgetTask
<1>15. CASE BudgetGoal
  <2>1. tick.goal \in Goal BY <1>15, HeldTasks DEF BudgetGoal
  <2>2. FailGoal(tick.goal) => Fits BY <1>1, <1>3, <2>1, QuietOps, QuietEffects DEF FailGoal
  <2> QED BY <1>15, <2>2 DEF BudgetGoal
<1>16. ASSUME NEW k \in Claim, LaunchNext(k) PROVE Fits
  <2>1. ASSUME launch[k].st = "started", BindTaskRun(launch[k].task, launch[k].run) PROVE Fits
    <3>1. launch[k].task \in Task /\ launch[k].run \in Run
      BY <2>1 DEF Holds, RefInv, LaunchInv
    <3> QED BY <1>1, <1>3, <2>1, <3>1, QuietOps, QuietEffects DEF BindTaskRun
  <2> QED BY <1>16, <2>1, SameFits DEF LaunchNext, StartRun, StartFailed, Bind
<1> QED BY <1>4, <1>5, <1>6, <1>7, <1>8, <1>9, <1>10, <1>11, <1>12, <1>13, <1>14, <1>15, <1>16
        DEF TickNext, TickContinues

LEMMA ApiFits ==
  ASSUME Holds, ApiNext
  PROVE  Fits
<1>1. TypeOK /\ StoreInv /\ NamedInv BY HeldTasks
<1>2. /\ decision \in [Decision -> DecisionRow]
      /\ applying \in [Decision -> {"none", "record", "continue", "stop", "reconcile"}]
  BY <1>1 DEF Holds, RefInv, ControlOK, TypeOK
<1>3. ASSUME Effects, decision' = decision PROVE Fits BY <1>3 DEF Fits
<1>4. ASSUME NEW g \in Goal, ApiSubmit(g) \/ ApiCancel(g) \/ ApiStopRuns(g) \/ ApiEffect(g)
      PROVE  Fits
  <2>1. Submit(g, NoActor, {}) => Fits BY <1>1, <1>3, QuietOps, QuietEffects DEF Submit
  <2>2. CancelGoal(g) \/ EffectCancel(g) => Fits
    BY <1>1, <1>3, CancelOps DEF CancelGoal, EffectCancel
  <2> QED BY <1>4, <2>1, <2>2, SameFits DEF ApiSubmit, ApiCancel, ApiStopRuns, ApiEffect
<1>5. ASSUME NEW t \in Task, ApiRetry(t) PROVE Fits
  <2>1. PICK resume : RetryNeedHuman(GoalOf[t], t, resume) BY <1>5 DEF ApiRetry
  <2> QED BY <1>1, <1>3, <2>1, RetryOp, GoalOfTask DEF RetryNeedHuman
<1>6. ASSUME NEW t \in Task, ApiResume(t) PROVE Fits
  <2>1. Touched(t) BY <1>6 DEF ApiResume, Holds, SettleInv, HeldInv
  <2>2. StartTask(t) => Fits BY <1>1, <1>3, <2>1, TaskOps DEF StartTask
  <2> QED BY <1>6, <2>2, SameFits DEF ApiResume
<1>7. ASSUME NEW d \in Decision, NEW a, NEW v, v # "grant", ResolveDecision(d, a, 0, v, {})
      PROVE  Fits
  <2>1. Effects BY <1>1, <1>7, QuietOps, QuietEffects
  <2>2. \A e \in Decision : decision'[e].kind = decision[e].kind
    BY <1>2, <1>7 DEF ResolveDecision, DecisionRow
  <2> QED BY <2>1, <2>2 DEF Fits
<1>8. ASSUME NEW d \in Decision, ApiAnswer(d) \/ ApiRecord(d) \/ ApiCheckpoint(d) PROVE Fits
  BY <1>7, <1>8, SameFits DEF ApiAnswer, ApiRecord, ApiCheckpoint, Verdicts
<1>9. ASSUME NEW d \in Decision, applying[d] \in {"continue", "stop", "reconcile"}
      PROVE  \E t \in Task : t = decision[d].task /\ Touched(t) /\ decision[d].goal = GoalOf[t]
  BY <1>9, HeldTasks
<1>10. ASSUME NEW d \in Decision, ApiContinue(d) PROVE Fits
  <2>1. PICK t \in Task : t = decision[d].task /\ Touched(t) BY <1>9, <1>10 DEF ApiContinue
  <2>2. RequeueCheckpointTask(t) => Fits
    BY <1>1, <1>3, <2>1, TaskOps DEF RequeueCheckpointTask
  <2> QED BY <1>10, <2>1, <2>2, SameFits DEF ApiContinue
<1>11. ASSUME NEW d \in Decision, ApiStop(d) PROVE Fits
  <2>1. PICK t \in Task : t = decision[d].task /\ Touched(t) /\ decision[d].goal = GoalOf[t]
    BY <1>9, <1>11 DEF ApiStop
  <2>2. ASSUME NEW res, NEW r, FinishTask(t, res, FALSE, r),
               applying' = [applying EXCEPT ![d] = "reconcile"]
        PROVE  Fits
    <3>1. decision' = decision BY <2>2 DEF FinishTask
    <3>2. applying'[d] = "reconcile" BY <1>2, <2>2
    <3>3. Closing(GoalOf[t])' BY <2>1, <3>1, <3>2 DEF Closing
    <3> QED BY <1>1, <1>3, <2>1, <2>2, <3>1, <3>3, FinishOp
  <2> QED BY <1>11, <2>1, <2>2, SameFits DEF ApiStop
<1>12. ASSUME NEW d \in Decision, ApiReconcile(d) PROVE Fits
  <2>1. decision[d].goal \in Goal BY <1>12, HeldTasks DEF ApiReconcile
  <2>2. ReconcileGoalProgress(decision[d].goal) => Fits
    BY <1>1, <1>3, <2>1, QuietOps, QuietEffects DEF ReconcileGoalProgress
  <2> QED BY <1>12, <2>2 DEF ApiReconcile
<1> QED BY <1>4, <1>5, <1>6, <1>8, <1>10, <1>11, <1>12 DEF ApiNext

LEMMA StepFits ==
  ASSUME Holds, [CoordNext]_vars
  PROVE  Fits
<1>1. EnvNext => UNCHANGED durableVars BY EnvAll DEF Holds
<1>2. UNCHANGED vars => UNCHANGED durableVars BY DEF vars
<1> QED BY <1>1, <1>2, TickFits, ApiFits, SameFits DEF CoordNext

----------------------------------------------------------------------------
(* What the threads hold after a step.                                     *)

\* A register that holds touched tasks of its goal.
Carries(x) ==
  /\ x.pc # "idle" => OfGoal(x.todo, x.goal)
  /\ x.pc \in {"claim", "stamp", "fresh", "finish", "park"} =>
       \A t \in Task : x.task = t => Touched(t) /\ GoalOf[t] = x.goal
  /\ x.pc = "budget" => \A t \in x.todo : Touched(t)

LEMMA AdvanceCarries ==
  ASSUME StoreInv, NEW g
  PROVE  Carries(Advance(g))
<1>1. \A t \in Active(g) : Touched(t) /\ GoalOf[t] = g
  BY DEF Active, TasksOf, StoreInv, Touched, InFlight, TerminableTask
<1>2. CASE BudgetBlocks(g) /\ goal[g].state \notin TickTerminal
  <2>1. Advance(g) = [Idle EXCEPT !.pc = "budget", !.goal = g, !.todo = Active(g)]
    BY <1>2 DEF Advance
  <2>2. /\ Advance(g).pc = "budget" /\ Advance(g).goal = g /\ Advance(g).todo = Active(g)
    BY <2>1 DEF Idle
  <2> QED BY <1>1, <2>2 DEF Carries, OfGoal
<1>3. CASE ~(BudgetBlocks(g) /\ goal[g].state \notin TickTerminal)
  <2>1. Advance(g) = [Idle EXCEPT !.pc = "observe", !.goal = g, !.back = "observe",
                                  !.todo = {t \in TasksOf(g) : task[t].status = "running"}]
    BY <1>3 DEF Advance
  <2>2. /\ Advance(g).pc = "observe" /\ Advance(g).goal = g
        /\ Advance(g).todo = {t \in TasksOf(g) : task[t].status = "running"}
    BY <2>1 DEF Idle
  <2> QED BY <2>2 DEF Carries, OfGoal, TasksOf
<1> QED BY <1>2, <1>3

\* A register with the task it settles.
LEMMA TaskCarries ==
  ASSUME NEW x, x.pc \in {"claim", "stamp", "fresh", "finish", "park"}, OfGoal(x.todo, x.goal),
         NEW t \in Task, x.task = t, Touched(t), GoalOf[t] = x.goal
  PROVE  Carries(x)
  BY DEF Carries

LEMMA SettleCarries ==
  ASSUME tick \in TickRow, NEW t \in Task, Touched(t), GoalOf[t] = tick.goal,
         OfGoal(tick.todo, tick.goal), NEW r, NEW res
  PROVE  Carries(Settle(t, r, res)) /\ Carries(ParkOn(t, r))
<1>1. /\ Settle(t, r, res).pc = "finish" /\ Settle(t, r, res).goal = tick.goal
      /\ Settle(t, r, res).todo = tick.todo \ {t} /\ Settle(t, r, res).task = t
  BY DEF Settle, TickRow
<1>2. /\ ParkOn(t, r).pc = "park" /\ ParkOn(t, r).goal = tick.goal
      /\ ParkOn(t, r).todo = tick.todo \ {t} /\ ParkOn(t, r).task = t
  BY DEF ParkOn, TickRow
<1>3. OfGoal(tick.todo \ {t}, tick.goal) BY DEF OfGoal
<1> HIDE DEF OfGoal
<1> QED BY <1>1, <1>2, <1>3, TaskCarries

LEMMA CollectCarries ==
  ASSUME tick \in TickRow, NEW t \in Task, Touched(t), GoalOf[t] = tick.goal,
         OfGoal(tick.todo, tick.goal), NEW r, Collect(t, r) \/ Stall(t, r)
  PROVE  \E x : tick' = x /\ Carries(x)
<1>1. \/ \E res : tick' = Settle(t, r, res)
      \/ tick' = ParkOn(t, r)
  BY DEF Collect, Stall
<1> QED BY <1>1, SettleCarries

LEMMA TickCarries ==
  ASSUME Holds, TickNext
  PROVE  \E x : tick' = x /\ Carries(x)
<1>1. TypeOK /\ StoreInv /\ tick \in TickRow BY HeldTasks DEF Holds, RefInv, ControlOK
<1>2. Carries(tick) BY HeldTasks DEF TickHeld, Carries
<1>3. tick.pc # "idle" => OfGoal(tick.todo, tick.goal) BY <1>2 DEF Carries
<1>4. Carries(Idle) BY DEF Idle, Carries
<1>5. \A g : Carries(Advance(g)) BY <1>1, AdvanceCarries
<1>6. ASSUME NEW g \in Goal, TickBegins(g) PROVE \E x : tick' = x /\ Carries(x)
  <2>1. Carries([Idle EXCEPT !.pc = "effect", !.goal = g])
    BY DEF Carries, Idle, OfGoal
  <2>2. Carries([Idle EXCEPT !.pc = "admit", !.goal = g, !.todo = {t \in Task : GoalOf[t] = g}])
    BY DEF Carries, Idle, OfGoal
  <2> QED BY <1>2, <1>4, <1>5, <1>6, <2>1, <2>2
          DEF TickBegins, TickCancel, TickTerminated, TickPlan, TickPlanned, TickAdvance
<1>7. CASE TickEffect \/ BudgetGoal BY <1>4, <1>7 DEF TickEffect, BudgetGoal
<1>8. ASSUME NEW t, tick.pc \in {"admit", "observe", "budget"},
             tick' = [tick EXCEPT !.todo = @ \ {t}]
      PROVE  \E x : tick' = x /\ Carries(x)
  <2>1. tick'.pc = tick.pc /\ tick'.goal = tick.goal /\ tick'.todo = tick.todo \ {t}
    BY <1>1, <1>8 DEF TickRow
  <2> QED BY <1>2, <1>8, <2>1 DEF Carries, OfGoal
<1>9. CASE Admit BY <1>4, <1>5, <1>8, <1>9 DEF Admit
<1>10. CASE Observe
  <2>1. ASSUME NEW t \in tick.todo, ObserveAbandoned(t) \/ ObserveRun(t)
        PROVE  \E x : tick' = x /\ Carries(x)
    <3>1. t \in Task /\ GoalOf[t] = tick.goal BY <1>10, HeldTasks DEF Observe
    <3>2. Touched(t)
      BY <1>1, <2>1, <3>1 DEF ObserveAbandoned, ObserveRun, Observable, StoreInv, Touched
    <3>3. OfGoal(tick.todo, tick.goal) BY <1>3, <1>10 DEF Observe
    <3>4. ObserveAbandoned(t) => \E x : tick' = x /\ Carries(x)
      BY <1>1, <3>1, <3>2, <3>3, SettleCarries DEF ObserveAbandoned
    <3>5. ObserveRun(t) => \E x : tick' = x /\ Carries(x)
      BY <1>1, <3>1, <3>2, <3>3, CollectCarries DEF ObserveRun
    <3> QED BY <2>1, <3>4, <3>5
  <2>2. ASSUME tick' = [tick EXCEPT !.pc = "dispatch", !.back = "dispatch"]
        PROVE  \E x : tick' = x /\ Carries(x)
    <3>1. tick'.pc = "dispatch" /\ tick'.goal = tick.goal /\ tick'.todo = tick.todo
      BY <1>1, <2>2 DEF TickRow
    <3> QED BY <1>3, <1>10, <3>1 DEF Observe, Carries
  <2> QED BY <1>8, <1>10, <2>1, <2>2 DEF Observe, ObserveNothing, ObserveRequest
<1>11. CASE ObserveFresh
  <2>1. PICK t \in Task : t = tick.task /\ Touched(t) /\ GoalOf[t] = tick.goal
    BY <1>11, HeldTasks DEF ObserveFresh
  <2>2. OfGoal(tick.todo, tick.goal) BY <1>3, <1>11 DEF ObserveFresh
  <2>3. ASSUME tick' = [tick EXCEPT !.pc = "dispatch"] PROVE \E x : tick' = x /\ Carries(x)
    <3>1. tick'.pc = "dispatch" /\ tick'.goal = tick.goal /\ tick'.todo = tick.todo
      BY <1>1, <2>3 DEF TickRow
    <3> QED BY <2>2, <3>1 DEF Carries
  <2>4. Collect(t, tick.run) \/ Stall(t, tick.run) => \E x : tick' = x /\ Carries(x)
    BY <1>1, <2>1, <2>2, CollectCarries
  <2> QED BY <1>11, <2>1, <2>3, <2>4 DEF ObserveFresh
<1>12. CASE Finish
  <2>1. tick'.pc = "reconcile" /\ tick'.goal = tick.goal /\ tick'.todo = tick.todo
    BY <1>1, <1>12 DEF Finish, TickRow
  <2> QED BY <1>3, <1>12, <2>1 DEF Finish, Carries
<1>13. CASE Reconcile \/ Park
  <2>1. tick'.pc = tick.back /\ tick'.goal = tick.goal /\ tick'.todo = tick.todo
    BY <1>1, <1>13 DEF Reconcile, Park, Return, TickRow
  <2>2. tick.back \in {"idle", "observe", "dispatch"} BY <1>1 DEF TickRow
  <2> QED BY <1>3, <1>13, <2>1, <2>2 DEF Carries, Reconcile, Park
<1>14. CASE Dispatch
  <2>1. ASSUME NEW t \in Dispatchable, tick' = [tick EXCEPT !.pc = "claim", !.task = t]
        PROVE  \E x : tick' = x /\ Carries(x)
    <3>1. t \in Task /\ GoalOf[t] = tick.goal /\ Touched(t)
      BY <2>1 DEF Dispatchable, TasksOf, Ready, Touched, Done
    <3>2. /\ tick'.pc = "claim" /\ tick'.goal = tick.goal /\ tick'.todo = tick.todo
          /\ tick'.task = t
      BY <1>1, <2>1 DEF TickRow
    <3> QED BY <1>3, <1>14, <3>1, <3>2 DEF Dispatch, Carries
  <2> QED BY <1>4, <1>5, <1>14, <2>1 DEF Dispatch
<1>15. ASSUME NEW k \in Claim, DispatchOne(k) PROVE \E x : tick' = x /\ Carries(x)
  <2>1. PICK t \in Task : t = tick.task /\ Touched(t) /\ GoalOf[t] = tick.goal
    BY <1>15, HeldTasks DEF DispatchOne
  <2>2. OfGoal(tick.todo, tick.goal) BY <1>3, <1>15 DEF DispatchOne
  <2>3. ASSUME tick' = [tick EXCEPT !.pc = "dispatch", !.task = NoTask, !.todo = @ \cup {t}]
        PROVE  \E x : tick' = x /\ Carries(x)
    <3>1. tick'.pc = "dispatch" /\ tick'.goal = tick.goal /\ tick'.todo = tick.todo \cup {t}
      BY <1>1, <2>3 DEF TickRow
    <3>2. OfGoal(tick.todo \cup {t}, tick.goal) BY <2>1, <2>2 DEF OfGoal
    <3> QED BY <3>1, <3>2 DEF Carries
  <2>4. Carries(Settle(t, NoRun, "fail")) BY <1>1, <2>1, <2>2, SettleCarries
  <2> QED BY <1>4, <1>15, <2>1, <2>3, <2>4 DEF DispatchOne
<1>16. CASE Stamp
  <2>1. PICK t \in Task : t = tick.task /\ Touched(t) /\ GoalOf[t] = tick.goal
    BY <1>16, HeldTasks DEF Stamp
  <2>2. tick'.pc = "fresh" /\ tick'.goal = tick.goal /\ tick'.todo = tick.todo /\ tick'.task = t
    BY <1>1, <1>16, <2>1 DEF Stamp, TickRow
  <2> QED BY <1>3, <1>16, <2>1, <2>2 DEF Stamp, Carries
<1>17. ASSUME NEW t \in Task, BudgetTask(t) PROVE \E x : tick' = x /\ Carries(x)
  <2>1. tick.pc = "budget" /\ tick' = [tick EXCEPT !.todo = @ \ {t}] BY <1>17 DEF BudgetTask
  <2> QED BY <1>8, <2>1
<1>18. ASSUME NEW k \in Claim, LaunchNext(k) PROVE \E x : tick' = x /\ Carries(x)
  <2>1. CASE launch[k].st = "none" BY <1>2, <1>18, <2>1 DEF LaunchNext, StartRun, StartFailed, Bind
  <2>2. CASE launch[k].st # "none"
    <3>1. PICK t \in Task : /\ t = launch[k].task /\ Touched(t)
                            /\ OfGoal(launch[k].skipped, GoalOf[t])
      BY <2>2, HeldTasks
    <3>2. /\ Relocked(k).goal = GoalOf[t] /\ Relocked(k).task = t
          /\ Relocked(k).todo = launch[k].skipped
      BY <3>1 DEF Relocked, Idle
    <3>3. Carries([Relocked(k) EXCEPT !.pc = "stamp"])
      <4> DEFINE x == [Relocked(k) EXCEPT !.pc = "stamp"]
      <4>1. x.pc = "stamp" /\ x.goal = GoalOf[t] /\ x.task = t /\ x.todo = launch[k].skipped
        BY <3>2 DEF Relocked, Idle
      <4> HIDE DEF x
      <4>2. Carries(x) BY <3>1, <4>1, TaskCarries
      <4> QED BY <4>2 DEF x
    <3>4. Carries([Relocked(k) EXCEPT !.pc = "finish", !.out = "fail"])
      <4> DEFINE x == [Relocked(k) EXCEPT !.pc = "finish", !.out = "fail"]
      <4>1. x.pc = "finish" /\ x.goal = GoalOf[t] /\ x.task = t /\ x.todo = launch[k].skipped
        BY <3>2 DEF Relocked, Idle
      <4> HIDE DEF x
      <4>2. Carries(x) BY <3>1, <4>1, TaskCarries
      <4> QED BY <4>2 DEF x
    <3> QED BY <1>2, <1>18, <3>3, <3>4 DEF LaunchNext, StartRun, StartFailed, Bind
  <2> QED BY <2>1, <2>2
<1> QED BY <1>6, <1>7, <1>9, <1>10, <1>11, <1>12, <1>13, <1>14, <1>15, <1>16, <1>17, <1>18
        DEF TickNext, TickContinues

LEMMA LaunchCarries ==
  ASSUME Holds, [CoordNext]_vars, (\A t : Touched(t) => Touched(t)'),
         NEW k \in Claim, NEW t \in Task, launch'[k].st # "none", launch'[k].task = t
  PROVE  Touched(t)' /\ OfGoal(launch'[k].skipped, GoalOf[t])
<1>1. launch \in [Claim -> LaunchRow] /\ \A j \in Claim : launch[j] \in LaunchRow
  BY DEF Holds, RefInv, ControlOK
<1>2. ASSUME launch[k].st # "none", launch'[k].task = launch[k].task,
             launch'[k].skipped = launch[k].skipped
      PROVE  Touched(t)' /\ OfGoal(launch'[k].skipped, GoalOf[t])
  BY <1>2, HeldTasks
<1>3. ASSUME launch' = launch PROVE Touched(t)' /\ OfGoal(launch'[k].skipped, GoalOf[t])
  BY <1>2, <1>3
<1>4. ASSUME NEW j \in Claim, DispatchOne(j)
      PROVE  Touched(t)' /\ OfGoal(launch'[k].skipped, GoalOf[t])
  <2>1. CASE launch' = launch BY <1>3, <2>1
  <2>2. CASE launch' = [launch EXCEPT ![j] = [st |-> "starting", task |-> tick.task, run |-> NoRun,
                                              skipped |-> tick.todo]]
    <3>1. CASE k # j
      <4>1. launch'[k] = launch[k] BY <1>1, <2>2, <3>1
      <4> QED BY <1>2, <4>1
    <3>2. CASE k = j
      <4>1. launch'[k].task = tick.task /\ launch'[k].skipped = tick.todo BY <1>1, <2>2, <3>2
      <4>2. t = tick.task BY <4>1
      <4>3. /\ Touched(tick.task) /\ GoalOf[tick.task] = tick.goal
            /\ \A u \in tick.todo : GoalOf[u] = tick.goal
        BY <1>4, HeldTasks DEF DispatchOne
      <4>4. Touched(t) /\ GoalOf[t] = tick.goal BY <4>2, <4>3
      <4>5. OfGoal(tick.todo, GoalOf[t]) BY <4>3, <4>4 DEF OfGoal
      <4> QED BY <4>1, <4>4, <4>5
    <3> QED BY <3>1, <3>2
  <2> QED BY <1>4, <2>1, <2>2 DEF DispatchOne
<1>5. ASSUME NEW j \in Claim, LaunchNext(j)
      PROVE  Touched(t)' /\ OfGoal(launch'[k].skipped, GoalOf[t])
  <2>1. /\ launch'[k].st # "none" => launch[k].st # "none"
        /\ launch'[k].st # "none" => /\ launch'[k].task = launch[k].task
                                     /\ launch'[k].skipped = launch[k].skipped
    <3>1. CASE StartRun(j)
      <4>1. ASSUME NEW r \in Run,
                   launch' = [launch EXCEPT ![j] = [@ EXCEPT !.st = "started", !.run = r]]
            PROVE  /\ launch'[j].task = launch[j].task /\ launch'[j].skipped = launch[j].skipped
                   /\ k # j => launch'[k] = launch[k]
        BY <1>1, <4>1 DEF LaunchRow
      <4>2. ASSUME launch' = [launch EXCEPT ![j].st = "failed"]
            PROVE  /\ launch'[j].task = launch[j].task /\ launch'[j].skipped = launch[j].skipped
                   /\ k # j => launch'[k] = launch[k]
        BY <1>1, <4>2 DEF LaunchRow
      <4> QED BY <3>1, <4>1, <4>2 DEF StartRun
    <3>2. CASE StartFailed(j) BY <1>1, <3>2 DEF StartFailed, NoLaunch
    <3>3. CASE Bind(j) BY <1>1, <3>3 DEF Bind, NoLaunch
    <3> QED BY <1>5, <3>1, <3>2, <3>3 DEF LaunchNext
  <2> QED BY <1>2, <2>1
<1>6. ASSUME ApiNext \/ UNCHANGED vars PROVE launch' = launch
  BY <1>6 DEF ApiNext, ApiSubmit, ApiCancel, ApiStopRuns, ApiEffect, ApiRetry, ApiResume, ApiAnswer,
         ApiRecord, ApiCheckpoint, ApiContinue, ApiStop, ApiReconcile, coordVars, vars
<1>7. ASSUME NEW g \in Goal, TickBegins(g) PROVE launch' = launch
  BY <1>7 DEF TickBegins, TickCancel, TickTerminated, TickPlan, TickPlanned, TickAdvance
<1>8. ASSUME TickContinues PROVE launch' = launch \/ \E j \in Claim : DispatchOne(j)
  BY <1>8 DEF TickContinues, TickEffect, Admit, Observe, ObserveFresh, Finish, Reconcile, Park,
         Dispatch, Stamp, BudgetGoal, BudgetTask
<1>9. EnvNext => launch' = launch
  <2>1. ~Crash BY <1>1 DEF Crash, NoLaunch
  <2> QED BY <2>1 DEF EnvNext, PlannerReturns, WallExpires, RunExits, RunAsks, coordVars
<1> QED BY <1>3, <1>4, <1>5, <1>6, <1>7, <1>8, <1>9 DEF CoordNext, TickNext

\* The threads of the application leave the tick alone, and a crash ends it.
LEMMA TickElsewhere ==
  ASSUME RefInv, [CoordNext]_vars
  PROVE  TickNext \/ tick' = tick \/ Crash
<1>1. ApiNext => tick' = tick
  BY DEF ApiNext, ApiSubmit, ApiCancel, ApiStopRuns, ApiEffect, ApiRetry, ApiResume, ApiAnswer,
         ApiRecord, ApiCheckpoint, ApiContinue, ApiStop, ApiReconcile, coordVars
<1>2. EnvNext => tick' = tick \/ Crash
  BY DEF EnvNext, PlannerReturns, WallExpires, RunExits, RunAsks, coordVars
<1> QED BY <1>1, <1>2 DEF CoordNext, vars, coordVars

LEMMA ResumesCarry ==
  ASSUME Holds, [CoordNext]_vars, NEW t \in resuming'
  PROVE  Touched(t)
<1>1. \A u \in resuming : Touched(u) BY DEF Holds, SettleInv, HeldInv
<1>2. ASSUME NEW u \in Task, ApiRetry(u) PROVE Touched(t)
  <2>1. \E resume : CanRetry(GoalOf[u], u) BY <1>2 DEF ApiRetry, RetryNeedHuman
  <2>2. Touched(u) BY <2>1, RetryTouches, GoalOfTask, HeldTasks
  <2> QED BY <1>1, <1>2, <2>2 DEF ApiRetry
<1>3. ASSUME NEW u \in Task, ApiResume(u) PROVE Touched(t)
  BY <1>1, <1>3 DEF ApiResume
<1>4. TickNext => resuming' = resuming BY TickAll DEF Goes, apiVars, Holds
<1>5. EnvNext => resuming' \subseteq resuming
  BY DEF EnvNext, PlannerReturns, WallExpires, RunExits, RunAsks, Crash, apiVars
<1>6. \/ resuming' = resuming
      \/ TickNext \/ EnvNext \/ \E u \in Task : ApiRetry(u) \/ ApiResume(u)
  BY DEF CoordNext, ApiNext, ApiSubmit, ApiCancel, ApiStopRuns, ApiEffect, ApiAnswer,
         ApiRecord, ApiCheckpoint, ApiContinue, ApiStop, ApiReconcile, apiVars, vars
<1> QED BY <1>1, <1>2, <1>3, <1>4, <1>5, <1>6

LEMMA HeldInvStep ==
  ASSUME Holds, [CoordNext]_vars
  PROVE  HeldInv'
<1>1. \A t : Touched(t) => Touched(t)'
  BY TouchedStays, StepFits, RefStep, HeldTasks DEF Fits, Holds
<1>2. LaunchHeld' BY <1>1, LaunchCarries DEF LaunchHeld
<1>3. \A t \in resuming' : Touched(t)' BY <1>1, ResumesCarry
<1>4. TickHeld'
  <2>1. \E x : tick' = x /\ Carries(x)
    <3>1. Carries(tick) BY HeldTasks DEF TickHeld, Carries
    <3>2. Carries(Idle) BY DEF Idle, Carries
    <3> QED BY <3>1, <3>2, TickCarries, TickElsewhere DEF Crash, Holds
  <2> QED BY <1>1, <2>1 DEF Carries, TickHeld, OfGoal
<1> QED BY <1>2, <1>3, <1>4 DEF HeldInv

----------------------------------------------------------------------------
(* While a plan is admitted, the other threads work on other goals.        *)

\* What is left of a goal that is being planned.
LEMMA PlannedStays ==
  ASSUME NEW g \in Goal, Planned(g),
         goal'[g].state \notin {"completed", "failed"},
         \A t \in Task : GoalOf[t] = g =>
           /\ task'[t].status \in {task[t].status, "queued", "cancelled"}
           /\ t \in resuming' => t \in resuming,
         \A d \in Decision : decision'[d].kind = decision[d].kind /\ decision'[d].goal = decision[d].goal
  PROVE  Planned(g)'
  BY DEF Planned

LEMMA PlannedByApi ==
  ASSUME Holds, ApiNext, NEW g \in Goal, Planned(g)
  PROVE  Planned(g)'
<1> DEFINE Same == \A d \in Decision : /\ decision'[d].kind = decision[d].kind
                                       /\ decision'[d].goal = decision[d].goal
           Left == \A t \in Task : GoalOf[t] = g =>
                     /\ task'[t].status \in {task[t].status, "queued", "cancelled"}
                     /\ t \in resuming' => t \in resuming
           Free == goal'[g].state \notin {"completed", "failed"}
<1>1. /\ TypeOK /\ goal \in [Goal -> Snapshot] /\ \A h \in Goal : goal[h] \in Snapshot
      /\ task \in [Task -> TaskRow] /\ \A t \in Task : task[t] \in TaskRow /\ GoalOf[t] \in Goal
      /\ decision \in [Decision -> DecisionRow] /\ \A d \in Decision : decision[d] \in DecisionRow
  BY HeldTasks, Rows, GoalOfTask DEF TypeOK
<1>2. Same /\ Left /\ Free => Planned(g)' BY PlannedStays
<1>3. goal[g].state \notin {"completed", "failed"} BY DEF Planned
<1>4. UNCHANGED durableVars => Same /\ Free /\ \A t \in Task : task'[t] = task[t]
  BY <1>3 DEF durableVars
<1>5. ASSUME NEW h \in Goal, ApiSubmit(h) PROVE Same /\ Left /\ Free
  BY <1>1, <1>3, <1>5 DEF ApiSubmit, Submit, Snapshot, apiVars
<1>6. ASSUME NEW h \in Goal, ApiCancel(h) PROVE Same /\ Left /\ Free
  <2>1. \A t \in Task : GoalOf[t] = g => task'[t] = task[t]
    BY <1>1, <1>6 DEF ApiCancel, CancelGoal, Planned, TasksOf, TerminableTask
  <2>2. Free BY <1>1, <1>3, <1>6 DEF ApiCancel, CancelGoal, Snapshot, TerminalGoal
  <2> QED BY <1>6, <2>1, <2>2 DEF ApiCancel, CancelGoal
<1>7. ASSUME NEW h \in Goal, ApiEffect(h) PROVE Same /\ Left /\ Free
  <2>1. CASE EffectCancel(h)
    <3>1. Left BY <1>1, <1>7, <2>1 DEF ApiEffect, EffectCancel, TaskRow
    <3>2. Free BY <1>1, <1>3, <2>1 DEF EffectCancel, Snapshot
    <3> QED BY <2>1, <3>1, <3>2 DEF EffectCancel
  <2> QED BY <1>4, <1>7, <2>1 DEF ApiEffect
<1>8. ASSUME NEW h \in Goal, ApiStopRuns(h) PROVE Same /\ Left /\ Free
  BY <1>4, <1>8 DEF ApiStopRuns
<1>9. ASSUME NEW t \in Task, ApiRetry(t) PROVE Same /\ Left /\ Free
  <2>1. PICK resume : /\ RetryNeedHuman(GoalOf[t], t, resume)
                      /\ resuming' = IF resume THEN resuming \cup {t} ELSE resuming
    BY <1>9 DEF ApiRetry
  <2>2. GoalOf[t] # g BY <1>3, <2>1 DEF RetryNeedHuman, CanRetry
  <2> QED BY <1>1, <1>3, <2>1, <2>2 DEF RetryNeedHuman
<1>10. ASSUME NEW t \in Task, ApiResume(t) PROVE Same /\ Left /\ Free
  <2>1. GoalOf[t] # g BY <1>10 DEF ApiResume, Planned
  <2>2. StartTask(t) => Free /\ \A u \in Task : GoalOf[u] = g => task'[u] = task[u]
    BY <1>1, <1>3, <2>1 DEF StartTask
  <2>3. StartTask(t) => decision' = decision BY DEF StartTask
  <2> QED BY <1>4, <1>10, <2>2, <2>3 DEF ApiResume
<1>11. ASSUME NEW d \in Decision, ApiAnswer(d) PROVE Same /\ Left /\ Free
  BY <1>4, <1>11 DEF ApiAnswer
<1>12. ASSUME NEW d \in Decision, ApiRecord(d) \/ ApiCheckpoint(d) PROVE Same /\ Left /\ Free
  <2>1. PICK a, v : v # "grant" /\ ResolveDecision(d, a, 0, v, {})
    BY <1>12 DEF ApiRecord, ApiCheckpoint, Verdicts
  <2>2. Same BY <1>1, <2>1 DEF ResolveDecision, DecisionRow
  <2>3. Free BY <1>1, <1>3, <2>1 DEF ResolveDecision, Snapshot
  <2>4. task' = task BY <2>1 DEF ResolveDecision, Resumes
  <2>5. resuming' = resuming BY <1>12 DEF ApiRecord, ApiCheckpoint
  <2> QED BY <2>2, <2>3, <2>4, <2>5
<1>13. ASSUME NEW d \in Decision, ApiContinue(d) \/ ApiStop(d) \/ ApiReconcile(d)
       PROVE  Same /\ Left /\ Free
  <2>1. applying[d] \in {"continue", "stop", "reconcile"}
    BY <1>13 DEF ApiContinue, ApiStop, ApiReconcile
  <2>2. PICK t \in Task : t = decision[d].task /\ decision[d].goal = GoalOf[t]
    BY <2>1, HeldTasks
  <2>3. GoalOf[t] # g /\ decision[d].goal # g BY <2>1, <2>2, HeldTasks DEF Planned
  <2>4. ASSUME NEW res, NEW r, FinishTask(t, res, FALSE, r)
        PROVE  decision' = decision /\ Free /\ \A u \in Task : GoalOf[u] = g => task'[u] = task[u]
    BY <1>1, <1>3, <2>3, <2>4 DEF FinishTask
  <2>5. ASSUME RequeueCheckpointTask(t)
        PROVE  decision' = decision /\ Free /\ \A u \in Task : GoalOf[u] = g => task'[u] = task[u]
    BY <1>1, <1>3, <2>3, <2>5 DEF RequeueCheckpointTask
  <2>6. ASSUME ReconcileGoalProgress(decision[d].goal)
        PROVE  decision' = decision /\ Free /\ task' = task
    BY <1>1, <1>3, <2>3, <2>6 DEF ReconcileGoalProgress
  <2>7. resuming' = resuming BY <1>13 DEF ApiContinue, ApiStop, ApiReconcile
  <2>8. ApiContinue(d) => Same /\ Left /\ Free BY <1>4, <2>2, <2>5, <2>7 DEF ApiContinue
  <2>9. ApiStop(d) => Same /\ Left /\ Free BY <1>4, <2>2, <2>4, <2>7 DEF ApiStop
  <2>10. ApiReconcile(d) => Same /\ Left /\ Free BY <2>6, <2>7 DEF ApiReconcile
  <2> QED BY <1>13, <2>8, <2>9, <2>10
<1> HIDE DEF Same, Left, Free
<1> QED BY <1>2, <1>5, <1>6, <1>7, <1>8, <1>9, <1>10, <1>11, <1>12, <1>13 DEF ApiNext

\* A tick that goes on with a plan, or begins one.
LEMMA AdmitSteps ==
  ASSUME Holds, TickNext, tick'.pc = "admit"
  PROVE  \/ UNCHANGED <<durableVars, tick, apiVars>>
         \/ \E t \in tick.todo : /\ Admit /\ AddChildTask(t)
                                 /\ tick' = [tick EXCEPT !.todo = @ \ {t}]
         \/ \E g \in Goal : TickPlanned(g) /\ UNCHANGED durableVars /\ tick'.goal = g
<1>1. tick \in TickRow BY DEF Holds, RefInv, ControlOK
<1>2. \A g : Advance(g).pc # "admit" BY DEF Advance, Idle
<1>3. \A t, r, res : Settle(t, r, res).pc = "finish" /\ ParkOn(t, r).pc = "park"
  BY <1>1 DEF Settle, ParkOn, TickRow
<1>4. Idle.pc = "idle" BY DEF Idle
<1>5. ASSUME NEW g \in Goal, TickBegins(g)
      PROVE  \/ UNCHANGED <<durableVars, tick, apiVars>>
             \/ TickPlanned(g) /\ UNCHANGED durableVars /\ tick'.goal = g
  <2>1. ~TickCancel(g) BY <1>4 DEF TickCancel, Idle
  <2>2. ~TickAdvance(g) BY <1>2 DEF TickAdvance
  <2>3. TickPlanned(g) => UNCHANGED durableVars /\ tick'.goal = g
    BY DEF TickPlanned, Idle
  <2> QED BY <1>5, <2>1, <2>2, <2>3 DEF TickBegins, TickTerminated, TickPlan
<1>6. ASSUME Observe \/ ObserveFresh PROVE FALSE
  <2>1. \A t, r : Collect(t, r) \/ Stall(t, r) => tick'.pc # "admit"
    BY <1>3 DEF Collect, Stall
  <2>2. ASSUME NEW t, tick.pc = "observe", tick' = [tick EXCEPT !.todo = @ \ {t}]
        PROVE  FALSE
    BY <1>1, <2>2 DEF TickRow
  <2>3. tick' # [tick EXCEPT !.pc = "dispatch"] /\ tick' # [tick EXCEPT !.pc = "dispatch", !.back = "dispatch"]
    BY <1>1 DEF TickRow
  <2>4. ~ObserveFresh BY <2>1, <2>3 DEF ObserveFresh
  <2> QED BY <1>3, <1>6, <2>1, <2>2, <2>3, <2>4
          DEF Observe, ObserveNothing, ObserveAbandoned, ObserveRequest, ObserveRun
<1>7. ASSUME TickEffect \/ Finish \/ Reconcile \/ Park \/ Stamp \/ BudgetGoal PROVE FALSE
  <2>1. tick.back # "admit" BY <1>1 DEF TickRow
  <2>2. ~(Reconcile \/ Park) BY <1>1, <2>1 DEF Reconcile, Park, Return, TickRow
  <2>3. ~(Finish \/ Stamp) BY <1>1 DEF Finish, Stamp, TickRow
  <2> QED BY <1>4, <1>7, <2>2, <2>3 DEF TickEffect, BudgetGoal
<1>8. ASSUME Dispatch PROVE FALSE
  <2>1. \A t : [tick EXCEPT !.pc = "claim", !.task = t].pc = "claim" BY <1>1 DEF TickRow
  <2> QED BY <1>2, <1>4, <1>8, <2>1 DEF Dispatch
<1>9. ASSUME NEW k \in Claim, DispatchOne(k) PROVE FALSE
  <2>1. tick' # [tick EXCEPT !.pc = "dispatch", !.task = NoTask, !.todo = @ \cup {tick.task}]
    BY <1>1 DEF TickRow
  <2> QED BY <1>3, <1>4, <1>9, <2>1 DEF DispatchOne
<1>10. ASSUME NEW t \in Task, BudgetTask(t) PROVE FALSE
  <2>1. tick.pc = "budget" /\ tick' = [tick EXCEPT !.todo = @ \ {t}] BY <1>10 DEF BudgetTask
  <2> QED BY <1>1, <2>1 DEF TickRow
<1>11. ASSUME NEW k \in Claim, LaunchNext(k) PROVE UNCHANGED <<durableVars, tick, apiVars>>
  <2>1. [Relocked(k) EXCEPT !.pc = "stamp"].pc = "stamp" BY DEF Relocked, Idle
  <2>2. [Relocked(k) EXCEPT !.pc = "finish", !.out = "fail"].pc = "finish" BY DEF Relocked, Idle
  <2> QED BY <1>11, <2>1, <2>2 DEF LaunchNext, StartRun, StartFailed, Bind
<1>12. ASSUME Admit
       PROVE  \E t \in tick.todo : /\ Admit /\ AddChildTask(t)
                                   /\ tick' = [tick EXCEPT !.todo = @ \ {t}]
  BY <1>2, <1>4, <1>12 DEF Admit
<1> QED BY <1>5, <1>6, <1>7, <1>8, <1>9, <1>10, <1>11, <1>12 DEF TickNext, TickContinues

LEMMA AdmitInvStep ==
  ASSUME Holds, [CoordNext]_vars
  PROVE  AdmitInv'
<1> SUFFICES ASSUME NEW g \in Goal, tick'.pc = "admit", tick'.goal = g PROVE Planned(g)'
  BY DEF AdmitInv
<1>1. /\ TypeOK /\ tick \in TickRow /\ goal \in [Goal -> Snapshot] /\ task \in [Task -> TaskRow]
      /\ \A h \in Goal : goal[h] \in Snapshot
      /\ \A t \in Task : GoalOf[t] \in Goal
  BY HeldTasks, Rows, GoalOfTask DEF Holds, RefInv, ControlOK, TypeOK
<1>2. tick.pc = "admit" /\ tick.goal = g => Planned(g) BY DEF Holds, SettleInv, AdmitInv
<1>3. UNCHANGED <<durableVars, apiVars>> /\ Planned(g) => Planned(g)'
  BY DEF Planned, durableVars, apiVars
<1>4. CASE ApiNext
  <2>1. tick' = tick
    BY <1>4 DEF ApiNext, ApiSubmit, ApiCancel, ApiStopRuns, ApiEffect, ApiRetry, ApiResume,
           ApiAnswer, ApiRecord, ApiCheckpoint, ApiContinue, ApiStop, ApiReconcile, coordVars
  <2> QED BY <1>2, <1>4, <2>1, PlannedByApi
<1>5. CASE TickNext
  <2>1. UNCHANGED apiVars BY <1>5, TickAll DEF Goes, Holds
  <2>2. ASSUME NEW t \in tick.todo, Admit, AddChildTask(t), tick' = [tick EXCEPT !.todo = @ \ {t}]
        PROVE  Planned(g)'
    <3>1. tick.pc = "admit" /\ tick.goal = g BY <1>1, <2>2 DEF TickRow
    <3>2. t \in Task /\ Planned(g) BY <1>2, <3>1, HeldTasks
    <3>3. goal'[g].state \in {goal[g].state, Started(goal[g].state)}
      BY <1>1, <2>2, <3>2 DEF AddChildTask, Snapshot
    <3>4. \A u \in Task : task'[u].status \in {task[u].status, "queued", "cancelled"}
      BY <1>1, <2>2, <3>2 DEF AddChildTask, NewTask
    <3>5. decision' = decision /\ resuming' = resuming
      BY <2>1, <2>2 DEF AddChildTask, apiVars
    <3>6. goal'[g].state \notin {"completed", "failed"} BY <3>2, <3>3 DEF Planned, Started
    <3> QED BY <3>2, <3>4, <3>5, <3>6, PlannedStays
  <2>3. ASSUME TickPlanned(g), UNCHANGED durableVars PROVE Planned(g)'
    <3>1. goal[g].state \notin TickTerminal /\ TasksOf(g) = {} BY <2>3 DEF TickPlanned, Unplanned
    <3>2. goal[g].state \notin {"completed", "failed"} BY <3>1 DEF TickTerminal, TerminalGoal
    <3>3. \A t \in Task : GoalOf[t] = g => task[t].status = "absent" BY <3>1 DEF TasksOf
    <3>4. \A t \in resuming : Touched(t) BY DEF Holds, SettleInv, HeldInv
    <3>5. \A t \in Task : GoalOf[t] = g => t \notin resuming BY <3>3, <3>4 DEF Touched
    <3>6. \A d \in Decision : decision[d].kind = "checkpoint" => decision[d].goal # g
      BY <3>3, HeldTasks DEF Touched
    <3>7. Planned(g) BY <3>2, <3>3, <3>5, <3>6 DEF Planned
    <3> QED BY <1>3, <2>1, <2>3, <3>7
  <2>4. ASSUME UNCHANGED <<durableVars, tick, apiVars>> PROVE Planned(g)'
    BY <1>2, <1>3, <2>4
  <2> QED BY <1>5, <2>2, <2>3, <2>4, AdmitSteps
<1>6. CASE EnvNext
  <2>1. ~Crash BY DEF Crash, Idle
  <2>2. UNCHANGED <<durableVars, apiVars>> /\ tick' = tick
    BY <1>6, <2>1 DEF EnvNext, PlannerReturns, WallExpires, RunExits, RunAsks, coordVars
  <2> QED BY <1>2, <1>3, <2>2
<1>7. CASE UNCHANGED vars BY <1>2, <1>3, <1>7 DEF vars, coordVars
<1> QED BY <1>4, <1>5, <1>6, <1>7 DEF CoordNext

----------------------------------------------------------------------------
(* Whoever is about to close a goal does.                                  *)

LEMMA ReconcileApplied ==
  ASSUME RefInv, [CoordNext]_vars, ~Crash, NEW d \in Decision, applying[d] = "reconcile"
  PROVE  applying'[d] = "reconcile" \/ ApiReconcile(d)
<1>1. applying \in [Decision -> {"none", "record", "continue", "stop", "reconcile"}]
  BY DEF RefInv, ControlOK
<1>2. CASE TickNext BY <1>2, TickAll DEF Goes, apiVars
<1>3. CASE EnvNext
  BY <1>3 DEF EnvNext, PlannerReturns, WallExpires, RunExits, RunAsks, apiVars
<1>4. ASSUME NEW g \in Goal, ApiSubmit(g) \/ ApiCancel(g) \/ ApiStopRuns(g) \/ ApiEffect(g)
      PROVE  applying'[d] = applying[d]
  BY <1>4 DEF ApiSubmit, ApiCancel, ApiStopRuns, ApiEffect, apiVars
<1>5. ASSUME NEW t \in Task, ApiRetry(t) \/ ApiResume(t) PROVE applying'[d] = applying[d]
  BY <1>5 DEF ApiRetry, ApiResume
<1>6. ASSUME NEW e \in Decision,
             \/ ApiAnswer(e) \/ ApiRecord(e) \/ ApiCheckpoint(e)
             \/ ApiContinue(e) \/ ApiStop(e) \/ ApiReconcile(e)
      PROVE  applying'[d] = applying[d] \/ ApiReconcile(d)
  BY <1>1, <1>6 DEF ApiAnswer, ApiRecord, ApiCheckpoint, ApiContinue, ApiStop, ApiReconcile
<1>7. CASE UNCHANGED vars BY <1>7 DEF vars, apiVars
<1> QED BY <1>2, <1>3, <1>4, <1>5, <1>6, <1>7 DEF CoordNext, ApiNext

\* The thread that has the lock reconciles or fails its goal before it lets the goal go.
LEMMA TickCloses ==
  ASSUME Holds, [CoordNext]_vars, ~Crash, NEW g \in Goal, tick.goal = g,
         tick.pc \in {"reconcile", "budget"}
  PROVE  \/ tick'.goal = g /\ tick'.pc = tick.pc
         \/ ReconcileGoalProgress(g) \/ ~CanReconcile(g) \/ FailGoal(g)
<1>1. tick \in TickRow BY DEF Holds, RefInv, ControlOK
<1>2. tick' = tick \/ TickContinues
  <2>1. CASE TickNext
    BY <2>1 DEF TickNext, TickBegins, TickCancel, TickTerminated, TickPlan, TickPlanned,
                TickAdvance, LaunchNext, StartRun, StartFailed, Bind
  <2> QED BY <2>1, TickElsewhere DEF Holds
<1>3. ASSUME TickContinues PROVE Reconcile \/ BudgetGoal \/ \E t \in Task : BudgetTask(t)
  BY <1>3 DEF TickContinues, TickEffect, Admit, Observe, ObserveFresh, Finish, Park, Dispatch,
              DispatchOne, Stamp
<1>4. ASSUME NEW t \in Task, BudgetTask(t) PROVE tick'.goal = g /\ tick'.pc = tick.pc
  BY <1>1, <1>4 DEF BudgetTask, TickRow
<1>5. Reconcile => ReconcileGoalProgress(g) \/ ~CanReconcile(g) BY DEF Reconcile
<1>6. BudgetGoal => FailGoal(g) BY DEF BudgetGoal
<1> QED BY <1>2, <1>3, <1>4, <1>5, <1>6

LEMMA SettledStep ==
  ASSUME Holds, SettledIsClosed, [CoordNext]_vars
  PROVE  SettledIsClosed'
<1> SUFFICES ASSUME NEW g \in Goal, crashes' = 0, TasksOf(g)' # {}, ~HasProgress(g)',
                    goal'[g].state \in {"queued", "running"}, ~Closing(g)'
             PROVE  FALSE
  BY DEF SettledIsClosed, Closing
<1>1. /\ RefInv /\ Admitted /\ TypeOK /\ StoreInv /\ goal \in [Goal -> Snapshot]
      /\ goal[g] \in Snapshot
  BY HeldTasks, Rows DEF Holds, TypeOK
<1>2. crashes = 0 /\ ~Crash BY <1>1, CrashCounts
<1>3. [Next]_durableVars /\ Effects BY <1>1, RefStep, StepFits DEF Fits
<1>4. TasksOf(g) # {}
  <2> SUFFICES ASSUME TasksOf(g) = {} PROVE FALSE OBVIOUS
  <2>1. PICK t \in Task : GoalOf[t] = g /\ task'[t].status # "absent" BY DEF TasksOf
  <2>2. task[t].status = "absent" BY <2>1 DEF TasksOf
  <2>3. Moves(t) BY <1>3 DEF Effects
  <2> QED BY <2>1, <2>2, <2>3 DEF Moves, Touched
<1>5. goal[g].state \in {"queued", "running"}
  <2>1. Opens(g) BY <1>3 DEF Effects
  <2>2. goal[g].state # "absent" BY <1>1, <1>4 DEF Admitted, TasksOf, Known
  <2>3. ASSUME NEW t \in Task, GoalOf[t] = g, Touched(t), task'[t].status = "queued" PROVE FALSE
    <3>1. Touched(t)' BY <1>1, <1>3, <2>3, TouchedStays
    <3>2. Going(t)' BY <2>3, <3>1 DEF Touched, Done, Going
    <3>3. t \in TasksOf(g)' BY <2>3 DEF TasksOf
    <3> QED BY <3>2, <3>3, GoingProgress
  <2> QED BY <2>1, <2>2, <2>3 DEF Opens
<1>6. ~HasProgress(g) BY <1>1, <1>3, ProgressKept
<1>7. Closing(g) BY <1>2, <1>4, <1>5, <1>6 DEF SettledIsClosed, Closing
<1>8. CanReconcile(g) /\ Reconciled(g) \in {"completed", "failed"}
  BY <1>1, <1>4, <1>5, <1>6, ReconcileCloses
<1>9. ~ReconcileGoalProgress(g)
  <2>1. ReconcileGoalProgress(g) => goal'[g].state = Reconciled(g)
    BY <1>1 DEF ReconcileGoalProgress, Snapshot
  <2> QED BY <1>8, <2>1
<1>10. ~FailGoal(g)
  <2>1. FailGoal(g) => goal'[g].state \in TerminalGoal BY <1>1 DEF FailGoal, Snapshot, TerminalGoal
  <2> QED BY <2>1 DEF TerminalGoal
<1>11. ASSUME NEW d \in Decision, decision[d].goal = g, applying[d] = "reconcile" PROVE FALSE
  <2>1. ~ApiReconcile(d) BY <1>9, <1>11 DEF ApiReconcile
  <2>2. applying'[d] = "reconcile" BY <1>1, <1>2, <1>11, <2>1, ReconcileApplied
  <2>3. decision[d].status # "unopened" BY <1>1, <1>11 DEF RefInv, ApplyInv
  <2>4. decision'[d].goal = g BY <1>1, <1>3, <1>11, <2>3, DecisionMoves DEF Keeps
  <2> QED BY <2>2, <2>4 DEF Closing
<1>12. ASSUME tick.goal = g, tick.pc \in {"reconcile", "budget"} PROVE FALSE
  <2>1. tick'.goal = g /\ tick'.pc = tick.pc BY <1>2, <1>8, <1>9, <1>10, <1>12, TickCloses
  <2> QED BY <1>12, <2>1 DEF Closing
<1>13. ASSUME tick.goal = g, tick.pc = "admit" PROVE FALSE
  <2>1. Planned(g) BY <1>13 DEF Holds, SettleInv, AdmitInv
  <2>2. \A t \in Task : GoalOf[t] = g => task[t].status \in {"absent", "queued"}
    BY <1>1, <1>5, <2>1 DEF Planned, StoreInv
  <2>3. PICK t \in TasksOf(g) : TRUE BY <1>4
  <2>4. t \in Task /\ GoalOf[t] = g /\ task[t].status = "queued" BY <2>2 DEF TasksOf
  <2>5. \A u \in DependsOn[t] : u \in Task /\ GoalOf[u] = g BY <2>4, DurableAssumption
  <2>6. Going(t) BY <2>2, <2>4, <2>5 DEF Going
  <2> QED BY <1>6, <2>6, GoingProgress
<1> QED BY <1>7, <1>11, <1>12, <1>13 DEF Closing

LEMMA SettleInit == CoordInit => SettleInv /\ SettledIsClosed
<1> SUFFICES ASSUME CoordInit PROVE SettleInv /\ SettledIsClosed OBVIOUS
<1>1. Init /\ tick.pc = "idle" BY DEF CoordInit, Idle
<1>2. \A t \in Task : task[t].status = "absent" BY <1>1 DEF Init, AbsentTask, NewTask
<1>3. \A g \in Goal : goal[g].failure.task = NoTask
  BY <1>1 DEF Init, EmptySnapshot, NoFailure
<1>4. \A d \in Decision : decision[d].kind = "approval" BY <1>1 DEF Init, Unopened
<1>5. StoreInv BY <1>2 DEF StoreInv
<1>6. NamedInv BY <1>3, <1>4, DurableAssumption DEF NamedInv
<1>7. HeldInv BY <1>1 DEF HeldInv, TickHeld, LaunchHeld, CoordInit, NoLaunch
<1>8. AdmitInv BY <1>1 DEF AdmitInv
<1>9. SettledIsClosed BY <1>2 DEF SettledIsClosed, TasksOf
<1> QED BY <1>5, <1>6, <1>7, <1>8, <1>9 DEF SettleInv

LEMMA SettleInvStep ==
  ASSUME Holds, [CoordNext]_vars
  PROVE  SettleInv'
<1>1. TypeOK /\ StoreInv /\ NamedInv /\ RefInv /\ Admitted BY HeldTasks DEF Holds
<1>2. Fits /\ [Next]_durableVars BY <1>1, StepFits, RefStep
<1>3. StoreInv' BY <1>1, <1>2, StoreInvStep DEF Fits
<1>4. NamedInv' BY <1>1, <1>2, NamedInvStep DEF Fits
<1>5. HeldInv' BY HeldInvStep
<1>6. AdmitInv' BY AdmitInvStep
<1> QED BY <1>3, <1>4, <1>5, <1>6 DEF SettleInv

LEMMA SettleInvariant == CoordSpec => [](Holds /\ SettledIsClosed)
<1>1. CoordSpec => [](RefInv /\ Admitted)
  BY RefInvariant, CoordImplementsStore, AdmittedInvariant, PTL
<1>2. RefInv /\ Admitted /\ SettleInv <=> Holds BY DEF Holds
<1>3. RefInv /\ Admitted /\ SettleInv /\ SettledIsClosed /\ [CoordNext]_vars
        => SettleInv' /\ SettledIsClosed'
  BY <1>2, SettleInvStep, SettledStep
<1> QED BY <1>1, <1>2, <1>3, SettleInit, PTL DEF CoordSpec

\* While the service lives no goal hangs with nothing left to do: when none of its tasks
\* is in flight, ready or waiting for one that is, the goal is terminal or is being
\* cancelled, or the thread that took its last progress away is about to reconcile or
\* fail it, however results, verdicts, retries, cancellations and the budget interleave.
THEOREM SettledStaysClosed == CoordSpec => []SettledIsClosed
  BY SettleInvariant, PTL

\* A task that has left the queue had all the tasks it depends on succeeded, whichever of
\* dispatch, retry, resumption, "continue" and parking took it there.
THEOREM DependenciesComeFirst ==
  CoordSpec => [](\A t \in Task : task[t].status \notin {"absent", "queued", "cancelled"}
                    => \A u \in DependsOn[t] : task[u].status = "succeeded")
<1>1. Holds => \A t \in Task : task[t].status \notin {"absent", "queued", "cancelled"}
                 => \A u \in DependsOn[t] : task[u].status = "succeeded"
  BY DEF Holds, SettleInv, StoreInv, Done
<1> QED BY <1>1, SettleInvariant, PTL

----------------------------------------------------------------------------
(* Workers and slots.  Without what NothingStrands excludes, every live    *)
(* run is its task's, or that of the thread that started it, and stays so. *)
Runs(t)      == task[t].status = "running"
RunningIn(g) == {t \in Task : GoalOf[t] = g /\ Runs(t)}
RunningAll   == {t \in Task : Runs(t)}
\* No worker and no starting thread works for the task.
Free(t) == /\ \A k \in Claim : launch[k].st # "none" => launch[k].task # t
           /\ \A r \in Run : Live(r) => runs[r].task # t

\* Nothing is being cancelled, resumed or stopped for its budget.
CalmInv == /\ resuming = {} /\ expired = {} /\ tick.pc # "budget"
           /\ \A g \in Goal : goal[g].state # "cancel_requested"

\* A checkpoint that waits for its verdict, or for the thread that applies it, but not both.
Asks(d) == /\ decision[d].kind = "checkpoint"
           /\ decision[d].status = "pending" \/ applying[d] \in {"continue", "stop"}
Once(d) == decision[d].status = "pending" => applying[d] \notin {"continue", "stop"}

\* A task that waits is parked, by the one checkpoint that can still move it.
ParkedInv ==
  /\ \A t \in Task : /\ task[t].status # "cancel_requested"
                     /\ task[t].status = "awaiting_decision" => FreesSlot(t)
  /\ \A d \in Decision : Asks(d) =>
       /\ FreesSlot(decision[d].task) /\ task[decision[d].task].parkedOn = d
       /\ Once(d)

\* A goal's failure names a task of it that has failed.
FailedInv == \A g \in Goal, t \in Task : goal[g].failure.task = t =>
               task[t].status = "failed" /\ GoalOf[t] = g

\* A thread in start_run holds the token of a running task that has no run; ...
HeldBy(k) ==
  launch[k].st # "none" => /\ Runs(launch[k].task) /\ task[launch[k].task].claim = k
                           /\ task[launch[k].task].run = NoRun
                           /\ launch[k].st = "started" => runs[launch[k].run].task = launch[k].task
\* ... a live run is that of its task, or of the thread that started it.
StartedBy(k, r) == /\ launch[k].st = "started" /\ launch[k].run = r
                   /\ launch[k].task = runs[r].task
Backed(r) ==
  Live(r) => /\ runs[r].task \in Task /\ Runs(runs[r].task)
             /\ task[runs[r].task].run = r \/ \E k \in Claim : StartedBy(k, r)
Bound(t) == task[t].run # NoRun => runs[task[t].run].task = t
WorkInv == /\ \A k \in Claim : HeldBy(k)
           /\ \A r \in Run : Backed(r)
           /\ \A t \in Task : Bound(t)

\* The running tasks keep to the limits and to their directories.
SlotInv ==
  /\ \A t, u \in RunningAll : Dir[t] = Dir[u] => t = u
  /\ IsFiniteSet(RunningAll) /\ Cardinality(RunningAll) <= Global
  /\ \A g \in Goal : Cardinality(RunningIn(g)) <= PerGoal

\* What the tick has chosen holds until it acts: a task to claim has its slot and its
\* directory, and a task to settle has no worker any more.
ChosenInv ==
  /\ tick.pc = "claim" =>
       /\ \A u \in RunningAll : Dir[u] # Dir[tick.task]
       /\ Cardinality(RunningAll) < Global /\ Cardinality(RunningIn(tick.goal)) < PerGoal
  /\ tick.pc \in {"stamp", "fresh"} =>
       Runs(tick.task) /\ task[tick.task].run = tick.run /\ tick.run # NoRun
  /\ tick.pc \in {"finish", "park"} =>
       /\ Runs(tick.task) /\ Free(tick.task)
       /\ tick.run # NoRun => runs[tick.run].task = tick.task

GuardInv == CalmInv /\ ParkedInv /\ FailedInv /\ WorkInv /\ SlotInv /\ ChosenInv
Guarded  == Holds /\ RunInv /\ GuardInv

----------------------------------------------------------------------------
(* What a step does to tasks, workers and threads.                         *)

Kept(u) == /\ task'[u].status = task[u].status /\ task'[u].run = task[u].run
           /\ task'[u].claim = task[u].claim
           /\ task'[u].blockedOn = task[u].blockedOn /\ task'[u].parkedOn = task[u].parkedOn
KeptAll == \A u \in Task : Kept(u)

\* No run begins, and those that work work for the same task.
RunsRest == \A r \in Run : runs'[r].task = runs[r].task /\ (Live(r)' => Live(r))
\* A thread in start_run goes on or gives up, but keeps the run it has.
LaunchRest == \A k \in Claim :
  /\ launch'[k].st # "none" => /\ launch[k].st # "none" /\ launch'[k].task = launch[k].task
                               /\ launch'[k].run = launch[k].run
  /\ launch'[k].st = "started" <=> launch[k].st = "started"
Rests == KeptAll /\ RunsRest /\ LaunchRest

\* A task that nobody works for moves, and does not run afterwards.
Leaves(t) ==
  /\ \A u \in Task : u # t => Kept(u)
  /\ ~Runs(t)'
  /\ task'[t].run # NoRun => runs[task'[t].run].task = t
  /\ launch' = launch /\ runs' = runs

\* No more tasks run than before.
Shrinks == \A u \in Task : Runs(u)' => Runs(u)

LEMMA SlotsShrink ==
  ASSUME SlotInv, Shrinks
  PROVE  /\ SlotInv' /\ Cardinality(RunningAll') <= Cardinality(RunningAll)
         /\ \A g \in Goal : Cardinality(RunningIn(g)') <= Cardinality(RunningIn(g))
<1>1. RunningAll' \in SUBSET RunningAll BY DEF RunningAll, Shrinks
<1>2. /\ IsFiniteSet(RunningAll') /\ IsFiniteSet(RunningAll)
      /\ Cardinality(RunningAll') <= Cardinality(RunningAll)
      /\ Cardinality(RunningAll) \in Nat /\ Cardinality(RunningAll') \in Nat
  BY <1>1, FS_Subset, FS_CardinalityType DEF SlotInv
<1>3. Cardinality(RunningAll') <= Global
  BY <1>2, CoordinatorAssumption DEF SlotInv
<1>4. ASSUME NEW g \in Goal
      PROVE  /\ Cardinality(RunningIn(g)') <= Cardinality(RunningIn(g))
             /\ Cardinality(RunningIn(g)') <= PerGoal
  <2>1. /\ RunningIn(g)' \in SUBSET RunningIn(g) /\ RunningIn(g) \in SUBSET RunningAll
    BY DEF RunningIn, RunningAll, Shrinks
  <2>2. IsFiniteSet(RunningIn(g)) BY <1>2, <2>1, FS_Subset
  <2>3. /\ IsFiniteSet(RunningIn(g)') /\ Cardinality(RunningIn(g)') <= Cardinality(RunningIn(g))
        /\ Cardinality(RunningIn(g)) \in Nat /\ Cardinality(RunningIn(g)') \in Nat
    BY <2>1, <2>2, FS_Subset, FS_CardinalityType
  <2> QED BY <2>3, CoordinatorAssumption DEF SlotInv
<1>5. \A t, u \in RunningAll' : Dir[t] = Dir[u] => t = u BY <1>1 DEF SlotInv
<1> QED BY <1>2, <1>3, <1>4, <1>5 DEF SlotInv

LEMMA RestWorks ==
  ASSUME Rests, LaunchInv, WorkInv, \A t \in Task : task[t].run \in Run \cup {NoRun}
  PROVE  WorkInv'
<1>1. ASSUME NEW k \in Claim PROVE HeldBy(k)'
  <2>1. CASE launch'[k].st = "none" BY <2>1 DEF HeldBy
  <2>2. CASE launch'[k].st # "none"
    <3>1. /\ launch[k].st # "none" /\ launch'[k].task = launch[k].task
          /\ launch'[k].run = launch[k].run /\ launch[k].task \in Task
          /\ launch'[k].st = "started" => launch[k].st = "started" /\ launch[k].run \in Run
      BY <2>2 DEF Rests, LaunchRest, LaunchInv
    <3>2. Kept(launch[k].task) BY <3>1 DEF Rests, KeptAll
    <3>3. HeldBy(k) BY DEF WorkInv
    <3>4. launch'[k].st = "started" => runs'[launch[k].run].task = runs[launch[k].run].task
      BY <3>1 DEF Rests, RunsRest
    <3> QED BY <3>1, <3>2, <3>3, <3>4 DEF HeldBy, Kept, Runs
  <2> QED BY <2>1, <2>2
<1>2. ASSUME NEW r \in Run PROVE Backed(r)'
  <2>1. runs'[r].task = runs[r].task /\ (Live(r)' => Live(r)) BY DEF Rests, RunsRest
  <2>2. Backed(r) BY DEF WorkInv
  <2>3. ASSUME NEW k \in Claim, StartedBy(k, r) PROVE StartedBy(k, r)'
    BY <2>1, <2>3 DEF StartedBy, Rests, LaunchRest
  <2>4. runs[r].task \in Task => Kept(runs[r].task) BY DEF Rests, KeptAll
  <2> QED BY <2>1, <2>2, <2>3, <2>4 DEF Backed, Kept, Runs
<1>3. ASSUME NEW t \in Task PROVE Bound(t)'
  <2>1. Kept(t) /\ Bound(t) BY DEF Rests, KeptAll, WorkInv
  <2>2. task[t].run # NoRun => runs'[task[t].run].task = runs[task[t].run].task
    BY DEF Rests, RunsRest
  <2> QED BY <2>1, <2>2 DEF Kept, Bound
<1> QED BY <1>1, <1>2, <1>3 DEF WorkInv

LEMMA LeaveWorks ==
  ASSUME WorkInv, LaunchInv, NEW t \in Task, Free(t), Leaves(t)
  PROVE  WorkInv'
<1>1. ASSUME NEW k \in Claim PROVE HeldBy(k)'
  <2>1. HeldBy(k) /\ launch'[k] = launch[k] BY DEF WorkInv, Leaves
  <2>2. launch[k].st # "none" => launch[k].task # t /\ launch[k].task \in Task
    BY DEF Free, LaunchInv
  <2>3. launch[k].st # "none" => Kept(launch[k].task) BY <2>2 DEF Leaves
  <2> QED BY <2>1, <2>3 DEF HeldBy, Kept, Runs, Leaves
<1>2. ASSUME NEW r \in Run PROVE Backed(r)'
  <2>1. Backed(r) /\ runs'[r] = runs[r] BY DEF WorkInv, Leaves
  <2>2. Live(r) => runs[r].task # t BY DEF Free
  <2>3. Live(r) => Kept(runs[r].task) BY <2>1, <2>2 DEF Leaves, Backed
  <2>4. Live(r)' => Live(r) BY <2>1 DEF Live
  <2>5. ASSUME NEW k \in Claim, StartedBy(k, r) PROVE StartedBy(k, r)'
    BY <2>1, <2>5 DEF StartedBy, Leaves
  <2> QED BY <2>1, <2>3, <2>4, <2>5 DEF Backed, Kept, Runs
<1>3. ASSUME NEW u \in Task PROVE Bound(u)'
  <2>1. Bound(u) /\ (u # t => Kept(u)) BY DEF WorkInv, Leaves
  <2> QED BY <2>1 DEF Bound, Kept, Leaves
<1> QED BY <1>1, <1>2, <1>3 DEF WorkInv

\* A thread takes a queued task, ...
LEMMA ClaimWorks ==
  ASSUME RefInv, WorkInv, NEW k \in Claim, NEW t \in Task, ClaimTaskDispatch(t, k), runs' = runs,
         launch[k].st = "none",
         launch' = [launch EXCEPT ![k] = [st |-> "starting", task |-> t, run |-> NoRun,
                                          skipped |-> tick.todo]] \/ launch' = launch
  PROVE  WorkInv'
<1>1. /\ task \in [Task -> TaskRow] /\ launch \in [Claim -> LaunchRow] /\ LaunchInv
      /\ \A u \in Task : task[u] \in TaskRow
  BY Rows DEF RefInv, ControlOK, TypeOK
<1>2. ~Runs(t) /\ task[t].run = NoRun BY DEF ClaimTaskDispatch, CanClaimDispatch, Runs
<1>3. task'[t].status = "running" /\ task'[t].claim = k /\ task'[t].run = NoRun
  BY <1>1, <1>2 DEF ClaimTaskDispatch, TaskRow
<1>4. \A u \in Task : u # t => task'[u] = task[u] BY <1>1 DEF ClaimTaskDispatch
<1>5. ASSUME NEW j \in Claim PROVE HeldBy(j)'
  <2>1. CASE j = k /\ launch'[k].st = "none" BY <2>1 DEF HeldBy
  <2>2. CASE j = k /\ launch'[k].st # "none"
    <3>1. launch'[k].st = "starting" /\ launch'[k].task = t BY <1>1, <2>2
    <3> QED BY <1>3, <2>2, <3>1 DEF HeldBy, Runs
  <2>3. CASE j # k
    <3>1. launch'[j] = launch[j] /\ HeldBy(j) BY <1>1, <2>3 DEF WorkInv
    <3>2. launch[j].st # "none" => launch[j].task \in Task /\ launch[j].task # t
      BY <1>1, <1>2, <3>1 DEF LaunchInv, HeldBy
    <3> QED BY <1>4, <3>1, <3>2 DEF HeldBy, Runs
  <2> QED BY <2>1, <2>2, <2>3
<1>6. ASSUME NEW r \in Run PROVE Backed(r)'
  <2>1. Backed(r) BY DEF WorkInv
  <2>2. Live(r)' => Live(r) /\ runs[r].task # t BY <1>2, <2>1 DEF Live, Backed
  <2>3. ASSUME NEW j \in Claim, StartedBy(j, r) PROVE StartedBy(j, r)'
    <3>1. j # k BY <2>3 DEF StartedBy
    <3> QED BY <1>1, <2>3, <3>1 DEF StartedBy
  <2> QED BY <1>4, <2>1, <2>2, <2>3 DEF Backed, Runs
<1>7. ASSUME NEW u \in Task PROVE Bound(u)'
  BY <1>3, <1>4, <1>7 DEF WorkInv, Bound
<1> QED BY <1>5, <1>6, <1>7 DEF WorkInv

\* ... starts its run, ...
LEMMA StartWorks ==
  ASSUME RefInv, RunInv, WorkInv, NEW k \in Claim, Starts(k)
  PROVE  WorkInv'
<1>1. /\ task \in [Task -> TaskRow] /\ launch \in [Claim -> LaunchRow] /\ LaunchInv
      /\ runs \in [Run -> RunRow] /\ \A u \in Task : task[u] \in TaskRow /\ launch[k] \in LaunchRow
  BY Rows DEF RefInv, ControlOK, TypeOK
<1>2. PICK r \in Run :
        /\ launch[k].st = "starting" /\ runs[r].st = "unused"
        /\ runs' = [runs EXCEPT ![r] = [st |-> "live", task |-> launch[k].task]]
        /\ launch' = [launch EXCEPT ![k] = [@ EXCEPT !.st = "started", !.run = r]]
        /\ UNCHANGED durableVars
  BY DEF Starts
<1>3. task' = task BY <1>2 DEF durableVars
<1>4. runs[r].task \notin Task BY <1>2 DEF RunInv
<1>5. /\ runs'[r].task = launch[k].task /\ \A s \in Run \ {r} : runs'[s] = runs[s]
      /\ launch'[k].st = "started" /\ launch'[k].run = r /\ launch'[k].task = launch[k].task
      /\ \A j \in Claim \ {k} : launch'[j] = launch[j]
  BY <1>1, <1>2 DEF LaunchRow
<1>6. launch[k].task \in Task /\ HeldBy(k) BY <1>1, <1>2 DEF LaunchInv, WorkInv
<1>7. ASSUME NEW j \in Claim PROVE HeldBy(j)'
  <2>1. CASE j = k BY <1>2, <1>3, <1>5, <1>6, <2>1 DEF HeldBy, Runs
  <2>2. CASE j # k
    <3>1. HeldBy(j) /\ launch'[j] = launch[j] BY <1>5, <2>2 DEF WorkInv
    <3>2. launch[j].st = "started" => launch[j].run \in Run /\ launch[j].task \in Task
      BY <1>1 DEF LaunchInv
    <3>3. launch[j].st = "started" => launch[j].run # r BY <1>4, <3>1, <3>2 DEF HeldBy
    <3> QED BY <1>3, <1>5, <3>1, <3>2, <3>3 DEF HeldBy, Runs
  <2> QED BY <2>1, <2>2
<1>8. ASSUME NEW s \in Run PROVE Backed(s)'
  <2>1. CASE s = r
    <3>1. StartedBy(k, s)' BY <1>5, <2>1 DEF StartedBy
    <3>2. Runs(launch[k].task)' BY <1>2, <1>3, <1>6 DEF HeldBy, Runs
    <3> QED BY <1>5, <1>6, <2>1, <3>1, <3>2 DEF Backed
  <2>2. CASE s # r
    <3>1. Backed(s) /\ runs'[s] = runs[s] BY <1>5, <2>2 DEF WorkInv
    <3>2. ASSUME NEW j \in Claim, StartedBy(j, s) PROVE StartedBy(j, s)'
      <4>1. j # k BY <1>2, <3>2 DEF StartedBy
      <4> QED BY <1>5, <3>1, <3>2, <4>1 DEF StartedBy
    <3> QED BY <1>3, <3>1, <3>2 DEF Backed, Live, Runs
  <2> QED BY <2>1, <2>2
<1>9. ASSUME NEW u \in Task PROVE Bound(u)'
  <2>1. Bound(u) /\ task[u].run \in Run \cup {NoRun} BY <1>1 DEF WorkInv, TaskRow
  <2> QED BY <1>3, <1>4, <1>5, <2>1 DEF Bound
<1> QED BY <1>7, <1>8, <1>9 DEF WorkInv

\* ... and binds it.
LEMMA BindWorks ==
  ASSUME RefInv, WorkInv, NEW k \in Claim, launch[k].st = "started", runs' = runs,
         BindTaskRun(launch[k].task, launch[k].run), launch' = [launch EXCEPT ![k] = NoLaunch]
  PROVE  /\ WorkInv'
         /\ task'[launch[k].task].status = "running"
         /\ task'[launch[k].task].run = launch[k].run
<1>1. /\ task \in [Task -> TaskRow] /\ launch \in [Claim -> LaunchRow] /\ LaunchInv
      /\ \A u \in Task : task[u] \in TaskRow
  BY Rows DEF RefInv, ControlOK, TypeOK
<1> DEFINE t == launch[k].task
           r == launch[k].run
<1>2. t \in Task /\ r \in Run BY <1>1 DEF LaunchInv
<1>3. Runs(t) /\ task[t].claim = k /\ task[t].run = NoRun /\ runs[r].task = t
  BY DEF WorkInv, HeldBy
<1>4. task'[t].status = "running" /\ task'[t].run = r
  BY <1>1, <1>2, <1>3 DEF BindTaskRun, TaskRow, Runs
<1>5. \A u \in Task : u # t => task'[u] = task[u] BY <1>1 DEF BindTaskRun
<1>6. /\ \A j \in Claim \ {k} : launch'[j] = launch[j]
      /\ launch'[k].st = "none"
  BY <1>1 DEF NoLaunch
<1>7. \A j \in Claim : j # k /\ launch[j].st # "none" => launch[j].task # t
  BY <1>3 DEF WorkInv, HeldBy
<1> HIDE DEF t, r
<1>8. ASSUME NEW j \in Claim PROVE HeldBy(j)'
  <2>1. CASE j = k BY <1>6, <2>1 DEF HeldBy
  <2>2. CASE j # k
    <3>1. HeldBy(j) /\ launch'[j] = launch[j] BY <1>6, <2>2 DEF WorkInv
    <3>2. launch[j].st # "none" => launch[j].task \in Task /\ launch[j].task # t
      BY <1>1, <1>7, <2>2 DEF LaunchInv
    <3> QED BY <1>5, <3>1, <3>2 DEF HeldBy, Runs
  <2> QED BY <2>1, <2>2
<1>9. ASSUME NEW s \in Run PROVE Backed(s)'
  <2>1. SUFFICES ASSUME Live(s)
                 PROVE  /\ runs[s].task \in Task /\ Runs(runs[s].task)'
                        /\ \/ task'[runs[s].task].run = s
                           \/ \E j \in Claim : StartedBy(j, s)'
    BY DEF Backed, Live
  <2>2. /\ runs[s].task \in Task /\ Runs(runs[s].task)
        /\ task[runs[s].task].run = s \/ \E j \in Claim : StartedBy(j, s)
    BY <2>1 DEF WorkInv, Backed
  <2>3. Runs(runs[s].task)' BY <1>4, <1>5, <2>2 DEF Runs
  <2>4. CASE task[runs[s].task].run = s
    <3>1. s # NoRun BY DurableAssumption
    <3> QED BY <1>3, <1>5, <2>2, <2>3, <2>4, <3>1
  <2>5. ASSUME NEW j \in Claim, StartedBy(j, s)
        PROVE  task'[runs[s].task].run = s \/ StartedBy(j, s)'
    <3>1. CASE j = k BY <1>4, <2>5, <3>1 DEF StartedBy, t, r
    <3>2. CASE j # k BY <1>6, <2>5, <3>2 DEF StartedBy
    <3> QED BY <3>1, <3>2
  <2> QED BY <2>2, <2>3, <2>4, <2>5
<1>10. ASSUME NEW u \in Task PROVE Bound(u)'
  <2>1. CASE u = t BY <1>3, <1>4, <2>1 DEF Bound
  <2>2. CASE u # t BY <1>5, <2>2 DEF WorkInv, Bound
  <2> QED BY <2>1, <2>2
<1> QED BY <1>4, <1>8, <1>9, <1>10 DEF WorkInv, t, r

\* A crash that ends every worker leaves nothing to be held.
LEMMA CrashWorks ==
  ASSUME RefInv, WorkInv, NothingStrands, Crash
  PROVE  WorkInv'
<1>1. /\ runs \in [Run -> RunRow] /\ \A u \in Task : task[u] \in TaskRow
      /\ crashes \in 0 .. MaxCrashes
  BY Rows DEF RefInv, ControlOK
<1>2. "reaped" \in May BY <1>1, CoordinatorAssumption DEF Crash, NothingStrands
<1>3. task' = task BY DEF Crash, durableVars
<1>4. \A r \in Run : runs'[r].task = runs[r].task /\ runs'[r].st \in {"unused", "lost"}
  BY <1>1, <1>2 DEF Crash, RunRow
<1>5. \A k \in Claim : HeldBy(k)' BY DEF Crash, HeldBy, NoLaunch
<1>6. \A r \in Run : Backed(r)' BY <1>4 DEF Backed, Live
<1>7. ASSUME NEW u \in Task PROVE Bound(u)'
  <2>1. Bound(u) /\ task[u].run \in Run \cup {NoRun} BY <1>1 DEF WorkInv, TaskRow
  <2> QED BY <1>3, <1>4, <2>1 DEF Bound
<1> QED BY <1>5, <1>6, <1>7 DEF WorkInv

\* A task that does not run, or whose only run has ended, is nobody's.
LEMMA NotRunningFree ==
  ASSUME WorkInv, NEW t \in Task, ~Runs(t)
  PROVE  Free(t)
  BY DEF WorkInv, HeldBy, Backed, Free
LEMMA EndedFree ==
  ASSUME WorkInv, NEW t \in Task, NEW r, task[t].run = r, r # NoRun,
         launch' = launch, RunsRest, ~Live(r)'
  PROVE  Free(t)'
<1>1. ASSUME NEW k \in Claim, launch[k].st # "none" PROVE launch[k].task # t
  BY <1>1 DEF WorkInv, HeldBy
<1>2. ASSUME NEW s \in Run, Live(s)' PROVE runs'[s].task # t
  <2>1. Live(s) /\ runs'[s].task = runs[s].task BY <1>2 DEF RunsRest
  <2>2. runs[s].task = t => task[t].run = s BY <1>1, <2>1 DEF WorkInv, Backed, StartedBy
  <2> QED BY <1>2, <2>1, <2>2
<1> QED BY <1>1, <1>2 DEF Free

----------------------------------------------------------------------------
(* The kinds of steps: the tasks rest, one of them leaves, ...             *)

\* No checkpoint asks that did not ask before.
Asked == \A d \in Decision : Asks(d)' =>
           Once(d)' /\ Asks(d) /\ decision'[d].task = decision[d].task
\* No cancellation is requested and no failure named.
GoalsRest == \A g \in Goal : /\ goal'[g].state # "cancel_requested"
                             /\ goal'[g].failure.task \in {goal[g].failure.task, NoTask}
Resting == Rests /\ Asked /\ GoalsRest

Leaving(t) ==
  /\ Free(t) /\ Leaves(t)
  /\ task'[t].status # "cancel_requested"
  /\ task'[t].status = "awaiting_decision" => FreesSlot(t)'
  /\ \A d \in Decision : Asks(d)' =>
       /\ Once(d)'
       /\ \/ Asks(d) /\ decision'[d].task = decision[d].task /\ decision[d].task # t
          \/ decision'[d].task = t /\ FreesSlot(t)' /\ task'[t].parkedOn = d
  /\ \A g \in Goal :
       /\ goal'[g].state # "cancel_requested"
       /\ \/ goal'[g].failure.task \in {goal[g].failure.task, NoTask}
          \/ goal'[g].failure.task = t /\ GoalOf[t] = g /\ task'[t].status = "failed"
       /\ task[t].status = "failed" /\ GoalOf[t] = g => goal'[g].failure.task # t

\* What is left of the invariant when the threads' own choices are set aside.
StandInv == ParkedInv /\ FailedInv /\ WorkInv /\ SlotInv

LEMMA RestStands ==
  ASSUME RefInv, StandInv, Resting
  PROVE  StandInv' /\ Shrinks
<1>1. LaunchInv /\ ApplyInv /\ \A t \in Task : task[t].run \in Run \cup {NoRun}
  BY Rows DEF RefInv, TaskRow
<1>2. WorkInv' BY <1>1, RestWorks DEF StandInv, Resting
<1>3. \A u \in Task : Kept(u) BY DEF Resting, Rests, KeptAll
<1>4. Shrinks BY <1>3 DEF Shrinks, Kept, Runs
<1>5. SlotInv' BY <1>4, SlotsShrink DEF StandInv
<1>6. FailedInv' BY <1>3, DurableAssumption DEF StandInv, FailedInv, Resting, GoalsRest, Kept
<1>7. ParkedInv'
  <2>1. ASSUME NEW t \in Task
        PROVE  /\ task'[t].status # "cancel_requested"
               /\ task'[t].status = "awaiting_decision" => FreesSlot(t)'
    BY <1>3 DEF StandInv, ParkedInv, Kept, FreesSlot
  <2>2. ASSUME NEW d \in Decision, Asks(d)'
        PROVE  /\ FreesSlot(decision[d].task)' /\ task'[decision'[d].task].parkedOn = d
               /\ Once(d)'
    <3>1. Once(d)' /\ Asks(d) /\ decision'[d].task = decision[d].task
      BY <2>2 DEF Resting, Asked
    <3>2. decision[d].task \in Task BY <1>1, <3>1 DEF ApplyInv, Asks
    <3>3. FreesSlot(decision[d].task) /\ task[decision[d].task].parkedOn = d
      BY <3>1 DEF StandInv, ParkedInv
    <3>4. Kept(decision[d].task) BY <1>3, <3>2
    <3> QED BY <3>1, <3>3, <3>4 DEF FreesSlot, Kept
  <2> QED BY <2>1, <2>2 DEF ParkedInv
<1> QED BY <1>2, <1>4, <1>5, <1>6, <1>7 DEF StandInv

LEMMA LeaveStands ==
  ASSUME RefInv, StandInv, NEW t \in Task, Leaving(t)
  PROVE  StandInv' /\ Shrinks
<1>1. LaunchInv /\ ApplyInv BY DEF RefInv
<1>2. WorkInv' BY <1>1, LeaveWorks DEF StandInv, Leaving
<1>3. \A u \in Task : u # t => Kept(u) BY DEF Leaving, Leaves
<1>4. Shrinks BY <1>3 DEF Shrinks, Kept, Runs, Leaving, Leaves
<1>5. SlotInv' BY <1>4, SlotsShrink DEF StandInv
<1>6. FailedInv'
  <2> SUFFICES ASSUME NEW g \in Goal, NEW u \in Task, goal'[g].failure.task = u
               PROVE  task'[u].status = "failed" /\ GoalOf[u] = g
    BY DEF FailedInv
  <2>1. u # NoTask BY DurableAssumption
  <2>2. CASE goal'[g].failure.task = t /\ GoalOf[t] = g /\ task'[t].status = "failed" BY <2>2
  <2>3. CASE goal'[g].failure.task = goal[g].failure.task
    <3>1. task[u].status = "failed" /\ GoalOf[u] = g BY <2>3 DEF StandInv, FailedInv
    <3>2. u # t BY <3>1 DEF Leaving
    <3> QED BY <1>3, <3>1, <3>2 DEF Kept
  <2> QED BY <2>1, <2>2, <2>3 DEF Leaving
<1>7. ParkedInv'
  <2>1. ASSUME NEW u \in Task
        PROVE  /\ task'[u].status # "cancel_requested"
               /\ task'[u].status = "awaiting_decision" => FreesSlot(u)'
    <3>1. CASE u = t BY <3>1 DEF Leaving
    <3>2. CASE u # t BY <1>3, <3>2 DEF StandInv, ParkedInv, Kept, FreesSlot
    <3> QED BY <3>1, <3>2
  <2>2. ASSUME NEW d \in Decision, Asks(d)'
        PROVE  /\ FreesSlot(decision[d].task)' /\ task'[decision'[d].task].parkedOn = d
               /\ Once(d)'
    <3>1. Once(d)' BY <2>2 DEF Leaving
    <3>2. CASE Asks(d) /\ decision'[d].task = decision[d].task /\ decision[d].task # t
      <4>1. decision[d].task \in Task BY <1>1, <3>2 DEF ApplyInv, Asks
      <4>2. FreesSlot(decision[d].task) /\ task[decision[d].task].parkedOn = d
        BY <3>2 DEF StandInv, ParkedInv
      <4>3. Kept(decision[d].task) BY <1>3, <3>2, <4>1
      <4> QED BY <3>1, <3>2, <4>2, <4>3 DEF FreesSlot, Kept
    <3>3. CASE decision'[d].task = t /\ FreesSlot(t)' /\ task'[t].parkedOn = d
      BY <3>1, <3>3 DEF FreesSlot
    <3> QED BY <2>2, <3>2, <3>3 DEF Leaving
  <2> QED BY <2>1, <2>2 DEF ParkedInv
<1> QED BY <1>2, <1>4, <1>5, <1>6, <1>7 DEF StandInv

\* A step of a thread that starts a worker, a crash: no decision, no goal and no task that
\* waits or has failed is touched.
Unasked == /\ decision' = decision /\ \A d \in Decision : applying'[d] \in {applying[d], "none"}
           /\ GoalsRest
           /\ \A u \in Task : \/ Kept(u)
                              \/ /\ task[u].status \in {"queued", "running"}
                                 /\ task'[u].status = "running"
LEMMA UnaskedStands ==
  ASSUME RefInv, ParkedInv, FailedInv, Unasked
  PROVE  ParkedInv' /\ FailedInv'
<1>1. ApplyInv BY DEF RefInv
<1>2. \A u \in Task : task[u].status \notin {"queued", "running"} => Kept(u) BY DEF Unasked
<1>3. FailedInv' BY <1>2, DurableAssumption DEF FailedInv, Unasked, GoalsRest, Kept
<1>4. ASSUME NEW u \in Task
      PROVE  /\ task'[u].status # "cancel_requested"
             /\ task'[u].status = "awaiting_decision" => FreesSlot(u)'
  BY DEF Unasked, ParkedInv, Kept, FreesSlot
<1>5. ASSUME NEW d \in Decision, Asks(d)'
      PROVE  /\ FreesSlot(decision[d].task)' /\ task'[decision'[d].task].parkedOn = d
             /\ Once(d)'
  <2>1. Asks(d) /\ decision'[d] = decision[d] /\ applying'[d] \in {applying[d], "none"}
    BY <1>5 DEF Unasked, Asks
  <2>2. /\ decision[d].task \in Task /\ Once(d)
        /\ FreesSlot(decision[d].task) /\ task[decision[d].task].parkedOn = d
    BY <1>1, <2>1 DEF ApplyInv, Asks, ParkedInv
  <2>3. Kept(decision[d].task) BY <1>2, <2>2 DEF FreesSlot
  <2>4. Once(d)' BY <2>1, <2>2 DEF Once
  <2> QED BY <2>1, <2>2, <2>3, <2>4 DEF FreesSlot, Kept
<1> QED BY <1>3, <1>4, <1>5 DEF ParkedInv

----------------------------------------------------------------------------
(* The operations of the store.                                            *)
Uncancelled == \A g \in Goal : goal[g].state # "cancel_requested"

LEMMA RestSame ==
  ASSUME Uncancelled, UNCHANGED durableVars
  PROVE  KeptAll /\ GoalsRest
  BY DEF durableVars, KeptAll, Kept, GoalsRest, Uncancelled

\* Starting the goal of a task.
LEMMA RestStarted ==
  ASSUME TypeOK, Uncancelled, NEW h \in Goal,
         goal' = goal \/ goal' = [goal EXCEPT ![h].state = Started(@)]
  PROVE  GoalsRest
<1>1. goal \in [Goal -> Snapshot] /\ \A g \in Goal : goal[g] \in Snapshot BY Rows DEF TypeOK
<1>2. \A g \in Goal : /\ goal'[g].failure = goal[g].failure
                      /\ goal'[g].state \in {goal[g].state, Started(goal[g].state)}
  BY <1>1 DEF Snapshot
<1> QED BY <1>2 DEF GoalsRest, Started, Uncancelled

LEMMA RestOps ==
  ASSUME TypeOK, Uncancelled,
         \/ \E g \in Goal : Submit(g, NoActor, {}) \/ ReconcileGoalProgress(g) \/ FailGoal(g)
         \/ \E d \in Decision, g \in Goal, t \in Task : OpenDecision(d, "approval", g, t)
         \/ \E d \in Decision : \E a, v : v # "grant" /\ ResolveDecision(d, a, 0, v, {})
         \/ \E t \in Task : MarkRunStarted(t)
  PROVE  KeptAll /\ GoalsRest
<1>1. /\ goal \in [Goal -> Snapshot] /\ \A g \in Goal : goal[g] \in Snapshot
      /\ task \in [Task -> TaskRow] /\ \A t \in Task : task[t] \in TaskRow
  BY Rows DEF TypeOK
<1>2. ASSUME task' = task PROVE KeptAll BY <1>2 DEF KeptAll, Kept
<1>3. ASSUME goal' = goal PROVE GoalsRest BY <1>3 DEF GoalsRest, Uncancelled
<1>4. ASSUME NEW g \in Goal, \A h \in Goal : h # g => goal'[h] = goal[h],
             goal'[g].state # "cancel_requested",
             goal'[g].failure.task \in {goal[g].failure.task, NoTask}
      PROVE  GoalsRest
  BY <1>4 DEF GoalsRest, Uncancelled
<1>5. ASSUME NEW g \in Goal, Submit(g, NoActor, {}) PROVE KeptAll /\ GoalsRest
  <2>1. \A h \in Goal : h # g => goal'[h] = goal[h] BY <1>1, <1>5 DEF Submit
  <2>2. goal'[g].state = "queued" /\ goal'[g].failure = goal[g].failure
    BY <1>1, <1>5 DEF Submit, Snapshot
  <2>3. KeptAll BY <1>1, <1>5 DEF Submit, KeptAll, Kept
  <2> QED BY <1>4, <2>1, <2>2, <2>3
<1>6. ASSUME NEW g \in Goal, ReconcileGoalProgress(g) PROVE KeptAll /\ GoalsRest
  <2>1. \A h \in Goal : h # g => goal'[h] = goal[h] BY <1>1, <1>6 DEF ReconcileGoalProgress
  <2>2. goal'[g].state = Reconciled(g) /\ goal'[g].failure = goal[g].failure
    BY <1>1, <1>6 DEF ReconcileGoalProgress, Snapshot
  <2>3. Reconciled(g) \in {goal[g].state, "completed", "failed"} BY DEF Reconciled
  <2>4. KeptAll BY <1>2, <1>6 DEF ReconcileGoalProgress
  <2> QED BY <1>4, <2>1, <2>2, <2>3, <2>4 DEF Uncancelled
<1>7. ASSUME NEW g \in Goal, FailGoal(g) PROVE KeptAll /\ GoalsRest
  <2>1. \A h \in Goal : h # g => goal'[h] = goal[h] BY <1>1, <1>7 DEF FailGoal
  <2>2. goal'[g].state \in {goal[g].state, "failed"} /\ goal'[g].failure.task = NoTask
    BY <1>1, <1>7 DEF FailGoal, Snapshot
  <2>3. KeptAll BY <1>2, <1>7 DEF FailGoal
  <2> QED BY <1>4, <2>1, <2>2, <2>3 DEF Uncancelled
<1>8. ASSUME NEW d \in Decision, NEW g \in Goal, NEW t \in Task, OpenDecision(d, "approval", g, t)
      PROVE  KeptAll /\ GoalsRest
  BY <1>2, <1>3, <1>8 DEF OpenDecision, UpperKind
<1>9. ASSUME NEW d \in Decision, NEW a, NEW v, v # "grant", ResolveDecision(d, a, 0, v, {})
      PROVE  KeptAll /\ GoalsRest
  <2>1. task' = task BY <1>9 DEF ResolveDecision, Resumes
  <2>2. \A h \in Goal : goal'[h].state = goal[h].state /\ goal'[h].failure = goal[h].failure
    BY <1>1, <1>9 DEF ResolveDecision, Snapshot
  <2> QED BY <1>2, <2>1, <2>2 DEF GoalsRest, Uncancelled
<1>10. ASSUME NEW t \in Task, MarkRunStarted(t) PROVE KeptAll /\ GoalsRest
  <2>1. KeptAll BY <1>1, <1>10 DEF MarkRunStarted, TaskRow, KeptAll, Kept
  <2> QED BY <1>3, <1>10, <2>1 DEF MarkRunStarted
<1> QED BY <1>5, <1>6, <1>7, <1>8, <1>9, <1>10

\* A step of the service that opens or answers no checkpoint.
LEMMA AskedSame ==
  ASSUME ParkedInv,
         \A d \in Decision : applying'[d] = applying[d] \/ applying'[d] \notin {"continue", "stop"},
         \A d \in Decision : \/ decision'[d] = decision[d]
                             \/ /\ decision'[d].status # "pending"
                                /\ decision'[d].task = decision[d].task
                                /\ decision'[d].kind = decision[d].kind
                             \/ decision'[d].kind # "checkpoint"
  PROVE  Asked
<1> SUFFICES ASSUME NEW d \in Decision, Asks(d)'
             PROVE  Once(d)' /\ Asks(d) /\ decision'[d].task = decision[d].task
  BY DEF Asked
<1>1. Asks(d) /\ decision'[d].task = decision[d].task BY DEF Asks
<1>2. Once(d) BY <1>1 DEF ParkedInv
<1> QED BY <1>1, <1>2 DEF Once, Asks

\* A result or a requeue of a task that nobody works for ends what is asked about it.
LEMMA MoveLeaves ==
  ASSUME TypeOK, Uncancelled, NEW t \in Task, Free(t), Bound(t), launch' = launch, runs' = runs,
         \/ AddChildTask(t)
         \/ RequeueCheckpointTask(t)
         \/ \E g \in Goal : \E resume : RetryNeedHuman(g, t, resume) /\ GoalOf[t] = g
         \/ \E res, close, r : /\ FinishTask(t, res, close, r) /\ task[t].status # "failed"
                               /\ r # NoRun => runs[r].task = t
         \/ \E d \in Decision : OpenCheckpoint(d, t)
  PROVE  /\ Leaves(t) /\ task'[t].status # "cancel_requested"
         /\ task'[t].status = "awaiting_decision" => FreesSlot(t)'
         /\ task[t].status = "failed" => task'[t].status # "failed"
<1>1. task \in [Task -> TaskRow] /\ task[t] \in TaskRow BY Rows DEF TypeOK
<1>2. \A u \in Task : u # t => Kept(u)
  <2>1. \A u \in Task : u # t => task'[u] = task[u]
    BY <1>1 DEF AddChildTask, RequeueCheckpointTask, RetryNeedHuman, FinishTask, OpenCheckpoint
  <2> QED BY <2>1 DEF Kept
<1>3. ASSUME task'[t].status \in {"queued", "succeeded", "failed"},
             task'[t].run # NoRun => runs[task'[t].run].task = t,
             task'[t].status = "failed" => task[t].status # "failed"
      PROVE  /\ Leaves(t) /\ task'[t].status # "cancel_requested"
             /\ task'[t].status = "awaiting_decision" => FreesSlot(t)'
             /\ task[t].status = "failed" => task'[t].status # "failed"
  BY <1>2, <1>3 DEF Leaves, Runs
<1>4. CASE AddChildTask(t) \/ RequeueCheckpointTask(t)
  <2>1. task'[t].status = "queued" /\ task'[t].run = NoRun
    BY <1>1, <1>4 DEF AddChildTask, RequeueCheckpointTask, NewTask
  <2> QED BY <1>3, <2>1
<1>5. ASSUME NEW g \in Goal, NEW resume, RetryNeedHuman(g, t, resume) PROVE
        task'[t].status = "queued" /\ task'[t].run \in {task[t].run, NoRun}
  BY <1>1, <1>5 DEF RetryNeedHuman, TaskRow
<1>6. ASSUME NEW res, NEW close, NEW r, FinishTask(t, res, close, r),
             task[t].status # "failed", r # NoRun => runs[r].task = t
      PROVE  /\ task'[t].status \in {"succeeded", "failed"}
             /\ task'[t].run # NoRun => runs[task'[t].run].task = t
  <2>1. task'[t].status \in {"succeeded", "failed"} BY <1>1, <1>6 DEF FinishTask, Outcome, TaskRow
  <2>2. task'[t].run = IF r = NoRun THEN task[t].run ELSE r BY <1>1, <1>6 DEF FinishTask, TaskRow
  <2> QED BY <1>6, <2>1, <2>2 DEF Bound
<1>7. ASSUME NEW d \in Decision, OpenCheckpoint(d, t)
      PROVE  /\ Leaves(t) /\ task'[t].status # "cancel_requested" /\ FreesSlot(t)'
             /\ task[t].status = "failed" => task'[t].status # "failed"
  <2>1. /\ task'[t].status = "awaiting_decision" /\ task'[t].run = task[t].run
        /\ task'[t].blockedOn = d /\ task'[t].parkedOn = d /\ d # NoDecision
    BY <1>1, <1>7, DurableAssumption DEF OpenCheckpoint, TaskRow
  <2> QED BY <1>2, <2>1 DEF Leaves, Runs, FreesSlot, Bound
<1> QED BY <1>3, <1>4, <1>5, <1>6, <1>7 DEF Bound

\* What these operations do to the goals.
LEMMA MoveGoals ==
  ASSUME TypeOK, Uncancelled, NEW t \in Task,
         \/ AddChildTask(t)
         \/ RequeueCheckpointTask(t)
         \/ \E g \in Goal : \E resume : RetryNeedHuman(g, t, resume) /\ GoalOf[t] = g
         \/ \E res, close, r : FinishTask(t, res, close, r) /\ task[t].status # "failed"
         \/ \E d \in Decision : OpenCheckpoint(d, t) /\ task[t].status # "failed"
  PROVE  \A g \in Goal :
           /\ goal'[g].state # "cancel_requested"
           /\ \/ goal'[g].failure.task \in {goal[g].failure.task, NoTask}
              \/ goal'[g].failure.task = t /\ GoalOf[t] = g /\ task'[t].status = "failed"
<1>1. /\ goal \in [Goal -> Snapshot] /\ \A g \in Goal : goal[g] \in Snapshot
      /\ task \in [Task -> TaskRow] /\ task[t] \in TaskRow /\ GoalOf[t] \in Goal
  BY Rows, GoalOfTask DEF TypeOK
<1>2. CASE GoalsRest BY <1>2 DEF GoalsRest
<1>3. CASE AddChildTask(t)
  <2>1. GoalsRest BY <1>1, <1>3, RestStarted DEF AddChildTask
  <2> QED BY <1>2, <2>1
<1>4. CASE RequeueCheckpointTask(t)
  <2>1. \A g \in Goal : goal'[g].state = goal[g].state /\ goal'[g].failure = goal[g].failure
    BY <1>1, <1>4 DEF RequeueCheckpointTask, Snapshot
  <2> QED BY <1>2, <2>1 DEF GoalsRest, Uncancelled
<1>5. ASSUME NEW h \in Goal, NEW resume, RetryNeedHuman(h, t, resume) PROVE GoalsRest
  <2>1. \A g \in Goal : g # h => goal'[g] = goal[g] BY <1>1, <1>5 DEF RetryNeedHuman
  <2>2. goal'[h].state = "queued" /\ goal'[h].failure.task = NoTask
    BY <1>1, <1>5 DEF RetryNeedHuman, Snapshot, NoFailure
  <2> QED BY <2>1, <2>2 DEF GoalsRest, Uncancelled
<1>6. ASSUME NEW res, NEW close, NEW r, FinishTask(t, res, close, r)
      PROVE  \A g \in Goal :
               /\ goal'[g].state # "cancel_requested"
               /\ \/ goal'[g].failure.task \in {goal[g].failure.task, NoTask}
                  \/ goal'[g].failure.task = t /\ GoalOf[t] = g /\ task'[t].status = "failed"
  <2>1. \A g \in Goal : g # GoalOf[t] => goal'[g] = goal[g] BY <1>1, <1>6 DEF FinishTask
  <2>2. goal'[GoalOf[t]].state = GoalAfterFinish(t, res, close)
    BY <1>1, <1>6 DEF FinishTask, Snapshot
  <2>3. GoalAfterFinish(t, res, close) \in {goal[GoalOf[t]].state, "completed", "failed"}
    BY DEF GoalAfterFinish
  <2>4. goal'[GoalOf[t]].failure = IF res = "need_human" THEN [kind |-> "need_human", task |-> t]
                                   ELSE goal[GoalOf[t]].failure
    BY <1>1, <1>6 DEF FinishTask, Snapshot
  <2>5. res = "need_human" => task'[t].status = "failed"
    BY <1>1, <1>6 DEF FinishTask, Outcome, TaskRow
  <2> QED BY <1>1, <2>1, <2>2, <2>3, <2>4, <2>5 DEF Uncancelled
<1>7. ASSUME NEW d \in Decision, OpenCheckpoint(d, t) PROVE GoalsRest
  BY <1>7 DEF OpenCheckpoint, GoalsRest, Uncancelled
<1> QED BY <1>2, <1>3, <1>4, <1>5, <1>6, <1>7

----------------------------------------------------------------------------
(* Every step is of one of these kinds.                                    *)

\* A step beside the store, the workers and the threads that start them.
LEMMA BesideRests ==
  ASSUME ParkedInv, UNCHANGED <<launch, runs, decision, applying>>, KeptAll, GoalsRest
  PROVE  Resting
<1>1. Asked BY AskedSame
<1>2. RunsRest /\ LaunchRest BY DEF RunsRest, LaunchRest, Live
<1> QED BY <1>1, <1>2 DEF Resting, Rests

\* A step of the workers alone.
LEMMA RunsRested ==
  ASSUME ParkedInv, Uncancelled, RunsRest, UNCHANGED <<durableVars, launch, applying>>
  PROVE  Resting
<1>1. Asked BY AskedSame DEF durableVars
<1>2. KeptAll /\ GoalsRest BY RestSame
<1>3. LaunchRest BY DEF LaunchRest
<1> QED BY <1>1, <1>2, <1>3 DEF Resting, Rests
LEMMA StopRests ==
  ASSUME runs \in [Run -> RunRow], NEW S, Stop(S)
  PROVE  RunsRest
  BY DEF Stop, RunsRest, RunRow, Live

\* A task moves that no open checkpoint is about.
LEMMA AskedElse ==
  ASSUME ParkedInv, Asked, NEW t \in Task, ~FreesSlot(t)
  PROVE  \A d \in Decision : Asks(d)' =>
           /\ Once(d)'
           /\ Asks(d) /\ decision'[d].task = decision[d].task /\ decision[d].task # t
  BY DEF ParkedInv, Asked

LEMMA MoveOp ==
  ASSUME TypeOK, Uncancelled, NEW t \in Task, Free(t), Bound(t), UNCHANGED <<launch, runs>>,
         \/ AddChildTask(t)
         \/ RequeueCheckpointTask(t) /\ task[t].status # "failed"
         \/ \E resume : RetryNeedHuman(GoalOf[t], t, resume)
         \/ \E res, close, r : /\ FinishTask(t, res, close, r) /\ task[t].status # "failed"
                               /\ r # NoRun => runs[r].task = t
         \/ \E d \in Decision : OpenCheckpoint(d, t) /\ task[t].status # "failed",
         \A d \in Decision : Asks(d)' =>
           /\ Once(d)'
           /\ \/ Asks(d) /\ decision'[d].task = decision[d].task /\ decision[d].task # t
              \/ decision'[d].task = t /\ FreesSlot(t)' /\ task'[t].parkedOn = d
  PROVE  Leaving(t)
<1>1. GoalOf[t] \in Goal BY GoalOfTask
<1>2. /\ Leaves(t) /\ task'[t].status # "cancel_requested"
      /\ task'[t].status = "awaiting_decision" => FreesSlot(t)'
  BY <1>1, MoveLeaves
<1>3. \A g \in Goal :
        /\ goal'[g].state # "cancel_requested"
        /\ \/ goal'[g].failure.task \in {goal[g].failure.task, NoTask}
           \/ goal'[g].failure.task = t /\ GoalOf[t] = g /\ task'[t].status = "failed"
  BY <1>1, MoveGoals
<1>4. ASSUME task[t].status = "failed" PROVE goal'[GoalOf[t]].failure.task # t
  <2>1. PICK resume : RetryNeedHuman(GoalOf[t], t, resume)
    BY <1>4 DEF AddChildTask, CanAddChildTask
  <2>2. goal'[GoalOf[t]].failure.task = NoTask
    BY <1>1, <2>1, Rows DEF RetryNeedHuman, NoFailure, TypeOK, Snapshot
  <2> QED BY <2>2, DurableAssumption
<1> QED BY <1>2, <1>3, <1>4 DEF Leaving

LEMMA ApiKinds ==
  ASSUME Guarded, NothingStrands, ApiNext
  PROVE  Resting \/ \E t \in Task : Leaving(t) /\ ~Runs(t)
<1>1. /\ TypeOK /\ RefInv /\ ParkedInv /\ FailedInv /\ WorkInv /\ Uncancelled /\ resuming = {}
      /\ runs \in [Run -> RunRow] /\ decision \in [Decision -> DecisionRow]
      /\ applying \in [Decision -> {"none", "record", "continue", "stop", "reconcile"}]
  BY DEF Guarded, GuardInv, Holds, RefInv, ControlOK, TypeOK, CalmInv, Uncancelled
<1>2. launch' = launch
  BY <1>1, ApiGoal, ApiTask, ApiDecision DEF ApiNext, Beside
<1>3. ASSUME UNCHANGED <<runs, durableVars>>, Asked PROVE Resting
  <2>1. KeptAll /\ GoalsRest BY <1>1, <1>3, RestSame
  <2>2. RunsRest /\ LaunchRest BY <1>2, <1>3 DEF RunsRest, LaunchRest, Live
  <2> QED BY <1>3, <2>1, <2>2 DEF Resting, Rests
<1>4. ASSUME NEW g \in Goal, ApiSubmit(g) \/ ApiCancel(g) \/ ApiStopRuns(g) \/ ApiEffect(g)
      PROVE  Resting
  <2>1. CASE ApiSubmit(g)
    <3>1. KeptAll /\ GoalsRest BY <1>1, <2>1, RestOps DEF ApiSubmit
    <3> QED BY <1>1, <1>2, <2>1, <3>1, BesideRests DEF ApiSubmit, Submit, apiVars, envVars
  <2>2. ~ApiCancel(g) BY DEF ApiCancel, NothingStrands
  <2>3. CASE ApiStopRuns(g)
    <3>1. RunsRest BY <1>1, <2>3, StopRests DEF ApiStopRuns
    <3> QED BY <1>1, <1>2, <2>3, <3>1, RunsRested DEF ApiStopRuns
  <2>4. CASE ApiEffect(g)
    <3>1. UNCHANGED durableVars
      BY <1>1, <2>4 DEF ApiEffect, EffectCancel, CanEffectCancel, Uncancelled
    <3>2. Asked BY <1>1, <2>4, <3>1, AskedSame DEF ApiEffect, durableVars
    <3> QED BY <1>3, <2>4, <3>1, <3>2 DEF ApiEffect, envVars
  <2> QED BY <1>4, <2>1, <2>2, <2>3, <2>4
<1>5. ASSUME NEW t \in Task, ApiRetry(t) PROVE Leaving(t) /\ ~Runs(t)
  <2>1. PICK resume : RetryNeedHuman(GoalOf[t], t, resume) BY <1>5 DEF ApiRetry
  <2>2. task[t].status = "failed"
    <3>1. t \in RetryTargets(GoalOf[t]) BY <2>1 DEF RetryNeedHuman, CanRetry
    <3> QED BY <1>1, <3>1, GoalOfTask DEF RetryTargets, FailedInv
  <2>3. Free(t) /\ Bound(t) BY <1>1, <2>2, NotRunningFree DEF Runs, WorkInv
  <2>4. UNCHANGED <<runs, applying, decision>>
    BY <1>5, <2>1 DEF ApiRetry, envVars, RetryNeedHuman
  <2>5. Asked BY <1>1, <2>4, AskedSame
  <2>6. ~FreesSlot(t) BY <2>2 DEF FreesSlot
  <2>7. \A d \in Decision : Asks(d)' =>
           /\ Once(d)'
           /\ Asks(d) /\ decision'[d].task = decision[d].task /\ decision[d].task # t
    BY <1>1, <2>5, <2>6, AskedElse
  <2> QED BY <1>1, <1>2, <2>1, <2>2, <2>3, <2>4, <2>7, MoveOp DEF Runs
<1>6. ASSUME NEW t \in Task PROVE ~ApiResume(t) BY <1>1 DEF ApiResume
<1>7. ASSUME NEW d \in Decision, ApiAnswer(d) PROVE Resting
  <2>1. RunsRest BY <1>1, <1>7 DEF ApiAnswer, RunsRest, RunRow, Live
  <2>2. \A e \in Decision : applying'[e] = applying[e] \/ applying'[e] = "record"
    BY <1>1, <1>7 DEF ApiAnswer
  <2>3. Asked BY <1>1, <1>7, <2>2, AskedSame DEF ApiAnswer, durableVars
  <2>4. KeptAll /\ GoalsRest BY <1>1, <1>7, RestSame DEF ApiAnswer
  <2>5. LaunchRest BY <1>2 DEF LaunchRest
  <2> QED BY <2>1, <2>3, <2>4, <2>5 DEF Resting, Rests
<1>8. ASSUME NEW d \in Decision, NEW a, NEW v, v # "grant", ResolveDecision(d, a, 0, v, {}),
             UNCHANGED runs, Asked
      PROVE  Resting
  <2>1. KeptAll /\ GoalsRest BY <1>1, <1>8, RestOps
  <2>2. RunsRest /\ LaunchRest BY <1>2, <1>8 DEF RunsRest, LaunchRest, Live
  <2> QED BY <1>8, <2>1, <2>2 DEF Resting, Rests
<1>9. ASSUME NEW d \in Decision, NEW a, NEW v, ResolveDecision(d, a, 0, v, {})
      PROVE  /\ decision'[d].status = "resolved" /\ decision'[d].task = decision[d].task
             /\ decision'[d].kind = decision[d].kind /\ decision[d].status = "pending"
             /\ v \in Verdicts[decision[d].kind]
             /\ \A e \in Decision : e # d => decision'[e] = decision[e]
  BY <1>1, <1>9 DEF ResolveDecision, CanResolve, DecisionRow
<1>10. ASSUME NEW d \in Decision, ApiRecord(d) PROVE Resting
  <2>1. PICK a, v : v \in {"allow", "deny"} /\ ResolveDecision(d, a, 0, v, {})
    BY <1>10 DEF ApiRecord, Verdicts
  <2>2. Asked
    <3>1. \A e \in Decision : applying'[e] = applying[e] \/ applying'[e] = "none"
      BY <1>1, <1>10 DEF ApiRecord
    <3>2. \A e \in Decision : \/ decision'[e] = decision[e]
                              \/ /\ decision'[e].status # "pending"
                                 /\ decision'[e].task = decision[e].task
                                 /\ decision'[e].kind = decision[e].kind
      BY <1>9, <2>1
    <3> QED BY <1>1, <3>1, <3>2, AskedSame
  <2> QED BY <1>8, <1>10, <2>1, <2>2 DEF ApiRecord, envVars
<1>11. ASSUME NEW d \in Decision, ApiCheckpoint(d) PROVE Resting
  <2>1. PICK a, v : /\ v \in {"continue", "stop"} /\ ResolveDecision(d, a, 0, v, {})
                    /\ applying' = [applying EXCEPT ![d] = v]
    BY <1>11 DEF ApiCheckpoint, Verdicts
  <2>2. Asked
    <3> SUFFICES ASSUME NEW e \in Decision, Asks(e)'
                 PROVE  Once(e)' /\ Asks(e) /\ decision'[e].task = decision[e].task
      BY DEF Asked
    <3>1. CASE e = d
      <4>1. decision[d].kind = "checkpoint" BY <1>11 DEF ApiCheckpoint
      <4> QED BY <1>9, <2>1, <3>1, <4>1 DEF Once, Asks
    <3>2. CASE e # d
      <4>1. decision'[e] = decision[e] /\ applying'[e] = applying[e] BY <1>1, <1>9, <2>1, <3>2
      <4>2. Asks(e) BY <4>1 DEF Asks
      <4>3. Once(e) BY <1>1, <4>2 DEF ParkedInv
      <4> QED BY <4>1, <4>2, <4>3 DEF Once
    <3> QED BY <3>1, <3>2
  <2> QED BY <1>8, <1>11, <2>1, <2>2 DEF ApiCheckpoint, envVars
<1>12. ASSUME NEW d \in Decision, applying[d] \in {"continue", "stop"}, decision' = decision,
              applying'[d] \in {"none", "reconcile"},
              \A e \in Decision : e # d => applying'[e] = applying[e]
       PROVE  \E t \in Task :
                /\ t = decision[d].task /\ task[t].status = "awaiting_decision"
                /\ Free(t) /\ Bound(t)
                /\ \A e \in Decision : Asks(e)' =>
                     /\ Once(e)'
                     /\ Asks(e) /\ decision'[e].task = decision[e].task /\ decision[e].task # t
  <2>1. decision[d].kind = "checkpoint" /\ decision[d].task \in Task
    BY <1>1, <1>12 DEF RefInv, ApplyInv
  <2>2. PICK t \in Task : t = decision[d].task BY <2>1
  <2>3. Asks(d) BY <1>12, <2>1 DEF Asks
  <2>4. FreesSlot(t) /\ task[t].parkedOn = d /\ Once(d) BY <1>1, <2>2, <2>3 DEF ParkedInv
  <2>5. task[t].status = "awaiting_decision" /\ Free(t) /\ Bound(t)
    BY <1>1, <2>4, NotRunningFree DEF FreesSlot, Runs, WorkInv
  <2>6. ASSUME NEW e \in Decision, Asks(e)'
        PROVE  Once(e)' /\ Asks(e) /\ decision[e].task # t
    <3>1. e # d BY <1>12, <2>4, <2>6 DEF Asks, Once
    <3>2. Asks(e) /\ applying'[e] = applying[e] BY <1>12, <2>6, <3>1 DEF Asks
    <3>3. Once(e) /\ task[decision[e].task].parkedOn = e BY <1>1, <3>2 DEF ParkedInv
    <3> QED BY <1>12, <2>4, <3>1, <3>2, <3>3 DEF Once
  <2> QED BY <1>12, <2>2, <2>5, <2>6
<1>13. ASSUME NEW d \in Decision, applying' = [applying EXCEPT ![d] = "none"] \/
                                  applying' = [applying EXCEPT ![d] = "reconcile"]
       PROVE  /\ applying'[d] \in {"none", "reconcile"}
              /\ \A e \in Decision : e # d => applying'[e] = applying[e]
  BY <1>1, <1>13
<1>14. ASSUME NEW d \in Decision, ApiContinue(d) PROVE Resting \/ \E t \in Task : Leaving(t) /\ ~Runs(t)
  <2>1. CASE UNCHANGED durableVars
    <3>1. Asked BY <1>1, <1>13, <1>14, <2>1, AskedSame DEF ApiContinue, durableVars
    <3> QED BY <1>3, <1>14, <2>1, <3>1 DEF ApiContinue, envVars
  <2>2. CASE RequeueCheckpointTask(decision[d].task)
    <3>1. decision' = decision /\ runs' = runs
      BY <1>14, <2>2 DEF ApiContinue, RequeueCheckpointTask, envVars
    <3>2. PICK t \in Task :
             /\ t = decision[d].task /\ task[t].status = "awaiting_decision"
             /\ Free(t) /\ Bound(t)
             /\ \A e \in Decision : Asks(e)' =>
                  /\ Once(e)'
                  /\ Asks(e) /\ decision'[e].task = decision[e].task /\ decision[e].task # t
      BY <1>12, <1>13, <1>14, <3>1 DEF ApiContinue
    <3> QED BY <1>1, <1>2, <2>2, <3>1, <3>2, MoveOp DEF Runs
  <2> QED BY <1>14, <2>1, <2>2 DEF ApiContinue
<1>15. ASSUME NEW d \in Decision, ApiStop(d) PROVE Resting \/ \E t \in Task : Leaving(t) /\ ~Runs(t)
  <2>1. CASE UNCHANGED durableVars
    <3>1. Asked BY <1>1, <1>13, <1>15, <2>1, AskedSame DEF ApiStop, durableVars
    <3> QED BY <1>3, <1>15, <2>1, <3>1 DEF ApiStop, envVars
  <2>2. ASSUME NEW res, FinishTask(decision[d].task, res, FALSE, task[decision[d].task].run)
        PROVE  \E t \in Task : Leaving(t) /\ ~Runs(t)
    <3>1. decision' = decision /\ runs' = runs BY <1>15, <2>2 DEF ApiStop, FinishTask, envVars
    <3>2. PICK t \in Task :
             /\ t = decision[d].task /\ task[t].status = "awaiting_decision"
             /\ Free(t) /\ Bound(t)
             /\ \A e \in Decision : Asks(e)' =>
                  /\ Once(e)'
                  /\ Asks(e) /\ decision'[e].task = decision[e].task /\ decision[e].task # t
      BY <1>12, <1>13, <1>15, <3>1 DEF ApiStop
    <3>3. FinishTask(t, res, FALSE, task[t].run) BY <2>2, <3>2
    <3>4. task[t].run # NoRun => runs[task[t].run].task = t BY <3>2 DEF Bound
    <3> QED BY <1>1, <1>2, <3>1, <3>2, <3>3, <3>4, MoveOp DEF Runs
  <2> QED BY <1>15, <2>1, <2>2 DEF ApiStop
<1>16. ASSUME NEW d \in Decision, ApiReconcile(d) PROVE Resting
  <2>1. decision[d].goal \in Goal BY <1>1, <1>16 DEF ApiReconcile, RefInv, ApplyInv
  <2>2. KeptAll /\ GoalsRest BY <1>1, <1>16, <2>1, RestOps DEF ApiReconcile
  <2>3. Asked BY <1>1, <1>13, <1>16, AskedSame DEF ApiReconcile, ReconcileGoalProgress
  <2>4. RunsRest /\ LaunchRest BY <1>2, <1>16 DEF RunsRest, LaunchRest, Live, ApiReconcile, envVars
  <2> QED BY <2>2, <2>3, <2>4 DEF Resting, Rests
<1> QED BY <1>4, <1>5, <1>6, <1>7, <1>10, <1>11, <1>14, <1>15, <1>16 DEF ApiNext

\* A thread takes the task that the tick has chosen, and a thread binds its run.
Takes(k) ==
  /\ tick.pc = "claim" /\ Unclaimed(k) /\ ClaimTaskDispatch(tick.task, k) /\ runs' = runs
  /\ \/ launch' = [launch EXCEPT ![k] = [st |-> "starting", task |-> tick.task, run |-> NoRun,
                                         skipped |-> tick.todo]]
     \/ launch' = launch
Binds(k) == /\ launch[k].st = "started" /\ BindTaskRun(launch[k].task, launch[k].run)
            /\ launch' = [launch EXCEPT ![k] = NoLaunch] /\ runs' = runs

LEMMA TickKinds ==
  ASSUME Guarded, NothingStrands, TickNext
  PROVE  \/ Resting
         \/ \E t \in Task : Leaving(t)
         \/ \E k \in Claim : Takes(k) \/ Starts(k) \/ Binds(k)
<1>1. /\ TypeOK /\ RefInv /\ ParkedInv /\ WorkInv /\ ChosenInv /\ Uncancelled /\ LaunchInv
      /\ runs \in [Run -> RunRow] /\ decision \in [Decision -> DecisionRow]
      /\ launch \in [Claim -> LaunchRow] /\ \A k \in Claim : launch[k] \in LaunchRow
      /\ tick.pc # "budget" /\ tick.todo \subseteq Task
  BY HeldTasks DEF Guarded, GuardInv, Holds, RefInv, ControlOK, TypeOK, CalmInv, Uncancelled
<1>2. applying' = applying BY <1>1, TickAll DEF Goes, apiVars
<1>3. ASSUME UNCHANGED <<durableVars, runs, launch>> PROVE Resting
  BY <1>1, <1>2, <1>3, RestSame, BesideRests DEF durableVars
<1>4. ASSUME UNCHANGED <<decision, runs, launch>>, KeptAll, GoalsRest PROVE Resting
  BY <1>1, <1>2, <1>4, BesideRests
<1>5. ASSUME UNCHANGED <<durableVars, launch>>, NEW S, Stop(S) PROVE Resting
  BY <1>1, <1>2, <1>5, StopRests, RunsRested
\* Of a task that nobody works for and no open checkpoint is about.
<1>6. ASSUME NEW t \in Task, Free(t), ~FreesSlot(t), UNCHANGED <<decision, launch, runs>>,
             \/ AddChildTask(t)
             \/ \E res, close, r : /\ FinishTask(t, res, close, r) /\ task[t].status # "failed"
                                   /\ r # NoRun => runs[r].task = t
      PROVE  Leaving(t)
  <2>1. Asked BY <1>1, <1>2, <1>6, AskedSame
  <2>2. \A d \in Decision : Asks(d)' =>
           /\ Once(d)'
           /\ Asks(d) /\ decision'[d].task = decision[d].task /\ decision[d].task # t
    BY <1>1, <1>6, <2>1, AskedElse
  <2>3. Bound(t) BY <1>1 DEF WorkInv
  <2> QED BY <1>1, <1>6, <2>2, <2>3, MoveOp
<1>7. ASSUME NEW g \in Goal, TickBegins(g) PROVE Resting
  <2>1. ~TickCancel(g) BY <1>1 DEF TickCancel, Uncancelled
  <2>2. FailGoal(g) => KeptAll /\ GoalsRest /\ decision' = decision
    BY <1>1, RestOps DEF FailGoal
  <2> QED BY <1>3, <1>4, <1>7, <2>1, <2>2
          DEF TickBegins, TickTerminated, TickPlan, TickPlanned, TickAdvance, envVars
<1>8. CASE TickEffect
  <2>1. tick.goal \in Goal BY <1>8, HeldTasks DEF TickEffect, Guarded
  <2> QED BY <1>1, <1>3, <1>8, <2>1
          DEF TickEffect, EffectCancel, CanEffectCancel, Uncancelled, envVars
<1>9. CASE Admit
  <2>1. ASSUME NEW t \in tick.todo, AddChildTask(t) PROVE Leaving(t)
    <3>1. t \in Task /\ task[t].status = "absent"
      BY <1>1, <2>1 DEF AddChildTask, CanAddChildTask
    <3>2. Free(t) /\ ~FreesSlot(t) BY <1>1, <3>1, NotRunningFree DEF Runs, FreesSlot
    <3> QED BY <1>6, <1>9, <2>1, <3>1, <3>2 DEF Admit, AddChildTask, envVars
  <2> QED BY <1>1, <1>3, <1>9, <2>1 DEF Admit, envVars
<1>10. ASSUME NEW t, NEW r, Collect(t, r) \/ Stall(t, r), launch' = launch PROVE Resting
  BY <1>3, <1>5, <1>10 DEF Collect, Stall
<1>11. CASE Observe
  <2>1. ASSUME NEW t \in tick.todo, ObserveRequest(t) PROVE Resting
    <3>1. PICK d \in Decision : OpenDecision(d, "approval", GoalOf[t], t)
      BY <2>1 DEF ObserveRequest
    <3>2. t \in Task /\ GoalOf[t] \in Goal BY <1>1, GoalOfTask
    <3>3. KeptAll /\ GoalsRest BY <1>1, <3>1, <3>2, RestOps
    <3>4. \A e \in Decision : decision'[e] = decision[e] \/ decision'[e].kind # "checkpoint"
      BY <1>1, <3>1 DEF OpenDecision, Open, Unopened
    <3>5. Asked BY <1>1, <1>2, <3>4, AskedSame
    <3>6. RunsRest /\ LaunchRest
      BY <1>11, <2>1 DEF Observe, ObserveRequest, RunsRest, LaunchRest, Live
    <3> QED BY <3>3, <3>5, <3>6 DEF Resting, Rests
  <2>2. ASSUME NEW t \in tick.todo, ObserveRun(t) PROVE Resting
    BY <1>10, <1>11, <2>2 DEF Observe, ObserveRun
  <2> QED BY <1>3, <1>11, <2>1, <2>2 DEF Observe, ObserveNothing, ObserveAbandoned
<1>12. CASE ObserveFresh BY <1>3, <1>10, <1>12 DEF ObserveFresh
<1>13. CASE Finish
  <2>1. PICK t \in Task : /\ t = tick.task /\ Runs(t) /\ Free(t)
                          /\ tick.run # NoRun => runs[tick.run].task = t
    BY <1>1, <1>13, HeldTasks DEF Finish, ChosenInv, Guarded
  <2>2. ASSUME FinishTask(t, tick.out, FALSE, tick.run) PROVE Leaving(t)
    BY <1>6, <1>13, <2>1, <2>2 DEF Finish, FinishTask, Runs, FreesSlot, envVars
  <2> QED BY <1>3, <1>13, <2>1, <2>2 DEF Finish, envVars
<1>14. CASE Reconcile
  <2>1. tick.goal \in Goal BY <1>14, HeldTasks DEF Reconcile, Guarded
  <2>2. ASSUME ReconcileGoalProgress(tick.goal) PROVE KeptAll /\ GoalsRest /\ decision' = decision
    BY <1>1, <2>1, <2>2, RestOps DEF ReconcileGoalProgress
  <2> QED BY <1>3, <1>4, <1>14, <2>2 DEF Reconcile, envVars
<1>15. CASE Park
  <2>1. PICK t \in Task : t = tick.task /\ Runs(t) /\ Free(t)
    BY <1>1, <1>15, HeldTasks DEF Park, ChosenInv, Guarded
  <2>2. ASSUME NEW d \in Decision, OpenCheckpoint(d, t) PROVE Leaving(t)
    <3>1. UNCHANGED <<launch, runs>> BY <1>15 DEF Park, envVars
    <3>2. \A e \in Decision : e # d => decision'[e] = decision[e]
      BY <1>1, <2>2 DEF OpenCheckpoint, Open
    <3>3. decision'[d].task = t BY <1>1, <2>2 DEF OpenCheckpoint, Open, Unopened
    <3>4. applying[d] \notin {"continue", "stop"}
      BY <1>1, <2>2 DEF OpenCheckpoint, RefInv, ApplyInv
    <3>5. FreesSlot(t)' /\ task'[t].parkedOn = d
      BY <1>1, <2>2, Rows, DurableAssumption DEF OpenCheckpoint, FreesSlot, TypeOK, TaskRow
    <3>6. ASSUME NEW e \in Decision, Asks(e)'
          PROVE  /\ Once(e)'
                 /\ \/ Asks(e) /\ decision'[e].task = decision[e].task /\ decision[e].task # t
                    \/ decision'[e].task = t /\ FreesSlot(t)' /\ task'[t].parkedOn = e
      <4>1. CASE e = d BY <1>2, <3>3, <3>4, <3>5, <4>1 DEF Once
      <4>2. CASE e # d
        <5>1. Asks(e) BY <1>2, <3>2, <3>6, <4>2 DEF Asks
        <5>2. Once(e) /\ FreesSlot(decision[e].task) BY <1>1, <5>1 DEF ParkedInv
        <5> QED BY <1>2, <2>1, <3>2, <4>2, <5>1, <5>2 DEF Once, FreesSlot, Runs
      <4> QED BY <4>1, <4>2
    <3> QED BY <1>1, <2>1, <2>2, <3>1, <3>6, MoveOp DEF WorkInv, Runs
  <2> QED BY <1>3, <1>15, <2>1, <2>2 DEF Park, envVars
<1>16. CASE Dispatch BY <1>3, <1>16 DEF Dispatch, envVars
<1>17. ASSUME NEW k \in Claim, DispatchOne(k) PROVE Resting \/ Takes(k)
  BY <1>3, <1>17 DEF DispatchOne, Takes, envVars
<1>18. CASE Stamp
  <2>1. tick.task \in Task BY <1>18, HeldTasks DEF Stamp, Guarded
  <2>2. ASSUME MarkRunStarted(tick.task) PROVE KeptAll /\ GoalsRest /\ decision' = decision
    BY <1>1, <2>1, <2>2, RestOps DEF MarkRunStarted
  <2> QED BY <1>3, <1>4, <1>18, <2>2 DEF Stamp, envVars
<1>19. ~BudgetGoal /\ \A t \in Task : ~BudgetTask(t) BY <1>1 DEF BudgetGoal, BudgetTask
<1>20. ASSUME NEW k \in Claim, UNCHANGED <<durableVars, runs>>, launch[k].st # "started",
              launch[k].st # "none", NEW x, x.st # "started", launch' = [launch EXCEPT ![k] = x],
              x.st # "none" => x.task = launch[k].task /\ x.run = launch[k].run
       PROVE  Resting
  <2>1. LaunchRest BY <1>1, <1>20 DEF LaunchRest
  <2>2. KeptAll /\ GoalsRest BY <1>1, <1>20, RestSame
  <2>3. Asked BY <1>1, <1>2, <1>20, AskedSame DEF durableVars
  <2>4. RunsRest BY <1>20 DEF RunsRest, Live
  <2> QED BY <2>1, <2>2, <2>3, <2>4 DEF Resting, Rests
<1>21. ASSUME NEW k \in Claim, StartRun(k) PROVE Resting \/ Starts(k)
  <2>1. ASSUME launch' = [launch EXCEPT ![k].st = "failed"], UNCHANGED runs PROVE Resting
    <3> DEFINE x == [launch[k] EXCEPT !.st = "failed"]
    <3>1. launch' = [launch EXCEPT ![k] = x] BY <2>1
    <3>2. x.st = "failed" /\ x.task = launch[k].task /\ x.run = launch[k].run
      BY <1>1 DEF LaunchRow
    <3> HIDE DEF x
    <3> QED BY <1>20, <1>21, <2>1, <3>1, <3>2 DEF StartRun
  <2> QED BY <1>21, <2>1 DEF StartRun, Starts
<1>22. ASSUME NEW k \in Claim, StartFailed(k) PROVE Resting
  BY <1>20, <1>22 DEF StartFailed, NoLaunch, envVars
<1>23. ASSUME NEW k \in Claim, Bind(k) PROVE Binds(k)
  <2>1. HeldBy(k) /\ launch[k].st = "started" BY <1>1, <1>23 DEF Bind, WorkInv
  <2>2. CanBind(launch[k].task, launch[k].run) BY <2>1 DEF HeldBy, CanBind, Runs
  <2> QED BY <1>23, <2>2 DEF Bind, Binds, envVars
<1> QED BY <1>7, <1>8, <1>9, <1>11, <1>12, <1>13, <1>14, <1>15, <1>16, <1>17, <1>18, <1>19,
           <1>21, <1>22, <1>23
        DEF TickNext, TickContinues, LaunchNext

LEMMA EnvKinds ==
  ASSUME Guarded, NothingStrands, EnvNext
  PROVE  Resting \/ Crash
<1>1. /\ ParkedInv /\ Uncancelled /\ runs \in [Run -> RunRow]
  BY DEF Guarded, GuardInv, Holds, RefInv, ControlOK, CalmInv, Uncancelled
<1>2. ASSUME NEW g \in Goal, PlannerReturns(g) PROVE Resting
  <2>1. RunsRest BY <1>2 DEF PlannerReturns, envVars, RunsRest, Live
  <2> QED BY <1>1, <1>2, <2>1, RunsRested DEF PlannerReturns, apiVars
<1>3. ASSUME NEW g \in Goal PROVE ~WallExpires(g) BY DEF WallExpires, NothingStrands
<1>4. ASSUME NEW r \in Run, RunExits(r) \/ RunAsks(r) PROVE Resting
  <2>1. RunsRest BY <1>1, <1>4 DEF RunExits, RunAsks, RunsRest, RunRow, Live
  <2> QED BY <1>1, <1>4, <2>1, RunsRested DEF RunExits, RunAsks, coordVars, apiVars
<1> QED BY <1>2, <1>3, <1>4 DEF EnvNext

----------------------------------------------------------------------------
(* Each kind keeps what stands.                                            *)

\* The goals when a task of theirs starts, or when none is touched.
LEMMA UnaskedStart ==
  ASSUME TypeOK, Uncancelled, NEW h \in Goal, UNCHANGED <<decision, applying>>,
         goal' = goal \/ goal' = [goal EXCEPT ![h].state = Started(@)],
         \A u \in Task : \/ Kept(u)
                         \/ task[u].status \in {"queued", "running"} /\ task'[u].status = "running"
  PROVE  Unasked
  BY RestStarted DEF Unasked

LEMMA TakeStands ==
  ASSUME Guarded, NEW k \in Claim, Takes(k), applying' = applying
  PROVE  StandInv' /\ GoalsRest
<1>1. /\ TypeOK /\ RefInv /\ Uncancelled /\ ParkedInv /\ FailedInv /\ WorkInv /\ SlotInv /\ ChosenInv
      /\ task \in [Task -> TaskRow] /\ \A u \in Task : task[u] \in TaskRow
  BY HeldTasks, Rows DEF Guarded, GuardInv, Holds, TypeOK, CalmInv, Uncancelled
<1>2. PICK t \in Task : t = tick.task /\ GoalOf[t] = tick.goal /\ GoalOf[t] \in Goal
  BY HeldTasks, GoalOfTask DEF Takes, Guarded
<1>3. ClaimTaskDispatch(t, k) BY <1>2 DEF Takes
<1>4. /\ task[t].status = "queued" /\ task'[t].status = "running"
      /\ \A u \in Task : u # t => task'[u] = task[u]
  BY <1>1, <1>3 DEF ClaimTaskDispatch, CanClaimDispatch, TaskRow
<1>5. WorkInv' BY <1>1, <1>2, <1>3, ClaimWorks DEF Takes, Unclaimed
<1>6. Unasked
  <2>1. \A u \in Task : \/ Kept(u)
                        \/ task[u].status \in {"queued", "running"} /\ task'[u].status = "running"
    BY <1>4 DEF Kept
  <2> QED BY <1>1, <1>2, <1>3, <2>1, UnaskedStart DEF ClaimTaskDispatch
<1>7. ParkedInv' /\ FailedInv' BY <1>1, <1>6, UnaskedStands
<1>8. RunningAll' = RunningAll \cup {t} BY <1>4 DEF RunningAll, Runs
<1>9. t \notin RunningAll BY <1>4 DEF RunningAll, Runs
<1>10. /\ \A u \in RunningAll : Dir[u] # Dir[t]
       /\ Cardinality(RunningAll) < Global /\ Cardinality(RunningIn(GoalOf[t])) < PerGoal
       /\ IsFiniteSet(RunningAll)
  BY <1>1, <1>2 DEF ChosenInv, Takes, SlotInv
<1>11. \A u, v \in RunningAll' : Dir[u] = Dir[v] => u = v BY <1>1, <1>8, <1>10 DEF SlotInv
<1>12. IsFiniteSet(RunningAll') /\ Cardinality(RunningAll') <= Global
  <2>1. /\ IsFiniteSet(RunningAll') /\ Cardinality(RunningAll') = Cardinality(RunningAll) + 1
        /\ Cardinality(RunningAll) \in Nat
    BY <1>8, <1>9, <1>10, FS_AddElement, FS_CardinalityType
  <2> QED BY <1>10, <2>1, CoordinatorAssumption
<1>13. ASSUME NEW g \in Goal PROVE Cardinality(RunningIn(g)') <= PerGoal
  <2>1. CASE g = GoalOf[t]
    <3>1. RunningIn(g)' = RunningIn(g) \cup {t} /\ t \notin RunningIn(g)
      BY <1>4, <2>1 DEF RunningIn, Runs
    <3>2. IsFiniteSet(RunningIn(g))
      <4>1. RunningIn(g) \in SUBSET RunningAll BY DEF RunningIn, RunningAll
      <4> QED BY <1>10, <4>1, FS_Subset
    <3>3. Cardinality(RunningIn(g)') = Cardinality(RunningIn(g)) + 1 /\ Cardinality(RunningIn(g)) \in Nat
      BY <3>1, <3>2, FS_AddElement, FS_CardinalityType
    <3> QED BY <1>10, <2>1, <3>3, CoordinatorAssumption
  <2>2. CASE g # GoalOf[t]
    <3>1. RunningIn(g)' = RunningIn(g) BY <1>4, <2>2 DEF RunningIn, Runs
    <3> QED BY <1>1, <3>1 DEF SlotInv
  <2> QED BY <2>1, <2>2
<1>14. SlotInv' BY <1>11, <1>12, <1>13 DEF SlotInv
<1> QED BY <1>5, <1>6, <1>7, <1>14 DEF StandInv, Unasked

LEMMA StartStands ==
  ASSUME Guarded, NEW k \in Claim, Starts(k) \/ Binds(k), applying' = applying
  PROVE  StandInv' /\ Shrinks /\ GoalsRest
<1>1. /\ TypeOK /\ RefInv /\ RunInv /\ Uncancelled /\ ParkedInv /\ FailedInv /\ WorkInv /\ SlotInv
      /\ LaunchInv /\ task \in [Task -> TaskRow] /\ \A u \in Task : task[u] \in TaskRow
  BY Rows DEF Guarded, GuardInv, Holds, RefInv, TypeOK, CalmInv, Uncancelled
<1>2. launch[k].task \in Task BY <1>1 DEF Starts, Binds, LaunchInv
<1>3. PICK t \in Task : t = launch[k].task /\ GoalOf[t] \in Goal BY <1>2, GoalOfTask
<1>4. CASE Starts(k)
  <2>1. UNCHANGED durableVars BY <1>4 DEF Starts
  <2>2. \A u \in Task : Kept(u) BY <2>1 DEF durableVars, Kept
  <2>3. Unasked BY <1>1, <1>3, <2>1, <2>2, UnaskedStart DEF durableVars
  <2>4. WorkInv' BY <1>1, <1>4, StartWorks
  <2>5. Shrinks BY <2>2 DEF Shrinks, Runs, Kept
  <2> QED BY <1>1, <2>3, <2>4, <2>5, UnaskedStands, SlotsShrink DEF StandInv, Unasked
<1>5. CASE Binds(k)
  <2>1. WorkInv' /\ task'[t].status = "running" BY <1>1, <1>3, <1>5, BindWorks DEF Binds
  <2>2. Runs(t) BY <1>1, <1>3, <1>5 DEF WorkInv, HeldBy, Binds
  <2>3. BindTaskRun(t, launch[k].run) BY <1>3, <1>5 DEF Binds
  <2>4. \A u \in Task : u # t => task'[u] = task[u] BY <1>1, <2>3 DEF BindTaskRun
  <2>5. \A u \in Task : \/ Kept(u)
                        \/ task[u].status \in {"queued", "running"} /\ task'[u].status = "running"
    BY <2>1, <2>2, <2>4 DEF Kept, Runs
  <2>6. Unasked BY <1>1, <1>3, <2>3, <2>5, UnaskedStart DEF BindTaskRun
  <2>7. Shrinks BY <2>2, <2>4 DEF Shrinks, Runs
  <2> QED BY <1>1, <2>1, <2>6, <2>7, UnaskedStands, SlotsShrink DEF StandInv, Unasked
<1> QED BY <1>4, <1>5

LEMMA CrashStands ==
  ASSUME Guarded, NothingStrands, Crash
  PROVE  StandInv' /\ GoalsRest
<1>1. /\ TypeOK /\ RefInv /\ Uncancelled /\ ParkedInv /\ FailedInv /\ WorkInv /\ SlotInv
  BY DEF Guarded, GuardInv, Holds, RefInv, CalmInv, Uncancelled
<1>2. KeptAll /\ GoalsRest BY <1>1, RestSame DEF Crash
<1>3. Unasked BY <1>2 DEF Unasked, KeptAll, Crash, durableVars
<1>4. Shrinks BY <1>2 DEF Shrinks, KeptAll, Kept, Runs
<1>5. WorkInv' BY <1>1, CrashWorks
<1> QED BY <1>1, <1>2, <1>3, <1>4, <1>5, UnaskedStands, SlotsShrink DEF StandInv

LEMMA StandStep ==
  ASSUME Guarded, NothingStrands, [CoordNext]_vars
  PROVE  StandInv' /\ \A g \in Goal : goal'[g].state # "cancel_requested"
<1>1. RefInv /\ StandInv /\ ParkedInv /\ Uncancelled
  BY DEF Guarded, GuardInv, Holds, StandInv, CalmInv, Uncancelled
<1>2. CASE Resting BY <1>1, <1>2, RestStands DEF Resting, GoalsRest
<1>3. ASSUME NEW t \in Task, Leaving(t) PROVE StandInv' /\ Uncancelled'
  BY <1>1, <1>3, LeaveStands DEF Leaving, Uncancelled
<1>4. CASE ApiNext BY <1>2, <1>3, <1>4, ApiKinds DEF Uncancelled
<1>5. CASE TickNext
  <2>1. applying' = applying BY <1>1, <1>5, TickAll DEF Goes, apiVars
  <2>2. ASSUME NEW k \in Claim, Takes(k) \/ Starts(k) \/ Binds(k)
        PROVE  StandInv' /\ Uncancelled'
    BY <2>1, <2>2, TakeStands, StartStands DEF GoalsRest, Uncancelled
  <2> QED BY <1>2, <1>3, <1>5, <2>2, TickKinds DEF Uncancelled
<1>6. CASE EnvNext BY <1>2, <1>6, EnvKinds, CrashStands DEF GoalsRest
<1>7. CASE UNCHANGED vars
  <2>1. KeptAll /\ GoalsRest BY <1>1, <1>7, RestSame DEF vars
  <2>2. Resting
    BY <1>1, <1>7, <2>1, BesideRests DEF vars, durableVars, coordVars, apiVars, envVars
  <2> QED BY <1>2, <2>2
<1> QED BY <1>4, <1>5, <1>6, <1>7 DEF CoordNext

----------------------------------------------------------------------------
(* What the tick has chosen, step by step.                                 *)

Neutral == {"idle", "stop", "effect", "admit", "observe", "dispatch", "reconcile"}
Unchosen == tick'.pc \in Neutral
LEMMA UnchosenHolds == Unchosen => ChosenInv' /\ tick'.pc # "budget"
  BY DEF Unchosen, Neutral, ChosenInv

\* While others work, the choice stands.
LEMMA ChosenStays ==
  ASSUME Holds, ChosenInv, SlotInv, Shrinks, tick' = tick,
         \A u \in Task : (Runs(u) => Kept(u)) /\ (Free(u) => Free(u)'),
         \A r \in Run : runs[r].task \in Task => runs'[r].task = runs[r].task
  PROVE  ChosenInv'
<1>1. /\ tick.pc # "idle" => tick.goal \in Goal
      /\ tick.pc \in {"claim", "stamp", "fresh", "finish", "park"} => tick.task \in Task
      /\ tick.run \in Run \cup {NoRun}
  BY HeldTasks DEF Holds, RefInv, ControlOK, TickRow
<1>2. ASSUME tick.pc = "claim"
      PROVE  /\ \A u \in RunningAll' : Dir[u] # Dir[tick.task]
             /\ Cardinality(RunningAll') < Global
             /\ Cardinality(RunningIn(tick.goal)') < PerGoal
  <2>1. RunningAll' \in SUBSET RunningAll BY DEF RunningAll, Shrinks
  <2>2. PICK g \in Goal : g = tick.goal BY <1>1, <1>2
  <2>3. RunningIn(g)' \in SUBSET RunningIn(g) /\ RunningIn(g) \in SUBSET RunningAll
    BY DEF RunningIn, RunningAll, Shrinks
  <2>4. IsFiniteSet(RunningAll) /\ IsFiniteSet(RunningIn(g)) BY <2>3, FS_Subset DEF SlotInv
  <2>5. /\ Cardinality(RunningAll') <= Cardinality(RunningAll)
        /\ Cardinality(RunningIn(g)') <= Cardinality(RunningIn(g))
        /\ {Cardinality(RunningAll), Cardinality(RunningAll'), Cardinality(RunningIn(g)),
            Cardinality(RunningIn(g)')} \subseteq Nat
    BY <2>1, <2>3, <2>4, FS_Subset, FS_CardinalityType
  <2>6. /\ \A u \in RunningAll : Dir[u] # Dir[tick.task]
        /\ Cardinality(RunningAll) < Global /\ Cardinality(RunningIn(g)) < PerGoal
    BY <1>2, <2>2 DEF ChosenInv
  <2>7. Cardinality(RunningAll') < Global /\ Cardinality(RunningIn(g)') < PerGoal
    BY <2>5, <2>6, CoordinatorAssumption
  <2> QED BY <2>1, <2>2, <2>6, <2>7
<1>3. ASSUME tick.pc \in {"stamp", "fresh"}
      PROVE  Runs(tick.task)' /\ task'[tick.task].run = tick.run /\ tick.run # NoRun
  BY <1>1, <1>3 DEF ChosenInv, Kept, Runs
<1>4. ASSUME tick.pc \in {"finish", "park"}
      PROVE  /\ Runs(tick.task)' /\ Free(tick.task)'
             /\ tick.run # NoRun => runs'[tick.run].task = tick.task
  <2>1. PICK t \in Task : t = tick.task BY <1>1, <1>4
  <2>2. Runs(t) /\ Free(t) /\ (tick.run # NoRun => runs[tick.run].task = t)
    BY <1>4, <2>1 DEF ChosenInv
  <2>3. Runs(t)' BY <2>2 DEF Runs, Kept
  <2>4. Free(t)' BY <2>2
  <2> QED BY <1>1, <2>1, <2>2, <2>3, <2>4
<1> QED BY <1>2, <1>3, <1>4 DEF ChosenInv

\* A task to settle or to park.
LEMMA ChosenSettles ==
  ASSUME tick'.pc \in {"finish", "park"}, NEW t \in Task, tick'.task = t, Runs(t)', Free(t)',
         tick'.run # NoRun => runs'[tick'.run].task = t
  PROVE  ChosenInv' /\ tick'.pc # "budget"
<1>1. Runs(tick.task)' /\ Free(tick.task)' BY DEF Runs, Free
<1> QED BY <1>1 DEF ChosenInv

\* An observed run that works no longer.
LEMMA CollectChosen ==
  ASSUME Guarded, NothingStrands, NEW t \in Task, NEW r \in Run, Runs(t), task[t].run = r,
         Collect(t, r) \/ Stall(t, r), launch' = launch
  PROVE  ChosenInv' /\ tick'.pc # "budget"
<1>1. WorkInv /\ runs \in [Run -> RunRow] /\ tick \in TickRow /\ r # NoRun
  BY DurableAssumption DEF Guarded, GuardInv, Holds, RefInv, ControlOK
<1>2. \/ \E res : tick' = Settle(t, r, res)
      \/ tick' = ParkOn(t, r)
  BY DEF Collect, Stall
<1>3. tick'.pc \in {"finish", "park"} /\ tick'.task = t /\ tick'.run = r
  BY <1>1, <1>2 DEF Settle, ParkOn, TickRow
<1>4. task' = task BY DEF Collect, Stall, durableVars
<1>5. RunsRest /\ ~Live(r)'
  <2>1. CASE Collect(t, r)
    BY <2>1 DEF Collect, RunsRest, Live, NothingStrands
  <2>2. CASE Stall(t, r)
    <3>1. PICK S \in Stopped({r}) : Stop(S) BY <2>2 DEF Stall
    <3>2. runs[r].st # "lost" /\ "cancelFails" \notin May BY <2>2 DEF Stall, Live, NothingStrands
    <3>3. r \in S BY <3>1, <3>2 DEF Stopped
    <3>4. RunsRest BY <1>1, <3>1, StopRests
    <3>5. runs'[r].st = "exited" BY <1>1, <3>1, <3>3 DEF Stop, RunRow
    <3> QED BY <3>4, <3>5 DEF Live
  <2> QED BY <2>1, <2>2
<1>6. Free(t)' BY <1>1, <1>5, EndedFree
<1>7. runs'[r].task = t BY <1>1, <1>5 DEF WorkInv, Bound, RunsRest
<1>8. Runs(t)' BY <1>4 DEF Runs
<1> QED BY <1>3, <1>6, <1>7, <1>8, ChosenSettles

\* The slots that the store counts are those of the running tasks.
LEMMA SlotsRun ==
  ASSUME ParkedInv, StoreInv
  PROVE  Occupied(Task) = RunningAll /\ \A g : Occupied(TasksOf(g)) = RunningIn(g)
<1>1. \A t \in Task : Occupies(t) <=> Runs(t)
  BY DEF Occupies, Runs, ParkedInv, StoreInv, FreesSlot, InFlight, TerminableTask
<1> QED BY <1>1 DEF Occupied, RunningAll, RunningIn, TasksOf, Runs

\* No goal is out of its budget, so that a tick goes on to observe.
LEMMA NoBudget ==
  ASSUME TypeOK, CalmInv, NothingStrands, NEW g \in Goal
  PROVE  ~BudgetBlocks(g) /\ Advance(g).pc = "observe"
<1>1. goal[g].retries \in 0 .. MaxRetries BY Rows DEF Snapshot
<1>2. ~BudgetBlocks(g)
  BY <1>1, DurableAssumption, CoordinatorAssumption DEF BudgetBlocks, CalmInv, NothingStrands
<1> QED BY <1>2 DEF Advance, Idle

LEMMA DispatchChosen ==
  ASSUME Guarded, NothingStrands, Dispatch
  PROVE  ChosenInv' /\ tick'.pc # "budget"
<1>1. /\ TypeOK /\ CalmInv /\ ParkedInv /\ StoreInv /\ tick \in TickRow /\ tick.goal \in Goal
      /\ Idle.pc = "idle"
  BY HeldTasks DEF Guarded, GuardInv, Dispatch, Holds, RefInv, ControlOK, Idle
<1>2. ~OutOfBudget /\ UNCHANGED durableVars BY <1>1, NoBudget DEF OutOfBudget, Dispatch
<1>3. CASE tick' = Idle BY <1>1, <1>3, UnchosenHolds DEF Unchosen, Neutral
<1>4. ASSUME NEW t \in Dispatchable, tick' = [tick EXCEPT !.pc = "claim", !.task = t]
      PROVE  ChosenInv' /\ tick'.pc # "budget"
  <2>1. SlotsFor(tick.goal) /\ ~Held(t) BY <1>4 DEF Dispatchable
  <2>2. tick'.pc = "claim" /\ tick'.task = t /\ tick'.goal = tick.goal
    BY <1>1, <1>4 DEF TickRow
  <2>3. \A u \in RunningAll : Dir[u] # Dir[t] BY <2>1 DEF Held, RunningAll, Runs, InFlight, TerminableTask
  <2>4. Cardinality(RunningIn(tick.goal)) < PerGoal /\ Cardinality(RunningAll) < Global
    BY <1>1, <2>1, SlotsRun DEF SlotsFor
  <2>5. RunningAll' = RunningAll /\ RunningIn(tick.goal)' = RunningIn(tick.goal)
    BY <1>2, <2>2 DEF RunningAll, RunningIn, Runs, durableVars
  <2> QED BY <2>2, <2>3, <2>4, <2>5 DEF ChosenInv
<1> QED BY <1>2, <1>3, <1>4 DEF Dispatch

LEMMA ObserveChosen ==
  ASSUME Guarded, NothingStrands, Observe \/ ObserveFresh
  PROVE  ChosenInv' /\ tick'.pc # "budget"
<1>1. /\ TypeOK /\ WorkInv /\ ChosenInv /\ tick \in TickRow /\ tick.todo \subseteq Task
      /\ \A u \in Task : task[u] \in TaskRow
  BY HeldTasks, Rows DEF Guarded, GuardInv, Holds, RefInv, ControlOK
<1>2. CASE Observe
  <2>1. ASSUME NEW t, tick' = [tick EXCEPT !.todo = @ \ {t}] PROVE Unchosen
    BY <1>1, <1>2, <2>1 DEF Observe, TickRow, Unchosen, Neutral
  <2>2. ASSUME tick' = [tick EXCEPT !.pc = "dispatch", !.back = "dispatch"] PROVE Unchosen
    BY <1>1, <2>2 DEF TickRow, Unchosen, Neutral
  <2>3. ASSUME NEW t \in tick.todo, ObserveAbandoned(t) PROVE ChosenInv' /\ tick'.pc # "budget"
    <3>1. /\ t \in Task /\ Runs(t) /\ task[t].run = NoRun /\ ~Launching(t)
          /\ UNCHANGED <<task, runs, launch>> /\ tick' = Settle(t, NoRun, "fail")
      BY <1>1, <1>2, <2>3 DEF ObserveAbandoned, Observable, Runs, Observe, durableVars
    <3>2. tick'.pc = "finish" /\ tick'.task = t /\ tick'.run = NoRun
      BY <1>1, <3>1 DEF Settle, TickRow
    <3>3. ASSUME NEW k \in Claim, launch[k].st # "none" PROVE launch[k].task # t
      BY <1>1, <3>1, <3>3 DEF WorkInv, HeldBy, Launching
    <3>4. ASSUME NEW r \in Run, Live(r) PROVE runs[r].task # t
      <4>1. r # NoRun BY DurableAssumption
      <4> QED BY <1>1, <3>1, <3>3, <3>4, <4>1 DEF WorkInv, Backed, StartedBy
    <3>5. Runs(t)' /\ Free(t)' BY <3>1, <3>3, <3>4 DEF Runs, Free, Live
    <3> QED BY <3>1, <3>2, <3>5, ChosenSettles
  <2>4. ASSUME NEW t \in tick.todo, ObserveRun(t) PROVE ChosenInv' /\ tick'.pc # "budget"
    <3>1. /\ t \in Task /\ Runs(t) /\ launch' = launch
          /\ Collect(t, task[t].run) \/ Stall(t, task[t].run)
      BY <1>1, <1>2, <2>4 DEF ObserveRun, Observable, Runs, Observe
    <3>2. task[t].run \in Run BY <1>1, <2>4, <3>1 DEF ObserveRun, TaskRow
    <3> QED BY <3>1, <3>2, CollectChosen
  <2> QED BY <1>2, <2>1, <2>2, <2>3, <2>4, UnchosenHolds DEF Observe, ObserveNothing, ObserveRequest
<1>3. CASE ObserveFresh
  <2>1. PICK t \in Task : t = tick.task BY <1>3, HeldTasks DEF ObserveFresh, Guarded
  <2>2. Runs(t) /\ task[t].run = tick.run /\ tick.run \in Run
    BY <1>1, <1>3, <2>1 DEF ObserveFresh, ChosenInv, TickRow
  <2>3. ASSUME tick' = [tick EXCEPT !.pc = "dispatch"] PROVE Unchosen
    BY <1>1, <2>3 DEF TickRow, Unchosen, Neutral
  <2>4. Collect(t, tick.run) \/ Stall(t, tick.run) => ChosenInv' /\ tick'.pc # "budget"
    BY <1>3, <2>2, CollectChosen DEF ObserveFresh
  <2> QED BY <1>3, <2>1, <2>3, <2>4, UnchosenHolds DEF ObserveFresh
<1> QED BY <1>2, <1>3

\* The threads of start_run, and the step that hands a task to one.
LEMMA LaunchChosen ==
  ASSUME Guarded, NothingStrands, NEW k \in Claim, DispatchOne(k) \/ LaunchNext(k)
  PROVE  ChosenInv' /\ tick'.pc # "budget"
<1>1. /\ TypeOK /\ RefInv /\ WorkInv /\ SlotInv /\ ChosenInv /\ LaunchInv /\ RunInv /\ Holds
      /\ tick \in TickRow /\ tick.pc # "budget" /\ launch \in [Claim -> LaunchRow]
      /\ runs \in [Run -> RunRow] /\ task \in [Task -> TaskRow]
      /\ \A u \in Task : task[u] \in TaskRow
  BY Rows DEF Guarded, GuardInv, Holds, RefInv, ControlOK, CalmInv, TypeOK
<1>2. CASE DispatchOne(k)
  <2>1. PICK t \in Task : t = tick.task BY <1>2, HeldTasks DEF DispatchOne, Guarded
  <2>2. ASSUME tick' = Idle PROVE Unchosen BY <2>2 DEF Idle, Unchosen, Neutral
  <2>3. ASSUME tick' = [tick EXCEPT !.pc = "dispatch", !.task = NoTask, !.todo = @ \cup {tick.task}]
        PROVE  Unchosen
    BY <1>1, <2>3 DEF TickRow, Unchosen, Neutral
  <2>4. ASSUME ClaimTaskDispatch(t, k), tick' = Settle(t, NoRun, "fail"), UNCHANGED launch
        PROVE  ChosenInv' /\ tick'.pc # "budget"
    <3>1. tick'.pc = "finish" /\ tick'.task = t /\ tick'.run = NoRun
      BY <1>1, <2>4 DEF Settle, TickRow
    <3>2. task[t].status = "queued" /\ task'[t].status = "running"
      BY <1>1, <2>4 DEF ClaimTaskDispatch, CanClaimDispatch, TaskRow
    <3>3. Free(t) BY <1>1, <3>2, NotRunningFree DEF Runs
    <3>4. runs' = runs BY <1>2 DEF DispatchOne, envVars
    <3>5. Free(t)' /\ Runs(t)' BY <2>4, <3>2, <3>3, <3>4 DEF Free, Runs, Live
    <3> QED BY <3>1, <3>5, ChosenSettles
  <2> QED BY <1>2, <2>1, <2>2, <2>3, <2>4, UnchosenHolds DEF DispatchOne
<1>3. CASE StartRun(k)
  <2>1. UNCHANGED <<durableVars, tick>> /\ launch[k].st = "starting" BY <1>3 DEF StartRun
  <2>2. /\ \A j \in Claim : launch'[j].st # "none" =>
             launch[j].st # "none" /\ launch'[j].task = launch[j].task
        /\ \/ runs' = runs
           \/ \E r \in Run : /\ runs[r].st = "unused"
                             /\ runs' = [runs EXCEPT ![r] = [st |-> "live", task |-> launch[k].task]]
    <3>1. ASSUME NEW r \in Run,
                 launch' = [launch EXCEPT ![k] = [@ EXCEPT !.st = "started", !.run = r]]
          PROVE  launch'[k].task = launch[k].task /\ \A j \in Claim \ {k} : launch'[j] = launch[j]
      BY <1>1, <3>1 DEF LaunchRow
    <3>2. ASSUME launch' = [launch EXCEPT ![k].st = "failed"]
          PROVE  launch'[k].task = launch[k].task /\ \A j \in Claim \ {k} : launch'[j] = launch[j]
      BY <1>1, <3>2 DEF LaunchRow
    <3> QED BY <1>3, <2>1, <3>1, <3>2 DEF StartRun
  <2>3. \A r \in Run : runs[r].task \in Task => runs'[r].task = runs[r].task
    BY <1>1, <2>2 DEF RunInv, RunRow
  <2>4. ASSUME NEW u \in Task, Free(u) PROVE Free(u)'
    <3>1. launch[k].task # u BY <2>1, <2>4 DEF Free
    <3>2. ASSUME NEW r \in Run, Live(r)' PROVE runs'[r].task # u
      BY <1>1, <2>2, <2>4, <3>1, <3>2 DEF Free, Live
    <3> QED BY <2>2, <2>4, <3>2 DEF Free
  <2>5. \A u \in Task : Kept(u) BY <2>1 DEF Kept, durableVars
  <2>6. Shrinks BY <2>5 DEF Shrinks, Kept, Runs
  <2>7. ChosenInv' BY <1>1, <2>1, <2>3, <2>4, <2>5, <2>6, ChosenStays
  <2> QED BY <1>1, <2>1, <2>7
<1>4. CASE StartFailed(k)
  <2>1. PICK t \in Task : t = launch[k].task BY <1>1, <1>4 DEF StartFailed, LaunchInv
  <2>2. launch[k].run = NoRun /\ launch[k].st = "failed" BY <1>1, <1>4 DEF StartFailed, LaunchInv
  <2>3. Runs(t) /\ task[t].claim = k /\ task[t].run = NoRun
    BY <1>1, <2>1, <2>2 DEF WorkInv, HeldBy
  <2>4. /\ tick'.pc = "finish" /\ tick'.task = t /\ tick'.run = NoRun
    BY <1>4, <2>1, <2>2 DEF StartFailed, Relocked, Idle
  <2>5. /\ UNCHANGED <<task, runs>> /\ launch'[k].st = "none"
        /\ \A j \in Claim \ {k} : launch'[j] = launch[j]
    BY <1>1, <1>4 DEF StartFailed, NoLaunch, durableVars, envVars
  <2>6. ASSUME NEW j \in Claim, j # k, launch[j].st # "none" PROVE launch[j].task # t
    BY <1>1, <2>3, <2>6 DEF WorkInv, HeldBy
  <2>7. ASSUME NEW r \in Run, Live(r) PROVE runs[r].task # t
    <3>1. r # NoRun BY DurableAssumption
    <3>2. \A j \in Claim : launch[j].st = "started" => launch[j].task # t BY <2>2, <2>6
    <3> QED BY <1>1, <2>3, <2>7, <3>1, <3>2 DEF WorkInv, Backed, StartedBy
  <2>8. Runs(t)' /\ Free(t)' BY <2>3, <2>5, <2>6, <2>7 DEF Runs, Free, Live
  <2> QED BY <2>4, <2>8, ChosenSettles
<1>5. CASE Bind(k)
  <2>1. PICK t \in Task : t = launch[k].task BY <1>1, <1>5 DEF Bind, LaunchInv
  <2>2. PICK r \in Run : r = launch[k].run /\ launch[k].st = "started"
    BY <1>1, <1>5 DEF Bind, LaunchInv
  <2>3. HeldBy(k) BY <1>1 DEF WorkInv
  <2>4. CanBind(t, r) BY <2>1, <2>2, <2>3 DEF HeldBy, CanBind, Runs
  <2>5. BindTaskRun(t, r) /\ tick' = [Relocked(k) EXCEPT !.pc = "stamp"]
    BY <1>5, <2>1, <2>2, <2>4 DEF Bind
  <2>6. tick'.pc = "stamp" /\ tick'.task = t /\ tick'.run = r
    BY <2>1, <2>2, <2>5 DEF Relocked, Idle
  <2>7. task'[t].status = "running" /\ task'[t].run = r
    BY <1>1, <2>4, <2>5 DEF BindTaskRun, CanBind, TaskRow
  <2>8. Runs(tick.task)' /\ r # NoRun BY <2>6, <2>7, DurableAssumption DEF Runs
  <2> QED BY <2>6, <2>7, <2>8 DEF ChosenInv
<1> QED BY <1>2, <1>3, <1>4, <1>5 DEF LaunchNext

LEMMA TickChosen ==
  ASSUME Guarded, NothingStrands, TickNext
  PROVE  ChosenInv' /\ tick'.pc # "budget"
<1>1. /\ TypeOK /\ CalmInv /\ ChosenInv /\ tick \in TickRow /\ tick.pc # "budget"
      /\ Idle.pc = "idle" /\ task \in [Task -> TaskRow] /\ \A u \in Task : task[u] \in TaskRow
  BY Rows DEF Guarded, GuardInv, Holds, RefInv, ControlOK, CalmInv, TypeOK, Idle
<1>2. ASSUME tick' = Idle PROVE Unchosen BY <1>1, <1>2 DEF Unchosen, Neutral
<1>3. ASSUME NEW g \in Goal, tick' = Advance(g) PROVE Unchosen
  BY <1>1, <1>3, NoBudget DEF Unchosen, Neutral
<1>4. ASSUME tick' = tick, tick.pc \in Neutral PROVE Unchosen BY <1>4 DEF Unchosen
<1>5. ASSUME NEW g \in Goal, TickBegins(g) PROVE Unchosen
  <2>1. ~TickCancel(g) BY <1>1 DEF TickCancel, CalmInv
  <2>2. ASSUME tick' = [Idle EXCEPT !.pc = "admit", !.goal = g, !.todo = {t \in Task : GoalOf[t] = g}]
        PROVE  Unchosen
    BY <2>2 DEF Idle, Unchosen, Neutral
  <2>3. "idle" \in Neutral BY DEF Neutral
  <2> QED BY <1>3, <1>4, <1>5, <2>1, <2>2, <2>3
          DEF TickBegins, TickTerminated, TickPlan, TickPlanned, TickAdvance
<1>6. CASE TickEffect BY <1>2, <1>6, UnchosenHolds DEF TickEffect
<1>7. CASE Admit
  <2>1. tick.goal \in Goal BY <1>7, HeldTasks DEF Admit, Guarded
  <2>2. ASSUME NEW t, tick' = [tick EXCEPT !.todo = @ \ {t}] PROVE Unchosen
    BY <1>1, <1>7, <2>2 DEF Admit, TickRow, Unchosen, Neutral
  <2> QED BY <1>2, <1>3, <1>7, <2>1, <2>2, UnchosenHolds DEF Admit
<1>8. CASE Finish BY <1>1, <1>8, UnchosenHolds DEF Finish, TickRow, Unchosen, Neutral
<1>9. CASE Reconcile \/ Park
  BY <1>1, <1>9, UnchosenHolds DEF Reconcile, Park, Return, TickRow, Unchosen, Neutral
<1>10. CASE Stamp
  <2>1. PICK t \in Task : t = tick.task BY <1>10, HeldTasks DEF Stamp, Guarded
  <2>2. Runs(t) /\ task[t].run = tick.run /\ tick.run # NoRun
    BY <1>1, <1>10, <2>1 DEF ChosenInv, Stamp
  <2>3. tick'.pc = "fresh" /\ tick'.task = t /\ tick'.run = tick.run
    BY <1>1, <1>10, <2>1 DEF Stamp, TickRow
  <2>4. task'[t].status = task[t].status /\ task'[t].run = task[t].run
    BY <1>1, <1>10, <2>1 DEF Stamp, MarkRunStarted, TaskRow, durableVars
  <2>5. Runs(tick.task)' BY <2>2, <2>3, <2>4 DEF Runs
  <2> QED BY <2>2, <2>3, <2>4, <2>5 DEF ChosenInv
<1>11. ~BudgetGoal /\ \A t \in Task : ~BudgetTask(t) BY <1>1 DEF BudgetGoal, BudgetTask
<1> QED BY <1>5, <1>6, <1>7, <1>8, <1>9, <1>10, <1>11, UnchosenHolds, ObserveChosen,
           DispatchChosen, LaunchChosen DEF TickNext, TickContinues

----------------------------------------------------------------------------
(* The invariant of the workers, and their limits.                         *)

\* Nothing is cancelled, resumed or out of its budget, and stays so.
LEMMA CalmStep ==
  ASSUME Guarded, NothingStrands, [CoordNext]_vars
  PROVE  CalmInv'
<1>1. /\ TypeOK /\ RefInv /\ CalmInv /\ FailedInv /\ WorkInv /\ resuming = {} /\ expired = {}
      /\ \A u \in Task : task[u] \in TaskRow
  BY Rows DEF Guarded, GuardInv, Holds, RefInv, CalmInv
<1>2. \A g \in Goal : goal'[g].state # "cancel_requested" BY StandStep
<1>3. tick'.pc # "budget"
  <2>1. Crash => tick'.pc # "budget" BY DEF Crash, Idle
  <2> QED BY <1>1, <2>1, TickChosen, TickElsewhere DEF CalmInv
<1>4. expired' = {}
  <2>1. TickNext => expired' = expired BY <1>1, TickAll DEF Goes
  <2>2. ~\E g \in Goal : WallExpires(g) BY DEF WallExpires, NothingStrands
  <2> QED BY <1>1, <2>1, <2>2
          DEF CoordNext, ApiNext, EnvNext, ApiSubmit, ApiCancel, ApiStopRuns, ApiEffect, ApiRetry,
              ApiResume, ApiAnswer, ApiRecord, ApiCheckpoint, ApiContinue, ApiStop, ApiReconcile,
              PlannerReturns, RunExits, RunAsks, Crash, envVars, vars
<1>5. resuming' = {}
  <2>1. ASSUME NEW t \in Task, ApiRetry(t) PROVE resuming' = {}
    <3>1. PICK resume \in BOOLEAN :
            /\ resume => task[t].run # NoRun /\ Live(task[t].run)
            /\ RetryNeedHuman(GoalOf[t], t, resume)
            /\ resuming' = IF resume THEN resuming \cup {t} ELSE resuming
      BY <2>1 DEF ApiRetry
    <3>2. task[t].status = "failed"
      <4>1. t \in RetryTargets(GoalOf[t]) BY <3>1 DEF RetryNeedHuman, CanRetry
      <4> QED BY <1>1, <4>1, GoalOfTask DEF RetryTargets, FailedInv
    <3>3. ~resume
      <4>1. Free(t) /\ Bound(t) /\ task[t].run \in Run \cup {NoRun}
        BY <1>1, <3>2, NotRunningFree DEF Runs, WorkInv, TaskRow
      <4> QED BY <3>1, <4>1 DEF Free, Bound
    <3> QED BY <1>1, <3>1, <3>3
  <2>2. TickNext => resuming' = resuming BY <1>1, TickAll DEF Goes, apiVars
  <2>3. EnvNext => resuming' \subseteq resuming
    BY DEF EnvNext, PlannerReturns, WallExpires, RunExits, RunAsks, Crash, apiVars
  <2>4. \A t \in Task : ~ApiResume(t) BY <1>1 DEF ApiResume
  <2> QED BY <1>1, <2>1, <2>2, <2>3, <2>4
          DEF CoordNext, ApiNext, ApiSubmit, ApiCancel, ApiStopRuns, ApiEffect, ApiAnswer,
              ApiRecord, ApiCheckpoint, ApiContinue, ApiStop, ApiReconcile, apiVars, vars
<1> QED BY <1>2, <1>3, <1>4, <1>5 DEF CalmInv

LEMMA ChosenStep ==
  ASSUME Guarded, NothingStrands, [CoordNext]_vars
  PROVE  ChosenInv'
<1>1. /\ RefInv /\ StandInv /\ ChosenInv /\ SlotInv /\ Holds
  BY DEF Guarded, GuardInv, Holds, StandInv
<1>2. ASSUME tick' = tick, Resting PROVE ChosenInv'
  <2>1. RunsRest /\ LaunchRest /\ \A u \in Task : Kept(u)
    BY <1>2 DEF Resting, Rests, KeptAll
  <2>2. ASSUME NEW u \in Task, Free(u) PROVE Free(u)'
    <3>1. \A k \in Claim : launch'[k].st # "none" => launch'[k].task # u
      BY <2>1, <2>2 DEF LaunchRest, Free
    <3>2. \A r \in Run : Live(r)' => runs'[r].task # u BY <2>1, <2>2 DEF RunsRest, Free
    <3> QED BY <3>1, <3>2 DEF Free
  <2>3. Shrinks BY <2>1 DEF Shrinks, Kept, Runs
  <2> QED BY <1>1, <1>2, <2>1, <2>2, <2>3, ChosenStays DEF RunsRest
<1>3. ASSUME tick' = tick, NEW t \in Task, Leaving(t), ~Runs(t) PROVE ChosenInv'
  <2>1. /\ \A u \in Task : u # t => Kept(u)
        /\ UNCHANGED <<launch, runs>>
    BY <1>3 DEF Leaving, Leaves
  <2>2. \A u \in Task : (Runs(u) => Kept(u)) /\ (Free(u) => Free(u)')
    BY <1>3, <2>1 DEF Free, Live
  <2>3. Shrinks BY <1>1, <1>3, LeaveStands
  <2> QED BY <1>1, <1>3, <2>1, <2>2, <2>3, ChosenStays
<1>4. CASE ApiNext
  <2>1. tick' = tick
    BY <1>4 DEF ApiNext, ApiSubmit, ApiCancel, ApiStopRuns, ApiEffect, ApiRetry, ApiResume, ApiAnswer,
         ApiRecord, ApiCheckpoint, ApiContinue, ApiStop, ApiReconcile, coordVars
  <2> QED BY <1>2, <1>3, <1>4, <2>1, ApiKinds
<1>5. CASE EnvNext
  <2>1. Crash => Unchosen BY DEF Crash, Unchosen, Neutral, Idle
  <2>2. tick' = tick \/ Crash
    BY <1>5 DEF EnvNext, PlannerReturns, WallExpires, RunExits, RunAsks, coordVars
  <2> QED BY <1>2, <1>5, <2>1, <2>2, EnvKinds, UnchosenHolds
<1>6. CASE UNCHANGED vars
  <2>1. Resting
    <3>1. KeptAll /\ GoalsRest
      BY <1>6, RestSame DEF vars, Guarded, GuardInv, CalmInv, Uncancelled
    <3> QED BY <1>1, <1>6, <3>1, BesideRests
            DEF StandInv, vars, durableVars, coordVars, apiVars, envVars
  <2> QED BY <1>2, <1>6, <2>1 DEF vars, coordVars
<1> QED BY <1>4, <1>5, <1>6, TickChosen DEF CoordNext

LEMMA GuardStep ==
  ASSUME Guarded, NothingStrands, [CoordNext]_vars
  PROVE  GuardInv'
  BY StandStep, CalmStep, ChosenStep DEF StandInv, GuardInv

LEMMA GuardInit == CoordInit => GuardInv
<1> SUFFICES ASSUME CoordInit PROVE GuardInv OBVIOUS
<1>1. /\ \A t \in Task : task[t].status = "absent" /\ task[t].run = NoRun
      /\ \A g \in Goal : goal[g].state = "absent" /\ goal[g].failure.task = NoTask
      /\ \A d \in Decision : decision[d].kind = "approval"
  BY DEF CoordInit, Init, AbsentTask, NewTask, EmptySnapshot, NoFailure, Unopened
<1>2. CalmInv BY <1>1 DEF CoordInit, CalmInv, Idle
<1>3. ParkedInv BY <1>1 DEF ParkedInv, Asks
<1>4. FailedInv BY <1>1, DurableAssumption DEF FailedInv
<1>5. WorkInv BY <1>1 DEF CoordInit, WorkInv, HeldBy, Backed, Bound, Live, NoLaunch, NotStarted
<1>6. SlotInv
  <2>1. RunningAll = {} /\ \A g \in Goal : RunningIn(g) = {}
    BY <1>1 DEF RunningAll, RunningIn, Runs
  <2> QED BY <2>1, FS_EmptySet, CoordinatorAssumption DEF SlotInv
<1>7. ChosenInv BY DEF CoordInit, ChosenInv, Idle
<1> QED BY <1>2, <1>3, <1>4, <1>5, <1>6, <1>7 DEF GuardInv

LEMMA GuardInvariant == NothingStrands => (CoordSpec => []Guarded)
<1>1. CoordInit => GuardInv BY GuardInit
<1>2. NothingStrands /\ Holds /\ RunInv /\ GuardInv /\ [CoordNext]_vars => GuardInv'
  BY GuardStep DEF Guarded
<1>3. Holds /\ RunInv /\ GuardInv => Guarded BY DEF Guarded
<1> SUFFICES ASSUME NothingStrands PROVE CoordSpec => []Guarded OBVIOUS
<1>4. Holds /\ RunInv /\ GuardInv /\ [CoordNext]_vars => GuardInv' BY <1>2
<1> QED BY <1>1, <1>3, <1>4, SettleInvariant, RunInvariant, PTL DEF CoordSpec

\* A task has one worker, ...
LEMMA OneWorker ==
  ASSUME WorkInv, NEW r \in Working, NEW s \in Working, runs[r].task = runs[s].task
  PROVE  r = s
<1>1. r \in Run /\ s \in Run /\ Live(r) /\ Live(s) /\ r # NoRun /\ s # NoRun
  BY DurableAssumption DEF Working
<1>2. /\ Backed(r) /\ Backed(s) /\ \A k \in Claim : HeldBy(k) BY <1>1 DEF WorkInv
<1> DEFINE t == runs[r].task
<1>3. /\ task[t].run = r \/ \E k \in Claim : StartedBy(k, r)
      /\ task[t].run = s \/ \E k \in Claim : StartedBy(k, s)
  BY <1>1, <1>2 DEF Backed
<1>4. \A k \in Claim : StartedBy(k, r) \/ StartedBy(k, s) => task[t].run = NoRun /\ task[t].claim = k
  BY <1>2 DEF StartedBy, HeldBy
<1>5. \A k \in Claim : StartedBy(k, r) /\ StartedBy(k, s) => r = s BY DEF StartedBy
<1> HIDE DEF t
<1> QED BY <1>1, <1>3, <1>4, <1>5

\* Two workers never write to one directory while nothing strands a worker: dispatch looks at
\* the tasks of the store only (_occupancy, _slots_for), and no order of dispatches,
\* launches that fail, checkpoints, retries and restarts parts a live worker from its task.
THEOREM WorkersStayAlone == NothingStrands => (CoordSpec => []OneWorkerPerDirectory)
<1>1. ASSUME Guarded PROVE OneWorkerPerDirectory
  <2> SUFFICES ASSUME NEW r \in Working, NEW s \in Working, Dir[runs[r].task] = Dir[runs[s].task]
               PROVE  r = s
    BY DEF OneWorkerPerDirectory
  <2>1. WorkInv /\ SlotInv BY <1>1 DEF Guarded, GuardInv
  <2>2. runs[r].task \in RunningAll /\ runs[s].task \in RunningAll
    BY <2>1 DEF Working, WorkInv, Backed, RunningAll
  <2>3. runs[r].task = runs[s].task BY <2>1, <2>2 DEF SlotInv
  <2> QED BY <2>1, <2>3, OneWorker
<1> QED BY <1>1, GuardInvariant, PTL

\* Workers keep to the limits of their goal and of the service while nothing strands one: the
\* slots are counted on the tasks of the store, and each live worker is the only one of a
\* running task.
THEOREM WorkersStayWithinLimits == NothingStrands => (CoordSpec => []WorkersWithinLimits)
<1>1. ASSUME WorkInv, NEW S \in SUBSET Working, NEW T \in SUBSET Task, IsFiniteSet(T),
             \A r \in S : runs[r].task \in T
      PROVE  Cardinality(S) <= Cardinality(T) /\ Cardinality(S) \in Nat /\ Cardinality(T) \in Nat
  <2> DEFINE f == [r \in S |-> runs[r].task]
  <2>1. f \in [S -> T] BY <1>1
  <2>2. \A r, s \in S : f[r] = f[s] => r = s BY <1>1, OneWorker
  <2>3. f \in Injection(S, T) BY <2>1, <2>2 DEF Injection, IsInjective
  <2> HIDE DEF f
  <2> QED BY <1>1, <2>3, FS_Injection, FS_CardinalityType
<1>2. ASSUME Guarded PROVE WorkersWithinLimits
  <2>1. WorkInv /\ SlotInv /\ IsFiniteSet(RunningAll) BY <1>2 DEF Guarded, GuardInv, SlotInv
  <2>2. \A r \in Working : runs[r].task \in RunningAll
    BY <2>1 DEF Working, WorkInv, Backed, RunningAll
  <2>3. RunningAll \in SUBSET Task BY DEF RunningAll
  <2>4. Cardinality(Working) <= Global
    <3>1. /\ Cardinality(Working) <= Cardinality(RunningAll)
          /\ Cardinality(Working) \in Nat /\ Cardinality(RunningAll) \in Nat
      BY <1>1, <2>1, <2>2, <2>3
    <3> QED BY <2>1, <3>1, CoordinatorAssumption DEF SlotInv
  <2>5. ASSUME NEW g \in Goal
        PROVE  Cardinality({r \in Working : GoalOf[runs[r].task] = g}) <= PerGoal
    <3> DEFINE S == {r \in Working : GoalOf[runs[r].task] = g}
    <3>1. RunningIn(g) \in SUBSET RunningAll /\ RunningIn(g) \in SUBSET Task
      BY DEF RunningIn, RunningAll
    <3>2. IsFiniteSet(RunningIn(g)) BY <2>1, <3>1, FS_Subset
    <3>3. S \in SUBSET Working /\ \A r \in S : runs[r].task \in RunningIn(g)
      BY <2>2 DEF RunningIn, RunningAll
    <3>4. /\ Cardinality(S) <= Cardinality(RunningIn(g))
          /\ Cardinality(S) \in Nat /\ Cardinality(RunningIn(g)) \in Nat
      BY <1>1, <2>1, <3>1, <3>2, <3>3
    <3> HIDE DEF S
    <3>5. Cardinality(S) <= PerGoal BY <2>1, <3>4, CoordinatorAssumption DEF SlotInv
    <3> QED BY <3>5 DEF S
  <2> QED BY <2>4, <2>5 DEF WorkersWithinLimits
<1> QED BY <1>2, GuardInvariant, PTL
=============================================================================
