----------------------------- MODULE Coordinator -----------------------------
(***************************************************************************)
(* framework/app_service.py: AppCoordinator, which drives goals through    *)
(* the durable layer, the CollabApplication operations that HTTP threads   *)
(* call beside it, and the worker runs of the execution backend.           *)
(*                                                                         *)
(* A tick of a goal holds the coordinator lock from one durable            *)
(* transaction to the next; the lock is let go only while start_run spawns *)
(* a worker and while the lead plans.  cancel, retry and resolve take no   *)
(* lock: their durable transactions fall between any two of a tick's.  One *)
(* step of this module is therefore one durable transaction, or one call   *)
(* to the backend, or one decision taken from a fresh read of the store.   *)
(*                                                                         *)
(* The register tick is the local state of the thread that holds the lock, *)
(* launch[k] that of the thread whose start_run runs under dispatch token  *)
(* k (a token in _inflight_claims), and cancelling, resuming and applying  *)
(* are where the API threads stand between two transactions.  A crash      *)
(* clears all of these and leaves the durable variables and the runs.      *)
(*                                                                         *)
(* Left out: the lead's own verdicts (they take the two steps of a human   *)
(* one), escalations (no path of the service opens them, and nothing else  *)
(* is a decision that stops the dispatch of a whole goal), live token and  *)
(* tool-call budgets.                                                      *)
(***************************************************************************)
EXTENDS DurableLayer

CONSTANTS
  Dir,          \* the directory each task runs in
  PerGoal,      \* max_parallel_per_goal
  Global,       \* max_parallel_global, or the backend's max_runs when smaller
  MaxReworks,   \* budget.max_reworks of every goal
  MaxCrashes,   \* bound on crashes of the service
  May           \* what may happen in an instance, out of Happening

Happening == {"cancel", "retry", "cancelFails", "observeFails", "launchFails", "needHuman",
              "noProgress", "postHoc", "ask", "wall", "planFails", "reaped"}

ASSUME CoordinatorAssumption ==
  /\ DOMAIN Dir = Task
  /\ {PerGoal, Global} \subseteq Nat \ {0} /\ {MaxReworks, MaxCrashes} \subseteq Nat
  /\ May \subseteq Happening

VARIABLES
  tick,        \* the thread that holds the coordinator lock
  launch,      \* the threads inside start_run, by dispatch token
  planning,    \* the lead's call for each goal: _planning_jobs
  cancelling,  \* cancel: between the request and its effect
  resuming,    \* retry: tasks requeued with their run, not started yet
  applying,    \* resolve: what is left to do for a decision
  runs,        \* the backend's worker runs
  expired,     \* goals older than budget.wall_sec
  crashes

apiVars   == <<cancelling, resuming, applying>>
coordVars == <<tick, launch, planning>>
envVars   == <<runs, expired, crashes>>
vars      == <<durableVars, coordVars, apiVars, envVars>>

----------------------------------------------------------------------------
Idle == [pc |-> "idle", goal |-> NoGoal, todo |-> {}, task |-> NoTask, out |-> "none",
         run |-> NoRun, back |-> "idle"]
NoLaunch == [st |-> "none", task |-> NoTask, run |-> NoRun, skipped |-> {}]
NotStarted == [st |-> "unused", task |-> NoTask]

CoordTypeOK ==
  /\ TypeOK
  /\ tick \in [pc : {"idle", "stop", "effect", "admit", "observe", "dispatch", "claim", "stamp",
                     "fresh", "finish", "park", "reconcile", "budget"},
               goal : Goal \cup {NoGoal}, todo : SUBSET Task, task : Task \cup {NoTask},
               out : Result, run : Run \cup {NoRun}, back : {"idle", "observe", "dispatch"}]
  /\ launch \in [Claim -> [st : {"none", "starting", "started", "failed"},
                           task : Task \cup {NoTask}, run : Run \cup {NoRun},
                           skipped : SUBSET Task]]
  /\ planning \in [Goal -> {"none", "busy", "done"}]
  /\ cancelling \in [Goal -> {"none", "stopping", "effecting"}]
  /\ resuming \subseteq Task
  /\ applying \in [Decision -> {"none", "record", "continue", "stop", "reconcile"}]
  /\ runs \in [Run -> [st : {"unused", "live", "asking", "exited", "lost"}, task : Task \cup {NoTask}]]
  /\ expired \subseteq Goal
  /\ crashes \in 0 .. MaxCrashes

CoordInit ==
  /\ Init
  /\ tick = Idle
  /\ launch = [k \in Claim |-> NoLaunch]
  /\ planning = [g \in Goal |-> "none"]
  /\ cancelling = [g \in Goal |-> "none"]
  /\ resuming = {}
  /\ applying = [d \in Decision |-> "none"]
  /\ runs = [r \in Run |-> NotStarted]
  /\ expired = {}
  /\ crashes = 0

----------------------------------------------------------------------------
(* What a tick reads. *)
TickTerminal == TerminalGoal \cup {"cancel_requested"}
Active(g)    == {t \in TasksOf(g) : task[t].status \in InFlight}
Live(r)      == runs[r].st \in {"live", "asking"}
RunsOf(T)    == {task[t].run : t \in T} \ {NoRun}
Occupies(t)  == task[t].status \in InFlight /\ ~FreesSlot(t)
Occupied(T)  == {t \in T : Occupies(t)}
\* Mutants: only directories of the same goal are looked at; only the goal's limit is.
HeldInGoal(t)    == \E u \in Task : /\ GoalOf[u] = GoalOf[t] /\ task[u].status \in InFlight
                                    /\ Dir[u] = Dir[t]
SlotsOfGoal(g)   == Cardinality(Occupied(TasksOf(g))) < PerGoal
SlotsFor(g)  == /\ Cardinality(Occupied(TasksOf(g))) < PerGoal
                /\ Cardinality(Occupied(Task)) < Global
Held(t)      == \E u \in Task : task[u].status \in InFlight /\ Dir[u] = Dir[t]
Waiting(t)   == {d \in Decision : decision[d].status = "pending" /\ decision[d].task = t}

\* budget_block_reason: the wall clock, or more retry_task rows than allowed.
BudgetBlocks(g) == g \in expired \/ goal[g].retries > MaxReworks

\* _budget_stop, then the tasks to observe.
Advance(g) ==
  IF BudgetBlocks(g) /\ goal[g].state \notin TickTerminal THEN [Idle EXCEPT !.pc = "budget", !.goal = g, !.todo = Active(g)]
  ELSE [Idle EXCEPT !.pc = "observe", !.goal = g, !.back = "observe",
                    !.todo = {t \in TasksOf(g) : task[t].status = "running"}]

\* backend.cancel of a set of runs: a run of an earlier process is refused, and
\* any other call may fail.  Stopped(R) holds the sets of calls that succeed.
Stopped(R) == LET known == {r \in R : runs[r].st # "lost"}
              IN IF "cancelFails" \in May THEN SUBSET known ELSE {known}
Stop(S)    == runs' = [r \in Run |-> IF r \in S THEN [runs[r] EXCEPT !.st = "exited"] ELSE runs[r]]

----------------------------------------------------------------------------
(* The application operations, on the threads of the HTTP server. *)
ApiSubmit(g) ==
  /\ Submit(g, NoActor, {})
  /\ UNCHANGED <<coordVars, apiVars, envVars>>

\* cancel: the request, with the lead stopped; the runs; the effect.
ApiCancel(g) ==
  /\ "cancel" \in May /\ cancelling[g] = "none" /\ CancelGoal(g)
  /\ cancelling' = [cancelling EXCEPT ![g] = "stopping"]
  /\ planning' = [planning EXCEPT ![g] = "none"]
  /\ UNCHANGED <<tick, launch, resuming, applying, envVars>>

\* A task without a run keeps the request pending.
ApiStopRuns(g) ==
  /\ cancelling[g] = "stopping"
  /\ \E S \in Stopped(RunsOf(Active(g))) :
       /\ Stop(S)
       /\ cancelling' = [cancelling EXCEPT ![g] =
            IF \A t \in Active(g) : task[t].run \in S THEN "effecting" ELSE "none"]
  /\ UNCHANGED <<durableVars, coordVars, resuming, applying, expired, crashes>>

ApiEffect(g) ==
  /\ cancelling[g] = "effecting"
  /\ cancelling' = [cancelling EXCEPT ![g] = "none"]
  /\ EffectCancel(g) \/ (~CanEffectCancel(g) /\ UNCHANGED durableVars)
  /\ UNCHANGED <<coordVars, resuming, applying, envVars>>

\* retry: a prior run that still works is resumed, else the task is redispatched.
ApiRetry(t) ==
  /\ "retry" \in May
  /\ \E resume \in BOOLEAN :
       /\ resume => task[t].run # NoRun /\ Live(task[t].run)
       /\ ~resume /\ task[t].run # NoRun /\ Live(task[t].run) => "observeFails" \in May
       /\ RetryNeedHuman(GoalOf[t], t, resume)
       /\ resuming' = IF resume THEN resuming \cup {t} ELSE resuming
  /\ UNCHANGED <<coordVars, cancelling, applying, envVars>>

\* start_task; binding the same run again afterwards changes nothing.
ApiResume(t) ==
  /\ t \in resuming
  /\ resuming' = resuming \ {t}
  /\ StartTask(t) \/ (~CanStart(t) /\ UNCHANGED durableVars)
  /\ UNCHANGED <<coordVars, cancelling, applying, envVars>>

\* resolve of a worker's request: first the backend, then the record.
ApiAnswer(d) ==
  /\ decision[d].status = "pending" /\ decision[d].kind = "approval" /\ applying[d] = "none"
  /\ \E r \in Run : /\ runs[r].st = "asking" /\ runs[r].task = decision[d].task
                    /\ runs' = [runs EXCEPT ![r].st = "live"]
  /\ applying' = [applying EXCEPT ![d] = "record"]
  /\ UNCHANGED <<durableVars, coordVars, cancelling, resuming, expired, crashes>>
ApiRecord(d) ==
  /\ applying[d] = "record"
  /\ applying' = [applying EXCEPT ![d] = "none"]
  /\ \E a \in Actor, v \in Verdicts.approval : ResolveDecision(d, a, 0, v, {})
  /\ UNCHANGED <<coordVars, cancelling, resuming, envVars>>

\* Mutant: the verdict is recorded and then forgotten.
ApiCheckpointForgotten(d) ==
  /\ decision[d].kind = "checkpoint" /\ applying[d] = "none"
  /\ \E a \in Actor, v \in Verdicts.checkpoint : ResolveDecision(d, a, 0, v, {})
  /\ UNCHANGED <<coordVars, apiVars, envVars>>
\* resolve of a checkpoint: the verdict is recorded before it is applied.
ApiCheckpoint(d) ==
  /\ decision[d].kind = "checkpoint" /\ applying[d] = "none"
  /\ goal[decision[d].goal].retries < MaxRetries
  /\ \E a \in Actor, v \in Verdicts.checkpoint :
       /\ ResolveDecision(d, a, 0, v, {})
       /\ applying' = [applying EXCEPT ![d] = v]
  /\ UNCHANGED <<coordVars, cancelling, resuming, envVars>>
ApiContinue(d) ==
  LET t == decision[d].task IN
  /\ applying[d] = "continue"
  /\ applying' = [applying EXCEPT ![d] = "none"]
  /\ RequeueCheckpointTask(t) \/ (~CanRequeue(t) /\ UNCHANGED durableVars)
  /\ UNCHANGED <<coordVars, cancelling, resuming, envVars>>

\* The parked result says need_human, and so does the result of a stop.
ApiStop(d) ==
  LET t == decision[d].task
      res == IF task[t].result = "need_human" THEN "need_human" ELSE "fail"
  IN
  /\ applying[d] = "stop"
  /\ \/ /\ FinishTask(t, res, FALSE, task[t].run)
        /\ applying' = [applying EXCEPT ![d] = "reconcile"]
     \/ /\ ~CanFinish(t, res, FALSE) /\ UNCHANGED durableVars
        /\ applying' = [applying EXCEPT ![d] = "none"]
  /\ UNCHANGED <<coordVars, cancelling, resuming, envVars>>
ApiReconcile(d) ==
  /\ applying[d] = "reconcile"
  /\ applying' = [applying EXCEPT ![d] = "none"]
  /\ ReconcileGoalProgress(decision[d].goal)
  /\ UNCHANGED <<coordVars, cancelling, resuming, envVars>>

----------------------------------------------------------------------------
(* A tick of one goal. *)

\* Mutant: a task without a run keeps the request pending, as in ApiStopRuns.
TickCancelWithRuns(g) ==
  /\ tick.pc = "idle" /\ goal[g].state = "cancel_requested"
  /\ planning' = [planning EXCEPT ![g] = "none"]
  /\ \E S \in Stopped(RunsOf(Active(g))) :
       /\ Stop(S)
       /\ tick' = IF \A t \in Active(g) : task[t].run \in S
                  THEN [Idle EXCEPT !.pc = "effect", !.goal = g] ELSE Idle
  /\ UNCHANGED <<durableVars, launch, apiVars, expired, crashes>>
\* A goal whose cancellation is requested: stop the lead and the runs it knows.
TickCancel(g) ==
  /\ tick.pc = "idle" /\ goal[g].state = "cancel_requested"
  /\ planning' = [planning EXCEPT ![g] = "none"]
  /\ LET R == RunsOf(Active(g)) IN
     \E S \in Stopped(R) :
       /\ Stop(S)
       /\ tick' = IF S = R THEN [Idle EXCEPT !.pc = "effect", !.goal = g] ELSE Idle
  /\ UNCHANGED <<durableVars, launch, apiVars, expired, crashes>>
TickEffect ==
  /\ tick.pc = "effect"
  /\ tick' = Idle
  /\ EffectCancel(tick.goal) \/ (~CanEffectCancel(tick.goal) /\ UNCHANGED durableVars)
  /\ UNCHANGED <<launch, planning, apiVars, envVars>>

\* A terminal goal: only a lead that still plans for it is stopped.
TickTerminated(g) ==
  /\ tick.pc = "idle" /\ goal[g].state \in TerminalGoal
  /\ planning' = [planning EXCEPT ![g] = "none"]
  /\ UNCHANGED <<durableVars, tick, launch, apiVars, envVars>>

\* A goal without tasks is planned by the lead, off the lock.
Unplanned(g) == Known(g) /\ goal[g].state \notin TickTerminal /\ TasksOf(g) = {}
TickPlan(g) ==
  /\ tick.pc = "idle" /\ Unplanned(g) /\ planning[g] = "none"
  /\ planning' = [planning EXCEPT ![g] = "busy"]
  /\ UNCHANGED <<durableVars, tick, launch, apiVars, envVars>>
TickPlanned(g) ==
  /\ tick.pc = "idle" /\ Unplanned(g) /\ planning[g] = "done"
  /\ planning' = [planning EXCEPT ![g] = "none"]
  /\ \/ /\ tick' = [Idle EXCEPT !.pc = "admit", !.goal = g, !.todo = {t \in Task : GoalOf[t] = g}]
        /\ UNCHANGED durableVars
     \/ "planFails" \in May /\ FailGoal(g) /\ UNCHANGED tick
  /\ UNCHANGED <<launch, apiVars, envVars>>

\* One transaction per task of the plan; a refusal ends the tick.
Admit ==
  /\ tick.pc = "admit"
  /\ \/ \E t \in tick.todo : /\ AddChildTask(t)
                             /\ tick' = [tick EXCEPT !.todo = @ \ {t}]
     \/ \E t \in tick.todo : ~CanAddChildTask(t) /\ tick' = Idle /\ UNCHANGED durableVars
     \/ tick.todo = {} /\ tick' = Advance(tick.goal) /\ UNCHANGED durableVars
  /\ UNCHANGED <<launch, planning, apiVars, envVars>>

TickAdvance(g) ==
  /\ tick.pc = "idle" /\ goal[g].state \notin TickTerminal /\ TasksOf(g) # {}
  /\ tick' = Advance(g)
  /\ UNCHANGED <<durableVars, launch, planning, apiVars, envVars>>

----------------------------------------------------------------------------
(* Observing the tasks that were running when the tick read the goal.      *)

Settle(t, r, res) == [tick EXCEPT !.pc = "finish", !.task = t, !.run = r, !.out = res,
                                  !.todo = @ \ {t}]
ParkOn(t, r)      == [tick EXCEPT !.pc = "park", !.task = t, !.run = r, !.todo = @ \ {t}]
CanOpen           == \E d \in Decision : decision[d].status = "unopened"
Launching(t)      == \E k \in Claim : launch[k].st # "none" /\ task[t].claim = k
Observable(t)     == task[t].status = "running" /\ Waiting(t) = {}

\* _after_observe and _finish_gated on a run that no longer works.
Collect(t, r) ==
  /\ \/ /\ runs[r].st = "exited"
        /\ \/ \E res \in {"ok", "fail"} : tick' = Settle(t, r, res)
           \/ "needHuman" \in May /\ tick' = Settle(t, r, "need_human")
           \/ "postHoc" \in May /\ CanOpen /\ tick' = ParkOn(t, r)
     \/ /\ runs[r].st = "lost" \/ "observeFails" \in May
        /\ tick' = Settle(t, r, "fail") \/ ("needHuman" \in May /\ tick' = Settle(t, r, "need_human"))
  /\ UNCHANGED <<durableVars, runs>>

\* _enforce_no_progress on a busy run: it reads the goal once more.
Stall(t, r) ==
  /\ "noProgress" \in May /\ Live(r)
  /\ goal[GoalOf[t]].state \notin TickTerminal /\ Observable(t)
  /\ \E S \in Stopped({r}) : Stop(S)
  /\ (CanOpen /\ tick' = ParkOn(t, r)) \/ tick' = Settle(t, r, "fail")
  /\ UNCHANGED durableVars

\* A task that moved on or waits, that is being launched, or whose run works.
ObserveNothing(t) ==
  /\ \/ ~Observable(t)
     \/ task[t].run = NoRun /\ Launching(t)
     \/ task[t].run # NoRun /\ Live(task[t].run) /\ (runs[task[t].run].st = "asking" => ~CanOpen)
  /\ tick' = [tick EXCEPT !.todo = @ \ {t}]
  /\ UNCHANGED <<durableVars, runs>>
\* A dispatch that no thread of this process is working on.
ObserveAbandoned(t) ==
  /\ Observable(t) /\ task[t].run = NoRun /\ ~Launching(t)
  /\ tick' = Settle(t, NoRun, "fail")
  /\ UNCHANGED <<durableVars, runs>>
\* A worker that asks: its request becomes a decision of the goal.
ObserveRequest(t) ==
  /\ Observable(t) /\ task[t].run # NoRun /\ runs[task[t].run].st = "asking"
  /\ \E d \in Decision : OpenDecision(d, "approval", GoalOf[t], t)
  /\ tick' = [tick EXCEPT !.todo = @ \ {t}]
  /\ UNCHANGED runs
ObserveRun(t) ==
  /\ Observable(t) /\ task[t].run # NoRun
  /\ Collect(t, task[t].run) \/ (runs[task[t].run].st = "live" /\ Stall(t, task[t].run))

Observe ==
  /\ tick.pc = "observe"
  /\ \/ \E t \in tick.todo : \/ ObserveNothing(t) \/ ObserveAbandoned(t)
                             \/ ObserveRequest(t) \/ ObserveRun(t)
     \/ tick.todo = {} /\ tick' = [tick EXCEPT !.pc = "dispatch", !.back = "dispatch"] /\ UNCHANGED <<durableVars, runs>>
  /\ UNCHANGED <<launch, planning, apiVars, expired, crashes>>

\* _observe_fresh_run: the task is the one that was bound, not read again.
ObserveFresh ==
  /\ tick.pc = "fresh"
  /\ \/ /\ Live(tick.run)
        /\ tick' = [tick EXCEPT !.pc = "dispatch"] /\ UNCHANGED <<durableVars, runs>>
     \/ Collect(tick.task, tick.run) \/ Stall(tick.task, tick.run)
  /\ UNCHANGED <<launch, planning, apiVars, expired, crashes>>

\* Mutants: the goal is not reconciled; a refused result is written all the same.
FinishOnly ==
  /\ tick.pc = "finish"
  /\ \/ FinishTask(tick.task, tick.out, FALSE, tick.run)
     \/ ~CanFinish(tick.task, tick.out, FALSE) /\ UNCHANGED durableVars
  /\ tick' = [tick EXCEPT !.pc = tick.back, !.task = NoTask, !.run = NoRun, !.out = "none"]
  /\ UNCHANGED <<launch, planning, apiVars, envVars>>
FinishUnchecked ==
  /\ tick.pc = "finish"
  /\ task' = [task EXCEPT ![tick.task].status = Outcome(tick.out)]
  /\ tick' = [tick EXCEPT !.pc = "reconcile"]
  /\ UNCHANGED <<goal, decision, owner, launch, planning, apiVars, envVars>>
\* finish_task, then reconcile_goal_progress whether it was refused or not.
Finish ==
  /\ tick.pc = "finish"
  /\ \/ FinishTask(tick.task, tick.out, FALSE, tick.run)
     \/ ~CanFinish(tick.task, tick.out, FALSE) /\ UNCHANGED durableVars
  /\ tick' = [tick EXCEPT !.pc = "reconcile"]
  /\ UNCHANGED <<launch, planning, apiVars, envVars>>
Return == [tick EXCEPT !.pc = tick.back, !.task = NoTask, !.run = NoRun, !.out = "none"]
Reconcile ==
  /\ tick.pc = "reconcile"
  /\ \/ ReconcileGoalProgress(tick.goal)
     \/ ~CanReconcile(tick.goal) /\ UNCHANGED durableVars
  /\ tick' = Return
  /\ UNCHANGED <<launch, planning, apiVars, envVars>>
Park ==
  /\ tick.pc = "park"
  /\ \/ \E d \in Decision : OpenCheckpoint(d, tick.task)
     \/ ~CanOpenCheckpoint(tick.task) /\ UNCHANGED durableVars
  /\ tick' = Return
  /\ UNCHANGED <<launch, planning, apiVars, envVars>>

----------------------------------------------------------------------------
(* Dispatch: ready tasks are started while there are slots and directories.
   Claim, Run and Decision are bounds of the instance, so a step that needs a
   fresh one waits for none: Supply and CanOpen ask for it first. *)

Unclaimed(k) == launch[k].st = "none" /\ \A t \in Task : task[t].claim # k
Supply == /\ \E k \in Claim : Unclaimed(k)
          /\ Cardinality({k \in Claim : launch[k].st = "starting"})
               < Cardinality({r \in Run : runs[r].st = "unused"})

Dispatchable == IF goal[tick.goal].state \in TickTerminal
                   \/ ~SlotsFor(tick.goal) \/ ~Supply
                THEN {}
                ELSE {t \in TasksOf(tick.goal) \ tick.todo : Ready(t) /\ ~Held(t)}
OutOfBudget  == goal[tick.goal].state \notin TickTerminal /\ BudgetBlocks(tick.goal)

Dispatch ==
  /\ tick.pc = "dispatch"
  /\ tick' \in IF OutOfBudget THEN {Advance(tick.goal)}
               ELSE IF Dispatchable = {} THEN {Idle}
               ELSE {[tick EXCEPT !.pc = "claim", !.task = t] : t \in Dispatchable}
  /\ UNCHANGED <<durableVars, launch, planning, apiVars, envVars>>

\* claim_task_dispatch; then the directory, the inputs and the charter, any of
\* which may fail, and the lock is let go.
DispatchOne(k) ==
  /\ tick.pc = "claim" /\ Unclaimed(k)
  /\ \/ /\ ClaimTaskDispatch(tick.task, k)
        /\ launch' = [launch EXCEPT ![k] = [st |-> "starting", task |-> tick.task, run |-> NoRun,
                                            skipped |-> tick.todo]]
        /\ tick' = Idle
     \/ /\ "launchFails" \in May
        /\ ClaimTaskDispatch(tick.task, k)
        /\ tick' = Settle(tick.task, NoRun, "fail")
        /\ UNCHANGED launch
     \/ /\ ~CanClaimDispatch(tick.task)
        /\ tick' = [tick EXCEPT !.pc = "dispatch", !.task = NoTask, !.todo = @ \cup {tick.task}]
        /\ UNCHANGED <<durableVars, launch>>
  /\ UNCHANGED <<planning, apiVars, envVars>>

\* start_run, without the lock.
StartRun(k) ==
  /\ launch[k].st = "starting"
  /\ \/ \E r \in Run :
          /\ runs[r].st = "unused"
          /\ runs' = [runs EXCEPT ![r] = [st |-> "live", task |-> launch[k].task]]
          /\ launch' = [launch EXCEPT ![k] = [@ EXCEPT !.st = "started", !.run = r]]
     \/ /\ "launchFails" \in May
        /\ launch' = [launch EXCEPT ![k].st = "failed"]
        /\ UNCHANGED runs
  /\ UNCHANGED <<durableVars, tick, planning, apiVars, expired, crashes>>

\* The thread has the lock again.
Relocked(k) == [Idle EXCEPT !.goal = GoalOf[launch[k].task], !.task = launch[k].task,
                            !.run = launch[k].run, !.todo = launch[k].skipped, !.back = "dispatch"]
StartFailed(k) ==
  /\ tick.pc = "idle" /\ launch[k].st = "failed"
  /\ tick' = [Relocked(k) EXCEPT !.pc = "finish", !.out = "fail"]
  /\ launch' = [launch EXCEPT ![k] = NoLaunch]
  /\ UNCHANGED <<durableVars, planning, apiVars, envVars>>
\* A refused bind ends the tick and leaves the run alone.
Bind(k) ==
  /\ tick.pc = "idle" /\ launch[k].st = "started"
  /\ \/ /\ BindTaskRun(launch[k].task, launch[k].run)
        /\ tick' = [Relocked(k) EXCEPT !.pc = "stamp"]
     \/ ~CanBind(launch[k].task, launch[k].run) /\ UNCHANGED <<durableVars, tick>>
  /\ launch' = [launch EXCEPT ![k] = NoLaunch]
  /\ UNCHANGED <<planning, apiVars, envVars>>
Stamp ==
  /\ tick.pc = "stamp"
  /\ \/ MarkRunStarted(tick.task)
     \/ /\ task[tick.task].run = NoRun \/ task[tick.task].clock # NoRun
        /\ UNCHANGED durableVars
  /\ tick' = [tick EXCEPT !.pc = "fresh"]
  /\ UNCHANGED <<launch, planning, apiVars, envVars>>

----------------------------------------------------------------------------
(* The budget: every active task is stopped and failed, then the goal.      *)
BudgetTask(t) ==
  /\ tick.pc = "budget" /\ t \in tick.todo
  /\ \E S \in Stopped(RunsOf({t})) : Stop(S)
  /\ FinishTask(t, "fail", TRUE, task[t].run) \/ (~CanFinish(t, "fail", TRUE) /\ UNCHANGED durableVars)
  /\ tick' = [tick EXCEPT !.todo = @ \ {t}]
  /\ UNCHANGED <<launch, planning, apiVars, expired, crashes>>
BudgetGoal ==
  /\ tick.pc = "budget" /\ tick.todo = {}
  /\ FailGoal(tick.goal)
  /\ tick' = Idle
  /\ UNCHANGED <<launch, planning, apiVars, envVars>>

----------------------------------------------------------------------------
(* The lead, the workers, the clock, and the death of the service. *)
PlannerReturns(g) ==
  /\ planning[g] = "busy"
  /\ planning' = [planning EXCEPT ![g] = "done"]
  /\ UNCHANGED <<durableVars, tick, launch, apiVars, envVars>>
RunExits(r) ==
  /\ Live(r)
  /\ runs' = [runs EXCEPT ![r].st = "exited"]
  /\ UNCHANGED <<durableVars, coordVars, apiVars, expired, crashes>>
RunAsks(r) ==
  /\ "ask" \in May /\ runs[r].st = "live"
  /\ runs' = [runs EXCEPT ![r].st = "asking"]
  /\ UNCHANGED <<durableVars, coordVars, apiVars, expired, crashes>>
WallExpires(g) ==
  /\ "wall" \in May /\ Known(g) /\ g \notin expired
  /\ expired' = expired \cup {g}
  /\ UNCHANGED <<durableVars, coordVars, apiVars, runs, crashes>>

\* The workers either survive, or are stopped when the next service starts and
\* their handles are unknown to it.
Crash ==
  /\ crashes < MaxCrashes
  /\ crashes' = crashes + 1
  /\ tick' = Idle
  /\ launch' = [k \in Claim |-> NoLaunch]
  /\ planning' = [g \in Goal |-> "none"]
  /\ cancelling' = [g \in Goal |-> "none"]
  /\ resuming' = {}
  /\ applying' = [d \in Decision |-> "none"]
  /\ runs' = [r \in Run |-> IF "reaped" \in May /\ runs[r].st # "unused"
                            THEN [runs[r] EXCEPT !.st = "lost"] ELSE runs[r]]
  /\ UNCHANGED <<durableVars, expired>>

----------------------------------------------------------------------------
ApiNext ==
  \/ \E g \in Goal : ApiSubmit(g) \/ ApiCancel(g) \/ ApiStopRuns(g) \/ ApiEffect(g)
  \/ \E t \in Task : ApiRetry(t) \/ ApiResume(t)
  \/ \E d \in Decision : \/ ApiAnswer(d) \/ ApiRecord(d) \/ ApiCheckpoint(d)
                         \/ ApiContinue(d) \/ ApiStop(d) \/ ApiReconcile(d)

TickBegins(g) == \/ TickCancel(g) \/ TickTerminated(g) \/ TickPlan(g)
                 \/ TickPlanned(g) \/ TickAdvance(g)
TickContinues == \/ TickEffect \/ Admit \/ Observe \/ ObserveFresh \/ Finish \/ Reconcile \/ Park
                 \/ Dispatch \/ Stamp \/ BudgetGoal
                 \/ \E k \in Claim : DispatchOne(k)
                 \/ \E t \in Task : BudgetTask(t)
LaunchNext(k) == StartRun(k) \/ StartFailed(k) \/ Bind(k)
TickNext == \/ \E g \in Goal : TickBegins(g)
            \/ TickContinues
            \/ \E k \in Claim : LaunchNext(k)

EnvNext == \/ \E g \in Goal : PlannerReturns(g) \/ WallExpires(g)
           \/ \E r \in Run : RunExits(r) \/ RunAsks(r)
           \/ Crash

CoordNext == ApiNext \/ TickNext \/ EnvNext
CoordSpec == CoordInit /\ [][CoordNext]_vars

\* A thread that runs goes on, start_run and the lead return and workers end.
\* CoordinatorLoop ticks every goal again and again; a thread that waits for
\* the lock gets it in the end.
Fairness ==
  /\ WF_vars(TickContinues)
  /\ \A g \in Goal : /\ SF_vars(TickBegins(g))
                     /\ WF_vars(PlannerReturns(g))
                     /\ WF_vars(ApiStopRuns(g)) /\ WF_vars(ApiEffect(g))
  /\ \A t \in Task : WF_vars(ApiResume(t))
  /\ \A d \in Decision : /\ WF_vars(ApiRecord(d))
                         /\ WF_vars(ApiContinue(d) \/ ApiStop(d) \/ ApiReconcile(d))
  /\ \A k \in Claim : WF_vars(StartRun(k)) /\ SF_vars(StartFailed(k) \/ Bind(k))
  /\ \A r \in Run : WF_vars(RunExits(r))
FairSpec == CoordSpec /\ Fairness

----------------------------------------------------------------------------
(* Safety. *)

RunsFor(t)  == {r \in Run : runs[r].task = t}
Working     == {r \in Run : Live(r)}

\* The store counts tasks, not workers: a worker is seen only while the task it
\* was started for is running.  Six things take the task away from under its
\* worker: a cancellation during a start, a budget stop for time or for
\* reworks, a stop that fails, an observation that fails, a crash that leaves the
\* workers alive.
NothingStrands ==
  /\ May \cap {"cancel", "wall", "cancelFails", "observeFails"} = {}
  /\ MaxRetries <= MaxReworks              \* no goal runs out of its budget
  /\ MaxCrashes = 0 \/ "reaped" \in May    \* no worker outlives the service

\* docs/application-api.zh-CN.md:201 says that one directory runs one task at a
\* time, whichever goal it is of.  The code keeps this only under NothingStrands:
\* each of the six things listed there lets the next task into the directory of a
\* worker that still runs, and then this is false.  Without them no order of
\* dispatch, launch, checkpoint, continue, retry and a restart that ends the workers
\* puts two workers into one directory.
OneWorkerPerDirectory ==
  \A r, s \in Working : Dir[runs[r].task] = Dir[runs[s].task] => r = s

\* max_parallel_per_goal and max_parallel_global bound the workers that really
\* run, although they are counted on the tasks of the store: under NothingStrands
\* only, as above.
WorkersWithinLimits ==
  /\ Cardinality(Working) <= Global
  /\ \A g \in Goal : Cardinality({r \in Working : GoalOf[runs[r].task] = g}) <= PerGoal

\* "retry" and "continue" are the only ways to a second run of a goal's task:
\* whatever fails, crashes or is cancelled in between, workers are never
\* started more often than the retry_task rows that max_reworks counts.
EveryRunIsCounted ==
  \A t \in Task : Cardinality(RunsFor(t)) <= 1 + goal[GoalOf[t]].retries

\* Until the service dies, a parked task is one that somebody can still answer:
\* its checkpoint is pending, or the thread that recorded the verdict is applying it.
\* Of a task's checkpoints this is the one it is parked on: a second one opened
\* beside it is not looked at.
ParkedIsAnswerable ==
  \A t \in Task : crashes = 0 /\ FreesSlot(t) =>
    LET d == task[t].parkedOn IN
    decision[d].status = "pending" \/ applying[d] \in {"continue", "stop"}

\* Until the service dies, a goal none of whose tasks can go on is about to be
\* closed by the thread that finished its last task.  "Can go on" is the code's own
\* has_progress_path (concurrency.py:75-84), which counts a Stranded chain.
SettledIsClosed ==
  \A g \in Goal :
    /\ crashes = 0 /\ TasksOf(g) # {} /\ ~HasProgress(g) /\ goal[g].state \in {"queued", "running"}
    => \/ tick.goal = g /\ tick.pc \in {"admit", "reconcile", "budget"}
       \/ \E d \in Decision : decision[d].goal = g /\ applying[d] = "reconcile"
----------------------------------------------------------------------------
(* Liveness. *)

\* A requested cancellation ends, however it races with launches, results,
\* checkpoints, the budget and a restart that keeps the workers and their handles.
CancelEnds == \A g \in Goal : goal[g].state = "cancel_requested" ~> goal[g].state \in TerminalGoal

\* Nothing of the goal runs or can be dispatched, but a queued task waits for a
\* queued one that waits for a failed one.  concurrency.py:82 looks one step back
\* only and takes the middle task for a live dependency: the goal is never closed.
Stranded(g) ==
  /\ \A t \in TasksOf(g) : task[t].status \notin InFlight /\ ~Ready(t)
  /\ \E t \in TasksOf(g) : \E u \in DependsOn[t] : \E v \in DependsOn[u] :
       /\ task[t].status = "queued" /\ task[u].status = "queued"
       /\ task[v].status \in {"failed", "cancelled"}

\* Until the service dies a goal does not hang but in the one way of Stranded,
\* which takes three tasks in a chain and no failure of the service: otherwise it is
\* again and again terminal, or a person has a decision to make.
GoalSettles ==
  \A g \in Goal : Known(g) ~> \/ goal[g].state \in TerminalGoal
                              \/ Pending(g) # {}
                              \/ Stranded(g)
                              \/ crashes > 0
=============================================================================
