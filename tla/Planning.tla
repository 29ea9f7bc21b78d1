------------------------------- MODULE Planning -------------------------------
(* How a goal gets its tasks (app_service.py, lead_adapter/).  A tick of the     *)
(* coordinator starts one lead call on a thread of its own and lets go of its    *)
(* lock while it waits; a cancel, another tick, the end of the goal or of the    *)
(* service may come meanwhile.  The call is a process with descendants: its     *)
(* thread records it for the next service, puts it in the scope a cancel stops,  *)
(* and waits for it.                                                             *)
EXTENDS Naturals, Sequences, SequencesExt, FiniteSets

CONSTANTS
  Ticker,        \* who calls process_goal: the loop of the service, its callers
  Loop,
  MaxCalls,      \* bound: lead calls in progress at a time, leftovers included
  Adapter,       \* the lead adapter the service uses
  Output,        \* what a lead may print and how it may exit
  Wanted,        \* the artifacts the acceptance of the goal names
  MaxPlanTasks,  \* MAX_PLAN_TASKS
  MaxStops,      \* bound: crashes and shutdowns of the service
  NoTicker, Nothing

StrictAdapter == {"codex_cli", "claude_code"}
ASSUME PlanningAssumption ==
  /\ Loop \in Ticker /\ Adapter \in StrictAdapter \cup {"grok_cli", "deepseek_harness"}
  /\ {MaxPlanTasks, MaxCalls} \subseteq Nat \ {0} /\ MaxStops \in Nat
  /\ NoTicker \notin Ticker
  /\ \A out \in Output : out.draft.rows \in Seq(Range(out.draft.rows))   \* a JSON list

Call == 1..MaxCalls
NoCall == 0

VARIABLES
  goal,       \* as stored: its state, the tasks, whether planning failed it
  service,    \* "up", "stopping", "swept", "down"
  lock,       \* the ticker that has the coordinator lock
  tick,       \* where each ticker stands
  planning,   \* _planning_jobs: the call registered for the goal
  call,       \* thread, scope and result of each call
  alive,      \* the lead processes that run
  registry,   \* lead-runs.json
  stopping,   \* a thread that is to stop the planning has been started
  stops
pvars == <<goal, service, lock, tick, planning, call, alive, registry, stopping, stops>>

Ended == {"completed", "failed", "cancelled"}
NewCall == [pc |-> "unused", cancelled |-> FALSE, attached |-> FALSE, done |-> FALSE, plan |-> Nothing]
AtRest == [pc |-> "idle", call |-> NoCall, left |-> <<>>]

PlanInit ==
  /\ goal = [state |-> "queued", tasks |-> <<>>, misplanned |-> FALSE]
  /\ service = "up" /\ lock = NoTicker /\ planning = NoCall /\ stopping = FALSE
  /\ tick = [t \in Ticker |-> AtRest]
  /\ call = [k \in Call |-> NewCall]
  /\ alive = {} /\ registry = {} /\ stops = 0

At(t, pc) == tick[t].pc = pc
Leave(t) == lock' = NoTicker /\ tick' = [tick EXCEPT ![t] = AtRest]

----------------------------------------------------------------------------
(* What a lead answers, and which plans are admitted.  A draft is a record of    *)
(* whether it echoes the id and the summary of its request, and its rows.        *)

\* An output is how the lead exits, the form of what it prints ("object", an object in
\* an "envelope" or in "text", "none") and the draft that is in it.  One exit code and
\* one object, nothing else:
StrictDecision(out) ==
  IF ~out.nonzero /\ out.form = "object" /\ out.draft.id THEN out.draft ELSE Nothing
\* Whatever object can be found in it, even if the lead has failed.
Unwrapped(out) == IF out.form = "none" THEN Nothing ELSE out.draft
LooseDecision(out) == IF out.nonzero /\ out.form = "none" THEN Nothing ELSE Unwrapped(out)
Decision(out) == IF Adapter \in StrictAdapter THEN StrictDecision(out) ELSE LooseDecision(out)

Keys(draft) == {draft.rows[i].key : i \in DOMAIN draft.rows}
\* The strict adapters compare the id, and so does validate_plan.
ForThisRequest(draft) == draft.id /\ draft.summary
UniqueKeys(draft) == Cardinality(Keys(draft)) = Len(draft.rows)
DoneWithin(row) == row.done \subseteq row.artifacts
\* Dependencies are known keys; a cycle of them is not looked for.
DepsKnown(draft, row) == row.deps \subseteq Keys(draft) \ {row.key}
Delivered(draft) == UNION {draft.rows[i].artifacts : i \in DOMAIN draft.rows}

ValidPlan(draft) ==
  /\ draft # Nothing /\ ForThisRequest(draft)
  /\ Len(draft.rows) \in 1..MaxPlanTasks
  /\ UniqueKeys(draft)
  /\ \A i \in DOMAIN draft.rows : DoneWithin(draft.rows[i]) /\ DepsKnown(draft, draft.rows[i])
  /\ Wanted \subseteq Delivered(draft)

----------------------------------------------------------------------------
(* The thread of a call.                                                       *)

\* A scope that is cancelled before the lead exists, the CLI not found, a flag that is
\* forbidden, a system that refuses.
SpawnFails(k) ==
  /\ call[k].pc = "thread"
  /\ call' = [call EXCEPT ![k] = [@ EXCEPT !.pc = "over", !.done = TRUE]]
  /\ UNCHANGED <<goal, service, lock, tick, planning, alive, registry, stopping, stops>>

SpawnLead(k) ==
  /\ call[k].pc = "thread" /\ ~call[k].cancelled
  /\ alive' = alive \cup {k}
  /\ call' = [call EXCEPT ![k].pc = "spawned"]
  /\ UNCHANGED <<goal, service, lock, tick, planning, registry, stopping, stops>>

RegisterProcess(k) ==
  /\ call[k].pc = "spawned"
  /\ registry' = registry \cup {k}
  /\ call' = [call EXCEPT ![k].pc = "recorded"]
  /\ UNCHANGED <<goal, service, lock, tick, planning, alive, stopping, stops>>

\* Mutant: the scope does not look whether it has been cancelled already.
AttachOnly(k) ==
  /\ call[k].pc = "recorded"
  /\ call' = [call EXCEPT ![k] = [@ EXCEPT !.pc = "waiting", !.attached = TRUE]]
  /\ UNCHANGED <<goal, service, lock, tick, planning, alive, registry, stopping, stops>>
\* stop_process_tree: the group gets a TERM and then a KILL.
StopTrees(procs) == alive' = alive \ procs
\* CancelScope.attach: a lead that comes late is stopped at once.
Attach(k) ==
  /\ call[k].pc = "recorded"
  /\ call' = [call EXCEPT ![k] = [@ EXCEPT !.pc = "waiting", !.attached = ~call[k].cancelled]]
  /\ StopTrees(IF call[k].cancelled THEN {k} ELSE {})
  /\ UNCHANGED <<goal, service, lock, tick, planning, registry, stopping, stops>>

\* The lead ends by itself; what its thread will make of its output is fixed by then.
LeadExits(k) ==
  /\ k \in alive /\ alive' = alive \ {k}
  /\ \E out \in Output : call' = [call EXCEPT ![k].plan =
       IF call[k].pc # "unused" /\ ~call[k].cancelled /\ ValidPlan(Decision(out))
       THEN Decision(out) ELSE Nothing]
  /\ UNCHANGED <<goal, service, lock, tick, planning, registry, stopping, stops>>

\* communicate returns, the lead leaves the scope and the registry, decide answers.
CallReturns(k) ==
  /\ call[k].pc = "waiting" /\ k \notin alive
  /\ call' = [call EXCEPT ![k] = [NewCall EXCEPT !.pc = "over", !.done = TRUE,
                !.plan = IF call[k].cancelled THEN Nothing ELSE call[k].plan]]
  /\ registry' = registry \ {k}
  /\ UNCHANGED <<goal, service, lock, tick, planning, alive, stopping, stops>>

\* Mutant: done is set by a plan, not by every end of the thread.
CallTimesOutUndone(k) ==
  /\ call[k].pc = "waiting" /\ k \in alive
  /\ alive' = alive \ {k} /\ registry' = registry \ {k}
  /\ call' = [call EXCEPT ![k] = [NewCall EXCEPT !.pc = "over"]]
  /\ UNCHANGED <<goal, service, lock, tick, planning, stopping, stops>>
\* The limit of the call, or the cancel its poll has seen: the tree is stopped.
CallTimesOut(k) ==
  /\ call[k].pc = "waiting" /\ k \in alive
  /\ StopTrees({k}) /\ registry' = registry \ {k}
  /\ call' = [call EXCEPT ![k] = [NewCall EXCEPT !.pc = "over", !.done = TRUE]]
  /\ UNCHANGED <<goal, service, lock, tick, planning, stopping, stops>>

CallStep(k) == SpawnFails(k) \/ SpawnLead(k) \/ RegisterProcess(k) \/ Attach(k) \/ CallReturns(k)

----------------------------------------------------------------------------
(* Stopping the planning.                                                      *)

\* stop_planning: the call loses its place; if it is not done its scope is cancelled
\* and the leads in it are stopped.
Unplanned(k) ==
  /\ planning' = NoCall
  /\ IF k = NoCall \/ (k # NoCall /\ call[k].done) THEN UNCHANGED <<call, alive>>
     ELSE /\ call' = [call EXCEPT ![k] = [@ EXCEPT !.cancelled = TRUE, !.attached = FALSE]]
          /\ StopTrees(IF call[k].attached THEN {k} ELSE {})

StopPlanning ==
  /\ stopping /\ service # "down"
  /\ Unplanned(planning) /\ stopping' = FALSE
  /\ UNCHANGED <<goal, service, lock, tick, registry, stops>>

\* _stop_planning_async: a call that is done is dropped, another gets a thread to stop it.
StopAsync ==
  IF planning = NoCall THEN UNCHANGED <<planning, stopping>>
  ELSE IF call[planning].done THEN planning' = NoCall /\ UNCHANGED stopping
  ELSE stopping' = TRUE /\ UNCHANGED planning

\* The cancel of a caller, not under the lock: the goal refuses from now on, then the
\* planning is stopped; a goal without a worker is then cancelled at once.
CancelGoal ==
  /\ service # "down" /\ goal.state \in {"queued", "running"}
  /\ goal' = [goal EXCEPT !.state = "cancel_requested"]
  /\ stopping' = TRUE
  /\ UNCHANGED <<service, lock, tick, planning, call, alive, registry, stops>>

CancelEffected ==
  /\ service # "down" /\ goal.state = "cancel_requested" /\ ~stopping
  /\ goal' = [goal EXCEPT !.state = "cancelled"]
  /\ UNCHANGED <<service, lock, tick, planning, call, alive, registry, stopping, stops>>

----------------------------------------------------------------------------
(* A tick.                                                                     *)

\* The loop looks at every goal, the ended ones too, until the service stops.
BeginTick(t) ==
  /\ service = "up" /\ lock = NoTicker /\ At(t, "idle")
  /\ lock' = t
  /\ tick' = [tick EXCEPT ![t].pc =
       IF goal.state = "cancel_requested" THEN "cancelled"
       ELSE IF goal.state \in Ended THEN "ended"
       ELSE IF goal.tasks # <<>> THEN "advance" ELSE "plan"]
  /\ UNCHANGED <<goal, service, planning, call, alive, registry, stopping, stops>>

\* No task has a worker yet.
TickOfCancelled(t) ==
  /\ At(t, "cancelled") /\ Leave(t) /\ StopAsync
  /\ goal' = IF goal.state = "cancel_requested" THEN [goal EXCEPT !.state = "cancelled"] ELSE goal
  /\ UNCHANGED <<service, call, alive, registry, stops>>

TickOfEnded(t) ==
  /\ At(t, "ended") /\ Leave(t) /\ StopAsync
  /\ UNCHANGED <<goal, service, call, alive, registry, stops>>

\* A goal with tasks is advanced (Coordinator).
Advance(t) ==
  /\ At(t, "advance") /\ Leave(t)
  /\ UNCHANGED <<goal, service, planning, call, alive, registry, stopping, stops>>

\* A call that nothing holds any more.
Free(k) == /\ call[k].pc \in {"unused", "over"} /\ k \notin alive /\ k # planning
           /\ \A t \in Ticker : tick[t].call # k
NextFree == Min({k \in Call : Free(k)})

\* The first tick starts the call and waits a moment without the lock.
StartCall(t) ==
  /\ At(t, "plan") /\ planning = NoCall /\ \E k \in Call : Free(k)
  /\ LET k == NextFree IN
       /\ call' = [call EXCEPT ![k] = [NewCall EXCEPT !.pc = "thread"]]
       /\ registry' = registry \ {k}
       /\ planning' = k
       /\ tick' = [tick EXCEPT ![t] = [AtRest EXCEPT !.pc = "wait", !.call = k]]
  /\ lock' = NoTicker
  /\ UNCHANGED <<goal, service, alive, stopping, stops>>

StillPlanning(t) ==
  /\ At(t, "plan") /\ planning # NoCall /\ ~call[planning].done
  /\ Leave(t)
  /\ UNCHANGED <<goal, service, planning, call, alive, registry, stopping, stops>>

PickUp(t) ==
  /\ At(t, "plan") /\ planning # NoCall /\ call[planning].done
  /\ tick' = [tick EXCEPT ![t] = [AtRest EXCEPT !.pc = "take", !.call = planning]]
  /\ planning' = NoCall
  /\ UNCHANGED <<goal, service, lock, call, alive, registry, stopping, stops>>

\* The wait of the first tick ends.  It removes whatever is registered by now and goes
\* on with its own call.
WaitEnds(t) ==
  /\ At(t, "wait") /\ lock = NoTicker
  /\ IF call[tick[t].call].done
     THEN /\ planning' = NoCall /\ lock' = t
          /\ tick' = [tick EXCEPT ![t].pc = "take"]
     ELSE Leave(t) /\ UNCHANGED planning
  /\ UNCHANGED <<goal, service, call, alive, registry, stopping, stops>>

\* Mutant: nobody looks at the goal again after the wait.
Wants == goal.state \notin Ended
\* The goal may have changed while the lead planned.
StillWants == goal.state \in {"queued", "running"} /\ goal.tasks = <<>>

Discard(t) ==
  /\ At(t, "take") /\ ~StillWants /\ Leave(t)
  /\ UNCHANGED <<goal, service, planning, call, alive, registry, stopping, stops>>

TakePlan(t) ==
  /\ At(t, "take") /\ StillWants
  /\ LET plan == call[tick[t].call].plan IN
       tick' = [tick EXCEPT ![t] = IF plan = Nothing THEN [AtRest EXCEPT !.pc = "fail"]
                                   ELSE [AtRest EXCEPT !.pc = "admit", !.left = plan.rows]]
  /\ UNCHANGED <<goal, service, lock, planning, call, alive, registry, stopping, stops>>

\* fail_goal: an end stays what it is.
FailPlanning(t) ==
  /\ At(t, "fail") /\ Leave(t)
  /\ goal' = IF goal.state \in Ended THEN goal
             ELSE [goal EXCEPT !.state = "failed", !.misplanned = TRUE]
  /\ UNCHANGED <<service, planning, call, alive, registry, stopping, stops>>

\* add_child_task, each a transaction: a cancel in between leaves a part of the plan.
Admit(t) ==
  /\ At(t, "admit") /\ tick[t].left # <<>> /\ goal.state \in {"queued", "running"}
  /\ goal' = [goal EXCEPT !.state = "running", !.tasks = Append(@, Head(tick[t].left))]
  /\ tick' = [tick EXCEPT ![t].left = Tail(@)]
  /\ UNCHANGED <<service, lock, planning, call, alive, registry, stopping, stops>>

Admitted(t) ==
  /\ At(t, "admit") /\ (tick[t].left = <<>> \/ goal.state \notin {"queued", "running"})
  /\ Leave(t)
  /\ UNCHANGED <<goal, service, planning, call, alive, registry, stopping, stops>>

TickStep(t) ==
  \/ TickOfCancelled(t) \/ TickOfEnded(t) \/ Advance(t)
  \/ StartCall(t) \/ StillPlanning(t) \/ PickUp(t) \/ WaitEnds(t)
  \/ Discard(t) \/ TakePlan(t) \/ FailPlanning(t) \/ Admit(t) \/ Admitted(t)

----------------------------------------------------------------------------
(* The service stops, and starts again.                                        *)

\* The calls of a service that has gone: nobody waits for their leads.
Gone == /\ lock' = NoTicker /\ planning' = NoCall /\ stopping' = FALSE
        /\ tick' = [t \in Ticker |-> AtRest]
        /\ call' = [k \in Call |-> NewCall]
        /\ service' = "down"

Crash ==
  /\ service # "down" /\ stops < MaxStops /\ stops' = stops + 1
  /\ Gone /\ UNCHANGED <<goal, alive, registry>>

\* The loop and the callers are told to stop; a tick that goes on is not waited for long.
Shutdown ==
  /\ service = "up" /\ stops < MaxStops /\ stops' = stops + 1
  /\ service' = "stopping"
  /\ UNCHANGED <<goal, lock, tick, planning, call, alive, registry, stopping>>

StopAllPlanning ==
  /\ service = "stopping" /\ service' = "swept"
  /\ Unplanned(planning)
  /\ UNCHANGED <<goal, lock, tick, registry, stopping, stops>>

Exit ==
  /\ service = "swept" /\ Gone
  /\ UNCHANGED <<goal, alive, registry, stops>>

\* The leads a dead service has recorded are stopped first.
Start ==
  /\ service = "down" /\ service' = "up"
  /\ StopTrees(registry) /\ registry' = {}
  /\ UNCHANGED <<goal, lock, tick, planning, call, stopping, stops>>

PlanNext ==
  \/ \E t \in Ticker : BeginTick(t) \/ TickStep(t)
  \/ \E k \in Call : CallStep(k) \/ LeadExits(k) \/ CallTimesOut(k)
  \/ StopPlanning \/ CancelGoal \/ CancelEffected
  \/ Crash \/ Shutdown \/ StopAllPlanning \/ Exit \/ Start

----------------------------------------------------------------------------
(* Properties.                                                                 *)

\* Every variable has the shape above, and only a thread that got that far is recorded.
PlanTypeOK ==
  /\ goal.state \in Ended \cup {"queued", "running", "cancel_requested"}
  /\ service \in {"up", "stopping", "swept", "down"}
  /\ lock \in Ticker \cup {NoTicker} /\ planning \in Call \cup {NoCall}
  /\ \A t \in Ticker : tick[t].call \in Call \cup {NoCall}
  /\ \A k \in Call : call[k].pc \in {"unused", "thread", "spawned", "recorded", "waiting", "over"}
  /\ alive \subseteq Call /\ registry \subseteq Call /\ stops \in 0..MaxStops

\* The tasks of a goal come from one answer of a lead, each once, and a goal that has
\* tasks is not failed for want of a plan: a tick that has waited without the lock
\* may find that another has planned, cancelled or failed the goal
\* (app_service.py:1739-1746).
PlannedOnce ==
  /\ \A i, j \in DOMAIN goal.tasks : goal.tasks[i].key = goal.tasks[j].key => i = j
  /\ goal.misplanned => goal.tasks = <<>>

\* A lead whose goal has ended is stopped, whether or not it would have ended: the
\* cancel stops it, or the scope it is put in, or a tick of the ended goal, or the
\* next service.  A service that dies between the two statements that create the
\* lead and record it leaves one that nobody knows
\* ("stopped now, not at its timeout", app_service.py:4015; collab-service.py:253-261).
\* So is one whose place another tick has cleared on waking up (app_service.py:1841).
Forgotten(k) == call[k].pc # "unused" /\ planning # k /\ ~call[k].cancelled
Stray(k) == goal.state \in Ended /\ k \in alive \cap registry /\ ~Forgotten(k)
LeadIsStopped == (\E k \in Call : Stray(k)) ~> (\A k \in Call : ~Stray(k))

\* A goal waits for its plan only as long as a lead is working on it: it gets tasks
\* or an end, however its ticks, the stop threads and the restarts interleave.  Any
\* lead alive counts, also one whose answer nobody waits for any more.
PlanningEnds ==
  (goal.state = "queued") ~> (goal.state # "queued" \/ alive # {})
=============================================================================
