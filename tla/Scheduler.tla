------------------------------ MODULE Scheduler ------------------------------
(* The parallel scheduler (scheduler.py) over its resumable store              *)
(* (state_store.py).  One thread runs ticks: start queued jobs, scan the       *)
(* permissions its sessions wait for, answer one per job, refresh the active   *)
(* jobs.  request_cancel is called from other threads.  The workers behind     *)
(* the sessions, and the clock, run on their own.  A crash loses the slots,    *)
(* not the store and not the sessions.  The permission rules are those of      *)
(* task_auth.py and hard_rules.py.                                             *)
EXTENDS Naturals, FiniteSets

CONSTANTS
  NJobs,          \* jobs 1..NJobs, in the order they were enqueued
  Perm,           \* permission requests the workers may raise
  JobOf,          \* the job whose session raises the request
  Contents,       \* what a request may ask for; it may change while it is open
  Reviewed,       \* jobs with force_lead_review
  Cancellable,    \* jobs somebody may cancel
  MaxParallel,
  MaxFaults,      \* bound: calls that the worker's server refuses
  MaxCrashes,     \* bound: crashes of the scheduler
  NoPerm, NoJob

Job == 1..NJobs

\* What the rules tell apart in a request under the charter of its job.
Trait == {"gated", "outside", "unchecked", "eternal", "secret", "always", "listed"}

ASSUME SchedulerAssumption ==
  /\ NJobs \in Nat \ {0} /\ MaxParallel \in Nat \ {0}
  /\ MaxFaults \in Nat /\ MaxCrashes \in Nat
  /\ JobOf \in [Perm -> Job]
  /\ Contents \in [Perm -> SUBSET SUBSET Trait]
  /\ Reviewed \subseteq Job /\ Cancellable \subseteq Job
  /\ NoPerm \notin Perm /\ NoJob \notin Job

VARIABLES
  slot,     \* the JobSlot of each job, in memory
  record,   \* its JobRecord in the store
  decided,  \* the reply the store records for a permission, or "none"
  tick,     \* where the scheduler's thread stands
  cancel,   \* a cancel of the job: "none", "marked" (in memory), "made"
  late,     \* the wall deadline of the job has passed
  session,  \* the worker: its state, the prompts it got, told to stop or not
  ask,      \* a permission request: its state, what it wants, the reply it got, and
            \* what it wanted when the reply that granted it was confirmed
  faults, crashes
vars == <<slot, record, decided, tick, cancel, late, session, ask, faults, crashes>>
world == <<session, ask, late>>

Terminal == {"done", "fail", "timeout", "cancelled"}
Active   == {"starting", "running", "pending_approval", "cancel_requested"}

NewSlot == [state |-> "queued", session |-> FALSE, started |-> FALSE,
            restored |-> FALSE, handled |-> {}, asked |-> {}]
RecordOf(s) == [state |-> s.state, session |-> s.session,
                started |-> s.started, handled |-> s.handled]
Unread == [p \in Perm |-> {}]
Between == [pc |-> "between", job |-> NoJob, perm |-> NoPerm, reply |-> "none",
            todo |-> {}, queue |-> {}, read |-> Unread]

Init ==
  /\ slot   = [j \in Job |-> NewSlot]
  /\ record = [j \in Job |-> RecordOf(NewSlot)]
  /\ decided = [p \in Perm |-> "none"]
  /\ tick = Between
  /\ cancel = [j \in Job |-> "none"]
  /\ late = [j \in Job |-> FALSE]
  /\ session = [j \in Job |-> [state |-> "none", prompts |-> 0, told |-> FALSE]]
  /\ ask = [p \in Perm |-> [state |-> "none", wants |-> {}, reply |-> "none",
                            granted |-> {}]]
  /\ faults = 0 /\ crashes = 0

Up == tick.pc # "down"
At(pc) == tick.pc = pc
Goto(pc) == tick' = [tick EXCEPT !.pc = pc]
Fault == faults < MaxFaults /\ faults' = faults + 1

\* _persist_job: the record becomes a copy of the slot.
Persist(j) == record' = [record EXCEPT ![j] = RecordOf(slot'[j])]

\* A change of one slot that is persisted at once.
Save(j, s) == slot' = [slot EXCEPT ![j] = s] /\ Persist(j)
SetState(j, state) == Save(j, [slot[j] EXCEPT !.state = state])

-----------------------------------------------------------------------------
(* Starting jobs.                                                             *)

ActiveCount == Cardinality({j \in Job : slot[j].state \in Active})
Queued == {j \in Job : slot[j].state = "queued"}
NextQueued == CHOOSE j \in Queued : \A i \in Queued : j <= i
MayStart == ActiveCount < MaxParallel /\ Queued # {}

\* run: ticks go on until every job is terminal.
BeginTick ==
  /\ At("between")
  /\ \E j \in Job : slot[j].state \notin Terminal
  /\ Goto("start")
  /\ UNCHANGED <<slot, record, decided, cancel, world, faults, crashes>>

StartsDone ==
  /\ At("start") /\ ~MayStart
  /\ Goto("scan")
  /\ UNCHANGED <<slot, record, decided, cancel, world, faults, crashes>>

\* A restored job is monitored, never dispatched again.
\* Mutant: a restored job is dispatched like a new one.
StartRestoredAgain ==
  /\ At("start") /\ MayStart /\ slot[NextQueued].restored
  /\ slot' = [slot EXCEPT ![NextQueued].state = "starting"]
  /\ tick' = [tick EXCEPT !.pc = "prompt", !.job = NextQueued]
  /\ UNCHANGED <<record, decided, cancel, world, faults, crashes>>
StartRestored ==
  /\ At("start") /\ MayStart /\ slot[NextQueued].restored
  /\ SetState(NextQueued, IF slot[NextQueued].session THEN "running" ELSE "fail")
  /\ UNCHANGED <<decided, tick, cancel, world, faults, crashes>>

StartQueued ==
  /\ At("start") /\ MayStart /\ ~slot[NextQueued].restored
  /\ slot' = [slot EXCEPT ![NextQueued].state = "starting"]
  /\ tick' = [tick EXCEPT !.pc = "claim", !.job = NextQueued]
  /\ UNCHANGED <<record, decided, cancel, world, faults, crashes>>

\* should_dispatch: the store refuses a job that is ended, claimed or cancelled.
ShouldDispatch(j) ==
  /\ record[j].state \notin Terminal \cup {"cancel_requested"}
  /\ ~record[j].session

\* The session is created and claimed in the store before it is prompted.
ClaimSession ==
  /\ At("claim") /\ ShouldDispatch(tick.job)
  /\ record' = [record EXCEPT ![tick.job].session = TRUE]
  /\ slot' = [slot EXCEPT ![tick.job].session = TRUE]
  /\ session' = [session EXCEPT ![tick.job].state = "idle"]
  /\ Goto("prompt")
  /\ UNCHANGED <<decided, cancel, ask, late, faults, crashes>>

StartFails ==
  /\ At("claim")
  /\ \/ ~ShouldDispatch(tick.job) /\ UNCHANGED faults
     \/ ShouldDispatch(tick.job) /\ Fault
  /\ SetState(tick.job, "fail")
  /\ Goto("start")
  /\ UNCHANGED <<decided, cancel, world, crashes>>

Prompted(j) ==
  session' = [session EXCEPT ![j] = [@ EXCEPT !.state = "busy", !.prompts = session[j].prompts + 1]]

\* prompt_async is answered.
Prompt ==
  /\ At("prompt")
  /\ Prompted(tick.job)
  /\ Goto("started")
  /\ UNCHANGED <<slot, record, decided, cancel, ask, late, faults, crashes>>

\* prompt_async is refused, or its answer is lost: the job fails either way.
PromptFails ==
  /\ At("prompt") /\ Fault
  /\ Prompted(tick.job) \/ UNCHANGED session
  /\ SetState(tick.job, "fail")
  /\ Goto("start")
  /\ UNCHANGED <<decided, cancel, ask, late, crashes>>

\* The job runs and has a deadline; both are written only now.
\* Mutant: the deadline is not set.
StartedUnclocked ==
  /\ At("started")
  /\ Save(tick.job, [slot[tick.job] EXCEPT !.state = "running"])
  /\ Goto("start")
  /\ UNCHANGED <<decided, cancel, world, faults, crashes>>
Started ==
  /\ At("started")
  /\ Save(tick.job, [slot[tick.job] EXCEPT !.state = "running", !.started = TRUE])
  /\ Goto("start")
  /\ UNCHANGED <<decided, cancel, world, faults, crashes>>

-----------------------------------------------------------------------------
(* Permissions: scan, decide, reply.                                          *)

Open(p) == ask[p].state = "open"

\* GET /permission: every job with an open request becomes pending_approval,
\* whatever its state; the first request of each job is handled this tick, as it
\* is read here.
Seen == {p \in Perm : Open(p) /\ slot[JobOf[p]].session}
FirstOfEachJob(ps) ==
  {q \in SUBSET ps : \A j \in {JobOf[p] : p \in ps} :
                       Cardinality({p \in q : JobOf[p] = j}) = 1}
Scan ==
  /\ At("scan")
  /\ slot' = [j \in Job |-> IF \E p \in Seen : JobOf[p] = j
                            THEN [slot[j] EXCEPT !.state = "pending_approval"]
                            ELSE slot[j]]
  /\ \E q \in FirstOfEachJob(Seen) :
       tick' = [tick EXCEPT !.pc = "handle", !.queue = q,
                            !.read = [p \in Perm |-> IF p \in q THEN ask[p].wants ELSE {}]]
  /\ UNCHANGED <<record, decided, cancel, world, faults, crashes>>

\* What the rules see in a request that wants w; how they read it off its paths,
\* patterns, tool and command, and off the charter, is not modelled.
Gated(w)       == "gated" \in w
Outside(w)     == "outside" \in w
Unchecked(w)   == "unchecked" \in w
Secret(w)      == "secret" \in w
Eternal(w)     == "eternal" \in w
WantsAlways(w) == "always" \in w
Listed(w)      == "listed" \in w

\* authorize_action: the user's gates first, then the limits of the task.  Where
\* it raises (a field of the charter is malformed: nothing validates it before)
\* that is noted and the request goes on to the hard rules.
Authorized(w) == Unchecked(w) \/ (~Gated(w) /\ ~Outside(w))

\* hard_rule_decision: "reject", "once" (on the charter's list) or "lead".
HardRule(w) ==
  IF Eternal(w) \/ (Secret(w) /\ (WantsAlways(w) \/ ~Listed(w))) THEN "reject"
  ELSE IF Secret(w) THEN "once" ELSE "lead"

Rule(w) == IF Authorized(w) THEN HardRule(w) ELSE "reject"
Route(p) == Rule(tick.read[p])

\* The lead's decision as a reply: "always" is once, a refused job a reject.
LeadDecision == {"once", "always", "reject", "demand_safe_path", "deny_job"}
ReplyOf(d) == IF d \in {"once", "always"} THEN "once" ELSE "reject"

HandleDone ==
  /\ At("handle") /\ tick.queue = {}
  /\ tick' = [tick EXCEPT !.pc = "refresh",
                          !.todo = {j \in Job : slot[j].state \in Active}]
  /\ UNCHANGED <<slot, record, decided, cancel, world, faults, crashes>>

Answered(p) == p \in slot[JobOf[p]].handled \/ decided[p] # "none"
Dequeue(p) == tick' = [tick EXCEPT !.pc = "handle", !.queue = @ \ {p}, !.read[p] = {},
                                   !.perm = NoPerm, !.reply = "none"]

\* Already handled, or already asked of the lead: nothing is sent.
Skip(p) ==
  /\ At("handle") /\ p \in tick.queue
  /\ \/ Answered(p)
     \/ Route(p) = "lead" /\ p \in slot[JobOf[p]].asked
  /\ slot' = IF decided[p] = "none" THEN slot
             ELSE [slot EXCEPT ![JobOf[p]].handled = @ \cup {p}]
  /\ Dequeue(p)
  /\ UNCHANGED <<record, decided, cancel, world, faults, crashes>>

\* A rule decides.
RuleDecides(p) ==
  /\ At("handle") /\ p \in tick.queue /\ ~Answered(p)
  /\ Route(p) # "lead"
  /\ tick' = [tick EXCEPT !.pc = "reply", !.perm = p, !.reply = Route(p)]
  /\ UNCHANGED <<slot, record, decided, cancel, world, faults, crashes>>

\* The lead is asked once for each request.
AskLead(p) ==
  /\ At("handle") /\ p \in tick.queue /\ ~Answered(p)
  /\ Route(p) = "lead" /\ p \notin slot[JobOf[p]].asked
  /\ slot' = [slot EXCEPT ![JobOf[p]].asked = @ \cup {p}]
  /\ tick' = [tick EXCEPT !.pc = "lead", !.perm = p]
  /\ UNCHANGED <<record, decided, cancel, world, faults, crashes>>

LeadAnswers ==
  /\ At("lead")
  /\ \E d \in LeadDecision :
       tick' = [tick EXCEPT !.pc = "reply",
                            !.reply = IF d = "deny_job" THEN d ELSE ReplyOf(d)]
  /\ UNCHANGED <<slot, record, decided, cancel, world, faults, crashes>>

\* The lead times out: the request may be put to it again.
LeadSilent ==
  /\ At("lead") /\ Fault
  /\ slot' = [slot EXCEPT ![JobOf[tick.perm]].asked = @ \ {tick.perm}]
  /\ Dequeue(tick.perm)
  /\ UNCHANGED <<record, decided, cancel, world, crashes>>

\* A refused job fails in memory once the reply was tried.
Denied(s) == IF tick.reply = "deny_job" THEN [s EXCEPT !.state = "fail"] ELSE s

\* _reconfirm_pending: the request is read again; it must be there and want what
\* it wanted when it was scanned.
Unchanged(p) == Open(p) /\ ask[p].wants = tick.read[p]
\* Mutant: that it is still there is enough.
ConfirmWhateverItWants ==
  /\ At("reply") /\ Open(tick.perm)
  /\ tick' = [tick EXCEPT !.pc = "post", !.read[tick.perm] = ask[tick.perm].wants]
  /\ UNCHANGED <<slot, record, decided, cancel, world, faults, crashes>>
Confirm ==
  /\ At("reply") /\ Unchanged(tick.perm)
  /\ tick' = [tick EXCEPT !.pc = "post", !.read[tick.perm] = ask[tick.perm].wants]
  /\ UNCHANGED <<slot, record, decided, cancel, world, faults, crashes>>

\* It is gone, it has changed, or the list cannot be read: not marked as handled.
ConfirmFails ==
  /\ At("reply")
  /\ \/ ~Unchanged(tick.perm) /\ UNCHANGED faults
     \/ Unchanged(tick.perm) /\ Fault
  /\ slot' = [slot EXCEPT ![JobOf[tick.perm]] = Denied(@)]
  /\ Dequeue(tick.perm)
  /\ UNCHANGED <<record, decided, cancel, world, crashes>>

\* POST of the reply: the worker gets it, whatever the request wants by now.
Taken ==
  LET r == ReplyOf(tick.reply)
  IN  ask' = [ask EXCEPT ![tick.perm] =
                [state |-> "closed", wants |-> {}, reply |-> r,
                 granted |-> IF r = "once" THEN tick.read[tick.perm] ELSE {}]]
Reply ==
  /\ At("post") /\ Open(tick.perm)
  /\ Taken
  /\ Goto("answered")
  /\ UNCHANGED <<slot, record, decided, cancel, session, late, faults, crashes>>

\* The request is gone, the call fails, or its answer is lost after the reply was
\* taken: not marked as handled in any case.
ReplyFails ==
  /\ At("post")
  /\ \/ ~Open(tick.perm) /\ UNCHANGED <<ask, faults>>
     \/ Open(tick.perm) /\ Fault /\ (Taken \/ UNCHANGED ask)
  /\ slot' = [slot EXCEPT ![JobOf[tick.perm]] = Denied(@)]
  /\ Dequeue(tick.perm)
  /\ UNCHANGED <<record, decided, cancel, session, late, crashes>>

Handled(s, p) == [s EXCEPT !.handled = @ \cup {p},
                           !.state = IF @ = "pending_approval" THEN "running" ELSE @]
\* The decision is recorded, the job runs on and is persisted.
RecordDecision ==
  LET j == JobOf[tick.perm]
      s == Handled(slot[j], tick.perm)
  IN  /\ At("answered")
      /\ decided' = [decided EXCEPT ![tick.perm] = ReplyOf(tick.reply)]
      /\ record' = [record EXCEPT ![j] = RecordOf(s)]
      /\ slot' = [slot EXCEPT ![j] = Denied(s)]
      /\ Dequeue(tick.perm)
      /\ UNCHANGED <<cancel, world, faults, crashes>>

-----------------------------------------------------------------------------
(* Refreshing the active jobs.                                                *)

\* A job that has ended meanwhile would be left alone; in a tick nothing else ends one.
Refreshing(j) == At("refresh") /\ j \in tick.todo
Refreshed(j) == tick' = [tick EXCEPT !.pc = "refresh", !.todo = @ \ {j},
                                     !.job = NoJob, !.reply = "none"]

RefreshDone ==
  /\ At("refresh") /\ tick.todo = {}
  /\ tick' = Between
  /\ UNCHANGED <<slot, record, decided, cancel, world, faults, crashes>>

\* A requested cancel, or a passed deadline: the worker is asked to stop.
Cancelling(j) == slot[j].state = "cancel_requested"
TimedOut(j) == ~Cancelling(j) /\ slot[j].started /\ late[j]

RequestAbort(j) ==
  /\ Refreshing(j) /\ slot[j].state \in Active
  /\ Cancelling(j) \/ TimedOut(j)
  /\ session' = [session EXCEPT ![j].told = @ \/ session[j].state # "none"]
  /\ tick' = [tick EXCEPT !.pc = "confirm", !.job = j,
                          !.reply = IF Cancelling(j) THEN "cancelled" ELSE "timeout"]
  /\ UNCHANGED <<slot, record, decided, cancel, ask, late, faults, crashes>>

AbortFails(j) ==
  /\ Refreshing(j) /\ slot[j].state \in Active /\ slot[j].session
  /\ Cancelling(j) \/ TimedOut(j)
  /\ Fault
  /\ IF Cancelling(j) THEN SetState(j, "cancel_requested") ELSE SetState(j, slot[j].state)
  /\ Refreshed(j)
  /\ UNCHANGED <<decided, cancel, world, crashes>>

\* The session is idle: it is not in the map of busy sessions.
Idle(j) == session[j].state # "busy"

\* Only then is the job stopped.
\* Mutant: an accepted request to stop counts as stopped.
AbortConfirmedAtOnce ==
  /\ At("confirm")
  /\ SetState(tick.job, tick.reply)
  /\ Refreshed(tick.job)
  /\ UNCHANGED <<decided, cancel, world, faults, crashes>>
AbortConfirmed ==
  /\ At("confirm")
  /\ ~slot[tick.job].session \/ Idle(tick.job)
  /\ SetState(tick.job, tick.reply)
  /\ Refreshed(tick.job)
  /\ UNCHANGED <<decided, cancel, world, faults, crashes>>

\* It was busy at every poll: the slot is kept and the abort is tried again.
AbortUnconfirmed ==
  /\ At("confirm") /\ slot[tick.job].session /\ ~Idle(tick.job)
  /\ SetState(tick.job, IF tick.reply = "cancelled" THEN "cancel_requested"
                        ELSE slot[tick.job].state)
  /\ Refreshed(tick.job)
  /\ UNCHANGED <<decided, cancel, world, faults, crashes>>

\* What an observation of the session tells: "wait", "failure" or "success".
\* Only an idle session whose last turn ended and whose artifacts are all there
\* is more than a reason to wait; a stopped one may have them all.
Outcomes(j) ==
  CASE session[j].state = "finished" -> {"success"}
    [] session[j].state = "errored"  -> {"failure"}
    [] session[j].state = "stopped"  -> {"failure", "wait"}
    [] OTHER -> {"wait"}

Observing(j) ==
  Refreshing(j) /\ slot[j].state \in Active /\ ~Cancelling(j) /\ ~TimedOut(j)

\* Busy, unreadable, or idle without the artifacts: the job waits.
ObserveNothing(j) ==
  /\ Observing(j)
  /\ \/ "wait" \in Outcomes(j) /\ UNCHANGED faults
     \/ "wait" \notin Outcomes(j) /\ Fault
  /\ Refreshed(j)
  /\ UNCHANGED <<slot, record, decided, cancel, world, crashes>>

\* All artifacts are there, but the worker ended with an error or was stopped.
ObserveFailure(j) ==
  /\ Observing(j) /\ "failure" \in Outcomes(j)
  /\ SetState(j, "fail")
  /\ Refreshed(j)
  /\ UNCHANGED <<decided, cancel, world, faults, crashes>>

\* The worker finished: the lead reviews, when the charter asks for it.
ObserveSuccess(j) ==
  /\ Observing(j) /\ "success" \in Outcomes(j)
  /\ tick' = [tick EXCEPT !.pc = "verdict", !.job = j]
  /\ UNCHANGED <<slot, record, decided, cancel, world, faults, crashes>>

Verdict ==
  /\ At("verdict")
  /\ \E v \in {"done", "fail"} :
       /\ v = "fail" => tick.job \in Reviewed
       /\ SetState(tick.job, v)
  /\ Refreshed(tick.job)
  /\ UNCHANGED <<decided, cancel, world, faults, crashes>>

-----------------------------------------------------------------------------
(* Cancel requests from other threads: the slot under the lock, the store      *)
(* after it.                                                                   *)

RequestCancel(j) ==
  /\ Up /\ j \in Cancellable /\ cancel[j] = "none"
  /\ slot[j].state \notin Terminal
  /\ slot' = [slot EXCEPT ![j].state = "cancel_requested"]
  /\ cancel' = [cancel EXCEPT ![j] = "marked"]
  /\ UNCHANGED <<record, decided, tick, world, faults, crashes>>

StoreCancel(j) ==
  /\ Up /\ cancel[j] = "marked"
  /\ record' = IF record[j].state \in Terminal THEN record
               ELSE [record EXCEPT ![j].state = "cancel_requested"]
  /\ cancel' = [cancel EXCEPT ![j] = "made"]
  /\ UNCHANGED <<slot, decided, tick, world, faults, crashes>>

-----------------------------------------------------------------------------
(* The workers and the clock.                                                 *)

Busy(j) == session[j].state = "busy"
OpenFor(j) == {p \in Perm : JobOf[p] = j /\ Open(p)}

Ask(p) ==
  /\ Busy(JobOf[p]) /\ ~session[JobOf[p]].told
  /\ OpenFor(JobOf[p]) = {} /\ ask[p].state = "none"
  /\ \E w \in Contents[p] : ask' = [ask EXCEPT ![p].state = "open", ![p].wants = w]
  /\ UNCHANGED <<slot, record, decided, tick, cancel, session, late, faults, crashes>>

\* The request is rewritten under its id.
Change(p) ==
  /\ Open(p)
  /\ \E w \in Contents[p] \ {ask[p].wants} : ask' = [ask EXCEPT ![p].wants = w]
  /\ UNCHANGED <<slot, record, decided, tick, cancel, session, late, faults, crashes>>

Finish(j) ==
  /\ Busy(j) /\ OpenFor(j) = {}
  /\ \E s \in {"finished", "errored", "partial"} :
       session' = [session EXCEPT ![j].state = s]
  /\ UNCHANGED <<slot, record, decided, tick, cancel, ask, late, faults, crashes>>

\* A worker told to stop withdraws its requests and ends.
Stop(j) ==
  /\ Busy(j) /\ session[j].told
  /\ session' = [session EXCEPT ![j].state = "stopped"]
  /\ ask' = [p \in Perm |-> IF p \in OpenFor(j)
                            THEN [ask[p] EXCEPT !.state = "closed", !.wants = {}]
                            ELSE ask[p]]
  /\ UNCHANGED <<slot, record, decided, tick, cancel, late, faults, crashes>>

Expire(j) ==
  /\ Up /\ slot[j].started /\ slot[j].state \notin Terminal /\ ~late[j]
  /\ late' = [late EXCEPT ![j] = TRUE]
  /\ UNCHANGED <<slot, record, decided, tick, cancel, session, ask, faults, crashes>>

-----------------------------------------------------------------------------
(* Crash and restart.                                                         *)

Crash ==
  /\ Up /\ crashes < MaxCrashes
  /\ crashes' = crashes + 1
  /\ tick' = [Between EXCEPT !.pc = "down"]
  /\ slot' = [j \in Job |-> NewSlot]
  /\ cancel' = [j \in Job |-> IF cancel[j] = "marked" THEN "made" ELSE cancel[j]]
  /\ UNCHANGED <<record, decided, world, faults>>

\* restore_from_store: slots are read back, and the cancels that were left
\* half-way are taken up before the first tick.
Restored(j) ==
  [state    |-> record[j].state, session |-> record[j].session,
   started  |-> record[j].started, restored |-> TRUE,
   handled  |-> record[j].handled \cup {p \in Perm : JobOf[p] = j /\ decided[p] # "none"},
   asked    |-> {}]
Restart ==
  /\ At("down")
  /\ slot' = [j \in Job |-> Restored(j)]
  /\ tick' = [Between EXCEPT !.pc = "refresh",
                             !.todo = {j \in Job : record[j].state = "cancel_requested"}]
  /\ UNCHANGED <<record, decided, cancel, world, faults, crashes>>

Starting == BeginTick \/ StartsDone \/ StartRestored \/ StartQueued \/ ClaimSession
            \/ StartFails \/ Prompt \/ PromptFails \/ Started
Handling == Scan \/ HandleDone \/ LeadAnswers \/ LeadSilent \/ Confirm \/ ConfirmFails
            \/ Reply \/ ReplyFails \/ RecordDecision
            \/ \E p \in Perm : Skip(p) \/ RuleDecides(p) \/ AskLead(p)
Refresh == RefreshDone \/ AbortConfirmed \/ AbortUnconfirmed \/ Verdict
           \/ \E j \in Job : \/ RequestAbort(j) \/ AbortFails(j)
                             \/ ObserveNothing(j) \/ ObserveFailure(j) \/ ObserveSuccess(j)
Scheduling == Starting \/ Handling \/ Refresh
Working(j) == Finish(j) \/ Stop(j) \/ Expire(j)

Next ==
  \/ Scheduling \/ Crash \/ Restart
  \/ \E j \in Job : RequestCancel(j) \/ StoreCancel(j) \/ Working(j)
  \/ \E p \in Perm : Ask(p) \/ Change(p)

\* run ticks without end; a worker told to stop stops; time passes.
Fairness == /\ WF_vars(Scheduling) /\ WF_vars(Restart)
            /\ \A j \in Job : WF_vars(Stop(j)) /\ WF_vars(Expire(j))
Spec == Init /\ [][Next]_vars /\ Fairness

-----------------------------------------------------------------------------
(* Properties.                                                                *)

\* Slots, records, requests and the place of the thread are well formed.
State == {"queued"} \cup Active \cup Terminal
SchedTypeOK ==
  /\ slot \in [Job -> [state : State, session : BOOLEAN, started : BOOLEAN, restored : BOOLEAN,
                       handled : SUBSET Perm, asked : SUBSET Perm]]
  /\ record \in [Job -> [state : State, session : BOOLEAN, started : BOOLEAN, handled : SUBSET Perm]]
  /\ tick \in [pc : {"between", "start", "claim", "prompt", "started", "scan", "handle", "lead", "reply",
                     "post", "answered", "refresh", "confirm", "verdict", "down"},
               job : Job \cup {NoJob}, perm : Perm \cup {NoPerm},
               reply : {"none", "once", "reject", "deny_job", "cancelled", "timeout"},
               todo : SUBSET Job, queue : SUBSET Perm, read : [Perm -> SUBSET Trait]]
  /\ session \in [Job -> [state : {"none", "idle", "busy", "finished", "errored", "partial", "stopped"},
                          prompts : Nat, told : BOOLEAN]]
  /\ ask \in [Perm -> [state : {"none", "open", "closed"}, wants : SUBSET Trait,
                       reply : {"none", "once", "reject"}, granted : SUBSET Trait]]
  /\ decided \in [Perm -> {"none", "once", "reject"}]
  /\ cancel \in [Job -> {"none", "marked", "made"}] /\ late \in [Job -> BOOLEAN]
  /\ faults \in Nat /\ crashes \in Nat

\* A job is prompted at most once, whatever crashes lie between the session,
\* its claim and the prompt (restore_from_store: "Does NOT re-dispatch
\* already-started sessions").
PromptedOnce == \A j \in Job : session[j].prompts <= 1

\* A slot is given back, in memory or in the store, as done, timed out or
\* cancelled only when the worker has stopped (_request_session_abort).
Released == {"done", "timeout", "cancelled"}
StoppedBeforeReleased ==
  \A j \in Job : (slot[j].state \in Released \/ record[j].state \in Released) => Idle(j)

\* No lead, no charter list, no restart and no rewriting of the request lets
\* through what a rule forbids: what the worker is granted was allowed as it stood
\* when the reply was confirmed (_reconfirm_pending).  The eternal and the secret
\* rules hold for every request; the gates and limits only where authorize_action
\* completes, for where it raises the code goes on without it (Authorized).  What
\* is written into the request between the confirmation and the reply is granted
\* unseen.
Forbidden(w) == \/ Eternal(w)
                \/ Secret(w) /\ (WantsAlways(w) \/ ~Listed(w))
                \/ ~Unchecked(w) /\ (Gated(w) \/ Outside(w))
ForbiddenIsNeverGranted == \A p \in Perm : ask[p].reply = "once" => ~Forbidden(ask[p].granted)

\* Every job ends, through refused calls, silent leads and lost cancels: the
\* wall clock sees to it.  A job that was restored between its claim and its
\* start has no deadline, and it keeps its slot.
WithoutDeadline(j) == slot[j].restored /\ slot[j].session /\ ~slot[j].started
EveryJobEnds ==
  \A j \in Job : <>(slot[j].state \in Terminal \/ \E i \in Job : WithoutDeadline(i))
=============================================================================
