------------------------------ MODULE GoalLoop ------------------------------
(***************************************************************************)
(* execution_backend/goal_budget.py, closed_loop.py and run_job_wire.py:   *)
(* the jobs of one goal that share an account of attempts, reworks,        *)
(* approvals and wall time.                                                *)
(*                                                                         *)
(* A scheduler passes its slots through the gate (dependencies, directory, *)
(* account) and runs those that are ready in parallel; other processes run *)
(* single jobs of the goal beside it.  A job claims its directory, then    *)
(* repeats: reserve, work, review, reconcile, until it succeeds or one of  *)
(* the budgets ends it.  The account is a file changed under the persist   *)
(* lock, so each change is one step; the gate of the scheduler reads the   *)
(* copy its process has.  A job ends with the deadline of its goal at the  *)
(* latest.  Notes, ledgers and reports steer nothing.                      *)
(***************************************************************************)
EXTENDS Lifecycle, Naturals, Sequences, FiniteSets, FiniteSetsExt

CONSTANTS
  Job,
  Slots,        \* the jobs of the scheduler, in order
  DependsOn,    \* the jobs whose success each job waits for
  Dir, DirOf,   \* the directory each job works in
  Root,         \* the directory where the scheduler records
  NeedReview,   \* the jobs with force_lead_review
  NoJob, Goal,
  Limits,       \* BudgetLimits of the goal
  MaxReworks, MaxParallel, MaxTicks,
  Mode,         \* on_conflict: "block" or "queue"
  MaxWall,      \* bound on the time units one attempt takes
  MaxFaults     \* bound on exceptions and crashes

Slot == {Slots[i] : i \in DOMAIN Slots}

ASSUME LoopAssumption ==
  /\ IsFiniteSet(Job) /\ Slot \subseteq Job
  /\ \A i, k \in DOMAIN Slots : Slots[i] = Slots[k] => i = k
  /\ DependsOn \in [Job -> SUBSET Slot]
  /\ DirOf \in [Job -> Dir] /\ Root \in Dir
  /\ NoJob \notin Job /\ Goal \notin Job /\ NeedReview \subseteq Job
  /\ Limits \in [attempts : Nat, reworks : Nat, approvals : Nat, wall : Nat \ {0}]
  /\ Mode \in {"block", "queue"}
  /\ {MaxReworks, MaxParallel, MaxTicks, MaxWall, MaxFaults} \subseteq Nat

VARIABLES
  late,      \* the wall deadline of the goal has passed
  account,   \* the account file: what is used, and what is held
  copy,      \* what the process of the scheduler has read of it last
  resv,      \* the reservation of each attempt of each job
  holder,    \* the job that has the lock of each directory
  record,    \* the occupancy record of each directory
  told,      \* the last state of the goal and of each task in the outbox of each directory
  slot,      \* the state of each slot of the scheduler
  sched,     \* where the scheduler stands
  job,       \* where each job stands
  faults

vars == <<late, account, copy, resv, holder, record, told, slot, sched, job, faults>>

Attempt == 1..(MaxReworks + 1)
None == [attempts |-> 0, reworks |-> 0, approvals |-> 0, wall |-> 0]

Init ==
  /\ late = FALSE
  /\ account = [used |-> None, held |-> None]
  /\ copy = [used |-> None, held |-> None]
  /\ resv = [j \in Job |-> [n \in Attempt |-> "none"]]
  /\ holder = [d \in Dir |-> NoJob]
  /\ record = [d \in Dir |-> NoJob]
  /\ told = [d \in Dir |-> [e \in Job \cup {Goal} |-> "absent"]]
  /\ slot = [j \in Slot |-> "queued"]
  /\ sched = [pc |-> "gate", at |-> 1, tick |-> 1, started |-> {}, failed |-> FALSE]
  /\ job = [j \in Job |-> [pc |-> "idle", attempt |-> 0, reworks |-> 0, result |-> "none"]]
  /\ faults = 0

----------------------------------------------------------------------------
(* The account. *)

Plus(a, b) == [x \in DOMAIN a |-> a[x] + b[x]]
Minus(a, b) == [x \in DOMAIN a |-> IF a[x] > b[x] THEN a[x] - b[x] ELSE 0]
Exceeds(a) == \E x \in DOMAIN a : a[x] > Limits[x]

Committed(acc) == Plus(acc.used, acc.held)
OverBudget(acc) == Exceeds(acc.used) \/ Exceeds(Committed(acc))

\* A dispatch holds one attempt and a slice of the wall, not what is left of it.
Estimate(n, review) ==
  [attempts |-> 1, reworks |-> IF n > 1 THEN 1 ELSE 0,
   approvals |-> IF review THEN 1 ELSE 0, wall |-> 1]

\* Mutant: what siblings hold does not count.
CanReserveUsed(acc, cost) == ~late /\ ~Exceeds(Plus(acc.used, cost))
CanReserve(acc, cost) == ~late /\ ~Exceeds(Plus(Committed(acc), cost))

\* A job of the scheduler refreshes the copy of its process whenever it takes the lock.
Refreshed(j, acc) == copy' = IF j \in Slot THEN acc ELSE copy

----------------------------------------------------------------------------
(* The outbox: record_transition checks the edge from the state its caller names. *)

MayRecord(e, src, dst) ==
  src = "absent" \/ IF e = Goal THEN GoalMay(src, dst) ELSE TaskMay(src, dst)
Recorded(tl, d, e, src, dst) ==
  IF MayRecord(e, src, dst) THEN [tl EXCEPT ![d][e] = dst] ELSE tl
\* Callers that name no state mean the one that is recorded.
RecordedNext(tl, d, e, dst) == Recorded(tl, d, e, tl[d][e], dst)

----------------------------------------------------------------------------
(* The scheduler: simulate_scheduler_goal_deps. *)

Completed == {j \in Slot : slot[j] = "succeeded"}
Occupied(j) == record[DirOf[j]] \notin {NoJob, j}

\* Mutant: names are enforced only when the gate is given finished jobs.
UnsatisfiedStandalone(j) == IF Completed = {} THEN {} ELSE DependsOn[j] \ Completed
Unsatisfied(j) == DependsOn[j] \ Completed

Passed == sched' = [sched EXCEPT !.at = @ + 1]

Gate ==
  LET j == Slots[sched.at]
      wait == IF Unsatisfied(j) = {} /\ Mode = "block" THEN "blocked" ELSE "queued"
  IN
  /\ sched.pc = "gate" /\ sched.at \in DOMAIN Slots
  /\ IF slot[j] # "queued" \/ Cardinality(sched.started) >= MaxParallel
     THEN Passed /\ UNCHANGED <<slot, told, copy>>
     ELSE IF Unsatisfied(j) # {} \/ Occupied(j)
     THEN /\ told' = RecordedNext(told, Root, j, wait)
          /\ Passed /\ UNCHANGED <<slot, copy>>
     ELSE IF ~CanReserve(copy, Estimate(1, j \in NeedReview))
     THEN /\ slot' = [slot EXCEPT ![j] = "failed"]
          /\ sched' = [sched EXCEPT !.at = @ + 1, !.failed = TRUE]
          /\ copy' = account
          /\ UNCHANGED told
     ELSE /\ slot' = [slot EXCEPT ![j] = "running"]
          /\ sched' = [sched EXCEPT !.at = @ + 1, !.started = @ \cup {j}]
          /\ told' = RecordedNext(told, Root, j, "running")
          /\ UNCHANGED copy
  /\ UNCHANGED <<late, account, resv, holder, record, job, faults>>

Queued == {j \in Slot : slot[j] = "queued"}
AllOk == Completed = Slot
\* The loop ends without progress, without queued slots or after its ticks.
NextTick(idle) ==
  IF idle \/ Queued = {} \/ sched.tick = MaxTicks
  THEN /\ sched' = [sched EXCEPT !.pc = "done", !.started = {}]
       /\ told' = IF AllOk THEN RecordedNext(told, Root, Goal, "completed") ELSE told
  ELSE /\ sched' = [pc |-> "gate", at |-> 1, tick |-> sched.tick + 1, started |-> {}, failed |-> FALSE]
       /\ UNCHANGED told

RunStarted ==
  /\ sched.pc = "gate" /\ sched.at \notin DOMAIN Slots
  /\ IF sched.started # {}
     THEN /\ sched' = [sched EXCEPT !.pc = "run"]
          /\ job' = [j \in Job |-> IF j \in sched.started
                                   THEN [job[j] EXCEPT !.pc = "claim", !.attempt = 0, !.reworks = 0, !.result = "none"]
                                   ELSE job[j]]
          /\ UNCHANGED told
     ELSE NextTick(~sched.failed) /\ UNCHANGED job
  /\ UNCHANGED <<late, account, copy, resv, holder, record, slot, faults>>

\* The pool is joined, then every result is read.
Read ==
  /\ sched.pc = "run" /\ \A j \in sched.started : job[j].pc = "done"
  /\ slot' = [j \in Slot |-> IF j \notin sched.started THEN slot[j]
                             ELSE CASE job[j].result = "ok" -> "succeeded"
                                    [] job[j].result = "queued" -> "queued"
                                    [] OTHER -> "failed"]
  /\ sched' = [sched EXCEPT !.pc = "joined"]
  /\ UNCHANGED <<late, account, copy, resv, holder, record, told, job, faults>>
Join ==
  /\ sched.pc = "joined" /\ NextTick(FALSE)
  /\ UNCHANGED <<late, account, copy, resv, holder, record, slot, job, faults>>

----------------------------------------------------------------------------
(* One job: run_inprocess_charter around run_inprocess_closed_loop. *)

Goto(j, pc) == job' = [job EXCEPT ![j].pc = pc]
End(j, result) == job' = [job EXCEPT ![j].pc = "report", ![j].result = result]

StartSolo(j) ==
  /\ j \notin Slot /\ job[j].pc = "idle" /\ Goto(j, "claim")
  /\ UNCHANGED <<late, account, copy, resv, holder, record, told, slot, sched, faults>>

Claim(j) ==
  LET d == DirOf[j]
      refused == IF Mode = "block" THEN "blocked" ELSE "queued"
  IN
  /\ job[j].pc = "claim"
  /\ IF holder[d] = NoJob
     THEN /\ holder' = [holder EXCEPT ![d] = j]
          /\ record' = [record EXCEPT ![d] = j]
          /\ Goto(j, "enter") /\ UNCHANGED told
     ELSE /\ told' = RecordedNext(told, d, j, refused)
          /\ job' = [job EXCEPT ![j].pc = "done", ![j].result = refused]
          /\ UNCHANGED <<holder, record>>
  /\ UNCHANGED <<late, account, copy, resv, slot, sched, faults>>

EnterRunning(j) ==
  LET d == DirOf[j] IN
  /\ job[j].pc = "enter" /\ Goto(j, "dispatch")
  /\ told' = Recorded(Recorded(told, d, j, "queued", "running"), d, Goal, "queued", "running")
  /\ UNCHANGED <<late, account, copy, resv, holder, record, slot, sched, faults>>

\* Mutant: a refused dispatch is tried again.
RefusedWaits(j) == UNCHANGED job
Refused(j) == End(j, "fail")

Dispatch(j) ==
  LET n == job[j].attempt + 1
      cost == Estimate(n, j \in NeedReview)
      acc == [account EXCEPT !.held = Plus(@, cost)]
  IN
  /\ job[j].pc = "dispatch"
  /\ IF CanReserve(account, cost)
     THEN /\ account' = acc /\ Refreshed(j, acc)
          /\ resv' = [resv EXCEPT ![j][n] = "held"]
          /\ job' = [job EXCEPT ![j].pc = "work", ![j].attempt = n]
     ELSE /\ Refused(j) /\ Refreshed(j, account)
          /\ UNCHANGED <<account, resv>>
  /\ UNCHANGED <<late, holder, record, told, slot, sched, faults>>

Work(j) ==
  /\ job[j].pc = "work"
  /\ \/ Goto(j, "failed")
     \/ Goto(j, IF j \in NeedReview THEN "review" ELSE "passed")
  /\ UNCHANGED <<late, account, copy, resv, holder, record, told, slot, sched, faults>>

\* "channel": the decision channel failed, which is no verdict on the work.
Review(j) ==
  /\ job[j].pc = "review"
  /\ \E verdict \in {"passed", "rejected", "channel"} : Goto(j, verdict)
  /\ UNCHANGED <<late, account, copy, resv, holder, record, told, slot, sched, faults>>

\* Mutant: a failed attempt gives its reservation back.
ChargeSuccess(j, actual) ==
  [used |-> IF job[j].pc = "failed" THEN account.used ELSE Plus(account.used, actual),
   held |-> Minus(account.held, Estimate(job[j].attempt, j \in NeedReview))]
Charge(j, actual) ==
  [used |-> Plus(account.used, actual),
   held |-> Minus(account.held, Estimate(job[j].attempt, j \in NeedReview))]

MayRework(j) == job[j].reworks < MaxReworks /\ ~late

\* Reconcile the attempt, then decide: stop, succeed, or a new run of the same task.
Reconcile(j, wall) ==
  LET n == job[j].attempt
      actual == [attempts |-> 1, reworks |-> IF n > 1 THEN 1 ELSE 0, wall |-> wall,
                 approvals |-> IF j \in NeedReview /\ job[j].pc # "failed" THEN 1 ELSE 0]
      acc == Charge(j, actual)
  IN
  /\ job[j].pc \in {"failed", "passed", "rejected", "channel"}
  /\ account' = acc /\ Refreshed(j, acc)
  /\ resv' = [resv EXCEPT ![j][n] = "reconciled"]
  /\ IF job[j].pc = "channel" \/ Exceeds(acc.used) THEN End(j, "fail")
     ELSE IF job[j].pc = "passed" THEN End(j, "ok")
     ELSE IF MayRework(j)
     THEN job' = [job EXCEPT ![j].pc = "dispatch", ![j].reworks = @ + 1]
     ELSE End(j, "fail")
  /\ UNCHANGED <<late, holder, record, told, slot, sched, faults>>

\* attach_goal_budget: over budget is not reported as success.
Attached(j) == IF OverBudget(account) /\ job[j].result = "ok" THEN "fail" ELSE job[j].result

Report(j) ==
  /\ job[j].pc = "report"
  /\ job' = [job EXCEPT ![j].pc = "announce", ![j].result = Attached(j)]
  /\ Refreshed(j, account)
  /\ UNCHANGED <<late, account, resv, holder, record, told, slot, sched, faults>>

Announce(j) ==
  LET d == DirOf[j] IN
  /\ job[j].pc = "announce" /\ Goto(j, "release")
  /\ told' = IF job[j].result # "ok" THEN told
             ELSE Recorded(Recorded(told, d, j, "running", "succeeded"), d, Goal, "running", "completed")
  /\ UNCHANGED <<late, account, copy, resv, holder, record, slot, sched, faults>>

Release(j) ==
  LET d == DirOf[j] IN
  /\ job[j].pc = "release"
  /\ Goto(j, IF j \in Slot /\ job[j].result # "raised" THEN "attach" ELSE "done")
  /\ holder' = [holder EXCEPT ![d] = NoJob]
  /\ record' = [record EXCEPT ![d] = NoJob]
  /\ UNCHANGED <<late, account, copy, resv, told, slot, sched, faults>>

\* The scheduler attaches the account once more, after the outbox has been told.
AttachAgain(j) ==
  /\ job[j].pc = "attach"
  /\ job' = [job EXCEPT ![j].pc = "done", ![j].result = Attached(j)]
  /\ Refreshed(j, account)
  /\ UNCHANGED <<late, account, resv, holder, record, told, slot, sched, faults>>

----------------------------------------------------------------------------
(* Time and faults. *)

Deadline ==
  /\ ~late /\ late' = TRUE
  /\ UNCHANGED <<account, copy, resv, holder, record, told, slot, sched, job, faults>>

\* The work or the review raises: the directory is released, the reservation is not.
Raise(j) ==
  /\ job[j].pc \in {"work", "review"}
  /\ faults < MaxFaults /\ faults' = faults + 1
  /\ job' = [job EXCEPT ![j].pc = "release", ![j].result = "raised"]
  /\ UNCHANGED <<late, account, copy, resv, holder, record, told, slot, sched>>

\* The process of the scheduler, or of one single job, dies.
Crash(dead) ==
  /\ \E j \in dead : job[j].pc # "done"
  /\ faults < MaxFaults /\ faults' = faults + 1
  /\ job' = [j \in Job |-> IF j \in dead THEN [job[j] EXCEPT !.pc = "done"] ELSE job[j]]
  /\ holder' = [d \in Dir |-> IF holder[d] \in dead THEN NoJob ELSE holder[d]]
  /\ sched' = IF dead = Slot THEN [sched EXCEPT !.pc = "done"] ELSE sched
  /\ UNCHANGED <<late, account, copy, resv, record, told, slot>>

Schedule == Gate \/ RunStarted \/ Read \/ Join
Step(j) ==
  \/ Claim(j) \/ EnterRunning(j) \/ Dispatch(j) \/ Work(j) \/ Review(j)
  \/ \E wall \in 0..MaxWall : Reconcile(j, wall)
  \/ Report(j) \/ Announce(j) \/ Release(j) \/ AttachAgain(j)

Next ==
  \/ Deadline \/ Schedule
  \/ \E j \in Job : StartSolo(j) \/ Step(j) \/ Raise(j)
  \/ Crash(Slot) \/ \E j \in Job \ Slot : Crash({j})

Spec == Init /\ [][Next]_vars

\* Threads and the scheduler go on; the work and the lead answer, or raise.
Fairness == WF_vars(Schedule) /\ \A j \in Job : WF_vars(Step(j))
LiveSpec == Spec /\ Fairness

----------------------------------------------------------------------------
(* Properties. *)

AtWork(j) == job[j].pc \in {"work", "review", "failed", "passed", "rejected", "channel"}
Runs(status) == {p \in Job \X Attempt : resv[p[1]][p[2]] = status}

\* Every run of every task is on the parent's account, once: what is held are the
\* reservations in force, what is used are the runs that ended, and new attempts of a
\* task begin no new account.  Only an exception or a crash leaves a hold without a run.
AccountAddsUp ==
  /\ account.held.attempts = Cardinality(Runs("held"))
  /\ account.used.attempts = Cardinality(Runs("reconciled"))
  /\ account.held.reworks + account.used.reworks
       = Cardinality({p \in Runs("held") \cup Runs("reconciled") : p[2] > 1})
  /\ account.held.wall = Cardinality(Runs("held"))
  /\ \A j \in Job : AtWork(j) => resv[j][job[j].attempt] = "held"
  /\ Cardinality({p \in Runs("held") : ~(AtWork(p[1]) /\ job[p[1]].attempt = p[2])})
       <= IF faults = 0 THEN 0 ELSE Cardinality(Job)

\* However many jobs reserve at once, in one process or in several, and whatever stale copy
\* the gate has read, the goal never commits more runs, reworks or reviews than it allows.
WithinLimits ==
  \A x \in {"attempts", "reworks", "approvals"} : Committed(account)[x] <= Limits[x]

\* A job runs only after those it depends on have succeeded, as the scheduler reports them:
\* a success that the account takes back does not count.
ConsumerFollowsProducer ==
  \A j \in Slot : slot[j] \in {"running", "succeeded"} =>
    \A p \in DependsOn[j] : slot[p] = "succeeded" /\ job[p].result = "ok"

\* Reworks, refused reservations, busy directories and missing producers all come to an end.
EverythingEnds ==
  /\ <>(sched.pc = "done")
  /\ \A j \in Job : job[j].pc = "claim" ~> job[j].pc = "done"
=============================================================================
