# A formal model of the collaboration service

This directory holds TLA+ modules, TLC configurations and TLAPS proofs about
the program under `src/`: a service that takes goals, lets a lead plan them
into tasks, starts workers for the tasks, and asks people for the decisions it
may not take itself. Paths below are those of the repository.

## The system

| part | state it keeps | operations | what makes it correct |
|---|---|---|---|
| durable goal store (`src/framework/durable_api.py`, `lifecycle.py`, `need_human.py`) | `store.json`: goals, tasks, pending and resolved decisions | submit, add task, start, claim, bind, finish, reconcile, fail, retry, open and resolve decisions and checkpoints, requeue, cancel, effect cancel | final states stay final; a cancelled goal is quiet; one dispatch per task; a goal completes only when all its tasks did; every rework is counted |
| goal ownership (`goal_ownership.py`, `delegation.py`, `path_scope.py`) | one file per goal: coordinator, version, contract, plan revisions | claim, handoff, succeed, grant, propose and commit a plan | grants stay within the submitter's authority; nobody grants to himself; a stale version is refused; a plan stays in its contract |
| coordinator and application (`app_service.py`, `concurrency.py`, `progress_budget.py`) | the coordinator lock, dispatch tokens in progress, planning jobs | tick (plan, observe, dispatch, budget, cancel), submit, cancel, retry, resolve | no two workers in one directory, limits hold, cancels end, goals are planned once and do not hang |
| lead adapters (`src/lead_adapter/`) | registered lead processes | call, time out, stop, validate the output | a lead whose goal has ended is stopped |
| goal requests (`bin/hermes-collab-request.py`, `input_manifest.py`, `artifact_handoff.py`) | what the client remembers, snapshots and staged inputs | open, wait, decide, stage | one goal per key; a worker reads what was hashed |
| persist lock (`persist_lock.py`, `src/platform_services/file_lock.py`) | a thread lock and a lock file | enter, leave, nested contexts | one context at a time |
| outbox (`outbox.py`) | entity states, event rows, a journal; the inbox of the receiver | commit, claim, deliver, retire, replay | a state and its event together; at least once, processed once |
| workdir claim (`src/execution_backend/workdir_claim.py`, `src/platform_services/posix.py`) | per process a table of claims and of lock descriptors; per directory a lock file and an occupancy record | claim (block or queue, reentrant for one holder id), release | one holder per directory among all processes; a dead holder does not keep its directory |
| goal budget, closed loop (`goal_budget.py`, `task_deps.py`, `closed_loop.py`, `run_job_wire.py`) | the account of a goal, slots of a loop | gate, reserve, charge, settle, review | never beyond the budget, no double count, a consumer after its producer |
| agy account pool, run registry, antigravity backend | rows of accounts with leases and cooldowns, run records, registered processes | reserve, spawn, observe, collect, cancel, close, reap | one lease per account, cooldowns hold, orphans are stopped |
| desktop engine and lock (`win_collab/`) | jobs, journals and copies of inputs in a database, the session lock | submit, tick, approve, grant, review, redo, cancel, rollback | dispatched once, passed only when reviewed, ended only when stopped |
| legacy scheduler and glue (`scheduler.py`, `state_store.py`, `glue.py`, `hard_rules.py`, `task_auth.py`) | slots in memory, job records, permission requests | start, poll, reply, cancel, restore | prompted once, forbidden requests are never granted, slots are not given back under a live worker |
| worker adapters, platform services, projections and reports, installers | none that is shared | I/O and views | not modelled |

The coordinator calls the store and the backend; HTTP threads and command
lines call the store beside it. The store is shared by processes through a file
that every operation reloads and replaces under the persist lock. The ownership
file is a second file that two of the store's operations write first, so that a
crash can separate the two. Workers are processes that outlive the service or
not, depending on the backend. The closed loop, the desktop engine and the
legacy scheduler are programs of their own over the same backends.

What is hard: `start_run` and the lead's planning run without the coordinator
lock; cancel, retry and resolve never take it; several operations are made of
two or three durable writes with a possible crash between them; verdicts,
prompts and cancels are delivered twice; results arrive late; files change after
they were looked at. `PROJECT.json` lists each of these hazards at the line where
it bites, with the properties that cover it.

## The modules

| module | models |
|---|---|
| `Lifecycle` | the words and edges of `lifecycle.py` |
| `DurableLayer` | the store: one action per method of `DurableLayer` that changes a status, a handle, a token, a decision or a contract |
| `Coordinator` | ticks, application operations, workers, clock and crashes; extends `DurableLayer` and takes its actions as steps |
| `Planning` | one goal between submit and its tasks: tickers, lead calls, their processes and their registry, the end and the restart of the service |
| `PathScope` | which patterns of paths lie within others |
| `PlanRevision` | the ownership file: claims, handoffs, grants, proposed and committed plans |
| `Request` | the client that opens goals and waits, its files, and their way to the worker |
| `GoalPlan` | the composition of the three |
| `PersistLock` | the lock of one persist root, as operators that `Outbox` takes steps with |
| `Delivery` | what an outbox and its receiver promise together |
| `Outbox` | commits by journal, pumps, the receiver, crashes and failed writes |
| `WorkdirLease` | what a claim promises: the jobs let into a directory are of one process and one holder id |
| `WorkdirClaim` | the registry: the two critical sections of `_try_acquire` with the lock file and the record between them, the queue, `release`, crashes |
| `AgyRuns` | services that run workers in the HOMEs of a shared pool of accounts |
| `GoalLoop` | the jobs of one goal over one account of attempts, reworks, approvals and wall time |
| `Scheduler` | the parallel scheduler over its store, with the rules for permission requests |
| `Desktop` | the supervised desktop engine and its session lock |
| `MC...` | the instances of these for TLC |
| `Coordinator_proof` | theorems about the store: invariants, and what a step may never do; the coordinator implements the store, and what its threads owe: answers, runs, goals that end; workers, directories and limits |
| `WorkdirClaim_proof` | the registry implements the lease |
| `Outbox_proof` | the outbox implements the delivery |
| `GoalPlan_proof` | planning, revisions and requests |
| `AgyRuns_proof` | leases and cooldowns of the account pool |
| `Scheduler_proof` | prompts, released slots and permissions of the scheduler |
| `GoalLoop_proof` | the account of a goal, its limits and the order of its jobs |
| `Desktop_proof` | dispatches, ends, verdicts and grants of the desktop engine |

### DurableLayer

A method reloads the store under the lock, checks, changes one snapshot and
replaces the file, so a method is one action and a refused call is a stutter.
`goal`, `task` and `decision` are the parts of the snapshots, `owner` the
ownership files. A contract is the set of scopes it allows, so a contract
fingerprint is the contract. Kinds of decisions that the code treats alike are
one kind: `approval` stands for the requests of a worker, `escalate` and
`insufficient_auth` for what is returned to the upper layer, `checkpoint` for
itself. The failure object keeps its kind and the task it names. The history is
reduced to the number of `retry_task` rows. `CrashInSubmit` and
`CrashInResolve` are the two operations that write the ownership file before
the store and die in between.

Left out of the store: the submit key and the content fingerprint (see
`Request`), phases, progress, warnings and usage notes, annotations of
decisions, plan revisions (see `PlanRevision`).

### Coordinator

One step is one durable transaction, one call to the backend, or one decision
taken from a fresh read. `tick` is the local state of the thread that holds the
coordinator lock, `launch[k]` that of the thread whose `start_run` runs under
token `k` (`_inflight_claims`), `planning` the planning jobs; `cancelling`,
`resuming` and `applying` say where the application threads stand between two
transactions. A crash clears all of these and leaves the durable variables and
the runs. The constant `May` names what may go wrong in an instance, so that a
run combines the faults its question is about: `cancel`, `retry`, `needHuman`,
`noProgress`, `postHoc`, `ask` and `wall` are things that happen,
`cancelFails`, `observeFails`, `launchFails` and `planFails` are failing calls,
and `reaped` says that a restart loses the workers. The operators from
`NoLaunch` to `Relocked` describe how a thread gives the lock up around
`start_run` and takes it again.

The decisions of the lead are left out: they take the same two steps as those of
a person. Escalations are left out because no path of the service opens one.

### Planning, PlanRevision, Request, GoalPlan

`Planning` follows one goal. `tick[t]` is where a ticker (the main loop, or a
caller that ticks beside it) stands, `lock` who has the coordinator lock, which
`_plan_goal` gives up around the call of the lead; `call[k]` is the thread of a
lead call, `alive` its process, `registry` what the next service would find,
`planning` the entry of `_planning_jobs`. A step is what happens between two
moments at which another thread, the lead or a crash could come in. A lead writes
one of the members of `Output`; validation looks at what the properties tell
apart (id, summary, rows with their dependencies and artifacts). Nothing says that
a lead ends: it is killed at its time limit, or by a stop.

`PlanRevision` has one action per operation of the ownership file. A plan is its
tasks, their path patterns and its budget; a contract is a budget and a ceiling of
patterns. `PathScope` says what covers what, segment by segment, as
`path_scope.py` does; the instance has tree and literal ceilings only.

`Request` is a client with its key and file, the goals that its posts open, and the
staging of the file before a worker starts. A body says what kind of input it has and
the digest and size of the file at the moment of the look. Posts and answers are
lost, files are changed by others (`Surprise`).

The three run one after the other in `GoalPlan`: what a later one writes is read by
none of the earlier, so their interleavings add states and no behaviour. The ownership file
starts with the one task of the goal's charter (`FirstPlan`, `plan_from_mapped`); the tasks
that `Planning` adds are never handed to it.

### PersistLock, Outbox, Delivery

A thread enters a read-modify-write context: the thread lock of its process, then
the lock file, whose holder is the process. `Reload` replays a journal that somebody
left. A commit is four steps: journal, entities, rows, removal of the journal; a crash
or a failed write may come before each. `View` is what the next reader would find, so
it is the state that `Delivery` speaks of: `Record`, a hand-over, the processing by the
receiver and the retirement. An event is named by its place in the table of rows.

### WorkdirClaim

`held` and `locks` are `_held` and `_locks` of each process (one registry per
process, `default_registry`), `flock` the kernel's lock on the lock file of each
directory, `record` the occupancy file, and `call` where each calling thread
stands. One step is one critical section under `_mu`, or one effect outside it
that another thread or process can see: the lock attempt, the write of the
record, the unlock. `release` holds `_mu` from `ReleaseLast` to `Unlock`, which
`MutexFree` says to the other threads of its process. A descriptor is named by
the thread that opened it: `flock` of POSIX belongs to the open file, so two
threads of a process exclude each other, and to close a descriptor gives its lock
up, which is what `close_without_unlock` does in `Install`. A lock attempt may fail
for reasons of the system (`OSError`), and the write of the record may be lost.

`Begin` is a call of `claim`. A thread in `Gated` is a job of
`run_goal_dep_scheduler`, which calls `can_enter_running` first and stays queued
while the record names another holder; `holder_id` is shared by the threads that
the caller gave one name. Whether a call has passed its deadline is the Boolean
`late`; a call in mode `block` has from the start.

Left out: `force_release` and `clear_all`, which only a test helper calls; the
lists of waiters and the occupancy shown to a refused caller, which steer
nothing; an occupancy file that can be neither removed nor emptied; Windows locks.

### AgyRuns

`pool` is the pool file, `homeLock` the lock file of each HOME, `run` the memory of
the services, `proc` and `out` the workers, `registry` and `reaped` the files that
outlive a service. The pool file is changed under the switch lock, which a start keeps
from its reservation to its spawn (`SwitchFree`). Time is a small clock; leases,
time limits and cooldowns are durations of it. A step is one read-change-save of the
pool or one system call. Sessions, streams, heartbeats and the attribution of sessions to
accounts are left out: they steer no run.

### GoalLoop

`sched` is the thread of the scheduler with its slots, `job[j]` a job in its loop of
reserve, work, review and reconcile, `account` the budget file, `copy` what the gate
has read of it, `resv` the reservations. Jobs that are not slots are run by other
processes beside it. A failing call leaves its reservation where the code does.

### Scheduler

`slot` is the memory of the scheduler, `record` the store, `session` the backend's
side of each job, `ask` the permission requests. One thread runs ticks; a step is one
call to the backend or one write; `request_cancel` comes from other threads; a crash
may lie between any two. What a request wants is a set of traits, and may be rewritten while
the request is open (`Change`): `gated` and `outside` are what `authorize_action` refuses,
`secret`, `eternal`, `listed` and `always` what the hard rules distinguish. `unchecked` is a
request on which `authorize_action` raises: the code notes that and goes on to the hard
rules and the lead (`scheduler.py:1057`), and so does `Authorized`. The rules look at what was
read in the scan (`tick.read`); before a reply the request is read again (`Confirm`), and
between that and the reply is a step. Questions and the stand-alone loops of
`glue.py` are left out.

### Desktop

A tick, a decision of the lead and a cancel are database transactions that call the
desktop application on the way. `job` and `copies` are what the open transaction
sees, `saved` the rows as last committed, `ctl` where each controller stands in its
transaction. The journals of starts (`journal`) and of approved actions (`action`) are
written at once and survive a rollback, and so do the sessions and the copies of
inputs on the disk. A permission request is what a grant looks at: whether its text
looks like a credential, whether it is for a directory outside, where its file and its
patterns lie; the file may change between the look of the lead and the grant.

## What is checked

Twelve runs. Every property of a run has, in `PROJECT.json`, a mutant: a change of a
mapped definition, of the kind a bug would make, under which TLC finds the property
violated in that run. Type invariants are in the modules and are proved, or are implied
by the exploration itself; no run is spent on them.

**The store.** The callers are arbitrary, every operation is called in every state, so
the results do not depend on how the coordinator uses the store.

- `DurableTasks` (`CancelledIsQuiet`, `FailureIsSettled`, `CompletionIsEarned`): one goal
  of two tasks, the second waiting for the first, two runs, one token, one decision, one
  retry. Two tasks are what completion, failure and reconciliation distinguish; two runs
  what a rebind needs; one retry brings a task back with what an earlier life left on it.
- `DurableDecisions` (`GrantsStayInAuthority`, `SlotFreedOnlyByCheckpoint`,
  `UnblockedByItsDecision`): one task and two decisions of any kind, a submitter, a
  coordinator, two scopes of which one is beyond the authority, and ownership versions up to
  2, which has a stale version and a succession. Two decisions are what "the decision it
  is blocked on" and "an older grant" need.
- In both, `OneUpperKind` leaves out `insufficient_auth`, which acts as `escalate`
  except that a grant of nothing is refused for it. The theorems have both kinds.

**The coordinator.**

- `CoordFaults` (`EveryRunIsCounted`, `ParkedIsAnswerable`, `SettledIsClosed`, `Spec`): one
  goal of two independent tasks, three runs, one decision, one retry, one crash that loses
  the workers, questions, failing cancels and the wall clock. `Spec` is the refinement: each step
  of the coordinator is a step of `DurableLayer` or leaves its variables alone. The two tasks
  are of one goal, have directories of their own and no dependency, so they are symmetric
  (`Alike`).
- `CoordGuards` (`OneWorkerPerDirectory`, `WorkersWithinLimits`): three goals, four tasks,
  two of which share a directory across goals, three runs, a limit of one worker per goal and
  two in all, checkpoints, one retry and one restart that ends the workers. Every goal is
  submitted before the first is ticked (`SubmittedFirst`): a submission touches its own goal
  only. The run is within `NothingStrands`, and so is what it shows: it has no cancellation, no
  wall clock, no goal beyond its reworks, no failing cancel or observation and no crash that
  leaves workers alive. With each of these the code does let a second worker into a directory
  or beyond a limit, against `docs/application-api.zh-CN.md:201` ("Also seen").
- `CoordLive` (`CancelEnds`, `GoalSettles`): a chain of three tasks, four runs, one decision, with
  cancels, retries, no-progress stops, the wall clock, failing plans, observations and
  launches, post-hoc checkpoints and a crash that keeps the workers and their handles. Three in a
  chain are what the one known way to hang needs: `GoalSettles` excepts it by name (`Stranded`)
  and nothing else before the first crash. Symmetry is unsound with liveness, so runs are taken in one
  order instead (`RunsInOrder`), which loses nothing because they are alike.
  Fairness: a thread that holds the lock goes on; `start_run` and the lead return (both have
  time limits); workers end; the steps of an application call follow each other.
  `CoordinatorLoop` ticks every goal for ever, and the lock is free again after every step of a
  tick that lets it go, so the beginning of a tick and the return from `start_run`, which need
  the lock, are strongly fair. Nothing is assumed of people, and failing calls may fail
  for ever, except that cancels that always fail are left out.

**Planning and requests.**

- `Planning` (`PlannedOnce`, `LeadIsStopped`, `PlanningEnds`, `CommitIsCurrent`,
  `RunsOnWhatWasOpened`, `HumanIsTold`): two tickers, two lead calls at a time, one end or restart of the
  service, a lead that writes a good plan, one for another request, or an error; then two
  coordinators, two proposals out of four plans, a contract with a budget and a ceiling or
  none, versions up to 2 and revisions up to 3; then a client with one key that opens twice,
  two contents of different sizes and two surprises. Two tickers are what a lead call off the lock
  can collide with; two proposals what "proposed under another revision" needs; one key
  opened twice what idempotence needs. Fairness (`PlanFairness`): threads go on, the loop gets
  the lock some time although others take it (strong), a stop and the next start happen;
  the client polls and the service asks the lead for a decision. Nobody promises that a lead
  ends.

**The outbox.**

- `OutboxDelivery` (`EveryRowIsSent`, `DeliverySpec`): a writer and a pump in one process, a
  pump in another, one entity of two states, and one crash or failed write at any point.
  Two pumps in two processes are what double delivery and both locks need. `DeliverySpec` is
  the refinement of `Delivery`. Fairness: who waits for the locks gets them (strong), who has
  them goes on, and the pumps are started again and again.

**Directories.**

- `WorkdirClaims` (`RecordIsOwners`, `LeaseSpec`): one directory, three threads of one process
  of which two share a holder id and the third is gated, and one thread of another process;
  each process may crash once. One directory is enough because no operation touches two; two
  threads of one holder id are what reentrance needs, a third one beside them and one in
  another process are the two ways to be in conflict. `LeaseSpec` is the refinement of
  `WorkdirLease`.

**Accounts.**

- `AgyRuns` (`LiveRunHasItsLease`, `CooldownHolds`, `OrphanIsStopped`): two services, two runs,
  two accounts, leases, time limits and cooldowns of one tick of a clock of two, results
  `ok` and `quota`, and one fault: a crash, a failed kill or a failed spawn. Two runs are
  what a late result of one and the lease of the other need. Fairness: a service that is down
  is started again.

**The loop.**

- `GoalLoop` (`AccountAddsUp`, `WithinLimits`, `ConsumerFollowsProducer`, `EverythingEnds`): a
  producer and its consumer in the slots, in one directory, and a reviewed job of another
  process in a second one; three attempts, one rework, two approvals, a wall of four, and one
  fault. The account is smaller than what the jobs could use, so every limit is met.
  Fairness: the scheduler and each job take their steps.

**The legacy scheduler.**

- `Scheduler` (`PromptedOnce`, `StoppedBeforeReleased`, `ForbiddenIsNeverGranted`,
  `EveryJobEnds`): two jobs for one slot, one reviewed and cancellable, one failing call and one
  crash. The reviewed job has a request that is rewritten at will between five contents: gated; outside,
  where the check raises; secret and listed; the same for always; secret, eternal and listed. So the
  rules meet what they refuse and what they let pass, and a request may have another content when it is
  replied to than when it was scanned. Fairness: the
  thread and its restart; a session that was told to stop stops; the wall clock passes.
  `EveryJobEnds` excepts the job of a crash between the claim of its session and its start: it is
  restored without a deadline.

**The desktop.**

- `Desktop` (`DispatchedOnce`, `EndedIsStopped`, `PassedWasReviewed`, `EveryJobEnds`,
  `GrantIsContained`): one controller, one job that may install, ask, be redone once and be
  cancelled, a request inside its pinned copy and one with a pattern that leaves it, three
  questions to the lead, one fault and one restart of the desktop. Fairness: ticks begin again
  and again (strong), transactions go on, a created session appears, a worker that was told to stop
  stops, limits pass. `EveryJobEnds` excepts a job whose session somebody deleted.

Deadlock is checked for the coordinator, the outbox and the directories; the other instances
run to bounded ends, and the check is off there.

Bounds: finite sets of runs, tokens, decisions, calls and proposals, and the counters
whose names begin with `Max`, which are bounds in guards. `Supply` and `CanOpen` keep the
coordinator from dispatching or parking when an instance has none left. `LeadTries`, `MaxReworks`,
`MaxRedos`, `MaxLead`, `ErrorLimit`, `MaxParallel`, `MaxPlanTasks` and `MaxTicks` are settings of
the program, given small values; the other `Max` constants bound the instance.

## Also seen while exploring

Behaviours of the code that exploration with other instances shows. The properties are stated
for instances, or until the first crash, where these do not occur; each says so. Those without a
property are in the list of hazards with this reason.

Store and coordinator:

- `docs/application-api.zh-CN.md:201` says that one directory runs one task at a time. The code does
  not keep this: dispatch looks at the tasks of the store (`_occupancy`), and whatever takes a task away
  from under its worker frees the directory with the worker still in it. A cancel that meets `start_run`
  is one way: the tick effects the cancellation because no task has a run yet, the bind that follows is
  refused, and nobody stops the run (`app_service.py:2876`). A budget stop for time or for reworks
  during a start, a cancel or an observation that fails and a crash that leaves the workers
  alive are the others. With any of them TLC finds two workers in one directory or too many of them on
  small instances; `OneWorkerPerDirectory` and `WorkersWithinLimits` are checked and proved without
  (`NothingStrands`).
- With three tasks in a chain and the first one failed, the third waits for a "live" dependency that waits
  for a failed one; the goal stays running for ever (`concurrency.py:82`). `GoalSettles` excepts this
  (`Stranded`), and `SettledIsClosed` counts it as progress, as the code does.
- A crash between the record of a checkpoint verdict and its application leaves the task parked, and
  deciding again is refused as a duplicate (`app_service.py:4360`).
- A retried task keeps the start time of its previous run (`durable_api.py:2079` does not reset `run_started_at`).
- A worker may still be alive while its task is parked if its cancel failed, or after a restart or a failing
  observation has given the task up; a retry that resumes a run
  asks for neither slot nor directory; a crash between `finish_task` and `reconcile_goal_progress` leaves a
  goal running with nothing to do; a late `continue` requeues a task of a failed goal; a cancellation never
  ends for runs that the restarted backend does not know; a pending decision whose request the backend has
  lost stops the observation of its task.

Planning and requests:

- `_planning_jobs.pop` removes whatever job is registered (`app_service.py:1841`); a crash between the start
  of a lead and its registration leaves a lead that nobody knows; a partial plan stays after a crash between
  two `add_child_task`; a plan with a cycle is accepted.
- A task with an input manifest can be dispatched only once: its destination exists after a retry, a
  "continue" or a crash behind the rename (`input_manifest.py:285`). A file that changes between its size
  check and its hash is refused at dispatch. Without a key each retry of `open` opens another goal.
- The first plan is never compared with a contract given at submit; a grant may lower the budget below the
  plan's.

Directories and loop:

- A process that dies in a directory leaves its occupancy file. `claim` does not mind;
  `can_enter_running` believes the file, so a job behind the gate stays queued (`goal_budget.py:790`,
  `workdir_claim.py:236`).
- The outbox is told "succeeded" before the account turns the result into a failure
  (`closed_loop.py:704`); an exception or a crash keeps its reservation; of two ready jobs that share a directory
  the loser is "blocked" for good.

Accounts:

- A lease ends while its run lives if the lease is shorter than the run (`agy_account_pool.py:627`), and
  an overdue worker is killed once only; `close` marks a run stopped though the kill failed
  (`antigravity_cli_v1.py:833`); a crash between the start of a worker and its record leaves an orphan that the
  next service does not know, in a HOME that another service may reclaim; a late quota result
  overwrites "unavailable".

Scheduler and desktop:

- `scan_pending` and `_start_job_live` overwrite a requested cancel (`scheduler.py:969`, `:851`);
  `deny_job` fails a job in memory only (`:1223`); a permission is marked as answered before the reply is
  sent (`:1219`); an exception of `authorize_action` lets a request go on to the lead unchecked (`:1057`), and
  what is written into a request after `_reconfirm_pending` is granted unseen; a lost answer to a prompt fails the job and frees its slot while the worker runs.
- A redo that is prompted and rolled back is not counted and leaves the old packet open (`core.py:2012`); a crash
  after the journal of an approval lets every later approval be refused until the deadline; an abort of a deleted
  session is refused for ever (`:1455`); `fail_need_human` frees the desktop with a live worker (`:1497`);
  with two controllers of one desktop both may dispatch, since `decide` prompts without the lock.

## What is proved

The proof modules prove their theorems for all values of the constants that satisfy the named assumption of
the module they extend: `DurableAssumption` (task ids name a goal, dependencies stay within a goal, the "none"
values are outside their sets), `CoordinatorAssumption`, `OutboxAssumption`, `ClaimAssumption` (finitely many
threads), `AgyAssumption`, `SchedulerAssumption`, `LoopAssumption` (finitely many jobs), `DesktopAssumption` (each job has one controller, requests have the form
`AskRow`) and those of `Planning`, `PlanRevision` and `Request`. TLC evaluates each of them in the runs.

**Coordinator_proof**, of the store alone:

- `TypeCorrect`: the type invariant, which is inductive as it stands.
- `CancelledStaysQuiet`: a goal is cancelled by `EffectCancel` alone, which takes every task out of flight;
  every action that brings a task into flight from outside looks at the goal.
- `DispatchStaysExclusive` and `FailureStaysSettled`: neither is inductive without the other. A retry requeues
  the task that the failure object names, so that task must hold no token; and a failed goal must not be
  dispatched, so that it gets none. `DispatchInv` is their conjunction.
- `GrantsAreBounded`: strengthened to `GrantInv`: a snapshot that is not written yet allows nothing, and a
  pending decision names a known goal.

What a step of the store may never do:

- `SlotsStayHeld` from `ParkInv`: a parked task names a checkpoint of its own that was opened, and has no
  token while it gives its slot back. `CheckpointsAreSingle` is inductive on the types.
- `FinalIsFinal` and `CompletionIsAlwaysEarned`, action properties, from the types and `Admitted` (a task
  that exists belongs to a goal that exists): each operation that writes a status is compared with the edges it may take.
- `GrantsAreTheSubmitters` and `GrantsUnblockTheirTask`: only one operation changes a contract, only two
  clear `blockedOn` of a waiting task.

Of the service:

- `CoordImplementsStore`: every step of the service is one operation of the store or leaves it alone. Its threads carry
  what an operation is called with across the steps of others, so the invariant `RefInv` says what they hold: a tick
  its goal, the task it settles and a run that is that task's or none's; a launch its task; whoever applies a verdict, a
  checkpoint. `CoordTypeCorrect` is its type part.
- `ServiceKeepsCancelledQuiet`, `ServiceDispatchIsExclusive`, `ServiceHoldsSlots`, `ServiceCompletionIsEarned`: what the
  refinement carries over from the store to the service.
- `ParkedStaysAnswerable`: with `ParkInv` of the store, a step that takes the pending checkpoint of a parked task away is
  `ApiCheckpoint`, which leaves its verdict to be applied, and a step that ends the applying unparks the task.
- `EveryRunStaysCounted` from `RunInv`: the runs of a task, the threads in `start_run` for it and the chance of one more
  dispatch (1 while it is absent or queued) are together at most one more than the retries. A dispatch turns the
  chance into a launch, a launch turns into a run, and only a retry or a "continue" gives the chance back. A launch that
  outlives a retry is why the launches have to be counted.
- `SettledStaysClosed` from `SettleInv`: a task leaves the queue only after the tasks it depends on have succeeded, for
  good (`StoreInv`; `DependenciesComeFirst` states it of the service). So every task that a failure object, a checkpoint or
  the register of a thread names can go on when it is requeued (`NamedInv`, `HeldInv`), and while a plan is admitted
  nobody else has a task of that goal (`AdmitInv`). What takes the last progress from an open goal is then a result, and its
  thread has the goal still to reconcile or to fail.
- `WorkersStayAlone` and `WorkersStayWithinLimits`, under `NothingStrands`, from `Guarded`. The store counts tasks and
  not workers, so `GuardInv` ties the one to the other: a live run is that of its running task, or of the thread that
  started it and holds the token of that task (`WorkInv`); the running tasks keep to limits and directories (`SlotInv`);
  what a tick has chosen to claim still has its slot and its directory when it claims, and a task it settles or parks has no
  worker any more (`ChosenInv`). A verdict or a retry must not move a running task: only the checkpoint a task is parked on
  can (`ParkedInv`), and a failure names a failed task (`FailedInv`). `CalmInv` says what `NothingStrands` excludes. The
  parts are inductive only together. The proof sorts the steps by what they do to tasks and workers: those that leave
  them alone (`Resting`), those that move a task nobody works for (`Leaving`), a claim (`Takes`), a start, a bind (`Binds`)
  and a crash, with one lemma for each.

`NothingStrands` is a condition on what may happen, not on the code: no cancellation, no wall clock that runs out, no cancel
or observation of the backend that fails, no goal that exceeds its reworks, no crash that leaves workers alive. Each of the
six is needed: with the other five kept, TLC finds two workers in one directory or too many of them on small
instances ("Also seen" says how for cancellations, stops and crashes). Within it, launches and plans may fail, tasks may be parked, continued, stopped
and retried, and the service may restart if its workers end with it; `CoordGuards` is an instance.

**WorkdirClaim_proof**

- `ClaimTypeCorrect`, `LockStaysAccounted` and `ClaimStaysCounted` are the inductive invariant `IInv`, and none is
  inductive alone: that a count is positive needs the count to be the number of jobs at work; that the second critical
  section finds the table free needs the account of the lock.
- `WritersStayApart`: two jobs at work are under entries, each entry has the lock of its directory, and a lock is in
  one hand.
- `RecordStaysOwners`: strengthened to `RecordInv`, which adds that a release that is about to unlock has removed the record.
- `ClaimImplementsLease`: the first step of a job at work is `Grant`, its release `Return`, a crash `Crash`, and
  every other step a stutter.

**Outbox_proof**, in layers, each of which uses the one before:

- `OutboxTypeCorrect` and `ContextsAreExclusive`: who is inside the context has both locks, through nested contexts,
  so one thread at a time writes.
- `StateAndEventTogether`: the journal stays until both live files agree with it, so what the next reader finds
  (`View`) changes only when a journal is written; in `View` the last event of an entity is its state.
- `OutboxKeepsPromise`: with these, each step is a step of `Delivery` or a stutter.

**GoalPlan_proof**. The three parts do not step together, so each has an invariant of its own.

- `CommitsAreCurrent` and `ActiveTasksAreKept` from `RevInv`: before the first claim there is no plan, afterwards an owner.
- `RequestTypeCorrect` and `WorkersStartOnWhatWasOpened` from `RequestInv`: a post on its way is the client's of now, a
  goal that the client was told of is the one it asked for, and the digest of a goal is that of its body.
- `PlanTypeCorrect` and `GoalsArePlannedOnce` from `PlanInv`: who adds tasks has the lock and found the goal without
  tasks, and what it has still to add is, with what was added, one valid plan, whose keys differ.

**AgyRuns_proof**

- `AgyTypeCorrect`, `LeasesAreHeld` and `CooldownsHold` from `AgyInv`: a busy row names a run whose HOME it is, and a run
  under way within its lease has the row, the end of the lease and the lock. That a reservation or a service that
  starts frees no such row needs the end of the lease in the row to be that of the run.

**Scheduler_proof**

- `SchedTypeCorrect`, `PromptsAreSingle`, `SlotsWaitForWorkers` and `ForbiddenStaysRefused` from `SchedInv`, which says
  what the thread knows where it stands (a claimed job is not ended and has no prompt yet; a request put to the lead
  or to be answered with "once" is not forbidden as it was read), that a session nobody has claimed in the store was never prompted, and that slot and
  record agree on the claim while the scheduler is up. Without that agreement, an abort could be confirmed on a slot that
  knows no session while the worker runs. `ForbiddenStaysRefused` is about what was confirmed before the reply, and about the
  gates and limits of `authorize_action` only where that completes: the eternal and the secret rules hold even where it raises.

**Desktop_proof**, for any number of controllers of one desktop and of jobs:

- `EngineRowsKeepTheirForm`, `NothingIsDispatchedTwice`, `EndsAreReal` and `PassedAsReviewed` from `DesktopInv`. A rollback
  brings the row of a job back while its session and its journals stay, so what a row says of its session (`RowOK`) must
  hold of the open row and of the committed one at once: a row counts an abort as sent only while its session has no prompt
  that waits to begin, a row that has dispatched an action has a session that carried one out, a row that has passed was reviewed at
  the session's last turn. `SessionOK` adds that nothing starts or acts without its journal, and `CtlOK` what a controller knows
  between two calls of a transaction: before the prompt of a start, the committed row is not aborted and the session never started;
  between the journal of an action and its prompt, the action was not carried out and the job cannot have ended.
- `GrantsStayContained`, an action property, from the types: of all that is done to a session only `Grant` grants, and it
  looks at the request as the files stand then.

**GoalLoop_proof**

- `AccountAlwaysAddsUp`, `BudgetHolds` and `ConsumersFollow` from `LoopInv`, which places every reservation of a job before,
  at or behind its current attempt (`JobOK`), so that the account can be counted from the reservations (`Counts`), and
  says that a job the scheduler has still to start, or has read as succeeded, does not move (`SchedOK`). The limits hold because
  a reservation looks at the account itself, whatever stale copy the gate has read.

Every safety property that a run checks is the subject of a theorem, those of workers and limits under `NothingStrands`.
Only model-checked is what must happen in the end: the liveness properties, and the leads-to properties `LeadIsStopped` and
`HumanIsTold`. Liveness under fairness, and with it ENABLED, is out of the prover's reach; so is induction over data, which the
induction theorems of its library state with an operator as parameter. No module here declares a RECURSIVE operator.

## Not modelled

- Worker adapters, platform services and the client and discovery code of the desktop: calls of an operating system
  or a local server. What the components see of them (a call fails, its answer is lost, a process dies) is in the models.
- Projections, reports, readiness checks, installers: they read, print or set up, and steer nothing.
- Prompts, command lines and environments of leads and workers: text.
- `delegation.py` beyond its coverage of contracts, the contents of plans beyond what validation and commit look at, and
  the questions of the scheduler's sessions.
- Windows locks: see `WorkdirClaim`. The run of the desktop has one controller; the theorems are about any number, and
  none of them says that only one works at a time, which is not so (see "Also seen").
- The cap of 200 history rows: far beyond the instances.

## Running

`tlc -config <run>.cfg <module>` with the module that `PROJECT.json` names for the run (`Durable*` in
`MCDurableLayer`, `Coord*` in `MCCoordinator`, the others in the MC module of the component); each takes up to three
minutes with two workers, `CoordGuards`, `CoordFaults`, `Scheduler` and `Planning` the longest. `tlapm <module>_proof.tla` checks the proofs.
