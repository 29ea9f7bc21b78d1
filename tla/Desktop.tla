------------------------------- MODULE Desktop -------------------------------
(* The supervised desktop engine (win_collab/core.py) and the lock on the       *)
(* desktop (desktop_lock.py).  A controller is one state directory.  Its ticks, *)
(* decisions and cancels are SQLite transactions, one at a time, that call the   *)
(* desktop application on the way: a crash or an exception takes the database   *)
(* back and leaves the sessions and the journals as they are.  The controllers, *)
(* the workers in the sessions and the clock go their own ways.                 *)
EXTENDS Naturals, FiniteSets

CONSTANTS
  Controller,
  NJobs,           \* jobs 1..NJobs, in the order of their rows
  OwnerOf,         \* the controller a job was submitted to
  Installs,        \* jobs that may be of kind system_install
  Asking,          \* jobs with pinned inputs, whose worker raises a permission request
  Request,         \* the requests it may raise
  Cancellable,     \* jobs somebody may cancel
  MaxParallel, MaxRedos, MaxLead,
  ErrorLimit,      \* SCAN_ERROR_LIMIT
  MaxFaults,       \* bound: calls that fail, sessions that somebody deletes, crashes
                   \* of a controller within a transaction
  MaxRestarts,     \* bound: restarts of the desktop application
  NoController, NoJob

Job == 1..NJobs
\* A permission request: whether its text looks like a credential, whether it is for
\* a directory outside, where the file of its metadata is and where its patterns are.
AskRow == [secret : BOOLEAN, external : BOOLEAN,
           file : {"none", "workspace", "pin", "changed", "gone", "elsewhere"},
           patterns : SUBSET {"workspace", "copy", "sibling", "gone", "elsewhere"}]

ASSUME DesktopAssumption ==
  /\ NJobs \in Nat \ {0} /\ OwnerOf \in [Job -> Controller]
  /\ Installs \subseteq Job /\ Cancellable \subseteq Job /\ Asking \subseteq Job
  /\ {MaxParallel, ErrorLimit} \subseteq Nat \ {0}
  /\ {MaxRedos, MaxLead, MaxFaults, MaxRestarts} \subseteq Nat
  /\ Request \subseteq AskRow
  /\ NoController \notin Controller /\ NoJob \notin Job

VARIABLES
  job,       \* the rows as the open transaction sees them
  copies,    \* the jobs whose copies of pinned inputs are on the disk
  saved,     \* the rows as last committed
  journal,   \* the start journal: "none", "creating", "created"
  action,    \* the action journal exists
  ctl,       \* where each controller stands
  holder,    \* who has the desktop lock
  backend,   \* the instance of the desktop application
  session,   \* the session of each job
  late,      \* "no", or the limit the job has passed: "wall", "deadline"
  faults
vars == <<job, copies, saved, journal, action, ctl, holder, backend, session, late, faults>>
rows == <<job, copies>>
files == <<saved, journal, action>>

Terminal == {"passed", "failed", "cancelled", "timed_out"}

\* "new": not submitted yet.
NewJob == [state |-> "new", install |-> FALSE, sid |-> FALSE, target |-> "none", aborted |-> FALSE,
           backend |-> 0, open |-> {}, asked |-> FALSE, handled |-> FALSE, leads |-> 0,
           redos |-> 0, reviewed |-> 0, dispatched |-> FALSE, errors |-> 0, misses |-> 0]
Dormant == Terminal \cup {"new", "queued"}
NoAsk == [secret |-> FALSE, external |-> FALSE, file |-> "none", patterns |-> {}]
NewSession == [state |-> "none", told |-> FALSE, perm |-> "none", ask |-> NoAsk,
               starts |-> 0, turns |-> 0, actions |-> 0]
AtRest == [pc |-> "idle", back |-> "idle", job |-> NoJob, todo |-> {}, seen |-> 0]

Init ==
  /\ job = [j \in Job |-> NewJob] /\ saved = job /\ copies = {}
  /\ journal = [j \in Job |-> "none"] /\ action = [j \in Job |-> FALSE]
  /\ ctl = [c \in Controller |-> AtRest]
  /\ holder = NoController /\ backend = 1
  /\ session = [j \in Job |-> NewSession]
  /\ late = [j \in Job |-> "no"]
  /\ faults = 0

Mine(c) == {j \in Job : OwnerOf[j] = c /\ job[j].state # "new"}
At(c, pc) == ctl[c].pc = pc
Cur(c) == ctl[c].job
Goto(c, pc) == ctl' = [ctl EXCEPT ![c].pc = pc]
\* The copies are deleted with the end of the job, not with the commit of it.
CopiesWith(j, r) == IF r.state \in Terminal THEN copies \ {j} ELSE copies
Row(j, r) == job' = [job EXCEPT ![j] = r] /\ copies' = CopiesWith(j, r)

\* A call may fail; it does when the application has been restarted since.
Reached(c) == ctl[c].seen = backend
Fault == faults < MaxFaults /\ faults' = faults + 1
CallFails(c) == IF Reached(c) THEN Fault ELSE UNCHANGED faults
CallDies(c) == IF session[Cur(c)].state = "gone" THEN UNCHANGED faults ELSE CallFails(c)

\* Prompted: the status map may not show it yet.
Working(j) == session[j].state \in {"prompted", "busy"}

-----------------------------------------------------------------------------
(* submit: the copies are made first, then the row.                            *)

Isolate(j) ==
  /\ job[j].state = "new" /\ j \in Asking \ copies
  /\ copies' = copies \cup {j}
  /\ UNCHANGED <<job, files, ctl, holder, backend, session, late, faults>>

Submit(c, j) ==
  /\ At(c, "idle") /\ OwnerOf[j] = c /\ job[j].state = "new"
  /\ j \in Asking => j \in copies
  /\ \E install \in {FALSE, (j \in Installs)} :
       job' = [job EXCEPT ![j].state = "queued", ![j].install = install]
  /\ saved' = [saved EXCEPT ![j] = job'[j]]
  /\ UNCHANGED <<copies, journal, action, ctl, holder, backend, session, late, faults>>

\* An installation is never sent back: that would repeat it.
Redos(j) == IF job[j].install THEN 0 ELSE MaxRedos

-----------------------------------------------------------------------------
(* Stopping a job.                                                             *)

\* What an ended row keeps is what somebody may still read.
Ended(r, state) == [NewJob EXCEPT !.state = state, !.sid = r.sid, !.reviewed = r.reviewed,
                                  !.install = r.install]

\* stop: a job without a session ends at once; one with a session is aborted and
\* ends when the status map shows it idle or not at all.
Stopping(c, j, r, state, back) ==
  /\ Row(j, IF r.sid THEN [r EXCEPT !.state = "stopping", !.target = state]
            ELSE Ended(r, state))
  /\ ctl' = [ctl EXCEPT ![c].job = j, ![c].back = back,
                        ![c].pc = CASE ~r.sid -> back
                                    [] r.sid /\ r.aborted -> "confirm"
                                    [] OTHER -> "abort"]

\* fail_need_human: ended locally, the session is let go of and not aborted.
NeedHuman(r) == Ended([r EXCEPT !.sid = FALSE], "failed")

\* The abort is accepted: a prompt that has not begun is withdrawn, a worker is
\* told to stop.
Aborted(s) == [s EXCEPT !.state = IF @ = "prompted" THEN "stopped" ELSE @,
                        !.told = @ \/ s.state = "busy"]
\* Mutant: the abort counts as sent before it is.
AbortMarksFirst(c) ==
  LET j == Cur(c) IN
  /\ At(c, "abort")
  /\ Row(j, [job[j] EXCEPT !.aborted = TRUE])
  /\ \/ /\ Reached(c) /\ session[j].state # "gone" /\ Goto(c, "confirm")
        /\ session' = [session EXCEPT ![j] = Aborted(@)] /\ UNCHANGED faults
     \/ /\ CallDies(c)
        /\ Goto(c, ctl[c].back) /\ UNCHANGED session
  /\ UNCHANGED <<files, holder, backend, late>>
Abort(c) ==
  LET j == Cur(c) IN
  /\ At(c, "abort")
  /\ \/ /\ Reached(c) /\ session[j].state # "gone" /\ Goto(c, "confirm")
        /\ Row(j, [job[j] EXCEPT !.aborted = TRUE])
        /\ session' = [session EXCEPT ![j] = Aborted(@)] /\ UNCHANGED faults
     \/ /\ CallDies(c)
        /\ Goto(c, ctl[c].back) /\ UNCHANGED <<rows, session>>
  /\ UNCHANGED <<files, holder, backend, late>>

\* Mutant: an accepted abort is taken for a stopped worker.
ConfirmAtOnce(c) ==
  /\ At(c, "confirm")
  /\ Row(Cur(c), Ended(job[Cur(c)], job[Cur(c)].target))
  /\ Goto(c, ctl[c].back)
  /\ UNCHANGED <<files, holder, backend, session, late, faults>>
Confirm(c) ==
  LET j == Cur(c) IN
  /\ At(c, "confirm")
  /\ \/ /\ Reached(c) /\ session[j].state # "busy" /\ UNCHANGED faults
        /\ Row(j, Ended(job[j], job[j].target))
     \/ Reached(c) /\ session[j].state = "busy" /\ UNCHANGED <<rows, faults>>
     \/ CallFails(c) /\ UNCHANGED rows
  /\ Goto(c, ctl[c].back)
  /\ UNCHANGED <<files, holder, backend, session, late>>

-----------------------------------------------------------------------------
(* A tick: one transaction over all jobs of the controller.                    *)

BeginTick(c) ==
  /\ At(c, "idle")
  /\ \E j \in Mine(c) : job[j].state \notin Terminal
  /\ ctl' = [ctl EXCEPT ![c] = [AtRest EXCEPT !.pc = "next", !.todo = Mine(c), !.seen = backend]]
  /\ UNCHANGED <<rows, files, holder, backend, session, late, faults>>

NextJob(c) ==
  /\ At(c, "next")
  /\ \E j \in ctl[c].todo :
         /\ \A i \in ctl[c].todo : j <= i
         /\ ctl' = [ctl EXCEPT ![c].pc = "job", ![c].job = j, ![c].todo = @ \ {j}]
         /\ Row(j, job[j])
  /\ UNCHANGED <<files, holder, backend, session, late, faults>>

\* The commit, and release_desktop_if_idle after it.
CommitTick(c) ==
  /\ At(c, "next") /\ ctl[c].todo = {}
  /\ saved' = [j \in Job |-> IF j \in Mine(c) THEN job[j] ELSE saved[j]]
  /\ holder' = IF holder = c /\ \A j \in Mine(c) : job[j].state \in Terminal
               THEN NoController ELSE holder
  /\ ctl' = [ctl EXCEPT ![c] = AtRest]
  /\ UNCHANGED <<rows, journal, action, backend, session, late, faults>>

Active(c) == Cardinality({j \in Mine(c) : job[j].state \notin Dormant})
Starts(c) == At(c, "job") /\ job[Cur(c)].state = "queued" /\ Active(c) < MaxParallel

NoStart(c) ==
  /\ At(c, "job") /\ ~Starts(c)
  /\ Goto(c, "check")
  /\ UNCHANGED <<rows, files, holder, backend, session, late, faults>>

\* A journal without a row that has started: the outcome of an earlier start is
\* not known, and it is not repeated.
Interrupted(c) ==
  LET j == Cur(c) IN
  /\ Starts(c) /\ journal[j] # "none"
  /\ Stopping(c, j, [job[j] EXCEPT !.sid = (journal[j] = "created")], "failed", "check")
  /\ UNCHANGED <<files, holder, backend, session, late, faults>>

\* claim_desktop: another controller has the desktop, or it is ours.
Occupy(c) ==
  LET j == Cur(c)
      r == [job[j] EXCEPT !.state = "starting", !.backend = ctl[c].seen]
  IN  /\ Starts(c) /\ journal[j] = "none"
      /\ IF holder \in {c, NoController}
         THEN Row(j, r) /\ holder' = c /\ Goto(c, "foreign")
         ELSE Row(j, NeedHuman(r)) /\ UNCHANGED holder /\ Goto(c, "check")
      /\ UNCHANGED <<files, backend, session, late, faults>>

\* foreign_desktop_busy: a session works that no row of this controller names.
Foreign(c) == {i \in Job : Working(i) /\ ~(i \in Mine(c) /\ job[i].sid)}

LookAround(c) ==
  LET j == Cur(c) IN
  /\ At(c, "foreign")
  /\ \/ /\ Reached(c) /\ Foreign(c) # {}
        /\ Row(j, NeedHuman(job[j])) /\ Goto(c, "check") /\ UNCHANGED <<journal, faults>>
     \/ /\ Reached(c) /\ Foreign(c) \cap {i \in Job : session[i].state = "busy"} = {}
        /\ journal' = [journal EXCEPT ![j] = "creating"] /\ Goto(c, "create")
        /\ UNCHANGED <<rows, faults>>
     \/ /\ CallFails(c)
        /\ Stopping(c, j, job[j], "failed", "check") /\ UNCHANGED journal
  /\ UNCHANGED <<saved, action, holder, backend, session, late>>

\* POST /session, and the journal of the session.
Create(c) ==
  LET j == Cur(c) IN
  /\ At(c, "create") /\ Reached(c)
  /\ session' = [session EXCEPT ![j].state = "idle"]
  /\ journal' = [journal EXCEPT ![j] = "created"]
  /\ Row(j, [job[j] EXCEPT !.sid = TRUE])
  /\ Goto(c, "prompt")
  /\ UNCHANGED <<saved, action, holder, backend, late, faults>>

CreateFails(c) ==
  /\ At(c, "create") /\ CallFails(c)
  /\ Stopping(c, Cur(c), job[Cur(c)], "failed", "check")
  /\ UNCHANGED <<files, holder, backend, session, late>>

\* A prompt of any kind begins a turn.
Turn(s) == [s EXCEPT !.state = "busy", !.turns = @ + 1, !.told = FALSE]
FirstTurn(j) == [Turn(session[j]) EXCEPT !.state = "prompted", !.starts = @ + 1]

Prompt(c) ==
  LET j == Cur(c) IN
  /\ At(c, "prompt") /\ Reached(c) /\ session[j].state = "idle"
  /\ session' = [session EXCEPT ![j] = FirstTurn(j)]
  /\ Row(j, [job[j] EXCEPT !.state = "running"])
  /\ Goto(c, "next")
  /\ UNCHANGED <<files, holder, backend, late, faults>>

\* Refused, or the answer is lost, or the ask policy was not acknowledged.
PromptFails(c) ==
  LET j == Cur(c) IN
  /\ At(c, "prompt")
  /\ \/ session[j].state # "idle" /\ UNCHANGED <<session, faults>>
     \/ CallFails(c) /\ UNCHANGED session
     \/ /\ Reached(c) /\ session[j].state = "idle" /\ Fault
        /\ session' = [session EXCEPT ![j] = FirstTurn(j)]
  /\ Stopping(c, j, job[j], "failed", "check")
  /\ UNCHANGED <<files, holder, backend, late>>

-----------------------------------------------------------------------------
(* The rest of a tick for a job that has started.                              *)

Checking(c) == At(c, "check") /\ job[Cur(c)].state \notin Dormant
Current(c) == job[Cur(c)].backend = ctl[c].seen
\* Only a session that this row and no other names, on this instance, is aborted.
Owned(c) == job[Cur(c)].sid /\ Current(c)
Kept == UNCHANGED <<files, holder, backend, session, late>>

PassOver(c) ==
  /\ At(c, "check") /\ ~Checking(c)
  /\ Goto(c, "next") /\ UNCHANGED rows /\ Kept /\ UNCHANGED faults

\* probe_in_flight: the application was restarted, or the job never knew it.
Lost(c) ==
  /\ Checking(c) /\ ~Current(c)
  /\ Row(Cur(c), NeedHuman(job[Cur(c)])) /\ Goto(c, "next") /\ Kept /\ UNCHANGED faults

\* The deadline stops any job, the wall budget one that is not stopping yet.
Overdue(c) ==
  LET j == Cur(c) IN
  /\ Checking(c) /\ Current(c)
  /\ \/ late[j] = "deadline" /\ Stopping(c, j, job[j], "timed_out", "next")
     \/ /\ late[j] = "wall" /\ job[j].state # "stopping" /\ Owned(c)
        /\ Stopping(c, j, job[j], "failed", "next")
  /\ Kept /\ UNCHANGED faults

StopAgain(c) ==
  LET j == Cur(c) IN
  /\ Checking(c) /\ Current(c) /\ late[j] # "deadline" /\ job[j].state = "stopping"
  /\ Stopping(c, j, job[j], job[j].target, "next")
  /\ Kept /\ UNCHANGED faults

Due(c) == /\ Checking(c) /\ Current(c) /\ late[Cur(c)] = "no"
          /\ job[Cur(c)].state \in {"running", "awaiting_permission"}

\* Waiting for the lead, or not due.
NotDue(c) ==
  /\ \/ Due(c)
     \/ Checking(c) /\ Current(c) /\ late[Cur(c)] = "no"
        /\ job[Cur(c)].state \in {"awaiting_review", "awaiting_action"}
  /\ Goto(c, "next") /\ UNCHANGED rows /\ Kept /\ UNCHANGED faults

-----------------------------------------------------------------------------
(* scan.                                                                       *)

Done(c, r) == Row(Cur(c), r) /\ Goto(c, "next")
Clean(r) == [r EXCEPT !.errors = 0]

\* A call fails: after ErrorLimit scans in a row, or at once when the
\* credentials are refused, a person is asked.
ScanFails(c) ==
  LET r == job[Cur(c)] IN
  /\ Due(c) /\ CallFails(c)
  /\ \/ Done(c, NeedHuman(r))
     \/ r.errors + 1 < ErrorLimit /\ Done(c, [r EXCEPT !.errors = @ + 1])
  /\ Kept

\* A file outside the workspace must be a pinned input, still whole and of one name.
FileAllows(p) == p.file \in {"workspace", "pin"}
FileRefused(p) == ~FileAllows(p) /\ p.file # "none"
\* A pattern stays in the workspace or in the directory of one isolated copy.
Escapes(pattern) == pattern \notin {"workspace", "copy"}
\* The request as the files stand now.
Asked(j) == IF j \in copies THEN session[j].ask
            ELSE [session[j].ask EXCEPT
                    !.file = IF @ = "pin" THEN "gone" ELSE @,
                    !.patterns = {IF x = "copy" THEN "gone" ELSE x : x \in @}]
HardRejected(p) ==
  \/ p.secret
  \/ /\ p.external
     /\ \/ FileRefused(p)
        \/ p.patterns = {} /\ ~FileAllows(p)
        \/ \E pattern \in p.patterns : Escapes(pattern)

\* The permission request is gone: so is what was asked about it.
Open(j) == session[j].perm = "open"
Seen(j) == IF Open(j) THEN job[j] ELSE [job[j] EXCEPT !.open = @ \ {"permission"}]

Replied(s, reply) == [s EXCEPT !.perm = reply, !.ask = NoAsk]
HardReject(c) ==
  LET j == Cur(c) IN
  /\ Due(c) /\ Reached(c) /\ Open(j) /\ HardRejected(Asked(j))
  /\ session' = [session EXCEPT ![j] = Replied(@, "answered")]
  /\ Done(c, [Clean(job[j]) EXCEPT !.handled = TRUE, !.state = "awaiting_permission"])
  /\ UNCHANGED <<files, holder, backend, late, faults>>

\* request: the budget of questions to the lead may be used up.
Ask(c, r, kind, state) ==
  IF r.leads >= MaxLead THEN Stopping(c, Cur(c), r, "failed", "next")
  ELSE Done(c, [Clean(r) EXCEPT !.open = @ \cup {kind}, !.leads = @ + 1, !.state = state])

AskPermission(c) ==
  LET j == Cur(c) IN
  /\ Due(c) /\ Reached(c) /\ Open(j) /\ ~HardRejected(Asked(j)) /\ ~job[j].handled /\ ~job[j].asked
  /\ Ask(c, [job[j] EXCEPT !.asked = TRUE], "permission", "awaiting_permission")
  /\ Kept /\ UNCHANGED faults

StillOpen(c) ==
  LET j == Cur(c) IN
  /\ Due(c) /\ Reached(c)
  /\ \/ Open(j) /\ ~HardRejected(Asked(j)) /\ (job[j].handled \/ job[j].asked)
     \/ ~Open(j) /\ Seen(j).open # {}
  /\ Done(c, [Clean(Seen(j)) EXCEPT !.state = "awaiting_permission"])
  /\ Kept /\ UNCHANGED faults

\* What the status map and the transcript say when nothing is open.
Quiet(c) == Due(c) /\ Reached(c) /\ ~Open(Cur(c)) /\ Seen(Cur(c)).open = {}

Gone(c) ==
  /\ Quiet(c) /\ session[Cur(c)].state = "gone"
  /\ Done(c, NeedHuman(job[Cur(c)])) /\ Kept /\ UNCHANGED faults

StillWorking(c) ==
  /\ Quiet(c) /\ Working(Cur(c))
  /\ Done(c, [Clean(Seen(Cur(c))) EXCEPT !.state = "running", !.misses =
                IF session[Cur(c)].state = "busy" THEN 0 ELSE @])
  /\ Kept /\ UNCHANGED faults

\* Not in the map and no answer of the worker in the transcript: after
\* ErrorLimit such scans the job is given up.
SoftMiss(c) ==
  LET r == Clean(Seen(Cur(c))) IN
  /\ Quiet(c) /\ session[Cur(c)].state \in {"prompted", "stopped"}
  /\ Done(c, IF r.misses + 1 >= ErrorLimit THEN NeedHuman(r)
             ELSE [r EXCEPT !.state = "running", !.misses = @ + 1])
  /\ Kept /\ UNCHANGED faults

\* The turn was stopped before its end: the job waits.
Unfinished(c) ==
  /\ Quiet(c) /\ session[Cur(c)].state = "stopped"
  /\ Done(c, Clean(Seen(Cur(c)))) /\ Kept /\ UNCHANGED faults

\* The worker reports an error or has used up its steps; or its request for the
\* system action is not the one of the charter.
Proposes(j) == job[j].install /\ ~job[j].dispatched
TurnFailed(c) ==
  LET j == Cur(c) IN
  /\ Quiet(c)
  /\ session[j].state = "errored" \/ (session[j].state = "flawed" /\ Proposes(j))
  /\ Stopping(c, j, Seen(j), "failed", "next")
  /\ Kept /\ UNCHANGED faults

AskAction(c) ==
  LET j == Cur(c) IN
  /\ Quiet(c) /\ session[j].state = "finished" /\ Proposes(j)
  /\ Ask(c, [Seen(j) EXCEPT !.misses = 0], "system_action", "awaiting_action")
  /\ Kept /\ UNCHANGED faults

\* The artifacts as snapshot reads them: those that the last turn left.
Artifacts(j) == session[j].turns
\* The review packet holds the artifacts of this turn, with what is wrong with them.
AskReview(c) ==
  LET j == Cur(c) IN
  /\ Quiet(c) /\ session[j].state \in {"finished", "flawed"} /\ ~Proposes(j)
  /\ Ask(c, [Seen(j) EXCEPT !.misses = 0, !.reviewed = Artifacts(j)], "review", "awaiting_review")
  /\ Kept /\ UNCHANGED faults

-----------------------------------------------------------------------------
(* The lead's decisions and cancels: transactions of their own.               *)

Deciding(c, j, kind) ==
  /\ At(c, "idle") /\ OwnerOf[j] = c
  /\ kind \in job[j].open
  /\ job[j].state \notin Terminal \cup {"stopping"}
  /\ late[j] # "deadline" /\ job[j].backend = backend

Begun(c, j, pc) == ctl' = [ctl EXCEPT ![c] = [AtRest EXCEPT !.pc = pc, !.back = "commit",
                                                            !.job = j, !.seen = backend]]
Closed(j, kind) == [job[j] EXCEPT !.open = @ \ {kind}]
Decided(c, j, r) == Row(j, r) /\ Begun(c, j, "commit")
\* The decision ends the job: stop, as part of the transaction.
DecidedStop(c, j, r, state) ==
  /\ Row(j, IF r.sid THEN [r EXCEPT !.state = "stopping", !.target = state] ELSE Ended(r, state))
  /\ Begun(c, j, IF ~r.sid THEN "commit" ELSE IF r.aborted THEN "confirm" ELSE "abort")

\* once, reject, deny_job; a lost answer takes the transaction back.
Answered(j) == [Closed(j, "permission") EXCEPT !.handled = TRUE, !.state = "running"]
\* Mutant: the rule is not asked again, although the lead saw the request earlier.
GrantAsSeen(c, j) ==
  /\ session' = [session EXCEPT ![j] = Replied(@, "granted")] /\ Decided(c, j, Answered(j))
Grant(c, j) ==
  /\ ~HardRejected(Asked(j))
  /\ session' = [session EXCEPT ![j] = Replied(@, "granted")] /\ Decided(c, j, Answered(j))
DecidePermission(c, j) ==
  /\ Deciding(c, j, "permission") /\ Open(j)
  /\ \/ Grant(c, j)
     \/ /\ session' = [session EXCEPT ![j] = Replied(@, "answered")]
        /\ Decided(c, j, Answered(j)) \/ DecidedStop(c, j, Answered(j), "failed")
  /\ UNCHANGED <<files, holder, backend, late, faults>>

\* The worker is idle and the artifacts are those of the packet, whole.
\* Mutant: the artifacts are not compared with the packet.
MayPassUnread(j) ==
  /\ session[j].state = "finished"
  /\ job[j].install => job[j].dispatched
MayPass(j) ==
  /\ session[j].state = "finished" /\ Artifacts(j) = job[j].reviewed
  /\ job[j].install => job[j].dispatched

DecidePass(c, j) ==
  /\ Deciding(c, j, "review") /\ MayPass(j)
  /\ Decided(c, j, Ended(job[j], "passed"))
  /\ UNCHANGED <<files, holder, backend, session, late, faults>>

\* The work is sent back, as often as the charter allows.
DecideRedo(c, j) ==
  /\ Deciding(c, j, "review") /\ job[j].redos < Redos(j) /\ session[j].state # "gone"
  /\ session' = [session EXCEPT ![j] = Turn(@)]
  /\ Decided(c, j, [Closed(j, "review") EXCEPT !.redos = @ + 1, !.state = "running"])
  /\ UNCHANGED <<files, holder, backend, late, faults>>

DecideFail(c, j) ==
  /\ \/ Deciding(c, j, "review") /\ job[j].redos >= Redos(j)
     \/ Deciding(c, j, "system_action")
  /\ DecidedStop(c, j, [job[j] EXCEPT !.open = {}], "failed")
  /\ UNCHANGED <<files, holder, backend, session, late, faults>>

\* The action journal is written before the package is staged and the worker
\* prompted; an approval that finds one is refused.
\* Mutant: the journal is not looked at.
ApproveAgain(c, j) ==
  /\ Deciding(c, j, "system_action")
  /\ action' = [action EXCEPT ![j] = TRUE]
  /\ Begun(c, j, "execute")
  /\ UNCHANGED <<rows, saved, journal, holder, backend, session, late, faults>>
Approve(c, j) ==
  /\ Deciding(c, j, "system_action") /\ ~action[j]
  /\ action' = [action EXCEPT ![j] = TRUE]
  /\ Begun(c, j, "execute")
  /\ UNCHANGED <<rows, saved, journal, holder, backend, session, late, faults>>

Execute(c) ==
  LET j == Cur(c) IN
  /\ At(c, "execute") /\ Reached(c) /\ session[j].state # "gone"
  /\ session' = [session EXCEPT ![j] = [Turn(session[j]) EXCEPT !.actions = @ + 1]]
  /\ Row(j, [Closed(j, "system_action") EXCEPT !.dispatched = TRUE, !.state = "running"])
  /\ Goto(c, "commit")
  /\ UNCHANGED <<files, holder, backend, late, faults>>

Cancel(c, j) ==
  /\ At(c, "idle") /\ OwnerOf[j] = c /\ j \in Cancellable /\ job[j].state \notin Terminal \cup {"new"}
  /\ job[j].sid => job[j].backend = backend
  /\ DecidedStop(c, j, job[j], "cancelled")
  /\ UNCHANGED <<files, holder, backend, session, late, faults>>

Commit(c) ==
  /\ At(c, "commit")
  /\ saved' = [saved EXCEPT ![Cur(c)] = job[Cur(c)]]
  /\ ctl' = [ctl EXCEPT ![c] = AtRest]
  /\ UNCHANGED <<rows, journal, action, holder, backend, session, late, faults>>

-----------------------------------------------------------------------------
(* Exceptions, crashes, and the end of a command.                              *)

RolledBack(c) ==
  /\ job' = [j \in Job |-> IF j \in Mine(c) THEN saved[j] ELSE job[j]]
  /\ ctl' = [ctl EXCEPT ![c] = AtRest]
  /\ UNCHANGED copies

\* A call of a decision fails or its answer is lost: nothing is decided.
DecisionFails(c) ==
  /\ At(c, "commit") \/ At(c, "execute")
  /\ CallDies(c)
  /\ RolledBack(c)
  /\ UNCHANGED <<files, holder, backend, session, late>>

Freed(c) == holder' = IF holder = c THEN NoController ELSE holder

\* The process dies within a transaction.
Crash(c) ==
  /\ ~At(c, "idle") /\ Fault
  /\ RolledBack(c) /\ Freed(c)
  /\ UNCHANGED <<files, backend, session, late>>

\* The process ends between two; the next command is another one.
Exit(c) ==
  /\ At(c, "idle") /\ holder = c /\ Freed(c)
  /\ UNCHANGED <<rows, files, ctl, backend, session, late, faults>>

-----------------------------------------------------------------------------
(* The workers, the clock, and the desktop.                                    *)

World == UNCHANGED <<rows, files, ctl, holder>>

Appear(j) ==
  /\ session[j].state = "prompted"
  /\ session' = [session EXCEPT ![j].state = "busy"]
  /\ World /\ UNCHANGED <<backend, late, faults>>

RaiseRequest(j) ==
  /\ j \in Asking /\ session[j].state = "busy" /\ ~session[j].told /\ session[j].perm = "none"
  /\ \E p \in Request : session' = [session EXCEPT ![j].perm = "open", ![j].ask = p]
  /\ World /\ UNCHANGED <<backend, late, faults>>

\* The pinned file is changed, or gets a second name, while its request waits.
Tamper(j) ==
  /\ Open(j) /\ session[j].ask.file = "pin" /\ Fault
  /\ session' = [session EXCEPT ![j].ask.file = "changed"]
  /\ World /\ UNCHANGED <<backend, late>>

FinishTurn(j) ==
  /\ session[j].state = "busy" /\ ~Open(j)
  /\ \E s \in {"finished", "flawed", "errored"} : session' = [session EXCEPT ![j].state = s, ![j].told = FALSE]
  /\ World /\ UNCHANGED <<backend, late, faults>>

Withdrawn(s) == IF s.perm = "open" THEN Replied(s, "answered") ELSE s
Halt(j) ==
  /\ session[j].state = "busy" /\ session[j].told
  /\ session' = [session EXCEPT ![j] = [Withdrawn(@) EXCEPT !.state = "stopped", !.told = FALSE]]
  /\ World /\ UNCHANGED <<backend, late, faults>>

Expire(j) ==
  /\ saved[j].state \notin Dormant
  /\ \E limit \in {"wall", "deadline"} :
       limit # late[j] /\ late[j] # "deadline" /\ late' = [late EXCEPT ![j] = limit]
  /\ World /\ UNCHANGED <<backend, session, faults>>

Dead(s) == IF s.state = "none" THEN s ELSE [Withdrawn(s) EXCEPT !.state = "gone", !.told = FALSE]
Delete(j) ==
  /\ session[j].state \notin {"none", "gone"} /\ Fault
  /\ session' = [session EXCEPT ![j] = Dead(@)]
  /\ World /\ UNCHANGED <<backend, late>>

Restart ==
  /\ backend <= MaxRestarts /\ backend' = backend + 1
  /\ session' = [j \in Job |-> Dead(session[j])]
  /\ World /\ UNCHANGED <<late, faults>>

Tick(c) ==
  \/ NextJob(c) \/ CommitTick(c) \/ NoStart(c) \/ Interrupted(c) \/ Occupy(c)
  \/ LookAround(c) \/ Create(c) \/ CreateFails(c) \/ Prompt(c) \/ PromptFails(c)
  \/ Abort(c) \/ Confirm(c)
  \/ PassOver(c) \/ Lost(c) \/ Overdue(c) \/ StopAgain(c) \/ NotDue(c)
  \/ ScanFails(c) \/ HardReject(c) \/ AskPermission(c) \/ StillOpen(c) \/ Gone(c)
  \/ StillWorking(c) \/ SoftMiss(c) \/ Unfinished(c) \/ TurnFailed(c)
  \/ AskAction(c) \/ AskReview(c)
Transaction(c) == Tick(c) \/ Execute(c) \/ Commit(c) \/ DecisionFails(c)
Decide(c, j) == \/ DecidePermission(c, j) \/ DecidePass(c, j) \/ DecideRedo(c, j)
                \/ DecideFail(c, j) \/ Approve(c, j)

Next ==
  \/ \E c \in Controller : BeginTick(c) \/ Transaction(c) \/ Crash(c) \/ Exit(c)
  \/ \E c \in Controller, j \in Job : Submit(c, j) \/ Decide(c, j) \/ Cancel(c, j)
  \/ \E j \in Job : Isolate(j) \/ Appear(j) \/ RaiseRequest(j) \/ Tamper(j) \/ FinishTurn(j) \/ Halt(j) \/ Expire(j) \/ Delete(j)
  \/ Restart

Spec == Init /\ [][Next]_vars

\* Somebody ticks again and again, whatever is decided or cancelled in between; a
\* worker told to stop stops, deadlines pass.
Fairness ==
  /\ \A c \in Controller : SF_vars(BeginTick(c)) /\ WF_vars(Transaction(c))
  /\ \A j \in Job : WF_vars(Appear(j)) /\ WF_vars(Halt(j)) /\ WF_vars(Expire(j))
LiveSpec == Spec /\ Fairness

-----------------------------------------------------------------------------
(* Properties.                                                                 *)

\* A job is started once and its approved action is carried out once, whatever
\* crash, lost answer or exception takes the transaction back (start_journal,
\* action_journal).
DispatchedOnce == \A j \in Job : session[j].starts <= 1 /\ session[j].actions <= 1

\* A job that has ended under the name of its session has a worker that stopped.
EndedIsStopped == \A j \in Job : saved[j].state \in Terminal /\ saved[j].sid => ~Working(j)

\* What was accepted is what the lead was shown, although a redo may have been
\* prompted by a decision that was taken back; an installation was carried out.
\* This takes it that a redo shows busy at once and leaves other artifacts.
PassedWasReviewed ==
  \A j \in Job : saved[j].state = "passed" =>
    /\ session[j].turns = saved[j].reviewed
    /\ saved[j].install => session[j].actions = 1

\* What a worker is granted lies in its workspace and the pinned inputs at the time of
\* the answer, whatever became of the files since the lead was asked.
Contained(p) == /\ ~p.secret
                /\ p.external => /\ p.file \in {"none", "workspace", "pin"}
                                 /\ p.patterns \subseteq {"workspace", "copy"}
GrantIsContained ==
  [][\A j \in Job : session[j].perm = "open" /\ session'[j].perm = "granted"
                       => Contained(Asked(j))]_vars

\* Every job ends, through crashes, restarts of the desktop and silent leads, unless
\* somebody deletes its session: an abort of it is refused for ever.
Deleted(j) == session[j].state = "gone" /\ saved[j].backend = backend
EveryJobEnds ==
  \A j \in Job : saved[j].state = "queued" ~> saved[j].state \in Terminal \/ Deleted(j)
=============================================================================
