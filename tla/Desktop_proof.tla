--------------------------- MODULE Desktop_proof ---------------------------
(* Theorems about Desktop, on DesktopAssumption: for any controllers, jobs,  *)
(* permission requests and limits, any failing calls, crashes and restarts.  *)
(*                                                                           *)
(* The invariant says what a row, committed or not, and the session of its   *)
(* job say of each other (RowOK), what the journals say of a session         *)
(* (SessionOK), and what a controller knows where it stands (CtlOK).         *)
EXTENDS Desktop, TLAPS

Stops == {"failed", "timed_out", "cancelled"}
JobState == Terminal \cup {"new", "queued", "starting", "running", "stopping",
                           "awaiting_permission", "awaiting_action", "awaiting_review"}
Kind == {"permission", "system_action", "review"}
JobRow == [state : JobState, install : BOOLEAN, sid : BOOLEAN, target : Stops \cup {"none"},
           aborted : BOOLEAN, backend : Nat, open : SUBSET Kind, asked : BOOLEAN,
           handled : BOOLEAN, leads : Nat, redos : Nat, reviewed : Nat,
           dispatched : BOOLEAN, errors : Nat, misses : Nat]
SessionRow == [state : {"none", "idle", "prompted", "busy", "finished", "flawed", "errored",
                        "stopped", "gone"},
               told : BOOLEAN, perm : {"none", "open", "answered", "granted"}, ask : AskRow,
               starts : Nat, turns : Nat, actions : Nat]
PC == {"idle", "next", "job", "foreign", "create", "prompt", "check", "abort", "confirm",
       "execute", "commit"}
CtlRow == [pc : PC, back : {"idle", "check", "next", "commit"}, job : Job \cup {NoJob},
           todo : SUBSET Job, seen : Nat]

Rows == /\ job \in [Job -> JobRow] /\ saved \in [Job -> JobRow]
        /\ session \in [Job -> SessionRow] /\ ctl \in [Controller -> CtlRow]
        /\ journal \in [Job -> {"none", "creating", "created"}] /\ action \in [Job -> BOOLEAN]
Surroundings == /\ copies \subseteq Job /\ holder \in Controller \cup {NoController}
                /\ backend \in Nat /\ late \in [Job -> {"no", "wall", "deadline"}] /\ faults \in Nat
TypeOK == Rows /\ Surroundings

\* What a row r, the session s of its job and its start journal jr say of each other.
RowOK(r, s, jr) ==
  /\ r.sid => jr = "created"
  /\ r.aborted => r.sid /\ r.state = "stopping" /\ s.state # "prompted"
  /\ r.state = "stopping" => r.target \in Stops
  /\ r.state \in Terminal /\ r.sid => s.state \notin {"prompted", "busy"}
  /\ r.dispatched => s.actions = 1
  /\ r.state = "passed" => s.turns = r.reviewed /\ (r.install => s.actions = 1)

\* Nobody starts without a journal or carries out an action without one.
SessionOK(s, jr, a) ==
  /\ s.starts <= 1 /\ (s.starts = 1 => jr = "created")
  /\ s.actions <= 1 /\ (s.actions = 1 => a)

\* A job that has ended for good is not touched by an open transaction.
JobOK(r, sv, s, jr, a) ==
  /\ RowOK(r, s, jr) /\ RowOK(sv, s, jr) /\ SessionOK(s, jr, a)
  /\ sv.state \in Terminal => r = sv

\* What a controller with the record k knows of the job it is at.
CtlOK(k, r, sv, s, jr, a) ==
  /\ k.pc = "foreign" => r.state = "starting" /\ jr = "none"
  /\ k.pc = "create" => r.state = "starting" /\ jr = "creating"
  /\ k.pc = "prompt" => r.state = "starting" /\ jr = "created" /\ ~sv.aborted /\ s.starts = 0
  /\ k.pc = "abort" => r.state = "stopping" /\ r.sid
  /\ k.pc = "confirm" => r.state = "stopping" /\ r.aborted
  /\ k.pc = "execute" => a /\ s.actions = 0 /\ r.state \notin Terminal \cup {"stopping"}

JobInv(j) == JobOK(job[j], saved[j], session[j], journal[j], action[j])
CtlInv(c) ==
  /\ \A j \in ctl[c].todo : OwnerOf[j] = c
  /\ ctl[c].pc \notin {"idle", "next"} =>
       /\ ctl[c].job \in Job /\ OwnerOf[ctl[c].job] = c
       /\ CtlOK(ctl[c], job[ctl[c].job], saved[ctl[c].job], session[ctl[c].job],
                journal[ctl[c].job], action[ctl[c].job])

DesktopInv == TypeOK /\ (\A j \in Job : JobInv(j)) /\ (\A c \in Controller : CtlInv(c))

-----------------------------------------------------------------------------
(* What a step of one controller at one of its jobs may disturb.             *)

\* Nothing changes but job j and controller c.
Frame(c, j) ==
  /\ \A i \in Job \ {j} : /\ job'[i] = job[i] /\ saved'[i] = saved[i]
                          /\ session'[i] = session[i]
                          /\ journal'[i] = journal[i] /\ action'[i] = action[i]
  /\ \A d \in Controller \ {c} : ctl'[d] = ctl[d]

LEMMA FrameStep ==
  ASSUME DesktopInv, NEW c \in Controller, NEW j \in Job, OwnerOf[j] = c, TypeOK', Frame(c, j),
         JobOK(job'[j], saved'[j], session'[j], journal'[j], action'[j]), CtlInv(c)'
  PROVE  DesktopInv'
<1>1. ASSUME NEW i \in Job PROVE JobInv(i)'
  <2>1. CASE i = j
    BY <2>1 DEF JobInv
  <2>2. CASE i # j
    <3>1. JobInv(i)
      BY DEF DesktopInv
    <3> QED
      BY <2>2, <3>1 DEF JobInv, Frame
  <2> QED
    BY <2>1, <2>2
<1>2. ASSUME NEW d \in Controller PROVE CtlInv(d)'
  <2>1. CASE d = c
    BY <2>1
  <2>2. CASE d # c
    <3>1. CtlInv(d) /\ ctl'[d] = ctl[d]
      BY <2>2 DEF DesktopInv, Frame
    <3>2. ASSUME ctl[d].pc \notin {"idle", "next"} PROVE ctl[d].job \in Job \ {j}
      BY <2>2, <3>1, <3>2 DEF CtlInv
    <3> QED
      BY <3>1, <3>2 DEF CtlInv, Frame
  <2> QED
    BY <2>1, <2>2
<1> QED
  BY <1>1, <1>2 DEF DesktopInv

\* What the step reads of the job its controller is at.
LEMMA AtJob ==
  ASSUME DesktopInv, NEW c \in Controller, ctl[c].pc \notin {"idle", "next"}
  PROVE  /\ Cur(c) \in Job /\ OwnerOf[Cur(c)] = c /\ JobInv(Cur(c))
         /\ CtlOK(ctl[c], job[Cur(c)], saved[Cur(c)], session[Cur(c)], journal[Cur(c)], action[Cur(c)])
         /\ \A i \in ctl[c].todo : OwnerOf[i] = c
<1>1. CtlInv(c)
  BY DEF DesktopInv
<1>2. Cur(c) \in Job
  BY <1>1 DEF CtlInv, Cur
<1> QED
  BY <1>1, <1>2 DEF CtlInv, DesktopInv, Cur

LEMMA FaultCount ==
  ASSUME faults \in Nat, NEW c \in Controller, Fault \/ CallFails(c) \/ CallDies(c) \/ faults' = faults
  PROVE  faults' \in Nat
  BY DEF Fault, CallFails, CallDies

\* A row and a controller are written over, the sessions and the files are not.
LEMMA RowTypes ==
  ASSUME TypeOK, NEW c \in Controller, NEW j \in Job, NEW r \in JobRow, NEW k \in CtlRow,
         Row(j, r), ctl' = [ctl EXCEPT ![c] = k]
  PROVE  job' \in [Job -> JobRow] /\ ctl' \in [Controller -> CtlRow] /\ copies' \subseteq Job
<1>1. job' \in [Job -> JobRow]
  BY DEF TypeOK, Rows, Row
<1>2. ctl' \in [Controller -> CtlRow]
  BY DEF TypeOK, Rows
<1>3. copies' \subseteq Job
  BY DEF TypeOK, Surroundings, Row, CopiesWith
<1> QED
  BY <1>1, <1>2, <1>3

\* A step that writes the row r of job j, its session and journals, and where c stands, k.
Writes(c, j, r, s, jr, a, k) ==
  /\ Row(j, r) /\ ctl' = [ctl EXCEPT ![c] = k] /\ session' = [session EXCEPT ![j] = s]
  /\ journal' = [journal EXCEPT ![j] = jr] /\ action' = [action EXCEPT ![j] = a]
  /\ UNCHANGED <<saved, backend, late>>

LEMMA RowStep ==
  ASSUME DesktopInv, NEW c \in Controller, NEW j \in Job, OwnerOf[j] = c,
         NEW r \in JobRow, NEW s \in SessionRow, NEW jr \in {"none", "creating", "created"},
         NEW a \in BOOLEAN, NEW k \in CtlRow,
         Writes(c, j, r, s, jr, a, k),
         holder' \in Controller \cup {NoController}, faults' \in Nat,
         k.job = j, \A i \in k.todo : OwnerOf[i] = c,
         JobOK(r, saved[j], s, jr, a), k.pc \notin {"idle", "next"} => CtlOK(k, r, saved[j], s, jr, a)
  PROVE  DesktopInv'
<1>1. TypeOK
  BY DEF DesktopInv
<1>2. job' \in [Job -> JobRow] /\ ctl' \in [Controller -> CtlRow] /\ copies' \subseteq Job
  BY <1>1, RowTypes DEF Writes
<1>3. session' \in [Job -> SessionRow]
  BY <1>1 DEF TypeOK, Rows, Writes
<1>4. journal' \in [Job -> {"none", "creating", "created"}] /\ action' \in [Job -> BOOLEAN]
  BY <1>1 DEF TypeOK, Rows, Writes
<1>5. TypeOK'
  BY <1>1, <1>2, <1>3, <1>4 DEF TypeOK, Rows, Surroundings, Writes
<1>6. job'[j] = r /\ session'[j] = s /\ journal'[j] = jr /\ action'[j] = a /\ ctl'[c] = k
  BY <1>1 DEF TypeOK, Rows, Row, Writes
<1>7. Frame(c, j)
  BY <1>1 DEF TypeOK, Rows, Row, Frame, Writes
<1>8. JobOK(job'[j], saved'[j], session'[j], journal'[j], action'[j])
  BY <1>6 DEF Writes
<1>9. CtlInv(c)'
  BY <1>6 DEF CtlInv, Writes
<1> QED
  BY <1>5, <1>7, <1>8, <1>9, FrameStep
-----------------------------------------------------------------------------
(* The rows that the helpers make.                                           *)

LEMMA EndedRow ==
  ASSUME NEW r \in JobRow, NEW state \in Terminal
  PROVE  LET q == Ended(r, state) IN
         /\ q \in JobRow /\ q.state = state /\ q.sid = r.sid /\ q.reviewed = r.reviewed
         /\ q.install = r.install /\ ~q.aborted /\ ~q.dispatched
<1>1. NewJob \in JobRow /\ ~NewJob.aborted /\ ~NewJob.dispatched
  BY DEF NewJob, JobRow, JobState, Stops, Kind
<1>2. state \in JobState
  BY DEF JobState
<1> QED
  BY <1>1, <1>2 DEF Ended, JobRow

\* A row that a person is asked about claims nothing of its session.
LEMMA NeedHumanRow ==
  ASSUME NEW r \in JobRow, NEW s, NEW jr
  PROVE  NeedHuman(r) \in JobRow /\ RowOK(NeedHuman(r), s, jr)
<1> DEFINE q == [r EXCEPT !.sid = FALSE]
<1>1. q \in JobRow /\ ~q.sid
  BY DEF JobRow
<1>2. NeedHuman(r) = Ended(q, "failed")
  BY DEF NeedHuman
<1>3. "failed" \in Terminal
  BY DEF Terminal
<1> HIDE DEF q
<1>4. /\ Ended(q, "failed") \in JobRow /\ Ended(q, "failed").state = "failed"
      /\ ~Ended(q, "failed").sid /\ ~Ended(q, "failed").aborted /\ ~Ended(q, "failed").dispatched
  BY <1>1, <1>3, EndedRow
<1> QED
  BY <1>2, <1>4 DEF RowOK

StopRow(r, state) == IF r.sid THEN [r EXCEPT !.state = "stopping", !.target = state] ELSE Ended(r, state)

LEMMA StopRowFits ==
  ASSUME NEW r \in JobRow, NEW s \in SessionRow, NEW jr, NEW state \in Stops,
         r.sid => jr = "created", r.aborted => r.sid /\ s.state # "prompted",
         r.dispatched => s.actions = 1
  PROVE  LET q == StopRow(r, state) IN
         /\ q \in JobRow /\ RowOK(q, s, jr) /\ q.sid = r.sid
         /\ r.sid => q.state = "stopping" /\ q.aborted = r.aborted
<1>1. CASE r.sid
  <2>1. StopRow(r, state) = [r EXCEPT !.state = "stopping", !.target = state]
    BY <1>1 DEF StopRow
  <2> DEFINE q == [r EXCEPT !.state = "stopping", !.target = state]
  <2>2. /\ q \in JobRow /\ q.state = "stopping" /\ q.target = state /\ q.sid = r.sid
        /\ q.aborted = r.aborted /\ q.dispatched = r.dispatched
    BY DEF JobRow, JobState
  <2> HIDE DEF q
  <2>3. RowOK(q, s, jr)
    BY <1>1, <2>2 DEF RowOK, Terminal
  <2> QED
    BY <2>1, <2>2, <2>3 DEF q
<1>2. CASE ~r.sid
  <2>1. StopRow(r, state) = Ended(r, state)
    BY <1>2 DEF StopRow
  <2>2. state \in Terminal /\ state # "passed"
    BY DEF Stops, Terminal
  <2>3. /\ Ended(r, state) \in JobRow /\ Ended(r, state).state = state /\ Ended(r, state).sid = r.sid
        /\ ~Ended(r, state).aborted /\ ~Ended(r, state).dispatched
    BY <2>2, EndedRow
  <2>4. RowOK(Ended(r, state), s, jr)
    BY <1>2, <2>2, <2>3 DEF RowOK, Terminal
  <2> QED
    BY <1>2, <2>1, <2>3, <2>4
<1> QED
  BY <1>1, <1>2

\* A job stops, as a part of a tick or of a decision: from the row r, with the session s.
StopsJob(c, j, r, s, state, back) ==
  /\ Row(j, StopRow(r, state)) /\ session' = [session EXCEPT ![j] = s]
  /\ \E k \in CtlRow : /\ ctl' = [ctl EXCEPT ![c] = k] /\ k.job = j /\ k.todo \subseteq ctl[c].todo
                        /\ k.pc = (IF ~r.sid THEN back ELSE IF r.aborted THEN "confirm" ELSE "abort")
  /\ UNCHANGED <<files, holder, backend, late>>

LEMMA StopStep ==
  ASSUME DesktopInv, NEW c \in Controller, NEW j \in Job, OwnerOf[j] = c,
         job[j].state \notin Terminal,
         NEW r \in JobRow, NEW s \in SessionRow, NEW state \in Stops,
         NEW back \in {"check", "next", "commit"},
         r.sid => journal[j] = "created", r.aborted => r.sid /\ s.state # "prompted",
         r.dispatched => s.actions = 1,
         RowOK(saved[j], s, journal[j]), SessionOK(s, journal[j], action[j]),
         StopsJob(c, j, r, s, state, back), faults' \in Nat
  PROVE  DesktopInv'
<1> DEFINE q == StopRow(r, state)
<1>1. PICK k \in CtlRow : /\ ctl' = [ctl EXCEPT ![c] = k] /\ k.job = j /\ k.todo \subseteq ctl[c].todo
                          /\ k.pc = (IF ~r.sid THEN back ELSE IF r.aborted THEN "confirm" ELSE "abort")
  BY DEF StopsJob
<1>2. /\ q \in JobRow /\ RowOK(q, s, journal[j]) /\ q.sid = r.sid
      /\ r.sid => q.state = "stopping" /\ q.aborted = r.aborted
  BY StopRowFits
<1> HIDE DEF q
<1>3. JobInv(j) /\ TypeOK /\ CtlInv(c)
  BY DEF DesktopInv
<1>4. saved[j].state \notin Terminal
  BY <1>3 DEF JobInv, JobOK
<1>5. JobOK(q, saved[j], s, journal[j], action[j])
  BY <1>2, <1>4 DEF JobOK
<1>6. CtlOK(k, q, saved[j], s, journal[j], action[j])
  BY <1>1, <1>2 DEF CtlOK
<1>7. \A i \in k.todo : OwnerOf[i] = c
  BY <1>1, <1>3 DEF CtlInv
<1>8. journal[j] \in {"none", "creating", "created"} /\ action[j] \in BOOLEAN
  BY <1>3 DEF TypeOK, Rows
<1>9. Writes(c, j, q, s, journal[j], action[j], k)
  BY <1>1, <1>3 DEF TypeOK, Rows, files, Writes, StopsJob, q
<1>10. holder' \in Controller \cup {NoController}
  BY <1>3 DEF TypeOK, Surroundings, StopsJob
<1> QED
  BY <1>1, <1>2, <1>5, <1>6, <1>7, <1>8, <1>9, <1>10, RowStep
-----------------------------------------------------------------------------
(* Steps within a tick: the row r, the session s, and on to pc.              *)

Calm == {"idle", "next", "check", "commit"}

Moves(c, r, s, pc) ==
  /\ Row(Cur(c), r) /\ Goto(c, pc) /\ session' = [session EXCEPT ![Cur(c)] = s]
  /\ UNCHANGED <<files, backend, late>>
  /\ holder' \in Controller \cup {NoController} /\ faults' \in Nat

LEMMA MoveStep ==
  ASSUME DesktopInv, NEW c \in Controller, ctl[c].pc \notin {"idle", "next"},
         job[Cur(c)].state \notin Terminal,
         NEW r \in JobRow, NEW s \in SessionRow, NEW pc \in Calm, Moves(c, r, s, pc),
         RowOK(r, s, journal[Cur(c)]), RowOK(saved[Cur(c)], s, journal[Cur(c)]),
         SessionOK(s, journal[Cur(c)], action[Cur(c)])
  PROVE  DesktopInv'
<1> DEFINE j == Cur(c)
           k == [ctl[c] EXCEPT !.pc = pc]
<1>1. TypeOK /\ j \in Job /\ OwnerOf[j] = c /\ JobInv(j) /\ \A i \in ctl[c].todo : OwnerOf[i] = c
  BY AtJob DEF DesktopInv
<1>2. k \in CtlRow /\ k.job = j /\ k.todo = ctl[c].todo /\ k.pc = pc
  BY <1>1 DEF TypeOK, Rows, CtlRow, Calm, PC, Cur
<1>3. Writes(c, j, r, s, journal[j], action[j], k)
  BY <1>1 DEF Writes, Moves, Goto, TypeOK, Rows, files
<1>4. saved[j].state \notin Terminal
  BY <1>1 DEF JobInv, JobOK
<1>5. JobOK(r, saved[j], s, journal[j], action[j])
  BY <1>4 DEF JobOK
<1>6. CtlOK(k, r, saved[j], s, journal[j], action[j])
  BY <1>2 DEF CtlOK, Calm
<1>7. journal[j] \in {"none", "creating", "created"} /\ action[j] \in BOOLEAN
  BY <1>1 DEF TypeOK, Rows
<1>8. holder' \in Controller \cup {NoController} /\ faults' \in Nat
  BY DEF Moves
<1> HIDE DEF j, k
<1> QED
  BY <1>1, <1>2, <1>3, <1>5, <1>6, <1>7, <1>8, RowStep

\* The same with the session as it is.
LEMMA DoneStep ==
  ASSUME DesktopInv, NEW c \in Controller, ctl[c].pc \notin {"idle", "next"},
         job[Cur(c)].state \notin Terminal,
         NEW r \in JobRow, NEW pc \in Calm, Row(Cur(c), r), Goto(c, pc),
         RowOK(r, session[Cur(c)], journal[Cur(c)]),
         UNCHANGED <<files, backend, session, late>>,
         holder' \in Controller \cup {NoController}, faults' \in Nat
  PROVE  DesktopInv'
<1> DEFINE j == Cur(c)
<1>1. TypeOK /\ j \in Job /\ JobInv(j)
  BY AtJob DEF DesktopInv
<1>2. session[j] \in SessionRow /\ session' = [session EXCEPT ![j] = session[j]]
  BY <1>1 DEF TypeOK, Rows
<1>3. Moves(c, r, session[j], pc)
  BY <1>2 DEF Moves
<1>4. RowOK(saved[j], session[j], journal[j]) /\ SessionOK(session[j], journal[j], action[j])
  BY <1>1 DEF JobInv, JobOK
<1> HIDE DEF j
<1> QED
  BY <1>2, <1>3, <1>4, MoveStep DEF j

\* The controller goes on and writes nothing.
LEMMA GoStep ==
  ASSUME DesktopInv, NEW c \in Controller, ctl[c].pc \notin {"idle", "next"},
         NEW pc \in Calm, Goto(c, pc), UNCHANGED <<rows, files, holder, backend, session, late>>,
         faults' \in Nat
  PROVE  DesktopInv'
<1> DEFINE j == Cur(c)
<1>1. TypeOK /\ j \in Job /\ OwnerOf[j] = c /\ JobInv(j) /\ \A i \in ctl[c].todo : OwnerOf[i] = c
  BY AtJob DEF DesktopInv
<1>2. ctl' = [ctl EXCEPT ![c].pc = pc] /\ UNCHANGED <<job, copies, saved, journal, action>>
  BY DEF Goto, rows, files
<1>3. ctl'[c] = [ctl[c] EXCEPT !.pc = pc] /\ ctl' \in [Controller -> CtlRow]
  BY <1>1, <1>2 DEF TypeOK, Rows, CtlRow, Calm, PC
<1>4. ctl'[c].job = j /\ ctl'[c].todo = ctl[c].todo /\ ctl'[c].pc = pc
  BY <1>1, <1>3 DEF TypeOK, Rows, CtlRow, Cur
<1>5. TypeOK'
  BY <1>1, <1>2, <1>3 DEF TypeOK, Rows, Surroundings
<1>6. Frame(c, j)
  BY <1>1, <1>2 DEF Frame, TypeOK, Rows
<1>7. JobOK(job'[j], saved'[j], session'[j], journal'[j], action'[j])
  BY <1>1, <1>2 DEF JobInv
<1>8. CtlInv(c)'
  BY <1>1, <1>4 DEF CtlInv, CtlOK, Calm
<1> HIDE DEF j
<1> QED
  BY <1>1, <1>5, <1>6, <1>7, <1>8, FrameStep

\* A row that is at work says nothing of an end.
LEMMA LiveRow ==
  ASSUME NEW r, NEW s, NEW jr, r.state \notin Terminal \cup {"stopping"},
         r.sid => jr = "created", ~r.aborted, r.dispatched => s.actions = 1
  PROVE  RowOK(r, s, jr)
  BY DEF RowOK, Terminal

\* What a job that is due is known to be.
LEMMA DueJob ==
  ASSUME DesktopInv, NEW c \in Controller, Checking(c), job[Cur(c)].state # "stopping"
  PROVE  /\ ctl[c].pc \notin {"idle", "next"} /\ Cur(c) \in Job
         /\ job[Cur(c)] \in JobRow /\ session[Cur(c)] \in SessionRow /\ TypeOK
         /\ job[Cur(c)].state \notin Terminal \cup {"stopping"} /\ ~job[Cur(c)].aborted
         /\ job[Cur(c)].sid => journal[Cur(c)] = "created"
         /\ job[Cur(c)].dispatched => session[Cur(c)].actions = 1
<1>1. ctl[c].pc \notin {"idle", "next"}
  BY DEF Checking, At
<1>2. TypeOK /\ Cur(c) \in Job /\ JobInv(Cur(c))
  BY <1>1, AtJob DEF DesktopInv
<1>3. RowOK(job[Cur(c)], session[Cur(c)], journal[Cur(c)])
  BY <1>2 DEF JobInv, JobOK
<1>4. job[Cur(c)] \in JobRow /\ session[Cur(c)] \in SessionRow
  BY <1>2 DEF TypeOK, Rows
<1> QED
  BY <1>1, <1>2, <1>3, <1>4 DEF RowOK, Checking, Dormant
-----------------------------------------------------------------------------
(* What a tick does with a job that has started.                             *)

\* The row r belongs to the same session, in the same condition.
Like(r, q) == r.sid = q.sid /\ r.aborted = q.aborted /\ r.dispatched = q.dispatched

LEMMA LiveDone ==
  ASSUME DesktopInv, NEW c \in Controller, Checking(c), job[Cur(c)].state # "stopping",
         NEW r \in JobRow, Like(r, job[Cur(c)]), r.state \notin Terminal \cup {"stopping"},
         Done(c, r), Kept, faults' \in Nat
  PROVE  DesktopInv'
<1>1. /\ ctl[c].pc \notin {"idle", "next"} /\ Cur(c) \in Job /\ TypeOK
      /\ job[Cur(c)].state \notin Terminal \cup {"stopping"} /\ ~job[Cur(c)].aborted
      /\ job[Cur(c)].sid => journal[Cur(c)] = "created"
      /\ job[Cur(c)].dispatched => session[Cur(c)].actions = 1
  BY DueJob
<1>2. RowOK(r, session[Cur(c)], journal[Cur(c)])
  BY <1>1, LiveRow DEF Like
<1>3. /\ "next" \in Calm /\ Row(Cur(c), r) /\ Goto(c, "next")
      /\ UNCHANGED <<files, backend, session, late>> /\ holder' \in Controller \cup {NoController}
  BY <1>1 DEF Calm, Done, Kept, TypeOK, Surroundings
<1> QED
  BY <1>1, <1>2, <1>3, DoneStep

LEMMA HumanDone ==
  ASSUME DesktopInv, NEW c \in Controller, Checking(c), NEW r \in JobRow,
         Done(c, NeedHuman(r)), Kept, faults' \in Nat
  PROVE  DesktopInv'
<1>1. ctl[c].pc \notin {"idle", "next"} /\ job[Cur(c)].state \notin Terminal /\ TypeOK
  BY DEF Checking, At, Dormant, DesktopInv
<1>2. NeedHuman(r) \in JobRow /\ RowOK(NeedHuman(r), session[Cur(c)], journal[Cur(c)])
  BY NeedHumanRow
<1>3. /\ "next" \in Calm /\ Row(Cur(c), NeedHuman(r)) /\ Goto(c, "next")
      /\ UNCHANGED <<files, backend, session, late>> /\ holder' \in Controller \cup {NoController}
  BY <1>1 DEF Calm, Done, Kept, TypeOK, Surroundings
<1> QED
  BY <1>1, <1>2, <1>3, DoneStep

\* A job that is stopped within a tick, from any place of it.
LEMMA TickStops ==
  ASSUME DesktopInv, NEW c \in Controller, ctl[c].pc \notin {"idle", "next"},
         job[Cur(c)].state \notin Terminal,
         NEW r \in JobRow, NEW s \in SessionRow, NEW state \in Stops, NEW back \in {"check", "next"},
         r.sid => journal[Cur(c)] = "created", r.aborted => r.sid /\ s.state # "prompted",
         r.dispatched => s.actions = 1,
         RowOK(saved[Cur(c)], s, journal[Cur(c)]), SessionOK(s, journal[Cur(c)], action[Cur(c)]),
         Stopping(c, Cur(c), r, state, back), session' = [session EXCEPT ![Cur(c)] = s],
         UNCHANGED <<files, holder, backend, late>>, faults' \in Nat
  PROVE  DesktopInv'
<1> DEFINE j == Cur(c)
           pc == IF ~r.sid THEN back ELSE IF r.aborted THEN "confirm" ELSE "abort"
           k == [ctl[c] EXCEPT !.job = j, !.back = back, !.pc = pc]
<1>1. TypeOK /\ j \in Job /\ OwnerOf[j] = c
  BY AtJob DEF DesktopInv
<1>2. r.sid \in BOOLEAN /\ r.aborted \in BOOLEAN
  BY DEF JobRow
<1>3. ctl' = [ctl EXCEPT ![c] = k] /\ Row(j, StopRow(r, state))
  BY <1>1, <1>2 DEF Stopping, StopRow, TypeOK, Rows
<1>4. pc \in PC
  BY DEF PC
<1> HIDE DEF pc
<1>5. k \in CtlRow /\ k.job = j /\ k.todo = ctl[c].todo /\ k.pc = pc
  BY <1>1, <1>4 DEF TypeOK, Rows, CtlRow
<1> HIDE DEF k
<1>6. StopsJob(c, j, r, s, state, back)
  BY <1>3, <1>5 DEF StopsJob, pc
<1>7. back \in {"check", "next", "commit"}
  OBVIOUS
<1>8. /\ job[j].state \notin Terminal
      /\ r.sid => journal[j] = "created"
      /\ RowOK(saved[j], s, journal[j]) /\ SessionOK(s, journal[j], action[j])
  OBVIOUS
<1> HIDE DEF j
<1> QED
  BY <1>1, <1>6, <1>7, <1>8, StopStep

LEMMA CheckStops ==
  ASSUME DesktopInv, NEW c \in Controller, Checking(c), NEW r \in JobRow, Like(r, job[Cur(c)]),
         NEW state \in Stops, Stopping(c, Cur(c), r, state, "next"), Kept, faults' \in Nat
  PROVE  DesktopInv'
<1> DEFINE j == Cur(c)
<1>1. ctl[c].pc \notin {"idle", "next"} /\ job[j].state \notin Terminal
  BY DEF Checking, At, Dormant
<1>2. TypeOK /\ j \in Job /\ JobInv(j)
  BY <1>1, AtJob DEF DesktopInv
<1>3. session[j] \in SessionRow /\ session' = [session EXCEPT ![j] = session[j]]
  BY <1>2 DEF TypeOK, Rows, Kept
<1>4. RowOK(job[j], session[j], journal[j]) /\ RowOK(saved[j], session[j], journal[j])
      /\ SessionOK(session[j], journal[j], action[j])
  BY <1>2 DEF JobInv, JobOK
<1>5. /\ r.sid => journal[j] = "created"
      /\ r.aborted => r.sid /\ session[j].state # "prompted"
      /\ r.dispatched => session[j].actions = 1
  BY <1>4 DEF RowOK, Like
<1>6. UNCHANGED <<files, holder, backend, late>> /\ "next" \in {"check", "next"}
  BY DEF Kept
<1>7. Stopping(c, j, r, state, "next")
  OBVIOUS
<1> HIDE DEF j
<1> QED
  BY <1>1, <1>3, <1>4, <1>5, <1>6, <1>7, TickStops DEF j

LEMMA AskStep ==
  ASSUME DesktopInv, NEW c \in Controller, Checking(c), job[Cur(c)].state # "stopping",
         NEW r \in JobRow, Like(r, job[Cur(c)]),
         NEW kind \in Kind, NEW state \in {"awaiting_permission", "awaiting_action", "awaiting_review"},
         Ask(c, r, kind, state), Kept, faults' \in Nat
  PROVE  DesktopInv'
<1> DEFINE q == [Clean(r) EXCEPT !.open = @ \cup {kind}, !.leads = @ + 1, !.state = state]
<1>1. CASE r.leads >= MaxLead
  <2>1. Stopping(c, Cur(c), r, "failed", "next") /\ "failed" \in Stops
    BY <1>1 DEF Ask, Stops
  <2> QED
    BY <2>1, CheckStops
<1>2. CASE ~(r.leads >= MaxLead)
  <2>1. Done(c, q)
    BY <1>2 DEF Ask
  <2>2. Clean(r) \in JobRow /\ Like(Clean(r), r)
    BY DEF Clean, JobRow, Like
  <2>3. /\ Clean(r).leads + 1 \in Nat /\ Clean(r).open \cup {kind} \in SUBSET Kind
        /\ state \in JobState
    BY <2>2 DEF JobRow, JobState
  <2>4. q \in JobRow
    BY <2>2, <2>3 DEF JobRow
  <2>5. Like(q, Clean(r)) /\ q.state = state
    BY <2>2 DEF JobRow, Like
  <2> HIDE DEF q
  <2>6. Like(q, job[Cur(c)]) /\ q.state \notin Terminal \cup {"stopping"}
    BY <2>2, <2>5 DEF Like, Terminal
  <2> QED
    BY <2>1, <2>4, <2>6, LiveDone
<1> QED
  BY <1>1, <1>2
LEMMA SeenRow ==
  ASSUME NEW j \in Job, job[j] \in JobRow
  PROVE  Seen(j) \in JobRow /\ Like(Seen(j), job[j]) /\ Seen(j).state = job[j].state
<1>1. CASE Open(j)
  BY <1>1 DEF Seen, Like
<1>2. CASE ~Open(j)
  BY <1>2 DEF Seen, Like, JobRow
<1> QED
  BY <1>1, <1>2

LEMMA CleanRow ==
  ASSUME NEW r \in JobRow
  PROVE  Clean(r) \in JobRow /\ Like(Clean(r), r) /\ Clean(r).state = r.state
  BY DEF Clean, JobRow, Like

\* What a scan knows of its job, and of the row it works with.
LEMMA DueRow ==
  ASSUME DesktopInv, NEW c \in Controller, Due(c)
  PROVE  LET j == Cur(c)  seen == Clean(Seen(j)) IN
         /\ Checking(c) /\ job[j].state # "stopping" /\ job[j] \in JobRow /\ j \in Job
         /\ session[j] \in SessionRow
         /\ Seen(j) \in JobRow /\ Like(Seen(j), job[j])
         /\ seen \in JobRow /\ Like(seen, job[j]) /\ seen.state \notin Terminal \cup {"stopping"}
         /\ Clean(job[j]) \in JobRow /\ Like(Clean(job[j]), job[j])
<1>1. Checking(c) /\ job[Cur(c)].state \in {"running", "awaiting_permission"}
  BY DEF Due
<1>2. Cur(c) \in Job /\ job[Cur(c)] \in JobRow /\ session[Cur(c)] \in SessionRow
  BY <1>1, DueJob
<1>3. /\ Seen(Cur(c)) \in JobRow /\ Like(Seen(Cur(c)), job[Cur(c)])
      /\ Seen(Cur(c)).state = job[Cur(c)].state
  BY <1>2, SeenRow
<1>4. /\ Clean(Seen(Cur(c))) \in JobRow /\ Like(Clean(Seen(Cur(c))), Seen(Cur(c)))
      /\ Clean(Seen(Cur(c))).state = Seen(Cur(c)).state
  BY <1>3, CleanRow
<1>5. Clean(job[Cur(c)]) \in JobRow /\ Like(Clean(job[Cur(c)]), job[Cur(c)])
  BY <1>2, CleanRow
<1> QED
  BY <1>1, <1>2, <1>3, <1>4, <1>5 DEF Like, Terminal

\* The steps that look at the state of the row only.
LEMMA PassStep ==
  ASSUME DesktopInv, NEW c \in Controller, PassOver(c) \/ Lost(c) \/ Overdue(c) \/ StopAgain(c) \/ NotDue(c)
  PROVE  DesktopInv'
<1> DEFINE j == Cur(c)
<1>1. ctl[c].pc \notin {"idle", "next"}
  BY DEF PassOver, Lost, Overdue, StopAgain, NotDue, Due, Checking, At
<1>2. TypeOK /\ faults' \in Nat /\ j \in Job /\ JobInv(j) /\ job[j] \in JobRow
  BY <1>1, AtJob DEF DesktopInv, PassOver, Lost, Overdue, StopAgain, NotDue, TypeOK, Surroundings, Rows
<1>3. CASE PassOver(c) \/ NotDue(c)
  <2>1. /\ "next" \in Calm /\ Goto(c, "next")
        /\ UNCHANGED <<rows, files, holder, backend, session, late>>
    BY <1>3 DEF PassOver, NotDue, Kept, Calm
  <2> QED
    BY <1>1, <1>2, <2>1, GoStep
<1>4. CASE Lost(c)
  <2>1. Checking(c) /\ Kept /\ Done(c, NeedHuman(job[Cur(c)]))
    BY <1>4 DEF Lost, Done
  <2> QED
    BY <1>2, <2>1, HumanDone
<1>5. CASE Overdue(c) \/ StopAgain(c)
  <2>1. Checking(c) /\ Kept
    BY <1>5 DEF Overdue, StopAgain
  <2>2. PICK state \in Stops : Stopping(c, Cur(c), job[Cur(c)], state, "next")
    <3>1. StopAgain(c) => job[j].target \in Stops
      BY <1>2 DEF StopAgain, JobInv, JobOK, RowOK
    <3> QED
      BY <1>5, <3>1 DEF Overdue, StopAgain, Stops
  <2>3. Like(job[Cur(c)], job[Cur(c)])
    BY DEF Like
  <2> QED
    BY <1>2, <2>1, <2>2, <2>3, CheckStops
<1> QED
  BY <1>3, <1>4, <1>5

\* The scans that ask nobody and stop nothing.
LEMMA ScanStep ==
  ASSUME DesktopInv, NEW c \in Controller,
         ScanFails(c) \/ StillOpen(c) \/ Gone(c) \/ StillWorking(c) \/ SoftMiss(c) \/ Unfinished(c)
  PROVE  DesktopInv'
<1> DEFINE j == Cur(c)
           seen == Clean(Seen(j))
<1>1. Due(c) /\ Kept
  BY DEF ScanFails, StillOpen, Gone, StillWorking, SoftMiss, Unfinished, Quiet
<1>2. /\ Checking(c) /\ job[j].state # "stopping" /\ job[j] \in JobRow /\ j \in Job
      /\ seen \in JobRow /\ Like(seen, job[j]) /\ seen.state \notin Terminal \cup {"stopping"}
  BY <1>1, DueRow
<1>3. faults' \in Nat
  BY FaultCount DEF DesktopInv, TypeOK, Surroundings, ScanFails, StillOpen, Gone, StillWorking, SoftMiss, Unfinished
<1>4. ASSUME NEW r \in JobRow, Like(r, job[j]), r.state \notin Terminal \cup {"stopping"}, Done(c, r)
      PROVE  DesktopInv'
  BY <1>1, <1>2, <1>3, <1>4, LiveDone
<1>5. ASSUME NEW r \in JobRow, Done(c, NeedHuman(r))
      PROVE  DesktopInv'
  BY <1>1, <1>2, <1>3, <1>5, HumanDone
<1> HIDE DEF seen
<1>6. CASE ScanFails(c)
  <2>1. [job[j] EXCEPT !.errors = @ + 1] \in JobRow /\ Like([job[j] EXCEPT !.errors = @ + 1], job[j])
        /\ [job[j] EXCEPT !.errors = @ + 1].state = job[j].state
    BY <1>2 DEF JobRow, Like
  <2>2. job[j].state \notin Terminal \cup {"stopping"}
    BY <1>2 DEF Checking, Dormant
  <2>3. \/ Done(c, NeedHuman(job[j]))
        \/ Done(c, [job[j] EXCEPT !.errors = @ + 1])
    BY <1>6 DEF ScanFails
  <2> QED
    BY <1>2, <1>4, <1>5, <2>1, <2>2, <2>3
<1>7. CASE StillOpen(c)
  <2>1. /\ [seen EXCEPT !.state = "awaiting_permission"] \in JobRow
        /\ Like([seen EXCEPT !.state = "awaiting_permission"], job[j])
        /\ [seen EXCEPT !.state = "awaiting_permission"].state = "awaiting_permission"
    BY <1>2 DEF JobRow, JobState, Like
  <2>2. Done(c, [seen EXCEPT !.state = "awaiting_permission"])
    BY <1>7 DEF StillOpen, seen
  <2>3. "awaiting_permission" \notin Terminal \cup {"stopping"}
    BY DEF Terminal
  <2> QED
    BY <1>4, <2>1, <2>2, <2>3
<1>8. CASE Gone(c)
  BY <1>2, <1>5, <1>8 DEF Gone
<1>9. CASE StillWorking(c)
  <2> DEFINE r == [seen EXCEPT !.state = "running",
                               !.misses = IF session[j].state = "busy" THEN 0 ELSE @]
  <2>1. r \in JobRow /\ Like(r, job[j]) /\ r.state = "running"
    BY <1>2 DEF JobRow, JobState, Like
  <2>2. Done(c, r)
    BY <1>9 DEF StillWorking, seen
  <2>3. "running" \notin Terminal \cup {"stopping"}
    BY DEF Terminal
  <2> HIDE DEF r
  <2> QED
    BY <1>4, <2>1, <2>2, <2>3
<1>10. CASE SoftMiss(c)
  <2> DEFINE r == [seen EXCEPT !.state = "running", !.misses = @ + 1]
  <2>0. seen.misses + 1 \in Nat /\ "running" \in JobState
    BY <1>2 DEF JobRow, JobState
  <2>1. r \in JobRow /\ Like(r, job[j]) /\ r.state = "running"
    BY <1>2, <2>0 DEF JobRow, Like
  <2>2. Done(c, NeedHuman(seen)) \/ Done(c, r)
    BY <1>10 DEF SoftMiss, seen
  <2>3. "running" \notin Terminal \cup {"stopping"}
    BY DEF Terminal
  <2> HIDE DEF r
  <2> QED
    BY <1>2, <1>4, <1>5, <2>1, <2>2, <2>3
<1>11. CASE Unfinished(c)
  <2>1. Done(c, seen)
    BY <1>11 DEF Unfinished, seen
  <2> QED
    BY <1>2, <1>4, <2>1
<1> QED
  BY <1>6, <1>7, <1>8, <1>9, <1>10, <1>11
\* The scans that ask the lead, and the turn that failed.
LEMMA QuestionStep ==
  ASSUME DesktopInv, NEW c \in Controller,
         AskPermission(c) \/ AskAction(c) \/ AskReview(c) \/ TurnFailed(c)
  PROVE  DesktopInv'
<1> DEFINE j == Cur(c)
<1>1. Due(c) /\ Kept /\ faults' \in Nat
  BY DEF AskPermission, AskAction, AskReview, TurnFailed, Quiet, DesktopInv, TypeOK, Surroundings
<1>2. /\ Checking(c) /\ job[j].state # "stopping" /\ job[j] \in JobRow
      /\ session[j] \in SessionRow /\ Seen(j) \in JobRow /\ Like(Seen(j), job[j])
  BY <1>1, DueRow
<1>3. CASE AskPermission(c)
  <2> DEFINE r == [job[j] EXCEPT !.asked = TRUE]
  <2>1. r \in JobRow /\ Like(r, job[j])
    BY <1>2 DEF JobRow, Like
  <2>2. Ask(c, r, "permission", "awaiting_permission") /\ "permission" \in Kind
    BY <1>3 DEF AskPermission, Kind
  <2> HIDE DEF r
  <2> QED
    BY <1>1, <1>2, <2>1, <2>2, AskStep
<1>4. CASE AskAction(c)
  <2> DEFINE r == [Seen(j) EXCEPT !.misses = 0]
  <2>1. r \in JobRow /\ Like(r, job[j])
    BY <1>2 DEF JobRow, Like
  <2>2. Ask(c, r, "system_action", "awaiting_action") /\ "system_action" \in Kind
    BY <1>4 DEF AskAction, Kind
  <2> HIDE DEF r
  <2> QED
    BY <1>1, <1>2, <2>1, <2>2, AskStep
<1>5. CASE AskReview(c)
  <2> DEFINE r == [Seen(j) EXCEPT !.misses = 0, !.reviewed = Artifacts(j)]
  <2>1. Artifacts(j) \in Nat
    BY <1>2 DEF SessionRow, Artifacts
  <2>2. r \in JobRow /\ Like(r, job[j])
    BY <1>2, <2>1 DEF JobRow, Like
  <2>3. Ask(c, r, "review", "awaiting_review") /\ "review" \in Kind
    BY <1>5 DEF AskReview, Kind
  <2> HIDE DEF r
  <2> QED
    BY <1>1, <1>2, <2>2, <2>3, AskStep
<1>6. CASE TurnFailed(c)
  <2>1. Stopping(c, Cur(c), Seen(j), "failed", "next") /\ "failed" \in Stops
    BY <1>6 DEF TurnFailed, Stops
  <2> QED
    BY <1>1, <1>2, <2>1, CheckStops
<1> QED
  BY <1>3, <1>4, <1>5, <1>6

\* An answer changes what a session asks, and nothing an invariant speaks of.
AsksOnly(t, s) == t.state = s.state /\ t.starts = s.starts /\ t.turns = s.turns /\ t.actions = s.actions

LEMMA RepliedRow ==
  ASSUME NEW s \in SessionRow, NEW reply \in {"answered", "granted"}
  PROVE  Replied(s, reply) \in SessionRow /\ AsksOnly(Replied(s, reply), s)
<1>1. NoAsk \in AskRow
  BY DEF NoAsk, AskRow
<1>2. [s EXCEPT !.perm = reply, !.ask = NoAsk] \in SessionRow
  BY <1>1 DEF SessionRow
<1>3. AsksOnly([s EXCEPT !.perm = reply, !.ask = NoAsk], s)
  BY DEF SessionRow, AsksOnly
<1> QED
  BY <1>2, <1>3 DEF Replied

LEMMA AskedOnly ==
  ASSUME NEW s, NEW t, NEW jr, NEW a, AsksOnly(t, s)
  PROVE  /\ \A r : RowOK(r, s, jr) => RowOK(r, t, jr)
         /\ SessionOK(s, jr, a) => SessionOK(t, jr, a)
  BY DEF AsksOnly, RowOK, SessionOK

LEMMA HardRejectStep ==
  ASSUME DesktopInv, NEW c \in Controller, HardReject(c)
  PROVE  DesktopInv'
<1> DEFINE j == Cur(c)
           r == [Clean(job[j]) EXCEPT !.handled = TRUE, !.state = "awaiting_permission"]
           s == Replied(session[j], "answered")
<1>1. Due(c)
  BY DEF HardReject
<1>2. /\ Checking(c) /\ job[j].state # "stopping" /\ session[j] \in SessionRow /\ j \in Job
      /\ Clean(job[j]) \in JobRow /\ Like(Clean(job[j]), job[j])
  BY <1>1, DueRow
<1>3. /\ ctl[c].pc \notin {"idle", "next"} /\ TypeOK
      /\ job[j].state \notin Terminal /\ ~job[j].aborted
      /\ job[j].sid => journal[j] = "created"
      /\ job[j].dispatched => session[j].actions = 1
  BY <1>2, DueJob
<1>4. s \in SessionRow /\ AsksOnly(s, session[j])
  BY <1>2, RepliedRow
<1>5. r \in JobRow /\ Like(r, Clean(job[j])) /\ r.state = "awaiting_permission"
  BY <1>2 DEF JobRow, JobState, Like
<1>6. Moves(c, r, s, "next") /\ "next" \in Calm
  BY <1>3 DEF HardReject, Moves, Done, Calm, TypeOK, Surroundings, Rows
<1> HIDE DEF r, s
<1>7. RowOK(r, s, journal[j])
  BY <1>2, <1>3, <1>4, <1>5, LiveRow DEF Like, AsksOnly, Terminal
<1>8. JobInv(j)
  BY <1>2 DEF DesktopInv
<1>9. RowOK(saved[j], s, journal[j]) /\ SessionOK(s, journal[j], action[j])
  BY <1>4, <1>8, AskedOnly DEF JobInv, JobOK
<1> HIDE DEF j
<1> QED
  BY <1>3, <1>4, <1>5, <1>6, <1>7, <1>9, MoveStep DEF j
-----------------------------------------------------------------------------
(* The start of a job.                                                       *)

\* What a controller knows at the job it starts, stops or decides on.
LEMMA AtRow ==
  ASSUME DesktopInv, NEW c \in Controller, ctl[c].pc \notin {"idle", "next"}
  PROVE  LET j == Cur(c) IN
         /\ TypeOK /\ j \in Job /\ OwnerOf[j] = c /\ (\A i \in ctl[c].todo : OwnerOf[i] = c)
         /\ job[j] \in JobRow /\ saved[j] \in JobRow /\ session[j] \in SessionRow
         /\ journal[j] \in {"none", "creating", "created"} /\ action[j] \in BOOLEAN
         /\ ctl[c] \in CtlRow /\ ctl[c].job = j
         /\ session' = session => session' = [session EXCEPT ![j] = session[j]]
         /\ journal' = journal => journal' = [journal EXCEPT ![j] = journal[j]]
         /\ action' = action => action' = [action EXCEPT ![j] = action[j]]
         /\ RowOK(job[j], session[j], journal[j]) /\ RowOK(saved[j], session[j], journal[j])
         /\ SessionOK(session[j], journal[j], action[j])
         /\ saved[j].state \in Terminal => job[j] = saved[j]
         /\ CtlOK(ctl[c], job[j], saved[j], session[j], journal[j], action[j])
<1>1. /\ TypeOK /\ Cur(c) \in Job /\ OwnerOf[Cur(c)] = c /\ JobInv(Cur(c))
      /\ \A i \in ctl[c].todo : OwnerOf[i] = c
      /\ CtlOK(ctl[c], job[Cur(c)], saved[Cur(c)], session[Cur(c)], journal[Cur(c)], action[Cur(c)])
  BY AtJob DEF DesktopInv
<1>2. /\ job[Cur(c)] \in JobRow /\ saved[Cur(c)] \in JobRow /\ session[Cur(c)] \in SessionRow
      /\ journal[Cur(c)] \in {"none", "creating", "created"} /\ action[Cur(c)] \in BOOLEAN
      /\ ctl[c] \in CtlRow /\ ctl[c].job = Cur(c)
  BY <1>1 DEF TypeOK, Rows, Cur
<1>3. /\ session' = session => session' = [session EXCEPT ![Cur(c)] = session[Cur(c)]]
      /\ journal' = journal => journal' = [journal EXCEPT ![Cur(c)] = journal[Cur(c)]]
      /\ action' = action => action' = [action EXCEPT ![Cur(c)] = action[Cur(c)]]
  BY <1>1 DEF TypeOK, Rows
<1>4. JobOK(job[Cur(c)], saved[Cur(c)], session[Cur(c)], journal[Cur(c)], action[Cur(c)])
  BY <1>1 DEF JobInv
<1> QED
  BY <1>1, <1>2, <1>3, <1>4 DEF JobOK

\* The start goes on to pc, where more is known: row r, session s, journal jr.
Begins(c, r, s, jr, pc) ==
  /\ Row(Cur(c), r) /\ Goto(c, pc) /\ session' = [session EXCEPT ![Cur(c)] = s]
  /\ journal' = [journal EXCEPT ![Cur(c)] = jr]
  /\ UNCHANGED <<saved, action, backend, late>>
  /\ holder' \in Controller \cup {NoController} /\ faults' \in Nat

LEMMA BeginStep ==
  ASSUME DesktopInv, NEW c \in Controller, ctl[c].pc \notin {"idle", "next"},
         job[Cur(c)].state \notin Terminal,
         NEW r \in JobRow, NEW s \in SessionRow, NEW jr \in {"none", "creating", "created"},
         NEW pc \in PC, Begins(c, r, s, jr, pc),
         RowOK(r, s, jr), RowOK(saved[Cur(c)], s, jr), SessionOK(s, jr, action[Cur(c)]),
         CtlOK([pc |-> pc], r, saved[Cur(c)], s, jr, action[Cur(c)])
  PROVE  DesktopInv'
<1> DEFINE j == Cur(c)
           k == [ctl[c] EXCEPT !.pc = pc]
<1>1. /\ TypeOK /\ j \in Job /\ OwnerOf[j] = c /\ (\A i \in ctl[c].todo : OwnerOf[i] = c)
      /\ ctl[c] \in CtlRow /\ ctl[c].job = j /\ action[j] \in BOOLEAN
      /\ action' = action => action' = [action EXCEPT ![j] = action[j]]
      /\ saved[j].state \in Terminal => job[j] = saved[j]
  BY AtRow
<1>2. k \in CtlRow /\ k.job = j /\ k.todo = ctl[c].todo /\ k.pc = pc
  BY <1>1 DEF CtlRow
<1>3. Writes(c, j, r, s, jr, action[j], k)
  BY <1>1 DEF Writes, Begins, Goto, TypeOK, Rows
<1>4. JobOK(r, saved[j], s, jr, action[j])
  BY <1>1 DEF JobOK
<1>5. CtlOK(k, r, saved[j], s, jr, action[j])
  BY <1>2 DEF CtlOK
<1>6. holder' \in Controller \cup {NoController} /\ faults' \in Nat
  BY DEF Begins
<1> HIDE DEF j, k
<1> QED
  BY <1>1, <1>2, <1>3, <1>4, <1>5, <1>6, RowStep

LEMMA OccupyStep ==
  ASSUME DesktopInv, NEW c \in Controller, NoStart(c) \/ Interrupted(c) \/ Occupy(c)
  PROVE  DesktopInv'
<1> DEFINE j == Cur(c)
<1>1. ctl[c].pc = "job"
  BY DEF NoStart, Interrupted, Occupy, Starts, At
<1>2. /\ TypeOK /\ j \in Job /\ job[j] \in JobRow /\ saved[j] \in JobRow /\ session[j] \in SessionRow
      /\ journal[j] \in {"none", "creating", "created"} /\ ctl[c] \in CtlRow
      /\ session' = session => session' = [session EXCEPT ![j] = session[j]]
      /\ journal' = journal => journal' = [journal EXCEPT ![j] = journal[j]]
      /\ RowOK(job[j], session[j], journal[j]) /\ RowOK(saved[j], session[j], journal[j])
      /\ SessionOK(session[j], journal[j], action[j])
  BY <1>1, AtRow
<1>3. CASE NoStart(c)
  <2>1. /\ Goto(c, "check") /\ "check" \in Calm /\ faults' \in Nat
        /\ UNCHANGED <<rows, files, holder, backend, session, late>>
    BY <1>2, <1>3 DEF NoStart, Calm, TypeOK, Surroundings
  <2> QED
    BY <1>1, <2>1, GoStep
<1>4. CASE Interrupted(c)
  <2> DEFINE r == [job[j] EXCEPT !.sid = (journal[j] = "created")]
  <2>1. job[j].state = "queued" /\ ~job[j].aborted
    BY <1>2, <1>4 DEF Interrupted, Starts, RowOK
  <2>2. /\ r \in JobRow /\ r.sid = (journal[j] = "created") /\ ~r.aborted
        /\ r.dispatched = job[j].dispatched
    BY <1>2, <2>1 DEF JobRow
  <2>3. /\ Stopping(c, j, r, "failed", "check") /\ "failed" \in Stops /\ "check" \in {"check", "next"}
        /\ UNCHANGED <<files, holder, backend, late>> /\ faults' \in Nat
        /\ session' = [session EXCEPT ![j] = session[j]]
    BY <1>2, <1>4 DEF Interrupted, Stops, TypeOK, Surroundings
  <2> HIDE DEF r
  <2>4. /\ job[j].state \notin Terminal /\ ctl[c].pc \notin {"idle", "next"}
        /\ r.sid => journal[j] = "created"
        /\ r.aborted => r.sid /\ session[j].state # "prompted"
        /\ r.dispatched => session[j].actions = 1
    BY <1>1, <1>2, <2>1, <2>2 DEF Terminal, RowOK
  <2> HIDE DEF j
  <2> QED
    BY <1>2, <2>2, <2>3, <2>4, TickStops DEF j
<1>5. CASE Occupy(c)
  <2> DEFINE r == [job[j] EXCEPT !.state = "starting", !.backend = ctl[c].seen]
  <2>1. job[j].state = "queued" /\ ~job[j].aborted /\ journal[j] = "none" /\ ctl[c].seen \in Nat
    BY <1>2, <1>5 DEF Occupy, Starts, RowOK, CtlRow
  <2>2. /\ r \in JobRow /\ r.sid = job[j].sid /\ ~r.aborted /\ r.state = "starting"
        /\ r.dispatched = job[j].dispatched
    BY <1>2, <2>1 DEF JobRow, JobState
  <2>3. /\ job[j].state \notin Terminal /\ ctl[c].pc \notin {"idle", "next"} /\ faults' \in Nat
        /\ UNCHANGED <<files, backend, session, late>> /\ holder' \in Controller \cup {NoController}
    BY <1>1, <1>2, <1>5, <2>1 DEF Occupy, Terminal, TypeOK, Surroundings
  <2>4. \/ Row(j, r) /\ Goto(c, "foreign")
        \/ Row(j, NeedHuman(r)) /\ Goto(c, "check")
    BY <1>5 DEF Occupy
  <2> HIDE DEF r
  <2>5. CASE Row(j, r) /\ Goto(c, "foreign")
    <3>1. Begins(c, r, session[j], journal[j], "foreign")
      BY <1>2, <2>3, <2>5 DEF Begins, files
    <3>2. "foreign" \in PC /\ RowOK(r, session[j], journal[j])
      BY <1>2, <2>2 DEF PC, RowOK, Terminal
    <3>3. CtlOK([pc |-> "foreign"], r, saved[j], session[j], journal[j], action[j])
      BY <2>1, <2>2 DEF CtlOK
    <3> HIDE DEF j
    <3> QED
      BY <1>2, <2>2, <2>3, <3>1, <3>2, <3>3, BeginStep DEF j
  <2>6. CASE Row(j, NeedHuman(r)) /\ Goto(c, "check")
    <3>1. "check" \in Calm
      BY DEF Calm
    <3> HIDE DEF j
    <3> QED
      BY <2>2, <2>3, <2>6, <3>1, NeedHumanRow, DoneStep DEF j
  <2> QED
    BY <2>4, <2>5, <2>6
<1> QED
  BY <1>3, <1>4, <1>5
LEMMA LookAroundStep ==
  ASSUME DesktopInv, NEW c \in Controller, LookAround(c) \/ CreateFails(c)
  PROVE  DesktopInv'
<1> DEFINE j == Cur(c)
<1>1. ctl[c].pc \in {"foreign", "create"}
  BY DEF LookAround, CreateFails, At
<1>2. /\ TypeOK /\ j \in Job /\ job[j] \in JobRow /\ session[j] \in SessionRow
      /\ session' = session => session' = [session EXCEPT ![j] = session[j]]
      /\ RowOK(job[j], session[j], journal[j]) /\ RowOK(saved[j], session[j], journal[j])
      /\ SessionOK(session[j], journal[j], action[j])
      /\ CtlOK(ctl[c], job[j], saved[j], session[j], journal[j], action[j])
  BY <1>1, AtRow
<1>3. /\ job[j].state = "starting" /\ ~job[j].aborted /\ job[j].state \notin Terminal
      /\ faults' \in Nat /\ UNCHANGED <<saved, action, holder, backend, session, late>>
  BY <1>1, <1>2, FaultCount
  DEF CtlOK, RowOK, Terminal, TypeOK, Surroundings, LookAround, CreateFails, files
<1>4. CASE Stopping(c, j, job[j], "failed", "check") /\ UNCHANGED journal
  <2>1. "failed" \in Stops /\ "check" \in {"check", "next"} /\ UNCHANGED files
        /\ session' = [session EXCEPT ![j] = session[j]]
    BY <1>2, <1>3, <1>4 DEF Stops, files
  <2>2. /\ job[j].sid => journal[j] = "created"
        /\ job[j].aborted => job[j].sid /\ session[j].state # "prompted"
        /\ job[j].dispatched => session[j].actions = 1
    BY <1>2 DEF RowOK
  <2> HIDE DEF j
  <2> QED
    BY <1>1, <1>2, <1>3, <1>4, <2>1, <2>2, TickStops DEF j
<1>5. CASE At(c, "foreign") /\ Row(j, NeedHuman(job[j])) /\ Goto(c, "check") /\ UNCHANGED journal
  <2>1. "check" \in Calm /\ UNCHANGED <<files, backend, session, late>>
        /\ holder' \in Controller \cup {NoController}
    BY <1>2, <1>3, <1>5 DEF Calm, files, TypeOK, Surroundings
  <2> HIDE DEF j
  <2> QED
    BY <1>1, <1>2, <1>3, <1>5, <2>1, NeedHumanRow, DoneStep DEF j
<1>6. CASE At(c, "foreign") /\ journal' = [journal EXCEPT ![j] = "creating"] /\ Goto(c, "create")
           /\ UNCHANGED rows
  <2>1. journal[j] = "none" /\ session[j].starts # 1 /\ ~job[j].sid /\ ~saved[j].sid
    BY <1>2, <1>6 DEF CtlOK, At, RowOK, SessionOK
  <2>2. Row(j, job[j])
    BY <1>2, <1>3, <1>6 DEF Row, rows, CopiesWith, TypeOK, Rows
  <2>3. Begins(c, job[j], session[j], "creating", "create")
    BY <1>2, <1>3, <1>6, <2>2 DEF Begins, TypeOK, Surroundings
  <2>4. /\ RowOK(job[j], session[j], "creating") /\ RowOK(saved[j], session[j], "creating")
        /\ SessionOK(session[j], "creating", action[j])
    BY <1>2, <2>1 DEF RowOK, SessionOK
  <2>5. CtlOK([pc |-> "create"], job[j], saved[j], session[j], "creating", action[j])
    BY <1>3 DEF CtlOK
  <2>6. "create" \in PC
    BY DEF PC
  <2> HIDE DEF j
  <2> QED
    BY <1>1, <1>2, <1>3, <2>3, <2>4, <2>5, <2>6, BeginStep DEF j
<1> QED
  BY <1>4, <1>5, <1>6 DEF LookAround, CreateFails, files

LEMMA CreateStep ==
  ASSUME DesktopInv, NEW c \in Controller, Create(c)
  PROVE  DesktopInv'
<1> DEFINE j == Cur(c)
           r == [job[j] EXCEPT !.sid = TRUE]
           s == [session[j] EXCEPT !.state = "idle"]
<1>1. ctl[c].pc = "create"
  BY DEF Create, At
<1>2. /\ TypeOK /\ j \in Job /\ job[j] \in JobRow /\ session[j] \in SessionRow /\ saved[j] \in JobRow
      /\ RowOK(job[j], session[j], journal[j]) /\ RowOK(saved[j], session[j], journal[j])
      /\ SessionOK(session[j], journal[j], action[j])
      /\ saved[j].state \in Terminal => job[j] = saved[j]
      /\ CtlOK(ctl[c], job[j], saved[j], session[j], journal[j], action[j])
  BY <1>1, AtRow
<1>3. job[j].state = "starting" /\ journal[j] = "creating"
  BY <1>1, <1>2 DEF CtlOK
<1>4. /\ r \in JobRow /\ r.sid /\ r.aborted = job[j].aborted /\ r.dispatched = job[j].dispatched
      /\ r.state = "starting"
  BY <1>2, <1>3 DEF JobRow
<1>5. s \in SessionRow /\ s.starts = session[j].starts /\ s.actions = session[j].actions
      /\ s.turns = session[j].turns /\ s.state = "idle"
  BY <1>2 DEF SessionRow
<1>6. Begins(c, r, s, "created", "prompt")
  BY <1>2 DEF Create, Begins, TypeOK, Rows, Surroundings
<1> HIDE DEF r, s
<1>7. /\ ~job[j].aborted /\ ~saved[j].aborted /\ ~saved[j].sid
      /\ session[j].starts = 0 /\ session[j].actions <= 1
  BY <1>2, <1>3 DEF RowOK, SessionOK, SessionRow
<1>8. RowOK(r, s, "created") /\ RowOK(saved[j], s, "created")
  BY <1>2, <1>4, <1>5, <1>7 DEF RowOK, Terminal
<1>9. SessionOK(s, "created", action[j])
  BY <1>2, <1>5 DEF SessionOK
<1>10. CtlOK([pc |-> "prompt"], r, saved[j], s, "created", action[j])
  BY <1>4, <1>5, <1>7 DEF CtlOK
<1>11. "prompt" \in PC /\ job[j].state \notin Terminal
  BY <1>3 DEF PC, Terminal
<1> HIDE DEF j
<1> QED
  BY <1>1, <1>4, <1>5, <1>6, <1>8, <1>9, <1>10, <1>11, BeginStep DEF j

\* The prompt of a start is the first and the only one.
LEMMA TurnRow ==
  ASSUME NEW s \in SessionRow
  PROVE  /\ Turn(s) \in SessionRow /\ Turn(s).state = "busy" /\ Turn(s).turns = s.turns + 1
         /\ Turn(s).starts = s.starts /\ Turn(s).actions = s.actions
<1>1. s.turns + 1 \in Nat
  BY DEF SessionRow
<1> QED
  BY <1>1 DEF Turn, SessionRow

LEMMA FirstTurnRow ==
  ASSUME NEW j \in Job, session[j] \in SessionRow
  PROVE  /\ FirstTurn(j) \in SessionRow /\ FirstTurn(j).state = "prompted"
         /\ FirstTurn(j).starts = session[j].starts + 1
         /\ FirstTurn(j).actions = session[j].actions
<1> DEFINE t == Turn(session[j])
<1>1. t \in SessionRow /\ t.starts = session[j].starts /\ t.actions = session[j].actions
  BY TurnRow
<1>2. t.starts + 1 \in Nat
  BY <1>1 DEF SessionRow
<1>3. FirstTurn(j) = [t EXCEPT !.state = "prompted", !.starts = @ + 1]
  BY DEF FirstTurn
<1> HIDE DEF t
<1> QED
  BY <1>1, <1>2, <1>3 DEF SessionRow

LEMMA PromptStep ==
  ASSUME DesktopInv, NEW c \in Controller, Prompt(c) \/ PromptFails(c)
  PROVE  DesktopInv'
<1> DEFINE j == Cur(c)
           s == FirstTurn(j)
<1>1. ctl[c].pc = "prompt"
  BY DEF Prompt, PromptFails, At
<1>2. /\ TypeOK /\ j \in Job /\ job[j] \in JobRow /\ session[j] \in SessionRow /\ saved[j] \in JobRow
      /\ session' = session => session' = [session EXCEPT ![j] = session[j]]
      /\ RowOK(job[j], session[j], journal[j]) /\ RowOK(saved[j], session[j], journal[j])
      /\ SessionOK(session[j], journal[j], action[j])
      /\ saved[j].state \in Terminal => job[j] = saved[j]
      /\ CtlOK(ctl[c], job[j], saved[j], session[j], journal[j], action[j])
  BY <1>1, AtRow
<1>3. /\ job[j].state = "starting" /\ journal[j] = "created" /\ ~saved[j].aborted
      /\ session[j].starts = 0 /\ ~job[j].aborted
  BY <1>1, <1>2 DEF CtlOK, RowOK
<1>4. saved[j].state \notin Terminal /\ job[j].state \notin Terminal
  BY <1>2, <1>3 DEF Terminal
<1>5. s \in SessionRow /\ s.state = "prompted" /\ s.starts = 1 /\ s.actions = session[j].actions
  BY <1>2, <1>3, FirstTurnRow
<1> HIDE DEF s
<1>6. RowOK(saved[j], s, journal[j]) /\ SessionOK(s, journal[j], action[j])
  BY <1>2, <1>3, <1>4, <1>5 DEF RowOK, SessionOK, Terminal
<1>7. /\ job[j].sid => journal[j] = "created"
      /\ job[j].dispatched => session[j].actions = 1
      /\ ctl[c].pc \notin {"idle", "next"}
      /\ UNCHANGED <<files, holder, backend, late>>
      /\ faults' \in Nat
  BY <1>1, <1>2, FaultCount DEF RowOK, Prompt, PromptFails, TypeOK, Surroundings
<1>8. CASE Prompt(c)
  <2> DEFINE r == [job[j] EXCEPT !.state = "running"]
  <2>1. /\ r \in JobRow /\ r.state = "running" /\ r.sid = job[j].sid /\ r.aborted = job[j].aborted
        /\ r.dispatched = job[j].dispatched
    BY <1>2 DEF JobRow, JobState
  <2>2. Moves(c, r, s, "next") /\ "next" \in Calm
    BY <1>2, <1>7, <1>8 DEF Prompt, Moves, Calm, TypeOK, Surroundings, s
  <2> HIDE DEF r
  <2>3. RowOK(r, s, journal[j])
    BY <1>2, <1>3, <1>5, <1>7, <2>1 DEF RowOK, Terminal
  <2> HIDE DEF j
  <2> QED
    BY <1>2, <1>4, <1>5, <1>6, <1>7, <2>1, <2>2, <2>3, MoveStep DEF j
<1>9. CASE PromptFails(c)
  <2>1. Stopping(c, j, job[j], "failed", "check") /\ "failed" \in Stops /\ "check" \in {"check", "next"}
    BY <1>9 DEF PromptFails, Stops
  <2>2. PICK t \in {session[j], s} : session' = [session EXCEPT ![j] = t]
    BY <1>2, <1>9 DEF PromptFails, s
  <2>3. /\ t \in SessionRow /\ t.actions = session[j].actions
        /\ RowOK(saved[j], t, journal[j]) /\ SessionOK(t, journal[j], action[j])
    BY <1>2, <1>5, <1>6, <2>2
  <2> HIDE DEF j
  <2> QED
    BY <1>2, <1>3, <1>4, <1>7, <2>1, <2>2, <2>3, TickStops DEF j
<1> QED
  BY <1>8, <1>9
-----------------------------------------------------------------------------
(* The end of a job that is stopped.                                         *)

\* Where a controller goes back to.
LEMMA BackIsCalm ==
  ASSUME NEW k \in CtlRow
  PROVE  k.back \in Calm
  BY DEF CtlRow, Calm

\* After an accepted abort nothing waits to begin.
LEMMA AbortedRow ==
  ASSUME NEW s \in SessionRow
  PROVE  LET t == Aborted(s) IN
         /\ t \in SessionRow /\ t.state # "prompted" /\ (t.state = "busy" => s.state = "busy")
         /\ t.starts = s.starts /\ t.turns = s.turns /\ t.actions = s.actions
<1>1. (s.told \/ s.state = "busy") \in BOOLEAN
  BY DEF SessionRow
<1>2. (IF s.state = "prompted" THEN "stopped" ELSE s.state)
        \in {"none", "idle", "busy", "finished", "flawed", "errored", "stopped", "gone"}
  BY DEF SessionRow
<1> DEFINE state == IF s.state = "prompted" THEN "stopped" ELSE s.state
           told == s.told \/ s.state = "busy"
<1>3. Aborted(s) = [s EXCEPT !.state = state, !.told = told]
  BY DEF Aborted
<1>4. state = "busy" => s.state = "busy"
  OBVIOUS
<1>5. told \in BOOLEAN /\ state \in {"none", "idle", "busy", "finished", "flawed", "errored", "stopped", "gone"}
  BY <1>1, <1>2
<1> HIDE DEF state, told
<1> QED
  BY <1>3, <1>4, <1>5 DEF SessionRow

LEMMA AbortStep ==
  ASSUME DesktopInv, NEW c \in Controller, Abort(c)
  PROVE  DesktopInv'
<1> DEFINE j == Cur(c)
           r == [job[j] EXCEPT !.aborted = TRUE]
           s == Aborted(session[j])
<1>1. ctl[c].pc = "abort"
  BY DEF Abort, At
<1>2. /\ TypeOK /\ j \in Job /\ job[j] \in JobRow /\ session[j] \in SessionRow
      /\ journal[j] \in {"none", "creating", "created"} /\ ctl[c] \in CtlRow
      /\ journal' = journal => journal' = [journal EXCEPT ![j] = journal[j]]
      /\ RowOK(job[j], session[j], journal[j]) /\ RowOK(saved[j], session[j], journal[j])
      /\ SessionOK(session[j], journal[j], action[j])
      /\ CtlOK(ctl[c], job[j], saved[j], session[j], journal[j], action[j])
  BY <1>1, AtRow
<1>3. job[j].state = "stopping" /\ job[j].sid /\ job[j].state \notin Terminal
  BY <1>1, <1>2 DEF CtlOK, Terminal
<1>4. /\ r \in JobRow /\ r.sid = job[j].sid /\ r.aborted /\ r.state = job[j].state
      /\ r.target = job[j].target /\ r.dispatched = job[j].dispatched
  BY <1>2 DEF JobRow
<1>5. /\ s \in SessionRow /\ s.state # "prompted" /\ (s.state = "busy" => session[j].state = "busy")
      /\ s.starts = session[j].starts /\ s.turns = session[j].turns /\ s.actions = session[j].actions
  BY <1>2, AbortedRow
<1>6. /\ faults' \in Nat /\ UNCHANGED <<files, holder, backend, late>>
      /\ \/ Row(j, r) /\ Goto(c, "confirm") /\ session' = [session EXCEPT ![j] = s]
         \/ Goto(c, ctl[c].back) /\ UNCHANGED <<rows, session>>
  BY <1>2, FaultCount DEF Abort, TypeOK, Surroundings
<1> HIDE DEF r, s
<1>7. CASE Row(j, r) /\ Goto(c, "confirm") /\ session' = [session EXCEPT ![j] = s]
  <2>1. Begins(c, r, s, journal[j], "confirm")
    BY <1>2, <1>6, <1>7 DEF Begins, files, TypeOK, Surroundings
  <2>2. RowOK(r, s, journal[j])
    BY <1>2, <1>3, <1>4, <1>5 DEF RowOK, Terminal
  <2>3. RowOK(saved[j], s, journal[j]) /\ SessionOK(s, journal[j], action[j])
    BY <1>2, <1>5 DEF RowOK, SessionOK
  <2>4. CtlOK([pc |-> "confirm"], r, saved[j], s, journal[j], action[j]) /\ "confirm" \in PC
    BY <1>3, <1>4 DEF CtlOK, PC
  <2> HIDE DEF j
  <2> QED
    BY <1>1, <1>2, <1>3, <1>4, <1>5, <2>1, <2>2, <2>3, <2>4, BeginStep DEF j
<1>8. CASE Goto(c, ctl[c].back) /\ UNCHANGED <<rows, session>>
  <2>1. ctl[c].back \in Calm
    BY <1>2, BackIsCalm
  <2>2. UNCHANGED <<rows, files, holder, backend, session, late>> /\ ctl[c].pc \notin {"idle", "next"}
    BY <1>1, <1>6, <1>8
  <2> QED
    BY <1>6, <1>8, <2>1, <2>2, GoStep
<1> QED
  BY <1>6, <1>7, <1>8

LEMMA ConfirmStep ==
  ASSUME DesktopInv, NEW c \in Controller, Confirm(c)
  PROVE  DesktopInv'
<1> DEFINE j == Cur(c)
           r == Ended(job[j], job[j].target)
<1>1. ctl[c].pc = "confirm" /\ ctl[c].pc \notin {"idle", "next"}
  BY DEF Confirm, At
<1>2. /\ TypeOK /\ j \in Job /\ job[j] \in JobRow /\ ctl[c] \in CtlRow
      /\ RowOK(job[j], session[j], journal[j])
      /\ CtlOK(ctl[c], job[j], saved[j], session[j], journal[j], action[j])
  BY <1>1, AtRow
<1>3. /\ job[j].state = "stopping" /\ session[j].state # "prompted" /\ job[j].target \in Stops
      /\ job[j].sid => journal[j] = "created"
      /\ job[j].state \notin Terminal
  BY <1>1, <1>2 DEF CtlOK, RowOK, Terminal
<1>4. /\ faults' \in Nat /\ UNCHANGED <<files, holder, backend, session, late>>
      /\ Goto(c, ctl[c].back) /\ ctl[c].back \in Calm
      /\ \/ session[j].state # "busy" /\ Row(j, r)
         \/ UNCHANGED rows
  BY <1>2, FaultCount, BackIsCalm DEF Confirm, TypeOK, Surroundings
<1>5. CASE session[j].state # "busy" /\ Row(j, r)
  <2>1. job[j].target \in Terminal /\ job[j].target # "passed"
    BY <1>3 DEF Stops, Terminal
  <2>2. /\ r \in JobRow /\ r.state = job[j].target /\ r.sid = job[j].sid /\ ~r.aborted /\ ~r.dispatched
    BY <1>2, <2>1, EndedRow
  <2> HIDE DEF r
  <2>3. RowOK(r, session[j], journal[j])
    BY <1>3, <1>5, <2>1, <2>2 DEF RowOK, Terminal
  <2>4. UNCHANGED <<files, backend, session, late>> /\ holder' \in Controller \cup {NoController}
    BY <1>2, <1>4 DEF TypeOK, Surroundings
  <2> HIDE DEF j
  <2> QED
    BY <1>1, <1>3, <1>4, <1>5, <2>2, <2>3, <2>4, DoneStep DEF j
<1>6. CASE UNCHANGED rows
  <2>1. UNCHANGED <<rows, files, holder, backend, session, late>>
    BY <1>4, <1>6
  <2> QED
    BY <1>1, <1>4, <2>1, GoStep
<1> QED
  BY <1>4, <1>5, <1>6

-----------------------------------------------------------------------------
(* The beginning and the end of a transaction.                               *)

\* Only where controller c stands changes, and what it knows there is still true.
LEMMA CtlStep ==
  ASSUME DesktopInv, NEW c \in Controller, TypeOK', UNCHANGED <<job, saved, session, journal, action>>,
         \A d \in Controller \ {c} : ctl'[d] = ctl[d], CtlInv(c)'
  PROVE  DesktopInv'
<1>1. ASSUME NEW i \in Job PROVE JobInv(i)'
  BY DEF DesktopInv, JobInv
<1>2. ASSUME NEW d \in Controller PROVE CtlInv(d)'
  <2>1. CASE d = c
    BY <2>1
  <2>2. CASE d # c
    BY <2>2 DEF DesktopInv, CtlInv
  <2> QED
    BY <2>1, <2>2
<1> QED
  BY <1>1, <1>2 DEF DesktopInv

LEMMA BeginTickStep ==
  ASSUME DesktopInv, NEW c \in Controller, BeginTick(c) \/ NextJob(c)
  PROVE  DesktopInv'
<1>1. TypeOK /\ CtlInv(c)
  BY DEF DesktopInv
<1>2. CASE BeginTick(c)
  <2> DEFINE k == [AtRest EXCEPT !.pc = "next", !.todo = Mine(c), !.seen = backend]
  <2>1. k \in CtlRow /\ k.pc = "next" /\ k.todo = Mine(c)
    BY <1>1 DEF AtRest, CtlRow, PC, Mine, TypeOK, Surroundings
  <2>2. ctl' = [ctl EXCEPT ![c] = k] /\ UNCHANGED <<rows, files, holder, backend, session, late, faults>>
    BY <1>2 DEF BeginTick
  <2> HIDE DEF k
  <2>3. ctl'[c] = k /\ TypeOK' /\ \A d \in Controller \ {c} : ctl'[d] = ctl[d]
    BY <1>1, <2>1, <2>2 DEF TypeOK, Rows, Surroundings, rows, files
  <2>4. CtlInv(c)'
    BY <2>1, <2>3 DEF CtlInv, Mine
  <2>5. UNCHANGED <<job, saved, session, journal, action>>
    BY <2>2 DEF rows, files
  <2> QED
    BY <2>3, <2>4, <2>5, CtlStep
<1>3. CASE NextJob(c)
  <2>1. PICK j \in ctl[c].todo :
          /\ ctl' = [ctl EXCEPT ![c].pc = "job", ![c].job = j, ![c].todo = @ \ {j}]
          /\ Row(j, job[j])
    BY <1>3 DEF NextJob
  <2>2. j \in Job /\ OwnerOf[j] = c
    BY <1>1 DEF CtlInv, TypeOK, Rows, CtlRow
  <2>3. /\ ctl'[c] \in CtlRow /\ ctl'[c].pc = "job" /\ ctl'[c].job = j
        /\ ctl'[c].todo = ctl[c].todo \ {j}
        /\ ctl' \in [Controller -> CtlRow]
    BY <1>1, <2>1, <2>2 DEF TypeOK, Rows, CtlRow, PC
  <2>4. UNCHANGED <<job, saved, session, journal, action>> /\ copies' \subseteq Job
    BY <1>1, <1>3, <2>1, <2>2 DEF NextJob, Row, CopiesWith, TypeOK, Rows, Surroundings, files
  <2>5. TypeOK'
    BY <1>1, <1>3, <2>3, <2>4 DEF NextJob, TypeOK, Rows, Surroundings
  <2>6. CtlInv(c)'
    BY <1>1, <2>2, <2>3 DEF CtlInv, CtlOK
  <2>7. \A d \in Controller \ {c} : ctl'[d] = ctl[d]
    BY <1>1, <2>1 DEF TypeOK, Rows
  <2> QED
    BY <2>4, <2>5, <2>6, <2>7, CtlStep
<1> QED
  BY <1>2, <1>3

LEMMA RestRow == AtRest \in CtlRow /\ AtRest.pc = "idle" /\ AtRest.todo = {}
  BY DEF AtRest, CtlRow, PC

\* Rows of controller c are committed or taken back, and it rests.
LEMMA RestStep ==
  ASSUME DesktopInv, NEW c \in Controller, ctl' = [ctl EXCEPT ![c] = AtRest],
         UNCHANGED <<copies, journal, action, backend, session, late>>,
         holder' \in Controller \cup {NoController}, faults' \in Nat,
         job' \in [Job -> JobRow], saved' \in [Job -> JobRow],
         \A j \in Job : \/ job'[j] = job[j] /\ saved'[j] = saved[j]
                        \/ OwnerOf[j] = c /\ job'[j] = saved'[j] /\ job'[j] \in {job[j], saved[j]}
                        \/ OwnerOf[j] = c /\ job'[j] = job[j] /\ saved'[j] = job[j]
  PROVE  DesktopInv'
<1>1. TypeOK
  BY DEF DesktopInv
<1>2. ctl' \in [Controller -> CtlRow] /\ ctl'[c] = AtRest /\ \A d \in Controller \ {c} : ctl'[d] = ctl[d]
  BY <1>1, RestRow DEF TypeOK, Rows
<1>3. TypeOK'
  BY <1>1, <1>2 DEF TypeOK, Rows, Surroundings
<1>4. ASSUME NEW j \in Job PROVE JobInv(j)'
  BY DEF DesktopInv, JobInv, JobOK
<1>5. CtlInv(c)'
  BY <1>2, RestRow DEF CtlInv
<1>6. ASSUME NEW d \in Controller, d # c PROVE CtlInv(d)'
  <2>1. CtlInv(d) /\ ctl'[d] = ctl[d]
    BY <1>2, <1>6 DEF DesktopInv
  <2>2. ASSUME ctl[d].pc \notin {"idle", "next"}
        PROVE  /\ ctl[d].job \in Job /\ OwnerOf[ctl[d].job] = d
               /\ job'[ctl[d].job] = job[ctl[d].job] /\ saved'[ctl[d].job] = saved[ctl[d].job]
    BY <1>6, <2>1, <2>2 DEF CtlInv
  <2> QED
    BY <2>1, <2>2 DEF CtlInv
<1> QED
  BY <1>3, <1>4, <1>5, <1>6 DEF DesktopInv
LEMMA CommitStep ==
  ASSUME DesktopInv, NEW c \in Controller, CommitTick(c) \/ Commit(c)
  PROVE  DesktopInv'
<1>1. TypeOK
  BY DEF DesktopInv
<1>2. /\ ctl' = [ctl EXCEPT ![c] = AtRest] /\ UNCHANGED <<copies, journal, action, backend, session, late>>
      /\ faults' \in Nat /\ job' = job /\ holder' \in Controller \cup {NoController}
  BY <1>1 DEF CommitTick, Commit, rows, TypeOK, Surroundings
<1>3. CASE CommitTick(c)
  <2>1. saved' = [j \in Job |-> IF j \in Mine(c) THEN job[j] ELSE saved[j]]
    BY <1>3 DEF CommitTick
  <2>2. saved' \in [Job -> JobRow] /\ job' \in [Job -> JobRow]
    BY <1>1, <1>2, <2>1 DEF TypeOK, Rows
  <2>3. \A j \in Job : \/ job'[j] = job[j] /\ saved'[j] = saved[j]
                       \/ OwnerOf[j] = c /\ job'[j] = job[j] /\ saved'[j] = job[j]
    BY <1>2, <2>1 DEF Mine
  <2> QED
    BY <1>2, <2>2, <2>3, RestStep
<1>4. CASE Commit(c)
  <2>1. saved' = [saved EXCEPT ![Cur(c)] = job[Cur(c)]] /\ ctl[c].pc = "commit"
    BY <1>4 DEF Commit, At
  <2>2. Cur(c) \in Job /\ OwnerOf[Cur(c)] = c
    BY <2>1, AtJob
  <2>3. saved' \in [Job -> JobRow] /\ job' \in [Job -> JobRow]
    BY <1>1, <1>2, <2>1, <2>2 DEF TypeOK, Rows
  <2>4. \A j \in Job : \/ job'[j] = job[j] /\ saved'[j] = saved[j]
                       \/ OwnerOf[j] = c /\ job'[j] = job[j] /\ saved'[j] = job[j]
    BY <1>1, <1>2, <2>1, <2>2 DEF TypeOK, Rows
  <2> QED
    BY <1>2, <2>3, <2>4, RestStep
<1> QED
  BY <1>3, <1>4

LEMMA RollbackStep ==
  ASSUME DesktopInv, NEW c \in Controller, DecisionFails(c) \/ Crash(c)
  PROVE  DesktopInv'
<1>1. TypeOK
  BY DEF DesktopInv
<1>2. RolledBack(c)
  BY DEF DecisionFails, Crash
<1>3. /\ ctl' = [ctl EXCEPT ![c] = AtRest] /\ UNCHANGED <<copies, journal, action, backend, session, late>>
      /\ saved' = saved /\ holder' \in Controller \cup {NoController} /\ faults' \in Nat
  BY <1>1, <1>2, FaultCount DEF RolledBack, DecisionFails, Crash, Freed, files, TypeOK, Surroundings
<1>4. job' = [j \in Job |-> IF j \in Mine(c) THEN saved[j] ELSE job[j]]
  BY <1>2 DEF RolledBack
<1>5. saved' \in [Job -> JobRow] /\ job' \in [Job -> JobRow]
  BY <1>1, <1>3, <1>4 DEF TypeOK, Rows
<1>6. \A j \in Job : \/ job'[j] = job[j] /\ saved'[j] = saved[j]
                     \/ OwnerOf[j] = c /\ job'[j] = saved'[j] /\ job'[j] \in {job[j], saved[j]}
  BY <1>3, <1>4 DEF Mine
<1> QED
  BY <1>3, <1>5, <1>6, RestStep

\* A row is submitted.
LEMMA SubmitStep ==
  ASSUME DesktopInv, NEW c \in Controller, NEW j \in Job, Submit(c, j)
  PROVE  DesktopInv'
<1>1. TypeOK /\ JobInv(j) /\ CtlInv(c) /\ OwnerOf[j] = c /\ job[j].state = "new" /\ ctl[c].pc = "idle"
  BY DEF DesktopInv, Submit, At
<1>2. PICK install \in BOOLEAN : job' = [job EXCEPT ![j].state = "queued", ![j].install = install]
  <2>1. PICK install \in {FALSE, (j \in Installs)} :
          job' = [job EXCEPT ![j].state = "queued", ![j].install = install]
    BY DEF Submit
  <2>2. (j \in Installs) \in BOOLEAN
    OBVIOUS
  <2> QED
    BY <2>1, <2>2
<1>3. /\ saved' = [saved EXCEPT ![j] = job'[j]]
      /\ UNCHANGED <<copies, journal, action, ctl, holder, backend, session, late, faults>>
  BY DEF Submit
<1> DEFINE r == [job[j] EXCEPT !.state = "queued", !.install = install]
<1>4. job[j] \in JobRow
  BY <1>1 DEF TypeOK, Rows
<1>5. /\ r \in JobRow /\ r.state = "queued" /\ r.sid = job[j].sid /\ r.aborted = job[j].aborted
      /\ r.dispatched = job[j].dispatched
  BY <1>4 DEF JobRow, JobState
<1>6. job' = [job EXCEPT ![j] = r]
  BY <1>1, <1>2 DEF TypeOK, Rows
<1> HIDE DEF r
<1>7. job'[j] = r /\ saved'[j] = r /\ job' \in [Job -> JobRow] /\ saved' \in [Job -> JobRow]
  BY <1>1, <1>3, <1>5, <1>6 DEF TypeOK, Rows
<1>8. TypeOK'
  BY <1>1, <1>3, <1>7 DEF TypeOK, Rows, Surroundings
<1>9. Frame(c, j)
  BY <1>1, <1>3, <1>6 DEF Frame, TypeOK, Rows
<1>10. RowOK(r, session[j], journal[j])
  BY <1>1, <1>5 DEF JobInv, JobOK, RowOK, Terminal
<1>11. JobOK(job'[j], saved'[j], session'[j], journal'[j], action'[j])
  BY <1>1, <1>3, <1>7, <1>10 DEF JobInv, JobOK
<1>12. CtlInv(c)'
  BY <1>1, <1>3 DEF CtlInv
<1> QED
  BY <1>1, <1>8, <1>9, <1>11, <1>12, FrameStep

\* The copies of the inputs and the lock.
LEMMA AsideStep ==
  ASSUME DesktopInv, UNCHANGED <<job, saved, session, journal, action, ctl>>, Surroundings'
  PROVE  DesktopInv'
<1>1. TypeOK'
  BY DEF DesktopInv, TypeOK, Rows
<1>2. ASSUME NEW i \in Job PROVE JobInv(i)'
  BY DEF DesktopInv, JobInv
<1>3. ASSUME NEW d \in Controller PROVE CtlInv(d)'
  BY DEF DesktopInv, CtlInv
<1> QED
  BY <1>1, <1>2, <1>3 DEF DesktopInv

LEMMA IsolateStep ==
  ASSUME DesktopInv, (\E j \in Job : Isolate(j) \/ Expire(j)) \/ (\E c \in Controller : Exit(c))
  PROVE  DesktopInv'
<1>1. TypeOK
  BY DEF DesktopInv
<1>2. UNCHANGED <<job, saved, session, journal, action, ctl, backend, faults>>
  BY DEF Isolate, Expire, Exit, World, rows, files
<1>3. copies' \subseteq Job /\ holder' \in Controller \cup {NoController}
  BY <1>1 DEF Isolate, Expire, Exit, Freed, World, rows, TypeOK, Surroundings
<1>4. late' \in [Job -> {"no", "wall", "deadline"}]
  BY <1>1 DEF Isolate, Expire, Exit, TypeOK, Surroundings
<1> QED
  BY <1>1, <1>2, <1>3, <1>4, AsideStep DEF TypeOK, Surroundings

-----------------------------------------------------------------------------
(* The workers and the desktop.                                              *)

\* A worker begins nothing that was not prompted, and does not prompt itself.
Worked(t, s) ==
  /\ t.starts = s.starts /\ t.turns = s.turns /\ t.actions = s.actions
  /\ t.state = "prompted" => s.state = "prompted"
  /\ t.state = "busy" => s.state \in {"prompted", "busy"}

LEMMA WorldStep ==
  ASSUME DesktopInv, World, Surroundings', session' \in [Job -> SessionRow],
         \A j \in Job : Worked(session'[j], session[j])
  PROVE  DesktopInv'
<1>1. UNCHANGED <<job, saved, journal, action, ctl>>
  BY DEF World, rows, files
<1>2. TypeOK'
  BY <1>1 DEF DesktopInv, TypeOK, Rows
<1>3. ASSUME NEW j \in Job PROVE JobInv(j)'
  BY <1>1 DEF DesktopInv, JobInv, JobOK, RowOK, SessionOK, Worked
<1>4. ASSUME NEW c \in Controller PROVE CtlInv(c)'
  BY <1>1 DEF DesktopInv, CtlInv, CtlOK, Worked
<1> QED
  BY <1>2, <1>3, <1>4 DEF DesktopInv

LEMMA WithdrawnRow ==
  ASSUME NEW s \in SessionRow
  PROVE  Withdrawn(s) \in SessionRow /\ AsksOnly(Withdrawn(s), s)
<1>1. CASE s.perm = "open"
  BY <1>1, RepliedRow DEF Withdrawn
<1>2. CASE s.perm # "open"
  BY <1>2 DEF Withdrawn, AsksOnly
<1> QED
  BY <1>1, <1>2

LEMMA DeadRow ==
  ASSUME NEW s \in SessionRow
  PROVE  Dead(s) \in SessionRow /\ Worked(Dead(s), s)
<1>1. CASE s.state = "none"
  BY <1>1 DEF Dead, Worked
<1>2. CASE s.state # "none"
  <2> DEFINE w == Withdrawn(s)
  <2>1. w \in SessionRow /\ AsksOnly(w, s)
    BY WithdrawnRow
  <2>2. Dead(s) = [w EXCEPT !.state = "gone", !.told = FALSE]
    BY <1>2 DEF Dead
  <2> HIDE DEF w
  <2> QED
    BY <2>1, <2>2 DEF SessionRow, AsksOnly, Worked
<1> QED
  BY <1>1, <1>2

\* The session of one job is worked at.
LEMMA SessionStep ==
  ASSUME DesktopInv, World, UNCHANGED <<backend, late>>, faults' \in Nat, NEW j \in Job,
         NEW t \in SessionRow, Worked(t, session[j]), session' = [session EXCEPT ![j] = t]
  PROVE  DesktopInv'
<1>1. TypeOK
  BY DEF DesktopInv
<1>2. Surroundings'
  BY <1>1 DEF TypeOK, Surroundings, World, rows
<1>3. session' \in [Job -> SessionRow]
  BY <1>1 DEF TypeOK, Rows
<1>4. \A i \in Job : Worked(session'[i], session[i])
  BY <1>1 DEF TypeOK, Rows, Worked
<1> QED
  BY <1>2, <1>3, <1>4, WorldStep

LEMMA WorkerStep ==
  ASSUME DesktopInv, NEW j \in Job,
         Appear(j) \/ RaiseRequest(j) \/ Tamper(j) \/ FinishTurn(j) \/ Halt(j) \/ Delete(j)
  PROVE  DesktopInv'
<1>1. TypeOK /\ World /\ UNCHANGED <<backend, late>>
  BY DEF DesktopInv, Appear, RaiseRequest, Tamper, FinishTurn, Halt, Delete
<1>2. faults' \in Nat
  BY <1>1 DEF TypeOK, Surroundings, Appear, RaiseRequest, Tamper, FinishTurn, Halt, Delete, Fault
<1>3. session[j] \in SessionRow
  BY <1>1 DEF TypeOK, Rows
<1>4. SUFFICES \E t \in SessionRow : Worked(t, session[j]) /\ session' = [session EXCEPT ![j] = t]
  BY <1>1, <1>2, SessionStep
<1>5. CASE Appear(j)
  <2> DEFINE t == [session[j] EXCEPT !.state = "busy"]
  <2>1. t \in SessionRow /\ Worked(t, session[j])
    BY <1>3, <1>5 DEF Appear, SessionRow, Worked
  <2>2. session' = [session EXCEPT ![j] = t]
    BY <1>1, <1>5 DEF Appear, TypeOK, Rows
  <2> QED
    BY <2>1, <2>2
<1>6. CASE RaiseRequest(j)
  <2>1. PICK p \in Request : session' = [session EXCEPT ![j].perm = "open", ![j].ask = p]
    BY <1>6 DEF RaiseRequest
  <2> DEFINE t == [session[j] EXCEPT !.perm = "open", !.ask = p]
  <2>2. p \in AskRow
    BY DesktopAssumption
  <2>3. t \in SessionRow /\ Worked(t, session[j])
    BY <1>3, <2>2 DEF SessionRow, Worked
  <2>4. session' = [session EXCEPT ![j] = t]
    BY <1>1, <2>1 DEF TypeOK, Rows
  <2> QED
    BY <2>3, <2>4
<1>7. CASE Tamper(j)
  <2> DEFINE p == [session[j].ask EXCEPT !.file = "changed"]
             t == [session[j] EXCEPT !.ask = p]
  <2>1. session[j].ask \in AskRow
    BY <1>3 DEF SessionRow
  <2>2. p \in AskRow
    BY <2>1 DEF AskRow
  <2>3. session' = [session EXCEPT ![j].ask.file = "changed"]
    BY <1>7 DEF Tamper
  <2>4. session' = [session EXCEPT ![j] = t]
    BY <1>1, <1>3, <2>3 DEF TypeOK, Rows
  <2> HIDE DEF p
  <2>5. t \in SessionRow /\ Worked(t, session[j])
    BY <1>3, <2>2 DEF SessionRow, Worked
  <2> QED
    BY <2>4, <2>5
<1>8. CASE FinishTurn(j)
  <2>1. PICK state \in {"finished", "flawed", "errored"} :
          session' = [session EXCEPT ![j].state = state, ![j].told = FALSE]
    BY <1>8 DEF FinishTurn
  <2> DEFINE t == [session[j] EXCEPT !.state = state, !.told = FALSE]
  <2>2. t \in SessionRow /\ Worked(t, session[j])
    BY <1>3 DEF SessionRow, Worked
  <2>3. session' = [session EXCEPT ![j] = t]
    BY <1>1, <2>1 DEF TypeOK, Rows
  <2> QED
    BY <2>2, <2>3
<1>9. CASE Halt(j)
  <2> DEFINE w == Withdrawn(session[j])
             t == [w EXCEPT !.state = "stopped", !.told = FALSE]
  <2>1. w \in SessionRow /\ AsksOnly(w, session[j])
    BY <1>3, WithdrawnRow
  <2>2. session' = [session EXCEPT ![j] = t]
    BY <1>9 DEF Halt
  <2> HIDE DEF w
  <2>3. t \in SessionRow /\ Worked(t, session[j])
    BY <2>1 DEF SessionRow, AsksOnly, Worked
  <2> QED
    BY <2>2, <2>3
<1>10. CASE Delete(j)
  <2>1. session' = [session EXCEPT ![j] = Dead(session[j])]
    BY <1>10 DEF Delete
  <2> QED
    BY <1>3, <2>1, DeadRow
<1> QED
  BY <1>5, <1>6, <1>7, <1>8, <1>9, <1>10

LEMMA RestartStep ==
  ASSUME DesktopInv, Restart
  PROVE  DesktopInv'
<1>1. TypeOK /\ World /\ session' = [j \in Job |-> Dead(session[j])]
  BY DEF DesktopInv, Restart
<1>2. \A j \in Job : Dead(session[j]) \in SessionRow /\ Worked(Dead(session[j]), session[j])
  BY <1>1, DeadRow DEF TypeOK, Rows
<1>3. Surroundings'
  BY <1>1 DEF Restart, World, rows, TypeOK, Surroundings
<1> QED
  BY <1>1, <1>2, <1>3, WorldStep
-----------------------------------------------------------------------------
(* The lead's decisions and cancels.                                         *)

\* What is known of a job that is decided on between two ticks.
LEMMA IdleRow ==
  ASSUME DesktopInv, NEW j \in Job, job[j].state \notin Terminal
  PROVE  /\ TypeOK /\ job[j] \in JobRow /\ saved[j] \in JobRow /\ session[j] \in SessionRow
         /\ journal[j] \in {"none", "creating", "created"} /\ action[j] \in BOOLEAN
         /\ session' = session => session' = [session EXCEPT ![j] = session[j]]
         /\ RowOK(job[j], session[j], journal[j]) /\ RowOK(saved[j], session[j], journal[j])
         /\ SessionOK(session[j], journal[j], action[j])
         /\ saved[j].state \notin Terminal
<1>1. TypeOK /\ JobInv(j)
  BY DEF DesktopInv
<1>2. /\ job[j] \in JobRow /\ saved[j] \in JobRow /\ session[j] \in SessionRow
      /\ journal[j] \in {"none", "creating", "created"} /\ action[j] \in BOOLEAN
      /\ session' = session => session' = [session EXCEPT ![j] = session[j]]
  BY <1>1 DEF TypeOK, Rows
<1> QED
  BY <1>1, <1>2 DEF JobInv, JobOK

Begin(j, pc) == [AtRest EXCEPT !.pc = pc, !.back = "commit", !.job = j, !.seen = backend]

LEMMA BegunRow ==
  ASSUME TypeOK, NEW c \in Controller, NEW j \in Job, NEW pc \in PC, Begun(c, j, pc)
  PROVE  /\ ctl' = [ctl EXCEPT ![c] = Begin(j, pc)] /\ Begin(j, pc) \in CtlRow
         /\ Begin(j, pc).pc = pc /\ Begin(j, pc).job = j /\ Begin(j, pc).todo = {}
<1>1. backend \in Nat
  BY DEF TypeOK, Surroundings
<1>2. /\ Begin(j, pc) \in CtlRow
      /\ Begin(j, pc).pc = pc /\ Begin(j, pc).job = j /\ Begin(j, pc).todo = {}
  BY <1>1 DEF Begin, AtRest, CtlRow, PC
<1> QED
  BY <1>2 DEF Begun, Begin

\* The decision writes the row r and the session s.
Decides(c, j, r, s) ==
  /\ Decided(c, j, r) /\ session' = [session EXCEPT ![j] = s]
  /\ UNCHANGED <<files, holder, backend, late, faults>>

LEMMA DecidedStep ==
  ASSUME DesktopInv, NEW c \in Controller, NEW j \in Job, OwnerOf[j] = c,
         job[j].state \notin Terminal, NEW r \in JobRow, NEW s \in SessionRow, Decides(c, j, r, s),
         RowOK(r, s, journal[j]), RowOK(saved[j], s, journal[j]),
         SessionOK(s, journal[j], action[j])
  PROVE  DesktopInv'
<1> DEFINE k == Begin(j, "commit")
<1>1. /\ TypeOK /\ journal[j] \in {"none", "creating", "created"} /\ action[j] \in BOOLEAN
      /\ saved[j].state \notin Terminal
  BY IdleRow
<1>2. "commit" \in PC /\ Begun(c, j, "commit") /\ Row(j, r)
  BY DEF PC, Decides, Decided
<1>3. ctl' = [ctl EXCEPT ![c] = k] /\ k \in CtlRow /\ k.pc = "commit" /\ k.job = j /\ k.todo = {}
  BY <1>1, <1>2, BegunRow
<1> HIDE DEF k
<1>4. Writes(c, j, r, s, journal[j], action[j], k)
  BY <1>1, <1>2, <1>3 DEF Writes, Decides, files, TypeOK, Rows
<1>5. JobOK(r, saved[j], s, journal[j], action[j]) /\ CtlOK(k, r, saved[j], s, journal[j], action[j])
  BY <1>1, <1>3 DEF JobOK, CtlOK
<1>6. holder' \in Controller \cup {NoController} /\ faults' \in Nat
  BY <1>1 DEF Decides, TypeOK, Surroundings
<1>7. \A i \in k.todo : OwnerOf[i] = c
  BY <1>3
<1> QED
  BY <1>1, <1>3, <1>4, <1>5, <1>6, <1>7, RowStep

\* The decision or the cancel stops the job.
DecidesStop(c, j, r, s, state) ==
  /\ DecidedStop(c, j, r, state) /\ session' = [session EXCEPT ![j] = s]
  /\ UNCHANGED <<files, holder, backend, late, faults>>

LEMMA DecidedStopStep ==
  ASSUME DesktopInv, NEW c \in Controller, NEW j \in Job, OwnerOf[j] = c,
         job[j].state \notin Terminal, NEW r \in JobRow, NEW s \in SessionRow, NEW state \in Stops,
         DecidesStop(c, j, r, s, state), Like(r, job[j]), AsksOnly(s, session[j])
  PROVE  DesktopInv'
<1> DEFINE pc == IF ~r.sid THEN "commit" ELSE IF r.aborted THEN "confirm" ELSE "abort"
           k == Begin(j, pc)
<1>1. /\ TypeOK /\ RowOK(job[j], session[j], journal[j]) /\ RowOK(saved[j], session[j], journal[j])
      /\ SessionOK(session[j], journal[j], action[j])
  BY IdleRow
<1>2. pc \in PC
  BY DEF PC
<1>3. Begun(c, j, pc) /\ Row(j, StopRow(r, state))
  BY DEF DecidesStop, DecidedStop, StopRow
<1>4. ctl' = [ctl EXCEPT ![c] = k] /\ k \in CtlRow /\ k.pc = pc /\ k.job = j /\ k.todo = {}
  BY <1>1, <1>2, <1>3, BegunRow
<1> HIDE DEF k
<1>5. StopsJob(c, j, r, s, state, "commit") /\ "commit" \in {"check", "next", "commit"}
  BY <1>3, <1>4 DEF StopsJob, DecidesStop
<1>6. RowOK(saved[j], s, journal[j]) /\ SessionOK(s, journal[j], action[j])
  BY <1>1, AskedOnly
<1>7. /\ r.sid => journal[j] = "created"
      /\ r.aborted => r.sid /\ s.state # "prompted"
      /\ r.dispatched => s.actions = 1
  BY <1>1 DEF RowOK, Like, AsksOnly
<1>8. faults' \in Nat
  BY <1>1 DEF DecidesStop, TypeOK, Surroundings
<1> QED
  BY <1>5, <1>6, <1>7, <1>8, StopStep

\* The row that closes a question is like the one it was.
LEMMA ClosedRow ==
  ASSUME NEW j \in Job, NEW kind, job[j] \in JobRow
  PROVE  /\ Closed(j, kind) \in JobRow /\ Like(Closed(j, kind), job[j])
         /\ Answered(j) \in JobRow /\ Like(Answered(j), job[j]) /\ Answered(j).state = "running"
<1>1. \A x : Closed(j, x) \in JobRow /\ Like(Closed(j, x), job[j])
  BY DEF Closed, JobRow, Like
<1> DEFINE q == Closed(j, "permission")
<1>2. q \in JobRow /\ Like(q, job[j])
  BY <1>1
<1>3. Answered(j) = [q EXCEPT !.handled = TRUE, !.state = "running"]
  BY DEF Answered
<1> HIDE DEF q
<1>4. Answered(j) \in JobRow /\ Like(Answered(j), job[j]) /\ Answered(j).state = "running"
  BY <1>2, <1>3 DEF JobRow, JobState, Like
<1> QED
  BY <1>1, <1>4

LEMMA PermissionStep ==
  ASSUME DesktopInv, NEW c \in Controller, NEW j \in Job, DecidePermission(c, j)
  PROVE  DesktopInv'
<1>1. /\ OwnerOf[j] = c /\ job[j].state \notin Terminal /\ job[j].state # "stopping"
      /\ UNCHANGED <<files, holder, backend, late, faults>>
  BY DEF DecidePermission, Deciding
<1>2. /\ job[j] \in JobRow /\ session[j] \in SessionRow
      /\ RowOK(job[j], session[j], journal[j]) /\ RowOK(saved[j], session[j], journal[j])
      /\ SessionOK(session[j], journal[j], action[j])
  BY <1>1, IdleRow
<1>3. PICK reply \in {"answered", "granted"} :
        /\ session' = [session EXCEPT ![j] = Replied(session[j], reply)]
        /\ Decided(c, j, Answered(j)) \/ DecidedStop(c, j, Answered(j), "failed")
  BY DEF DecidePermission, Grant
<1> DEFINE s == Replied(session[j], reply)
<1>4. s \in SessionRow /\ AsksOnly(s, session[j])
  BY <1>2, RepliedRow
<1>5. Answered(j) \in JobRow /\ Like(Answered(j), job[j]) /\ Answered(j).state = "running"
  BY <1>2, ClosedRow
<1>6. RowOK(saved[j], s, journal[j]) /\ SessionOK(s, journal[j], action[j])
  BY <1>2, <1>4, AskedOnly
<1>7. RowOK(Answered(j), s, journal[j])
  BY <1>1, <1>2, <1>4, <1>5 DEF RowOK, Like, AsksOnly, Terminal
<1>8. CASE Decided(c, j, Answered(j))
  <2>1. Decides(c, j, Answered(j), s)
    BY <1>1, <1>3, <1>8 DEF Decides
  <2> HIDE DEF s
  <2> QED
    BY <1>1, <1>4, <1>5, <1>6, <1>7, <2>1, DecidedStep
<1>9. CASE DecidedStop(c, j, Answered(j), "failed")
  <2>1. DecidesStop(c, j, Answered(j), s, "failed") /\ "failed" \in Stops
    BY <1>1, <1>3, <1>9 DEF DecidesStop, Stops
  <2> HIDE DEF s
  <2> QED
    BY <1>1, <1>4, <1>5, <2>1, DecidedStopStep
<1> QED
  BY <1>3, <1>8, <1>9

LEMMA PassStepOfReview ==
  ASSUME DesktopInv, NEW c \in Controller, NEW j \in Job, DecidePass(c, j)
  PROVE  DesktopInv'
<1> DEFINE r == Ended(job[j], "passed")
<1>1. /\ OwnerOf[j] = c /\ job[j].state \notin Terminal /\ job[j].state # "stopping"
      /\ MayPass(j) /\ Decided(c, j, r)
      /\ UNCHANGED <<files, holder, backend, session, late, faults>>
  BY DEF DecidePass, Deciding
<1>2. /\ job[j] \in JobRow /\ session[j] \in SessionRow
      /\ session' = session => session' = [session EXCEPT ![j] = session[j]]
      /\ RowOK(job[j], session[j], journal[j]) /\ RowOK(saved[j], session[j], journal[j])
      /\ SessionOK(session[j], journal[j], action[j])
  BY <1>1, IdleRow
<1>3. "passed" \in Terminal
  BY DEF Terminal
<1>4. /\ r \in JobRow /\ r.state = "passed" /\ r.sid = job[j].sid /\ r.reviewed = job[j].reviewed
      /\ r.install = job[j].install /\ ~r.aborted /\ ~r.dispatched
  BY <1>2, <1>3, EndedRow
<1> HIDE DEF r
<1>5. RowOK(r, session[j], journal[j])
  BY <1>1, <1>2, <1>4 DEF RowOK, MayPass, Artifacts
<1>6. Decides(c, j, r, session[j])
  BY <1>1, <1>2 DEF Decides
<1> QED
  BY <1>1, <1>2, <1>4, <1>5, <1>6, DecidedStep

LEMMA RedoStep ==
  ASSUME DesktopInv, NEW c \in Controller, NEW j \in Job, DecideRedo(c, j)
  PROVE  DesktopInv'
<1> DEFINE q == Closed(j, "review")
           r == [q EXCEPT !.redos = @ + 1, !.state = "running"]
           s == Turn(session[j])
<1>1. /\ OwnerOf[j] = c /\ job[j].state \notin Terminal /\ job[j].state # "stopping"
      /\ Decided(c, j, r) /\ session' = [session EXCEPT ![j] = s]
      /\ UNCHANGED <<files, holder, backend, late, faults>>
  BY DEF DecideRedo, Deciding
<1>2. /\ job[j] \in JobRow /\ session[j] \in SessionRow
      /\ RowOK(job[j], session[j], journal[j]) /\ RowOK(saved[j], session[j], journal[j])
      /\ SessionOK(session[j], journal[j], action[j]) /\ saved[j].state \notin Terminal
  BY <1>1, IdleRow
<1>3. q \in JobRow /\ Like(q, job[j])
  BY <1>2, ClosedRow
<1>4. s \in SessionRow /\ s.state = "busy" /\ s.starts = session[j].starts /\ s.actions = session[j].actions
  BY <1>2, TurnRow
<1> HIDE DEF q, s
<1>5. q.redos + 1 \in Nat /\ "running" \in JobState
  BY <1>3 DEF JobRow, JobState
<1>6. r \in JobRow /\ Like(r, q) /\ r.state = "running"
  BY <1>3, <1>5 DEF JobRow, Like
<1>7. Decides(c, j, r, s)
  BY <1>1 DEF Decides
<1> HIDE DEF r
<1>8. RowOK(r, s, journal[j])
  BY <1>1, <1>2, <1>3, <1>4, <1>6 DEF RowOK, Like, Terminal
<1>9. RowOK(saved[j], s, journal[j]) /\ SessionOK(s, journal[j], action[j])
  BY <1>2, <1>4 DEF RowOK, SessionOK, Terminal
<1> QED
  BY <1>1, <1>4, <1>6, <1>7, <1>8, <1>9, DecidedStep

LEMMA FailStep ==
  ASSUME DesktopInv, NEW c \in Controller, NEW j \in Job, DecideFail(c, j) \/ Cancel(c, j)
  PROVE  DesktopInv'
<1>1. PICK r \in {job[j], [job[j] EXCEPT !.open = {}]}, state \in {"failed", "cancelled"} :
        DecidedStop(c, j, r, state)
  BY DEF DecideFail, Cancel
<1>2. /\ OwnerOf[j] = c /\ job[j].state \notin Terminal
      /\ UNCHANGED <<files, holder, backend, session, late, faults>>
  BY DEF DecideFail, Cancel, Deciding
<1>3. /\ job[j] \in JobRow /\ session[j] \in SessionRow
      /\ session' = session => session' = [session EXCEPT ![j] = session[j]]
  BY <1>2, IdleRow
<1>4. r \in JobRow /\ Like(r, job[j])
  BY <1>1, <1>3 DEF JobRow, Like
<1>5. DecidesStop(c, j, r, session[j], state) /\ AsksOnly(session[j], session[j]) /\ state \in Stops
  BY <1>1, <1>2, <1>3 DEF DecidesStop, AsksOnly, Stops
<1> QED
  BY <1>2, <1>3, <1>4, <1>5, DecidedStopStep

\* The action journal is there before the action, and the action is the first.
LEMMA ApproveStep ==
  ASSUME DesktopInv, NEW c \in Controller, NEW j \in Job, Approve(c, j)
  PROVE  DesktopInv'
<1> DEFINE k == Begin(j, "execute")
           a == TRUE
<1>1. /\ OwnerOf[j] = c /\ job[j].state \notin Terminal /\ job[j].state # "stopping" /\ ~action[j]
      /\ action' = [action EXCEPT ![j] = a] /\ Begun(c, j, "execute")
      /\ UNCHANGED <<rows, saved, journal, holder, backend, session, late, faults>>
  BY DEF Approve, Deciding
<1>2. /\ TypeOK /\ job[j] \in JobRow /\ session[j] \in SessionRow
      /\ journal[j] \in {"none", "creating", "created"}
      /\ session' = session => session' = [session EXCEPT ![j] = session[j]]
      /\ RowOK(job[j], session[j], journal[j]) /\ RowOK(saved[j], session[j], journal[j])
      /\ SessionOK(session[j], journal[j], action[j]) /\ saved[j].state \notin Terminal
  BY <1>1, IdleRow
<1>3. session[j].actions = 0
  BY <1>1, <1>2 DEF SessionOK, SessionRow
<1>4. "execute" \in PC
  BY DEF PC
<1>5. ctl' = [ctl EXCEPT ![c] = k] /\ k \in CtlRow /\ k.pc = "execute" /\ k.job = j /\ k.todo = {}
  BY <1>1, <1>2, <1>4, BegunRow
<1> HIDE DEF k
<1>6. Row(j, job[j])
  BY <1>1, <1>2 DEF Row, CopiesWith, rows, TypeOK, Rows
<1>7. Writes(c, j, job[j], session[j], journal[j], a, k)
  BY <1>1, <1>2, <1>5, <1>6 DEF Writes, TypeOK, Rows
<1>8. JobOK(job[j], saved[j], session[j], journal[j], a)
  BY <1>2 DEF JobOK, SessionOK
<1>9. CtlOK(k, job[j], saved[j], session[j], journal[j], a)
  BY <1>1, <1>3, <1>5 DEF CtlOK
<1>10. holder' \in Controller \cup {NoController} /\ faults' \in Nat /\ a \in BOOLEAN
  BY <1>1, <1>2 DEF TypeOK, Surroundings
<1> HIDE DEF a
<1>11. \A i \in k.todo : OwnerOf[i] = c
  BY <1>5
<1> QED
  BY <1>1, <1>2, <1>5, <1>7, <1>8, <1>9, <1>10, <1>11, RowStep

LEMMA ExecuteStep ==
  ASSUME DesktopInv, NEW c \in Controller, Execute(c)
  PROVE  DesktopInv'
<1> DEFINE j == Cur(c)
           q == Closed(j, "system_action")
           r == [q EXCEPT !.dispatched = TRUE, !.state = "running"]
           t == Turn(session[j])
           s == [t EXCEPT !.actions = @ + 1]
<1>1. ctl[c].pc = "execute"
  BY DEF Execute, At
<1>2. /\ TypeOK /\ j \in Job /\ job[j] \in JobRow /\ session[j] \in SessionRow
      /\ RowOK(job[j], session[j], journal[j]) /\ RowOK(saved[j], session[j], journal[j])
      /\ SessionOK(session[j], journal[j], action[j])
      /\ saved[j].state \in Terminal => job[j] = saved[j]
      /\ CtlOK(ctl[c], job[j], saved[j], session[j], journal[j], action[j])
  BY <1>1, AtRow
<1>3. action[j] /\ session[j].actions = 0 /\ job[j].state \notin Terminal \cup {"stopping"}
  BY <1>1, <1>2 DEF CtlOK
<1>4. q \in JobRow /\ Like(q, job[j])
  BY <1>2, ClosedRow
<1>5. t \in SessionRow /\ t.state = "busy" /\ t.starts = session[j].starts /\ t.actions = 0
  BY <1>2, <1>3, TurnRow
<1>6. Moves(c, r, s, "commit") /\ "commit" \in Calm
  <2>1. session' = [session EXCEPT ![j] = s] /\ Row(j, r) /\ Goto(c, "commit")
    BY DEF Execute
  <2>2. /\ UNCHANGED <<files, backend, late>> /\ faults' \in Nat
        /\ holder' \in Controller \cup {NoController}
    BY <1>2 DEF Execute, TypeOK, Surroundings
  <2> HIDE DEF r, s
  <2> QED
    BY <2>1, <2>2 DEF Moves, Calm
<1> HIDE DEF q, t
<1>7. r \in JobRow /\ r.state = "running" /\ r.sid = q.sid /\ r.aborted = q.aborted
  BY <1>4 DEF JobRow, JobState
<1>8. s \in SessionRow /\ s.state = "busy" /\ s.starts = session[j].starts /\ s.actions = 1
  BY <1>5 DEF SessionRow
<1> HIDE DEF r, s
<1>9. RowOK(r, s, journal[j])
  BY <1>2, <1>3, <1>4, <1>7, <1>8 DEF RowOK, Like, Terminal
<1>10. RowOK(saved[j], s, journal[j])
  BY <1>2, <1>3, <1>8 DEF RowOK, Terminal
<1>11. SessionOK(s, journal[j], action[j])
  BY <1>2, <1>3, <1>8 DEF SessionOK
<1>12. ctl[c].pc \notin {"idle", "next"} /\ job[j].state \notin Terminal
  BY <1>1, <1>3
<1> HIDE DEF j
<1> QED
  BY <1>6, <1>7, <1>8, <1>9, <1>10, <1>11, <1>12, MoveStep DEF j
-----------------------------------------------------------------------------
(* Every step keeps the invariant.                                           *)

LEMMA InitInv == Init => DesktopInv
<1> SUFFICES ASSUME Init PROVE DesktopInv
  OBVIOUS
<1>1. NewJob \in JobRow /\ NewJob.state = "new" /\ ~NewJob.sid /\ ~NewJob.aborted /\ ~NewJob.dispatched
  BY DEF NewJob, JobRow, JobState, Stops, Kind
<1>2. NewSession \in SessionRow /\ NewSession.starts = 0 /\ NewSession.actions = 0
  <2>1. NoAsk \in AskRow
    BY DEF NoAsk, AskRow
  <2> QED
    BY <2>1 DEF NewSession, SessionRow
<1>3. TypeOK
  BY <1>1, <1>2, RestRow DEF Init, TypeOK, Rows, Surroundings
<1>4. ASSUME NEW j \in Job PROVE JobInv(j)
  BY <1>1, <1>2 DEF Init, JobInv, JobOK, RowOK, SessionOK, Terminal
<1>5. ASSUME NEW c \in Controller PROVE CtlInv(c)
  BY RestRow DEF Init, CtlInv
<1> QED
  BY <1>3, <1>4, <1>5 DEF DesktopInv

LEMMA NextInv == DesktopInv /\ [Next]_vars => DesktopInv'
<1> SUFFICES ASSUME DesktopInv, [Next]_vars PROVE DesktopInv'
  OBVIOUS
<1>1. CASE UNCHANGED vars
  <2>1. UNCHANGED <<job, saved, session, journal, action, ctl>>
    BY <1>1 DEF vars
  <2>2. Surroundings'
    BY <1>1 DEF vars, DesktopInv, TypeOK, Surroundings
  <2> QED
    BY <2>1, <2>2, AsideStep
<1>2. ASSUME NEW c \in Controller, BeginTick(c) \/ Tick(c) PROVE DesktopInv'
  <2>1. CASE BeginTick(c) \/ NextJob(c)
    BY <2>1, BeginTickStep
  <2>2. CASE CommitTick(c)
    BY <2>2, CommitStep
  <2>3. CASE NoStart(c) \/ Interrupted(c) \/ Occupy(c)
    BY <2>3, OccupyStep
  <2>4. CASE LookAround(c) \/ CreateFails(c)
    BY <2>4, LookAroundStep
  <2>5. CASE Create(c)
    BY <2>5, CreateStep
  <2>6. CASE Prompt(c) \/ PromptFails(c)
    BY <2>6, PromptStep
  <2>7. CASE Abort(c)
    BY <2>7, AbortStep
  <2>8. CASE Confirm(c)
    BY <2>8, ConfirmStep
  <2>9. CASE PassOver(c) \/ Lost(c) \/ Overdue(c) \/ StopAgain(c) \/ NotDue(c)
    BY <2>9, PassStep
  <2>10. CASE \/ ScanFails(c) \/ StillOpen(c) \/ Gone(c) \/ StillWorking(c) \/ SoftMiss(c)
              \/ Unfinished(c)
    BY <2>10, ScanStep
  <2>11. CASE HardReject(c)
    BY <2>11, HardRejectStep
  <2>12. CASE AskPermission(c) \/ AskAction(c) \/ AskReview(c) \/ TurnFailed(c)
    BY <2>12, QuestionStep
  <2> QED
    BY <1>2, <2>1, <2>2, <2>3, <2>4, <2>5, <2>6, <2>7, <2>8, <2>9, <2>10, <2>11, <2>12 DEF Tick
<1>3. ASSUME NEW c \in Controller, Execute(c) \/ Commit(c) \/ DecisionFails(c) \/ Crash(c)
      PROVE  DesktopInv'
  BY <1>3, ExecuteStep, CommitStep, RollbackStep
<1>4. ASSUME NEW c \in Controller, NEW j \in Job, Submit(c, j) \/ Decide(c, j) \/ Cancel(c, j)
      PROVE  DesktopInv'
  BY <1>4, SubmitStep, PermissionStep, PassStepOfReview, RedoStep, FailStep, ApproveStep DEF Decide
<1>5. ASSUME NEW c \in Controller, Exit(c) PROVE DesktopInv'
  BY <1>5, IsolateStep
<1>6. ASSUME NEW j \in Job, \/ Isolate(j) \/ Appear(j) \/ RaiseRequest(j) \/ Tamper(j)
                            \/ FinishTurn(j) \/ Halt(j) \/ Expire(j) \/ Delete(j)
      PROVE  DesktopInv'
  BY <1>6, IsolateStep, WorkerStep
<1>7. CASE Restart
  BY <1>7, RestartStep
<1> QED
  BY <1>1, <1>2, <1>3, <1>4, <1>5, <1>6, <1>7 DEF Next, Transaction

LEMMA DesktopInvariant == Spec => []DesktopInv
  BY InitInv, NextInv, PTL DEF Spec

-----------------------------------------------------------------------------
(* What follows.                                                             *)

\* Rows, sessions and journals keep their form through every rollback and every crash.
THEOREM EngineRowsKeepTheirForm == Spec => []TypeOK
<1>1. DesktopInv => TypeOK
  BY DEF DesktopInv
<1> QED
  BY <1>1, DesktopInvariant, PTL

\* One start and one action per job, for any number of controllers that crash between
\* any two writes: the start journal and the action journal are written first and
\* are not taken back with the transaction.
THEOREM NothingIsDispatchedTwice == Spec => []DispatchedOnce
<1>1. DesktopInv => DispatchedOnce
  BY DEF DesktopInv, JobInv, JobOK, SessionOK, DispatchedOnce
<1> QED
  BY <1>1, DesktopInvariant, PTL

\* A committed end under the name of a session is the end of its worker: confirmation
\* waits for the status map, and an abort withdraws a prompt that has not begun.
THEOREM EndsAreReal == Spec => []EndedIsStopped
<1>1. DesktopInv => EndedIsStopped
  BY DEF DesktopInv, JobInv, JobOK, RowOK, EndedIsStopped, Working
<1> QED
  BY <1>1, DesktopInvariant, PTL

\* What has passed is what the lead was shown, and an installation was carried out.
THEOREM PassedAsReviewed == Spec => []PassedWasReviewed
<1>1. DesktopInv => PassedWasReviewed
  BY DEF DesktopInv, JobInv, JobOK, RowOK, PassedWasReviewed
<1> QED
  BY <1>1, DesktopInvariant, PTL

-----------------------------------------------------------------------------
(* Grants.                                                                   *)

\* Of all that is done to a session, only Grant grants.
NotGranted(t, s) == t.perm = "granted" => s.perm = "granted"

LEMMA PermRows ==
  ASSUME NEW s \in SessionRow
  PROVE  /\ NotGranted(Turn(s), s) /\ NotGranted(Aborted(s), s) /\ NotGranted(Dead(s), s)
         /\ NotGranted(Replied(s, "answered"), s) /\ NotGranted(Withdrawn(s), s)
         /\ Withdrawn(s) \in SessionRow
<1>1. NotGranted(Turn(s), s)
  BY DEF Turn, SessionRow, NotGranted
<1>2. NotGranted(Aborted(s), s)
  BY DEF Aborted, SessionRow, NotGranted
<1>3. NotGranted(Replied(s, "answered"), s)
  BY DEF Replied, SessionRow, NotGranted
<1>4. NotGranted(Withdrawn(s), s)
  BY <1>3 DEF Withdrawn, NotGranted
<1> DEFINE w == Withdrawn(s)
<1>5. w \in SessionRow
  BY WithdrawnRow
<1>6. Dead(s) = IF s.state = "none" THEN s ELSE [w EXCEPT !.state = "gone", !.told = FALSE]
  BY DEF Dead
<1>7. NotGranted(w, s)
  BY <1>4
<1> HIDE DEF w
<1>8. NotGranted(Dead(s), s)
  BY <1>5, <1>6, <1>7 DEF SessionRow, NotGranted
<1> QED
  BY <1>1, <1>2, <1>3, <1>4, <1>5, <1>8 DEF w

\* A session is written over by t.
LEMMA Overwritten ==
  ASSUME TypeOK, NEW i \in Job, NEW t, NotGranted(t, session[i]), session' = [session EXCEPT ![i] = t]
  PROVE  \A j \in Job : NotGranted(session'[j], session[j])
  BY DEF TypeOK, Rows, NotGranted

\* What a tick and a decision other than Grant do to the sessions.
LEMMA TickGrantsNothing ==
  ASSUME DesktopInv, NEW c \in Controller, Tick(c) \/ Execute(c)
  PROVE  \A j \in Job : NotGranted(session'[j], session[j])
<1> DEFINE i == Cur(c)
           s == session[i]
<1>1. TypeOK
  BY DEF DesktopInv
<1>2. CASE UNCHANGED session
  BY <1>2 DEF NotGranted
<1>3. ASSUME ctl[c].pc \notin {"idle", "next"} PROVE i \in Job /\ s \in SessionRow
  BY <1>3, AtRow
<1>4. CASE Create(c)
  <2>1. i \in Job /\ s \in SessionRow
    BY <1>3, <1>4 DEF Create, At
  <2> DEFINE t == [s EXCEPT !.state = "idle"]
  <2>2. session' = [session EXCEPT ![i] = t]
    BY <1>1, <1>4, <2>1 DEF Create, TypeOK, Rows
  <2>3. NotGranted(t, s)
    BY <2>1 DEF SessionRow, NotGranted
  <2> HIDE DEF i, t
  <2> QED
    BY <1>1, <2>1, <2>2, <2>3, Overwritten
<1>5. CASE Prompt(c) \/ PromptFails(c)
  <2>1. i \in Job /\ s \in SessionRow
    BY <1>3, <1>5 DEF Prompt, PromptFails, At
  <2> DEFINE u == Turn(s)
  <2>2. u \in SessionRow /\ NotGranted(u, s)
    BY <2>1, TurnRow, PermRows
  <2>3. FirstTurn(i) = [u EXCEPT !.state = "prompted", !.starts = @ + 1]
    BY DEF FirstTurn
  <2> HIDE DEF u
  <2>4. NotGranted(FirstTurn(i), s)
    BY <2>2, <2>3 DEF SessionRow, NotGranted
  <2>5. session' = [session EXCEPT ![i] = FirstTurn(i)] \/ UNCHANGED session
    BY <1>5 DEF Prompt, PromptFails
  <2> HIDE DEF i
  <2> QED
    BY <1>1, <1>2, <2>1, <2>4, <2>5, Overwritten
<1>6. CASE Abort(c)
  <2>1. i \in Job /\ s \in SessionRow
    BY <1>3, <1>6 DEF Abort, At
  <2>2. NotGranted(Aborted(s), s)
    BY <2>1, PermRows
  <2>3. session' = [session EXCEPT ![i] = Aborted(s)] \/ UNCHANGED session
    BY <1>6 DEF Abort
  <2> HIDE DEF i
  <2> QED
    BY <1>1, <1>2, <2>1, <2>2, <2>3, Overwritten
<1>7. CASE HardReject(c)
  <2>1. i \in Job /\ s \in SessionRow
    BY <1>3, <1>7 DEF HardReject, Due, Checking, At
  <2>2. NotGranted(Replied(s, "answered"), s)
    BY <2>1, PermRows
  <2>3. session' = [session EXCEPT ![i] = Replied(s, "answered")]
    BY <1>7 DEF HardReject
  <2> HIDE DEF i
  <2> QED
    BY <1>1, <2>1, <2>2, <2>3, Overwritten
<1>8. CASE Execute(c)
  <2>1. i \in Job /\ s \in SessionRow
    BY <1>3, <1>8 DEF Execute, At
  <2> DEFINE u == Turn(s)
             t == [u EXCEPT !.actions = @ + 1]
  <2>2. u \in SessionRow /\ NotGranted(u, s)
    BY <2>1, TurnRow, PermRows
  <2>3. session' = [session EXCEPT ![i] = t]
    BY <1>8 DEF Execute
  <2> HIDE DEF u
  <2>4. NotGranted(t, s)
    BY <2>2 DEF SessionRow, NotGranted
  <2> HIDE DEF i, t
  <2> QED
    BY <1>1, <2>1, <2>3, <2>4, Overwritten
<1>9. CASE /\ Tick(c) /\ ~Create(c) /\ ~Prompt(c) /\ ~PromptFails(c) /\ ~Abort(c) /\ ~HardReject(c)
  <2>1. UNCHANGED session
    BY <1>9 DEF Tick, NextJob, CommitTick, NoStart, Interrupted, Occupy, LookAround, CreateFails,
                Confirm, PassOver, Lost, Overdue, StopAgain, NotDue, ScanFails, AskPermission,
                StillOpen, Gone, StillWorking, SoftMiss, Unfinished, TurnFailed, AskAction, AskReview,
                Kept
  <2> QED
    BY <1>2, <2>1
<1> QED
  BY <1>4, <1>5, <1>6, <1>7, <1>8, <1>9
\* What the workers, the clock and the desktop do to them.
LEMMA WorldGrantsNothing ==
  ASSUME DesktopInv, NEW i \in Job,
         \/ Appear(i) \/ RaiseRequest(i) \/ Tamper(i) \/ FinishTurn(i) \/ Halt(i) \/ Delete(i) \/ Restart
  PROVE  \A j \in Job : NotGranted(session'[j], session[j])
<1>1. TypeOK /\ session[i] \in SessionRow
  BY DEF DesktopInv, TypeOK, Rows
<1>2. CASE Appear(i)
  <2> DEFINE t == [session[i] EXCEPT !.state = "busy"]
  <2>1. session' = [session EXCEPT ![i] = t] /\ NotGranted(t, session[i])
    BY <1>1, <1>2 DEF Appear, TypeOK, Rows, SessionRow, NotGranted
  <2> HIDE DEF t
  <2> QED
    BY <1>1, <2>1, Overwritten
<1>3. CASE RaiseRequest(i)
  <2>1. PICK p \in Request : session' = [session EXCEPT ![i].perm = "open", ![i].ask = p]
    BY <1>3 DEF RaiseRequest
  <2> QED
    BY <1>1, <2>1 DEF TypeOK, Rows, SessionRow, NotGranted
<1>4. CASE Tamper(i)
  <2>1. session' = [session EXCEPT ![i].ask.file = "changed"]
    BY <1>4 DEF Tamper
  <2> QED
    BY <1>1, <2>1 DEF TypeOK, Rows, SessionRow, NotGranted
<1>5. CASE FinishTurn(i)
  <2>1. PICK state \in {"finished", "flawed", "errored"} :
          session' = [session EXCEPT ![i].state = state, ![i].told = FALSE]
    BY <1>5 DEF FinishTurn
  <2> QED
    BY <1>1, <2>1 DEF TypeOK, Rows, SessionRow, NotGranted
<1>6. CASE Halt(i)
  <2> DEFINE w == Withdrawn(session[i])
             t == [w EXCEPT !.state = "stopped", !.told = FALSE]
  <2>1. w \in SessionRow /\ NotGranted(w, session[i])
    BY <1>1, PermRows
  <2>2. session' = [session EXCEPT ![i] = t]
    BY <1>6 DEF Halt
  <2> HIDE DEF w
  <2>3. NotGranted(t, session[i])
    BY <2>1 DEF SessionRow, NotGranted
  <2> HIDE DEF t
  <2> QED
    BY <1>1, <2>2, <2>3, Overwritten
<1>7. CASE Delete(i)
  <2>1. session' = [session EXCEPT ![i] = Dead(session[i])]
    BY <1>7 DEF Delete
  <2> QED
    BY <1>1, <2>1, PermRows, Overwritten
<1>8. CASE Restart
  <2>1. session' = [j \in Job |-> Dead(session[j])]
    BY <1>8 DEF Restart
  <2> QED
    BY <1>1, <2>1, PermRows DEF TypeOK, Rows
<1> QED
  BY <1>2, <1>3, <1>4, <1>5, <1>6, <1>7, <1>8

\* What is not rejected is contained.
LEMMA AllowedIsContained ==
  ASSUME NEW p \in AskRow, ~HardRejected(p)
  PROVE  Contained(p)
<1>1. /\ ~p.secret
      /\ p.external => ~FileRefused(p) /\ \A pattern \in p.patterns : ~Escapes(pattern)
  BY DEF HardRejected, AskRow
<1> QED
  BY <1>1 DEF Contained, FileRefused, FileAllows, Escapes

LEMMA AskedRow ==
  ASSUME NEW j \in Job, session[j] \in SessionRow
  PROVE  Asked(j) \in AskRow
<1> DEFINE p == session[j].ask
           file == IF p.file = "pin" THEN "gone" ELSE p.file
           patterns == {IF x = "copy" THEN "gone" ELSE x : x \in p.patterns}
<1>1. p \in AskRow
  BY DEF SessionRow
<1> HIDE DEF p
<1>2. file \in {"none", "workspace", "pin", "changed", "gone", "elsewhere"}
  BY <1>1 DEF AskRow
<1>3. patterns \subseteq {"workspace", "copy", "sibling", "gone", "elsewhere"}
  BY <1>1 DEF AskRow
<1>4. Asked(j) = IF j \in copies THEN p ELSE [p EXCEPT !.file = file, !.patterns = patterns]
  BY DEF Asked, p
<1> HIDE DEF file, patterns
<1> QED
  BY <1>1, <1>2, <1>3, <1>4 DEF AskRow

LEMMA DecisionsGrantContained ==
  ASSUME DesktopInv, NEW c \in Controller, NEW i \in Job, Decide(c, i) \/ Submit(c, i) \/ Cancel(c, i)
  PROVE  \A j \in Job : session[j].perm = "open" /\ session'[j].perm = "granted" => Contained(Asked(j))
<1>1. TypeOK /\ session[i] \in SessionRow
  BY DEF DesktopInv, TypeOK, Rows
<1>2. CASE UNCHANGED session
  BY <1>2
<1>3. CASE DecidePermission(c, i)
  <2>1. CASE Grant(c, i)
    <3>1. ~HardRejected(Asked(i)) /\ session' = [session EXCEPT ![i] = Replied(session[i], "granted")]
      BY <2>1 DEF Grant
    <3>2. Contained(Asked(i))
      BY <1>1, <3>1, AskedRow, AllowedIsContained
    <3> QED
      BY <1>1, <3>1, <3>2 DEF TypeOK, Rows
  <2>2. CASE session' = [session EXCEPT ![i] = Replied(session[i], "answered")]
    <3>1. \A j \in Job : NotGranted(session'[j], session[j])
      BY <1>1, <2>2, PermRows, Overwritten
    <3> QED
      BY <3>1 DEF NotGranted
  <2> QED
    BY <1>3, <2>1, <2>2 DEF DecidePermission
<1>4. CASE DecideRedo(c, i)
  <2>1. session' = [session EXCEPT ![i] = Turn(session[i])]
    BY <1>4 DEF DecideRedo
  <2>2. \A j \in Job : NotGranted(session'[j], session[j])
    BY <1>1, <2>1, PermRows, Overwritten
  <2> QED
    BY <2>2 DEF NotGranted
<1>5. CASE DecidePass(c, i) \/ DecideFail(c, i) \/ Approve(c, i) \/ Submit(c, i) \/ Cancel(c, i)
  <2>1. UNCHANGED session
    BY <1>5 DEF DecidePass, DecideFail, Approve, Submit, Cancel
  <2> QED
    BY <1>2, <2>1
<1> QED
  BY <1>3, <1>4, <1>5 DEF Decide

\* A grant is given for what the request asks as the files stand at the answer, whatever
\* became of them since the lead was asked.
THEOREM GrantsStayContained == Spec => GrantIsContained
<1>1. DesktopInv /\ [Next]_vars =>
        [\A j \in Job : session[j].perm = "open" /\ session'[j].perm = "granted"
                          => Contained(Asked(j))]_vars
  <2> SUFFICES ASSUME DesktopInv, Next
               PROVE  \A j \in Job : session[j].perm = "open" /\ session'[j].perm = "granted"
                                       => Contained(Asked(j))
    OBVIOUS
  <2>1. ASSUME \A j \in Job : NotGranted(session'[j], session[j])
        PROVE  \A j \in Job : session[j].perm = "open" /\ session'[j].perm = "granted"
                                => Contained(Asked(j))
    BY <2>1 DEF NotGranted
  <2>2. CASE UNCHANGED session
    BY <2>2
  <2>3. CASE \E c \in Controller : Tick(c) \/ Execute(c)
    BY <2>1, <2>3, TickGrantsNothing
  <2>4. CASE \E c \in Controller : BeginTick(c) \/ Commit(c) \/ DecisionFails(c) \/ Crash(c) \/ Exit(c)
    BY <2>2, <2>4 DEF BeginTick, Commit, DecisionFails, Crash, Exit
  <2>5. CASE \E c \in Controller, i \in Job : Submit(c, i) \/ Decide(c, i) \/ Cancel(c, i)
    BY <2>5, DecisionsGrantContained
  <2>6. CASE \E i \in Job : Isolate(i) \/ Expire(i)
    BY <2>2, <2>6 DEF Isolate, Expire
  <2>7. CASE \E i \in Job : Appear(i) \/ RaiseRequest(i) \/ Tamper(i) \/ FinishTurn(i) \/ Halt(i) \/ Delete(i)
    BY <2>1, <2>7, WorldGrantsNothing
  <2>8. CASE Restart
    <3>1. CASE Job = {}
      BY <3>1
    <3>2. CASE Job # {}
      BY <2>1, <2>8, <3>2, WorldGrantsNothing
    <3> QED
      BY <3>1, <3>2
  <2> QED
    BY <2>3, <2>4, <2>5, <2>6, <2>7, <2>8 DEF Next, Transaction
<1> QED
  BY <1>1, DesktopInvariant, PTL DEF Spec, GrantIsContained
=============================================================================
