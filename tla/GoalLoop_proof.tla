---------------------------- MODULE GoalLoop_proof ----------------------------
(***************************************************************************)
(* Theorems about GoalLoop, on LoopAssumption: for any finite set of jobs, *)
(* any dependencies, directories, budgets, reworks and faults.             *)
(*                                                                         *)
(* The invariant places every reservation of a job before, at or behind    *)
(* its current attempt (JobOK), so that the account can be counted from    *)
(* the reservations (Counts), and says that a job which the scheduler has  *)
(* in its queue, or has read as succeeded, cannot move (SchedOK).          *)
(***************************************************************************)
EXTENDS GoalLoop, TLAPS, FiniteSetTheorems

AtWorkPc == {"work", "review", "failed", "passed", "rejected", "channel"}
JobPc == {"idle", "claim", "enter", "dispatch", "report", "announce", "release", "attach", "done"}
           \cup AtWorkPc
JobRow == [pc : JobPc, attempt : 0..(MaxReworks + 1), reworks : 0..MaxReworks,
           result : {"none", "ok", "fail", "blocked", "queued", "raised"}]
Amount == [attempts : Nat, reworks : Nat, approvals : Nat, wall : Nat]
Ledger == [used : Amount, held : Amount]

Types ==
  /\ account \in Ledger /\ faults \in Nat
  /\ resv \in [Job -> [Attempt -> {"none", "held", "reconciled"}]]
  /\ job \in [Job -> JobRow]
  /\ slot \in [Slot -> {"queued", "running", "succeeded", "failed"}]
  /\ sched \in [pc : {"gate", "run", "joined", "done"}, at : Nat, tick : Nat,
                started : SUBSET Slot, failed : BOOLEAN]

\* Attempts before the current one are reconciled and those behind it never began; the
\* current one is held while the job is at work, and else only after an exception or a crash.
InOrder(j) ==
  /\ \A n \in Attempt : n > job[j].attempt => resv[j][n] = "none"
  /\ \A n \in Attempt : n < job[j].attempt => resv[j][n] = "reconciled"
  /\ \A n \in Attempt : n = job[j].attempt => resv[j][n] # "none"
  /\ AtWork(j) => resv[j][job[j].attempt] = "held"
  /\ \A n \in Attempt : resv[j][n] = "held" /\ ~AtWork(j) =>
       faults > 0 /\ (job[j].pc = "done" \/ (job[j].pc = "release" /\ job[j].result = "raised"))

JobOK(j) ==
  /\ job[j].pc \in {"idle", "claim", "enter"} => job[j].attempt = 0 /\ job[j].reworks = 0
  /\ job[j].pc = "dispatch" => job[j].attempt = job[j].reworks
  /\ AtWork(j) => job[j].attempt = job[j].reworks + 1
  /\ job[j].result = "queued" => job[j].attempt = 0 /\ job[j].pc = "done"
  /\ InOrder(j)

SchedOK ==
  /\ sched.pc \in {"gate", "run"} => \A j \in sched.started : slot[j] = "running"
  /\ sched.pc = "gate" => \A j \in sched.started : job[j].attempt = 0 /\ job[j].pc \in {"idle", "done"}
  /\ \A j \in Slot : slot[j] = "queued" => job[j].attempt = 0 /\ job[j].pc \in {"idle", "done"}
  /\ \A j \in Slot : slot[j] = "succeeded" => job[j].pc = "done" /\ job[j].result = "ok"
  /\ ConsumerFollowsProducer

HeldRuns == Runs("held")
DoneRuns == Runs("reconciled")
Reworks(S) == {p \in S : p[2] > 1}
Approvals(S) == {p \in S : p[1] \in NeedReview}
Counts ==
  /\ account.held.attempts = Cardinality(HeldRuns)
  /\ account.used.attempts = Cardinality(DoneRuns)
  /\ account.held.reworks = Cardinality(Reworks(HeldRuns))
  /\ account.used.reworks = Cardinality(Reworks(DoneRuns))
  /\ account.held.approvals = Cardinality(Approvals(HeldRuns))
  /\ account.held.wall = Cardinality(HeldRuns)

LoopInv == Types /\ (\A j \in Job : JobOK(j)) /\ SchedOK /\ Counts /\ WithinLimits

----------------------------------------------------------------------------
(* What the steps of one job leave alone.                                  *)

LEMMA RunsFinite ==
  ASSUME NEW S \in SUBSET (Job \X Attempt)
  PROVE  IsFiniteSet(S) /\ Cardinality(S) \in Nat
<1>1. MaxReworks + 1 \in Int BY LoopAssumption
<1>2. IsFiniteSet(Attempt) BY <1>1, FS_Interval DEF Attempt
<1>3. IsFiniteSet(Job \X Attempt) BY <1>2, FS_Product, LoopAssumption
<1> QED BY <1>3, FS_Subset, FS_CardinalityType

\* A job that neither moves nor has a reservation changed stays in order.
LEMMA JobBeside ==
  ASSUME NEW i \in Job, JobOK(i), job'[i] = job[i], resv'[i] = resv[i],
         faults \in Nat, faults' \in {faults, faults + 1}
  PROVE  JobOK(i)'
BY DEF JobOK, InOrder, AtWork

\* The scheduler's view stands while the jobs that move are not at rest.
LEMMA SchedBeside ==
  ASSUME NEW k \in Job, Types, SchedOK, UNCHANGED <<slot, sched>>,
         \A i \in Job \ {k} : job'[i] = job[i],
         k \in Slot => job[k].pc \notin {"idle", "done"}
  PROVE  SchedOK'
<1> USE DEF SchedOK, Types
<1>0. Slot \subseteq Job /\ (\A j \in Slot : DependsOn[j] \subseteq Slot) BY LoopAssumption
<1>1. k \in Slot => slot[k] \notin {"queued", "succeeded"} OBVIOUS
<1>2. sched.pc = "gate" => k \notin sched.started OBVIOUS
<1>3. (sched.pc \in {"gate", "run"} => \A j \in sched.started : slot[j] = "running")' OBVIOUS
<1>4. (sched.pc = "gate" => \A j \in sched.started : job[j].attempt = 0 /\ job[j].pc \in {"idle", "done"})'
  BY <1>0, <1>2
<1>5. (\A j \in Slot : slot[j] = "queued" => job[j].attempt = 0 /\ job[j].pc \in {"idle", "done"})'
  BY <1>0, <1>1
<1>6. (\A j \in Slot : slot[j] = "succeeded" => job[j].pc = "done" /\ job[j].result = "ok")'
  BY <1>0, <1>1
<1>7. ConsumerFollowsProducer' BY <1>0, <1>1 DEF ConsumerFollowsProducer
<1> QED BY <1>3, <1>4, <1>5, <1>6, <1>7

LEMMA CountsBeside ==
  ASSUME Counts, WithinLimits, UNCHANGED <<account, resv>>
  PROVE  Counts' /\ WithinLimits'
<1>1. HeldRuns' = HeldRuns /\ DoneRuns' = DoneRuns BY DEF HeldRuns, DoneRuns, Runs
<1>2. Counts' BY <1>1 DEF Counts, Reworks, Approvals
<1>3. WithinLimits' BY DEF WithinLimits, Committed, Plus
<1> QED BY <1>2, <1>3

\* A step of one job that leaves the account alone preserves the invariant if it keeps
\* the row of the job typed and its reservations in order.
LEMMA JobStep ==
  ASSUME LoopInv, NEW k \in Job, UNCHANGED <<account, resv, slot, sched>>,
         faults' \in {faults, faults + 1}, NEW row \in JobRow, job' = [job EXCEPT ![k] = row],
         k \in Slot => job[k].pc \notin {"idle", "done"}, JobOK(k)'
  PROVE  LoopInv'
<1>1. Types' BY DEF LoopInv, Types
<1>2. \A i \in Job : JobOK(i)'
  <2> SUFFICES ASSUME NEW i \in Job, i # k PROVE JobOK(i)' OBVIOUS
  <2>1. job'[i] = job[i] BY DEF LoopInv, Types
  <2> QED BY <2>1, JobBeside DEF LoopInv, Types
<1>3. \A i \in Job \ {k} : job'[i] = job[i] BY DEF LoopInv, Types
<1>4. SchedOK' BY <1>3, SchedBeside DEF LoopInv
<1>5. Counts' /\ WithinLimits' BY CountsBeside DEF LoopInv
<1> QED BY <1>1, <1>2, <1>4, <1>5 DEF LoopInv

----------------------------------------------------------------------------
(* The steps of a job that leave the account alone.                        *)

\* StartSolo, Claim, EnterRunning, Work, Review, Report, Announce, Release, AttachAgain and
\* the refused Dispatch give one job another place and perhaps a result; Raise is a fault.
LEMMA QuietStep ==
  ASSUME LoopInv, NEW k \in Job,
         \/ StartSolo(k) \/ Claim(k) \/ EnterRunning(k) \/ Work(k) \/ Review(k) \/ Report(k)
         \/ Announce(k) \/ Release(k) \/ AttachAgain(k) \/ Raise(k)
  PROVE  LoopInv'
<1> USE DEF LoopInv, Types, JobRow, JobPc, AtWorkPc
<1>0. JobOK(k) /\ job[k] \in JobRow OBVIOUS
<1>1. CASE StartSolo(k)
  <2> DEFINE row == [job[k] EXCEPT !.pc = "claim"]
  <2>1. row \in JobRow /\ job' = [job EXCEPT ![k] = row] BY <1>1, <1>0 DEF StartSolo, Goto
  <2>2. JobOK(k)' BY <1>1, <1>0, <2>1 DEF StartSolo, JobOK, InOrder, AtWork
  <2> QED BY <1>1, <2>1, <2>2, JobStep DEF StartSolo
<1>2. CASE Claim(k)
  <2>1. PICK row \in JobRow : job' = [job EXCEPT ![k] = row]
                              /\ \/ row = [job[k] EXCEPT !.pc = "enter"]
                                 \/ row = [job[k] EXCEPT !.pc = "done", !.result = "blocked"]
                                 \/ row = [job[k] EXCEPT !.pc = "done", !.result = "queued"]
    BY <1>2, <1>0 DEF Claim, Goto
  <2>2. job[k].attempt = 0 /\ \A n \in Attempt : n \in Nat /\ n > 0
    BY <1>2, LoopAssumption DEF Claim, JobOK, Attempt
  <2>3. /\ job'[k].attempt = 0 /\ job'[k].reworks = 0 /\ job'[k].pc \in {"enter", "done"}
        /\ job'[k].result = "queued" => job'[k].pc = "done"
    BY <1>2, <1>0, <2>1, <2>2 DEF Claim, JobOK
  <2>4. \A n \in Attempt : resv[k][n] = "none" BY <1>0, <2>2 DEF JobOK, InOrder
  <2>5. ~AtWork(k)' BY <2>3 DEF AtWork
  <2>6. resv' = resv BY <1>2 DEF Claim
  <2>7. InOrder(k)' BY <2>2, <2>3, <2>4, <2>5, <2>6 DEF InOrder
  <2>8. JobOK(k)' BY <2>3, <2>5, <2>7 DEF JobOK
  <2> QED BY <1>2, <2>1, <2>8, JobStep DEF Claim
<1>3. CASE EnterRunning(k)
  <2> DEFINE row == [job[k] EXCEPT !.pc = "dispatch"]
  <2>1. row \in JobRow /\ job' = [job EXCEPT ![k] = row] BY <1>3, <1>0 DEF EnterRunning, Goto
  <2>2. JobOK(k)' BY <1>3, <1>0, <2>1 DEF EnterRunning, JobOK, InOrder, AtWork
  <2> QED BY <1>3, <2>1, <2>2, JobStep DEF EnterRunning
<1>4. CASE Work(k) \/ Review(k)
  <2>1. PICK pc \in AtWorkPc : job' = [job EXCEPT ![k].pc = pc]
    BY <1>4 DEF Work, Review, Goto
  <2> DEFINE row == [job[k] EXCEPT !.pc = pc]
  <2>2. row \in JobRow /\ job' = [job EXCEPT ![k] = row] BY <2>1, <1>0
  <2>3. AtWork(k) /\ AtWork(k)' BY <1>4, <2>1 DEF Work, Review, AtWork
  <2>4. JobOK(k)' BY <1>4, <1>0, <2>2, <2>3 DEF Work, Review, JobOK, InOrder, AtWork
  <2> QED BY <1>4, <2>2, <2>4, JobStep DEF Work, Review
<1>5. CASE Report(k) \/ AttachAgain(k)
  <2>1. PICK pc \in {"announce", "done"} : job' = [job EXCEPT ![k].pc = pc, ![k].result = Attached(k)]
                                           /\ (pc = "done" <=> job[k].pc = "attach")
    BY <1>5 DEF Report, AttachAgain
  <2>2. Attached(k) \in {job[k].result, "fail"} BY DEF Attached
  <2> DEFINE row == [job[k] EXCEPT !.pc = pc, !.result = Attached(k)]
  <2>3. row \in JobRow /\ job' = [job EXCEPT ![k] = row] BY <2>1, <2>2, <1>0
  <2>4. JobOK(k)' BY <1>5, <1>0, <2>1, <2>2, <2>3 DEF Report, AttachAgain, JobOK, InOrder, AtWork
  <2> QED BY <1>5, <2>3, <2>4, JobStep DEF Report, AttachAgain
<1>6. CASE Announce(k)
  <2> DEFINE row == [job[k] EXCEPT !.pc = "release"]
  <2>1. row \in JobRow /\ job' = [job EXCEPT ![k] = row] BY <1>6, <1>0 DEF Announce, Goto
  <2>2. JobOK(k)' BY <1>6, <1>0, <2>1 DEF Announce, JobOK, InOrder, AtWork
  <2> QED BY <1>6, <2>1, <2>2, JobStep DEF Announce
<1>7. CASE Release(k)
  <2>1. PICK pc \in {"attach", "done"} : job' = [job EXCEPT ![k].pc = pc]
                                         /\ (pc = "attach" => job[k].result # "raised")
    BY <1>7 DEF Release, Goto
  <2> DEFINE row == [job[k] EXCEPT !.pc = pc]
  <2>2. row \in JobRow /\ job' = [job EXCEPT ![k] = row] BY <2>1, <1>0
  <2>3. JobOK(k)' BY <1>7, <1>0, <2>1, <2>2 DEF Release, JobOK, InOrder, AtWork
  <2> QED BY <1>7, <2>2, <2>3, JobStep DEF Release
<1>8. CASE Raise(k)
  <2> DEFINE row == [job[k] EXCEPT !.pc = "release", !.result = "raised"]
  <2>1. row \in JobRow /\ job' = [job EXCEPT ![k] = row] BY <1>8, <1>0 DEF Raise
  <2>2. JobOK(k)' BY <1>8, <1>0, <2>1 DEF Raise, JobOK, InOrder, AtWork
  <2> QED BY <1>8, <2>1, <2>2, JobStep DEF Raise
<1> QED BY <1>1, <1>2, <1>3, <1>4, <1>5, <1>6, <1>7, <1>8

----------------------------------------------------------------------------
(* Dispatch and Reconcile: the account and the reservations move together. *)

LEMMA Sums ==
  ASSUME NEW a \in Amount, NEW b \in Amount
  PROVE  /\ Plus(a, b) \in Amount /\ Minus(a, b) \in Amount
         /\ Plus(a, b).attempts = a.attempts + b.attempts /\ Plus(a, b).reworks = a.reworks + b.reworks
         /\ Plus(a, b).approvals = a.approvals + b.approvals /\ Plus(a, b).wall = a.wall + b.wall
         /\ a.attempts >= b.attempts => Minus(a, b).attempts = a.attempts - b.attempts
         /\ a.reworks >= b.reworks => Minus(a, b).reworks = a.reworks - b.reworks
         /\ a.approvals >= b.approvals => Minus(a, b).approvals = a.approvals - b.approvals
         /\ a.wall >= b.wall => Minus(a, b).wall = a.wall - b.wall
<1> USE DEF Amount
<1>1. DOMAIN a = {"attempts", "reworks", "approvals", "wall"} OBVIOUS
<1>2. Plus(a, b) \in Amount
  <2> DEFINE f1 == a.attempts + b.attempts  f2 == a.reworks + b.reworks
             f3 == a.approvals + b.approvals  f4 == a.wall + b.wall
  <2>1. f1 \in Nat /\ f2 \in Nat /\ f3 \in Nat /\ f4 \in Nat OBVIOUS
  <2>2. Plus(a, b) = [attempts |-> f1, reworks |-> f2, approvals |-> f3, wall |-> f4]
    BY <1>1 DEF Plus
  <2> HIDE DEF f1, f2, f3, f4
  <2> QED BY <2>1, <2>2
<1>3. Minus(a, b) \in Amount
  <2> DEFINE g(x) == IF a[x] > b[x] THEN a[x] - b[x] ELSE 0
             g1 == g("attempts")  g2 == g("reworks")  g3 == g("approvals")  g4 == g("wall")
  <2>1. g1 \in Nat /\ g2 \in Nat /\ g3 \in Nat /\ g4 \in Nat OBVIOUS
  <2>2. Minus(a, b) = [attempts |-> g1, reworks |-> g2, approvals |-> g3, wall |-> g4]
    BY <1>1 DEF Minus
  <2> HIDE DEF g1, g2, g3, g4
  <2> QED BY <2>1, <2>2
<1>4. \A x \in {"attempts", "reworks", "approvals", "wall"} :
        Plus(a, b)[x] = a[x] + b[x] /\ Minus(a, b)[x] = IF a[x] > b[x] THEN a[x] - b[x] ELSE 0
  BY <1>1 DEF Plus, Minus
<1> QED BY <1>2, <1>3, <1>4

LEMMA EstimateIs ==
  ASSUME NEW n \in Attempt, NEW k \in Job
  PROVE  LET e == Estimate(n, k \in NeedReview) IN
         /\ e \in Amount /\ e.attempts = 1 /\ e.wall = 1
         /\ e.reworks = (IF n > 1 THEN 1 ELSE 0)
         /\ e.approvals = (IF k \in NeedReview THEN 1 ELSE 0)
<1> DEFINE r == IF n > 1 THEN 1 ELSE 0  p == IF k \in NeedReview THEN 1 ELSE 0
<1>1. r \in Nat /\ p \in Nat OBVIOUS
<1>2. Estimate(n, k \in NeedReview) = [attempts |-> 1, reworks |-> r, approvals |-> p, wall |-> 1]
  BY DEF Estimate
<1>3. [attempts |-> 1, reworks |-> r, approvals |-> p, wall |-> 1] \in Amount
  <2> HIDE DEF r, p
  <2> QED BY <1>1 DEF Amount
<1> QED BY <1>2, <1>3

\* The sets of reservations of one kind gain or lose the one that is made or reconciled.
LEMMA RunAdded ==
  ASSUME NEW S \in SUBSET (Job \X Attempt), NEW k \in Job, NEW n \in Attempt, <<k, n>> \notin S
  PROVE  LET T == S \cup {<<k, n>>} IN
         /\ Cardinality(T) = Cardinality(S) + 1
         /\ Cardinality(Reworks(T)) = Cardinality(Reworks(S)) + (IF n > 1 THEN 1 ELSE 0)
         /\ Cardinality(Approvals(T)) = Cardinality(Approvals(S)) + (IF k \in NeedReview THEN 1 ELSE 0)
<1> DEFINE T == S \cup {<<k, n>>}
<1>1. IsFiniteSet(S) /\ Reworks(S) \in SUBSET S /\ Approvals(S) \in SUBSET S
  BY RunsFinite DEF Reworks, Approvals
<1>2. IsFiniteSet(Reworks(S)) /\ IsFiniteSet(Approvals(S)) BY <1>1, FS_Subset
<1>3. Reworks(T) = IF n > 1 THEN Reworks(S) \cup {<<k, n>>} ELSE Reworks(S) BY DEF Reworks
<1>4. Approvals(T) = IF k \in NeedReview THEN Approvals(S) \cup {<<k, n>>} ELSE Approvals(S)
  BY DEF Approvals
<1>5. Cardinality(T) = Cardinality(S) + 1 BY <1>1, FS_AddElement
<1>6. Cardinality(Reworks(S) \cup {<<k, n>>}) = Cardinality(Reworks(S)) + 1
  BY <1>1, <1>2, FS_AddElement
<1>7. Cardinality(Approvals(S) \cup {<<k, n>>}) = Cardinality(Approvals(S)) + 1
  BY <1>1, <1>2, FS_AddElement
<1>8. Cardinality(Reworks(S)) \in Nat /\ Cardinality(Approvals(S)) \in Nat
  BY <1>2, FS_CardinalityType
<1> HIDE DEF T
<1>9. Cardinality(Reworks(T)) = Cardinality(Reworks(S)) + (IF n > 1 THEN 1 ELSE 0) BY <1>3, <1>6, <1>8
<1>10. Cardinality(Approvals(T)) = Cardinality(Approvals(S)) + (IF k \in NeedReview THEN 1 ELSE 0)
  BY <1>4, <1>7, <1>8
<1> QED BY <1>5, <1>9, <1>10 DEF T

LEMMA DispatchStep ==
  ASSUME LoopInv, NEW k \in Job, Dispatch(k)
  PROVE  LoopInv'
<1> USE DEF LoopInv, Types
<1> DEFINE n == job[k].attempt + 1  cost == Estimate(n, k \in NeedReview)
<1>0. JobOK(k) /\ job[k] \in JobRow /\ job[k].pc = "dispatch" BY DEF Dispatch
<1>1. n \in Attempt /\ job[k].attempt = job[k].reworks
  BY <1>0, LoopAssumption DEF JobOK, JobRow, Attempt
<1>2. CASE ~CanReserve(account, cost)
  <2> DEFINE row == [job[k] EXCEPT !.pc = "report", !.result = "fail"]
  <2>1. row \in JobRow /\ job' = [job EXCEPT ![k] = row]
    BY <1>0, <1>2 DEF Dispatch, Refused, End, JobRow, JobPc
  <2>2. JobOK(k)' BY <1>0, <1>2, <2>1 DEF Dispatch, JobOK, JobRow, InOrder, AtWork
  <2> QED BY <1>0, <1>2, <2>1, <2>2, JobStep DEF Dispatch
<1>3. CASE CanReserve(account, cost)
  <2> DEFINE row == [job[k] EXCEPT !.pc = "work", !.attempt = n]
  <2>1. /\ account' = [account EXCEPT !.held = Plus(account.held, cost)]
        /\ resv' = [resv EXCEPT ![k][n] = "held"]
        /\ job' = [job EXCEPT ![k] = row]
        /\ UNCHANGED <<slot, sched, faults>>
    BY <1>0, <1>3 DEF Dispatch
  <2>2. row \in JobRow
    <3>1. n \in 0..(MaxReworks + 1) BY <1>1, LoopAssumption DEF Attempt
    <3> HIDE DEF n
    <3> QED BY <3>1, <1>0 DEF JobRow, JobPc, AtWorkPc
  <2>3. /\ cost \in Amount /\ cost.attempts = 1 /\ cost.wall = 1
        /\ cost.reworks = (IF n > 1 THEN 1 ELSE 0) /\ cost.approvals = (IF k \in NeedReview THEN 1 ELSE 0)
    BY <1>1, EstimateIs
  <2> HIDE DEF cost
  <2>4. account.held \in Amount /\ account.used \in Amount BY DEF Ledger
  <2>5. account'.used = account.used /\ account'.held = Plus(account.held, cost) BY <2>1 DEF Ledger
  <2>6. account' \in Ledger BY <2>1, <2>3, <2>4, Sums DEF Ledger
  <2>7. resv[k][n] = "none" /\ resv[k] \in [Attempt -> {"none", "held", "reconciled"}]
    BY <1>0, <1>1 DEF JobOK, InOrder, JobRow
  <2>8. Types'
    <3>1. job' \in [Job -> JobRow] BY <2>1, <2>2
    <3>2. resv' \in [Job -> [Attempt -> {"none", "held", "reconciled"}]] BY <2>1, <1>1
    <3> QED BY <2>1, <2>6, <3>1, <3>2
  <2>9. \A i \in Job \ {k} : job'[i] = job[i] /\ resv'[i] = resv[i] BY <2>1
  <2>10. /\ job'[k].pc = "work" /\ job'[k].attempt = n /\ job'[k].reworks = job[k].reworks
         /\ job'[k].result = job[k].result
         /\ \A m \in Attempt : resv'[k][m] = IF m = n THEN "held" ELSE resv[k][m]
    BY <2>1, <2>7, <1>0, <1>1 DEF JobRow
  <2>11. JobOK(k)'
    <3>1. AtWork(k)' BY <2>10 DEF AtWork
    <3>2. \A m \in Attempt : m < n => resv[k][m] = "reconciled"
      <4>1. \A m \in Attempt : resv[k][m] # "held" BY <1>0 DEF JobOK, InOrder, AtWork
      <4>2. \A m \in Attempt : m <= job[k].attempt => resv[k][m] \in {"reconciled", "held"}
        BY <1>0, <2>7, LoopAssumption DEF JobOK, InOrder, JobRow, Attempt
      <4> QED BY <4>1, <4>2, <1>0, LoopAssumption DEF JobRow, Attempt
    <3>3. \A m \in Attempt : m > n => resv[k][m] = "none"
      BY <1>0, LoopAssumption DEF JobOK, InOrder, JobRow, Attempt
    <3>4. InOrder(k)' BY <2>10, <3>1, <3>2, <3>3, <1>1 DEF InOrder
    <3>5. job[k].result # "queued" BY <1>0 DEF JobOK
    <3> QED BY <2>10, <3>1, <3>4, <3>5, <1>1 DEF JobOK
  <2>12. \A i \in Job : JobOK(i)' BY <2>9, <2>11, <2>1, JobBeside
  <2>13. SchedOK' BY <2>9, <2>1, <1>0, SchedBeside
  <2>14. HeldRuns' = HeldRuns \cup {<<k, n>>} /\ DoneRuns' = DoneRuns /\ <<k, n>> \notin HeldRuns
    BY <2>7, <2>9, <2>10, <1>1 DEF HeldRuns, DoneRuns, Runs
  <2>15. Counts'
    <3> DEFINE S == HeldRuns
    <3>0. S \in SUBSET (Job \X Attempt) /\ <<k, n>> \notin S BY <2>14 DEF HeldRuns, Runs
    <3> HIDE DEF S
    <3>6. LET T == S \cup {<<k, n>>} IN
          /\ Cardinality(T) = Cardinality(S) + 1
          /\ Cardinality(Reworks(T)) = Cardinality(Reworks(S)) + (IF n > 1 THEN 1 ELSE 0)
          /\ Cardinality(Approvals(T)) = Cardinality(Approvals(S)) + (IF k \in NeedReview THEN 1 ELSE 0)
      BY <3>0, <1>1, RunAdded
    <3>2. /\ Cardinality(HeldRuns') = Cardinality(HeldRuns) + 1
          /\ Cardinality(Reworks(HeldRuns')) = Cardinality(Reworks(HeldRuns)) + cost.reworks
          /\ Cardinality(Approvals(HeldRuns')) = Cardinality(Approvals(HeldRuns)) + cost.approvals
      BY <2>14, <2>3, <3>6 DEF S
    <3>3. /\ account'.held.attempts = account.held.attempts + 1
          /\ account'.held.reworks = account.held.reworks + cost.reworks
          /\ account'.held.approvals = account.held.approvals + cost.approvals
          /\ account'.held.wall = account.held.wall + 1
      BY <2>3, <2>4, <2>5, Sums
    <3>4. Reworks(DoneRuns)' = Reworks(DoneRuns) BY <2>14 DEF Reworks
    <3>5. Reworks(HeldRuns)' = Reworks(HeldRuns') /\ Approvals(HeldRuns)' = Approvals(HeldRuns')
      BY DEF Reworks, Approvals
    <3> QED BY <2>5, <2>14, <3>2, <3>3, <3>4, <3>5 DEF Counts
  <2>16. WithinLimits'
    <3>1. Committed(account) \in Amount /\ Committed(account') \in Amount
      BY <2>3, <2>4, <2>5, Sums DEF Committed
    <3>2. ~Exceeds(Plus(Committed(account), cost)) BY <1>3 DEF CanReserve
    <3>3. Plus(Committed(account), cost) \in Amount BY <2>3, <3>1, Sums
    <3>4. \A x \in {"attempts", "reworks", "approvals"} : Plus(Committed(account), cost)[x] <= Limits[x]
      BY <3>2, <3>3, LoopAssumption DEF Exceeds, Amount
    <3>5. \A x \in {"attempts", "reworks", "approvals"} :
            Committed(account')[x] = Plus(Committed(account), cost)[x]
      BY <2>3, <2>4, <2>5, <3>1, Sums DEF Committed, Amount
    <3> QED BY <3>4, <3>5 DEF WithinLimits
  <2> QED BY <2>8, <2>12, <2>13, <2>15, <2>16
<1> QED BY <1>2, <1>3

\* What an attempt has used is within what it held: Minus never cuts off at zero.
LEMMA ReconcileStep ==
  ASSUME LoopInv, NEW k \in Job, NEW wall \in 0..MaxWall, Reconcile(k, wall)
  PROVE  LoopInv'
<1> USE DEF LoopInv, Types
<1> DEFINE n == job[k].attempt  cost == Estimate(n, k \in NeedReview)
           approvals == IF k \in NeedReview /\ job[k].pc # "failed" THEN 1 ELSE 0
           reworks == IF n > 1 THEN 1 ELSE 0
           actual == [attempts |-> 1, reworks |-> reworks, wall |-> wall, approvals |-> approvals]
<1>0. JobOK(k) /\ job[k] \in JobRow /\ AtWork(k) BY DEF Reconcile, AtWork
<1>1. n \in Attempt /\ n = job[k].reworks + 1 /\ resv[k][n] = "held"
  BY <1>0, LoopAssumption DEF JobOK, InOrder, JobRow, Attempt
<1>2. /\ account' = Charge(k, actual) /\ resv' = [resv EXCEPT ![k][n] = "reconciled"]
      /\ UNCHANGED <<slot, sched, faults>>
  BY DEF Reconcile
<1>3. PICK row \in JobRow : /\ job' = [job EXCEPT ![k] = row] /\ row.attempt = n
                            /\ \/ row.pc = "report" /\ row.result \in {"ok", "fail"}
                                  /\ row.reworks = job[k].reworks
                               \/ row.pc = "dispatch" /\ row.result = job[k].result
                                  /\ row.reworks = job[k].reworks + 1
  <2>1. CASE \E result \in {"ok", "fail"} : End(k, result)
    <3>1. PICK result \in {"ok", "fail"} : End(k, result) BY <2>1
    <3> DEFINE row == [job[k] EXCEPT !.pc = "report", !.result = result]
    <3>2. row \in JobRow /\ job' = [job EXCEPT ![k] = row] BY <1>0, <3>1 DEF End, JobRow, JobPc
    <3>3. row.pc = "report" /\ row.result \in {"ok", "fail"} /\ row.reworks = job[k].reworks /\ row.attempt = n
      BY <1>0 DEF JobRow
    <3> QED BY <3>2, <3>3
  <2>2. CASE MayRework(k) /\ job' = [job EXCEPT ![k].pc = "dispatch", ![k].reworks = @ + 1]
    <3> DEFINE r == job[k].reworks + 1  row == [job[k] EXCEPT !.pc = "dispatch", !.reworks = r]
    <3>1. r \in 0..MaxReworks BY <1>0, <2>2, LoopAssumption DEF MayRework, JobRow
    <3>2. job' = [job EXCEPT ![k] = row] BY <2>2
    <3> HIDE DEF r
    <3>3. row \in JobRow BY <1>0, <3>1 DEF JobRow, JobPc
    <3>4. row.pc = "dispatch" /\ row.result = job[k].result /\ row.reworks = r /\ row.attempt = n
      BY <1>0 DEF JobRow
    <3> QED BY <3>2, <3>3, <3>4 DEF r
  <2> QED BY <2>1, <2>2 DEF Reconcile
<1>4. /\ cost \in Amount /\ cost.attempts = 1 /\ cost.wall = 1
      /\ cost.reworks = reworks /\ cost.approvals = (IF k \in NeedReview THEN 1 ELSE 0)
  BY <1>1, EstimateIs
<1>5. approvals \in Nat /\ reworks \in Nat /\ wall \in Nat /\ approvals <= cost.approvals
  BY <1>4, LoopAssumption
<1>6. actual \in Amount /\ actual.attempts = 1 /\ actual.reworks = reworks /\ actual.approvals = approvals
  <2> HIDE DEF approvals, reworks
  <2> QED BY <1>5 DEF Amount
<1>7. account.held \in Amount /\ account.used \in Amount BY DEF Ledger
<1>8. account'.used = Plus(account.used, actual) /\ account'.held = Minus(account.held, cost)
  BY <1>2 DEF Charge
<1>9. account' \in Ledger
  <2> HIDE DEF actual, cost
  <2>1. Plus(account.used, actual) \in Amount /\ Minus(account.held, cost) \in Amount
    BY <1>4, <1>6, <1>7, Sums
  <2>2. account' = [used |-> Plus(account.used, actual), held |-> Minus(account.held, cost)]
    BY <1>2 DEF Charge, actual, cost
  <2> QED BY <2>1, <2>2 DEF Ledger
<1> HIDE DEF actual, cost
<1>10. resv[k] \in [Attempt -> {"none", "held", "reconciled"}] OBVIOUS
<1>11. Types'
  <2>1. job' \in [Job -> JobRow] BY <1>3
  <2>2. resv' \in [Job -> [Attempt -> {"none", "held", "reconciled"}]] BY <1>2, <1>1
  <2> QED BY <1>2, <1>9, <2>1, <2>2
<1>12. \A i \in Job \ {k} : job'[i] = job[i] /\ resv'[i] = resv[i] BY <1>2, <1>3
<1>13. job'[k] = row /\ \A m \in Attempt : resv'[k][m] = IF m = n THEN "reconciled" ELSE resv[k][m]
  BY <1>2, <1>3, <1>10
<1>14. JobOK(k)'
  <2>1. ~AtWork(k)' BY <1>3, <1>13 DEF AtWork
  <2>2. \A m \in Attempt : (m < n => resv[k][m] = "reconciled") /\ (m > n => resv[k][m] = "none")
    BY <1>0 DEF JobOK, InOrder
  <2>3. \A m \in Attempt : m < n \/ m = n \/ m > n BY <1>1, LoopAssumption DEF Attempt
  <2>4. InOrder(k)' BY <1>3, <1>13, <2>1, <2>2, <2>3 DEF InOrder
  <2>5. job[k].result # "queued" BY <1>0 DEF JobOK, AtWork
  <2> QED BY <1>1, <1>3, <1>13, <2>1, <2>4, <2>5 DEF JobOK
<1>15. \A i \in Job : JobOK(i)' BY <1>12, <1>14, <1>2, JobBeside
<1>16. SchedOK' BY <1>12, <1>2, <1>0, SchedBeside DEF AtWork
<1> DEFINE S == HeldRuns'  D == DoneRuns
<1>17. /\ HeldRuns = S \cup {<<k, n>>} /\ <<k, n>> \notin S /\ S \in SUBSET (Job \X Attempt)
       /\ DoneRuns' = D \cup {<<k, n>>} /\ <<k, n>> \notin D /\ D \in SUBSET (Job \X Attempt)
  BY <1>1, <1>12, <1>13 DEF HeldRuns, DoneRuns, Runs
<1>18. /\ Reworks(HeldRuns)' = Reworks(S) /\ Reworks(DoneRuns)' = Reworks(DoneRuns')
       /\ Approvals(HeldRuns)' = Approvals(S)
  BY DEF Reworks, Approvals
<1>19. /\ Cardinality(S) \in Nat /\ Cardinality(Reworks(S)) \in Nat /\ Cardinality(Approvals(S)) \in Nat
       /\ Cardinality(D) \in Nat /\ Cardinality(Reworks(D)) \in Nat
  <2>1. /\ Reworks(S) \in SUBSET (Job \X Attempt) /\ Approvals(S) \in SUBSET (Job \X Attempt)
        /\ Reworks(D) \in SUBSET (Job \X Attempt)
    BY <1>17 DEF Reworks, Approvals
  <2> HIDE DEF S, D
  <2> QED BY <1>17, <2>1, RunsFinite
<1> HIDE DEF S, D
<1>20. /\ Cardinality(HeldRuns) = Cardinality(S) + 1
       /\ Cardinality(Reworks(HeldRuns)) = Cardinality(Reworks(S)) + reworks
       /\ Cardinality(Approvals(HeldRuns)) = Cardinality(Approvals(S)) + cost.approvals
  <2>1. LET T == S \cup {<<k, n>>} IN
        /\ Cardinality(T) = Cardinality(S) + 1
        /\ Cardinality(Reworks(T)) = Cardinality(Reworks(S)) + (IF n > 1 THEN 1 ELSE 0)
        /\ Cardinality(Approvals(T)) = Cardinality(Approvals(S)) + (IF k \in NeedReview THEN 1 ELSE 0)
    <3> HIDE DEF LoopInv, Types, reworks, approvals, n
    <3>1. S \in SUBSET (Job \X Attempt) /\ n \in Attempt /\ <<k, n>> \notin S BY <1>1, <1>17
    <3> QED BY <3>1, RunAdded
  <2> QED BY <1>4, <1>17, <2>1
<1>21. /\ Cardinality(DoneRuns') = Cardinality(D) + 1
       /\ Cardinality(Reworks(DoneRuns')) = Cardinality(Reworks(D)) + reworks
  <2>1. LET T == D \cup {<<k, n>>} IN
        /\ Cardinality(T) = Cardinality(D) + 1
        /\ Cardinality(Reworks(T)) = Cardinality(Reworks(D)) + (IF n > 1 THEN 1 ELSE 0)
    <3> HIDE DEF LoopInv, Types, reworks, approvals, n
    <3>1. D \in SUBSET (Job \X Attempt) /\ n \in Attempt /\ <<k, n>> \notin D BY <1>1, <1>17
    <3> QED BY <3>1, RunAdded
  <2> QED BY <1>17, <2>1
<1>22. /\ account.held.attempts >= 1 /\ account.held.wall >= 1 /\ account.held.reworks >= reworks
       /\ account.held.approvals >= cost.approvals
  BY <1>4, <1>5, <1>19, <1>20 DEF Counts
<1>23. Counts'
  <2>1. /\ account'.held.attempts = account.held.attempts - 1
        /\ account'.held.wall = account.held.wall - 1
        /\ account'.held.reworks = account.held.reworks - reworks
        /\ account'.held.approvals = account.held.approvals - cost.approvals
    BY <1>4, <1>7, <1>8, <1>22, Sums
  <2>2. /\ account'.used.attempts = account.used.attempts + 1
        /\ account'.used.reworks = account.used.reworks + reworks
    BY <1>6, <1>7, <1>8, Sums
  <2>3. HeldRuns' = S /\ DoneRuns = D BY DEF S, D
  <2>4. cost.approvals \in Nat BY <1>4 DEF Amount
  <2> QED BY <1>5, <1>18, <1>19, <1>20, <1>21, <2>1, <2>2, <2>3, <2>4 DEF Counts
<1>24. WithinLimits'
  <2>1. /\ Committed(account).attempts = account.used.attempts + account.held.attempts
        /\ Committed(account).reworks = account.used.reworks + account.held.reworks
        /\ Committed(account).approvals = account.used.approvals + account.held.approvals
    BY <1>7, Sums DEF Committed
  <2>2. account'.used \in Amount /\ account'.held \in Amount BY <1>9 DEF Ledger
  <2>3. /\ Committed(account').attempts = account'.used.attempts + account'.held.attempts
        /\ Committed(account').reworks = account'.used.reworks + account'.held.reworks
        /\ Committed(account').approvals = account'.used.approvals + account'.held.approvals
    BY <2>2, Sums DEF Committed
  <2>4. /\ account'.used.attempts + account'.held.attempts = account.used.attempts + account.held.attempts
        /\ account'.used.reworks + account'.held.reworks = account.used.reworks + account.held.reworks
        /\ account'.used.approvals + account'.held.approvals <= account.used.approvals + account.held.approvals
    <3>1. /\ account'.used.attempts = account.used.attempts + 1
          /\ account'.held.attempts = account.held.attempts - 1
          /\ account'.used.reworks = account.used.reworks + reworks
          /\ account'.held.reworks = account.held.reworks - reworks
          /\ account'.used.approvals = account.used.approvals + approvals
          /\ account'.held.approvals = account.held.approvals - cost.approvals
      BY <1>4, <1>6, <1>7, <1>8, <1>22, Sums
    <3>2. cost.approvals \in Nat BY <1>4 DEF Amount
    <3> HIDE DEF reworks, approvals
    <3>3. account.used.approvals \in Nat /\ account.held.approvals \in Nat BY <1>7 DEF Amount
    <3>4. /\ account.used.attempts \in Nat /\ account.held.attempts \in Nat
          /\ account.used.reworks \in Nat /\ account.held.reworks \in Nat
      BY <1>7 DEF Amount
    <3>5. account'.used.attempts + account'.held.attempts = account.used.attempts + account.held.attempts
      BY <3>1, <3>4
    <3>6. account'.used.reworks + account'.held.reworks = account.used.reworks + account.held.reworks
      BY <1>5, <3>1, <3>4
    <3>7. account'.used.approvals + account'.held.approvals
            <= account.used.approvals + account.held.approvals
      BY <1>5, <3>1, <3>2, <3>3
    <3> QED BY <3>5, <3>6, <3>7
  <2>5. Limits.attempts \in Nat /\ Limits.reworks \in Nat /\ Limits.approvals \in Nat BY LoopAssumption
  <2>6. /\ Committed(account).attempts <= Limits.attempts /\ Committed(account).reworks <= Limits.reworks
        /\ Committed(account).approvals <= Limits.approvals
    BY DEF WithinLimits
  <2>7. /\ Committed(account').attempts <= Limits.attempts /\ Committed(account').reworks <= Limits.reworks
        /\ Committed(account').approvals <= Limits.approvals
    BY <1>7, <2>1, <2>2, <2>3, <2>4, <2>5, <2>6 DEF Amount
  <2> QED BY <2>7 DEF WithinLimits
<1> QED BY <1>11, <1>15, <1>16, <1>23, <1>24

----------------------------------------------------------------------------
(* The scheduler, the deadline and the crashes.                            *)

\* The next tick, or the end, of a loop whose started jobs have been read.
LEMMA NextTickStep ==
  ASSUME Types, SchedOK, NEW idle, NextTick(idle), UNCHANGED <<slot, job>>
  PROVE  /\ sched' \in [pc : {"gate", "run", "joined", "done"}, at : Nat, tick : Nat,
                         started : SUBSET Slot, failed : BOOLEAN]
         /\ SchedOK'
<1> DEFINE t == sched.tick + 1
<1>1. t \in Nat BY DEF Types
<1> DEFINE one == 1  begun == [pc |-> "gate", at |-> one, tick |-> t, started |-> {}, failed |-> FALSE]
<1>2. sched' \in {[sched EXCEPT !.pc = "done", !.started = {}], begun} BY DEF NextTick
<1>3. /\ sched' \in [pc : {"gate", "run", "joined", "done"}, at : Nat, tick : Nat,
                      started : SUBSET Slot, failed : BOOLEAN]
      /\ sched'.started = {}
  <2>1. one \in Nat OBVIOUS
  <2> HIDE DEF t, one
  <2>2. CASE sched' = begun BY <1>1, <2>1, <2>2
  <2>3. CASE sched' = [sched EXCEPT !.pc = "done", !.started = {}] BY <2>3 DEF Types
  <2> QED BY <1>2, <2>2, <2>3
<1>4. ConsumerFollowsProducer' BY DEF SchedOK, ConsumerFollowsProducer
<1> QED BY <1>3, <1>4 DEF SchedOK

LEMMA GateStep ==
  ASSUME LoopInv, Gate
  PROVE  LoopInv'
<1> USE DEF LoopInv, Types
<1> DEFINE j == Slots[sched.at]  at == sched.at + 1
<1>0. j \in Slot /\ at \in Nat /\ Slot \subseteq Job BY LoopAssumption DEF Gate, Slot
<1>1. UNCHANGED <<account, resv, job, faults>> BY DEF Gate
<1>2. \A i \in Job : JobOK(i)' BY <1>1, JobBeside
<1>3. Counts' /\ WithinLimits' BY <1>1, CountsBeside
<1>4. sched.pc = "gate" BY DEF Gate
<1>5. \A i \in Slot : DependsOn[i] \subseteq Slot BY LoopAssumption
<1> HIDE DEF at
<1>6. CASE UNCHANGED slot /\ sched' = [sched EXCEPT !.at = at]
  <2>1. sched'.started = sched.started /\ sched'.pc = "gate" BY <1>4, <1>6
  <2>2. Types' BY <1>0, <1>1, <1>6
  <2>3. SchedOK' BY <1>1, <1>4, <1>6, <2>1 DEF SchedOK, ConsumerFollowsProducer
  <2> QED BY <1>2, <1>3, <2>2, <2>3
<1>7. CASE /\ slot[j] = "queued" /\ slot' = [slot EXCEPT ![j] = "failed"]
           /\ sched' = [sched EXCEPT !.at = at, !.failed = TRUE]
  <2>1. sched'.started = sched.started /\ sched'.pc = "gate" BY <1>4, <1>7
  <2>2. Types' BY <1>0, <1>1, <1>7
  <2>3. \A i \in Slot : slot'[i] = IF i = j THEN "failed" ELSE slot[i] BY <1>0, <1>7
  <2>4. ConsumerFollowsProducer' BY <1>1, <1>5, <1>7, <2>3 DEF SchedOK, ConsumerFollowsProducer
  <2>5. SchedOK' BY <1>1, <1>4, <1>7, <2>1, <2>3, <2>4 DEF SchedOK
  <2> QED BY <1>2, <1>3, <2>2, <2>5
<1>8. CASE /\ slot[j] = "queued" /\ Unsatisfied(j) = {} /\ slot' = [slot EXCEPT ![j] = "running"]
           /\ sched' = [sched EXCEPT !.at = at, !.started = sched.started \cup {j}]
  <2> DEFINE started == sched.started \cup {j}
  <2>0. started \in SUBSET Slot BY <1>0
  <2> HIDE DEF started
  <2>1. sched'.started = started /\ sched'.pc = "gate" BY <1>4, <1>8 DEF started
  <2>2. Types' BY <1>0, <1>1, <1>8, <2>0 DEF started
  <2>3. \A i \in Slot : slot'[i] = IF i = j THEN "running" ELSE slot[i] BY <1>0, <1>8
  <2>4. \A p \in DependsOn[j] : slot[p] = "succeeded" BY <1>8 DEF Unsatisfied, Completed
  <2>5. ConsumerFollowsProducer'
    BY <1>0, <1>1, <1>5, <1>8, <2>3, <2>4 DEF SchedOK, ConsumerFollowsProducer
  <2>6. SchedOK' BY <1>0, <1>1, <1>4, <1>8, <2>1, <2>3, <2>5 DEF SchedOK, started
  <2> QED BY <1>2, <1>3, <2>2, <2>6
<1> QED BY <1>6, <1>7, <1>8 DEF Gate, Passed, at

\* The started jobs were at rest with nothing reserved; their rows begin anew.
LEMMA RunStartedStep ==
  ASSUME LoopInv, RunStarted
  PROVE  LoopInv'
<1> USE DEF LoopInv, Types
<1>1. UNCHANGED <<account, resv, slot, faults>> /\ sched.pc = "gate" BY DEF RunStarted
<1>2. Counts' /\ WithinLimits' BY <1>1, CountsBeside
<1>3. CASE sched.started = {}
  <2>1. NextTick(~sched.failed) /\ UNCHANGED job BY <1>3 DEF RunStarted
  <2>2. SchedOK' /\ Types' BY <1>1, <2>1, NextTickStep
  <2>3. \A i \in Job : JobOK(i)' BY <1>1, <2>1, JobBeside
  <2> QED BY <1>2, <2>2, <2>3
<1>4. CASE sched.started # {}
  <2>1. sched' = [sched EXCEPT !.pc = "run"] BY <1>4 DEF RunStarted
  <2>2. job' = [j \in Job |-> IF j \in sched.started
                              THEN [job[j] EXCEPT !.pc = "claim", !.attempt = 0, !.reworks = 0, !.result = "none"]
                              ELSE job[j]]
    BY <1>4 DEF RunStarted
  <2>3. 0 \in 0..(MaxReworks + 1) /\ 0 \in 0..MaxReworks BY LoopAssumption
  <2>4. job' \in [Job -> JobRow]
    <3> SUFFICES ASSUME NEW i \in Job PROVE job'[i] \in JobRow BY <2>2
    <3> QED BY <2>2, <2>3 DEF JobRow, JobPc
  <2>5. \A i \in sched.started : i \in Job /\ job[i].attempt = 0
    BY <1>1, LoopAssumption DEF SchedOK
  <2>6. ASSUME NEW i \in sched.started PROVE JobOK(i)'
    <3>1. job'[i].pc = "claim" /\ job'[i].attempt = 0 /\ job'[i].reworks = 0 /\ job'[i].result = "none"
      BY <2>2, <2>5 DEF JobRow
    <3>2. \A m \in Attempt : m \in Nat /\ m > 0 BY LoopAssumption DEF Attempt
    <3>3. \A m \in Attempt : resv[i][m] = "none" BY <2>5, <3>2 DEF JobOK, InOrder
    <3>4. ~AtWork(i)' BY <3>1 DEF AtWork
    <3>5. InOrder(i)' BY <1>1, <3>1, <3>2, <3>3, <3>4 DEF InOrder
    <3> QED BY <3>1, <3>4, <3>5 DEF JobOK
  <2>7. \A i \in Job \ sched.started : job'[i] = job[i] BY <2>2
  <2>8. \A i \in Job : JobOK(i)' BY <1>1, <2>6, <2>7, JobBeside
  <2>9. sched'.started = sched.started /\ sched'.pc = "run" BY <2>1
  <2>10. \A i \in sched.started : slot[i] = "running" BY <1>1 DEF SchedOK
  <2>11. \A i \in Slot : i \in Job /\ DependsOn[i] \subseteq Slot BY LoopAssumption
  <2>12. \A i \in Slot : slot[i] \in {"queued", "succeeded"} => job'[i] = job[i] BY <2>7, <2>10, <2>11
  <2>13. ConsumerFollowsProducer' BY <1>1, <2>11, <2>12 DEF SchedOK, ConsumerFollowsProducer
  <2>14. SchedOK' BY <1>1, <2>9, <2>10, <2>12, <2>13 DEF SchedOK
  <2>15. Types' BY <1>1, <2>1, <2>4
  <2> QED BY <1>2, <2>8, <2>14, <2>15
<1> QED BY <1>3, <1>4

LEMMA JoinStep ==
  ASSUME LoopInv, Read \/ Join
  PROVE  LoopInv'
<1> USE DEF LoopInv, Types
<1>1. UNCHANGED <<account, resv, job, faults>> BY DEF Read, Join
<1>2. Counts' /\ WithinLimits' BY <1>1, CountsBeside
<1>3. \A i \in Job : JobOK(i)' BY <1>1, JobBeside
<1>4. CASE Join
  <2>1. SchedOK' /\ Types' BY <1>1, <1>4, NextTickStep DEF Join
  <2> QED BY <1>2, <1>3, <2>1
<1>5. CASE Read
  <2>1. sched' = [sched EXCEPT !.pc = "joined"] /\ sched'.pc = "joined" BY <1>5 DEF Read
  <2>2. \A i \in sched.started : slot[i] = "running" /\ job[i].pc = "done" BY <1>5 DEF Read, SchedOK
  <2>3. \A i \in Slot : \/ slot'[i] = slot[i] /\ i \notin sched.started
                        \/ i \in sched.started /\ slot'[i] = "succeeded" /\ job[i].result = "ok"
                        \/ i \in sched.started /\ slot'[i] = "queued" /\ job[i].result = "queued"
                        \/ i \in sched.started /\ slot'[i] = "failed"
    BY <1>5 DEF Read
  <2>4. slot' \in [Slot -> {"queued", "running", "succeeded", "failed"}]
    <3>1. slot' = [i \in Slot |-> slot'[i]] BY <1>5 DEF Read
    <3> QED BY <2>3, <3>1
  <2>5. Slot \subseteq Job /\ \A i \in Slot : DependsOn[i] \subseteq Slot BY LoopAssumption
  <2>6. \A i \in Slot : slot[i] = "succeeded" => slot'[i] = "succeeded" BY <2>2, <2>3
  <2>7. \A i \in Slot : slot'[i] \in {"running", "succeeded"} => slot[i] \in {"running", "succeeded"}
    BY <2>2, <2>3
  <2>8. ConsumerFollowsProducer' BY <1>1, <2>5, <2>6, <2>7 DEF SchedOK, ConsumerFollowsProducer
  <2>9. \A i \in Slot : job[i].result = "queued" => job[i].attempt = 0 BY <2>5 DEF JobOK
  <2>10. SchedOK' BY <1>1, <2>1, <2>2, <2>3, <2>5, <2>8, <2>9 DEF SchedOK
  <2>11. Types' BY <1>1, <2>1, <2>4
  <2> QED BY <1>2, <1>3, <2>10, <2>11
<1> QED BY <1>4, <1>5

\* A crash ends the jobs of one process where they stand; the account keeps what they held.
LEMMA CrashStep ==
  ASSUME LoopInv, NEW dead \in SUBSET Job, Crash(dead), dead = Slot \/ dead \cap Slot = {}
  PROVE  LoopInv'
<1> USE DEF LoopInv, Types
<1>1. UNCHANGED <<account, resv, slot>> /\ faults' = faults + 1 BY DEF Crash
<1>2. Counts' /\ WithinLimits' BY <1>1, CountsBeside
<1>3. \A i \in Job : job'[i] = IF i \in dead THEN [job[i] EXCEPT !.pc = "done"] ELSE job[i]
  BY DEF Crash
<1>4. job' \in [Job -> JobRow]
  <2>1. job' = [i \in Job |-> job'[i]] BY DEF Crash
  <2>2. ASSUME NEW i \in dead PROVE job'[i] \in JobRow
    <3> DEFINE row == [job[i] EXCEPT !.pc = "done"]
    <3>1. job[i] \in JobRow /\ job'[i] = row BY <1>3
    <3> QED BY <3>1 DEF JobRow, JobPc
  <2>3. \A i \in Job : job'[i] \in JobRow BY <1>3, <2>2
  <2> QED BY <2>1, <2>3
<1>5. sched' \in {sched, [sched EXCEPT !.pc = "done"]} /\ (dead = Slot => sched'.pc = "done")
  BY DEF Crash
<1>6. Types' BY <1>1, <1>4, <1>5
<1>7. ASSUME NEW i \in dead PROVE JobOK(i)'
  <2>1. /\ job'[i].pc = "done" /\ job'[i].attempt = job[i].attempt /\ job'[i].reworks = job[i].reworks
        /\ job'[i].result = job[i].result /\ JobOK(i)
    BY <1>3 DEF JobRow
  <2>2. ~AtWork(i)' BY <2>1 DEF AtWork
  <2>3. faults' > 0 BY <1>1
  <2>4. InOrder(i)' BY <1>1, <2>1, <2>2, <2>3 DEF InOrder, JobOK
  <2> QED BY <2>1, <2>2, <2>4 DEF JobOK
<1>8. \A i \in Job : JobOK(i)' BY <1>1, <1>3, <1>7, JobBeside
<1>9. Slot \subseteq Job /\ \A i \in Slot : DependsOn[i] \subseteq Slot BY LoopAssumption
<1>10. \A i \in Job : /\ job'[i].attempt = job[i].attempt /\ job'[i].result = job[i].result
                      /\ job[i].pc \in {"idle", "done"} => job'[i].pc \in {"idle", "done"}
                      /\ job[i].pc = "done" => job'[i].pc = "done"
  BY <1>3 DEF JobRow
<1>11. ConsumerFollowsProducer' BY <1>1, <1>9, <1>10 DEF SchedOK, ConsumerFollowsProducer
<1>12. sched'.started = sched.started /\ (sched'.pc \in {"gate", "run"} => sched'.pc = sched.pc)
  BY <1>5
<1>13. SchedOK' BY <1>1, <1>9, <1>10, <1>11, <1>12 DEF SchedOK
<1> QED BY <1>2, <1>6, <1>8, <1>13

----------------------------------------------------------------------------
(* The theorems.                                                           *)

LEMMA LoopInit == Init => LoopInv
<1> SUFFICES ASSUME Init PROVE LoopInv OBVIOUS
<1> USE DEF Init
<1>1. Types
  <2>1. None \in Amount
    <3> DEFINE z == 0
    <3>1. z \in Nat /\ None = [attempts |-> z, reworks |-> z, approvals |-> z, wall |-> z] BY DEF None
    <3> HIDE DEF z
    <3> QED BY <3>1 DEF Amount
  <2>2. account \in Ledger BY <2>1 DEF Ledger
  <2>3. job \in [Job -> JobRow]
    <3> DEFINE a == 0  r == 0
    <3>1. a \in 0..(MaxReworks + 1) /\ r \in 0..MaxReworks BY LoopAssumption
    <3>2. job = [j \in Job |-> [pc |-> "idle", attempt |-> a, reworks |-> r, result |-> "none"]] OBVIOUS
    <3> HIDE DEF a, r, Init
    <3> QED BY <3>1, <3>2 DEF JobRow, JobPc
  <2>4. sched \in [pc : {"gate", "run", "joined", "done"}, at : Nat, tick : Nat,
                   started : SUBSET Slot, failed : BOOLEAN]
    <3> DEFINE one == 1
    <3>1. one \in Nat /\ sched = [pc |-> "gate", at |-> one, tick |-> one, started |-> {}, failed |-> FALSE]
      OBVIOUS
    <3> HIDE DEF one, Init
    <3> QED BY <3>1
  <2> QED BY <2>2, <2>3, <2>4 DEF Types
<1>2. \A m \in Attempt : m \in Nat /\ m > 0 BY LoopAssumption DEF Attempt
<1>3. \A j \in Job : JobOK(j)
  <2> SUFFICES ASSUME NEW j \in Job PROVE JobOK(j) OBVIOUS
  <2>1. ~AtWork(j) BY DEF AtWork
  <2>2. InOrder(j) BY <1>2, <2>1 DEF InOrder
  <2> QED BY <2>1, <2>2 DEF JobOK
<1>4. SchedOK
  <2>1. Slot \subseteq Job BY LoopAssumption
  <2> QED BY <2>1 DEF SchedOK, ConsumerFollowsProducer
<1>5. HeldRuns = {} /\ DoneRuns = {} BY DEF HeldRuns, DoneRuns, Runs
<1>6. Reworks({}) = {} /\ Approvals({}) = {} BY DEF Reworks, Approvals
<1>7. Counts BY <1>5, <1>6, FS_EmptySet DEF Counts, None
<1>8. WithinLimits BY LoopAssumption DEF WithinLimits, Committed, Plus, None
<1> QED BY <1>1, <1>3, <1>4, <1>7, <1>8 DEF LoopInv

LEMMA LoopStep == LoopInv /\ [Next]_vars => LoopInv'
<1> SUFFICES ASSUME LoopInv, [Next]_vars PROVE LoopInv' OBVIOUS
<1>1. CASE UNCHANGED <<account, resv, job, slot, sched, faults>>
  <2>1. Types' BY <1>1 DEF LoopInv, Types
  <2>2. \A i \in Job : JobOK(i)' BY <1>1, JobBeside DEF LoopInv, Types
  <2>3. SchedOK' BY <1>1 DEF LoopInv, SchedOK, ConsumerFollowsProducer
  <2>4. Counts' /\ WithinLimits' BY <1>1, CountsBeside DEF LoopInv
  <2> QED BY <2>1, <2>2, <2>3, <2>4 DEF LoopInv
<1>2. CASE Deadline BY <1>1, <1>2 DEF Deadline
<1>3. CASE Schedule BY <1>3, GateStep, RunStartedStep, JoinStep DEF Schedule
<1>4. ASSUME NEW k \in Job, StartSolo(k) \/ Step(k) \/ Raise(k) PROVE LoopInv'
  BY <1>4, QuietStep, DispatchStep, ReconcileStep DEF Step
<1>5. CASE Crash(Slot)
  <2>1. Slot \in SUBSET Job BY LoopAssumption
  <2> QED BY <1>5, <2>1, CrashStep
<1>6. ASSUME NEW k \in Job \ Slot, Crash({k}) PROVE LoopInv' BY <1>6, CrashStep
<1> QED BY <1>1, <1>2, <1>3, <1>4, <1>5, <1>6 DEF Next, vars

\* The placing of reservations, slots and counts, which the theorems rest on.
LEMMA LoopInvariant == Spec => []LoopInv
<1> QED BY LoopInit, LoopStep, PTL DEF Spec

\* Dispatch against reconcile in any number of jobs and processes: the account is what the
\* reservations in force and the runs that ended add up to, and a hold without a run is the
\* one current attempt of a job that an exception or a crash took.
THEOREM AccountAlwaysAddsUp == Spec => []AccountAddsUp
<1>1. ASSUME LoopInv PROVE AccountAddsUp
  <2> USE <1>1 DEF LoopInv, Types
  <2> DEFINE Orphan == {p \in Runs("held") : ~(AtWork(p[1]) /\ job[p[1]].attempt = p[2])}
  <2>1. HeldRuns \in SUBSET (Job \X Attempt) /\ DoneRuns \in SUBSET (Job \X Attempt)
    BY DEF HeldRuns, DoneRuns, Runs
  <2>2. /\ account.held.attempts = Cardinality(Runs("held"))
        /\ account.used.attempts = Cardinality(Runs("reconciled"))
        /\ account.held.wall = Cardinality(Runs("held"))
    BY DEF Counts, HeldRuns, DoneRuns
  <2>3. account.held.reworks + account.used.reworks
          = Cardinality({p \in Runs("held") \cup Runs("reconciled") : p[2] > 1})
    <3> DEFINE A == Reworks(HeldRuns)  B == Reworks(DoneRuns)
    <3>1. A \in SUBSET (Job \X Attempt) /\ B \in SUBSET (Job \X Attempt) BY <2>1 DEF Reworks
    <3>2. A \cap B = {} BY DEF Reworks, HeldRuns, DoneRuns, Runs
    <3>3. A \cup B = {p \in Runs("held") \cup Runs("reconciled") : p[2] > 1}
      BY DEF Reworks, HeldRuns, DoneRuns
    <3>4. account.held.reworks = Cardinality(A) /\ account.used.reworks = Cardinality(B) BY DEF Counts
    <3> HIDE DEF A, B
    <3>5. IsFiniteSet(A) /\ IsFiniteSet(B) /\ Cardinality(A) \in Nat /\ Cardinality(B) \in Nat
      BY <3>1, RunsFinite
    <3>6. Cardinality(A \cup B) = Cardinality(A) + Cardinality(B) - Cardinality(A \cap B)
      BY <3>5, FS_Union
    <3>7. Cardinality(A \cap B) = 0 BY <3>2, FS_EmptySet
    <3>8. Cardinality(A \cup B) = Cardinality(A) + Cardinality(B) BY <3>5, <3>6, <3>7
    <3> QED BY <3>3, <3>4, <3>8
  <2>4. \A j \in Job : AtWork(j) => resv[j][job[j].attempt] = "held" BY DEF JobOK, InOrder
  <2>5. \A p \in Orphan : p \in Job \X Attempt /\ p[2] = job[p[1]].attempt /\ faults > 0
    <3> SUFFICES ASSUME NEW p \in Orphan
                 PROVE  p \in Job \X Attempt /\ p[2] = job[p[1]].attempt /\ faults > 0
      OBVIOUS
    <3> DEFINE j == p[1]  n == p[2]
    <3>1. p \in Job \X Attempt /\ j \in Job /\ n \in Attempt /\ resv[j][n] = "held" BY DEF Runs
    <3>2. ~(AtWork(j) /\ job[j].attempt = n) OBVIOUS
    <3> HIDE DEF j, n
    <3>3. JobOK(j) /\ job[j].attempt \in Nat /\ n \in Nat BY <3>1, LoopAssumption DEF JobRow, Attempt
    <3>4. n = job[j].attempt
      <4>1. (n > job[j].attempt => resv[j][n] = "none") /\ (n < job[j].attempt => resv[j][n] = "reconciled")
        BY <3>1, <3>3 DEF JobOK, InOrder
      <4> QED BY <3>1, <3>3, <4>1
    <3>5. ~AtWork(j) BY <3>2, <3>4
    <3>6. faults > 0 BY <3>1, <3>3, <3>5 DEF JobOK, InOrder
    <3> QED BY <3>1, <3>4, <3>6 DEF j, n
  <2>6. Orphan \in SUBSET (Job \X Attempt) BY <2>5
  <2>7. Cardinality(Orphan) <= IF faults = 0 THEN 0 ELSE Cardinality(Job)
    <3>1. CASE faults = 0
      <4>1. Orphan = {} BY <2>5, <3>1
      <4> HIDE DEF Orphan
      <4> QED BY <3>1, <4>1, FS_EmptySet
    <3>2. CASE faults # 0
      <4> DEFINE f == [p \in Orphan |-> p[1]]
      <4>1. f \in Injection(Orphan, Job)
        <5>1. f \in [Orphan -> Job] BY <2>5
        <5>2. \A p, q \in Orphan : p[1] = q[1] => p = q BY <2>5
        <5> HIDE DEF Orphan
        <5> QED BY <5>1, <5>2 DEF Injection, IsInjective
      <4> HIDE DEF Orphan, f
      <4>2. Cardinality(Orphan) <= Cardinality(Job) BY <4>1, FS_Injection, LoopAssumption
      <4> QED BY <3>2, <4>2
    <3> QED BY <3>1, <3>2
  <2> QED BY <2>2, <2>3, <2>4, <2>7 DEF AccountAddsUp
<1> QED BY <1>1, LoopInvariant, PTL

\* Whatever stale copy the gate has read, Dispatch looks at the account itself: the runs,
\* reworks and reviews that the goal has committed never exceed its limits.
THEOREM BudgetHolds == Spec => []WithinLimits
<1>1. LoopInv => WithinLimits BY DEF LoopInv
<1> QED BY <1>1, LoopInvariant, PTL

\* The gate and the pool: no slot is started before the producers it names are read as
\* succeeded, and no later step of the scheduler, of a job or of a crash takes that back.
THEOREM ConsumersFollow == Spec => []ConsumerFollowsProducer
<1>1. LoopInv => ConsumerFollowsProducer BY DEF LoopInv, SchedOK
<1> QED BY <1>1, LoopInvariant, PTL
=============================================================================
