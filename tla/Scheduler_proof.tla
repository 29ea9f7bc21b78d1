---------------------------- MODULE Scheduler_proof ----------------------------
(* Theorems about Scheduler, on SchedulerAssumption: for any number of jobs,   *)
(* any requests and rules, any faults and crashes.                            *)
(*                                                                             *)
(* The invariant says what the thread knows where it stands (TickInv), what    *)
(* slot, record and session of a job say of each other (JobInv), and that a    *)
(* reply was allowed (AskInv).                                                 *)
EXTENDS Scheduler, TLAPS, WellFoundedInduction

SlotRow == [state : State, session : BOOLEAN, started : BOOLEAN, restored : BOOLEAN,
            handled : SUBSET Perm, asked : SUBSET Perm]
RecordRow == [state : State, session : BOOLEAN, started : BOOLEAN, handled : SUBSET Perm]
PC == {"between", "start", "claim", "prompt", "started", "scan", "handle", "lead", "reply", "post",
       "answered", "refresh", "confirm", "verdict", "down"}
Replies == {"none", "once", "reject", "deny_job", "cancelled", "timeout"}
TickRow == [pc : PC, job : Job \cup {NoJob}, perm : Perm \cup {NoPerm}, reply : Replies,
            todo : SUBSET Job, queue : SUBSET Perm, read : [Perm -> SUBSET Trait]]
SessionRow == [state : {"none", "idle", "busy", "finished", "errored", "partial", "stopped"},
               prompts : Nat, told : BOOLEAN]
AskRow == [state : {"none", "open", "closed"}, wants : SUBSET Trait,
           reply : {"none", "once", "reject"}, granted : SUBSET Trait]

Slots == slot \in [Job -> SlotRow] /\ record \in [Job -> RecordRow]
World == /\ session \in [Job -> SessionRow] /\ ask \in [Perm -> AskRow]
         /\ decided \in [Perm -> {"none", "once", "reject"}]
         /\ cancel \in [Job -> {"none", "marked", "made"}] /\ late \in [Job -> BOOLEAN]
         /\ faults \in Nat /\ crashes \in Nat

\* What the thread knows where it stands.
TickInv ==
  /\ tick \in TickRow
  /\ tick.pc \in {"claim", "prompt", "started", "confirm", "verdict"} => tick.job \in Job
  /\ tick.pc \in {"lead", "reply", "post", "answered"} => tick.perm \in Perm
  /\ tick.pc = "lead" => ~Forbidden(tick.read[tick.perm])
  /\ tick.pc \in {"reply", "post"} /\ tick.reply = "once" => ~Forbidden(tick.read[tick.perm])
  /\ tick.pc = "confirm" => tick.reply \in {"cancelled", "timeout"}
  /\ tick.pc \in {"claim", "prompt"} => slot[tick.job].state \notin Terminal
  /\ tick.pc = "prompt" =>
       /\ record[tick.job].session /\ record[tick.job].state \notin Terminal
       /\ session[tick.job].prompts = 0
  /\ tick.pc = "verdict" => session[tick.job].state = "finished"

\* What slot, record and session of a job say of each other: a session that nobody has
\* claimed was never prompted, and a slot that was given back has no worker.
JobInv(j) ==
  /\ Up => (slot[j].session = record[j].session)
  /\ ~record[j].session => session[j].state = "none" /\ session[j].prompts = 0
  /\ session[j].prompts <= 1
  /\ (slot[j].state \in Released \/ record[j].state \in Released) => session[j].state # "busy"

AskInv(p) == ask[p].reply = "once" => ~Forbidden(ask[p].granted)

SchedInv == Slots /\ World /\ TickInv /\ (\A j \in Job : JobInv(j)) /\ (\A p \in Perm : AskInv(p))

-----------------------------------------------------------------------------
(* What the helpers change.                                                   *)

LEMMA LeastExists ==
  ASSUME NEW S \in SUBSET Nat, S # {}
  PROVE  \E n \in S : \A m \in S : n <= m
<1> DEFINE Less == OpToRel(<, Nat)
<1>1. IsWellFoundedOn(Less, Nat) BY NatLessThanWellFounded
<1>2. \A m, n \in Nat : m < n => <<m, n>> \in Less BY DEF OpToRel
<1> HIDE DEF Less
<1>3. PICK n \in S : \A m \in S : ~(<<m, n>> \in Less) BY <1>1, WFMin
<1>4. \A m \in S : ~(m < n) BY <1>2, <1>3
<1> QED BY <1>4

LEMMA NextIsQueued ==
  ASSUME MayStart
  PROVE  NextQueued \in Job /\ slot[NextQueued].state = "queued"
<1>1. Queued \in SUBSET Nat /\ Queued # {} BY SchedulerAssumption DEF MayStart, Queued, Job
<1>2. \E n \in Queued : \A m \in Queued : n <= m BY <1>1, LeastExists
<1>3. NextQueued \in Queued BY <1>2 DEF NextQueued
<1> QED BY <1>3 DEF Queued

LEMMA RecordIs ==
  ASSUME NEW s \in SlotRow
  PROVE  RecordOf(s) \in RecordRow /\ RecordOf(s).state = s.state /\ RecordOf(s).session = s.session
  BY DEF RecordOf, SlotRow, RecordRow

\* A change of one slot that is persisted at once leaves the sessions as they are.
LEMMA SaveMoves ==
  ASSUME Slots, NEW j \in Job, NEW s \in SlotRow, Save(j, s)
  PROVE  /\ Slots' /\ slot'[j] = s /\ record'[j] = RecordOf(s)
         /\ \A i \in Job \ {j} : slot'[i] = slot[i] /\ record'[i] = record[i]
<1>1. slot'[j] = s BY DEF Slots, Save
<1>2. record' = [record EXCEPT ![j] = RecordOf(s)] BY <1>1 DEF Save, Persist
<1>3. RecordOf(s) \in RecordRow BY RecordIs
<1> QED BY <1>1, <1>2, <1>3 DEF Slots, Save

LEMMA SetMoves ==
  ASSUME Slots, NEW j \in Job, NEW st \in State, SetState(j, st)
  PROVE  /\ Slots' /\ slot'[j].state = st /\ record'[j].state = st
         /\ slot'[j].session = slot[j].session /\ record'[j].session = slot[j].session
         /\ slot'[j].restored = slot[j].restored
         /\ \A i \in Job \ {j} : slot'[i] = slot[i] /\ record'[i] = record[i]
<1> DEFINE s == [slot[j] EXCEPT !.state = st]
<1>1. slot[j] \in SlotRow BY DEF Slots
<1>2. s \in SlotRow /\ s.state = st /\ s.session = slot[j].session /\ s.restored = slot[j].restored
  BY <1>1 DEF SlotRow
<1>3. Save(j, s) BY DEF SetState
<1> HIDE DEF s
<1> QED BY <1>2, <1>3, SaveMoves, RecordIs

\* A step that leaves the sessions alone and gives back no slot of a busy one.
KeepsSlots(j) ==
  /\ Up' => slot'[j].session = slot[j].session /\ record'[j].session = record[j].session
  /\ slot'[j].state \in Released \/ record'[j].state \in Released =>
       slot[j].state \in Released \/ record[j].state \in Released \/ session[j].state # "busy"

\* Requests that do not change stay allowed.
LEMMA AsksStay ==
  ASSUME SchedInv, ask' = ask
  PROVE  \A p \in Perm : AskInv(p)'
  BY DEF SchedInv, AskInv, Forbidden, Unchecked, Gated, Outside,
         Eternal, Secret, WantsAlways, Listed

LEMMA JobsKept ==
  ASSUME SchedInv, Up, session' = session, \A j \in Job : KeepsSlots(j), Up'
  PROVE  \A j \in Job : JobInv(j)'
<1> SUFFICES ASSUME NEW j \in Job PROVE JobInv(j)'
  OBVIOUS
<1>1. JobInv(j) /\ KeepsSlots(j) BY DEF SchedInv
<1> QED BY <1>1 DEF JobInv, KeepsSlots

LEMMA JobsStay ==
  ASSUME SchedInv, Up, session' = session, ask' = ask, \A j \in Job : KeepsSlots(j), Up'
  PROVE  (\A j \in Job : JobInv(j)') /\ (\A p \in Perm : AskInv(p)')
  BY JobsKept, AsksStay

\* Where nothing is known but the shape.
Plain == {"between", "start", "scan", "handle", "refresh", "down", "started"}
LEMMA PlainTick ==
  ASSUME tick' \in TickRow, tick'.pc \in Plain, tick'.pc = "started" => tick'.job \in Job
  PROVE  TickInv'
  BY DEF TickInv, Plain

\* SetState with a plain place afterwards.
LEMMA SetStep ==
  ASSUME SchedInv, NEW j \in Job, NEW st \in State, SetState(j, st), Up,
         UNCHANGED <<decided, cancel, world>>, faults' \in Nat, crashes' \in Nat,
         tick' \in TickRow, tick'.pc \in Plain \ {"down", "started"},
         st \in Released => session[j].state # "busy"
  PROVE  SchedInv'
<1>1. Slots BY DEF SchedInv
<1>2. /\ Slots' /\ slot'[j].state = st /\ record'[j].state = st
      /\ slot'[j].session = slot[j].session /\ record'[j].session = slot[j].session
      /\ \A i \in Job \ {j} : slot'[i] = slot[i] /\ record'[i] = record[i]
  BY <1>1, SetMoves
<1>3. ASSUME NEW i \in Job PROVE KeepsSlots(i)
  <2>1. CASE i = j
    <3>1. slot[j].session = record[j].session BY DEF SchedInv, JobInv
    <3> QED BY <1>2, <2>1, <3>1 DEF KeepsSlots
  <2>2. CASE i # j BY <1>2, <2>2 DEF KeepsSlots
  <2> QED BY <2>1, <2>2
<1>4. session' = session /\ ask' = ask /\ late' = late BY DEF world
<1>5. Up' BY DEF Up, Plain
<1>6. (\A i \in Job : JobInv(i)') /\ (\A p \in Perm : AskInv(p)') BY <1>3, <1>4, <1>5, JobsStay
<1>7. TickInv' BY PlainTick DEF Plain
<1>8. World' BY <1>4 DEF SchedInv, World
<1> QED BY <1>2, <1>6, <1>7, <1>8 DEF SchedInv

\* A step that changes nothing of the jobs but where the thread stands.
LEMMA TickStep ==
  ASSUME SchedInv, Up, UNCHANGED <<slot, record, decided, cancel, world, crashes>>, faults' \in Nat,
         TickInv', Up'
  PROVE  SchedInv'
<1>1. session' = session /\ ask' = ask /\ late' = late /\ slot' = slot /\ record' = record BY DEF world
<1>2. \A j \in Job : KeepsSlots(j) BY <1>1 DEF KeepsSlots
<1>3. Slots' /\ World' BY <1>1 DEF SchedInv, Slots, World
<1> QED BY <1>1, <1>2, <1>3, JobsStay DEF SchedInv

\* One that changes a slot in memory.
LEMMA SlotStep ==
  ASSUME SchedInv, Up, UNCHANGED <<record, decided, world, crashes>>, faults' \in Nat,
         cancel' \in [Job -> {"none", "marked", "made"}],
         slot' \in [Job -> SlotRow], TickInv', Up',
         \A j \in Job : slot'[j].session = slot[j].session
                        /\ (slot'[j].state \in Released => slot'[j].state = slot[j].state)
  PROVE  SchedInv'
<1>1. session' = session /\ ask' = ask /\ late' = late /\ record' = record BY DEF world
<1>2. \A j \in Job : KeepsSlots(j) BY <1>1 DEF KeepsSlots
<1>3. Slots' /\ World' BY <1>1 DEF SchedInv, Slots, World
<1> QED BY <1>1, <1>2, <1>3, JobsStay DEF SchedInv

-----------------------------------------------------------------------------
(* The actions.                                                               *)

\* The thread between two ticks, or down, has read nothing.
LEMMA BetweenIs ==
  /\ Between \in TickRow /\ Between.pc = "between"
  /\ LET t == [Between EXCEPT !.pc = "down"] IN t \in TickRow /\ t.pc = "down"
  /\ \A pc \in PC : \A todo \in SUBSET Job :
       LET t == [Between EXCEPT !.pc = pc, !.todo = todo] IN t \in TickRow /\ t.pc = pc
<1>1. Unread \in [Perm -> SUBSET Trait] BY DEF Unread
<1>2. /\ Between = [pc |-> "between", job |-> NoJob, perm |-> NoPerm, reply |-> "none",
                    todo |-> {}, queue |-> {}, read |-> Unread]
  BY DEF Between
<1> QED BY <1>1, <1>2 DEF TickRow, PC, Replies

LEMMA SchedInit_Inv == Init => SchedInv
<1> SUFFICES ASSUME Init PROVE SchedInv
  OBVIOUS
<1>1. NewSlot \in SlotRow /\ NewSlot.state = "queued" /\ NewSlot.session = FALSE
  BY DEF NewSlot, SlotRow, State
<1>2. RecordOf(NewSlot) \in RecordRow /\ RecordOf(NewSlot).state = "queued" /\ RecordOf(NewSlot).session = FALSE
  BY <1>1, RecordIs
<1>3. Slots BY <1>1, <1>2 DEF Init, Slots
<1>4. World
  <2>1. ask \in [Perm -> AskRow] BY DEF Init, AskRow
  <2> QED BY <2>1 DEF Init, World, SessionRow
<1>5. TickInv BY BetweenIs DEF Init, TickInv
<1>6. \A j \in Job : JobInv(j)
  <2> TAKE j \in Job
  <2>1. slot[j] = NewSlot /\ record[j] = RecordOf(NewSlot) BY DEF Init
  <2>2. session[j].state = "none" /\ session[j].prompts = 0 BY DEF Init
  <2>3. slot[j].state = "queued" /\ record[j].state = "queued" BY <1>1, <1>2, <2>1
  <2>4. slot[j].session = record[j].session BY <1>1, <1>2, <2>1
  <2> QED BY <2>2, <2>3, <2>4 DEF JobInv, Released
<1>7. \A p \in Perm : AskInv(p) BY DEF Init, AskInv
<1> QED BY <1>3, <1>4, <1>5, <1>6, <1>7 DEF SchedInv

\* The steps of the thread that only move it.
LEMMA MovesStep ==
  ASSUME SchedInv, BeginTick \/ StartsDone \/ HandleDone \/ RefreshDone
  PROVE  SchedInv'
<1>1. tick \in TickRow /\ faults \in Nat BY DEF SchedInv, TickInv, World
<1>2. Up /\ UNCHANGED <<slot, record, decided, cancel, world, crashes>> /\ faults' \in Nat
  BY <1>1 DEF BeginTick, StartsDone, HandleDone, RefreshDone, At, Up
<1>3. tick' \in TickRow /\ tick'.pc \in Plain \ {"down", "started"}
  <2>1. CASE BeginTick BY <1>1, <2>1 DEF BeginTick, Goto, TickRow, PC, Plain
  <2>2. CASE StartsDone BY <1>1, <2>2 DEF StartsDone, Goto, TickRow, PC, Plain
  <2>3. CASE HandleDone BY <1>1, <2>3 DEF HandleDone, TickRow, PC, Plain
  <2>4. CASE RefreshDone BY <2>4, BetweenIs DEF RefreshDone, Plain
  <2> QED BY <2>1, <2>2, <2>3, <2>4
<1>4. TickInv' BY <1>3, PlainTick
<1>5. Up' BY <1>3 DEF Up, Plain
<1> QED BY <1>2, <1>4, <1>5, TickStep

\* What the rules grant or leave to the lead is not forbidden.
LEMMA RouteIs ==
  ASSUME NEW p \in Perm
  PROVE  /\ Route(p) \in {"once", "reject", "lead"}
         /\ Route(p) \in {"once", "lead"} => ~Forbidden(tick.read[p])
  BY DEF Route, Rule, Authorized, HardRule, Forbidden, Unchecked, Gated, Outside,
         Eternal, Secret, WantsAlways, Listed

LEMMA RuleDecidesStep ==
  ASSUME SchedInv, NEW p \in Perm, RuleDecides(p)
  PROVE  SchedInv'
<1>1. tick \in TickRow /\ faults \in Nat BY DEF SchedInv, TickInv, World
<1>2. Up /\ UNCHANGED <<slot, record, decided, cancel, world, faults, crashes>>
  BY DEF RuleDecides, At, Up
<1>3. Route(p) \in {"once", "reject"} /\ (Route(p) = "once" => ~Forbidden(tick.read[p]))
  BY RouteIs DEF RuleDecides
<1>4. /\ tick' \in TickRow /\ tick'.pc = "reply" /\ tick'.perm = p /\ tick'.reply = Route(p)
      /\ tick'.read = tick.read
  BY <1>1, <1>3 DEF RuleDecides, TickRow, PC, Replies
<1>5. TickInv' BY <1>3, <1>4 DEF TickInv, Forbidden, Unchecked, Gated, Outside,
       Eternal, Secret, WantsAlways, Listed
<1>6. Up' BY <1>4 DEF Up
<1> QED BY <1>1, <1>2, <1>5, <1>6, TickStep

LEMMA LeadAnswersStep ==
  ASSUME SchedInv, LeadAnswers
  PROVE  SchedInv'
<1>1. tick \in TickRow /\ faults \in Nat BY DEF SchedInv, TickInv, World
<1>2. Up /\ UNCHANGED <<slot, record, decided, cancel, world, faults, crashes>>
  BY DEF LeadAnswers, At, Up
<1>3. tick.perm \in Perm /\ ~Forbidden(tick.read[tick.perm])
  BY DEF SchedInv, TickInv, LeadAnswers, At
<1>4. /\ tick' \in TickRow /\ tick'.pc = "reply" /\ tick'.perm = tick.perm
      /\ tick'.read = tick.read
  BY <1>1 DEF LeadAnswers, TickRow, PC, Replies, ReplyOf, LeadDecision
<1>5. TickInv' BY <1>3, <1>4 DEF TickInv, Forbidden, Unchecked, Gated, Outside,
       Eternal, Secret, WantsAlways, Listed
<1>6. Up' BY <1>4 DEF Up
<1> QED BY <1>1, <1>2, <1>5, <1>6, TickStep

\* The observations that settle nothing, and the one that leads to a verdict.
LEMMA RefreshedIs ==
  ASSUME tick \in TickRow, NEW j \in Job, Refreshed(j)
  PROVE  tick' \in TickRow /\ tick'.pc = "refresh"
  BY DEF Refreshed, TickRow, PC, Replies

LEMMA ObserveStep ==
  ASSUME SchedInv, NEW j \in Job, ObserveNothing(j) \/ ObserveSuccess(j)
  PROVE  SchedInv'
<1>1. tick \in TickRow /\ faults \in Nat BY DEF SchedInv, TickInv, World
<1>2. Up /\ UNCHANGED <<slot, record, decided, cancel, world, crashes>> /\ faults' \in Nat
  BY <1>1 DEF ObserveNothing, ObserveSuccess, Observing, Refreshing, At, Up, Fault
<1>3. TickInv' /\ Up'
  <2>1. CASE ObserveNothing(j)
    <3>1. tick' \in TickRow /\ tick'.pc = "refresh"
      BY <1>1, <2>1, RefreshedIs DEF ObserveNothing
    <3> QED BY <3>1, PlainTick DEF Plain, Up
  <2>2. CASE ObserveSuccess(j)
    <3>1. session[j].state = "finished"
      <4>1. "success" \in Outcomes(j) BY <2>2 DEF ObserveSuccess
      <4>2. session[j].state # "finished" => "success" \notin Outcomes(j) BY DEF Outcomes
      <4> QED BY <4>1, <4>2
    <3>2. tick' \in TickRow /\ tick'.pc = "verdict" /\ tick'.job = j
      BY <1>1, <2>2 DEF ObserveSuccess, TickRow, PC
    <3>3. session' = session BY <1>2 DEF world
    <3>4. TickInv' BY <3>1, <3>2, <3>3 DEF TickInv
    <3> QED BY <3>2, <3>4 DEF Up
  <2> QED BY <2>1, <2>2
<1> QED BY <1>2, <1>3, TickStep

\* The steps that settle a slot and its record at once.
LEMMA SettleStep ==
  ASSUME SchedInv, StartRestored \/ StartFails \/ AbortConfirmed \/ AbortUnconfirmed \/ Verdict
  PROVE  SchedInv'
<1>1. tick \in TickRow /\ faults \in Nat /\ crashes \in Nat /\ Slots /\ TickInv
  BY DEF SchedInv, TickInv, World
<1>2. CASE StartRestored
  <2>1. NextQueued \in Job BY <1>2, NextIsQueued DEF StartRestored
  <2>2. \E st \in {"running", "fail"} : SetState(NextQueued, st)
    BY <1>2 DEF StartRestored
  <2>3. PICK st \in {"running", "fail"} : SetState(NextQueued, st) BY <2>2
  <2>4. tick' \in TickRow /\ tick'.pc = "start" /\ Up
    BY <1>1, <1>2 DEF StartRestored, At, Up
  <2> QED BY <1>1, <1>2, <2>1, <2>3, <2>4, SetStep
      DEF StartRestored, Plain, State, Terminal, Active, Released
<1>3. CASE StartFails
  <2>1. tick.job \in Job /\ Up BY <1>1, <1>3 DEF StartFails, TickInv, At, Up
  <2>2. tick' \in TickRow /\ tick'.pc = "start" BY <1>1, <1>3 DEF StartFails, Goto, TickRow, PC
  <2>3. faults' \in Nat BY <1>1, <1>3 DEF StartFails, Fault
  <2>4. SetState(tick.job, "fail") /\ UNCHANGED <<decided, cancel, world, crashes>> BY <1>3 DEF StartFails
  <2> QED BY <1>1, <2>1, <2>2, <2>3, <2>4, SetStep DEF Plain, State, Terminal, Released
<1>4. CASE AbortConfirmed
  <2>1. tick.job \in Job /\ Up /\ tick.reply \in {"cancelled", "timeout"}
    BY <1>1, <1>4 DEF AbortConfirmed, TickInv, At, Up
  <2>2. tick' \in TickRow /\ tick'.pc = "refresh" BY <1>1, <1>4, <2>1, RefreshedIs DEF AbortConfirmed
  <2>3. session[tick.job].state # "busy"
    <3>1. JobInv(tick.job) BY <2>1 DEF SchedInv
    <3> QED BY <1>4, <2>1, <3>1 DEF AbortConfirmed, Idle, JobInv
  <2>4. SetState(tick.job, tick.reply) /\ UNCHANGED <<decided, cancel, world, faults, crashes>>
    BY <1>4 DEF AbortConfirmed
  <2> QED BY <1>1, <2>1, <2>2, <2>3, <2>4, SetStep DEF Plain, State, Terminal
<1>5. CASE AbortUnconfirmed
  <2>1. tick.job \in Job /\ Up BY <1>1, <1>5 DEF AbortUnconfirmed, TickInv, At, Up
  <2>2. tick' \in TickRow /\ tick'.pc = "refresh" BY <1>1, <1>5, <2>1, RefreshedIs DEF AbortUnconfirmed
  <2> DEFINE st == IF tick.reply = "cancelled" THEN "cancel_requested" ELSE slot[tick.job].state
  <2>3. slot[tick.job].state \in State BY <1>1, <2>1 DEF Slots, SlotRow
  <2>4. st \in State /\ (st \in Released => st = slot[tick.job].state)
    BY <2>3 DEF State, Active, Released
  <2>5. SetState(tick.job, st) /\ UNCHANGED <<decided, cancel, world, faults, crashes>>
    BY <1>5 DEF AbortUnconfirmed
  <2>6. JobInv(tick.job) BY <2>1 DEF SchedInv
  <2> HIDE DEF st
  <2>7. st \in Released => session[tick.job].state # "busy" BY <2>4, <2>6 DEF JobInv
  <2> QED BY <1>1, <2>1, <2>2, <2>4, <2>5, <2>7, SetStep DEF Plain
<1>6. CASE Verdict
  <2>1. tick.job \in Job /\ Up /\ session[tick.job].state = "finished"
    BY <1>1, <1>6 DEF Verdict, TickInv, At, Up
  <2>2. tick' \in TickRow /\ tick'.pc = "refresh" BY <1>1, <1>6, <2>1, RefreshedIs DEF Verdict
  <2>3. PICK v \in {"done", "fail"} : SetState(tick.job, v) BY <1>6 DEF Verdict
  <2>4. UNCHANGED <<decided, cancel, world, faults, crashes>> BY <1>6 DEF Verdict
  <2> QED BY <1>1, <2>1, <2>2, <2>3, <2>4, SetStep DEF Plain, State, Terminal
<1> QED BY <1>2, <1>3, <1>4, <1>5, <1>6

LEMMA SettleOneStep ==
  ASSUME SchedInv, NEW j \in Job, AbortFails(j) \/ ObserveFailure(j)
  PROVE  SchedInv'
<1>1. tick \in TickRow /\ faults \in Nat /\ crashes \in Nat /\ Slots
  BY DEF SchedInv, TickInv, World
<1>2. Up BY DEF AbortFails, ObserveFailure, Observing, Refreshing, At, Up
<1>3. tick' \in TickRow /\ tick'.pc = "refresh"
  BY <1>1, RefreshedIs DEF AbortFails, ObserveFailure
<1>4. slot[j].state \in Active BY DEF AbortFails, ObserveFailure, Observing
<1>5. PICK st \in Active \cup {"fail"} : SetState(j, st)
  BY <1>4 DEF AbortFails, ObserveFailure, Active
<1>6. faults' \in Nat /\ UNCHANGED <<decided, cancel, world, crashes>>
  BY <1>1 DEF AbortFails, ObserveFailure, Fault
<1> QED BY <1>1, <1>2, <1>3, <1>5, <1>6, SetStep DEF Plain, State, Active, Terminal, Released

\* The steps that change slots in memory.
LEMMA StartQueuedStep ==
  ASSUME SchedInv, StartQueued
  PROVE  SchedInv'
<1>1. tick \in TickRow /\ faults \in Nat /\ Slots /\ cancel \in [Job -> {"none", "marked", "made"}]
  BY DEF SchedInv, TickInv, World
<1>2. Up /\ UNCHANGED <<record, decided, cancel, world, faults, crashes>> BY DEF StartQueued, At, Up
<1>3. NextQueued \in Job BY NextIsQueued DEF StartQueued
<1> DEFINE j == NextQueued
           new == [slot[j] EXCEPT !.state = "starting"]
<1>4. slot[j] \in SlotRow BY <1>1, <1>3 DEF Slots
<1>5. new \in SlotRow /\ new.state = "starting" /\ new.session = slot[j].session
  BY <1>4 DEF SlotRow, State, Active
<1>6. slot' = [slot EXCEPT ![j] = new] BY DEF StartQueued
<1>7. tick' \in TickRow /\ tick'.pc = "claim" /\ tick'.job = j
  BY <1>1, <1>3 DEF StartQueued, TickRow, PC
<1> HIDE DEF new, j
<1>8. j \in Job BY <1>3 DEF j
<1>9. slot' \in [Job -> SlotRow] /\ slot'[j] = new /\ \A i \in Job \ {j} : slot'[i] = slot[i]
  BY <1>1, <1>5, <1>6, <1>8 DEF Slots
<1>10. TickInv' BY <1>5, <1>7, <1>8, <1>9 DEF TickInv, Terminal
<1>11. \A i \in Job : slot'[i].session = slot[i].session
                      /\ (slot'[i].state \in Released => slot'[i].state = slot[i].state)
  BY <1>5, <1>9 DEF Released
<1>12. Up' BY <1>7 DEF Up
<1> QED BY <1>1, <1>2, <1>9, <1>10, <1>11, <1>12, SlotStep

LEMMA ScanStep ==
  ASSUME SchedInv, Scan
  PROVE  SchedInv'
<1>1. tick \in TickRow /\ faults \in Nat /\ Slots /\ cancel \in [Job -> {"none", "marked", "made"}]
  BY DEF SchedInv, TickInv, World
<1>2. Up /\ UNCHANGED <<record, decided, cancel, world, faults, crashes>> BY DEF Scan, At, Up
<1>3. \A j \in Job : slot'[j] = slot[j] \/ slot'[j] = [slot[j] EXCEPT !.state = "pending_approval"]
  BY DEF Scan
<1>4. \A j \in Job : slot[j] \in SlotRow BY <1>1 DEF Slots
<1>5. \A j \in Job : /\ slot'[j] \in SlotRow /\ slot'[j].session = slot[j].session
                     /\ (slot'[j].state \in Released => slot'[j].state = slot[j].state)
  BY <1>3, <1>4 DEF SlotRow, State, Active, Released
<1>6. slot' = [j \in Job |-> slot'[j]] BY DEF Scan
<1>7. slot' \in [Job -> SlotRow] BY <1>5, <1>6
<1>8. tick' \in TickRow /\ tick'.pc = "handle"
  <2>1. PICK q \in FirstOfEachJob(Seen) :
          tick' = [tick EXCEPT !.pc = "handle", !.queue = q,
                               !.read = [p \in Perm |-> IF p \in q THEN ask[p].wants ELSE {}]]
    BY DEF Scan
  <2>2. q \subseteq Perm BY DEF FirstOfEachJob, Seen
  <2> DEFINE read == [p \in Perm |-> IF p \in q THEN ask[p].wants ELSE {}]
  <2>3. ask \in [Perm -> AskRow] BY DEF SchedInv, World
  <2>4. read \in [Perm -> SUBSET Trait] BY <2>3 DEF AskRow
  <2> HIDE DEF read
  <2>5. tick' = [tick EXCEPT !.pc = "handle", !.queue = q, !.read = read] BY <2>1 DEF read
  <2> QED BY <1>1, <2>2, <2>4, <2>5 DEF TickRow, PC
<1>9. TickInv' BY <1>8, PlainTick DEF Plain
<1>10. Up' BY <1>8 DEF Up
<1> QED BY <1>1, <1>2, <1>5, <1>7, <1>9, <1>10, SlotStep

\* A change of one slot that keeps its session and gives it back in no way.
LEMMA OneSlot ==
  ASSUME Slots, NEW j \in Job, NEW s \in SlotRow, slot' = [slot EXCEPT ![j] = s],
         s.session = slot[j].session, s.state \in Released => s.state = slot[j].state
  PROVE  /\ slot' \in [Job -> SlotRow]
         /\ \A i \in Job : slot'[i].session = slot[i].session
                           /\ (slot'[i].state \in Released => slot'[i].state = slot[i].state)
<1>1. slot'[j] = s /\ \A i \in Job \ {j} : slot'[i] = slot[i] BY DEF Slots
<1>2. slot' \in [Job -> SlotRow] BY DEF Slots
<1> QED BY <1>1, <1>2

LEMMA DequeueIs ==
  ASSUME tick \in TickRow, NEW p \in Perm, Dequeue(p)
  PROVE  tick' \in TickRow /\ tick'.pc = "handle"
<1>1. [tick.read EXCEPT ![p] = {}] \in [Perm -> SUBSET Trait] BY DEF TickRow
<1> QED BY <1>1 DEF Dequeue, TickRow, PC, Replies

LEMMA SkipStep ==
  ASSUME SchedInv, NEW p \in Perm, Skip(p)
  PROVE  SchedInv'
<1>1. tick \in TickRow /\ faults \in Nat /\ Slots /\ cancel \in [Job -> {"none", "marked", "made"}]
  BY DEF SchedInv, TickInv, World
<1>2. Up /\ UNCHANGED <<record, decided, cancel, world, faults, crashes>> BY DEF Skip, At, Up
<1>3. tick' \in TickRow /\ tick'.pc = "handle" BY <1>1, DequeueIs DEF Skip
<1>4. TickInv' BY <1>3, PlainTick DEF Plain
<1>5. Up' BY <1>3 DEF Up
<1>6. /\ slot' \in [Job -> SlotRow]
      /\ \A i \in Job : slot'[i].session = slot[i].session
                        /\ (slot'[i].state \in Released => slot'[i].state = slot[i].state)
  <2>1. CASE slot' = slot BY <1>1, <2>1 DEF Slots
  <2>2. CASE slot' # slot
    <3> DEFINE j == JobOf[p]
               new == [slot[j] EXCEPT !.handled = slot[j].handled \cup {p}]
    <3>1. j \in Job BY SchedulerAssumption
    <3>2. slot' = [slot EXCEPT ![j] = new] BY <2>2 DEF Skip
    <3>3. slot[j] \in SlotRow BY <1>1, <3>1 DEF Slots
    <3>4. new \in SlotRow /\ new.session = slot[j].session /\ new.state = slot[j].state
      BY <3>3 DEF SlotRow
    <3> HIDE DEF j, new
    <3> QED BY <1>1, <3>1, <3>2, <3>4, OneSlot
  <2> QED BY <2>1, <2>2
<1> QED BY <1>1, <1>2, <1>4, <1>5, <1>6, SlotStep

LEMMA AskLeadStep ==
  ASSUME SchedInv, NEW p \in Perm, AskLead(p)
  PROVE  SchedInv'
<1>1. tick \in TickRow /\ faults \in Nat /\ Slots /\ cancel \in [Job -> {"none", "marked", "made"}]
  BY DEF SchedInv, TickInv, World
<1>2. Up /\ UNCHANGED <<record, decided, cancel, world, faults, crashes>> BY DEF AskLead, At, Up
<1>3. tick' \in TickRow /\ tick'.pc = "lead" /\ tick'.perm = p /\ tick'.read = tick.read
  BY <1>1 DEF AskLead, TickRow, PC
<1>4. ~Forbidden(tick.read[p]) BY RouteIs DEF AskLead
<1>5. TickInv' BY <1>3, <1>4 DEF TickInv, Forbidden, Unchecked, Gated, Outside,
       Eternal, Secret, WantsAlways, Listed
<1>6. Up' BY <1>3 DEF Up
<1> DEFINE j == JobOf[p]
           new == [slot[j] EXCEPT !.asked = slot[j].asked \cup {p}]
<1>7. j \in Job BY SchedulerAssumption
<1>8. slot' = [slot EXCEPT ![j] = new] BY DEF AskLead
<1>9. slot[j] \in SlotRow BY <1>1, <1>7 DEF Slots
<1>10. new \in SlotRow /\ new.session = slot[j].session /\ new.state = slot[j].state
  BY <1>9 DEF SlotRow
<1> HIDE DEF j, new
<1>11. /\ slot' \in [Job -> SlotRow]
       /\ \A i \in Job : slot'[i].session = slot[i].session
                         /\ (slot'[i].state \in Released => slot'[i].state = slot[i].state)
  BY <1>1, <1>7, <1>8, <1>10, OneSlot
<1> QED BY <1>1, <1>2, <1>5, <1>6, <1>11, SlotStep

LEMMA LeadSilentStep ==
  ASSUME SchedInv, LeadSilent
  PROVE  SchedInv'
<1>1. /\ tick \in TickRow /\ faults \in Nat /\ Slots /\ tick.perm \in Perm
      /\ cancel \in [Job -> {"none", "marked", "made"}]
  BY DEF SchedInv, TickInv, World, LeadSilent, At
<1>2. Up /\ UNCHANGED <<record, decided, cancel, world, crashes>> /\ faults' \in Nat
  BY <1>1 DEF LeadSilent, At, Up, Fault
<1>3. tick' \in TickRow /\ tick'.pc = "handle" BY <1>1, DequeueIs DEF LeadSilent
<1>4. TickInv' BY <1>3, PlainTick DEF Plain
<1>5. Up' BY <1>3 DEF Up
<1> DEFINE j == JobOf[tick.perm]
           new == [slot[j] EXCEPT !.asked = slot[j].asked \ {tick.perm}]
<1>6. j \in Job BY <1>1, SchedulerAssumption
<1>7. slot' = [slot EXCEPT ![j] = new] BY DEF LeadSilent
<1>8. slot[j] \in SlotRow BY <1>1, <1>6 DEF Slots
<1>9. new \in SlotRow /\ new.session = slot[j].session /\ new.state = slot[j].state
  BY <1>8 DEF SlotRow
<1> HIDE DEF j, new
<1>10. /\ slot' \in [Job -> SlotRow]
       /\ \A i \in Job : slot'[i].session = slot[i].session
                         /\ (slot'[i].state \in Released => slot'[i].state = slot[i].state)
  BY <1>1, <1>6, <1>7, <1>9, OneSlot
<1> QED BY <1>1, <1>2, <1>4, <1>5, <1>10, SlotStep

\* A refused job fails; any other slot stays as it was.
LEMMA DeniedIs ==
  ASSUME NEW s \in SlotRow
  PROVE  /\ Denied(s) \in SlotRow /\ Denied(s).session = s.session
         /\ Denied(s).state \in {s.state, "fail"}
  BY DEF Denied, SlotRow, State, Terminal

LEMMA ConfirmFailsStep ==
  ASSUME SchedInv, ConfirmFails
  PROVE  SchedInv'
<1>1. /\ tick \in TickRow /\ faults \in Nat /\ Slots /\ tick.perm \in Perm
      /\ cancel \in [Job -> {"none", "marked", "made"}]
  BY DEF SchedInv, TickInv, World, ConfirmFails, At
<1>2. Up /\ UNCHANGED <<record, decided, cancel, world, crashes>> /\ faults' \in Nat
  BY <1>1 DEF ConfirmFails, At, Up, Fault
<1>3. tick' \in TickRow /\ tick'.pc = "handle" BY <1>1, DequeueIs DEF ConfirmFails
<1>4. TickInv' BY <1>3, PlainTick DEF Plain
<1>5. Up' BY <1>3 DEF Up
<1> DEFINE j == JobOf[tick.perm]
           new == Denied(slot[j])
<1>6. j \in Job BY <1>1, SchedulerAssumption
<1>7. slot' = [slot EXCEPT ![j] = new] BY DEF ConfirmFails
<1>8. slot[j] \in SlotRow BY <1>1, <1>6 DEF Slots
<1>9. new \in SlotRow /\ new.session = slot[j].session /\ new.state \in {slot[j].state, "fail"}
  BY <1>8, DeniedIs
<1> HIDE DEF j, new
<1>10. /\ slot' \in [Job -> SlotRow]
       /\ \A i \in Job : slot'[i].session = slot[i].session
                         /\ (slot'[i].state \in Released => slot'[i].state = slot[i].state)
  BY <1>1, <1>6, <1>7, <1>9, OneSlot DEF Released
<1> QED BY <1>1, <1>2, <1>4, <1>5, <1>10, SlotStep

LEMMA RequestCancelStep ==
  ASSUME SchedInv, NEW j \in Job, RequestCancel(j)
  PROVE  SchedInv'
<1>1. faults \in Nat /\ Slots /\ TickInv /\ cancel \in [Job -> {"none", "marked", "made"}]
  BY DEF SchedInv, World
<1>2. Up /\ UNCHANGED <<record, decided, tick, world, faults, crashes>> BY DEF RequestCancel
<1> DEFINE new == [slot[j] EXCEPT !.state = "cancel_requested"]
<1>3. slot' = [slot EXCEPT ![j] = new] BY DEF RequestCancel
<1>4. slot[j] \in SlotRow BY <1>1 DEF Slots
<1>5. new \in SlotRow /\ new.session = slot[j].session /\ new.state = "cancel_requested"
  BY <1>4 DEF SlotRow, State, Active
<1> HIDE DEF new
<1>6. /\ slot' \in [Job -> SlotRow]
      /\ \A i \in Job : slot'[i].session = slot[i].session
                        /\ (slot'[i].state \in Released => slot'[i].state = slot[i].state)
  BY <1>1, <1>3, <1>5, OneSlot DEF Released
<1>7. cancel' \in [Job -> {"none", "marked", "made"}] BY <1>1 DEF RequestCancel
<1>8. \A i \in Job : slot[i].state \notin Terminal => slot'[i].state \notin Terminal
  BY <1>1, <1>3, <1>5 DEF Slots, Terminal
<1>9. session' = session BY <1>2 DEF world
<1>10. TickInv' BY <1>1, <1>2, <1>8, <1>9 DEF TickInv, Forbidden, Unchecked, Gated, Outside,
       Eternal, Secret, WantsAlways, Listed
<1>11. Up' BY <1>2 DEF Up
<1> QED BY <1>1, <1>2, <1>6, <1>7, <1>10, <1>11, SlotStep

\* Started: the slot runs, with its deadline.
LEMMA StartedStep ==
  ASSUME SchedInv, Started
  PROVE  SchedInv'
<1>1. tick \in TickRow /\ Slots /\ World /\ tick.job \in Job
  BY DEF SchedInv, TickInv, Started, At
<1>2. Up /\ UNCHANGED <<decided, cancel, world, faults, crashes>> BY DEF Started, At, Up
<1> DEFINE j == tick.job
           new == [slot[j] EXCEPT !.state = "running", !.started = TRUE]
<1>3. slot[j] \in SlotRow BY <1>1 DEF Slots
<1>4. new \in SlotRow /\ new.state = "running" /\ new.session = slot[j].session
  BY <1>3 DEF SlotRow, State, Active
<1>5. Save(j, new) BY DEF Started
<1>6. slot[j].session = record[j].session BY <1>1, <1>2 DEF SchedInv, JobInv
<1>7. tick' \in TickRow /\ tick'.pc = "start" BY <1>1 DEF Started, Goto, TickRow, PC
<1> HIDE DEF new
<1>8. /\ Slots' /\ slot'[j] = new /\ record'[j] = RecordOf(new)
      /\ \A i \in Job \ {j} : slot'[i] = slot[i] /\ record'[i] = record[i]
  BY <1>1, <1>4, <1>5, SaveMoves
<1>9. RecordOf(new).state = "running" /\ RecordOf(new).session = new.session BY <1>4, RecordIs
<1>10. ASSUME NEW i \in Job PROVE KeepsSlots(i)
  <2>1. CASE i = j BY <1>4, <1>6, <1>8, <1>9, <2>1 DEF KeepsSlots, Released
  <2>2. CASE i # j BY <1>8, <2>2 DEF KeepsSlots
  <2> QED BY <2>1, <2>2
<1>11. session' = session /\ ask' = ask /\ late' = late BY <1>2 DEF world
<1>12. Up' BY <1>7 DEF Up
<1>13. (\A i \in Job : JobInv(i)') /\ (\A p \in Perm : AskInv(p)')
  BY <1>2, <1>10, <1>11, <1>12, JobsStay
<1>14. TickInv' BY <1>7, PlainTick DEF Plain
<1>15. World' BY <1>1, <1>2, <1>11 DEF World
<1> QED BY <1>8, <1>13, <1>14, <1>15 DEF SchedInv

\* The decision is recorded: the slot is persisted before a refused job fails.
LEMMA RecordDecisionStep ==
  ASSUME SchedInv, RecordDecision
  PROVE  SchedInv'
<1>1. tick \in TickRow /\ Slots /\ World /\ tick.perm \in Perm
  BY DEF SchedInv, TickInv, RecordDecision, At
<1>2. Up /\ UNCHANGED <<cancel, world, faults, crashes>> BY DEF RecordDecision, At, Up
<1> DEFINE j == JobOf[tick.perm]
           s == Handled(slot[j], tick.perm)
<1>3. j \in Job BY <1>1, SchedulerAssumption
<1>4. slot[j] \in SlotRow BY <1>1, <1>3 DEF Slots
<1>5. /\ s \in SlotRow /\ s.session = slot[j].session
      /\ s.state \in Released => s.state = slot[j].state
  BY <1>1, <1>4 DEF Handled, SlotRow, State, Active, Released
<1>6. record' = [record EXCEPT ![j] = RecordOf(s)] /\ slot' = [slot EXCEPT ![j] = Denied(s)]
  BY DEF RecordDecision
<1>7. slot[j].session = record[j].session BY <1>2, <1>3 DEF SchedInv, JobInv
<1>8. tick' \in TickRow /\ tick'.pc = "handle" BY <1>1, DequeueIs DEF RecordDecision
<1>9. decided' \in [Perm -> {"none", "once", "reject"}]
  BY <1>1 DEF World, RecordDecision, ReplyOf
<1> HIDE DEF s, j
<1>10. /\ RecordOf(s) \in RecordRow /\ RecordOf(s).state = s.state
       /\ RecordOf(s).session = s.session
  BY <1>5, RecordIs
<1>11. /\ Denied(s) \in SlotRow /\ Denied(s).session = s.session
       /\ Denied(s).state \in {s.state, "fail"}
  BY <1>5, DeniedIs
<1>12. Slots' BY <1>1, <1>3, <1>6, <1>10, <1>11 DEF Slots
<1>13. slot'[j] = Denied(s) /\ record'[j] = RecordOf(s) BY <1>1, <1>3, <1>6 DEF Slots
<1>14. \A i \in Job \ {j} : slot'[i] = slot[i] /\ record'[i] = record[i]
  BY <1>1, <1>6 DEF Slots
<1>15. ASSUME NEW i \in Job PROVE KeepsSlots(i)
  <2>1. CASE i = j BY <1>5, <1>7, <1>10, <1>11, <1>13, <2>1 DEF KeepsSlots, Released
  <2>2. CASE i # j BY <1>14, <2>2 DEF KeepsSlots
  <2> QED BY <2>1, <2>2
<1>16. session' = session /\ ask' = ask /\ late' = late BY <1>2 DEF world
<1>17. Up' BY <1>8 DEF Up
<1>18. (\A i \in Job : JobInv(i)') /\ (\A p \in Perm : AskInv(p)')
  BY <1>2, <1>15, <1>16, <1>17, JobsStay
<1>19. TickInv' BY <1>8, PlainTick DEF Plain
<1>20. World' BY <1>1, <1>2, <1>9, <1>16 DEF World
<1> QED BY <1>12, <1>18, <1>19, <1>20 DEF SchedInv

\* The cancel reaches the store after the slot.
LEMMA StoreCancelStep ==
  ASSUME SchedInv, NEW j \in Job, StoreCancel(j)
  PROVE  SchedInv'
<1>1. Slots /\ World /\ TickInv BY DEF SchedInv
<1>2. Up /\ UNCHANGED <<slot, decided, tick, world, faults, crashes>> BY DEF StoreCancel
<1>3. \A i \in Job : record[i] \in RecordRow BY <1>1 DEF Slots
<1>4. \A i \in Job : /\ record'[i] \in RecordRow /\ record'[i].session = record[i].session
                     /\ record'[i].state \in {record[i].state, "cancel_requested"}
  BY <1>1, <1>3 DEF StoreCancel, Slots, RecordRow, State, Active
<1>5. Slots' BY <1>1, <1>2, <1>4 DEF StoreCancel, Slots
<1>6. World' BY <1>1, <1>2 DEF World, StoreCancel, world
<1>7. session' = session /\ ask' = ask BY <1>2 DEF world
<1>8. TickInv'
  BY <1>1, <1>2, <1>4, <1>7 DEF TickInv, Terminal, Forbidden, Unchecked, Gated, Outside,
         Eternal, Secret, WantsAlways, Listed
<1>9. \A i \in Job : KeepsSlots(i) BY <1>2, <1>4 DEF KeepsSlots, Released
<1>10. Up' BY <1>2 DEF Up
<1>11. (\A i \in Job : JobInv(i)') /\ (\A p \in Perm : AskInv(p)')
  BY <1>2, <1>7, <1>9, <1>10, JobsStay
<1> QED BY <1>5, <1>6, <1>8, <1>11 DEF SchedInv

\* The steps of the workers: a busy session may end, no other session changes its state.
LEMMA WorkerStep ==
  ASSUME SchedInv, UNCHANGED <<slot, record, decided, cancel>>, Up' => Up,
         session' \in [Job -> SessionRow], ask' \in [Perm -> AskRow], late' \in [Job -> BOOLEAN],
         UNCHANGED <<faults, crashes>>, TickInv',
         \A j \in Job : /\ session'[j].prompts = session[j].prompts
                        /\ \/ session'[j].state = session[j].state
                           \/ session[j].state = "busy" /\ session'[j].state # "busy",
         \A p \in Perm : AskInv(p)'
  PROVE  SchedInv'
<1>1. Slots /\ World BY DEF SchedInv
<1>2. Slots' /\ World' BY <1>1 DEF Slots, World
<1>3. ASSUME NEW j \in Job PROVE JobInv(j)'
  <2>1. JobInv(j) BY DEF SchedInv
  <2>2. slot' = slot /\ record' = record OBVIOUS
  <2>3. ~record[j].session => session'[j].state = "none" /\ session'[j].prompts = 0
    BY <2>1 DEF JobInv
  <2>4. session'[j].prompts <= 1 BY <2>1 DEF JobInv
  <2>5. slot[j].state \in Released \/ record[j].state \in Released => session'[j].state # "busy"
    BY <2>1 DEF JobInv
  <2>6. Up' => slot[j].session = record[j].session BY <2>1 DEF JobInv
  <2> QED BY <2>2, <2>3, <2>4, <2>5, <2>6 DEF JobInv, Released
<1> QED BY <1>2, <1>3 DEF SchedInv

\* Requests that were given no other reply stay allowed.
LEMMA RepliesStay ==
  ASSUME SchedInv,
         \A p \in Perm : ask'[p].reply = ask[p].reply /\ ask'[p].granted = ask[p].granted
  PROVE  \A p \in Perm : AskInv(p)'
  BY DEF SchedInv, AskInv, Forbidden, Unchecked, Gated, Outside,
         Eternal, Secret, WantsAlways, Listed

\* What the thread knows does not hang on a session that is busy.
LEMMA TickStays ==
  ASSUME SchedInv, UNCHANGED <<slot, record, tick>>,
         \A j \in Job : session'[j].prompts = session[j].prompts
                        /\ (session[j].state = "finished" => session'[j].state = "finished")
  PROVE  TickInv'
  BY DEF SchedInv, TickInv, Forbidden, Unchecked, Gated, Outside,
         Eternal, Secret, WantsAlways, Listed

LEMMA FinishStep ==
  ASSUME SchedInv, NEW j \in Job, Finish(j)
  PROVE  SchedInv'
<1>1. World BY DEF SchedInv
<1>2. UNCHANGED <<slot, record, decided, tick, cancel, ask, late, faults, crashes>> BY DEF Finish
<1>3. PICK st \in {"finished", "errored", "partial"} : session' = [session EXCEPT ![j].state = st]
  BY DEF Finish
<1>4. session[j].state = "busy" BY DEF Finish, Busy
<1> DEFINE new == [session[j] EXCEPT !.state = st]
<1>5. session[j] \in SessionRow BY <1>1 DEF World
<1>6. new \in SessionRow /\ new.state = st /\ new.prompts = session[j].prompts
  BY <1>5 DEF SessionRow
<1>7. session' = [session EXCEPT ![j] = new] BY <1>3
<1> HIDE DEF new
<1>8. session'[j] = new /\ \A i \in Job \ {j} : session'[i] = session[i] BY <1>1, <1>7 DEF World
<1>9. session' \in [Job -> SessionRow] BY <1>1, <1>6, <1>7 DEF World
<1>10. \A i \in Job : /\ session'[i].prompts = session[i].prompts
                      /\ \/ session'[i].state = session[i].state
                         \/ session[i].state = "busy" /\ session'[i].state # "busy"
  BY <1>4, <1>6, <1>8
<1>11. TickInv' BY <1>2, <1>10, TickStays
<1>12. Up' => Up BY <1>2 DEF Up
<1>13. ask' \in [Perm -> AskRow] /\ late' \in [Job -> BOOLEAN] BY <1>1, <1>2 DEF World
<1>14. \A p \in Perm : AskInv(p)' BY <1>2, AsksStay
<1> QED BY <1>2, <1>9, <1>10, <1>11, <1>12, <1>13, <1>14, WorkerStep

LEMMA StopStep ==
  ASSUME SchedInv, NEW j \in Job, Stop(j)
  PROVE  SchedInv'
<1>1. World BY DEF SchedInv
<1>2. UNCHANGED <<slot, record, decided, tick, cancel, late, faults, crashes>> BY DEF Stop
<1>3. session[j].state = "busy" BY DEF Stop, Busy
<1> DEFINE new == [session[j] EXCEPT !.state = "stopped"]
<1>4. session[j] \in SessionRow BY <1>1 DEF World
<1>5. new \in SessionRow /\ new.state = "stopped" /\ new.prompts = session[j].prompts
  BY <1>4 DEF SessionRow
<1>6. session' = [session EXCEPT ![j] = new] BY DEF Stop
<1> HIDE DEF new
<1>7. session'[j] = new /\ \A i \in Job \ {j} : session'[i] = session[i] BY <1>1, <1>6 DEF World
<1>8. session' \in [Job -> SessionRow] BY <1>1, <1>5, <1>6 DEF World
<1>9. \A i \in Job : /\ session'[i].prompts = session[i].prompts
                     /\ \/ session'[i].state = session[i].state
                        \/ session[i].state = "busy" /\ session'[i].state # "busy"
  BY <1>3, <1>5, <1>7
<1>10. TickInv' BY <1>2, <1>9, TickStays
<1>11. Up' => Up BY <1>2 DEF Up
<1>12. \A p \in Perm : ask[p] \in AskRow BY <1>1 DEF World
<1>13. \A p \in Perm : \/ ask'[p] = ask[p]
                        \/ ask'[p] = [ask[p] EXCEPT !.state = "closed", !.wants = {}]
  BY DEF Stop
<1>14. \A p \in Perm : /\ ask'[p] \in AskRow
                        /\ ask'[p].reply = ask[p].reply /\ ask'[p].granted = ask[p].granted
  <2> SUFFICES ASSUME NEW p \in Perm
               PROVE  /\ ask'[p] \in AskRow
                      /\ ask'[p].reply = ask[p].reply /\ ask'[p].granted = ask[p].granted
    OBVIOUS
  <2>1. ask[p] \in AskRow BY <1>12
  <2>2. CASE ask'[p] = ask[p] BY <2>1, <2>2
  <2>3. CASE ask'[p] = [ask[p] EXCEPT !.state = "closed", !.wants = {}] BY <2>1, <2>3 DEF AskRow
  <2> QED BY <1>13, <2>2, <2>3
<1>15. ask' = [p \in Perm |-> ask'[p]] BY DEF Stop
<1>16. ask' \in [Perm -> AskRow] BY <1>14, <1>15
<1>17. late' \in [Job -> BOOLEAN] BY <1>1, <1>2 DEF World
<1>18. \A p \in Perm : AskInv(p)' BY <1>14, RepliesStay
<1> QED BY <1>2, <1>8, <1>9, <1>10, <1>11, <1>16, <1>17, <1>18, WorkerStep

\* The worker asks, or what it asks for changes: nothing is granted by that.
LEMMA AskStep ==
  ASSUME SchedInv, NEW p \in Perm, Ask(p) \/ Change(p)
  PROVE  SchedInv'
<1>1. World BY DEF SchedInv
<1>2. UNCHANGED <<slot, record, decided, tick, cancel, session, late, faults, crashes>>
  BY DEF Ask, Change
<1>3. PICK w \in Contents[p], st \in {"none", "open", "closed"} :
        ask' = [ask EXCEPT ![p] = [ask[p] EXCEPT !.state = st, !.wants = w]]
  <2>1. CASE Ask(p) BY <2>1 DEF Ask
  <2>2. CASE Change(p)
    <3>1. PICK w \in Contents[p] : ask' = [ask EXCEPT ![p].wants = w] BY <2>2 DEF Change
    <3>2. ask[p] \in AskRow BY <1>1 DEF World
    <3>3. [ask[p] EXCEPT !.wants = w] = [ask[p] EXCEPT !.state = ask[p].state, !.wants = w]
      BY <3>2 DEF AskRow
    <3>4. ask[p].state \in {"none", "open", "closed"} BY <3>2 DEF AskRow
    <3> QED BY <3>1, <3>3, <3>4
  <2> QED BY <2>1, <2>2
<1> DEFINE new == [ask[p] EXCEPT !.state = st, !.wants = w]
<1>4. ask[p] \in AskRow /\ w \in SUBSET Trait BY <1>1, SchedulerAssumption DEF World
<1>5. new \in AskRow /\ new.reply = ask[p].reply /\ new.granted = ask[p].granted
  BY <1>4 DEF AskRow
<1>6. ask' = [ask EXCEPT ![p] = new] BY <1>3
<1> HIDE DEF new
<1>7. /\ ask' \in [Perm -> AskRow]
      /\ \A q \in Perm : ask'[q].reply = ask[q].reply /\ ask'[q].granted = ask[q].granted
  BY <1>1, <1>5, <1>6 DEF World
<1>8. TickInv' BY <1>2, TickStays
<1>9. Up' => Up BY <1>2 DEF Up
<1>10. session' \in [Job -> SessionRow] /\ late' \in [Job -> BOOLEAN] BY <1>1, <1>2 DEF World
<1>11. \A q \in Perm : AskInv(q)' BY <1>7, RepliesStay
<1> QED BY <1>2, <1>7, <1>8, <1>9, <1>10, <1>11, WorkerStep

LEMMA ExpireStep ==
  ASSUME SchedInv, NEW j \in Job, Expire(j)
  PROVE  SchedInv'
<1>1. World BY DEF SchedInv
<1>2. UNCHANGED <<slot, record, decided, tick, cancel, session, ask, faults, crashes>> BY DEF Expire
<1>3. late' \in [Job -> BOOLEAN] BY <1>1 DEF World, Expire
<1>4. TickInv' BY <1>2, TickStays
<1>5. Up' => Up BY <1>2 DEF Up
<1>6. session' \in [Job -> SessionRow] /\ ask' \in [Perm -> AskRow] BY <1>1, <1>2 DEF World
<1>7. \A p \in Perm : AskInv(p)' BY <1>2, AsksStay
<1> QED BY <1>2, <1>3, <1>4, <1>5, <1>6, <1>7, WorkerStep

LEMMA RequestAbortStep ==
  ASSUME SchedInv, NEW j \in Job, RequestAbort(j)
  PROVE  SchedInv'
<1>1. World /\ tick \in TickRow BY DEF SchedInv, TickInv
<1>2. Up /\ UNCHANGED <<slot, record, decided, cancel, ask, late, faults, crashes>>
  BY DEF RequestAbort, Refreshing, At, Up
<1> DEFINE told == session[j].told \/ session[j].state # "none"
           new == [session[j] EXCEPT !.told = told]
<1>3. session[j] \in SessionRow BY <1>1 DEF World
<1>4. told \in BOOLEAN OBVIOUS
<1>5. session' = [session EXCEPT ![j] = new] BY DEF RequestAbort
<1> HIDE DEF told
<1>6. new \in SessionRow /\ new.state = session[j].state /\ new.prompts = session[j].prompts
  BY <1>3, <1>4 DEF SessionRow
<1> HIDE DEF new
<1>7. session' \in [Job -> SessionRow] BY <1>1, <1>5, <1>6 DEF World
<1>8. \A i \in Job : session'[i].prompts = session[i].prompts /\ session'[i].state = session[i].state
  BY <1>1, <1>5, <1>6 DEF World
<1>9. /\ tick' \in TickRow /\ tick'.pc = "confirm" /\ tick'.job = j
      /\ tick'.reply \in {"cancelled", "timeout"}
  BY <1>1 DEF RequestAbort, TickRow, PC, Replies
<1>10. TickInv' BY <1>9 DEF TickInv
<1>11. Up' => Up BY <1>2
<1>12. ask' \in [Perm -> AskRow] /\ late' \in [Job -> BOOLEAN] BY <1>1, <1>2 DEF World
<1>13. \A p \in Perm : AskInv(p)' BY <1>2, AsksStay
<1> QED BY <1>2, <1>7, <1>8, <1>10, <1>11, <1>12, <1>13, WorkerStep

\* The confirmation changes nothing: the request still wants what was read.
LEMMA ConfirmStep ==
  ASSUME SchedInv, Confirm
  PROVE  SchedInv'
<1>1. /\ World /\ tick \in TickRow /\ tick.perm \in Perm
      /\ tick.reply = "once" => ~Forbidden(tick.read[tick.perm])
  BY DEF SchedInv, TickInv, Confirm, At
<1>2. Up /\ UNCHANGED <<slot, record, decided, cancel, world, faults, crashes>>
  BY DEF Confirm, At, Up
<1>3. ask[tick.perm].wants = tick.read[tick.perm] BY DEF Confirm, Unchanged
<1>4. [tick.read EXCEPT ![tick.perm] = ask[tick.perm].wants] = tick.read
  BY <1>1, <1>3 DEF TickRow
<1>5. tick' = [tick EXCEPT !.pc = "post"] BY <1>1, <1>4 DEF Confirm, TickRow
<1>6. /\ tick' \in TickRow /\ tick'.pc = "post" /\ tick'.perm = tick.perm
      /\ tick'.reply = tick.reply /\ tick'.read = tick.read
  BY <1>1, <1>5 DEF TickRow, PC
<1>7. TickInv' BY <1>1, <1>6 DEF TickInv, Forbidden, Unchecked, Gated, Outside,
       Eternal, Secret, WantsAlways, Listed
<1>8. Up' BY <1>6 DEF Up
<1>9. faults' \in Nat BY <1>1, <1>2 DEF World
<1> QED BY <1>2, <1>7, <1>8, <1>9, TickStep

\* What is granted is what was read, and that is not forbidden.
LEMMA TakenIs ==
  ASSUME SchedInv, tick.pc = "post", Taken
  PROVE  ask' \in [Perm -> AskRow] /\ \A p \in Perm : AskInv(p)'
<1>1. /\ World /\ tick \in TickRow /\ tick.perm \in Perm
      /\ tick.reply = "once" => ~Forbidden(tick.read[tick.perm])
  BY DEF SchedInv, TickInv
<1> DEFINE r == ReplyOf(tick.reply)
           g == IF r = "once" THEN tick.read[tick.perm] ELSE {}
           new == [state |-> "closed", wants |-> {}, reply |-> r, granted |-> g]
<1>2. r \in {"once", "reject"} /\ (r = "once" => tick.reply = "once")
  BY <1>1 DEF TickRow, Replies, ReplyOf
<1>3. g \in SUBSET Trait BY <1>1 DEF TickRow
<1>4. r = "once" => ~Forbidden(g) BY <1>1, <1>2
<1>5. ask' = [ask EXCEPT ![tick.perm] = new] BY DEF Taken
<1> HIDE DEF r, g
<1>6. new \in AskRow /\ new.reply = r /\ new.granted = g BY <1>2, <1>3 DEF AskRow
<1> HIDE DEF new
<1>7. ask' \in [Perm -> AskRow] BY <1>1, <1>5, <1>6 DEF World
<1>8. ASSUME NEW p \in Perm PROVE AskInv(p)'
  <2>1. CASE p = tick.perm
    <3>1. ask'[p].reply = r /\ ask'[p].granted = g BY <1>1, <1>5, <1>6, <2>1 DEF World
    <3> QED BY <1>4, <3>1 DEF AskInv, Forbidden, Unchecked, Gated, Outside,
           Eternal, Secret, WantsAlways, Listed
  <2>2. CASE p # tick.perm
    <3>1. ask'[p] = ask[p] BY <1>1, <1>5, <2>2 DEF World
    <3>2. AskInv(p) BY DEF SchedInv
    <3> QED BY <3>1, <3>2 DEF AskInv, Forbidden, Unchecked, Gated, Outside,
           Eternal, Secret, WantsAlways, Listed
  <2> QED BY <2>1, <2>2
<1> QED BY <1>7, <1>8

LEMMA ReplyStep ==
  ASSUME SchedInv, Reply
  PROVE  SchedInv'
<1>1. World /\ tick \in TickRow /\ tick.perm \in Perm BY DEF SchedInv, TickInv, Reply, At
<1>2. Up /\ UNCHANGED <<slot, record, decided, cancel, session, late, faults, crashes>>
  BY DEF Reply, At, Up
<1>3. ask' \in [Perm -> AskRow] /\ \A p \in Perm : AskInv(p)' BY TakenIs DEF Reply, At
<1>4. tick' \in TickRow /\ tick'.pc = "answered" /\ tick'.perm = tick.perm
  BY <1>1 DEF Reply, Goto, TickRow, PC
<1>5. TickInv' BY <1>1, <1>4 DEF TickInv
<1>6. session' \in [Job -> SessionRow] /\ late' \in [Job -> BOOLEAN] BY <1>1, <1>2 DEF World
<1> QED BY <1>2, <1>3, <1>5, <1>6, WorkerStep

\* The reply may have been taken all the same.
LEMMA ReplyFailsStep ==
  ASSUME SchedInv, ReplyFails
  PROVE  SchedInv'
<1>1. /\ tick \in TickRow /\ World /\ Slots /\ tick.perm \in Perm
  BY DEF SchedInv, TickInv, ReplyFails, At
<1>2. Up /\ UNCHANGED <<record, decided, cancel, session, late, crashes>> /\ faults' \in Nat
  BY <1>1 DEF ReplyFails, At, Up, Fault, World
<1>3. ask' \in [Perm -> AskRow] /\ \A p \in Perm : AskInv(p)'
  <2>1. CASE Taken BY <2>1, TakenIs DEF ReplyFails, At
  <2>2. CASE UNCHANGED ask BY <1>1, <2>2, AsksStay DEF World
  <2> QED BY <2>1, <2>2 DEF ReplyFails
<1>4. tick' \in TickRow /\ tick'.pc = "handle" BY <1>1, DequeueIs DEF ReplyFails
<1>5. TickInv' BY <1>4, PlainTick DEF Plain
<1>6. Up' BY <1>4 DEF Up
<1> DEFINE j == JobOf[tick.perm]
           new == Denied(slot[j])
<1>7. j \in Job BY <1>1, SchedulerAssumption
<1>8. slot' = [slot EXCEPT ![j] = new] BY DEF ReplyFails
<1>9. slot[j] \in SlotRow BY <1>1, <1>7 DEF Slots
<1>10. new \in SlotRow /\ new.session = slot[j].session /\ new.state \in {slot[j].state, "fail"}
  BY <1>9, DeniedIs
<1> HIDE DEF j, new
<1>11. /\ slot' \in [Job -> SlotRow]
       /\ \A i \in Job : slot'[i].session = slot[i].session
                         /\ (slot'[i].state \in Released => slot'[i].state = slot[i].state)
  BY <1>1, <1>7, <1>8, <1>10, OneSlot DEF Released
<1>12. \A i \in Job : KeepsSlots(i) BY <1>2, <1>11 DEF KeepsSlots
<1>13. \A i \in Job : JobInv(i)' BY <1>2, <1>6, <1>12, JobsKept
<1>14. Slots' /\ World' BY <1>1, <1>2, <1>3, <1>11 DEF Slots, World
<1> QED BY <1>3, <1>5, <1>13, <1>14 DEF SchedInv

\* The claim: the session is known to the slot and to the store before it is prompted.
LEMMA ClaimSessionStep ==
  ASSUME SchedInv, ClaimSession
  PROVE  SchedInv'
<1>1. /\ World /\ Slots /\ tick \in TickRow /\ tick.job \in Job
      /\ slot[tick.job].state \notin Terminal
  BY DEF SchedInv, TickInv, ClaimSession, At
<1>2. Up /\ UNCHANGED <<decided, cancel, ask, late, faults, crashes>> BY DEF ClaimSession, At, Up
<1> DEFINE j == tick.job
           s == [slot[j] EXCEPT !.session = TRUE]
           r == [record[j] EXCEPT !.session = TRUE]
           w == [session[j] EXCEPT !.state = "idle"]
<1>3. slot[j] \in SlotRow /\ record[j] \in RecordRow /\ session[j] \in SessionRow
  BY <1>1 DEF Slots, World
<1>4. s \in SlotRow /\ s.session = TRUE /\ s.state = slot[j].state BY <1>3 DEF SlotRow
<1>5. r \in RecordRow /\ r.session = TRUE /\ r.state = record[j].state BY <1>3 DEF RecordRow
<1>6. w \in SessionRow /\ w.state = "idle" /\ w.prompts = session[j].prompts
  BY <1>3 DEF SessionRow
<1>7. /\ slot' = [slot EXCEPT ![j] = s] /\ record' = [record EXCEPT ![j] = r]
      /\ session' = [session EXCEPT ![j] = w]
  BY DEF ClaimSession
<1>8. ~record[j].session /\ record[j].state \notin Terminal BY DEF ClaimSession, ShouldDispatch
<1>9. session[j].prompts = 0 BY <1>1, <1>8 DEF SchedInv, JobInv
<1>10. tick' \in TickRow /\ tick'.pc = "prompt" /\ tick'.job = j
  BY <1>1 DEF ClaimSession, Goto, TickRow, PC
<1>11. j \in Job BY <1>1
<1> HIDE DEF s, r, w, j
<1>12. slot'[j] = s /\ record'[j] = r /\ session'[j] = w BY <1>1, <1>7, <1>11 DEF Slots, World
<1>13. \A i \in Job \ {j} : slot'[i] = slot[i] /\ record'[i] = record[i] /\ session'[i] = session[i]
  BY <1>1, <1>7 DEF Slots, World
<1>14. Slots' BY <1>1, <1>4, <1>5, <1>7 DEF Slots
<1>15. World' BY <1>1, <1>2, <1>6, <1>7 DEF World
<1>16. slot[j].state \notin Terminal BY <1>1 DEF j
<1>17. TickInv' BY <1>4, <1>5, <1>6, <1>8, <1>9, <1>10, <1>11, <1>12, <1>16 DEF TickInv
<1>18. ASSUME NEW i \in Job PROVE JobInv(i)'
  <2>1. CASE i = j
    <3>1. slot'[i].session = record'[i].session BY <1>4, <1>5, <1>12, <2>1
    <3>2. record'[i].session BY <1>5, <1>12, <2>1
    <3>3. session'[i].state = "idle" /\ session'[i].prompts = 0 BY <1>6, <1>9, <1>12, <2>1
    <3>4. session'[i].prompts <= 1 BY <3>3
    <3> QED BY <3>1, <3>2, <3>3, <3>4 DEF JobInv
  <2>2. CASE i # j
    <3>1. JobInv(i) BY DEF SchedInv
    <3> QED BY <1>2, <1>13, <2>2, <3>1 DEF JobInv, Released
  <2> QED BY <2>1, <2>2
<1>19. \A p \in Perm : AskInv(p)' BY <1>2, AsksStay
<1> QED BY <1>14, <1>15, <1>17, <1>18, <1>19 DEF SchedInv

\* The only prompt: the claimed session had none.
LEMMA PromptMoves ==
  ASSUME SchedInv, tick.pc = "prompt", Prompted(tick.job)
  PROVE  /\ session' \in [Job -> SessionRow]
         /\ session'[tick.job].prompts = 1
         /\ \A i \in Job \ {tick.job} : session'[i] = session[i]
<1>1. World /\ tick.job \in Job /\ session[tick.job].prompts = 0 BY DEF SchedInv, TickInv
<1> DEFINE j == tick.job
           n == session[j].prompts + 1
           w == [session[j] EXCEPT !.state = "busy", !.prompts = n]
<1>2. session[j] \in SessionRow BY <1>1 DEF World
<1>3. n = 1 BY <1>1
<1>4. session' = [session EXCEPT ![j] = w] BY DEF Prompted
<1>5. j \in Job BY <1>1
<1> HIDE DEF n
<1>9. n \in Nat BY <1>3
<1>10. w \in SessionRow /\ w.prompts = n BY <1>2, <1>9 DEF SessionRow
<1> HIDE DEF w
<1>6. session' \in [Job -> SessionRow] BY <1>1, <1>4, <1>10 DEF World
<1>7. session'[j] = w BY <1>1, <1>4, <1>5 DEF World
<1>8. \A i \in Job \ {j} : session'[i] = session[i] BY <1>1, <1>4 DEF World
<1> QED BY <1>3, <1>6, <1>7, <1>8, <1>10

LEMMA PromptStep ==
  ASSUME SchedInv, Prompt
  PROVE  SchedInv'
<1>1. /\ Slots /\ World /\ tick \in TickRow /\ tick.pc = "prompt" /\ tick.job \in Job
      /\ slot[tick.job].state \notin Terminal /\ record[tick.job].state \notin Terminal
      /\ record[tick.job].session
  BY DEF SchedInv, TickInv, Prompt, At
<1>2. UNCHANGED <<slot, record, decided, cancel, ask, late, faults, crashes>> BY DEF Prompt
<1>3. /\ session' \in [Job -> SessionRow] /\ session'[tick.job].prompts = 1
      /\ \A i \in Job \ {tick.job} : session'[i] = session[i]
  BY <1>1, PromptMoves DEF Prompt
<1>4. Slots' /\ World' BY <1>1, <1>2, <1>3 DEF Slots, World
<1>5. tick' \in TickRow /\ tick'.pc = "started" /\ tick'.job = tick.job
  BY <1>1 DEF Prompt, Goto, TickRow, PC
<1>6. TickInv' BY <1>1, <1>5, PlainTick DEF Plain
<1>7. Up BY <1>1 DEF Up
<1>8. ASSUME NEW i \in Job PROVE JobInv(i)'
  <2>1. JobInv(i) BY DEF SchedInv
  <2>2. CASE i = tick.job
    <3>1. slot[i].session = record[i].session BY <1>7, <2>1 DEF JobInv
    <3>2. slot[i].state \notin Released /\ record[i].state \notin Released
      BY <1>1, <2>2 DEF Terminal, Released
    <3>3. slot' = slot /\ record' = record BY <1>2
    <3>4. record[i].session BY <1>1, <2>2
    <3>5. session'[i].prompts <= 1 BY <1>3, <2>2
    <3> QED BY <3>1, <3>2, <3>3, <3>4, <3>5 DEF JobInv, Released
  <2>3. CASE i # tick.job BY <1>2, <1>3, <1>7, <2>1, <2>3 DEF JobInv, Released
  <2> QED BY <2>2, <2>3
<1>9. \A p \in Perm : AskInv(p)' BY <1>2, AsksStay
<1> QED BY <1>4, <1>6, <1>8, <1>9 DEF SchedInv

\* A lost answer: prompted or not, the job has failed.
LEMMA PromptFailsStep ==
  ASSUME SchedInv, PromptFails
  PROVE  SchedInv'
<1>1. /\ Slots /\ World /\ tick \in TickRow /\ tick.pc = "prompt" /\ tick.job \in Job
      /\ record[tick.job].session
  BY DEF SchedInv, TickInv, PromptFails, At
<1>2. UNCHANGED <<decided, cancel, ask, late, crashes>> /\ faults' \in Nat
  BY <1>1 DEF PromptFails, Fault, World
<1>3. /\ session' \in [Job -> SessionRow] /\ session'[tick.job].prompts <= 1
      /\ \A i \in Job \ {tick.job} : session'[i] = session[i]
  <2>1. CASE Prompted(tick.job)
    <3>1. /\ session' \in [Job -> SessionRow] /\ session'[tick.job].prompts = 1
          /\ \A i \in Job \ {tick.job} : session'[i] = session[i]
      BY <1>1, <2>1, PromptMoves
    <3>2. session'[tick.job].prompts <= 1 BY <3>1
    <3> QED BY <3>1, <3>2
  <2>2. CASE UNCHANGED session
    <3>1. session[tick.job].prompts = 0 BY <1>1 DEF SchedInv, TickInv
    <3> QED BY <1>1, <2>2, <3>1 DEF World
  <2> QED BY <2>1, <2>2 DEF PromptFails
<1>4. "fail" \in State /\ SetState(tick.job, "fail") BY DEF State, Terminal, PromptFails
<1>5. /\ Slots' /\ slot'[tick.job].state = "fail" /\ record'[tick.job].state = "fail"
      /\ slot'[tick.job].session = slot[tick.job].session
      /\ record'[tick.job].session = slot[tick.job].session
      /\ \A i \in Job \ {tick.job} : slot'[i] = slot[i] /\ record'[i] = record[i]
  BY <1>1, <1>4, SetMoves
<1>6. World' BY <1>1, <1>2, <1>3 DEF World
<1>7. tick' \in TickRow /\ tick'.pc = "start" BY <1>1 DEF PromptFails, Goto, TickRow, PC
<1>8. TickInv' BY <1>7, PlainTick DEF Plain
<1>9. Up BY <1>1 DEF Up
<1>10. ASSUME NEW i \in Job PROVE JobInv(i)'
  <2>1. JobInv(i) BY DEF SchedInv
  <2>2. CASE i = tick.job
    <3>1. slot[i].session = record[i].session BY <1>9, <2>1 DEF JobInv
    <3>2. slot'[i].session = record'[i].session BY <1>5, <2>2
    <3>3. slot'[i].state \notin Released /\ record'[i].state \notin Released
      BY <1>5, <2>2 DEF Released
    <3>4. record'[i].session BY <1>1, <1>5, <2>2, <3>1
    <3>5. session'[i].prompts <= 1 BY <1>3, <2>2
    <3>6. Released' = Released BY DEF Released
    <3> QED BY <3>2, <3>3, <3>4, <3>5, <3>6 DEF JobInv
  <2>3. CASE i # tick.job BY <1>3, <1>5, <1>9, <2>1, <2>3 DEF JobInv, Released
  <2> QED BY <2>2, <2>3
<1>11. \A p \in Perm : AskInv(p)' BY <1>2, AsksStay
<1> QED BY <1>5, <1>6, <1>8, <1>10, <1>11 DEF SchedInv

\* A crash loses the slots and nothing else.
LEMMA CrashStep ==
  ASSUME SchedInv, Crash
  PROVE  SchedInv'
<1>1. Slots /\ World BY DEF SchedInv
<1>2. UNCHANGED <<record, decided, session, ask, late, faults>> BY DEF Crash, world
<1>3. NewSlot \in SlotRow /\ NewSlot.state = "queued" BY DEF NewSlot, SlotRow, State
<1>4. Slots' BY <1>1, <1>2, <1>3 DEF Crash, Slots
<1>5. cancel' \in [Job -> {"none", "marked", "made"}] BY <1>1 DEF Crash, World
<1>6. World' BY <1>1, <1>2, <1>5 DEF Crash, World
<1>7. tick' \in TickRow /\ tick'.pc = "down" BY BetweenIs DEF Crash
<1>8. TickInv' BY <1>7, PlainTick DEF Plain
<1>9. ASSUME NEW j \in Job PROVE JobInv(j)'
  <2>1. JobInv(j) BY DEF SchedInv
  <2>2. ~Up' BY <1>7 DEF Up
  <2>3. slot'[j].state = "queued" BY <1>3 DEF Crash
  <2> QED BY <1>2, <2>1, <2>2, <2>3 DEF JobInv, Released
<1>10. \A p \in Perm : AskInv(p)' BY <1>2, AsksStay
<1> QED BY <1>4, <1>6, <1>8, <1>9, <1>10 DEF SchedInv

\* A restart reads the slots back from the records.
LEMMA RestartStep ==
  ASSUME SchedInv, Restart
  PROVE  SchedInv'
<1>1. Slots /\ World BY DEF SchedInv
<1>2. UNCHANGED <<record, decided, cancel, session, ask, late, faults, crashes>>
  BY DEF Restart, world
<1>3. ASSUME NEW j \in Job
      PROVE  /\ Restored(j) \in SlotRow /\ Restored(j).state = record[j].state
             /\ Restored(j).session = record[j].session
  <2>1. record[j] \in RecordRow BY <1>1 DEF Slots
  <2> QED BY <2>1 DEF Restored, SlotRow, RecordRow
<1>4. slot' = [j \in Job |-> Restored(j)] BY DEF Restart
<1>5. Slots' BY <1>1, <1>2, <1>3, <1>4 DEF Slots
<1>6. World' BY <1>1, <1>2 DEF World
<1>7. tick' \in TickRow /\ tick'.pc = "refresh"
  <2>1. "refresh" \in PC BY DEF PC
  <2> QED BY <2>1, BetweenIs DEF Restart
<1>8. TickInv' BY <1>7, PlainTick DEF Plain
<1>9. ASSUME NEW j \in Job PROVE JobInv(j)'
  <2>1. JobInv(j) BY DEF SchedInv
  <2>2. slot'[j].state = record[j].state /\ slot'[j].session = record[j].session BY <1>3, <1>4
  <2> QED BY <1>2, <2>1, <2>2 DEF JobInv, Released
<1>10. \A p \in Perm : AskInv(p)' BY <1>2, AsksStay
<1> QED BY <1>5, <1>6, <1>8, <1>9, <1>10 DEF SchedInv

LEMMA StutterStep ==
  ASSUME SchedInv, UNCHANGED vars
  PROVE  SchedInv'
<1>1. /\ slot' = slot /\ record' = record /\ decided' = decided /\ tick' = tick /\ cancel' = cancel
      /\ late' = late /\ session' = session /\ ask' = ask /\ faults' = faults /\ crashes' = crashes
  BY DEF vars
<1>2. Slots' /\ World' BY <1>1 DEF SchedInv, Slots, World
<1>3. TickInv' BY <1>1, TickStays
<1>4. \A j \in Job : JobInv(j)' BY <1>1 DEF SchedInv, JobInv, Up, Released
<1>5. \A p \in Perm : AskInv(p)' BY <1>1, AsksStay
<1> QED BY <1>2, <1>3, <1>4, <1>5 DEF SchedInv

LEMMA SchedStep ==
  ASSUME SchedInv, [Next]_vars
  PROVE  SchedInv'
<1>1. CASE Starting
  BY <1>1, MovesStep, SettleStep, StartQueuedStep, ClaimSessionStep, PromptStep, PromptFailsStep,
     StartedStep DEF Starting
<1>2. CASE Handling
  BY <1>2, ScanStep, MovesStep, LeadAnswersStep, LeadSilentStep, ConfirmStep,
     ConfirmFailsStep, ReplyStep, ReplyFailsStep,
     RecordDecisionStep, SkipStep, RuleDecidesStep, AskLeadStep DEF Handling
<1>3. CASE Refresh
  BY <1>3, MovesStep, SettleStep, RequestAbortStep, SettleOneStep, ObserveStep DEF Refresh
<1>4. CASE Crash BY <1>4, CrashStep
<1>5. CASE Restart BY <1>5, RestartStep
<1>6. CASE \E j \in Job : RequestCancel(j) \/ StoreCancel(j) \/ Working(j)
  BY <1>6, RequestCancelStep, StoreCancelStep, FinishStep, StopStep, ExpireStep DEF Working
<1>7. CASE \E p \in Perm : Ask(p) \/ Change(p) BY <1>7, AskStep
<1>8. CASE UNCHANGED vars BY <1>8, StutterStep
<1> QED BY <1>1, <1>2, <1>3, <1>4, <1>5, <1>6, <1>7, <1>8 DEF Next, Scheduling

THEOREM SchedInvariant == Spec => []SchedInv
<1>1. Init => SchedInv BY SchedInit_Inv
<1>2. SchedInv /\ [Next]_vars => SchedInv' BY SchedStep
<1> QED BY <1>1, <1>2, PTL DEF Spec

-----------------------------------------------------------------------------
(* The theorems.                                                              *)

\* Slots, records and requests, and the place of the thread, stay well formed
\* (JobSlot of scheduler.py, JobRecord of state_store.py).
THEOREM SchedTypeCorrect == Spec => []SchedTypeOK
<1>1. SchedInv => SchedTypeOK
  BY DEF SchedInv, Slots, World, TickInv, SchedTypeOK, SlotRow, RecordRow, TickRow, SessionRow,
         AskRow, PC, Replies
<1> QED BY <1>1, SchedInvariant, PTL

\* Claim before prompt, and no second claim: whatever crashes and lost answers
\* lie in between, no worker is prompted twice (_start_job_live, should_dispatch,
\* restore_from_store).
THEOREM PromptsAreSingle == Spec => []PromptedOnce
<1>1. SchedInv => PromptedOnce BY DEF SchedInv, JobInv, PromptedOnce
<1> QED BY <1>1, SchedInvariant, PTL

\* A slot that was given back has no worker that still runs, in memory and in
\* the store (_request_session_abort, refresh_job_status).
THEOREM SlotsWaitForWorkers == Spec => []StoppedBeforeReleased
<1>1. SchedInv => StoppedBeforeReleased BY DEF SchedInv, JobInv, StoppedBeforeReleased, Idle
<1> QED BY <1>1, SchedInvariant, PTL

\* What a rule forbids is never granted, by the lead, by the charter's list, after
\* a restart or by rewriting the request before the reply is confirmed
\* (hard_rule_decision, _reconfirm_pending).  What authorize_action forbids is
\* covered where it completes; where it raises, the code goes on without it.
THEOREM ForbiddenStaysRefused == Spec => []ForbiddenIsNeverGranted
<1>1. SchedInv => ForbiddenIsNeverGranted BY DEF SchedInv, AskInv, ForbiddenIsNeverGranted
<1> QED BY <1>1, SchedInvariant, PTL

=============================================================================
