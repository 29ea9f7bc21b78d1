------------------------------- MODULE Outbox -------------------------------
(***************************************************************************)
(* framework/outbox.py over framework/persist_lock.py: entity states and   *)
(* outbound events committed by one journal, the pump that delivers them,  *)
(* and the receiver that drops what it has seen.                           *)
(*                                                                         *)
(* A thread works in read-modify-write contexts: it gets the persist lock, *)
(* reloads (which replays a journal that a dead process left), does its    *)
(* body, and leaves.  A commit is the journal, the two live files and the  *)
(* removal of the journal, with a possible crash between any two of them.  *)
(* An event is named by its place in the table of rows, which is ordered   *)
(* by creation; every event has an id of its own.  The history, the notes  *)
(* and the attempt counters steer nothing and are left out.                *)
(***************************************************************************)
EXTENDS PersistLock, Lifecycle, Sequences, FiniteSets

CONSTANTS
  Writers, Pumps, Readers,   \* the threads that commit, deliver, take snapshots
  Entity,
  State,                     \* the task states that the writers commit
  NoState, NoTxn,
  MaxRows, MaxFaults         \* bounds on events before a new call, and on crashes and failing writes

Status == {"pending", "claimed", "sent"}
Row == [ent : Entity, from : State \cup {NoState}, to : State, status : Status]
Snapshot == [ents : [Entity -> State \cup {NoState}], rows : Seq(Row)]

ASSUME OutboxAssumption ==
  /\ Writers \subseteq Thread /\ Pumps \subseteq Thread /\ Readers \subseteq Thread
  /\ State \subseteq TaskState /\ NoState \notin State /\ NoTxn \notin Snapshot
  /\ MaxRows \in Nat /\ MaxFaults \in Nat

VARIABLES
  journal,    \* journal.json, or NoTxn
  entFile,    \* entities.json
  rowFile,    \* outbox.json
  inbox,      \* inbox.json: the events received, in order
  call,       \* where each thread stands
  faults

files == <<journal, entFile, rowFile, inbox>>
vars == <<mutex, depth, flock, journal, entFile, rowFile, inbox, call, faults>>

Op == {"none", "read", "commit", "claim", "sink", "receive", "mark", "snapshot"}
PC == {"idle", "mutex", "file", "reload", "body", "entities", "rows", "drop", "nested", "out"}
Idle == [pc |-> "idle", op |-> "none", replay |-> FALSE, ent |-> NoState, to |-> NoState,
         from |-> NoState, todo |-> {}]

Init ==
  /\ LockInit
  /\ journal = NoTxn
  /\ entFile = [e \in Entity |-> NoState]
  /\ rowFile = << >>
  /\ inbox = << >>
  /\ call = [t \in Thread |-> Idle]
  /\ faults = 0

\* What a reload finds: the journal, else the live files.
View == IF journal = NoTxn THEN [ents |-> entFile, rows |-> rowFile] ELSE journal

At(t, pc, op) == call[t].pc = pc /\ call[t].op = op
Goto(t, pc)   == call' = [call EXCEPT ![t].pc = pc]
GotoOp(t, op) == call' = [call EXCEPT ![t] = [@ EXCEPT !.pc = "mutex", !.op = op]]
Return(t)     == call' = [call EXCEPT ![t] = Idle]

----------------------------------------------------------------------------
(* Read-modify-write contexts. *)

EnterMutex(t) ==
  /\ call[t].pc = "mutex" /\ TakeMutex(t) /\ Goto(t, "file")
  /\ UNCHANGED <<files, faults>>
EnterFile(t) ==
  /\ call[t].pc = "file" /\ TakeFile(t) /\ Goto(t, "reload")
  /\ UNCHANGED <<files, faults>>

\* Mutant: an opened store starts from the live files and removes the journal.
ReloadDiscards(t) ==
  /\ call[t].pc = "reload" /\ Goto(t, "body")
  /\ journal' = IF call[t].op = "receive" THEN journal ELSE NoTxn
  /\ UNCHANGED <<lockVars, entFile, rowFile, inbox, faults>>
\* The outbox replays a journal it finds; the inbox has none.
Reload(t) ==
  /\ call[t].pc = "reload"
  /\ IF journal # NoTxn /\ call[t].op # "receive"
     THEN call' = [call EXCEPT ![t] = [@ EXCEPT !.pc = "entities", !.replay = TRUE]]
     ELSE Goto(t, "body")
  /\ UNCHANGED <<lockVars, files, faults>>

WriteJournal(t, txn) ==
  /\ journal' = txn
  /\ call' = [call EXCEPT ![t] = [@ EXCEPT !.pc = "entities", !.replay = FALSE]]
  /\ UNCHANGED <<lockVars, entFile, rowFile, inbox, faults>>

WriteEntities(t) ==
  /\ call[t].pc = "entities" /\ Goto(t, "rows")
  /\ entFile' = journal.ents
  /\ UNCHANGED <<lockVars, journal, rowFile, inbox, faults>>
WriteRows(t) ==
  /\ call[t].pc = "rows" /\ Goto(t, "drop")
  /\ rowFile' = journal.rows
  /\ UNCHANGED <<lockVars, journal, entFile, inbox, faults>>

\* Rows are delivered in order of creation.
First(t) == CHOOSE n \in call[t].todo : \A m \in call[t].todo : n <= m
Rest(t)  == call[t].todo \ {First(t)}

\* Where a call goes on after the context in which it committed.
AfterCommit(t) ==
  IF call[t].op = "claim" THEN call' = [call EXCEPT ![t] = [@ EXCEPT !.pc = "out", !.op = "sink"]]
  ELSE IF call[t].op = "mark" /\ Rest(t) # {}
  THEN call' = [call EXCEPT ![t] = [@ EXCEPT !.pc = "out", !.op = "sink", !.todo = Rest(t)]]
  ELSE Return(t)

\* Removing the journal may fail, which leaves it for the next reload.
Drop(t) ==
  /\ call[t].pc = "drop"
  /\ journal' \in {journal, NoTxn}
  /\ IF call[t].replay THEN Goto(t, "body") /\ UNCHANGED lockVars
                       ELSE AfterCommit(t) /\ Leave(t)
  /\ UNCHANGED <<entFile, rowFile, inbox, faults>>

----------------------------------------------------------------------------
(* commit_transition: it reads and checks in one context and commits in another. *)

StartTransition(t, e, s) ==
  /\ call[t].pc = "idle" /\ Len(View.rows) < MaxRows
  /\ call' = [call EXCEPT ![t] = [Idle EXCEPT !.pc = "mutex", !.op = "read", !.ent = e, !.to = s]]
  /\ UNCHANGED <<lockVars, files, faults>>

MayFollow(src, dst) == src = NoState \/ TaskMay(src, dst)

ReadEntity(t) ==
  LET src == View.ents[call[t].ent] IN
  /\ At(t, "body", "read") /\ Leave(t)
  /\ IF MayFollow(src, call[t].to)
     THEN call' = [call EXCEPT ![t] = [@ EXCEPT !.pc = "mutex", !.op = "commit", !.from = src]]
     ELSE Return(t)
  /\ UNCHANGED <<files, faults>>

NewRow(t) == [ent |-> call[t].ent, from |-> call[t].from, to |-> call[t].to, status |-> "pending"]

Commit(t) ==
  /\ At(t, "body", "commit")
  /\ WriteJournal(t, [ents |-> [View.ents EXCEPT ![call[t].ent] = call[t].to],
                      rows |-> Append(View.rows, NewRow(t))])

----------------------------------------------------------------------------
(* pump_outbox: claim the rows, then sink, receive and mark each of them. *)

StartPump(t) ==
  /\ call[t].pc = "idle" /\ GotoOp(t, "claim")
  /\ UNCHANGED <<lockVars, files, faults>>

Marked(rows, status) ==
  [n \in DOMAIN View.rows |-> IF n \in rows THEN [View.rows[n] EXCEPT !.status = status]
                                            ELSE View.rows[n]]
Claiming(t, rows) ==
  /\ At(t, "body", "claim")
  /\ IF rows = {}
     THEN Return(t) /\ Leave(t) /\ UNCHANGED <<files, faults>>
     ELSE /\ journal' = [View EXCEPT !.rows = Marked(rows, "claimed")]
          /\ call' = [call EXCEPT ![t] = [@ EXCEPT !.pc = "entities", !.replay = FALSE, !.todo = rows]]
          /\ UNCHANGED <<lockVars, entFile, rowFile, inbox, faults>>

\* Mutant: rows that another pump has claimed are left to it.
ClaimPendingOnly(t) == Claiming(t, {n \in DOMAIN View.rows : View.rows[n].status = "pending"})
ClaimPending(t) == Claiming(t, {n \in DOMAIN View.rows : View.rows[n].status # "sent"})

\* The external effect, outside every lock; it may happen again.
Sink(t) ==
  /\ At(t, "out", "sink") /\ GotoOp(t, "receive")
  /\ UNCHANGED <<lockVars, files, faults>>

Received == {inbox[i] : i \in DOMAIN inbox}

Receive(t) ==
  /\ At(t, "body", "receive") /\ Leave(t) /\ GotoOp(t, "mark")
  /\ inbox' = IF First(t) \in Received THEN inbox ELSE Append(inbox, First(t))
  /\ UNCHANGED <<journal, entFile, rowFile, faults>>

MarkSent(t) ==
  /\ At(t, "body", "mark")
  /\ WriteJournal(t, [View EXCEPT !.rows = Marked({First(t)}, "sent")])

----------------------------------------------------------------------------
(* snapshot counts the rows in contexts nested in its own. *)

StartSnapshot(t) ==
  /\ call[t].pc = "idle" /\ GotoOp(t, "snapshot")
  /\ UNCHANGED <<lockVars, files, faults>>
Count(t) ==
  /\ At(t, "body", "snapshot") /\ Nest(t) /\ Goto(t, "nested")
  /\ UNCHANGED <<files, faults>>
EndCount(t) ==
  /\ At(t, "nested", "snapshot") /\ Leave(t) /\ Goto(t, "out")
  /\ UNCHANGED <<files, faults>>
EndSnapshot(t) ==
  /\ At(t, "out", "snapshot") /\ Leave(t) /\ Return(t)
  /\ UNCHANGED <<files, faults>>

----------------------------------------------------------------------------
(* Faults: a write or a sink that raises ends the call, a crash its process. *)

Raise(t) ==
  /\ faults < MaxFaults /\ faults' = faults + 1
  /\ \/ call[t].pc \in {"body", "entities", "rows"} /\ Free(ProcOf[t])
     \/ At(t, "out", "sink") /\ UNCHANGED lockVars
  /\ Return(t)
  /\ UNCHANGED files

Crash(p) ==
  /\ faults < MaxFaults /\ faults' = faults + 1
  /\ Free(p)
  /\ call' = [t \in Thread |-> IF ProcOf[t] = p THEN Idle ELSE call[t]]
  /\ UNCHANGED files

Enter(t) == EnterMutex(t) \/ EnterFile(t)
Work(t) ==
  \/ Reload(t) \/ WriteEntities(t) \/ WriteRows(t) \/ Drop(t)
  \/ ReadEntity(t) \/ Commit(t)
  \/ ClaimPending(t) \/ Sink(t) \/ Receive(t) \/ MarkSent(t)
  \/ Count(t) \/ EndCount(t) \/ EndSnapshot(t)

Next ==
  \/ \E t \in Thread : Enter(t) \/ Work(t) \/ Raise(t)
  \/ \E t \in Writers, e \in Entity, s \in State : StartTransition(t, e, s)
  \/ \E t \in Pumps : StartPump(t)
  \/ \E t \in Readers : StartSnapshot(t)
  \/ \E p \in Process : Crash(p)

Spec == Init /\ [][Next]_vars

\* A thread goes on; the locks are given to whoever asks for them again and again;
\* somebody pumps again.
Fairness ==
  /\ \A t \in Thread : SF_vars(Enter(t)) /\ WF_vars(Work(t))
  /\ \A t \in Pumps : WF_vars(StartPump(t))
LiveSpec == Spec /\ Fairness

----------------------------------------------------------------------------
(* Properties. *)

\* Files, calls and locks are well formed, and a call between its locks has them.
OutboxTypeOK ==
  /\ LockTypeOK
  /\ journal \in Snapshot \cup {NoTxn}
  /\ entFile \in [Entity -> State \cup {NoState}] /\ rowFile \in Seq(Row)
  /\ inbox \in Seq(Nat \ {0})
  /\ call \in [Thread -> [pc : PC, op : Op, replay : BOOLEAN, ent : Entity \cup {NoState},
                          to : State \cup {NoState}, from : State \cup {NoState},
                          todo : SUBSET (Nat \ {0})]]
  /\ faults \in Nat

\* The lock covers the whole read-modify-write, in every thread of every process and
\* through nested contexts: whoever has reloaded is alone until it leaves.
InContext(t) == \/ call[t].pc \in {"reload", "body", "entities", "rows", "drop", "nested"}
                \/ At(t, "out", "snapshot")
OneContext ==
  \A t \in Thread : InContext(t) =>
    /\ Inside(t) /\ flock = ProcOf[t]
    /\ \A u \in Thread : InContext(u) => u = t

\* State and event are one transaction: whatever crash or failed write came before, the
\* state that the next reader finds is the one its last event announces.
StateHasItsEvent ==
  \A e \in Entity :
    LET of == {n \in DOMAIN View.rows : View.rows[n].ent = e}
    IN IF of = {} THEN View.ents[e] = NoState
       ELSE \E n \in of : (\A m \in of : m <= n) /\ View.ents[e] = View.rows[n].to

\* Crash-replay loses no row: every event that was committed is delivered and retired.
EveryRowIsSent ==
  \A n \in 1..(MaxRows - 1 + Cardinality(Writers)) :
    n \in DOMAIN View.rows ~> (n \in DOMAIN View.rows /\ View.rows[n].status = "sent")

\* The journal, the pumps and the receiver keep the promise of Delivery: a row is retired
\* only when the receiver has its event, whichever pump sent it, and the receiver takes an
\* event once, although it is delivered again after a crash before mark_sent and by every
\* pump that reclaims its row.
Promise == INSTANCE Delivery
             WITH state <- View.ents,
                  log <- [n \in DOMAIN View.rows |-> [ent |-> View.rows[n].ent, to |-> View.rows[n].to]],
                  processed <- inbox,
                  retired <- {n \in DOMAIN View.rows : View.rows[n].status = "sent"}
DeliverySpec == Promise!Spec
=============================================================================
