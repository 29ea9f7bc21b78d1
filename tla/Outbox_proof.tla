------------------------------ MODULE Outbox_proof ------------------------------
(***************************************************************************)
(* Theorems about Outbox, on LockAssumption and OutboxAssumption: for any  *)
(* processes, threads, entities and faults.                                *)
(*                                                                         *)
(* The argument starts from the locks: a thread that has reloaded is alone *)
(* (LocksInv).  So what it has journalled is still there when it writes    *)
(* the live files, and the journal is removed only when they say the same  *)
(* (FilesInv): what the next reader finds changes at the journal alone.    *)
(* Only then can the events be followed (RowsInv), and with them the       *)
(* promise of Delivery.                                                    *)
(***************************************************************************)
EXTENDS Outbox, TLAPS, SequenceTheorems, WellFoundedInduction

----------------------------------------------------------------------------
CallRow == [pc : PC, op : Op, replay : BOOLEAN, ent : Entity \cup {NoState},
            to : State \cup {NoState}, from : State \cup {NoState}, todo : SUBSET (Nat \ {0})]

\* A thread that has the mutex of its process.
Holds(t) == call[t].pc \notin {"idle", "mutex"} /\ ~At(t, "out", "sink")

LocksInv ==
  /\ LockTypeOK
  /\ call \in [Thread -> CallRow]
  /\ \A t \in Thread :
       /\ Holds(t) => mutex[ProcOf[t]] = t
       /\ InContext(t) => /\ flock = ProcOf[t]
                          /\ depth[ProcOf[t]] = IF call[t].pc = "nested" THEN 2 ELSE 1

\* What a thread may do to the locks.
LockStep(t) ==
  \/ UNCHANGED lockVars
  \/ TakeMutex(t)
  \/ TakeFile(t)
  \/ InContext(t) /\ (Nest(t) \/ Leave(t) \/ Free(ProcOf[t]))

\* Of a set of numbers there is a least one.
LEMMA LeastExists ==
  ASSUME NEW S \in SUBSET Nat, S # {}
  PROVE  \E n \in S : \A m \in S : n <= m
<1> DEFINE Less == OpToRel(<, Nat)
<1>1. IsWellFoundedOn(Less, Nat) BY NatLessThanWellFounded
<1>2. \A m, n \in Nat : m < n => <<m, n>> \in Less BY DEF OpToRel
<1> HIDE DEF Less
<1>3. PICK n \in S : \A m \in S : ~(<<m, n>> \in Less) BY <1>1, WFMin
<1>4. \A m \in S : ~(m < n) BY <1>2, <1>3
<1> QED BY <1>4

LEMMA FirstIsIn ==
  ASSUME NEW t \in Thread, call \in [Thread -> CallRow], call[t].todo # {}
  PROVE  First(t) \in call[t].todo /\ First(t) \in Nat \ {0}
<1>1. call[t].todo \in SUBSET (Nat \ {0}) BY DEF CallRow
<1>2. \E n \in call[t].todo : \A m \in call[t].todo : n <= m BY <1>1, LeastExists
<1> QED BY <1>1, <1>2 DEF First

----------------------------------------------------------------------------
(* The locks.                                                              *)

LEMMA ContextHolds ==
  ASSUME NEW t \in Thread, InContext(t)
  PROVE  Holds(t)
  BY DEF InContext, Holds, At

\* Whatever a thread does to the locks, it keeps their types, and what others hold.
LEMMA LockTypes ==
  ASSUME LocksInv, NEW t \in Thread, LockStep(t)
  PROVE  LockTypeOK'
<1>1. ProcOf[t] \in Process BY LockAssumption
<1>2. \A p \in Process : depth[p] \in Nat BY DEF LocksInv, LockTypeOK
<1>3. InContext(t) => depth[ProcOf[t]] \in {1, 2} BY DEF LocksInv
<1>4. InContext(t) /\ Leave(t) => LockTypeOK'
  BY <1>1, <1>2, <1>3 DEF Leave, Free, LocksInv, LockTypeOK
<1>5. InContext(t) /\ Nest(t) => LockTypeOK'
  BY <1>1, <1>2, <1>3 DEF Nest, LocksInv, LockTypeOK
<1>6. Free(ProcOf[t]) => LockTypeOK' BY <1>1, <1>2 DEF Free, LocksInv, LockTypeOK
<1>7. TakeMutex(t) \/ TakeFile(t) => LockTypeOK'
  BY <1>1, <1>2 DEF TakeMutex, TakeFile, LocksInv, LockTypeOK
<1>8. UNCHANGED lockVars => LockTypeOK' BY DEF lockVars, LocksInv, LockTypeOK
<1> QED BY <1>4, <1>5, <1>6, <1>7, <1>8 DEF LockStep

LEMMA LockOthers ==
  ASSUME LocksInv, NEW t \in Thread, LockStep(t), NEW u \in Thread \ {t}
  PROVE  /\ Holds(u) => mutex'[ProcOf[u]] = u
         /\ InContext(u) => flock' = flock /\ depth'[ProcOf[u]] = depth[ProcOf[u]]
<1>1. ProcOf[t] \in Process /\ ProcOf[u] \in Process /\ NoThread \notin Thread /\ NoProcess \notin Process
  BY LockAssumption
<1>2. /\ mutex \in [Process -> Thread \cup {NoThread}] /\ depth \in [Process -> Nat]
      /\ Holds(u) => mutex[ProcOf[u]] = u
      /\ Holds(t) => mutex[ProcOf[t]] = t
      /\ InContext(u) => flock = ProcOf[u]
  BY DEF LocksInv, LockTypeOK
<1>3. CASE UNCHANGED lockVars BY <1>2, <1>3 DEF lockVars
<1>4. CASE TakeMutex(t) BY <1>1, <1>2, <1>4 DEF TakeMutex
<1>5. CASE TakeFile(t)
  <2>1. ~InContext(u) BY <1>1, <1>2, <1>5 DEF TakeFile
  <2> QED BY <1>2, <1>5, <2>1 DEF TakeFile
<1>6. CASE InContext(t) /\ (Nest(t) \/ Leave(t) \/ Free(ProcOf[t]))
  <2>1. Holds(u) => ProcOf[u] # ProcOf[t] BY <1>2, <1>6, ContextHolds
  <2>2. Free(ProcOf[t]) => /\ \A p \in Process \ {ProcOf[t]} : mutex'[p] = mutex[p] /\ depth'[p] = depth[p]
                           /\ flock # ProcOf[t] => flock' = flock
    BY <1>2 DEF Free
  <2>3. Nest(t) => /\ mutex' = mutex /\ flock' = flock
                   /\ \A p \in Process \ {ProcOf[t]} : depth'[p] = depth[p]
    BY <1>2 DEF Nest
  <2>4. Leave(t) => /\ \A p \in Process \ {ProcOf[t]} : mutex'[p] = mutex[p] /\ depth'[p] = depth[p]
                    /\ flock # ProcOf[t] => flock' = flock
    BY <1>2, <2>2 DEF Leave
  <2> QED BY <1>1, <1>2, <1>6, <2>1, <2>2, <2>3, <2>4, ContextHolds
<1> QED BY <1>3, <1>4, <1>5, <1>6 DEF LockStep

\* Only the call of t changes.
Moves(t) == call' \in [Thread -> CallRow] /\ \A u \in Thread \ {t} : call'[u] = call[u]

\* A step of one thread keeps LocksInv if it does for that thread.
LEMMA LockFrame ==
  ASSUME LocksInv, NEW t \in Thread, LockStep(t), Moves(t),
         Holds(t)' => mutex'[ProcOf[t]] = t,
         InContext(t)' => /\ flock' = ProcOf[t]
                          /\ depth'[ProcOf[t]] = IF call'[t].pc = "nested" THEN 2 ELSE 1
  PROVE  LocksInv'
<1>1. LockTypeOK' BY LockTypes
<1>2. call \in [Thread -> CallRow] BY DEF LocksInv
<1>3. call' \in [Thread -> CallRow] BY DEF Moves
<1>4. ASSUME NEW u \in Thread \ {t}
      PROVE  /\ Holds(u)' => mutex'[ProcOf[u]] = u
             /\ InContext(u)' => /\ flock' = ProcOf[u]
                                 /\ depth'[ProcOf[u]] = IF call'[u].pc = "nested" THEN 2 ELSE 1
  <2>1. call'[u] = call[u] BY DEF Moves
  <2>2. Holds(u)' <=> Holds(u) BY <2>1 DEF Holds, At
  <2>3. InContext(u)' <=> InContext(u) BY <2>1 DEF InContext, At
  <2> QED BY <2>1, <2>2, <2>3, LockOthers DEF LocksInv
<1> QED BY <1>1, <1>3, <1>4 DEF LocksInv

\* Whoever is in a context is alone.
LEMMA Alone ==
  ASSUME LocksInv, NEW t \in Thread, InContext(t)
  PROVE  /\ Inside(t) /\ flock = ProcOf[t]
         /\ \A u \in Thread : InContext(u) => u = t
<1>1. \A u \in Thread : InContext(u) => mutex[ProcOf[u]] = u /\ flock = ProcOf[u]
  BY ContextHolds DEF LocksInv
<1>2. depth[ProcOf[t]] > 0 BY DEF LocksInv
<1> QED BY <1>1, <1>2 DEF Inside

----------------------------------------------------------------------------
(* The files.                                                              *)

\* What a thread has written so far, of the journal it commits or replays.
Written(t) ==
  /\ call[t].pc \in {"entities", "rows", "drop"} => journal # NoTxn
  /\ call[t].pc \in {"rows", "drop"} => entFile = journal.ents
  /\ call[t].pc = "drop" => rowFile = journal.rows

FilesInv ==
  /\ journal \in Snapshot \cup {NoTxn}
  /\ entFile \in [Entity -> State \cup {NoState}] /\ rowFile \in Seq(Row)
  /\ inbox \in Seq(Nat \ {0})
  /\ faults \in Nat
  /\ \A t \in Thread : Written(t)

\* What a call carries along.
Sending(t) == \/ call[t].op \in {"sink", "receive", "mark"}
              \/ /\ call[t].op = "claim" /\ call[t].pc \in {"entities", "rows", "drop"}
                 /\ ~call[t].replay
Carries(t) ==
  /\ call[t].op \in {"read", "commit"} => call[t].ent \in Entity /\ call[t].to \in State
  /\ Sending(t) => call[t].todo # {}
CallsInv == \A t \in Thread : Carries(t)

BaseInv == LocksInv /\ FilesInv /\ CallsInv

LEMMA ViewTypes ==
  ASSUME FilesInv
  PROVE  View \in Snapshot /\ View.rows \in Seq(Row) /\ DOMAIN View.rows = 1 .. Len(View.rows)
         /\ DOMAIN View.rows \subseteq Nat \ {0}
<1>1. View \in Snapshot BY DEF FilesInv, View, Snapshot
<1>2. View.rows \in Seq(Row) BY <1>1 DEF Snapshot
<1> QED BY <1>1, <1>2

\* The moves of a call.
LEMMA GotoMoves ==
  ASSUME LocksInv, NEW t \in Thread, NEW pc \in PC, Goto(t, pc)
  PROVE  Moves(t) /\ call'[t] = [call[t] EXCEPT !.pc = pc]
  BY DEF LocksInv, Goto, Moves, CallRow

LEMMA GotoOpMoves ==
  ASSUME LocksInv, NEW t \in Thread, NEW op \in Op, GotoOp(t, op)
  PROVE  /\ Moves(t) /\ call'[t].pc = "mutex" /\ call'[t].op = op
         /\ call'[t].ent = call[t].ent /\ call'[t].to = call[t].to
         /\ call'[t].todo = call[t].todo
  BY DEF LocksInv, GotoOp, Moves, CallRow, PC

LEMMA ReturnMoves ==
  ASSUME LocksInv, NEW t \in Thread, Return(t)
  PROVE  Moves(t) /\ call'[t] = Idle
<1>1. Idle \in CallRow BY DEF Idle, CallRow, PC, Op
<1> QED BY <1>1 DEF LocksInv, Return, Moves

\* A step of one thread keeps the rest of the base too.
LEMMA BaseFrame ==
  ASSUME BaseInv, NEW t \in Thread, Moves(t), LocksInv',
         InContext(t) \/ UNCHANGED <<journal, entFile, rowFile>>,
         journal' \in Snapshot \cup {NoTxn},
         entFile' \in [Entity -> State \cup {NoState}], rowFile' \in Seq(Row),
         inbox' \in Seq(Nat \ {0}), faults' \in Nat,
         Written(t)', Carries(t)'
  PROVE  BaseInv'
<1>1. ASSUME NEW u \in Thread \ {t} PROVE Written(u)' /\ Carries(u)'
  <2>1. call'[u] = call[u] BY DEF Moves
  <2>2. Carries(u)' BY <2>1 DEF BaseInv, CallsInv, Carries, Sending
  <2>3. CASE InContext(t)
    <3>1. ~InContext(u) BY <2>3, Alone DEF BaseInv
    <3> QED BY <2>1, <2>2, <3>1 DEF InContext, Written
  <2>4. CASE UNCHANGED <<journal, entFile, rowFile>>
    BY <2>1, <2>2, <2>4 DEF BaseInv, FilesInv, Written
  <2> QED BY <2>3, <2>4
<1> QED BY <1>1 DEF BaseInv, FilesInv, CallsInv

----------------------------------------------------------------------------
(* One step of one thread.                                                 *)

\* Getting the locks.
LEMMA EnterBase ==
  ASSUME BaseInv, NEW t \in Thread, Enter(t)
  PROVE  BaseInv'
<1> USE DEF BaseInv
<1>1. ProcOf[t] \in Process BY LockAssumption
<1>2. call[t] \in CallRow BY DEF LocksInv
<1>3. CASE EnterMutex(t)
  <2>1. /\ Moves(t) /\ call'[t] = [call[t] EXCEPT !.pc = "file"]
    BY <1>3, GotoMoves DEF EnterMutex, PC
  <2>2. call'[t].pc = "file" /\ call'[t].op = call[t].op /\ call'[t].todo = call[t].todo
        /\ call'[t].ent = call[t].ent /\ call'[t].to = call[t].to
    BY <1>2, <2>1 DEF CallRow
  <2>3. mutex'[ProcOf[t]] = t BY <1>1, <1>3 DEF EnterMutex, TakeMutex, LocksInv, LockTypeOK
  <2>4. LocksInv'
    BY <1>3, <2>1, <2>2, <2>3, LockFrame DEF EnterMutex, LockStep, InContext, At
  <2>5. Written(t)' BY <2>2 DEF Written
  <2>6. Carries(t)' BY <1>3, <2>2 DEF Carries, Sending, CallsInv, EnterMutex
  <2> QED BY <1>3, <2>1, <2>4, <2>5, <2>6, BaseFrame DEF EnterMutex, files, FilesInv
<1>4. CASE EnterFile(t)
  <2>1. /\ Moves(t) /\ call'[t] = [call[t] EXCEPT !.pc = "reload"]
    BY <1>4, GotoMoves DEF EnterFile, PC
  <2>2. call'[t].pc = "reload" /\ call'[t].op = call[t].op /\ call'[t].todo = call[t].todo
        /\ call'[t].ent = call[t].ent /\ call'[t].to = call[t].to
    BY <1>2, <2>1 DEF CallRow
  <2>3. mutex'[ProcOf[t]] = t /\ flock' = ProcOf[t] /\ depth'[ProcOf[t]] = 1
    BY <1>1, <1>4 DEF EnterFile, TakeFile, LocksInv, LockTypeOK
  <2>4. LocksInv'
    BY <1>4, <2>1, <2>2, <2>3, LockFrame DEF EnterFile, LockStep
  <2>5. Written(t)' BY <2>2 DEF Written
  <2>6. Carries(t)' BY <1>4, <2>2 DEF Carries, Sending, CallsInv, EnterFile
  <2> QED BY <1>4, <2>1, <2>4, <2>5, <2>6, BaseFrame DEF EnterFile, files, FilesInv
<1> QED BY <1>3, <1>4 DEF Enter

\* A thread in its outermost context that stays in it.
LEMMA StaysInside ==
  ASSUME BaseInv, NEW t \in Thread, InContext(t), call[t].pc # "nested", Moves(t),
         UNCHANGED lockVars, call'[t].pc # "nested"
  PROVE  LocksInv'
<1>1. mutex[ProcOf[t]] = t /\ flock = ProcOf[t] /\ depth[ProcOf[t]] = 1
  BY ContextHolds DEF BaseInv, LocksInv
<1> QED BY <1>1, LockFrame DEF BaseInv, LockStep, lockVars

\* A thread in its outermost context that leaves it.
LEMMA GoesOut ==
  ASSUME BaseInv, NEW t \in Thread, InContext(t), call[t].pc # "nested", Moves(t),
         Leave(t) \/ Free(ProcOf[t]), ~Holds(t)'
  PROVE  LocksInv'
<1>1. ~InContext(t)' BY DEF InContext, Holds, At
<1> QED BY <1>1, LockFrame DEF BaseInv, LockStep

\* Reloading and writing the files.
LEMMA FilesBase ==
  ASSUME BaseInv, NEW t \in Thread,
         Reload(t) \/ WriteEntities(t) \/ WriteRows(t) \/ Drop(t)
  PROVE  BaseInv' /\ View' = View /\ inbox' = inbox
<1> USE DEF BaseInv
<1>1. call[t] \in CallRow /\ call \in [Thread -> CallRow] BY DEF LocksInv
<1>2. InContext(t) /\ call[t].pc # "nested"
  BY DEF Reload, WriteEntities, WriteRows, Drop, InContext
<1>3. Written(t) /\ Carries(t) BY DEF FilesInv, CallsInv
<1>4. journal # NoTxn => /\ journal \in Snapshot /\ journal.ents \in [Entity -> State \cup {NoState}]
                         /\ journal.rows \in Seq(Row)
  BY DEF FilesInv, Snapshot
<1>5. CASE Reload(t)
  <2>1. UNCHANGED <<lockVars, files, faults>> BY <1>5 DEF Reload
  <2>2. CASE journal # NoTxn /\ call[t].op # "receive"
    <3>1. call' = [call EXCEPT ![t] = [@ EXCEPT !.pc = "entities", !.replay = TRUE]]
      BY <1>5, <2>2 DEF Reload
    <3>2. /\ Moves(t) /\ call'[t].pc = "entities" /\ call'[t].replay
          /\ call'[t].op = call[t].op /\ call'[t].todo = call[t].todo
          /\ call'[t].ent = call[t].ent /\ call'[t].to = call[t].to
      BY <1>1, <3>1 DEF Moves, CallRow, PC
    <3>3. Written(t)' BY <2>1, <2>2, <3>2 DEF Written, files
    <3>4. Carries(t)' BY <1>3, <3>2 DEF Carries, Sending
    <3>5. LocksInv' BY <1>2, <2>1, <3>2, StaysInside
    <3>6. BaseInv' BY <2>1, <3>2, <3>3, <3>4, <3>5, BaseFrame DEF files, FilesInv
    <3> QED BY <2>1, <3>6 DEF files, View
  <2>3. CASE ~(journal # NoTxn /\ call[t].op # "receive")
    <3>1. /\ Moves(t) /\ call'[t] = [call[t] EXCEPT !.pc = "body"]
      BY <1>5, <2>3, GotoMoves DEF Reload, PC
    <3>2. /\ call'[t].pc = "body"
          /\ call'[t].op = call[t].op /\ call'[t].todo = call[t].todo
          /\ call'[t].ent = call[t].ent /\ call'[t].to = call[t].to
      BY <1>1, <3>1 DEF CallRow
    <3>3. Written(t)' BY <3>2 DEF Written
    <3>4. Carries(t)' BY <1>3, <3>2 DEF Carries, Sending
    <3>5. LocksInv' BY <1>2, <2>1, <3>1, <3>2, StaysInside
    <3>6. BaseInv' BY <2>1, <3>1, <3>3, <3>4, <3>5, BaseFrame DEF files, FilesInv
    <3> QED BY <2>1, <3>6 DEF files, View
  <2> QED BY <2>2, <2>3
<1>6. CASE WriteEntities(t)
  <2>1. /\ Moves(t) /\ call'[t] = [call[t] EXCEPT !.pc = "rows"]
    BY <1>6, GotoMoves DEF WriteEntities, PC
  <2>2. /\ call'[t].pc = "rows" /\ call'[t].replay = call[t].replay
        /\ call'[t].op = call[t].op /\ call'[t].todo = call[t].todo
        /\ call'[t].ent = call[t].ent /\ call'[t].to = call[t].to
    BY <1>1, <2>1 DEF CallRow
  <2>3. /\ call[t].pc = "entities" /\ journal # NoTxn /\ entFile' = journal.ents
        /\ UNCHANGED <<lockVars, journal, rowFile, inbox, faults>>
    BY <1>3, <1>6 DEF WriteEntities, Written
  <2>4. Written(t)' BY <2>2, <2>3 DEF Written
  <2>5. Carries(t)' BY <1>3, <2>2, <2>3 DEF Carries, Sending
  <2>6. LocksInv' BY <1>2, <2>1, <2>2, <2>3, StaysInside
  <2>7. BaseInv' BY <1>2, <1>4, <2>1, <2>3, <2>4, <2>5, <2>6, BaseFrame DEF FilesInv
  <2> QED BY <2>3, <2>7 DEF View
<1>7. CASE WriteRows(t)
  <2>1. /\ Moves(t) /\ call'[t] = [call[t] EXCEPT !.pc = "drop"]
    BY <1>7, GotoMoves DEF WriteRows, PC
  <2>2. /\ call'[t].pc = "drop" /\ call'[t].replay = call[t].replay
        /\ call'[t].op = call[t].op /\ call'[t].todo = call[t].todo
        /\ call'[t].ent = call[t].ent /\ call'[t].to = call[t].to
    BY <1>1, <2>1 DEF CallRow
  <2>3. /\ call[t].pc = "rows" /\ journal # NoTxn /\ entFile = journal.ents
        /\ rowFile' = journal.rows /\ UNCHANGED <<lockVars, journal, entFile, inbox, faults>>
    BY <1>3, <1>7 DEF WriteRows, Written
  <2>4. Written(t)' BY <2>2, <2>3 DEF Written
  <2>5. Carries(t)' BY <1>3, <2>2, <2>3 DEF Carries, Sending
  <2>6. LocksInv' BY <1>2, <2>1, <2>2, <2>3, StaysInside
  <2>7. BaseInv' BY <1>2, <1>4, <2>1, <2>3, <2>4, <2>5, <2>6, BaseFrame DEF FilesInv
  <2> QED BY <2>3, <2>7 DEF View
<1>8. CASE Drop(t)
  <2>1. /\ call[t].pc = "drop" /\ journal # NoTxn /\ entFile = journal.ents
        /\ rowFile = journal.rows /\ journal' \in {journal, NoTxn}
        /\ UNCHANGED <<entFile, rowFile, inbox, faults>>
    BY <1>3, <1>8 DEF Drop, Written
  <2>2. View' = View
    <3>1. journal = [ents |-> journal.ents, rows |-> journal.rows] BY <1>4, <2>1 DEF Snapshot
    <3> QED BY <2>1, <3>1 DEF View
  <2>3. ASSUME Moves(t), call'[t].pc \notin {"entities", "rows", "drop"}, LocksInv', Carries(t)'
        PROVE  BaseInv'
    <3>1. Written(t)' BY <2>3 DEF Written
    <3> QED BY <1>2, <2>1, <2>3, <3>1, BaseFrame DEF FilesInv
  <2>4. CASE call[t].replay
    <3>1. /\ Moves(t) /\ call'[t] = [call[t] EXCEPT !.pc = "body"] /\ UNCHANGED lockVars
      BY <1>8, <2>4, GotoMoves DEF Drop, PC
    <3>2. /\ call'[t].pc = "body" /\ call'[t].op = call[t].op /\ call'[t].todo = call[t].todo
          /\ call'[t].ent = call[t].ent /\ call'[t].to = call[t].to
      BY <1>1, <3>1 DEF CallRow
    <3>3. Carries(t)' BY <1>3, <3>2 DEF Carries, Sending
    <3>4. LocksInv' BY <1>2, <3>1, <3>2, StaysInside
    <3> QED BY <2>1, <2>2, <2>3, <3>1, <3>2, <3>3, <3>4
  <2>5. CASE ~call[t].replay
    <3>1. AfterCommit(t) /\ Leave(t) BY <1>8, <2>5 DEF Drop
    <3>2. ASSUME NEW T \in SUBSET (Nat \ {0}), T # {},
                 call' = [call EXCEPT ![t] = [@ EXCEPT !.pc = "out", !.op = "sink", !.todo = T]]
          PROVE  BaseInv'
      <4>1. /\ Moves(t) /\ call'[t].pc = "out" /\ call'[t].op = "sink" /\ call'[t].todo = T
        BY <1>1, <3>2 DEF Moves, CallRow, PC, Op
      <4>2. Carries(t)' BY <3>2, <4>1 DEF Carries, Sending
      <4>3. LocksInv' BY <1>2, <3>1, <4>1, GoesOut DEF Holds, At
      <4> QED BY <2>3, <4>1, <4>2, <4>3
    <3>3. CASE call[t].op = "claim"
      <4>1. call[t].todo \in SUBSET (Nat \ {0}) /\ call[t].todo # {}
        BY <1>1, <1>3, <2>1, <2>5, <3>3 DEF CallRow, Carries, Sending
      <4>2. [call[t] EXCEPT !.pc = "out", !.op = "sink"]
              = [call[t] EXCEPT !.pc = "out", !.op = "sink", !.todo = call[t].todo]
        BY <1>1 DEF CallRow
      <4> QED BY <2>1, <2>2, <3>1, <3>2, <3>3, <4>1, <4>2 DEF AfterCommit
    <3>4. CASE call[t].op = "mark" /\ Rest(t) # {}
      <4>1. Rest(t) \in SUBSET (Nat \ {0}) BY <1>1 DEF CallRow, Rest
      <4> QED BY <2>1, <2>2, <3>1, <3>2, <3>4, <4>1 DEF AfterCommit
    <3>5. CASE Return(t)
      <4>1. Moves(t) /\ call'[t] = Idle BY <3>5, ReturnMoves
      <4>2. Carries(t)' BY <4>1 DEF Carries, Sending, Idle
      <4>3. LocksInv' BY <1>2, <3>1, <4>1, GoesOut DEF Holds, Idle
      <4> QED BY <2>1, <2>2, <2>3, <4>1, <4>2, <4>3 DEF Idle
    <3> QED BY <3>1, <3>3, <3>4, <3>5 DEF AfterCommit
  <2> QED BY <2>4, <2>5
<1> QED BY <1>5, <1>6, <1>7, <1>8

----------------------------------------------------------------------------
(* The bodies of the contexts, and the steps between them.                 *)

LEMMA MarkedTypes ==
  ASSUME FilesInv, NEW S, NEW st \in Status
  PROVE  /\ Marked(S, st) \in Seq(Row) /\ DOMAIN Marked(S, st) = DOMAIN View.rows
         /\ \A n \in DOMAIN View.rows :
              Marked(S, st)[n] = IF n \in S THEN [View.rows[n] EXCEPT !.status = st] ELSE View.rows[n]
         /\ [View EXCEPT !.rows = Marked(S, st)] \in Snapshot
<1>1. View \in Snapshot /\ View.rows \in Seq(Row) /\ DOMAIN View.rows = 1 .. Len(View.rows)
      /\ Len(View.rows) \in Nat
  BY ViewTypes
<1>2. \A n \in 1 .. Len(View.rows) : View.rows[n] \in Row BY <1>1
<1>3. \A n \in 1 .. Len(View.rows) :
        (IF n \in S THEN [View.rows[n] EXCEPT !.status = st] ELSE View.rows[n]) \in Row
  BY <1>2 DEF Row
<1>4. Marked(S, st) \in [1 .. Len(View.rows) -> Row] BY <1>1, <1>3 DEF Marked
<1>5. Marked(S, st) \in Seq(Row) BY <1>1, <1>4
<1>6. [View EXCEPT !.rows = Marked(S, st)] \in Snapshot BY <1>1, <1>5 DEF Snapshot
<1> QED BY <1>1, <1>4, <1>5, <1>6 DEF Marked

\* A transaction is there for the next reader once it is in the journal.
LEMMA JournalBase ==
  ASSUME BaseInv, NEW t \in Thread, NEW txn \in Snapshot, NEW T \in SUBSET (Nat \ {0}),
         call[t].pc = "body", journal' = txn, UNCHANGED <<lockVars, entFile, rowFile, inbox, faults>>,
         call' = [call EXCEPT ![t] = [@ EXCEPT !.pc = "entities", !.replay = FALSE, !.todo = T]],
         call[t].op \in {"claim", "sink", "receive", "mark"} => T # {}
  PROVE  BaseInv' /\ View' = txn
<1> USE DEF BaseInv
<1>1. call[t] \in CallRow /\ call \in [Thread -> CallRow] BY DEF LocksInv
<1>2. /\ Moves(t) /\ call'[t].pc = "entities" /\ call'[t].op = call[t].op
      /\ call'[t].ent = call[t].ent /\ call'[t].to = call[t].to /\ call'[t].todo = T
  BY <1>1 DEF Moves, CallRow, PC
<1>3. journal' # NoTxn BY OutboxAssumption
<1>4. Written(t)' BY <1>2, <1>3 DEF Written
<1>5. Carries(t)' BY <1>2 DEF CallsInv, Carries, Sending
<1>6. LocksInv' BY <1>2, StaysInside DEF InContext
<1>7. BaseInv' BY <1>2, <1>4, <1>5, <1>6, BaseFrame DEF FilesInv, InContext
<1> QED BY <1>3, <1>7 DEF View

\* commit_transition appends the event and sets the state.
LEMMA CommitBase ==
  ASSUME BaseInv, NEW t \in Thread, Commit(t)
  PROVE  /\ BaseInv' /\ inbox' = inbox
         /\ NewRow(t) \in Row /\ NewRow(t).status = "pending" /\ NewRow(t).to \in State
         /\ View' = [ents |-> [View.ents EXCEPT ![NewRow(t).ent] = NewRow(t).to],
                     rows |-> Append(View.rows, NewRow(t))]
<1> DEFINE txn == [ents |-> [View.ents EXCEPT ![call[t].ent] = call[t].to],
                   rows |-> Append(View.rows, NewRow(t))]
<1>1. call[t] \in CallRow /\ call \in [Thread -> CallRow] BY DEF BaseInv, LocksInv
<1>2. call[t].pc = "body" /\ call[t].op = "commit" BY DEF Commit, At
<1>3. call[t].ent \in Entity /\ call[t].to \in State BY <1>2 DEF BaseInv, CallsInv, Carries
<1>4. NewRow(t) \in Row /\ NewRow(t).ent = call[t].ent /\ NewRow(t).to = call[t].to
      /\ NewRow(t).status = "pending"
  BY <1>1, <1>3 DEF NewRow, Row, Status, CallRow
<1>5. View \in Snapshot /\ View.rows \in Seq(Row) BY ViewTypes DEF BaseInv
<1>6. Append(View.rows, NewRow(t)) \in Seq(Row) BY <1>4, <1>5
<1>7. [View.ents EXCEPT ![call[t].ent] = call[t].to] \in [Entity -> State \cup {NoState}]
  BY <1>3, <1>5 DEF Snapshot
<1>8. txn \in Snapshot BY <1>6, <1>7 DEF Snapshot
<1>9. WriteJournal(t, txn) BY DEF Commit
<1>10. call' = [call EXCEPT ![t] = [@ EXCEPT !.pc = "entities", !.replay = FALSE, !.todo = call[t].todo]]
  <2>1. [call[t] EXCEPT !.pc = "entities", !.replay = FALSE]
          = [call[t] EXCEPT !.pc = "entities", !.replay = FALSE, !.todo = call[t].todo]
    BY <1>1 DEF CallRow
  <2> QED BY <1>1, <1>9, <2>1 DEF WriteJournal
<1>11. call[t].todo \in SUBSET (Nat \ {0}) BY <1>1 DEF CallRow
<1>12. journal' = txn /\ UNCHANGED <<lockVars, entFile, rowFile, inbox, faults>>
  BY <1>9 DEF WriteJournal
<1> HIDE DEF txn
<1>13. BaseInv' /\ View' = txn BY <1>2, <1>8, <1>10, <1>11, <1>12, JournalBase
<1> QED BY <1>3, <1>4, <1>12, <1>13 DEF txn

\* claim_pending takes every row that is not sent.
LEMMA ClaimBase ==
  ASSUME BaseInv, NEW t \in Thread, ClaimPending(t)
  PROVE  /\ BaseInv' /\ inbox' = inbox
         /\ \/ View' = View /\ call'[t] = Idle
            \/ \E S \in SUBSET (DOMAIN View.rows) :
                 /\ \A n \in S : View.rows[n].status # "sent"
                 /\ View' = [View EXCEPT !.rows = Marked(S, "claimed")]
                 /\ call'[t].todo = S
<1> DEFINE S == {n \in DOMAIN View.rows : View.rows[n].status # "sent"}
<1>1. call[t] \in CallRow /\ call \in [Thread -> CallRow] BY DEF BaseInv, LocksInv
<1>2. call[t].pc = "body" /\ call[t].op = "claim" /\ InContext(t)
  BY DEF ClaimPending, Claiming, At, InContext
<1>3. S \in SUBSET (Nat \ {0}) BY ViewTypes DEF BaseInv
<1>4. Claiming(t, S) BY DEF ClaimPending
<1> HIDE DEF S
<1>5. CASE S = {}
  <2>1. Return(t) /\ Leave(t) /\ UNCHANGED <<files, faults>> BY <1>4, <1>5 DEF Claiming
  <2>2. Moves(t) /\ call'[t] = Idle BY <2>1, ReturnMoves DEF BaseInv
  <2>3. LocksInv' BY <1>2, <2>1, <2>2, GoesOut DEF Holds, Idle
  <2>4. Written(t)' /\ Carries(t)' BY <2>2 DEF Written, Carries, Sending, Idle
  <2>5. BaseInv' BY <1>2, <2>1, <2>2, <2>3, <2>4, BaseFrame DEF BaseInv, FilesInv, files
  <2> QED BY <2>1, <2>2, <2>5 DEF files, View
<1>6. CASE S # {}
  <2>1. /\ journal' = [View EXCEPT !.rows = Marked(S, "claimed")]
        /\ call' = [call EXCEPT ![t] = [@ EXCEPT !.pc = "entities", !.replay = FALSE, !.todo = S]]
        /\ UNCHANGED <<lockVars, entFile, rowFile, inbox, faults>>
    BY <1>4, <1>6 DEF Claiming
  <2>2. [View EXCEPT !.rows = Marked(S, "claimed")] \in Snapshot
    BY MarkedTypes DEF BaseInv, Status
  <2>3. BaseInv' /\ View' = [View EXCEPT !.rows = Marked(S, "claimed")]
    BY <1>2, <1>3, <1>6, <2>1, <2>2, JournalBase
  <2>4. call'[t].todo = S BY <1>1, <2>1 DEF CallRow
  <2>5. S \in SUBSET (DOMAIN View.rows) /\ \A n \in S : View.rows[n].status # "sent" BY DEF S
  <2> QED BY <2>1, <2>3, <2>4, <2>5
<1> QED BY <1>5, <1>6

\* mark_sent retires the row that was delivered.
LEMMA MarkBase ==
  ASSUME BaseInv, NEW t \in Thread, MarkSent(t)
  PROVE  /\ BaseInv' /\ inbox' = inbox
         /\ View' = [View EXCEPT !.rows = Marked({First(t)}, "sent")]
         /\ call'[t].todo = call[t].todo /\ call'[t].op = "mark" /\ call[t].op = "mark"
<1>1. call[t] \in CallRow /\ call \in [Thread -> CallRow] BY DEF BaseInv, LocksInv
<1>2. call[t].pc = "body" /\ call[t].op = "mark" BY DEF MarkSent, At
<1>3. call[t].todo # {} /\ call[t].todo \in SUBSET (Nat \ {0})
  BY <1>1, <1>2 DEF BaseInv, CallsInv, Carries, Sending, CallRow
<1>4. WriteJournal(t, [View EXCEPT !.rows = Marked({First(t)}, "sent")]) BY DEF MarkSent
<1>5. [View EXCEPT !.rows = Marked({First(t)}, "sent")] \in Snapshot
  BY MarkedTypes DEF BaseInv, Status
<1>6. call' = [call EXCEPT ![t] = [@ EXCEPT !.pc = "entities", !.replay = FALSE, !.todo = call[t].todo]]
  <2>1. [call[t] EXCEPT !.pc = "entities", !.replay = FALSE]
          = [call[t] EXCEPT !.pc = "entities", !.replay = FALSE, !.todo = call[t].todo]
    BY <1>1 DEF CallRow
  <2> QED BY <1>1, <1>4, <2>1 DEF WriteJournal
<1>7. /\ journal' = [View EXCEPT !.rows = Marked({First(t)}, "sent")]
      /\ UNCHANGED <<lockVars, entFile, rowFile, inbox, faults>>
  BY <1>4 DEF WriteJournal
<1>8. BaseInv' /\ View' = [View EXCEPT !.rows = Marked({First(t)}, "sent")]
  BY <1>2, <1>3, <1>5, <1>6, <1>7, JournalBase
<1>9. call'[t].todo = call[t].todo /\ call'[t].op = "mark" BY <1>1, <1>2, <1>6 DEF CallRow
<1> QED BY <1>2, <1>7, <1>8, <1>9

\* A thread that leaves a context for the next one of its call.
LEMMA HandsOver ==
  ASSUME BaseInv, NEW t \in Thread, InContext(t), call[t].pc # "nested", Moves(t),
         Leave(t), call'[t].pc \in {"idle", "mutex"}, Carries(t)',
         UNCHANGED <<journal, entFile, rowFile, faults>>, inbox' \in Seq(Nat \ {0})
  PROVE  BaseInv' /\ View' = View
<1>1. LocksInv' BY GoesOut DEF Holds
<1>2. Written(t)' BY DEF Written
<1> QED BY <1>1, <1>2, BaseFrame DEF BaseInv, FilesInv, View

\* What a call reads and what it sends.
LEMMA CallBase ==
  ASSUME BaseInv, NEW t \in Thread, ReadEntity(t) \/ Sink(t)
  PROVE  BaseInv' /\ View' = View /\ inbox' = inbox
<1> USE DEF BaseInv
<1>1. call[t] \in CallRow /\ call \in [Thread -> CallRow] /\ Carries(t) /\ inbox \in Seq(Nat \ {0})
  BY DEF LocksInv, CallsInv, FilesInv
<1>2. CASE ReadEntity(t)
  <2>1. /\ call[t].pc = "body" /\ call[t].op = "read" /\ Leave(t) /\ UNCHANGED <<files, faults>>
        /\ InContext(t)
    BY <1>2 DEF ReadEntity, At, InContext
  <2>2. CASE Return(t)
    <3>1. Moves(t) /\ call'[t] = Idle BY <2>2, ReturnMoves
    <3>2. Carries(t)' BY <3>1 DEF Carries, Sending, Idle
    <3> QED BY <1>1, <2>1, <3>1, <3>2, HandsOver DEF Idle, files
  <2>3. ASSUME NEW src, src = View.ents[call[t].ent],
               call' = [call EXCEPT ![t] = [@ EXCEPT !.pc = "mutex", !.op = "commit", !.from = src]]
        PROVE  BaseInv' /\ View' = View /\ inbox' = inbox
    <3>1. call[t].ent \in Entity /\ call[t].to \in State BY <1>1, <2>1 DEF Carries
    <3>2. src \in State \cup {NoState} BY <2>3, <3>1, ViewTypes DEF Snapshot
    <3>3. /\ Moves(t) /\ call'[t].pc = "mutex" /\ call'[t].op = "commit"
          /\ call'[t].ent = call[t].ent /\ call'[t].to = call[t].to
      BY <1>1, <2>3, <3>2 DEF Moves, CallRow, PC, Op
    <3>4. Carries(t)' BY <3>1, <3>3 DEF Carries, Sending
    <3> QED BY <1>1, <2>1, <3>3, <3>4, HandsOver DEF files
  <2> QED BY <1>2, <2>2, <2>3 DEF ReadEntity
<1>3. CASE Sink(t)
  <2>1. /\ call[t].pc = "out" /\ call[t].op = "sink" /\ UNCHANGED <<lockVars, files, faults>>
    BY <1>3 DEF Sink, At
  <2>2. /\ Moves(t) /\ call'[t].pc = "mutex" /\ call'[t].op = "receive"
        /\ call'[t].todo = call[t].todo
    BY <1>3, GotoOpMoves DEF Sink, Op
  <2>3. Written(t)' /\ Carries(t)' BY <1>1, <2>1, <2>2 DEF Written, Carries, Sending
  <2>4. LocksInv' BY <2>1, <2>2, LockFrame DEF LockStep, Holds, InContext, At
  <2>5. BaseInv' BY <2>1, <2>2, <2>3, <2>4, BaseFrame DEF FilesInv, files
  <2> QED BY <2>1, <2>5 DEF View, files
<1> QED BY <1>2, <1>3

\* The receiver takes the first row of the call, unless it has it.
LEMMA ReceiveBase ==
  ASSUME BaseInv, NEW t \in Thread, Receive(t)
  PROVE  /\ BaseInv' /\ View' = View
         /\ call[t].todo # {} /\ call'[t].todo = call[t].todo
         /\ \/ First(t) \in Received /\ inbox' = inbox
            \/ First(t) \notin Received /\ inbox' = Append(inbox, First(t))
<1> USE DEF BaseInv
<1>1. call[t] \in CallRow /\ call \in [Thread -> CallRow] /\ Carries(t) /\ inbox \in Seq(Nat \ {0})
  BY DEF LocksInv, CallsInv, FilesInv
<1>2. call[t].pc = "body" /\ call[t].op = "receive" /\ Leave(t) /\ InContext(t)
  BY DEF Receive, At, InContext
<1>3. call[t].todo # {} BY <1>1, <1>2 DEF Carries, Sending
<1>4. First(t) \in Nat \ {0} BY <1>1, <1>3, FirstIsIn
<1>5. inbox' \in Seq(Nat \ {0}) BY <1>1, <1>4 DEF Receive
<1>6. /\ Moves(t) /\ call'[t].pc = "mutex" /\ call'[t].op = "mark" /\ call'[t].todo = call[t].todo
  BY GotoOpMoves DEF Receive, Op
<1>7. Carries(t)' BY <1>3, <1>6 DEF Carries, Sending
<1> QED BY <1>2, <1>3, <1>5, <1>6, <1>7, HandsOver DEF Receive

\* A snapshot nests.
LEMMA SnapshotBase ==
  ASSUME BaseInv, NEW t \in Thread, Count(t) \/ EndCount(t) \/ EndSnapshot(t)
  PROVE  BaseInv' /\ View' = View /\ inbox' = inbox
<1> USE DEF BaseInv
<1>1. /\ call[t] \in CallRow /\ call \in [Thread -> CallRow] /\ ProcOf[t] \in Process
      /\ depth \in [Process -> Nat]
  BY LockAssumption DEF LocksInv, LockTypeOK
<1>2. call[t].op = "snapshot" /\ InContext(t) /\ UNCHANGED <<files, faults>>
  BY DEF Count, EndCount, EndSnapshot, At, InContext
<1>3. /\ mutex[ProcOf[t]] = t /\ flock = ProcOf[t]
      /\ depth[ProcOf[t]] = IF call[t].pc = "nested" THEN 2 ELSE 1
  BY <1>2, ContextHolds DEF LocksInv
<1>4. ASSUME Moves(t), LocksInv', call'[t].op \in {"none", "snapshot"},
             call'[t].pc \in {"nested", "out", "idle"}
      PROVE  BaseInv' /\ View' = View /\ inbox' = inbox
  <2>1. Written(t)' /\ Carries(t)' BY <1>4 DEF Written, Carries, Sending
  <2>2. BaseInv' BY <1>2, <1>4, <2>1, BaseFrame DEF FilesInv, files
  <2> QED BY <1>2, <2>2 DEF View, files
<1>5. CASE Count(t)
  <2>1. /\ Moves(t) /\ call'[t] = [call[t] EXCEPT !.pc = "nested"]
    BY <1>5, GotoMoves DEF Count, PC
  <2>2. call'[t].pc = "nested" /\ call'[t].op = "snapshot" BY <1>1, <1>2, <2>1 DEF CallRow
  <2>3. mutex' = mutex /\ flock' = flock /\ depth'[ProcOf[t]] = 2
    BY <1>1, <1>3, <1>5 DEF Count, Nest, At
  <2>4. LocksInv' BY <1>2, <1>3, <1>5, <2>1, <2>2, <2>3, LockFrame DEF Count, LockStep
  <2> QED BY <1>4, <2>1, <2>2, <2>4
<1>6. CASE EndCount(t)
  <2>1. /\ Moves(t) /\ call'[t] = [call[t] EXCEPT !.pc = "out"]
    BY <1>6, GotoMoves DEF EndCount, PC
  <2>2. call'[t].pc = "out" /\ call'[t].op = "snapshot" BY <1>1, <1>2, <2>1 DEF CallRow
  <2>3. mutex' = mutex /\ flock' = flock /\ depth'[ProcOf[t]] = 1
    BY <1>1, <1>3, <1>6 DEF EndCount, Leave, At
  <2>4. LocksInv' BY <1>2, <1>3, <1>6, <2>1, <2>2, <2>3, LockFrame DEF EndCount, LockStep
  <2> QED BY <1>4, <2>1, <2>2, <2>4
<1>7. CASE EndSnapshot(t)
  <2>1. Moves(t) /\ call'[t] = Idle BY <1>7, ReturnMoves DEF EndSnapshot
  <2>2. LocksInv' BY <1>2, <1>7, <2>1, GoesOut DEF EndSnapshot, At, Holds, Idle
  <2> QED BY <1>4, <2>1, <2>2 DEF Idle
<1> QED BY <1>5, <1>6, <1>7

\* A call begins.
LEMMA StartBase ==
  ASSUME BaseInv, NEW t \in Thread,
         \/ \E e \in Entity, s \in State : StartTransition(t, e, s)
         \/ StartPump(t) \/ StartSnapshot(t)
  PROVE  BaseInv' /\ View' = View /\ inbox' = inbox
<1> USE DEF BaseInv
<1>1. call[t] \in CallRow /\ call \in [Thread -> CallRow] BY DEF LocksInv
<1>2. UNCHANGED <<lockVars, files, faults>> BY DEF StartTransition, StartPump, StartSnapshot
<1>3. ASSUME Moves(t), call'[t].pc = "mutex", Carries(t)'
      PROVE  BaseInv' /\ View' = View /\ inbox' = inbox
  <2>1. LocksInv' BY <1>2, <1>3, LockFrame DEF LockStep, Holds, InContext, At
  <2>2. Written(t)' BY <1>3 DEF Written
  <2>3. BaseInv' BY <1>2, <1>3, <2>1, <2>2, BaseFrame DEF FilesInv, files
  <2> QED BY <1>2, <2>3 DEF View, files
<1>4. ASSUME NEW e \in Entity, NEW s \in State, StartTransition(t, e, s)
      PROVE  BaseInv' /\ View' = View /\ inbox' = inbox
  <2> DEFINE row == [Idle EXCEPT !.pc = "mutex", !.op = "read", !.ent = e, !.to = s]
  <2>1. /\ row \in CallRow /\ row.pc = "mutex" /\ row.op = "read" /\ row.ent = e /\ row.to = s
    BY DEF Idle, CallRow, PC, Op
  <2>2. call' = [call EXCEPT ![t] = row] BY <1>4 DEF StartTransition
  <2> HIDE DEF row
  <2>3. Moves(t) /\ call'[t] = row BY <1>1, <2>1, <2>2 DEF Moves
  <2>4. Carries(t)' BY <2>1, <2>3 DEF Carries, Sending
  <2> QED BY <1>3, <2>1, <2>3, <2>4
<1>5. CASE StartPump(t) \/ StartSnapshot(t)
  <2>1. /\ Moves(t) /\ call'[t].pc = "mutex" /\ call'[t].op \in {"claim", "snapshot"}
    BY <1>5, GotoOpMoves DEF StartPump, StartSnapshot, Op
  <2>2. Carries(t)' BY <2>1 DEF Carries, Sending
  <2> QED BY <1>3, <2>1, <2>2
<1> QED BY <1>4, <1>5

\* A call that raises, and a process that dies.
LEMMA FaultBase ==
  ASSUME BaseInv, (\E t \in Thread : Raise(t)) \/ (\E p \in Process : Crash(p))
  PROVE  BaseInv' /\ View' = View /\ inbox' = inbox
<1> USE DEF BaseInv
<1>1. call \in [Thread -> CallRow] /\ faults \in Nat BY DEF LocksInv, FilesInv
<1>2. UNCHANGED files /\ faults' = faults + 1 BY DEF Raise, Crash
<1>3. ASSUME NEW t \in Thread, Raise(t) PROVE BaseInv' /\ View' = View /\ inbox' = inbox
  <2>1. Moves(t) /\ call'[t] = Idle BY <1>3, ReturnMoves DEF Raise
  <2>2. LocksInv'
    <3>1. CASE call[t].pc \in {"body", "entities", "rows"} /\ Free(ProcOf[t])
      BY <2>1, <3>1, GoesOut DEF InContext, Holds, Idle
    <3>2. CASE UNCHANGED lockVars
      BY <2>1, <3>2, LockFrame DEF LockStep, Holds, InContext, At, Idle
    <3> QED BY <1>3, <3>1, <3>2 DEF Raise
  <2>3. Written(t)' /\ Carries(t)' BY <2>1 DEF Written, Carries, Sending, Idle
  <2>4. BaseInv' BY <1>1, <1>2, <2>1, <2>2, <2>3, BaseFrame DEF FilesInv, files
  <2> QED BY <1>2, <2>4 DEF View, files
<1>4. ASSUME NEW p \in Process, Crash(p) PROVE BaseInv' /\ View' = View /\ inbox' = inbox
  <2>1. Free(p) /\ call' = [t \in Thread |-> IF ProcOf[t] = p THEN Idle ELSE call[t]]
    BY <1>4 DEF Crash
  <2>2. Idle \in CallRow /\ Idle.pc = "idle" /\ Idle.op = "none" BY DEF Idle, CallRow, PC, Op
  <2>3. LockTypeOK' BY <2>1 DEF LocksInv, LockTypeOK, Free
  <2>4. call' \in [Thread -> CallRow] BY <1>1, <2>1, <2>2
  <2>5. ASSUME NEW u \in Thread
        PROVE  /\ Holds(u)' => mutex'[ProcOf[u]] = u
               /\ InContext(u)' => /\ flock' = ProcOf[u]
                                   /\ depth'[ProcOf[u]] = IF call'[u].pc = "nested" THEN 2 ELSE 1
               /\ Written(u)' /\ Carries(u)'
    <3>1. CASE ProcOf[u] = p
      BY <2>1, <2>2, <3>1 DEF Holds, InContext, At, Written, Carries, Sending
    <3>2. CASE ProcOf[u] # p
      <4>1. call'[u] = call[u] BY <2>1, <3>2
      <4>2. /\ (Holds(u)' <=> Holds(u)) /\ (InContext(u)' <=> InContext(u))
            /\ Written(u)' /\ Carries(u)'
        BY <1>2, <4>1 DEF Holds, InContext, At, Written, Carries, Sending, files, FilesInv, CallsInv
      <4>3. /\ mutex'[ProcOf[u]] = mutex[ProcOf[u]] /\ depth'[ProcOf[u]] = depth[ProcOf[u]]
            /\ flock = ProcOf[u] => flock' = flock
        <5>1. ProcOf[u] \in Process BY LockAssumption
        <5> QED BY <2>1, <3>2, <5>1 DEF Free, LocksInv, LockTypeOK
      <4> QED BY <4>1, <4>2, <4>3 DEF LocksInv
    <3> QED BY <3>1, <3>2
  <2>6. BaseInv' BY <1>1, <1>2, <2>3, <2>4, <2>5 DEF LocksInv, FilesInv, CallsInv, files
  <2> QED BY <1>2, <2>6 DEF View, files
<1> QED BY <1>3, <1>4

LEMMA BaseInit == Init => BaseInv
<1> SUFFICES ASSUME Init PROVE BaseInv OBVIOUS
<1>1. Idle \in CallRow /\ Idle.pc = "idle" /\ Idle.op = "none" BY DEF Idle, CallRow, PC, Op
<1>2. LocksInv
  BY <1>1 DEF Init, LockInit, LocksInv, LockTypeOK, Holds, InContext, At
<1>3. FilesInv BY <1>1 DEF Init, FilesInv, Written
<1>4. CallsInv BY <1>1 DEF Init, CallsInv, Carries, Sending
<1> QED BY <1>2, <1>3, <1>4 DEF BaseInv

LEMMA BaseStep == BaseInv /\ [Next]_vars => BaseInv'
<1> SUFFICES ASSUME BaseInv, [Next]_vars PROVE BaseInv' OBVIOUS
<1>1. CASE UNCHANGED vars
  BY <1>1 DEF vars, files, BaseInv, LocksInv, LockTypeOK, Holds, InContext, At, FilesInv, Written,
              CallsInv, Carries, Sending
<1>2. ASSUME NEW t \in Thread, Work(t) PROVE BaseInv'
  BY <1>2, FilesBase, CallBase, CommitBase, ClaimBase, ReceiveBase, MarkBase, SnapshotBase DEF Work
<1>3. ASSUME NEW t \in Thread, \/ \E e \in Entity, s \in State : StartTransition(t, e, s)
                               \/ StartPump(t) \/ StartSnapshot(t)
      PROVE  BaseInv'
  BY <1>3, StartBase
<1>4. Writers \subseteq Thread /\ Pumps \subseteq Thread /\ Readers \subseteq Thread
  BY OutboxAssumption
<1> QED BY <1>1, <1>2, <1>3, <1>4, EnterBase, FaultBase DEF Next

LEMMA BaseInvariant == Spec => []BaseInv
  BY BaseInit, BaseStep, PTL DEF Spec

\* Files, calls and locks keep their types through every crash and failed write.
THEOREM OutboxTypeCorrect == Spec => []OutboxTypeOK
<1>1. BaseInv => OutboxTypeOK
  BY DEF BaseInv, LocksInv, FilesInv, CallRow, OutboxTypeOK
<1> QED BY <1>1, BaseInvariant, PTL

\* rmw_lock: a thread that has reloaded has both locks, and no other thread of any process
\* is between its reload and its last write.
THEOREM ContextsAreExclusive == Spec => []OneContext
<1>1. BaseInv => OneContext BY Alone DEF BaseInv, OneContext
<1> QED BY <1>1, BaseInvariant, PTL

----------------------------------------------------------------------------
(* What the next reader finds.                                             *)

\* Rows that are sent have been received, and a call delivers rows of the table.
Delivered(t) ==
  /\ call[t].todo \subseteq DOMAIN View.rows
  /\ call[t].op = "mark" => First(t) \in Received
RowsInv ==
  /\ \A n \in DOMAIN View.rows : View.rows[n].status = "sent" => n \in Received
  /\ \A t \in Thread : Delivered(t)
  /\ StateHasItsEvent

FullInv == BaseInv /\ RowsInv

\* A call goes on with what it has.
Steady(t) == /\ call'[t].todo \subseteq call[t].todo
             /\ call'[t].op = "mark" => call[t].op = "mark" /\ call'[t].todo = call[t].todo

\* What a step may do to the store and to the receiver.
Still   == View' = View /\ inbox' = inbox
Commits == \E r \in Row : /\ r.status = "pending" /\ r.to \in State /\ inbox' = inbox
                          /\ View' = [ents |-> [View.ents EXCEPT ![r.ent] = r.to],
                                      rows |-> Append(View.rows, r)]
Claims  == \E S \in SUBSET DOMAIN View.rows :
             /\ \A n \in S : View.rows[n].status # "sent"
             /\ View' = [View EXCEPT !.rows = Marked(S, "claimed")] /\ inbox' = inbox
Takes   == \E n \in DOMAIN View.rows \ Received : View' = View /\ inbox' = Append(inbox, n)
Retires == \E n \in DOMAIN View.rows \cap Received :
             View' = [View EXCEPT !.rows = Marked({n}, "sent")] /\ inbox' = inbox
StoreMoves == Still \/ Commits \/ Claims \/ Takes \/ Retires

LEMMA EnterSteady ==
  ASSUME BaseInv, NEW t \in Thread, Enter(t) \/ Reload(t) \/ WriteEntities(t) \/ WriteRows(t)
  PROVE  Steady(t)
<1>1. call[t] \in CallRow /\ call \in [Thread -> CallRow] BY DEF BaseInv, LocksInv
<1>2. ASSUME NEW pc \in PC, Goto(t, pc) PROVE Steady(t) BY <1>1, <1>2 DEF Goto, Steady, CallRow
<1>3. CASE call' = [call EXCEPT ![t] = [@ EXCEPT !.pc = "entities", !.replay = TRUE]]
  BY <1>1, <1>3 DEF Steady, CallRow
<1> QED BY <1>2, <1>3 DEF Enter, EnterMutex, EnterFile, Reload, WriteEntities, WriteRows, PC

LEMMA OtherSteady ==
  ASSUME BaseInv, NEW t \in Thread,
         \/ Drop(t) \/ ReadEntity(t) \/ Sink(t) \/ Count(t) \/ EndCount(t) \/ EndSnapshot(t)
         \/ Commit(t) \/ MarkSent(t) \/ StartPump(t) \/ StartSnapshot(t) \/ Raise(t)
         \/ \E e \in Entity, s \in State : StartTransition(t, e, s)
  PROVE  Steady(t)
<1>1. call[t] \in CallRow /\ call \in [Thread -> CallRow] BY DEF BaseInv, LocksInv
<1>2. ASSUME NEW pc \in PC, Goto(t, pc) PROVE Steady(t) BY <1>1, <1>2 DEF Goto, Steady, CallRow
<1>3. ASSUME NEW op \in Op \ {"mark"}, GotoOp(t, op) PROVE Steady(t)
  BY <1>1, <1>3 DEF GotoOp, Steady, CallRow
<1>4. ASSUME Return(t) PROVE Steady(t) BY <1>1, <1>4 DEF Return, Steady, CallRow, Idle
<1>5. CASE Drop(t)
  <2>1. CASE call' = [call EXCEPT ![t] = [@ EXCEPT !.pc = "out", !.op = "sink"]]
    BY <1>1, <2>1 DEF Steady, CallRow
  <2>2. CASE call' = [call EXCEPT ![t] = [@ EXCEPT !.pc = "out", !.op = "sink", !.todo = Rest(t)]]
    BY <1>1, <2>2 DEF Steady, CallRow, Rest
  <2> QED BY <1>2, <1>4, <1>5, <2>1, <2>2 DEF Drop, AfterCommit, PC
<1>6. CASE ReadEntity(t)
  <2>1. ASSUME NEW src, call' = [call EXCEPT ![t] = [@ EXCEPT !.pc = "mutex", !.op = "commit", !.from = src]]
        PROVE  Steady(t)
    BY <1>1, <2>1 DEF Steady, CallRow
  <2> QED BY <1>4, <1>6, <2>1 DEF ReadEntity
<1>7. CASE Commit(t) \/ MarkSent(t)
  <2>1. call' = [call EXCEPT ![t] = [@ EXCEPT !.pc = "entities", !.replay = FALSE]]
    BY <1>7 DEF Commit, MarkSent, WriteJournal
  <2> QED BY <1>1, <2>1 DEF Steady, CallRow
<1>8. ASSUME NEW e \in Entity, NEW s \in State, StartTransition(t, e, s) PROVE Steady(t)
  <2> DEFINE row == [Idle EXCEPT !.pc = "mutex", !.op = "read", !.ent = e, !.to = s]
  <2>1. row.todo = {} /\ row.op = "read" BY DEF Idle
  <2>2. call' = [call EXCEPT ![t] = row] BY <1>8 DEF StartTransition
  <2> HIDE DEF row
  <2> QED BY <1>1, <2>1, <2>2 DEF Steady
<1> QED BY <1>2, <1>3, <1>4, <1>5, <1>6, <1>7, <1>8
        DEF Sink, Count, EndCount, EndSnapshot, StartPump, StartSnapshot, Raise, PC, Op

\* A step of a thread is its own.
LEMMA OnlyItsCall ==
  ASSUME BaseInv, NEW t \in Thread,
         \/ Enter(t) \/ Work(t) \/ Raise(t) \/ StartPump(t) \/ StartSnapshot(t)
         \/ \E e \in Entity, s \in State : StartTransition(t, e, s)
  PROVE  \A u \in Thread \ {t} : call'[u] = call[u]
<1>1. call \in [Thread -> CallRow] BY DEF BaseInv, LocksInv
<1>2. \E row : call' = [call EXCEPT ![t] = row]
  <2>1. ASSUME NEW pc, Goto(t, pc) PROVE \E row : call' = [call EXCEPT ![t] = row]
    BY <2>1 DEF Goto
  <2>2. ASSUME NEW op, GotoOp(t, op) PROVE \E row : call' = [call EXCEPT ![t] = row]
    BY <2>2 DEF GotoOp
  <2>3. Return(t) => \E row : call' = [call EXCEPT ![t] = row] BY DEF Return
  <2>4. Enter(t) => \E row : call' = [call EXCEPT ![t] = row]
    BY <2>1 DEF Enter, EnterMutex, EnterFile
  <2>5. Reload(t) \/ WriteEntities(t) \/ WriteRows(t) => \E row : call' = [call EXCEPT ![t] = row]
    BY <2>1 DEF Reload, WriteEntities, WriteRows
  <2>6. Drop(t) => \E row : call' = [call EXCEPT ![t] = row]
    BY <2>1, <2>3 DEF Drop, AfterCommit
  <2>7. ReadEntity(t) => \E row : call' = [call EXCEPT ![t] = row] BY <2>3 DEF ReadEntity
  <2>8. Commit(t) \/ MarkSent(t) => \E row : call' = [call EXCEPT ![t] = row]
    BY DEF Commit, MarkSent, WriteJournal
  <2>9. ClaimPending(t) => \E row : call' = [call EXCEPT ![t] = row]
    BY <2>3 DEF ClaimPending, Claiming
  <2>10. Sink(t) \/ Receive(t) \/ StartPump(t) \/ StartSnapshot(t)
           => \E row : call' = [call EXCEPT ![t] = row]
    BY <2>2 DEF Sink, Receive, StartPump, StartSnapshot
  <2>11. Count(t) \/ EndCount(t) \/ EndSnapshot(t) \/ Raise(t)
           => \E row : call' = [call EXCEPT ![t] = row]
    BY <2>1, <2>3 DEF Count, EndCount, EndSnapshot, Raise
  <2>12. (\E e \in Entity, s \in State : StartTransition(t, e, s))
           => \E row : call' = [call EXCEPT ![t] = row]
    BY DEF StartTransition
  <2> QED BY <2>4, <2>5, <2>6, <2>7, <2>8, <2>9, <2>10, <2>11, <2>12 DEF Work
<1> QED BY <1>1, <1>2

\* Every step, for the store and for the call of the thread that takes it.
LEMMA StepsOfStore ==
  ASSUME FullInv, NEW t \in Thread,
         \/ Enter(t) \/ Work(t) \/ Raise(t) \/ StartPump(t) \/ StartSnapshot(t)
         \/ \E e \in Entity, s \in State : StartTransition(t, e, s)
  PROVE  /\ StoreMoves
         /\ \/ Steady(t)
            \/ call'[t].todo \subseteq DOMAIN View.rows /\ call'[t].op # "mark"
            \/ /\ call'[t].todo = call[t].todo /\ call[t].todo # {}
               /\ First(t) \in Received'
<1> USE DEF FullInv
<1>1. call[t] \in CallRow /\ call \in [Thread -> CallRow] /\ inbox \in Seq(Nat \ {0})
  BY DEF BaseInv, LocksInv, FilesInv
<1>2. CASE Enter(t)
  <2>1. UNCHANGED files BY <1>2 DEF Enter, EnterMutex, EnterFile
  <2> QED BY <1>2, <2>1, EnterSteady DEF StoreMoves, Still, files, View
<1>3. CASE Reload(t) \/ WriteEntities(t) \/ WriteRows(t) \/ Drop(t)
  BY <1>3, FilesBase, EnterSteady, OtherSteady DEF StoreMoves, Still
<1>4. CASE ReadEntity(t) \/ Sink(t)
  BY <1>4, CallBase, OtherSteady DEF StoreMoves, Still
<1>5. CASE Count(t) \/ EndCount(t) \/ EndSnapshot(t)
  BY <1>5, SnapshotBase, OtherSteady DEF StoreMoves, Still
<1>6. CASE \/ StartPump(t) \/ StartSnapshot(t)
           \/ \E e \in Entity, s \in State : StartTransition(t, e, s)
  BY <1>6, StartBase, OtherSteady DEF StoreMoves, Still
<1>7. CASE Raise(t) BY <1>7, FaultBase, OtherSteady DEF StoreMoves, Still
<1>8. CASE Commit(t) BY <1>8, CommitBase, OtherSteady DEF StoreMoves, Commits
<1>9. CASE ClaimPending(t)
  <2>1. call'[t].op # "mark"
    <3>1. ASSUME NEW S, Claiming(t, S) PROVE call'[t].op # "mark"
      <4>1. call[t].op = "claim" BY <3>1 DEF Claiming, At
      <4>2. CASE call' = [call EXCEPT ![t] = Idle] BY <1>1, <4>2 DEF Idle
      <4>3. CASE call' = [call EXCEPT ![t] = [@ EXCEPT !.pc = "entities", !.replay = FALSE, !.todo = S]]
        BY <1>1, <4>1, <4>3 DEF CallRow
      <4> QED BY <3>1, <4>2, <4>3 DEF Claiming, Return
    <3> QED BY <1>9, <3>1 DEF ClaimPending
  <2>2. StoreMoves /\ (call'[t] = Idle \/ call'[t].todo \subseteq DOMAIN View.rows)
    BY <1>9, ClaimBase DEF StoreMoves, Still, Claims
  <2>3. Idle.todo = {} BY DEF Idle
  <2> QED BY <2>1, <2>2, <2>3
<1>10. CASE Receive(t)
  <2>1. call[t].todo # {} BY <1>10, ReceiveBase
  <2>2. First(t) \in DOMAIN View.rows BY <1>1, <2>1, FirstIsIn DEF RowsInv, Delivered
  <2>3. First(t) \in Received' 
    <3>1. CASE First(t) \in Received /\ inbox' = inbox BY <3>1 DEF Received
    <3>2. CASE inbox' = Append(inbox, First(t))
      <4>1. Len(inbox) + 1 \in DOMAIN inbox' /\ inbox'[Len(inbox) + 1] = First(t) BY <1>1, <3>2
      <4> QED BY <4>1 DEF Received
    <3> QED BY <1>10, <3>1, <3>2, ReceiveBase
  <2>4. StoreMoves BY <1>10, <2>2, ReceiveBase DEF StoreMoves, Still, Takes
  <2> QED BY <1>10, <2>1, <2>3, <2>4, ReceiveBase
<1>11. CASE MarkSent(t)
  <2>1. call[t].op = "mark" BY <1>11, MarkBase
  <2>2. call[t].todo # {} BY <2>1 DEF BaseInv, CallsInv, Carries, Sending
  <2>3. First(t) \in DOMAIN View.rows /\ First(t) \in Received
    BY <1>1, <2>1, <2>2, FirstIsIn DEF RowsInv, Delivered
  <2> QED BY <1>11, <2>3, MarkBase, OtherSteady DEF StoreMoves, Retires
<1> QED BY <1>2, <1>3, <1>4, <1>5, <1>6, <1>7, <1>8, <1>9, <1>10, <1>11 DEF Work

\* The table only grows, and so does what the receiver has.
LEMMA StoreGrows ==
  ASSUME BaseInv, StoreMoves
  PROVE  /\ DOMAIN View.rows \subseteq DOMAIN View'.rows /\ Received \subseteq Received'
         /\ \A n \in DOMAIN View.rows : View'.rows[n].ent = View.rows[n].ent
                                        /\ View'.rows[n].to = View.rows[n].to
<1>1. /\ View \in Snapshot /\ View.rows \in Seq(Row) /\ DOMAIN View.rows = 1 .. Len(View.rows)
      /\ Len(View.rows) \in Nat /\ \A n \in DOMAIN View.rows : View.rows[n] \in Row
      /\ inbox \in Seq(Nat \ {0}) /\ DOMAIN inbox = 1 .. Len(inbox) /\ Len(inbox) \in Nat
  BY ViewTypes DEF BaseInv, FilesInv
<1>2. inbox' = inbox => Received' = Received BY DEF Received
<1>3. CASE Still BY <1>2, <1>3 DEF Still
<1>4. CASE Commits
  <2>1. PICK r \in Row : /\ inbox' = inbox
                         /\ View' = [ents |-> [View.ents EXCEPT ![r.ent] = r.to],
                                     rows |-> Append(View.rows, r)]
    BY <1>4 DEF Commits
  <2>2. View'.rows = Append(View.rows, r) BY <2>1
  <2>3. DOMAIN View'.rows = 1 .. Len(View.rows) + 1
        /\ \A n \in 1 .. Len(View.rows) : View'.rows[n] = View.rows[n]
    BY <1>1, <2>2
  <2> QED BY <1>1, <1>2, <2>1, <2>3
<1>5. ASSUME NEW S, NEW st \in Status, View' = [View EXCEPT !.rows = Marked(S, st)], inbox' = inbox
      PROVE  /\ DOMAIN View.rows \subseteq DOMAIN View'.rows /\ Received \subseteq Received'
             /\ \A n \in DOMAIN View.rows : View'.rows[n].ent = View.rows[n].ent
                                            /\ View'.rows[n].to = View.rows[n].to
  <2>1. View'.rows = Marked(S, st) BY <1>1, <1>5 DEF Snapshot
  <2>2. FilesInv BY DEF BaseInv
  <2>3. /\ DOMAIN Marked(S, st) = DOMAIN View.rows
        /\ \A n \in DOMAIN View.rows :
             Marked(S, st)[n] = IF n \in S THEN [View.rows[n] EXCEPT !.status = st] ELSE View.rows[n]
    BY <2>2, MarkedTypes
  <2>4. \A n \in DOMAIN View.rows : Marked(S, st)[n].ent = View.rows[n].ent
                                    /\ Marked(S, st)[n].to = View.rows[n].to
    BY <1>1, <2>3 DEF Row
  <2> QED BY <1>2, <1>5, <2>1, <2>3, <2>4
<1>6. CASE Claims BY <1>5, <1>6 DEF Claims, Status
<1>7. CASE Retires BY <1>5, <1>7 DEF Retires, Status
<1>8. CASE Takes
  <2>1. PICK n \in DOMAIN View.rows : View' = View /\ inbox' = Append(inbox, n) BY <1>8 DEF Takes
  <2>2. DOMAIN inbox' = 1 .. Len(inbox) + 1 /\ \A i \in 1 .. Len(inbox) : inbox'[i] = inbox[i]
    BY <1>1, <2>1
  <2> QED BY <1>1, <2>1, <2>2 DEF Received
<1> QED BY <1>3, <1>4, <1>6, <1>7, <1>8 DEF StoreMoves

\* What is sent has been received.
LEMMA SentStep ==
  ASSUME FullInv, StoreMoves
  PROVE  \A n \in DOMAIN View'.rows : View'.rows[n].status = "sent" => n \in Received'
<1>1. /\ View \in Snapshot /\ View.rows \in Seq(Row) /\ DOMAIN View.rows = 1 .. Len(View.rows)
      /\ Len(View.rows) \in Nat /\ FilesInv
      /\ \A n \in DOMAIN View.rows : View.rows[n] \in Row
      /\ \A n \in DOMAIN View.rows : View.rows[n].status = "sent" => n \in Received
  BY ViewTypes DEF FullInv, BaseInv, FilesInv, RowsInv
<1>2. Received \subseteq Received' BY StoreGrows DEF FullInv
<1>3. CASE View' = View BY <1>1, <1>2, <1>3
<1>4. CASE Commits
  <2>1. PICK r \in Row : /\ r.status = "pending"
                         /\ View' = [ents |-> [View.ents EXCEPT ![r.ent] = r.to],
                                     rows |-> Append(View.rows, r)]
    BY <1>4 DEF Commits
  <2>2. View'.rows = Append(View.rows, r) BY <2>1
  <2>3. /\ DOMAIN View'.rows = 1 .. Len(View.rows) + 1
        /\ View'.rows[Len(View.rows) + 1] = r
        /\ \A n \in 1 .. Len(View.rows) : View'.rows[n] = View.rows[n]
    BY <1>1, <2>2
  <2> QED BY <1>1, <1>2, <2>1, <2>3
<1>5. ASSUME NEW S, NEW st \in Status, View' = [View EXCEPT !.rows = Marked(S, st)]
      PROVE  /\ DOMAIN View'.rows = DOMAIN View.rows
             /\ \A n \in DOMAIN View.rows :
                  View'.rows[n].status = IF n \in S THEN st ELSE View.rows[n].status
  <2>1. View'.rows = Marked(S, st) BY <1>1, <1>5 DEF Snapshot
  <2>2. /\ DOMAIN Marked(S, st) = DOMAIN View.rows
        /\ \A n \in DOMAIN View.rows :
             Marked(S, st)[n] = IF n \in S THEN [View.rows[n] EXCEPT !.status = st] ELSE View.rows[n]
    <3>1. FilesInv BY <1>1
    <3> QED BY <3>1, MarkedTypes
  <2>3. \A n \in DOMAIN View.rows : Marked(S, st)[n].status = IF n \in S THEN st ELSE View.rows[n].status
    BY <1>1, <2>2 DEF Row
  <2> QED BY <2>1, <2>2, <2>3
<1>6. CASE Claims
  <2>1. PICK S \in SUBSET DOMAIN View.rows : View' = [View EXCEPT !.rows = Marked(S, "claimed")]
    BY <1>6 DEF Claims
  <2>2. /\ DOMAIN View'.rows = DOMAIN View.rows
        /\ \A n \in DOMAIN View.rows :
             View'.rows[n].status = IF n \in S THEN "claimed" ELSE View.rows[n].status
    BY <1>5, <2>1 DEF Status
  <2> QED BY <1>1, <1>2, <2>2
<1>7. CASE Retires
  <2>1. PICK n \in DOMAIN View.rows \cap Received : View' = [View EXCEPT !.rows = Marked({n}, "sent")]
    BY <1>7 DEF Retires
  <2>2. /\ DOMAIN View'.rows = DOMAIN View.rows
        /\ \A m \in DOMAIN View.rows :
             View'.rows[m].status = IF m \in {n} THEN "sent" ELSE View.rows[m].status
    BY <1>5, <2>1 DEF Status
  <2> QED BY <1>1, <1>2, <2>2
<1> QED BY <1>3, <1>4, <1>6, <1>7 DEF StoreMoves, Still, Takes

\* A commit adds the last event of its entity; nothing else moves a state or an event.
LEMMA EventStep ==
  ASSUME FullInv, StoreMoves
  PROVE  StateHasItsEvent'
<1> DEFINE Of(rows, e) == {n \in DOMAIN rows : rows[n].ent = e}
           Told(ents, rows, e) == IF Of(rows, e) = {} THEN ents[e] = NoState
                                  ELSE \E n \in Of(rows, e) : (\A m \in Of(rows, e) : m <= n)
                                                              /\ ents[e] = rows[n].to
<1>1. /\ View \in Snapshot /\ View.rows \in Seq(Row) /\ DOMAIN View.rows = 1 .. Len(View.rows)
      /\ Len(View.rows) \in Nat /\ FilesInv
      /\ \A n \in DOMAIN View.rows : View.rows[n] \in Row
  BY ViewTypes DEF FullInv, BaseInv, FilesInv, RowsInv
<1>2. \A e \in Entity : Told(View.ents, View.rows, e) BY DEF FullInv, RowsInv, StateHasItsEvent
<1>3. SUFFICES \A e \in Entity : Told(View'.ents, View'.rows, e) BY DEF StateHasItsEvent
<1>4. CASE View' = View BY <1>2, <1>4
<1>5. ASSUME NEW S, NEW st \in Status, View' = [View EXCEPT !.rows = Marked(S, st)]
      PROVE  \A e \in Entity : Told(View'.ents, View'.rows, e)
  <2>1. View'.rows = Marked(S, st) /\ View'.ents = View.ents BY <1>1, <1>5 DEF Snapshot
  <2>2. /\ DOMAIN Marked(S, st) = DOMAIN View.rows
        /\ \A n \in DOMAIN View.rows :
             Marked(S, st)[n] = IF n \in S THEN [View.rows[n] EXCEPT !.status = st] ELSE View.rows[n]
    <3>1. FilesInv BY <1>1
    <3> QED BY <3>1, MarkedTypes
  <2>3. \A n \in DOMAIN View.rows : Marked(S, st)[n].ent = View.rows[n].ent
                                    /\ Marked(S, st)[n].to = View.rows[n].to
    BY <1>1, <2>2 DEF Row
  <2>4. \A e \in Entity : Of(View'.rows, e) = Of(View.rows, e) BY <2>1, <2>2, <2>3
  <2> QED BY <1>2, <2>1, <2>3, <2>4
<1>6. CASE Commits
  <2>1. PICK r \in Row : /\ View' = [ents |-> [View.ents EXCEPT ![r.ent] = r.to],
                                     rows |-> Append(View.rows, r)]
    BY <1>6 DEF Commits
  <2> DEFINE last == Len(View.rows) + 1
  <2>2. /\ View'.rows = Append(View.rows, r) /\ View'.ents = [View.ents EXCEPT ![r.ent] = r.to]
        /\ View.ents \in [Entity -> State \cup {NoState}] /\ r.ent \in Entity
    BY <1>1, <2>1 DEF Snapshot, Row
  <2>3. /\ DOMAIN View'.rows = 1 .. last /\ View'.rows[last] = r
        /\ \A n \in 1 .. Len(View.rows) : View'.rows[n] = View.rows[n]
    BY <1>1, <2>2
  <2>4. \A e \in Entity : Of(View'.rows, e) = IF e = r.ent THEN Of(View.rows, e) \cup {last}
                                              ELSE Of(View.rows, e)
    BY <1>1, <2>3
  <2>5. last \in Nat /\ \A m \in DOMAIN View.rows : m <= last BY <1>1
  <2>6. Told(View'.ents, View'.rows, r.ent)
    <3>1. last \in Of(View'.rows, r.ent) /\ \A m \in Of(View'.rows, r.ent) : m <= last
      BY <2>2, <2>4, <2>5
    <3>2. View'.ents[r.ent] = View'.rows[last].to BY <2>2, <2>3
    <3> QED BY <3>1, <3>2
  <2>7. ASSUME NEW e \in Entity \ {r.ent} PROVE Told(View'.ents, View'.rows, e)
    <3>1. Of(View'.rows, e) = Of(View.rows, e) /\ View'.ents[e] = View.ents[e] BY <2>2, <2>4
    <3>2. \A n \in Of(View.rows, e) : View'.rows[n].to = View.rows[n].to BY <1>1, <2>3
    <3> QED BY <1>2, <3>1, <3>2
  <2> QED BY <2>6, <2>7
<1>7. CASE Claims BY <1>5, <1>7 DEF Claims, Status
<1>8. CASE Retires BY <1>5, <1>8 DEF Retires, Status
<1> QED BY <1>4, <1>6, <1>7, <1>8 DEF StoreMoves, Still, Takes

\* A call that goes on delivers what it delivered, after a claim the rows it claimed, and
\* marks what it has handed to the receiver.
LEMMA DeliveredStep ==
  ASSUME FullInv, StoreMoves, NEW t \in Thread,
         \/ call'[t] = call[t] \/ call'[t] = Idle \/ Steady(t)
         \/ call'[t].todo \subseteq DOMAIN View.rows /\ call'[t].op # "mark"
         \/ call'[t].todo = call[t].todo /\ call[t].todo # {} /\ First(t) \in Received'
  PROVE  Delivered(t)'
<1>1. DOMAIN View.rows \subseteq DOMAIN View'.rows /\ Received \subseteq Received'
  BY StoreGrows DEF FullInv
<1>2. call[t].todo \subseteq DOMAIN View.rows /\ (call[t].op = "mark" => First(t) \in Received)
  BY DEF FullInv, RowsInv, Delivered
<1>3. call'[t].todo = call[t].todo => First(t)' = First(t) BY DEF First
<1>4. Idle.todo = {} /\ Idle.op = "none" BY DEF Idle
<1>5. call'[t].todo \subseteq DOMAIN View'.rows BY <1>1, <1>2, <1>4 DEF Steady
<1>6. call'[t].op = "mark" => First(t)' \in Received'
  BY <1>1, <1>2, <1>3, <1>4 DEF Steady
<1> QED BY <1>5, <1>6 DEF Delivered

LEMMA RowsStep ==
  ASSUME FullInv, [Next]_vars
  PROVE  RowsInv' /\ StoreMoves
<1> USE DEF FullInv
<1>1. SUFFICES /\ StoreMoves
               /\ \A t \in Thread :
                    \/ call'[t] = call[t] \/ call'[t] = Idle \/ Steady(t)
                    \/ call'[t].todo \subseteq DOMAIN View.rows /\ call'[t].op # "mark"
                    \/ call'[t].todo = call[t].todo /\ call[t].todo # {} /\ First(t) \in Received'
  BY SentStep, EventStep, DeliveredStep DEF RowsInv
<1>2. CASE UNCHANGED vars BY <1>2 DEF vars, files, View, StoreMoves, Still
<1>3. ASSUME NEW p \in Process, Crash(p)
      PROVE  StoreMoves /\ \A t \in Thread : call'[t] = call[t] \/ call'[t] = Idle
  BY <1>3, FaultBase DEF Crash, StoreMoves, Still
<1>4. ASSUME NEW t \in Thread,
             \/ Enter(t) \/ Work(t) \/ Raise(t) \/ StartPump(t) \/ StartSnapshot(t)
             \/ \E e \in Entity, s \in State : StartTransition(t, e, s)
      PROVE  /\ StoreMoves /\ \A u \in Thread \ {t} : call'[u] = call[u]
             /\ \/ Steady(t)
                \/ call'[t].todo \subseteq DOMAIN View.rows /\ call'[t].op # "mark"
                \/ call'[t].todo = call[t].todo /\ call[t].todo # {} /\ First(t) \in Received'
  BY <1>4, StepsOfStore, OnlyItsCall
<1>5. Writers \subseteq Thread /\ Pumps \subseteq Thread /\ Readers \subseteq Thread
  BY OutboxAssumption
<1>6. \/ UNCHANGED vars
      \/ \E p \in Process : Crash(p)
      \/ \E t \in Thread : \/ Enter(t) \/ Work(t) \/ Raise(t) \/ StartPump(t) \/ StartSnapshot(t)
                           \/ \E e \in Entity, s \in State : StartTransition(t, e, s)
  BY <1>5 DEF Next
<1>7. CASE \E t \in Thread : \/ Enter(t) \/ Work(t) \/ Raise(t) \/ StartPump(t) \/ StartSnapshot(t)
                             \/ \E e \in Entity, s \in State : StartTransition(t, e, s)
  <2>1. PICK t \in Thread : \/ Enter(t) \/ Work(t) \/ Raise(t) \/ StartPump(t) \/ StartSnapshot(t)
                            \/ \E e \in Entity, s \in State : StartTransition(t, e, s)
    BY <1>7
  <2>2. /\ StoreMoves /\ \A u \in Thread \ {t} : call'[u] = call[u]
        /\ \/ Steady(t)
           \/ call'[t].todo \subseteq DOMAIN View.rows /\ call'[t].op # "mark"
           \/ call'[t].todo = call[t].todo /\ call[t].todo # {} /\ First(t) \in Received'
    BY <1>4, <2>1
  <2> QED BY <2>2
<1> QED BY <1>2, <1>3, <1>6, <1>7 DEF vars

LEMMA RowsInit == Init => RowsInv
<1> SUFFICES ASSUME Init PROVE RowsInv OBVIOUS
<1>1. View.ents = [e \in Entity |-> NoState] /\ View.rows = << >> BY DEF Init, View
<1>2. DOMAIN View.rows = {} BY <1>1
<1>3. Idle.todo = {} /\ Idle.op = "none" BY DEF Idle
<1> QED BY <1>1, <1>2, <1>3 DEF Init, RowsInv, Delivered, StateHasItsEvent

LEMMA FullInvariant == Spec => []FullInv
<1>1. Init => FullInv BY BaseInit, RowsInit DEF FullInv
<1>2. FullInv /\ [Next]_vars => FullInv' BY BaseStep, RowsStep DEF FullInv
<1> QED BY <1>1, <1>2, PTL DEF Spec

\* commit_transition with the crash-replay of the journal: whatever crash or failed write
\* came before, an entity is in the state that its last event announces.
THEOREM StateAndEventTogether == Spec => []StateHasItsEvent
<1>1. FullInv => StateHasItsEvent BY DEF FullInv, RowsInv
<1> QED BY <1>1, FullInvariant, PTL

----------------------------------------------------------------------------
(* The promise of Delivery.                                                *)

Events  == [n \in DOMAIN View.rows |-> [ent |-> View.rows[n].ent, to |-> View.rows[n].to]]
Retired == {n \in DOMAIN View.rows : View.rows[n].status = "sent"}

LEMMA AppendIs ==
  ASSUME NEW E, NEW s \in Seq(E), NEW x \in E, NEW f \in Seq(E), Len(f) = Len(s) + 1,
         \A n \in 1 .. Len(s) : f[n] = s[n], f[Len(s) + 1] = x
  PROVE  f = Append(s, x)
<1>1. /\ Append(s, x) \in Seq(E) /\ Len(Append(s, x)) = Len(s) + 1
      /\ \A n \in 1 .. Len(s) : Append(s, x)[n] = s[n] /\ Append(s, x)[Len(s) + 1] = x
  BY AppendProperties
<1>2. \A n \in 1 .. Len(f) : f[n] = Append(s, x)[n] BY <1>1
<1> QED BY <1>1, <1>2, SeqEqual

\* What one move of the store is to the promise.
LEMMA PromiseStep ==
  ASSUME FullInv, StoreMoves
  PROVE  [Promise!Next]_<<View.ents, Events, inbox, Retired>>
<1>1. /\ View \in Snapshot /\ View.rows \in Seq(Row) /\ DOMAIN View.rows = 1 .. Len(View.rows)
      /\ Len(View.rows) \in Nat
      /\ \A n \in DOMAIN View.rows : View.rows[n] \in Row
      /\ \A n \in DOMAIN View.rows : View.rows[n].status = "sent" => n \in Received
  BY ViewTypes DEF FullInv, BaseInv, RowsInv
<1>2. FilesInv BY DEF FullInv, BaseInv
<1>3. View' = View => Events' = Events /\ Retired' = Retired /\ View'.ents = View.ents
  BY DEF Events, Retired
<1>4. Promise!Taken = Received BY DEF Promise!Taken, Received
<1>5. CASE Still BY <1>3, <1>5 DEF Still
<1>6. CASE Takes
  <2>1. PICK n \in DOMAIN View.rows \ Received : View' = View /\ inbox' = Append(inbox, n)
    BY <1>6 DEF Takes
  <2>2. n \in DOMAIN Events BY <2>1 DEF Events
  <2>3. Promise!Consume(n) BY <1>3, <1>4, <2>1 DEF Promise!Consume, Events, Retired
  <2> QED BY <2>2, <2>3 DEF Promise!Next, Events
<1>7. ASSUME NEW S, NEW st \in Status, View' = [View EXCEPT !.rows = Marked(S, st)]
      PROVE  /\ View'.ents = View.ents /\ Events' = Events
             /\ Retired' = {n \in DOMAIN View.rows :
                              IF n \in S THEN st = "sent" ELSE View.rows[n].status = "sent"}
  <2>1. View'.rows = Marked(S, st) /\ View'.ents = View.ents BY <1>1, <1>7 DEF Snapshot
  <2>2. /\ DOMAIN Marked(S, st) = DOMAIN View.rows
        /\ \A n \in DOMAIN View.rows :
             Marked(S, st)[n] = IF n \in S THEN [View.rows[n] EXCEPT !.status = st] ELSE View.rows[n]
    BY <1>2, MarkedTypes
  <2>3. \A n \in DOMAIN View.rows :
          /\ Marked(S, st)[n].ent = View.rows[n].ent /\ Marked(S, st)[n].to = View.rows[n].to
          /\ Marked(S, st)[n].status = IF n \in S THEN st ELSE View.rows[n].status
    BY <1>1, <2>2 DEF Row
  <2>4. Events' = Events BY <2>1, <2>2, <2>3 DEF Events
  <2>5. Retired' = {n \in DOMAIN View.rows :
                      IF n \in S THEN st = "sent" ELSE View.rows[n].status = "sent"}
    BY <2>1, <2>2, <2>3 DEF Retired
  <2> QED BY <2>1, <2>4, <2>5
<1>8. CASE Claims
  <2>1. PICK S \in SUBSET DOMAIN View.rows :
               /\ \A n \in S : View.rows[n].status # "sent"
               /\ View' = [View EXCEPT !.rows = Marked(S, "claimed")] /\ inbox' = inbox
    BY <1>8 DEF Claims
  <2>2. /\ View'.ents = View.ents /\ Events' = Events
        /\ Retired' = {n \in DOMAIN View.rows :
                         IF n \in S THEN "claimed" = "sent" ELSE View.rows[n].status = "sent"}
    BY <1>7, <2>1 DEF Status
  <2>3. Retired' = Retired BY <2>1, <2>2 DEF Retired
  <2> QED BY <2>1, <2>2, <2>3
<1>9. CASE Retires
  <2>1. PICK n \in DOMAIN View.rows \cap Received :
               View' = [View EXCEPT !.rows = Marked({n}, "sent")] /\ inbox' = inbox
    BY <1>9 DEF Retires
  <2>2. /\ View'.ents = View.ents /\ Events' = Events
        /\ Retired' = {m \in DOMAIN View.rows :
                         IF m \in {n} THEN "sent" = "sent" ELSE View.rows[m].status = "sent"}
    BY <1>7, <2>1 DEF Status
  <2>3. Retired' = Retired \cup {n} BY <2>1, <2>2 DEF Retired
  <2>4. CASE n \in Retired BY <2>1, <2>2, <2>3, <2>4
  <2>5. CASE n \notin Retired
    <3>1. n \in DOMAIN Events BY <2>1 DEF Events
    <3>2. Promise!Retire(n)
      BY <1>4, <2>1, <2>2, <2>3, <2>5 DEF Promise!Retire, Events, Retired
    <3> QED BY <3>1, <3>2 DEF Promise!Next, Events
  <2> QED BY <2>4, <2>5
<1>10. CASE Commits
  <2>1. PICK r \in Row : /\ r.status = "pending" /\ inbox' = inbox
                         /\ r.to \in State
                         /\ View' = [ents |-> [View.ents EXCEPT ![r.ent] = r.to],
                                     rows |-> Append(View.rows, r)]
    BY <1>10 DEF Commits
  <2>2. View'.rows = Append(View.rows, r) /\ View'.ents = [View.ents EXCEPT ![r.ent] = r.to]
    BY <2>1
  <2>3. /\ DOMAIN View'.rows = 1 .. Len(View.rows) + 1 /\ View'.rows[Len(View.rows) + 1] = r
        /\ \A n \in 1 .. Len(View.rows) : View'.rows[n] = View.rows[n]
    BY <1>1, <2>2
  <2> DEFINE Ev == [ent : Entity, to : State \cup {NoState}]
             e  == [ent |-> r.ent, to |-> r.to]
  <2>4. Events \in Seq(Ev) /\ Len(Events) = Len(View.rows)
    <3>1. \A n \in 1 .. Len(View.rows) : [ent |-> View.rows[n].ent, to |-> View.rows[n].to] \in Ev
      BY <1>1 DEF Row
    <3> QED BY <1>1, <3>1 DEF Events
  <2>5. Events' = Append(Events, e)
    <3>1. DOMAIN Events' = 1 .. Len(View.rows) + 1 BY <2>3 DEF Events
    <3>2. \A n \in 1 .. Len(View.rows) : Events'[n] = Events[n] BY <1>1, <2>3 DEF Events
    <3>3. Events'[Len(View.rows) + 1] = e BY <1>1, <2>3 DEF Events
    <3>4. e \in Ev BY DEF Row
    <3>5. Events' \in Seq(Ev) /\ Len(Events') = Len(View.rows) + 1
      <4>1. \A n \in 1 .. Len(View.rows) + 1 : View'.rows[n] \in Row BY <1>1, <2>3
      <4>2. \A n \in 1 .. Len(View.rows) + 1 : [ent |-> View'.rows[n].ent, to |-> View'.rows[n].to] \in Ev
        BY <4>1 DEF Row
      <4> QED BY <1>1, <2>3, <4>2 DEF Events
    <3> HIDE DEF e, Ev
    <3>6. Len(Events') = Len(Events) + 1 BY <2>4, <3>5
    <3>7. \A n \in 1 .. Len(Events) : Events'[n] = Events[n] BY <2>4, <3>2
    <3>8. Events'[Len(Events) + 1] = e BY <2>4, <3>3
    <3>9. Events \in Seq(Ev) /\ Events' \in Seq(Ev) BY <2>4, <3>5
    <3> QED BY <3>4, <3>6, <3>7, <3>8, <3>9, AppendIs
  <2>6. Retired' = Retired BY <1>1, <2>1, <2>3 DEF Retired
  <2>7. r.ent \in Entity /\ r.to \in State BY <2>1 DEF Row
  <2>8. Promise!Commit(r.ent, r.to)
    BY <2>1, <2>2, <2>5, <2>6 DEF Promise!Commit, Events, Retired
  <2> QED BY <2>7, <2>8 DEF Promise!Next
<1> QED BY <1>5, <1>6, <1>8, <1>9, <1>10 DEF StoreMoves

\* The outbox implements Delivery: through the journal, its replay, any number of pumps,
\* crashes and failed writes, every step of a thread is a step of the promise or none.
THEOREM OutboxKeepsPromise == Spec => DeliverySpec
<1>1. Init => Promise!Init
  <2> SUFFICES ASSUME Init PROVE Promise!Init OBVIOUS
  <2>1. View.ents = [e \in Entity |-> NoState] /\ View.rows = << >> BY DEF Init, View
  <2>2. DOMAIN View.rows = {} BY <2>1
  <2>3. Events = << >> BY <2>2 DEF Events
  <2> QED BY <2>1, <2>2, <2>3 DEF Init, Promise!Init, Events
<1>2. FullInv /\ [Next]_vars => [Promise!Next]_<<View.ents, Events, inbox, Retired>>
  BY RowsStep, PromiseStep
<1> QED BY <1>1, <1>2, FullInvariant, PTL DEF Spec, DeliverySpec, Promise!Spec, Events, Retired
=================================================================================
