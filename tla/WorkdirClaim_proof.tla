-------------------------- MODULE WorkdirClaim_proof --------------------------
(***************************************************************************)
(* Theorems about WorkdirClaim, for any processes, threads, directories    *)
(* and holder ids that ClaimAssumption admits.  The inductive invariant    *)
(* joins where the lock of each directory is with how many jobs each entry *)
(* counts; that one job at a time writes, and that the registry implements *)
(* WorkdirLease, follow from it.                                           *)
(***************************************************************************)
EXTENDS WorkdirClaim, FiniteSetTheorems, TLAPS

IInv == ClaimTypeOK /\ LockAccounted /\ ClaimIsCounted

----------------------------------------------------------------------------

\* The jobs let in by a process are finitely many.
LEMMA UsersFinite ==
  \A p \in Process, d \in Workdir : IsFiniteSet(Users(p, d))
  BY ClaimAssumption, FS_Subset DEF Users

\* An entry in use has a holder id and a count.
LEMMA EntryInUse ==
  ASSUME ClaimTypeOK, NEW p \in Process, NEW d \in Workdir
  PROVE  /\ held[p][d] # Free => held[p][d] \in [holder : Holder, ref : Nat \ {0}]
         /\ held[p][d].ref \in Nat
         /\ held[p][d].ref = 0 <=> held[p][d] = Free
  BY DEF ClaimTypeOK, Free

\* A job at work is under an entry of its holder id.
LEMMA WorkIsMine ==
  ASSUME IInv, NEW t \in Thread, At(t, "work")
  PROVE  /\ ProcOf[t] \in Process /\ call[t].dir \in Workdir
         /\ t \in Users(ProcOf[t], call[t].dir)
         /\ Entry(t) # Free /\ Mine(t)
<1> DEFINE p == ProcOf[t]
           d == call[t].dir
<1>1. p \in Process /\ d \in Workdir
  BY ClaimAssumption DEF IInv, ClaimTypeOK, At
<1>2. t \in Users(p, d) BY DEF Users, Working
<1>3. held[p][d].ref = Cardinality(Users(p, d)) /\ HolderOf[t] = held[p][d].holder
  BY <1>1, <1>2 DEF IInv, ClaimIsCounted
<1>4. Cardinality(Users(p, d)) # 0 BY <1>1, <1>2, UsersFinite, FS_EmptySet
<1> QED BY <1>1, <1>2, <1>3, <1>4 DEF Entry, Mine, Free

\* Steps that move no job in or out of a directory leave the counts alone.
LEMMA CountsStay ==
  ASSUME ClaimIsCounted, held' = held,
         \A u \in Thread, e \in Workdir : Working(u, e)' <=> Working(u, e)
  PROVE  ClaimIsCounted'
<1>1. \A p \in Process, d \in Workdir : Users(p, d)' = Users(p, d) BY DEF Users
<1> QED BY <1>1 DEF ClaimIsCounted

\* The records of the calls.
Calls == [pc : Step, dir : Workdir \cup {NoDir}, late : BOOLEAN, fd : Thread \cup {NoThread}]

\* A step of control moves one call and leaves what it knows.
LEMMA GotoMoves ==
  ASSUME call \in [Thread -> Calls], NEW t \in Thread, NEW s \in Step, Goto(t, s)
  PROVE  /\ call' \in [Thread -> Calls]
         /\ call'[t].pc = s
         /\ \A u \in Thread : /\ u # t => call'[u] = call[u]
                              /\ call'[u].dir = call[u].dir
                              /\ call'[u].fd = call[u].fd
  BY DEF Goto, Calls

\* A call that returns is idle.
LEMMA IdleCall ==
  ASSUME call \in [Thread -> Calls], NEW t \in Thread, call' = [call EXCEPT ![t] = Idle]
  PROVE  /\ call' \in [Thread -> Calls]
         /\ call'[t].pc = "idle"
         /\ \A u \in Thread : u # t => call'[u] = call[u]
  BY DEF Idle, Calls, Step

\* What the type invariant says of the calls.
LEMMA CallsTyped ==
  ASSUME ClaimTypeOK
  PROVE  /\ call \in [Thread -> Calls]
         /\ \A t \in Thread : call[t].pc # "idle" => call[t].dir \in Workdir
  BY DEF ClaimTypeOK, Calls, At

\* Steps of one call that change nothing else, and neither begin nor end its work
\* nor its hold on a lock, disturb nothing.
LEMMA InvQuiet ==
  ASSUME IInv, NEW t \in Thread, UNCHANGED <<held, locks, flock, record, crashes>>,
         call' \in [Thread -> Calls],
         \A u \in Thread : u # t => call'[u] = call[u],
         call[t].pc \in {"idle", "try", "lock", "wait"},
         call'[t].pc \in {"idle", "try", "lock", "wait"},
         call'[t].pc # "idle" => call'[t].dir \in Workdir
  PROVE  IInv'
<1>1. ClaimTypeOK' BY DEF IInv, ClaimTypeOK, Calls, At
<1>2. LockAccounted' BY DEF IInv, LockAccounted, At, Entry
<1>3. ClaimIsCounted'
  <2>1. \A u \in Thread, e \in Workdir : Working(u, e)' <=> Working(u, e) BY DEF At, Working
  <2> QED BY <2>1, CountsStay DEF IInv
<1> QED BY <1>1, <1>2, <1>3 DEF IInv

\* Beginning a call is such a step.
LEMMA InvBegin ==
  ASSUME IInv, NEW t \in Thread, NEW d \in Workdir, Begin(t, d)
  PROVE  IInv'
<1>1. call \in [Thread -> Calls] BY CallsTyped DEF IInv
<1>2. /\ call' \in [Thread -> Calls] /\ call'[t].pc = "try" /\ call'[t].dir = d
      /\ \A u \in Thread : u # t => call'[u] = call[u]
  BY <1>1 DEF Begin, Calls, Step
<1> QED BY <1>2, InvQuiet DEF Begin, At

\* Polling again and giving up are such steps too: the call has no lock.
LEMMA InvPoll ==
  ASSUME IInv, NEW t \in Thread, Retry(t) \/ GiveUp(t)
  PROVE  IInv'
<1>1. call \in [Thread -> Calls] /\ (call[t].pc # "idle" => call[t].dir \in Workdir)
  BY CallsTyped DEF IInv
<1>2. CASE Retry(t)
  <2>1. /\ call' \in [Thread -> Calls] /\ call'[t].pc = "try" /\ call'[t].dir = call[t].dir
        /\ \A u \in Thread : u # t => call'[u] = call[u]
    BY <1>1, <1>2, GotoMoves DEF Retry, Step
  <2> QED BY <1>1, <1>2, <2>1, InvQuiet DEF Retry, At
<1>3. CASE GiveUp(t)
  <2>1. /\ call' \in [Thread -> Calls] /\ call'[t].pc = "idle"
        /\ \A u \in Thread : u # t => call'[u] = call[u]
    BY <1>1, <1>3, IdleCall DEF GiveUp
  <2> QED BY <1>3, <2>1, InvQuiet DEF GiveUp, At
<1> QED BY <1>2, <1>3

\* The passing of time moves no call.
LEMMA InvDeadline ==
  ASSUME IInv, NEW t \in Thread, Deadline(t)
  PROVE  IInv'
<1>1. call \in [Thread -> Calls] BY CallsTyped DEF IInv
<1>2. /\ call' \in [Thread -> Calls]
      /\ \A u \in Thread : /\ call'[u].pc = call[u].pc
                           /\ call'[u].dir = call[u].dir /\ call'[u].fd = call[u].fd
  BY <1>1 DEF Deadline, Calls
<1>3. UNCHANGED <<held, locks, flock, record, crashes>> BY DEF Deadline
<1>4. ClaimTypeOK' BY <1>2, <1>3 DEF IInv, ClaimTypeOK, Calls, At
<1>5. LockAccounted' BY <1>2, <1>3 DEF IInv, LockAccounted, At, Entry
<1>6. ClaimIsCounted'
  <2>1. \A u \in Thread, e \in Workdir : Working(u, e)' <=> Working(u, e)
    BY <1>2 DEF At, Working
  <2> QED BY <1>3, <2>1, CountsStay DEF IInv
<1> QED BY <1>4, <1>5, <1>6 DEF IInv

\* A file is locked only when no entry and no other call has it.
LEMMA InvLock ==
  ASSUME IInv, NEW t \in Thread, Lock(t)
  PROVE  IInv'
<1> DEFINE d == call[t].dir
<1>1. call \in [Thread -> Calls] /\ d \in Workdir /\ call[t].pc = "lock"
  BY CallsTyped DEF IInv, Lock, At
<1>2. CASE Goto(t, "wait") /\ UNCHANGED flock
  <2>1. /\ call' \in [Thread -> Calls] /\ call'[t].pc = "wait" /\ call'[t].dir = d
        /\ \A u \in Thread : u # t => call'[u] = call[u]
    BY <1>1, <1>2, GotoMoves DEF Step
  <2> QED BY <1>1, <1>2, <2>1, InvQuiet DEF Lock
<1>3. CASE flock[d] = NoThread /\ flock' = [flock EXCEPT ![d] = t] /\ Goto(t, "write")
  <2>1. /\ call' \in [Thread -> Calls] /\ call'[t].pc = "write" /\ call'[t].dir = d
        /\ \A u \in Thread : u # t => call'[u] = call[u]
    BY <1>1, <1>3, GotoMoves DEF Step
  <2>2. UNCHANGED <<held, locks, record, crashes>> BY DEF Lock
  <2>3. ClaimTypeOK' BY <1>1, <1>3, <2>1, <2>2 DEF IInv, ClaimTypeOK, Calls, At
  <2>4. \A u \in Thread : call[u].pc \in {"write", "install", "unlock"} => call[u].dir # d
    BY <1>3, ClaimAssumption DEF IInv, LockAccounted, At
  <2>5. \A p \in Process : held[p][d] = Free
    BY <1>1, <1>3, ClaimAssumption DEF IInv, LockAccounted
  <2>6. \A e \in Workdir : flock'[e] = IF e = d THEN t ELSE flock[e]
    BY <1>3 DEF IInv, ClaimTypeOK
  <2>7. LockAccounted'
    <3>1. \A u \in Thread : call'[u].pc \in {"write", "install"} =>
            flock'[call'[u].dir] = u /\ Entry(u)' = Free
      BY <1>1, <2>1, <2>2, <2>4, <2>5, <2>6, ClaimAssumption, CallsTyped
      DEF IInv, LockAccounted, Entry
    <3>2. \A p \in Process, e \in Workdir : held'[p][e] # Free =>
            locks'[p][e] \in Thread /\ ProcOf[locks'[p][e]] = p /\ flock'[e] = locks'[p][e]
      BY <2>2, <2>5, <2>6 DEF IInv, LockAccounted
    <3>3. \A u \in Thread : At(u, "unlock")' =>
            /\ call'[u].fd \in Thread /\ ProcOf[call'[u].fd] = ProcOf[u]
            /\ flock'[call'[u].dir] = call'[u].fd /\ Entry(u)' = Free
      BY <2>1, <2>2, <2>4, <2>6, CallsTyped DEF IInv, LockAccounted, Entry, At
    <3>4. \A u, w \in Thread : At(u, "unlock")' =>
            /\ call'[u].fd = w /\ call'[u].dir = call'[w].dir => call'[w].pc \notin {"write", "install"}
            /\ ProcOf[u] = ProcOf[w] /\ At(w, "unlock")' => u = w
      BY <2>1, <2>4 DEF IInv, LockAccounted, At
    <3> QED BY <3>1, <3>2, <3>3, <3>4 DEF LockAccounted
  <2>8. ClaimIsCounted'
    <3>1. \A u \in Thread, e \in Workdir : Working(u, e)' <=> Working(u, e)
      BY <1>1, <2>1 DEF At, Working
    <3> QED BY <2>2, <3>1, CountsStay DEF IInv
  <2> QED BY <2>3, <2>7, <2>8 DEF IInv
<1> QED BY <1>2, <1>3 DEF Lock

\* Writing the record moves the call and touches no lock.
LEMMA InvWriteRecord ==
  ASSUME IInv, NEW t \in Thread, WriteRecord(t)
  PROVE  IInv'
<1>1. call \in [Thread -> Calls] /\ call[t].dir \in Workdir /\ call[t].pc = "write"
  BY CallsTyped DEF IInv, WriteRecord, At
<1>2. /\ call' \in [Thread -> Calls] /\ call'[t].pc = "install"
      /\ \A u \in Thread : /\ u # t => call'[u] = call[u]
                           /\ call'[u].dir = call[u].dir /\ call'[u].fd = call[u].fd
  BY <1>1, GotoMoves DEF WriteRecord, Step
<1>3. UNCHANGED <<held, locks, flock, crashes>> BY DEF WriteRecord
<1>4. ClaimTypeOK' BY <1>1, <1>2, <1>3 DEF IInv, ClaimTypeOK, Calls, At, WriteRecord
<1>5. LockAccounted' BY <1>1, <1>2, <1>3 DEF IInv, LockAccounted, At, Entry
<1>6. ClaimIsCounted'
  <2>1. \A u \in Thread, e \in Workdir : Working(u, e)' <=> Working(u, e)
    BY <1>1, <1>2 DEF At, Working
  <2> QED BY <1>3, <2>1, CountsStay DEF IInv
<1> QED BY <1>4, <1>5, <1>6 DEF IInv

\* A reentrant claim adds one job and counts it.
LEMMA CountsReenter ==
  ASSUME IInv, NEW t \in Thread, Reenter(t), ~At(t, "work"), call[t].dir \in Workdir,
         Entry(t) # Free, Mine(t), call' \in [Thread -> Calls],
         call'[t].pc = "work", call'[t].dir = call[t].dir,
         \A u \in Thread : u # t => call'[u] = call[u]
  PROVE  ClaimIsCounted' /\ held' \in [Process -> [Workdir -> [holder : Holder, ref : Nat \ {0}] \cup {Free}]]
         /\ \A p \in Process, d \in Workdir : held'[p][d] = Free <=> held[p][d] = Free
<1> DEFINE p == ProcOf[t]
           d == call[t].dir
           new == [held[p][d] EXCEPT !.ref = @ + 1]
<1>1. p \in Process BY ClaimAssumption
<1>2. held[p][d] \in [holder : Holder, ref : Nat \ {0}] /\ held[p][d] # Free
  BY <1>1, EntryInUse DEF IInv, Entry
<1>3. new \in [holder : Holder, ref : Nat \ {0}] /\ new.holder = held[p][d].holder
      /\ new.ref = held[p][d].ref + 1 /\ new # Free
  BY <1>2, ClaimAssumption DEF Free
<1>4. /\ held' = [held EXCEPT ![p][d] = new]
      /\ \A q \in Process, e \in Workdir :
           held'[q][e] = IF q = p /\ e = d THEN new ELSE held[q][e]
  BY <1>1 DEF IInv, ClaimTypeOK, Reenter
<1> HIDE DEF new
<1>5. Users(p, d)' = Users(p, d) \cup {t} BY DEF Users, Working, At
<1>6. \A q \in Process, e \in Workdir : ~(q = p /\ e = d) => Users(q, e)' = Users(q, e)
  BY DEF Users, Working, At
<1>7. Cardinality(Users(p, d)') = held'[p][d].ref
  <2>1. t \notin Users(p, d) BY DEF Users, Working, At
  <2>2. Cardinality(Users(p, d) \cup {t}) = Cardinality(Users(p, d)) + 1
    BY <1>1, <2>1, UsersFinite, FS_AddElement
  <2> QED BY <1>1, <1>3, <1>4, <1>5, <2>2 DEF IInv, ClaimIsCounted
<1>8. \A u \in Users(p, d)' : HolderOf[u] = held'[p][d].holder
  BY <1>1, <1>3, <1>4, <1>5 DEF IInv, ClaimIsCounted, Mine, Entry
<1>9. ClaimIsCounted' BY <1>1, <1>4, <1>6, <1>7, <1>8 DEF IInv, ClaimIsCounted
<1> QED BY <1>1, <1>2, <1>3, <1>4, <1>9 DEF IInv, ClaimTypeOK

\* The first critical section.
LEMMA InvTry ==
  ASSUME IInv, NEW t \in Thread, Try(t)
  PROVE  IInv'
<1>1. call \in [Thread -> Calls] /\ call[t].dir \in Workdir /\ call[t].pc = "try"
  BY CallsTyped DEF IInv, Try, At
<1>2. ASSUME NEW s \in {"lock", "wait"}, Goto(t, s), UNCHANGED held
      PROVE  IInv'
  <2>1. /\ call' \in [Thread -> Calls] /\ call'[t].pc = s /\ call'[t].dir = call[t].dir
        /\ \A u \in Thread : u # t => call'[u] = call[u]
    BY <1>1, <1>2, GotoMoves DEF Step
  <2> QED BY <1>1, <1>2, <2>1, InvQuiet DEF Try
<1>3. CASE Entry(t) # Free /\ Mine(t) /\ Goto(t, "work") /\ Reenter(t)
  <2>1. /\ call' \in [Thread -> Calls] /\ call'[t].pc = "work"
        /\ \A u \in Thread : /\ u # t => call'[u] = call[u]
                             /\ call'[u].dir = call[u].dir /\ call'[u].fd = call[u].fd
    BY <1>1, <1>3, GotoMoves DEF Step
  <2>2. UNCHANGED <<locks, flock, record, crashes>> BY DEF Try
  <2>3. /\ ClaimIsCounted'
        /\ held' \in [Process -> [Workdir -> [holder : Holder, ref : Nat \ {0}] \cup {Free}]]
        /\ \A p \in Process, d \in Workdir : held'[p][d] = Free <=> held[p][d] = Free
    BY <1>1, <1>3, <2>1, CountsReenter DEF At
  <2>4. ClaimTypeOK' BY <1>1, <2>1, <2>2, <2>3 DEF IInv, ClaimTypeOK, Calls, At
  <2>5. LockAccounted'
    <3>1. \A u \in Thread : call'[u].pc \in {"write", "install"} =>
            flock'[call'[u].dir] = u /\ Entry(u)' = Free
      <4> SUFFICES ASSUME NEW u \in Thread, call'[u].pc \in {"write", "install"}
                   PROVE  flock'[call'[u].dir] = u /\ Entry(u)' = Free
        OBVIOUS
      <4>1. call'[u] = call[u] /\ call[u].pc # "idle" /\ call[u].dir \in Workdir
        BY <2>1, CallsTyped DEF IInv
      <4>2. flock[call[u].dir] = u /\ held[ProcOf[u]][call[u].dir] = Free
        BY <4>1 DEF IInv, LockAccounted, Entry
      <4>3. held'[ProcOf[u]][call[u].dir] = Free BY <2>3, <4>1, <4>2, ClaimAssumption
      <4> QED BY <2>2, <4>1, <4>2, <4>3 DEF Entry
    <3>2. \A p \in Process, d \in Workdir : held'[p][d] # Free =>
            locks'[p][d] \in Thread /\ ProcOf[locks'[p][d]] = p /\ flock'[d] = locks'[p][d]
      BY <2>2, <2>3 DEF IInv, LockAccounted
    <3>3. \A u \in Thread : At(u, "unlock")' =>
            /\ call'[u].fd \in Thread /\ ProcOf[call'[u].fd] = ProcOf[u]
            /\ flock'[call'[u].dir] = call'[u].fd /\ Entry(u)' = Free
      <4> SUFFICES ASSUME NEW u \in Thread, call'[u].pc = "unlock"
                   PROVE  /\ call'[u].fd \in Thread /\ ProcOf[call'[u].fd] = ProcOf[u]
                          /\ flock'[call'[u].dir] = call'[u].fd /\ Entry(u)' = Free
        BY DEF At
      <4>1. call'[u] = call[u] /\ call[u].pc # "idle" /\ call[u].dir \in Workdir
        BY <2>1, CallsTyped DEF IInv
      <4>2. /\ call[u].fd \in Thread /\ ProcOf[call[u].fd] = ProcOf[u]
            /\ flock[call[u].dir] = call[u].fd /\ held[ProcOf[u]][call[u].dir] = Free
        BY <4>1 DEF IInv, LockAccounted, Entry, At
      <4>3. held'[ProcOf[u]][call[u].dir] = Free BY <2>3, <4>1, <4>2, ClaimAssumption
      <4> QED BY <2>2, <4>1, <4>2, <4>3 DEF Entry
    <3>4. \A u, w \in Thread : At(u, "unlock")' =>
            /\ call'[u].fd = w /\ call'[u].dir = call'[w].dir => call'[w].pc \notin {"write", "install"}
            /\ ProcOf[u] = ProcOf[w] /\ At(w, "unlock")' => u = w
      BY <2>1 DEF IInv, LockAccounted, At
    <3> QED BY <3>1, <3>2, <3>3, <3>4 DEF LockAccounted
  <2> QED BY <2>3, <2>4, <2>5 DEF IInv
<1> QED BY <1>2, <1>3 DEF Try

\* The second critical section finds the entry free and takes it.
LEMMA InvInstall ==
  ASSUME IInv, NEW t \in Thread, Install(t)
  PROVE  IInv'
<1> DEFINE p == ProcOf[t]
           d == call[t].dir
           new == [holder |-> HolderOf[t], ref |-> 1]
<1>1. /\ call \in [Thread -> Calls] /\ d \in Workdir /\ call[t].pc = "install"
      /\ p \in Process /\ new \in [holder : Holder, ref : Nat \ {0}] /\ new # Free
  BY CallsTyped, ClaimAssumption DEF IInv, Install, At, Free
<1>2. Entry(t) = Free /\ flock[d] = t BY <1>1 DEF IInv, LockAccounted
<1>3. /\ held' = [held EXCEPT ![p][d] = new] /\ locks' = [locks EXCEPT ![p][d] = t]
      /\ Goto(t, "work") /\ UNCHANGED <<flock, record, crashes>>
  BY <1>2 DEF Install
<1>4. /\ call' \in [Thread -> Calls] /\ call'[t].pc = "work"
      /\ \A u \in Thread : /\ u # t => call'[u] = call[u]
                           /\ call'[u].dir = call[u].dir /\ call'[u].fd = call[u].fd
  BY <1>1, <1>3, GotoMoves DEF Step
<1>5. \A q \in Process, e \in Workdir :
        /\ held'[q][e] = IF q = p /\ e = d THEN new ELSE held[q][e]
        /\ locks'[q][e] = IF q = p /\ e = d THEN t ELSE locks[q][e]
  BY <1>1, <1>3 DEF IInv, ClaimTypeOK
<1>6. ClaimTypeOK' BY <1>1, <1>3, <1>4 DEF IInv, ClaimTypeOK, Calls, At
<1>7. \A u \in Thread : u # t /\ call[u].pc \in {"write", "install", "unlock"} => call[u].dir # d
  BY <1>1, <1>2 DEF IInv, LockAccounted, At
<1>8. LockAccounted'
  <2>1. \A u \in Thread : call'[u].pc \in {"write", "install"} =>
          flock'[call'[u].dir] = u /\ Entry(u)' = Free
    <3> SUFFICES ASSUME NEW u \in Thread, call'[u].pc \in {"write", "install"}
                 PROVE  flock'[call'[u].dir] = u /\ Entry(u)' = Free
      OBVIOUS
    <3>1. u # t /\ call'[u] = call[u] /\ call[u].dir \in Workdir /\ call[u].dir # d
      BY <1>4, <1>7, CallsTyped DEF IInv
    <3>2. flock[call[u].dir] = u /\ held[ProcOf[u]][call[u].dir] = Free
      BY <3>1 DEF IInv, LockAccounted, Entry
    <3>3. held'[ProcOf[u]][call[u].dir] = Free BY <1>5, <3>1, <3>2, ClaimAssumption
    <3> QED BY <1>3, <3>1, <3>2, <3>3 DEF Entry
  <2>2. \A q \in Process, e \in Workdir : held'[q][e] # Free =>
          locks'[q][e] \in Thread /\ ProcOf[locks'[q][e]] = q /\ flock'[e] = locks'[q][e]
    BY <1>2, <1>3, <1>5 DEF IInv, LockAccounted
  <2>3. \A u \in Thread : At(u, "unlock")' =>
          /\ call'[u].fd \in Thread /\ ProcOf[call'[u].fd] = ProcOf[u]
          /\ flock'[call'[u].dir] = call'[u].fd /\ Entry(u)' = Free
    <3> SUFFICES ASSUME NEW u \in Thread, call'[u].pc = "unlock"
                 PROVE  /\ call'[u].fd \in Thread /\ ProcOf[call'[u].fd] = ProcOf[u]
                        /\ flock'[call'[u].dir] = call'[u].fd /\ Entry(u)' = Free
      BY DEF At
    <3>1. u # t /\ call'[u] = call[u] /\ call[u].dir \in Workdir /\ call[u].dir # d
      BY <1>4, <1>7, CallsTyped DEF IInv
    <3>2. /\ call[u].fd \in Thread /\ ProcOf[call[u].fd] = ProcOf[u]
          /\ flock[call[u].dir] = call[u].fd /\ held[ProcOf[u]][call[u].dir] = Free
      BY <3>1 DEF IInv, LockAccounted, Entry, At
    <3>3. held'[ProcOf[u]][call[u].dir] = Free BY <1>5, <3>1, <3>2, ClaimAssumption
    <3> QED BY <1>3, <3>1, <3>2, <3>3 DEF Entry
  <2>4. \A u, w \in Thread : At(u, "unlock")' =>
          /\ call'[u].fd = w /\ call'[u].dir = call'[w].dir => call'[w].pc \notin {"write", "install"}
          /\ ProcOf[u] = ProcOf[w] /\ At(w, "unlock")' => u = w
    BY <1>4 DEF IInv, LockAccounted, At
  <2> QED BY <2>1, <2>2, <2>3, <2>4 DEF LockAccounted
<1>9. ClaimIsCounted'
  <2>1. Users(p, d) = {}
    BY <1>1, <1>2, UsersFinite, FS_EmptySet DEF IInv, ClaimIsCounted, Entry, Free
  <2>2. Users(p, d)' = {t} BY <1>1, <1>4, <2>1 DEF Users, Working, At
  <2>3. \A q \in Process, e \in Workdir : ~(q = p /\ e = d) => Users(q, e)' = Users(q, e)
    BY <1>1, <1>4 DEF Users, Working, At
  <2>4. Cardinality({t}) = 1 BY FS_Singleton
  <2>5. \A q \in Process, e \in Workdir :
          /\ held'[q][e].ref = Cardinality(Users(q, e)')
          /\ \A u \in Users(q, e)' : HolderOf[u] = held'[q][e].holder
    <3> SUFFICES ASSUME NEW q \in Process, NEW e \in Workdir
                 PROVE  /\ held'[q][e].ref = Cardinality(Users(q, e)')
                        /\ \A u \in Users(q, e)' : HolderOf[u] = held'[q][e].holder
      OBVIOUS
    <3>1. CASE q = p /\ e = d
      <4>1. Users(q, e)' = {t} BY <1>4, <2>2, <3>1
      <4>2. held'[q][e] = new BY <1>5, <3>1
      <4> QED BY <2>4, <4>1, <4>2
    <3>2. CASE ~(q = p /\ e = d)
      <4>1. Users(q, e)' = Users(q, e) BY <2>3, <3>2
      <4>2. held'[q][e] = held[q][e] BY <1>5, <3>2
      <4> QED BY <4>1, <4>2 DEF IInv, ClaimIsCounted
    <3> QED BY <3>1, <3>2
  <2> QED BY <2>5 DEF ClaimIsCounted
<1> QED BY <1>6, <1>8, <1>9 DEF IInv

\* What is left of an entry when one of its jobs is through.
LEMMA CountsRelease ==
  ASSUME IInv, NEW t \in Thread, At(t, "work"), NEW p, NEW d, NEW new,
         p = ProcOf[t], d = call[t].dir,
         \A q \in Process, e \in Workdir :
           held'[q][e] = IF q = p /\ e = d THEN new ELSE held[q][e],
         new.ref = held[p][d].ref - 1, new.ref = 0 \/ new.holder = held[p][d].holder,
         call'[t].pc # "work",
         \A u \in Thread : u # t => call'[u] = call[u]
  PROVE  ClaimIsCounted'
<1>1. p \in Process /\ d \in Workdir /\ t \in Users(p, d) BY WorkIsMine
<1>2. Users(p, d)' = Users(p, d) \ {t} BY DEF Users, Working, At
<1>3. \A q \in Process, e \in Workdir : ~(q = p /\ e = d) => Users(q, e)' = Users(q, e)
  BY DEF Users, Working, At
<1>4. Cardinality(Users(p, d)') = new.ref
  <2>1. Cardinality(Users(p, d) \ {t}) = Cardinality(Users(p, d)) - 1
    BY <1>1, UsersFinite, FS_RemoveElement
  <2> QED BY <1>1, <1>2, <2>1 DEF IInv, ClaimIsCounted
<1>5. \A u \in Users(p, d)' : HolderOf[u] = new.holder
  <2>1. CASE new.ref = 0
    <3>1. IsFiniteSet(Users(p, d)') BY <1>1, <1>2, UsersFinite, FS_RemoveElement
    <3> QED BY <1>4, <2>1, <3>1, FS_EmptySet
  <2>2. CASE new.holder = held[p][d].holder
    BY <1>1, <1>2, <2>2 DEF IInv, ClaimIsCounted
  <2> QED BY <2>1, <2>2
<1> QED BY <1>1, <1>3, <1>4, <1>5 DEF IInv, ClaimIsCounted

\* A release drops a job, and with the last one the entry; _mu keeps other releases out.
LEMMA InvRelease ==
  ASSUME IInv, NEW t \in Thread, Release(t)
  PROVE  IInv'
<1>1. PICK p, d : p = ProcOf[t] /\ d = call[t].dir OBVIOUS
<1>2. /\ call \in [Thread -> Calls] /\ call[t].pc = "work"
      /\ p \in Process /\ d \in Workdir /\ Mine(t)
      /\ held[p][d] \in [holder : Holder, ref : Nat \ {0}] /\ held[p][d] # Free
  BY <1>1, WorkIsMine, CallsTyped, EntryInUse DEF IInv, Release, At, Entry
<1>3. \A u \in Thread : ProcOf[u] = p => call[u].pc # "unlock"
  BY <1>1 DEF Release, MutexFree, At
<1>4. CASE Entry(t).ref = 1
  <2>1. /\ held' = [held EXCEPT ![p][d] = Free] /\ locks' = [locks EXCEPT ![p][d] = NoThread]
        /\ record' = [record EXCEPT ![d] = NoThread] /\ UNCHANGED <<flock, crashes>>
        /\ call' = [call EXCEPT ![t].pc = "unlock", ![t].fd = locks[p][d]]
    BY <1>1, <1>2, <1>4 DEF Release, ReleaseLast
  <2>2. /\ locks[p][d] \in Thread /\ ProcOf[locks[p][d]] = p /\ flock[d] = locks[p][d]
    BY <1>2 DEF IInv, LockAccounted
  <2>3. /\ call' \in [Thread -> Calls] /\ call'[t].pc = "unlock" /\ call'[t].dir = d
        /\ call'[t].fd = locks[p][d]
        /\ \A u \in Thread : u # t => call'[u] = call[u]
    BY <1>1, <1>2, <2>1, <2>2 DEF Calls, Step
  <2>4. \A q \in Process, e \in Workdir :
          /\ held'[q][e] = IF q = p /\ e = d THEN Free ELSE held[q][e]
          /\ locks'[q][e] = IF q = p /\ e = d THEN NoThread ELSE locks[q][e]
    BY <1>2, <2>1 DEF IInv, ClaimTypeOK
  <2>5. ClaimTypeOK' BY <1>2, <2>1, <2>3 DEF IInv, ClaimTypeOK, Calls, At
  <2>6. \A u \in Thread : call[u].pc \in {"write", "install"} /\ call[u].dir = d => u # locks[p][d]
    BY <1>2, <2>2 DEF IInv, LockAccounted, Entry
  <2>7. LockAccounted'
    <3>1. \A u \in Thread : call'[u].pc \in {"write", "install"} =>
            flock'[call'[u].dir] = u /\ Entry(u)' = Free
      BY <2>1, <2>3, <2>4, ClaimAssumption, CallsTyped DEF IInv, LockAccounted, Entry
    <3>2. \A q \in Process, e \in Workdir : held'[q][e] # Free =>
            locks'[q][e] \in Thread /\ ProcOf[locks'[q][e]] = q /\ flock'[e] = locks'[q][e]
      BY <2>1, <2>4 DEF IInv, LockAccounted
    <3>3. \A u \in Thread : At(u, "unlock")' =>
            /\ call'[u].fd \in Thread /\ ProcOf[call'[u].fd] = ProcOf[u]
            /\ flock'[call'[u].dir] = call'[u].fd /\ Entry(u)' = Free
      BY <1>1, <1>2, <2>1, <2>2, <2>3, <2>4, ClaimAssumption, CallsTyped
      DEF IInv, LockAccounted, Entry, At
    <3>4. \A u, w \in Thread : At(u, "unlock")' =>
            /\ call'[u].fd = w /\ call'[u].dir = call'[w].dir => call'[w].pc \notin {"write", "install"}
            /\ ProcOf[u] = ProcOf[w] /\ At(w, "unlock")' => u = w
      BY <1>1, <1>2, <1>3, <2>3, <2>6 DEF IInv, LockAccounted, At
    <3> QED BY <3>1, <3>2, <3>3, <3>4 DEF LockAccounted
  <2>8. ClaimIsCounted'
    <3>1. Free.ref = held[p][d].ref - 1 /\ Free.ref = 0 BY <1>1, <1>4 DEF Free, Entry
    <3>2. call'[t].pc # "work" BY <2>3
    <3> QED BY <1>1, <1>2, <2>3, <2>4, <3>1, <3>2, CountsRelease DEF At
  <2> QED BY <2>5, <2>7, <2>8 DEF IInv
<1>5. CASE Entry(t).ref # 1
  <2> DEFINE new == [held[p][d] EXCEPT !.ref = @ - 1]
  <2>1. /\ new \in [holder : Holder, ref : Nat \ {0}] /\ new # Free
        /\ new.ref = held[p][d].ref - 1 /\ new.holder = held[p][d].holder
    BY <1>1, <1>2, <1>5, ClaimAssumption DEF Free, Entry
  <2>2. /\ held' = [held EXCEPT ![p][d] = new] /\ call' = [call EXCEPT ![t] = Idle]
        /\ UNCHANGED <<locks, record, flock, crashes>>
    BY <1>1, <1>2, <1>5 DEF Release, IInv, ClaimTypeOK
  <2> HIDE DEF new
  <2>3. /\ call' \in [Thread -> Calls] /\ call'[t].pc = "idle"
        /\ \A u \in Thread : u # t => call'[u] = call[u]
    BY <1>2, <2>2, IdleCall
  <2>4. \A q \in Process, e \in Workdir :
          held'[q][e] = IF q = p /\ e = d THEN new ELSE held[q][e]
    BY <1>2, <2>2 DEF IInv, ClaimTypeOK
  <2>5. ClaimTypeOK' BY <1>2, <2>1, <2>2, <2>3 DEF IInv, ClaimTypeOK, Calls, At
  <2>6. \A q \in Process, e \in Workdir : held'[q][e] = Free <=> held[q][e] = Free
    BY <1>2, <2>1, <2>4
  <2>7. LockAccounted'
    <3>1. \A u \in Thread : call'[u].pc \in {"write", "install"} =>
            flock'[call'[u].dir] = u /\ Entry(u)' = Free
      BY <2>2, <2>3, <2>6, ClaimAssumption, CallsTyped DEF IInv, LockAccounted, Entry
    <3>2. \A q \in Process, e \in Workdir : held'[q][e] # Free =>
            locks'[q][e] \in Thread /\ ProcOf[locks'[q][e]] = q /\ flock'[e] = locks'[q][e]
      BY <2>2, <2>6 DEF IInv, LockAccounted
    <3>3. \A u \in Thread : At(u, "unlock")' =>
            /\ call'[u].fd \in Thread /\ ProcOf[call'[u].fd] = ProcOf[u]
            /\ flock'[call'[u].dir] = call'[u].fd /\ Entry(u)' = Free
      BY <2>2, <2>3, <2>6, ClaimAssumption, CallsTyped DEF IInv, LockAccounted, Entry, At
    <3>4. \A u, w \in Thread : At(u, "unlock")' =>
            /\ call'[u].fd = w /\ call'[u].dir = call'[w].dir => call'[w].pc \notin {"write", "install"}
            /\ ProcOf[u] = ProcOf[w] /\ At(w, "unlock")' => u = w
      BY <2>3 DEF IInv, LockAccounted, At
    <3> QED BY <3>1, <3>2, <3>3, <3>4 DEF LockAccounted
  <2>8. ClaimIsCounted'
    BY <1>1, <1>2, <2>1, <2>3, <2>4, CountsRelease DEF At
  <2> QED BY <2>5, <2>7, <2>8 DEF IInv
<1> QED BY <1>4, <1>5

\* The end of a release frees a file that nobody else has.
LEMMA InvUnlock ==
  ASSUME IInv, NEW t \in Thread, Unlock(t)
  PROVE  IInv'
<1>1. PICK p, d : p = ProcOf[t] /\ d = call[t].dir OBVIOUS
<1>2. /\ call \in [Thread -> Calls] /\ call[t].pc = "unlock"
      /\ p \in Process /\ d \in Workdir
  BY <1>1, CallsTyped, ClaimAssumption DEF IInv, Unlock, At
<1>3. /\ call[t].fd \in Thread /\ ProcOf[call[t].fd] = p
      /\ flock[d] = call[t].fd /\ held[p][d] = Free
  BY <1>1, <1>2 DEF IInv, LockAccounted, At, Entry
<1>4. /\ call' \in [Thread -> Calls] /\ call'[t].pc = "idle"
      /\ \A u \in Thread : u # t => call'[u] = call[u]
  BY <1>2, IdleCall DEF Unlock
<1>5. UNCHANGED <<held, locks, record, crashes>> BY DEF Unlock
<1>6. \A e \in Workdir : flock'[e] = IF e = d THEN NoThread ELSE flock[e]
  BY <1>1, <1>3 DEF Unlock, IInv, ClaimTypeOK
<1>7. ClaimTypeOK' BY <1>4, <1>5, <1>6 DEF IInv, ClaimTypeOK, Calls, At, Unlock
<1>8. \A u \in Thread : u # t /\ call[u].pc \in {"write", "install", "unlock"} => call[u].dir # d
  BY <1>1, <1>2, <1>3 DEF IInv, LockAccounted, At
<1>9. LockAccounted'
  <2>1. \A u \in Thread : call'[u].pc \in {"write", "install"} =>
          flock'[call'[u].dir] = u /\ Entry(u)' = Free
    BY <1>4, <1>5, <1>6, <1>8, CallsTyped DEF IInv, LockAccounted, Entry
  <2>2. \A q \in Process, e \in Workdir : held'[q][e] # Free =>
          locks'[q][e] \in Thread /\ ProcOf[locks'[q][e]] = q /\ flock'[e] = locks'[q][e]
    BY <1>3, <1>5, <1>6 DEF IInv, LockAccounted
  <2>3. \A u \in Thread : At(u, "unlock")' =>
          /\ call'[u].fd \in Thread /\ ProcOf[call'[u].fd] = ProcOf[u]
          /\ flock'[call'[u].dir] = call'[u].fd /\ Entry(u)' = Free
    BY <1>4, <1>5, <1>6, <1>8, CallsTyped DEF IInv, LockAccounted, Entry, At
  <2>4. \A u, w \in Thread : At(u, "unlock")' =>
          /\ call'[u].fd = w /\ call'[u].dir = call'[w].dir => call'[w].pc \notin {"write", "install"}
          /\ ProcOf[u] = ProcOf[w] /\ At(w, "unlock")' => u = w
    BY <1>4 DEF IInv, LockAccounted, At
  <2> QED BY <2>1, <2>2, <2>3, <2>4 DEF LockAccounted
<1>10. ClaimIsCounted'
  <2>1. \A u \in Thread, e \in Workdir : Working(u, e)' <=> Working(u, e)
    BY <1>2, <1>4 DEF At, Working
  <2> QED BY <1>5, <2>1, CountsStay DEF IInv
<1> QED BY <1>7, <1>9, <1>10 DEF IInv

\* A crash takes the locks, entries and calls of its process together.
LEMMA InvCrash ==
  ASSUME IInv, NEW p \in Process, Crash(p)
  PROVE  IInv'
<1>1. call \in [Thread -> Calls] BY CallsTyped DEF IInv
<1>2. /\ call' \in [Thread -> Calls]
      /\ \A u \in Thread : call'[u] = IF ProcOf[u] = p THEN Idle ELSE call[u]
  BY <1>1 DEF Crash, Calls, Idle, Step
<1>3. \A q \in Process, e \in Workdir :
        /\ held'[q][e] = IF q = p THEN Free ELSE held[q][e]
        /\ locks'[q][e] = IF q = p THEN NoThread ELSE locks[q][e]
  BY DEF Crash, IInv, ClaimTypeOK
<1>4. \A e \in Workdir :
        flock'[e] = IF flock[e] \in Thread /\ ProcOf[flock[e]] = p THEN NoThread ELSE flock[e]
  BY DEF Crash
<1>5. ClaimTypeOK'
  BY <1>1, <1>2 DEF IInv, ClaimTypeOK, Crash, Calls, At, Idle
<1>6. LockAccounted'
  <2>1. \A u \in Thread : call'[u].pc \in {"write", "install"} =>
          flock'[call'[u].dir] = u /\ Entry(u)' = Free
    BY <1>2, <1>3, <1>4, CallsTyped, ClaimAssumption DEF IInv, LockAccounted, Entry, Idle
  <2>2. \A q \in Process, e \in Workdir : held'[q][e] # Free =>
          locks'[q][e] \in Thread /\ ProcOf[locks'[q][e]] = q /\ flock'[e] = locks'[q][e]
    BY <1>3, <1>4 DEF IInv, LockAccounted
  <2>3. \A u \in Thread : At(u, "unlock")' =>
          /\ call'[u].fd \in Thread /\ ProcOf[call'[u].fd] = ProcOf[u]
          /\ flock'[call'[u].dir] = call'[u].fd /\ Entry(u)' = Free
    BY <1>2, <1>3, <1>4, CallsTyped, ClaimAssumption DEF IInv, LockAccounted, Entry, At, Idle
  <2>4. \A u, w \in Thread : At(u, "unlock")' =>
          /\ call'[u].fd = w /\ call'[u].dir = call'[w].dir => call'[w].pc \notin {"write", "install"}
          /\ ProcOf[u] = ProcOf[w] /\ At(w, "unlock")' => u = w
    BY <1>2 DEF IInv, LockAccounted, At, Idle
  <2> QED BY <2>1, <2>2, <2>3, <2>4 DEF LockAccounted
<1>7. ClaimIsCounted'
  <2>1. \A q \in Process, e \in Workdir : q # p => Users(q, e)' = Users(q, e)
    BY <1>2 DEF Users, Working, At
  <2>2. \A e \in Workdir : Users(p, e)' = {} BY <1>2 DEF Users, Working, At, Idle
  <2>3. \A q \in Process, e \in Workdir :
          /\ held'[q][e].ref = Cardinality(Users(q, e)')
          /\ \A u \in Users(q, e)' : HolderOf[u] = held'[q][e].holder
    <3> SUFFICES ASSUME NEW q \in Process, NEW e \in Workdir
                 PROVE  /\ held'[q][e].ref = Cardinality(Users(q, e)')
                        /\ \A u \in Users(q, e)' : HolderOf[u] = held'[q][e].holder
      OBVIOUS
    <3>1. CASE q = p
      <4>1. Users(q, e)' = {} BY <2>2, <3>1
      <4>2. held'[q][e].ref = 0 BY <1>3, <3>1 DEF Free
      <4> QED BY <4>1, <4>2, FS_EmptySet
    <3>2. CASE q # p
      <4>1. Users(q, e)' = Users(q, e) BY <2>1, <3>2
      <4>2. held'[q][e] = held[q][e] BY <1>3, <3>2
      <4> QED BY <4>1, <4>2 DEF IInv, ClaimIsCounted
    <3> QED BY <3>1, <3>2
  <2> QED BY <2>3 DEF ClaimIsCounted
<1> QED BY <1>5, <1>6, <1>7 DEF IInv

\* At the start nothing is held, locked or recorded.
LEMMA InvInit == Init => IInv
<1> SUFFICES ASSUME Init PROVE IInv OBVIOUS
<1>1. ClaimTypeOK BY DEF Init, ClaimTypeOK, Free, Idle, Step, At
<1>2. LockAccounted BY ClaimAssumption DEF Init, LockAccounted, Free, Idle, At
<1>3. ClaimIsCounted
  <2>1. \A p \in Process, d \in Workdir : Users(p, d) = {} BY DEF Init, Users, Working, At, Idle
  <2>2. \A p \in Process, d \in Workdir : held[p][d].ref = 0 BY DEF Init, Free
  <2> QED BY <2>1, <2>2, FS_EmptySet DEF ClaimIsCounted
<1> QED BY <1>1, <1>2, <1>3 DEF IInv

\* Every step of the registry keeps the invariant: one step per action.
LEMMA InvNext ==
  ASSUME IInv, [Next]_vars
  PROVE  IInv'
<1>1. ASSUME NEW t \in Thread, NEW d \in Workdir, Begin(t, d) PROVE IInv' BY <1>1, InvBegin
<1>2. ASSUME NEW t \in Thread, Acquire(t) PROVE IInv'
  BY <1>2, InvTry, InvLock, InvWriteRecord, InvInstall, InvPoll DEF Acquire
<1>3. ASSUME NEW t \in Thread, Deadline(t) \/ Release(t) \/ Unlock(t) PROVE IInv'
  BY <1>3, InvDeadline, InvRelease, InvUnlock
<1>4. ASSUME NEW p \in Process, Crash(p) PROVE IInv' BY <1>4, InvCrash
<1>5. CASE UNCHANGED vars
  <2>1. ClaimTypeOK' BY <1>5 DEF vars, IInv, ClaimTypeOK, At
  <2>2. LockAccounted' BY <1>5 DEF vars, IInv, LockAccounted, At, Entry
  <2>3. \A u \in Thread, e \in Workdir : Working(u, e)' <=> Working(u, e)
    BY <1>5 DEF vars, Working, At
  <2>4. ClaimIsCounted' BY <1>5, <2>3, CountsStay DEF vars, IInv
  <2> QED BY <2>1, <2>2, <2>4 DEF IInv
<1> QED BY <1>1, <1>2, <1>3, <1>4, <1>5 DEF Next

\* So it holds in every reachable state of the registry.
LEMMA InvAlways == Spec => []IInv
<1>1. IInv /\ [Next]_vars => IInv' BY InvNext
<1> QED BY <1>1, InvInit, PTL DEF Spec

\* Entries, locks and calls keep their types through every interleaving and crash.
THEOREM ClaimTypeCorrect == Spec => []ClaimTypeOK
<1>1. IInv => ClaimTypeOK BY DEF IInv
<1> QED BY <1>1, InvAlways, PTL

\* A locked file is in exactly one hand: _try_acquire never meets another holder when
\* it comes back to the table with the lock of the file.
THEOREM LockStaysAccounted == Spec => []LockAccounted
<1>1. IInv => LockAccounted BY DEF IInv
<1> QED BY <1>1, InvAlways, PTL

\* The refcount is the number of jobs at work under the claim.
THEOREM ClaimStaysCounted == Spec => []ClaimIsCounted
<1>1. IInv => ClaimIsCounted BY DEF IInv
<1> QED BY <1>1, InvAlways, PTL

\* Two jobs at work in one directory are under one entry.
LEMMA SameEntry ==
  ASSUME IInv, NEW t \in Thread, NEW u \in Thread, NEW d \in Workdir,
         Working(t, d), Working(u, d)
  PROVE  ProcOf[t] = ProcOf[u] /\ HolderOf[t] = HolderOf[u]
<1>1. /\ At(t, "work") /\ At(u, "work") /\ call[t].dir = d /\ call[u].dir = d BY DEF Working
<1>2. /\ ProcOf[t] \in Process /\ Entry(t) # Free /\ Mine(t)
      /\ ProcOf[u] \in Process /\ Entry(u) # Free /\ Mine(u)
  BY <1>1, WorkIsMine
<1>3. ProcOf[t] = ProcOf[u] BY <1>1, <1>2 DEF IInv, LockAccounted, Entry
<1> QED BY <1>1, <1>2, <1>3 DEF Mine, Entry

\* One job at a time writes in a directory, among all threads of all processes.
THEOREM WritersStayApart == Spec => []OneWriter
<1>1. IInv => OneWriter BY SameEntry DEF OneWriter
<1> QED BY <1>1, InvAlways, PTL

----------------------------------------------------------------------------

\* The record is erased before the lock is given up.
RecordInv ==
  /\ RecordIsOwners
  /\ \A t, u \in Thread : At(t, "unlock") /\ record[call[t].dir] = u => crashes[ProcOf[u]] > 0

\* Every step keeps it; those that touch no lock and no record do so at once.
LEMMA RecordNext ==
  ASSUME IInv, RecordInv, [Next]_vars
  PROVE  RecordInv'
<1>0. /\ call \in [Thread -> Calls]
      /\ \A t \in Thread : call[t].pc # "idle" => call[t].dir \in Workdir
      /\ crashes \in [Process -> Nat] /\ \A t \in Thread : ProcOf[t] \in Process
  BY CallsTyped, ClaimAssumption DEF IInv, ClaimTypeOK
<1>1. ASSUME UNCHANGED <<flock, record, crashes>>,
             \A t \in Thread : At(t, "unlock")' => At(t, "unlock") /\ call'[t].dir = call[t].dir
      PROVE  RecordInv'
  BY <1>1 DEF RecordInv, RecordIsOwners, At
<1>2. ASSUME NEW t \in Thread, NEW d \in Workdir, Begin(t, d) PROVE RecordInv'
  <2>1. \A u \in Thread : At(u, "unlock")' => At(u, "unlock") /\ call'[u].dir = call[u].dir
    BY <1>0, <1>2 DEF Begin, At, Calls
  <2> QED BY <1>1, <1>2, <2>1 DEF Begin
<1>3. ASSUME NEW t \in Thread, Try(t) \/ Retry(t) PROVE RecordInv'
  <2>1. \E s \in Step : s # "unlock" /\ Goto(t, s) BY <1>3 DEF Try, Retry, Step
  <2>2. \A u \in Thread : At(u, "unlock")' => At(u, "unlock") /\ call'[u].dir = call[u].dir
    BY <1>0, <2>1, GotoMoves DEF At
  <2> QED BY <1>1, <1>3, <2>2 DEF Try, Retry
<1>4. ASSUME NEW t \in Thread, GiveUp(t) \/ Deadline(t) PROVE RecordInv'
  <2>1. \A u \in Thread : At(u, "unlock")' => At(u, "unlock") /\ call'[u].dir = call[u].dir
    BY <1>0, <1>4 DEF GiveUp, Deadline, At, Idle, Calls
  <2> QED BY <1>1, <1>4, <2>1 DEF GiveUp, Deadline
<1>5. ASSUME NEW t \in Thread, Lock(t) PROVE RecordInv'
  <2>1. \A u \in Thread : At(u, "unlock")' => At(u, "unlock") /\ call'[u].dir = call[u].dir
    <3>1. \E s \in Step : s # "unlock" /\ Goto(t, s) BY <1>5 DEF Lock, Step
    <3> QED BY <1>0, <3>1, GotoMoves DEF At
  <2>2. CASE UNCHANGED flock BY <1>1, <1>5, <2>1, <2>2 DEF Lock
  <2>3. CASE flock[call[t].dir] = NoThread /\ flock' = [flock EXCEPT ![call[t].dir] = t]
    <3>1. UNCHANGED <<record, crashes>> BY <1>5 DEF Lock
    <3>2. RecordIsOwners'
      BY <1>0, <1>5, <2>3, <3>1, ClaimAssumption DEF IInv, ClaimTypeOK, RecordInv, RecordIsOwners
    <3> QED BY <2>1, <3>1, <3>2 DEF RecordInv, At
  <2> QED BY <1>5, <2>2, <2>3 DEF Lock
<1>6. ASSUME NEW t \in Thread, WriteRecord(t) PROVE RecordInv'
  <2>1. PICK d : d = call[t].dir OBVIOUS
  <2>2. /\ d \in Workdir /\ flock[d] = t /\ call[t].pc = "write"
    BY <1>0, <1>6, <2>1 DEF IInv, LockAccounted, WriteRecord, At
  <2>3. /\ UNCHANGED <<flock, crashes>>
        /\ \A e \in Workdir : record'[e] = record[e] \/ (e = d /\ record'[e] = t)
    BY <1>6, <2>1, <2>2 DEF WriteRecord, IInv, ClaimTypeOK
  <2>4. \A u \in Thread : At(u, "unlock")' => At(u, "unlock") /\ call'[u].dir = call[u].dir
    <3>1. Goto(t, "install") BY <1>6 DEF WriteRecord
    <3> QED BY <1>0, <3>1, GotoMoves DEF At, Step
  <2>5. RecordIsOwners' BY <2>2, <2>3 DEF RecordInv, RecordIsOwners
  <2>6. \A u \in Thread : At(u, "unlock") => call[u].dir # d
    BY <2>1, <2>2 DEF IInv, LockAccounted, At
  <2>7. \A u, w \in Thread : At(u, "unlock")' /\ record'[call'[u].dir] = w => crashes'[ProcOf[w]] > 0
    BY <1>0, <2>3, <2>4, <2>6 DEF RecordInv, At
  <2> QED BY <2>5, <2>7 DEF RecordInv
<1>7. ASSUME NEW t \in Thread, Install(t) PROVE RecordInv'
  <2>1. Entry(t) = Free BY <1>7 DEF IInv, LockAccounted, Install, At
  <2>2. Goto(t, "work") /\ UNCHANGED <<flock, record, crashes>> BY <1>7, <2>1 DEF Install
  <2>3. \A u \in Thread : At(u, "unlock")' => At(u, "unlock") /\ call'[u].dir = call[u].dir
    BY <1>0, <2>2, GotoMoves DEF At, Step
  <2> QED BY <1>1, <2>2, <2>3
<1>8. ASSUME NEW t \in Thread, Release(t) PROVE RecordInv'
  <2>1. CASE Mine(t) /\ Entry(t).ref = 1
    <3>1. /\ call' = [call EXCEPT ![t].pc = "unlock", ![t].fd = locks[ProcOf[t]][call[t].dir]]
          /\ record' = [record EXCEPT ![call[t].dir] = NoThread] /\ UNCHANGED <<flock, crashes>>
      BY <1>8, <2>1 DEF Release, ReleaseLast
    <3>2. /\ call'[t].dir = call[t].dir /\ call[t].dir \in Workdir
          /\ \A u \in Thread : u # t => call'[u] = call[u]
      BY <1>0, <1>8, <3>1 DEF Release, At, Calls
    <3>3. \A e \in Workdir : record'[e] = IF e = call[t].dir THEN NoThread ELSE record[e]
      BY <3>1 DEF IInv, ClaimTypeOK
    <3>4. RecordIsOwners' BY <3>1, <3>3, ClaimAssumption DEF RecordInv, RecordIsOwners
    <3>5. \A u, w \in Thread : At(u, "unlock")' /\ record'[call'[u].dir] = w => crashes'[ProcOf[w]] > 0
      BY <1>0, <3>1, <3>2, <3>3, ClaimAssumption DEF RecordInv, At
    <3> QED BY <3>4, <3>5 DEF RecordInv
  <2>2. CASE ~(Mine(t) /\ Entry(t).ref = 1)
    <3>1. call' = [call EXCEPT ![t] = Idle] /\ UNCHANGED <<flock, record, crashes>>
      BY <1>8, <2>2 DEF Release
    <3>2. \A u \in Thread : At(u, "unlock")' => At(u, "unlock") /\ call'[u].dir = call[u].dir
      BY <1>0, <3>1, IdleCall DEF At
    <3> QED BY <1>1, <3>1, <3>2
  <2> QED BY <2>1, <2>2
<1>9. ASSUME NEW t \in Thread, Unlock(t) PROVE RecordInv'
  <2>1. PICK d : d = call[t].dir OBVIOUS
  <2>2. d \in Workdir /\ At(t, "unlock") BY <1>0, <1>9, <2>1 DEF Unlock, At
  <2>3. /\ UNCHANGED <<record, crashes>>
        /\ \A e \in Workdir : e # d => flock'[e] = flock[e]
    BY <1>9, <2>1 DEF Unlock, IInv, ClaimTypeOK
  <2>4. \A u \in Thread : At(u, "unlock")' => At(u, "unlock") /\ call'[u].dir = call[u].dir
    BY <1>0, <1>9, IdleCall DEF Unlock, At
  <2>5. \A u \in Thread : record[d] = u => crashes[ProcOf[u]] > 0 BY <2>1, <2>2 DEF RecordInv
  <2>6. RecordIsOwners' BY <2>3, <2>5 DEF RecordInv, RecordIsOwners
  <2> QED BY <2>3, <2>4, <2>6 DEF RecordInv, At
<1>10. ASSUME NEW p \in Process, Crash(p) PROVE RecordInv'
  <2>1. /\ UNCHANGED record
        /\ \A q \in Process : crashes'[q] = IF q = p THEN crashes[p] + 1 ELSE crashes[q]
        /\ \A u \in Thread : call'[u] = IF ProcOf[u] = p THEN Idle ELSE call[u]
        /\ \A e \in Workdir : flock[e] \in Thread /\ ProcOf[flock[e]] # p => flock'[e] = flock[e]
    BY <1>0, <1>10 DEF Crash
  <2>2. RecordIsOwners' BY <1>0, <2>1 DEF RecordInv, RecordIsOwners
  <2>3. \A u, w \in Thread : At(u, "unlock")' /\ record'[call'[u].dir] = w => crashes'[ProcOf[w]] > 0
    BY <1>0, <2>1 DEF RecordInv, At, Idle
  <2> QED BY <2>2, <2>3 DEF RecordInv
<1>11. CASE UNCHANGED vars BY <1>1, <1>11 DEF vars, At
<1> QED BY <1>2, <1>3, <1>4, <1>5, <1>6, <1>7, <1>8, <1>9, <1>10, <1>11 DEF Next, Acquire

\* The occupancy file names the owner of the lock, or a process that died.
THEOREM RecordStaysOwners == Spec => []RecordIsOwners
<1>1. Init => RecordInv BY ClaimAssumption DEF Init, RecordInv, RecordIsOwners, At, Idle
<1>2. IInv /\ RecordInv /\ [Next]_vars => RecordInv' BY RecordNext
<1>3. RecordInv => RecordIsOwners BY DEF RecordInv
<1> QED BY <1>1, <1>2, <1>3, InvAlways, PTL DEF Spec

----------------------------------------------------------------------------

\* Who is let into each directory, as WorkdirLease sees it.
Inside == [d \in Workdir |-> {t \in Thread : Working(t, d)}]

\* A thread that turns to its work is granted the directory.
LEMMA GrantMaps ==
  ASSUME IInv, NEW t \in Thread, NEW d \in Workdir, d = call[t].dir,
         ~At(t, "work"), call'[t].pc = "work", call'[t].dir = d,
         \A u \in Thread : u # t => call'[u] = call[u],
         \A u \in Thread : Working(u, d) => ProcOf[u] = ProcOf[t] /\ HolderOf[u] = HolderOf[t]
  PROVE  Lease!Grant(t, d)
<1>1. \A e \in Workdir : t \notin Inside[e] BY DEF Inside, Working
<1>2. \A u \in Inside[d] : Lease!SameClaim(t, u) BY DEF Inside, Lease!SameClaim
<1>3. Inside' = [Inside EXCEPT ![d] = @ \cup {t}]
  <2>1. \A e \in Workdir : {u \in Thread : Working(u, e)'} =
          IF e = d THEN {u \in Thread : Working(u, e)} \cup {t} ELSE {u \in Thread : Working(u, e)}
    BY DEF Working, At
  <2> QED BY <2>1 DEF Inside
<1> QED BY <1>1, <1>2, <1>3 DEF Lease!Grant, Inside

\* Steps that neither begin nor end the work of a thread stutter.
LEMMA QuietMaps ==
  ASSUME \A u \in Thread, e \in Workdir : Working(u, e)' <=> Working(u, e)
  PROVE  Inside' = Inside
  BY DEF Inside

\* Each step of the registry is one of the lease, or none.
LEMMA StepMaps ==
  ASSUME IInv, [Next]_vars
  PROVE  [Lease!Next]_Inside
<1>0. /\ call \in [Thread -> Calls]
      /\ \A t \in Thread : call[t].pc # "idle" => call[t].dir \in Workdir
  BY CallsTyped DEF IInv
<1>1. ASSUME NEW t \in Thread, call' \in [Thread -> Calls],
             call[t].pc # "work", call'[t].pc # "work",
             \A u \in Thread : u # t => call'[u] = call[u]
      PROVE  Inside' = Inside
  BY <1>1, QuietMaps DEF Working, At
<1>2. ASSUME NEW t \in Thread, NEW d \in Workdir, Begin(t, d) PROVE Inside' = Inside
  <2>1. /\ call' \in [Thread -> Calls] /\ call'[t].pc = "try"
        /\ \A u \in Thread : u # t => call'[u] = call[u]
    BY <1>0, <1>2 DEF Begin, Calls, Step
  <2> QED BY <1>1, <1>2, <2>1 DEF Begin, At
<1>3. ASSUME NEW t \in Thread, NEW s \in Step, s # "work", Goto(t, s), ~At(t, "work")
      PROVE  Inside' = Inside
  BY <1>0, <1>1, <1>3, GotoMoves DEF At
<1>4. ASSUME NEW t \in Thread, Try(t) PROVE Lease!Grant(t, call[t].dir) \/ Inside' = Inside
  <2>1. ~At(t, "work") BY <1>4 DEF Try, At
  <2>2. CASE Goto(t, "lock") \/ Goto(t, "wait") BY <1>3, <2>1, <2>2 DEF Step
  <2>3. CASE Entry(t) # Free /\ Mine(t) /\ Goto(t, "work")
    <3>1. PICK p, d : p = ProcOf[t] /\ d = call[t].dir OBVIOUS
    <3>2. p \in Process /\ d \in Workdir BY <1>0, <1>4, <3>1, ClaimAssumption DEF Try, At
    <3>3. \A u \in Thread : Working(u, d) => ProcOf[u] = p /\ HolderOf[u] = HolderOf[t]
      <4>1. SUFFICES ASSUME NEW u \in Thread, Working(u, d)
                     PROVE  ProcOf[u] = p /\ HolderOf[u] = HolderOf[t]
        OBVIOUS
      <4>2. /\ ProcOf[u] \in Process /\ held[ProcOf[u]][d] # Free
            /\ held[ProcOf[u]][d].holder = HolderOf[u]
        BY <4>1, WorkIsMine DEF Working, Entry, Mine
      <4>3. ProcOf[u] = p BY <2>3, <3>1, <3>2, <4>2 DEF IInv, LockAccounted, Entry
      <4> QED BY <2>3, <3>1, <4>2, <4>3 DEF Mine, Entry
    <3>4. Lease!Grant(t, d)
      BY <1>0, <2>1, <2>3, <3>1, <3>2, <3>3, GotoMoves, GrantMaps DEF Step
    <3> QED BY <3>1, <3>4
  <2> QED BY <1>4, <2>2, <2>3 DEF Try
<1>5. ASSUME NEW t \in Thread, Install(t) PROVE Lease!Grant(t, call[t].dir)
  <2>1. PICK p, d : p = ProcOf[t] /\ d = call[t].dir OBVIOUS
  <2>2. p \in Process /\ d \in Workdir /\ ~At(t, "work")
    BY <1>0, <1>5, <2>1, ClaimAssumption DEF Install, At
  <2>3. Entry(t) = Free /\ flock[d] = t BY <1>5, <2>1 DEF IInv, LockAccounted, Install, At
  <2>4. \A u \in Thread : ~Working(u, d)
    <3>1. SUFFICES ASSUME NEW u \in Thread, Working(u, d) PROVE FALSE OBVIOUS
    <3>2. ProcOf[u] \in Process /\ held[ProcOf[u]][d] # Free
      BY <3>1, WorkIsMine DEF Working, Entry
    <3>3. ProcOf[t] = ProcOf[u] BY <2>2, <2>3, <3>2 DEF IInv, LockAccounted
    <3> QED BY <2>1, <2>3, <3>2, <3>3 DEF Entry
  <2>5. Goto(t, "work") BY <1>5, <2>3 DEF Install
  <2>6. Lease!Grant(t, d)
    BY <1>0, <2>1, <2>2, <2>4, <2>5, GotoMoves, GrantMaps DEF Step
  <2> QED BY <2>1, <2>6
<1>6. ASSUME NEW t \in Thread, Release(t) PROVE Lease!Return(t, call[t].dir)
  <2>1. PICK d : d = call[t].dir OBVIOUS
  <2>2. d \in Workdir /\ call[t].pc = "work" BY <1>0, <1>6, <2>1 DEF Release, At
  <2>3. /\ call'[t].pc # "work" /\ \A u \in Thread : u # t => call'[u] = call[u]
    BY <1>0, <1>6 DEF Release, ReleaseLast, Idle, Calls
  <2>4. Inside' = [Inside EXCEPT ![d] = @ \ {t}]
    <3>1. \A e \in Workdir : {u \in Thread : Working(u, e)'} =
            IF e = d THEN {u \in Thread : Working(u, e)} \ {t} ELSE {u \in Thread : Working(u, e)}
      BY <2>1, <2>3 DEF Working, At
    <3> QED BY <3>1 DEF Inside
  <2>5. t \in Inside[d] BY <2>1, <2>2 DEF Inside, Working, At
  <2>6. Lease!Return(t, d) BY <2>4, <2>5 DEF Lease!Return, Inside
  <2> QED BY <2>1, <2>6
<1>7. ASSUME NEW t \in Thread, Unlock(t) \/ GiveUp(t) PROVE Inside' = Inside
  <2>1. call' = [call EXCEPT ![t] = Idle] /\ ~At(t, "work") BY <1>7 DEF Unlock, GiveUp, At
  <2> QED BY <1>0, <1>1, <2>1, IdleCall DEF At
<1>8. ASSUME NEW t \in Thread, Deadline(t) PROVE Inside' = Inside
  BY <1>0, <1>8, QuietMaps DEF Deadline, Calls, Working, At
<1>9. ASSUME NEW p \in Process, Crash(p) PROVE Lease!Crash(p)
  <2>1. \A u \in Thread : call'[u] = IF ProcOf[u] = p THEN Idle ELSE call[u] BY <1>9 DEF Crash
  <2>2. \A e \in Workdir : {u \in Thread : Working(u, e)'} =
          {u \in {w \in Thread : Working(w, e)} : ProcOf[u] # p}
    BY <2>1 DEF Working, At, Idle
  <2> QED BY <2>2 DEF Lease!Crash, Inside
<1>10. CASE UNCHANGED vars BY <1>10, QuietMaps DEF vars, Working, At
<1>11. ASSUME NEW t \in Thread, Acquire(t)
       PROVE  Lease!Grant(t, call[t].dir) \/ Inside' = Inside
  <2>1. CASE Lock(t) \/ WriteRecord(t) \/ Retry(t)
    BY <1>3, <2>1 DEF Lock, WriteRecord, Retry, At, Step
  <2> QED BY <1>4, <1>5, <1>7, <1>11, <2>1 DEF Acquire
<1>12. \A t \in Thread : Acquire(t) \/ Release(t) => call[t].dir \in Workdir
  BY <1>0 DEF Acquire, Try, Lock, WriteRecord, Install, Retry, GiveUp, Release, At
<1>13. CASE Next
  BY <1>2, <1>6, <1>7, <1>8, <1>9, <1>11, <1>12, <1>13 DEF Next, Lease!Next
<1> QED BY <1>10, <1>13

\* The registry implements the lease: whatever the threads of all processes do, the jobs
\* let into a directory at one time are of one process and one holder id.
THEOREM ClaimImplementsLease == Spec => LeaseSpec
<1>1. Init => Lease!Init BY DEF Init, Lease!Init, Working, At, Idle
<1>2. IInv /\ [Next]_vars => [Lease!Next]_Inside BY StepMaps
<1> QED BY <1>1, <1>2, InvAlways, PTL DEF Spec, LeaseSpec, Lease!Spec, Inside
===============================================================================
