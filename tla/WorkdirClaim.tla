----------------------------- MODULE WorkdirClaim -----------------------------
(***************************************************************************)
(* execution_backend/workdir_claim.py: WorkdirClaimRegistry, which lets    *)
(* one job at a time into a working directory.                             *)
(*                                                                         *)
(* A process has one registry: the table _held of its claims, guarded by   *)
(* the mutex _mu, and the descriptors _locks of the lock files it has      *)
(* locked.  Between processes the lock file decides, and a JSON file in    *)
(* the directory names the holder.  A claim looks at the table, locks the  *)
(* file and writes the record outside _mu, and comes back to the table; a  *)
(* release does its three steps under _mu, and other processes see them    *)
(* one by one.                                                             *)
(*                                                                         *)
(* A thread is one caller: it claims, works, releases, and may begin       *)
(* again.  A call that does not wait (mode block, or a queue timeout of 0) *)
(* is a call whose deadline has passed from the start.  The lists of       *)
(* waiters and the holder named to a refused caller steer nothing and are  *)
(* left out; so is force_release, which only a test helper calls.          *)
(***************************************************************************)
EXTENDS Naturals, FiniteSets

CONSTANTS
  Process, Thread, Workdir, Holder,
  ProcOf,       \* the process each thread runs in
  HolderOf,     \* the holder id each thread claims under; jobs may share one
  Gated,        \* the threads that can_enter_running lets in or keeps queued
  NoThread, NoHolder, NoDir,
  MaxCrashes    \* bound on crashes of each process

ASSUME ClaimAssumption ==
  /\ IsFiniteSet(Thread) /\ Gated \subseteq Thread
  /\ ProcOf \in [Thread -> Process] /\ HolderOf \in [Thread -> Holder]
  /\ NoThread \notin Thread /\ NoHolder \notin Holder /\ NoDir \notin Workdir
  /\ MaxCrashes \in Nat

VARIABLES
  held,     \* _held of each process: who has each directory, how many times
  locks,    \* _locks of each process, a descriptor named by its thread
  flock,    \* the descriptor through which each lock file is locked
  record,   \* the occupancy file of each directory, by the thread that wrote it
  call,     \* where each thread stands
  crashes

vars == <<held, locks, flock, record, call, crashes>>

Step == {"idle", "try", "lock", "write", "install", "wait", "work", "unlock"}
Idle == [pc |-> "idle", dir |-> NoDir, late |-> TRUE, fd |-> NoThread]
Free == [holder |-> NoHolder, ref |-> 0]

Init ==
  /\ held = [p \in Process |-> [d \in Workdir |-> Free]]
  /\ locks = [p \in Process |-> [d \in Workdir |-> NoThread]]
  /\ flock = [d \in Workdir |-> NoThread]
  /\ record = [d \in Workdir |-> NoThread]
  /\ call = [t \in Thread |-> Idle]
  /\ crashes = [p \in Process |-> 0]

----------------------------------------------------------------------------
At(t, s)   == call[t].pc = s
Entry(t)   == held[ProcOf[t]][call[t].dir]
Mine(t)    == Entry(t).holder = HolderOf[t]
Goto(t, s) == call' = [call EXCEPT ![t].pc = s]

\* _mu of t's process: held across a release, else taken for a single step.
MutexFree(t) == \A u \in Thread : ProcOf[u] = ProcOf[t] => ~At(u, "unlock")

\* occupancy: the registry's own entry, else whatever the file says.
Occupancy(p, d) == IF held[p][d] # Free THEN held[p][d].holder
                   ELSE IF record[d] # NoThread THEN HolderOf[record[d]] ELSE NoHolder

\* can_enter_running: a job stays queued while another holder occupies its directory.
Admitted(t, d) == t \in Gated => Occupancy(ProcOf[t], d) \in {NoHolder, HolderOf[t]}

Begin(t, d) ==
  /\ At(t, "idle") /\ Admitted(t, d)
  /\ \E late \in BOOLEAN :
       call' = [call EXCEPT ![t] = [pc |-> "try", dir |-> d, late |-> late, fd |-> NoThread]]
  /\ UNCHANGED <<held, locks, flock, record, crashes>>

Reenter(t) == held' = [held EXCEPT ![ProcOf[t]][call[t].dir].ref = @ + 1]

\* _try_acquire, the first critical section.
Try(t) ==
  /\ At(t, "try") /\ MutexFree(t)
  /\ \/ Entry(t) = Free /\ Goto(t, "lock") /\ UNCHANGED held
     \/ Entry(t) # Free /\ Mine(t) /\ Goto(t, "work") /\ Reenter(t)
     \/ Entry(t) # Free /\ ~Mine(t) /\ Goto(t, "wait") /\ UNCHANGED held
  /\ UNCHANGED <<locks, flock, record, crashes>>

\* The lock file, without waiting and without _mu; the system may refuse a free one.
Lock(t) ==
  /\ At(t, "lock")
  /\ \/ /\ flock[call[t].dir] = NoThread
        /\ flock' = [flock EXCEPT ![call[t].dir] = t]
        /\ Goto(t, "write")
     \/ Goto(t, "wait") /\ UNCHANGED flock
  /\ UNCHANGED <<held, locks, record, crashes>>

\* The record, still without _mu; a failing write is ignored.
WriteRecord(t) ==
  /\ At(t, "write") /\ Goto(t, "install")
  /\ \E written \in {t, record[call[t].dir]} : record' = [record EXCEPT ![call[t].dir] = written]
  /\ UNCHANGED <<held, locks, flock, crashes>>

\* The second critical section; to close a descriptor gives up its lock.
Install(t) ==
  LET p == ProcOf[t]
      d == call[t].dir
  IN
  /\ At(t, "install") /\ MutexFree(t)
  /\ IF Entry(t) = Free
     THEN /\ held' = [held EXCEPT ![p][d] = [holder |-> HolderOf[t], ref |-> 1]]
          /\ locks' = [locks EXCEPT ![p][d] = t]
          /\ UNCHANGED flock
     ELSE /\ IF Mine(t) THEN Reenter(t) ELSE UNCHANGED held
          /\ flock' = [flock EXCEPT ![d] = NoThread]
          /\ UNCHANGED locks
  /\ Goto(t, IF Entry(t) = Free \/ Mine(t) THEN "work" ELSE "wait")
  /\ UNCHANGED <<record, crashes>>

\* A refused call polls again until its deadline and then gives up.
Retry(t) ==
  /\ At(t, "wait") /\ ~call[t].late
  /\ Goto(t, "try")
  /\ UNCHANGED <<held, locks, flock, record, crashes>>
GiveUp(t) ==
  /\ At(t, "wait") /\ call[t].late
  /\ call' = [call EXCEPT ![t] = Idle]
  /\ UNCHANGED <<held, locks, flock, record, crashes>>
Deadline(t) ==
  /\ ~call[t].late
  /\ call' = [call EXCEPT ![t].late = TRUE]
  /\ UNCHANGED <<held, locks, flock, record, crashes>>

\* Mutant: the record of the released claim stays behind.
ReleaseKeepsRecord(t) ==
  LET p == ProcOf[t]
      d == call[t].dir
  IN
  /\ held' = [held EXCEPT ![p][d] = Free]
  /\ locks' = [locks EXCEPT ![p][d] = NoThread]
  /\ call' = [call EXCEPT ![t].pc = "unlock", ![t].fd = locks[p][d]]
  /\ UNCHANGED record
\* release under _mu: the last one drops the entry and the record, then unlocks.
ReleaseLast(t) ==
  LET p == ProcOf[t]
      d == call[t].dir
  IN
  /\ held' = [held EXCEPT ![p][d] = Free]
  /\ locks' = [locks EXCEPT ![p][d] = NoThread]
  /\ record' = [record EXCEPT ![d] = NoThread]
  /\ call' = [call EXCEPT ![t].pc = "unlock", ![t].fd = locks[p][d]]
\* Mutant: the first release of a holder drops its claim.
ReleaseAtOnce(t) ==
  /\ At(t, "work") /\ MutexFree(t)
  /\ ReleaseLast(t)
  /\ UNCHANGED <<flock, crashes>>
Release(t) ==
  /\ At(t, "work") /\ MutexFree(t)
  /\ IF Mine(t) /\ Entry(t).ref = 1
     THEN ReleaseLast(t)
     ELSE /\ held' = IF Mine(t) THEN [held EXCEPT ![ProcOf[t]][call[t].dir].ref = @ - 1] ELSE held
          /\ call' = [call EXCEPT ![t] = Idle]
          /\ UNCHANGED <<locks, record>>
  /\ UNCHANGED <<flock, crashes>>
Unlock(t) ==
  /\ At(t, "unlock")
  /\ flock' = [flock EXCEPT ![call[t].dir] = IF @ = call[t].fd THEN NoThread ELSE @]
  /\ call' = [call EXCEPT ![t] = Idle]
  /\ UNCHANGED <<held, locks, record, crashes>>

\* The process dies: the kernel drops its locks, and its records stay behind.
Crash(p) ==
  /\ crashes[p] < MaxCrashes
  /\ crashes' = [crashes EXCEPT ![p] = @ + 1]
  /\ held' = [held EXCEPT ![p] = [d \in Workdir |-> Free]]
  /\ locks' = [locks EXCEPT ![p] = [d \in Workdir |-> NoThread]]
  /\ flock' = [d \in Workdir |->
                 IF flock[d] \in Thread /\ ProcOf[flock[d]] = p THEN NoThread ELSE flock[d]]
  /\ call' = [t \in Thread |-> IF ProcOf[t] = p THEN Idle ELSE call[t]]
  /\ UNCHANGED record

Acquire(t) == Try(t) \/ Lock(t) \/ WriteRecord(t) \/ Install(t) \/ Retry(t) \/ GiveUp(t)
Next ==
  \/ \E t \in Thread, d \in Workdir : Begin(t, d)
  \/ \E t \in Thread : Acquire(t) \/ Deadline(t) \/ Release(t) \/ Unlock(t)
  \/ \E p \in Process : Crash(p)

Spec == Init /\ [][Next]_vars

----------------------------------------------------------------------------
(* Properties. *)

\* A claim has a holder and a count that is not zero, or is free.
ClaimTypeOK ==
  /\ held \in [Process -> [Workdir -> [holder : Holder, ref : Nat \ {0}] \cup {Free}]]
  /\ locks \in [Process -> [Workdir -> Thread \cup {NoThread}]]
  /\ flock \in [Workdir -> Thread \cup {NoThread}]
  /\ record \in [Workdir -> Thread \cup {NoThread}]
  /\ call \in [Thread -> [pc : Step, dir : Workdir \cup {NoDir}, late : BOOLEAN,
                         fd : Thread \cup {NoThread}]]
  /\ \A t \in Thread : ~At(t, "idle") => call[t].dir \in Workdir
  /\ crashes \in [Process -> Nat]

Working(t, d) == At(t, "work") /\ call[t].dir = d
Users(p, d)   == {t \in Thread : ProcOf[t] = p /\ Working(t, d)}

\* A locked file is in one hand: a call between Lock and Install, the descriptor under
\* an entry, or one that a release is closing.  So the table _held, let go between the
\* two critical sections of _try_acquire, has no holder when the call comes back to it.
LockAccounted ==
  /\ \A t \in Thread : call[t].pc \in {"write", "install"} =>
       flock[call[t].dir] = t /\ Entry(t) = Free
  /\ \A p \in Process, d \in Workdir : held[p][d] # Free =>
       locks[p][d] \in Thread /\ ProcOf[locks[p][d]] = p /\ flock[d] = locks[p][d]
  /\ \A t \in Thread : At(t, "unlock") =>
       /\ call[t].fd \in Thread /\ ProcOf[call[t].fd] = ProcOf[t]
       /\ flock[call[t].dir] = call[t].fd /\ Entry(t) = Free
  /\ \A t, u \in Thread : At(t, "unlock") =>
       /\ call[t].fd = u /\ call[t].dir = call[u].dir => call[u].pc \notin {"write", "install"}
       /\ ProcOf[t] = ProcOf[u] /\ At(u, "unlock") => t = u

\* No two jobs write in one directory, unless one process let both in under one
\* holder id: start_run and the charter loop write only between claim and release.
OneWriter ==
  \A t, u \in Thread, d \in Workdir :
    Working(t, d) /\ Working(u, d) => ProcOf[t] = ProcOf[u] /\ HolderOf[t] = HolderOf[u]

\* The refcount of a claim is the number of jobs let in under it, through every
\* reentrant claim, release and crash: nobody works on an entry that is gone.
ClaimIsCounted ==
  \A p \in Process, d \in Workdir :
    /\ held[p][d].ref = Cardinality(Users(p, d))
    /\ \A t \in Users(p, d) : HolderOf[t] = held[p][d].holder

\* The occupancy file names the owner of the lock, unless it is what a dead process
\* left: a release erases no other process's record and leaves none of its own.
RecordIsOwners ==
  \A t \in Thread, d \in Workdir :
    record[d] = t /\ crashes[ProcOf[t]] = 0 => flock[d] = t

\* The registry keeps the promise of WorkdirLease.
Lease == INSTANCE WorkdirLease
           WITH users <- [d \in Workdir |-> {t \in Thread : Working(t, d)}]
LeaseSpec == Lease!Spec
===============================================================================
