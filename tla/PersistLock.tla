----------------------------- MODULE PersistLock -----------------------------
(***************************************************************************)
(* framework/persist_lock.py: the exclusive lock of one persist root.      *)
(*                                                                         *)
(* A thread first gets the thread lock of the root in its process, then    *)
(* the process gets the lock file; nested contexts of the thread count     *)
(* their depth and the outermost one gives both locks up.  The system      *)
(* drops the file lock of a process that dies.                             *)
(***************************************************************************)
EXTENDS Naturals

CONSTANTS
  Process, Thread,
  ProcOf,                \* the process each thread runs in
  NoThread, NoProcess

ASSUME LockAssumption ==
  /\ ProcOf \in [Thread -> Process]
  /\ NoThread \notin Thread /\ NoProcess \notin Process

VARIABLES
  mutex,    \* _ROOT_THREAD_LOCKS: the thread that has the root in each process
  depth,    \* _HELD: how deep its contexts are nested
  flock     \* the process that has locked the file

lockVars == <<mutex, depth, flock>>

LockInit ==
  /\ mutex = [p \in Process |-> NoThread]
  /\ depth = [p \in Process |-> 0]
  /\ flock = NoProcess

TakeMutex(t) ==
  /\ mutex[ProcOf[t]] = NoThread
  /\ mutex' = [mutex EXCEPT ![ProcOf[t]] = t]
  /\ UNCHANGED <<depth, flock>>

TakeFile(t) ==
  /\ mutex[ProcOf[t]] = t /\ depth[ProcOf[t]] = 0
  /\ flock = NoProcess
  /\ flock' = ProcOf[t]
  /\ depth' = [depth EXCEPT ![ProcOf[t]] = 1]
  /\ UNCHANGED mutex

Nest(t) ==
  /\ depth' = [depth EXCEPT ![ProcOf[t]] = @ + 1]
  /\ UNCHANGED <<mutex, flock>>

Free(p) ==
  /\ mutex' = [mutex EXCEPT ![p] = NoThread]
  /\ depth' = [depth EXCEPT ![p] = 0]
  /\ flock' = IF flock = p THEN NoProcess ELSE flock

Leave(t) ==
  LET p == ProcOf[t] IN
  IF depth[p] = 1 THEN Free(p)
  ELSE /\ depth' = [depth EXCEPT ![p] = @ - 1]
       /\ UNCHANGED <<mutex, flock>>

\* The thread is between its outermost Enter and the Leave that ends it.
Inside(t) == mutex[ProcOf[t]] = t /\ depth[ProcOf[t]] > 0

LockTypeOK ==
  /\ mutex \in [Process -> Thread \cup {NoThread}]
  /\ depth \in [Process -> Nat]
  /\ flock \in Process \cup {NoProcess}
=============================================================================
