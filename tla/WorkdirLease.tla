----------------------------- MODULE WorkdirLease -----------------------------
(***************************************************************************)
(* What a claim on a working directory promises its caller, whatever the   *)
(* registry does to keep the promise: the jobs let into a directory at one *)
(* time all run in one process under one holder id.                        *)
(***************************************************************************)
CONSTANTS
  Process, Thread, Workdir,
  ProcOf,       \* the process each thread runs in
  HolderOf      \* the holder id each thread claims under

VARIABLE users  \* the threads let into each directory

SameClaim(t, u) == ProcOf[t] = ProcOf[u] /\ HolderOf[t] = HolderOf[u]

Init == users = [d \in Workdir |-> {}]

Grant(t, d) ==
  /\ \A e \in Workdir : t \notin users[e]
  /\ \A u \in users[d] : SameClaim(t, u)
  /\ users' = [users EXCEPT ![d] = @ \cup {t}]

Return(t, d) ==
  /\ t \in users[d]
  /\ users' = [users EXCEPT ![d] = @ \ {t}]

\* A process that dies gives up every claim it has.
Crash(p) == users' = [d \in Workdir |-> {t \in users[d] : ProcOf[t] # p}]

Next == \/ \E t \in Thread, d \in Workdir : Grant(t, d) \/ Return(t, d)
        \/ \E p \in Process : Crash(p)
Spec == Init /\ [][Next]_users
===============================================================================
