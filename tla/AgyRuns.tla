------------------------------ MODULE AgyRuns ------------------------------
(***************************************************************************)
(* execution_backend/antigravity_cli_v1.py over agy_account_pool.py and    *)
(* agy_run_registry.py: services that start agy workers, each in the HOME  *)
(* of an account leased from a pool that they share.                       *)
(*                                                                         *)
(* The pool file is read, changed and saved under the switch lock, which a *)
(* start keeps until its worker is spawned.  A lease is named by the run   *)
(* it was reserved for.  Beside the busy mark in the file, the lock file   *)
(* of the HOME belongs to the process of the service and goes with it.     *)
(* A worker outlives its service; the registry of the service is what the  *)
(* next one knows of it.  The session files, the streams and the heartbeat *)
(* steer no run and are left out, and so are the tool children, which are  *)
(* stopped with their worker.                                              *)
(***************************************************************************)
EXTENDS Naturals, FiniteSets, FiniteSetsExt

CONSTANTS
  Service, Run,
  Accounts,                        \* the accounts of the pool file, in its order: 1..Accounts
  Class,                           \* what a worker may write: "ok", "quota", "auth"
  NoRun, NoService,
  LeaseSec, TimeoutSec, CoolSec,   \* busy_lease_sec, timeout_sec of a run, cooldown
  MaxClock, MaxFaults              \* bounds on the clock, and on crashes, failed kills and failed spawns

ASSUME AgyAssumption ==
  /\ Accounts \in Nat \ {0}
  /\ "ok" \in Class /\ Class \subseteq {"ok", "quota", "auth"}   \* an ordinary failure is ok to its account
  /\ NoRun \notin Run /\ NoService \notin Service
  /\ {LeaseSec, TimeoutSec, CoolSec, MaxClock, MaxFaults} \subseteq Nat

VARIABLES
  clock,
  svc,        \* each service: up, starting (its start has reaped), down
  pool,       \* the account rows of the pool file
  homeLock,   \* the service whose process has the lock file of each HOME
  run,        \* the record of each run in the memory of its service
  proc,       \* each worker process
  out,        \* the class of what it wrote
  registry,   \* the runs recorded in the file of each service
  reaped,     \* and the outcomes it explains
  faults

vars == <<clock, svc, pool, homeLock, run, proc, out, registry, reaped, faults>>

Account == 1..Accounts
NoAccount == 0

Available == [state |-> "available", until |-> 0, lease |-> NoRun]
NewRun == [life |-> "free", svc |-> NoService, home |-> NoAccount, started |-> 0,
           flag |-> "none", harvested |-> FALSE]

Init ==
  /\ clock = 0
  /\ svc = [s \in Service |-> "up"]
  /\ pool = [a \in Account |-> Available]
  /\ homeLock = [a \in Account |-> NoService]
  /\ run = [r \in Run |-> NewRun]
  /\ proc = [r \in Run |-> "none"]
  /\ out = [r \in Run |-> "ok"]
  /\ registry = [s \in Service |-> {}]
  /\ reaped = [r \in Run |-> "none"]
  /\ faults = 0

Fault == faults < MaxFaults /\ faults' = faults + 1

----------------------------------------------------------------------------
(* The pool. *)

\* A start keeps the switch lock from its reservation to its spawn.
SwitchFree == \A r \in Run : run[r].life # "reserved"

LeaseOf(a) == run[pool[a].lease]

\* The process that reserved is gone; the lock file of its HOME went with it.
HolderGone(a) == pool[a].state = "busy" /\ LeaseOf(a).life = "lost"
Reclaimed == {a \in Account : HolderGone(a) /\ homeLock[a] = NoService}

\* A lease that is over although its run may go on.
Expired == {a \in Account : pool[a].state = "busy" /\ clock >= pool[a].until} \ Reclaimed
Cooled == {a \in Account : pool[a].state = "cooldown" /\ clock >= pool[a].until}

Loaded == [a \in Account |-> IF a \in Reclaimed \cup Expired \cup Cooled THEN Available ELSE pool[a]]

\* Mutant: a cooldown is a mark that a finished run takes away.
ForClassClears(row, c) ==
  IF c = "quota" THEN [state |-> "cooldown", until |-> clock + CoolSec, lease |-> NoRun]
  ELSE IF c = "auth" THEN [state |-> "unavailable", until |-> 0, lease |-> NoRun]
  ELSE Available
\* apply_class_to_state, and the end of the lease.
ForClass(row, c) ==
  IF c = "quota" THEN [state |-> "cooldown", until |-> clock + CoolSec, lease |-> NoRun]
  ELSE IF c = "auth" THEN [state |-> "unavailable", until |-> 0, lease |-> NoRun]
  ELSE IF row.state = "busy" THEN Available ELSE row

Owns(r) == pool[run[r].home].lease = r
DropHomeLock(locks, a, s) == IF locks[a] = s THEN [locks EXCEPT ![a] = NoService] ELSE locks

\* Mutant: a late result is written whoever has the account.
FinishLate(r, c) ==
  LET a == run[r].home IN
  /\ SwitchFree
  /\ pool' = [pool EXCEPT ![a] = ForClass(@, c)]
  /\ homeLock' = DropHomeLock(homeLock, a, run[r].svc)
\* finish_account_lease with a result: an account leased to somebody else stays as it is.
Finish(r, c) ==
  LET a == run[r].home IN
  /\ SwitchFree
  /\ IF pool[a].state = "busy" /\ ~Owns(r) THEN UNCHANGED <<pool, homeLock>>
     ELSE /\ pool' = [pool EXCEPT ![a] = ForClass(@, c)]
          /\ homeLock' = DropHomeLock(homeLock, a, run[r].svc)

\* finish_account_lease of a run that will not be collected: only the lease goes.
Released(rows, R) ==
  [a \in Account |-> IF rows[a].state = "busy" /\ rows[a].lease \in R THEN Available ELSE rows[a]]
HomesLeft(R) ==
  [a \in Account |-> IF \E r \in R : run[r].home = a /\ homeLock[a] = run[r].svc
                                      /\ pool[a].lease \in {r, NoRun}
                     THEN NoService ELSE homeLock[a]]
Release(R) ==
  /\ SwitchFree \/ \A r \in R : run[r].life = "reserved"
  /\ pool' = Released(pool, R)
  /\ homeLock' = HomesLeft(R)

----------------------------------------------------------------------------
(* start_run *)

\* Whether prepare_antigravity_environ_from_pool finds an account whose lock file it gets;
\* precheck has the class of the accounts that it turns down.
Locks(s) == [a \in Account |-> IF a \in Expired /\ homeLock[a] = s THEN NoService ELSE homeLock[a]]
Reserve(s, r, down, c) ==
  LET rows   == Loaded
      fit    == {a \in Account \ down : rows[a].state = "available" /\ Locks(s)[a] = NoService}
      chosen == Min(fit)
      asked  == {a \in down : rows[a].state = "available" /\ (fit = {} \/ a < chosen)}
      after  == [a \in Account |-> IF a \in asked THEN ForClass(rows[a], c) ELSE rows[a]]
  IN
  /\ svc[s] = "up" /\ run[r].life = "free" /\ SwitchFree
  /\ IF fit = {}
     THEN /\ pool' = IF Reclaimed # {} THEN after ELSE pool
          /\ homeLock' = Locks(s)
          /\ UNCHANGED run
     ELSE /\ pool' = [after EXCEPT ![chosen] = [state |-> "busy", until |-> clock + LeaseSec, lease |-> r]]
          /\ homeLock' = [Locks(s) EXCEPT ![chosen] = s]
          /\ run' = [run EXCEPT ![r] = [NewRun EXCEPT !.life = "reserved", !.svc = s,
                                                      !.home = chosen, !.started = clock]]
  /\ UNCHANGED <<clock, svc, proc, out, registry, reaped, faults>>

Spawn(r) ==
  /\ run[r].life = "reserved"
  /\ run' = [run EXCEPT ![r].life = "spawned"]
  /\ proc' = [proc EXCEPT ![r] = "alive"]
  /\ UNCHANGED <<clock, svc, pool, homeLock, out, registry, reaped, faults>>

SpawnFails(r) ==
  /\ run[r].life = "reserved" /\ Fault
  /\ Release({r})
  /\ run' = [run EXCEPT ![r] = [@ EXCEPT !.life = "known", !.harvested = TRUE]]
  /\ UNCHANGED <<clock, svc, proc, out, registry, reaped>>

\* The registry hears of the worker after the lock is given up.
Record(r) ==
  /\ run[r].life = "spawned"
  /\ run' = [run EXCEPT ![r].life = "known"]
  /\ registry' = [registry EXCEPT ![run[r].svc] = @ \cup {r}]
  /\ UNCHANGED <<clock, svc, pool, homeLock, proc, out, reaped, faults>>

WorkerExits(r, c) ==
  /\ proc[r] = "alive"
  /\ proc' = [proc EXCEPT ![r] = "exited"]
  /\ out' = [out EXCEPT ![r] = c]
  /\ UNCHANGED <<clock, svc, pool, homeLock, run, registry, reaped, faults>>

----------------------------------------------------------------------------
(* observe_run, collect_result, cancel *)

\* A harvest forgets the run in the registry, once the worker is gone.
Harvest(r, flag, gone) ==
  /\ run' = [run EXCEPT ![r] = [@ EXCEPT !.flag = flag, !.harvested = run[r].harvested \/ gone]]
  /\ registry' = IF gone /\ ~run[r].harvested
                 THEN [registry EXCEPT ![run[r].svc] = @ \ {r}] ELSE registry

\* A killed worker may have written its error before; a kill may fail.
Kill(r, c) == /\ proc' = [proc EXCEPT ![r] = "exited"]
              /\ out' = [out EXCEPT ![r] = c]
              /\ UNCHANGED faults
KillFails == Fault /\ UNCHANGED <<proc, out>>

Known(r) == run[r].life = "known" /\ svc[run[r].svc] = "up"
Overdue(r) == clock >= run[r].started + TimeoutSec

\* _refresh: an overdue worker is killed, once; one that is gone is harvested.
Observe(r, c) ==
  /\ Known(r) /\ ~run[r].harvested
  /\ IF proc[r] = "alive"
     THEN /\ Overdue(r) /\ run[r].flag = "none"
          /\ \/ Kill(r, c) /\ Harvest(r, "timed_out", TRUE)
             \/ KillFails /\ Harvest(r, "timed_out", FALSE)
     ELSE Harvest(r, run[r].flag, TRUE) /\ UNCHANGED <<proc, out, faults>>
  /\ UNCHANGED <<clock, svc, pool, homeLock, reaped>>

\* A collect waits for the worker or for its deadline; the lease ends either way.
Collect(r, c) ==
  /\ Known(r)
  /\ IF proc[r] = "alive" /\ run[r].flag # "cancelled"
     THEN /\ Overdue(r)
          /\ \/ Kill(r, c) /\ Harvest(r, "timed_out", TRUE) /\ Finish(r, c)
             \/ KillFails /\ Harvest(r, "timed_out", FALSE) /\ Finish(r, "ok")
     ELSE /\ Harvest(r, run[r].flag, proc[r] # "alive")
          /\ Finish(r, IF proc[r] = "exited" THEN out[r] ELSE "ok")
          /\ UNCHANGED <<proc, out, faults>>
  /\ UNCHANGED <<clock, svc, reaped>>

Cancel(r, c) ==
  /\ Known(r)
  /\ IF proc[r] # "alive"
     THEN Harvest(r, run[r].flag, TRUE) /\ Release({r}) /\ UNCHANGED <<proc, out, faults>>
     ELSE \/ Kill(r, c) /\ Harvest(r, "cancelled", TRUE) /\ Release({r})
          \/ KillFails /\ UNCHANGED <<run, registry, pool, homeLock>>
  /\ UNCHANGED <<clock, svc, reaped>>

----------------------------------------------------------------------------
(* The end of a service, and its next start. *)

OfService(s) == {r \in Run : run[r].svc = s /\ run[r].life \in {"reserved", "spawned", "known"}}
Live(s) == {r \in OfService(s) : proc[r] = "alive"}

\* What the exit of a process leaves: no memory, no lock.
Gone(s) ==
  /\ svc' = [svc EXCEPT ![s] = "down"]
  /\ run' = [r \in Run |-> IF r \in OfService(s) THEN [NewRun EXCEPT !.life = "lost", !.svc = s, !.home = run[r].home]
                      ELSE run[r]]
  /\ homeLock' = [a \in Account |-> IF homeLock[a] = s THEN NoService ELSE homeLock[a]]

\* close marks and releases every live run, whether or not its kill worked.
Close(s, stuck) ==
  /\ svc[s] = "up" /\ SwitchFree
  /\ IF stuck = {} THEN UNCHANGED faults ELSE Fault
  /\ stuck \subseteq Live(s)
  /\ proc' = [r \in Run |-> IF r \in Live(s) \ stuck THEN "exited" ELSE proc[r]]
  /\ reaped' = [r \in Run |-> IF r \in Live(s) \cap registry[s] THEN "stopped_at_shutdown" ELSE reaped[r]]
  /\ registry' = [registry EXCEPT ![s] = @ \ Live(s)]
  /\ pool' = Released(pool, Live(s))
  /\ Gone(s)
  /\ UNCHANGED <<clock, out>>

Crash(s) ==
  /\ svc[s] # "down" /\ Fault
  /\ Gone(s)
  /\ UNCHANGED <<clock, pool, proc, out, registry, reaped>>

\* Mutant: the runs of the service before are forgotten.
StartForgets(s, stuck) ==
  /\ svc[s] = "down" /\ svc' = [svc EXCEPT ![s] = "starting"]
  /\ registry' = [registry EXCEPT ![s] = {}]
  /\ stuck = {} /\ UNCHANGED <<clock, pool, homeLock, run, proc, out, reaped, faults>>
\* __init__: reap_orphans stops the workers that the service before has recorded.
Start(s, stuck) ==
  /\ svc[s] = "down" /\ svc' = [svc EXCEPT ![s] = "starting"]
  /\ stuck \subseteq {r \in registry[s] : proc[r] = "alive"}
  /\ IF stuck = {} THEN UNCHANGED faults ELSE Fault
  /\ reaped' = [r \in Run |-> IF r \notin registry[s] THEN reaped[r]
                              ELSE IF r \in stuck THEN "kill_failed"
                              ELSE IF proc[r] = "alive" THEN "killed" ELSE "already_exited"]
  /\ proc' = [r \in Run |-> IF r \in registry[s] \ stuck THEN "exited" ELSE proc[r]]
  /\ registry' = [registry EXCEPT ![s] = {}]
  /\ UNCHANGED <<clock, pool, homeLock, run, out>>

\* _reclaim_pool_leases_at_start: only the leases of dead holders, and no expiry.
ReclaimAtStart(s) ==
  /\ svc[s] = "starting" /\ SwitchFree
  /\ svc' = [svc EXCEPT ![s] = "up"]
  /\ pool' = IF Reclaimed = {} THEN pool
             ELSE [a \in Account |-> IF a \in Reclaimed \cup Cooled THEN Available ELSE pool[a]]
  /\ UNCHANGED <<clock, homeLock, run, proc, out, registry, reaped, faults>>

Tick ==
  /\ clock < MaxClock /\ clock' = clock + 1
  /\ UNCHANGED <<svc, pool, homeLock, run, proc, out, registry, reaped, faults>>

Next ==
  \/ Tick
  \/ \E s \in Service :
       \/ \E r \in Run, down \in SUBSET Account, c \in Class \ {"ok"} : Reserve(s, r, down, c)
       \/ \E stuck \in SUBSET Run : Close(s, stuck) \/ Start(s, stuck)
       \/ Crash(s) \/ ReclaimAtStart(s)
  \/ \E r \in Run :
       \/ Spawn(r) \/ SpawnFails(r) \/ Record(r)
       \/ \E c \in Class : WorkerExits(r, c) \/ Observe(r, c) \/ Collect(r, c) \/ Cancel(r, c)

Spec == Init /\ [][Next]_vars

\* The supervisor of the machine starts a service again.
Fairness == \A s \in Service : WF_vars(\E stuck \in SUBSET Run : Start(s, stuck))
LiveSpec == Spec /\ Fairness

----------------------------------------------------------------------------
(* Properties. *)

\* Rows, records and registries are well formed, and a busy row is leased to a run in its HOME.
AgyTypeOK ==
  /\ clock \in Nat /\ faults \in Nat
  /\ svc \in [Service -> {"up", "starting", "down"}]
  /\ pool \in [Account -> [state : {"available", "busy", "cooldown", "unavailable"},
                           until : Nat, lease : Run \cup {NoRun}]]
  /\ \A a \in Account : IF pool[a].state = "busy" THEN pool[a].lease # NoRun /\ LeaseOf(a).home = a
                                                   ELSE pool[a].lease = NoRun
  /\ homeLock \in [Account -> Service \cup {NoService}]
  /\ run \in [Run -> [life : {"free", "reserved", "spawned", "known", "lost"},
                      svc : Service \cup {NoService}, home : Account \cup {NoAccount},
                      started : Nat, flag : {"none", "timed_out", "cancelled"},
                      harvested : BOOLEAN]]
  /\ proc \in [Run -> {"none", "alive", "exited"}] /\ out \in [Run -> Class]
  /\ registry \in [Service -> SUBSET Run]
  /\ reaped \in [Run -> {"none", "killed", "kill_failed", "already_exited", "stopped_at_shutdown"}]

\* Until its lease is over, a run that is under way has its account and the lock of its HOME:
\* neither a late result of the run before, nor a service that starts, nor one that
\* dispatches gives them to another run.  Of a run that outlives its lease nothing is
\* said: its account may be reclaimed (agy_account_pool.py:627).
UnderWay(r) == /\ run[r].life \in {"reserved", "spawned", "known"}
               /\ run[r].flag = "none" /\ ~run[r].harvested
LiveRunHasItsLease ==
  \A r \in Run : UnderWay(r) /\ clock < run[r].started + LeaseSec =>
    pool[run[r].home].lease = r /\ homeLock[run[r].home] = run[r].svc

\* An account on cooldown is given out only after its cooldown, whatever results of
\* earlier runs come in late.
CooldownHolds ==
  [][\A a \in Account : pool[a].state = "cooldown" /\ clock < pool[a].until
                          => pool'[a].state \notin {"available", "busy"}]_vars

\* The next service stops the recorded workers of one that died, or says that it could not.
OrphanIsStopped ==
  \A r \in Run, s \in Service :
    r \in registry[s] /\ svc[s] = "down" ~> proc[r] # "alive" \/ reaped[r] = "kill_failed"
=============================================================================
