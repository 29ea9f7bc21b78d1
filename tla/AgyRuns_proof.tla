----------------------------- MODULE AgyRuns_proof -----------------------------
(***************************************************************************)
(* Theorems about AgyRuns, on AgyAssumption: for any services, runs,       *)
(* accounts and lengths of leases, time limits and cooldowns.              *)
(*                                                                         *)
(* The invariant ties a row of the pool to the run that it is leased to:   *)
(* a busy row names a run whose HOME it is (Leased), and a run under way   *)
(* within its lease has the row, the end of the lease and the lock (Held). *)
(***************************************************************************)
EXTENDS AgyRuns, TLAPS, WellFoundedInduction

Life == {"free", "reserved", "spawned", "known", "lost"}
Flag == {"none", "timed_out", "cancelled"}
RunRecord == [life : Life, svc : Service \cup {NoService}, home : Account \cup {NoAccount},
              started : Nat, flag : Flag, harvested : BOOLEAN]
Row == [state : {"available", "busy", "cooldown", "unavailable"}, until : Nat, lease : Run \cup {NoRun}]

Rows == pool \in [Account -> Row] /\ homeLock \in [Account -> Service \cup {NoService}]
Records == run \in [Run -> RunRecord]
Processes ==
  /\ clock \in Nat /\ faults \in Nat
  /\ svc \in [Service -> {"up", "starting", "down"}]
  /\ proc \in [Run -> {"none", "alive", "exited"}] /\ out \in [Run -> Class]
  /\ registry \in [Service -> SUBSET Run]
  /\ reaped \in [Run -> {"none", "killed", "kill_failed", "already_exited", "stopped_at_shutdown"}]

LeasedRow(a) ==
  IF pool[a].state = "busy"
  THEN pool[a].lease \in Run /\ LeaseOf(a).home = a /\ LeaseOf(a).life # "free"
  ELSE pool[a].lease = NoRun
Leased == \A a \in Account : LeasedRow(a)
Placed(r) == run[r].life # "free" => run[r].home \in Account /\ run[r].svc \in Service
Holds(r) ==
  LET a == run[r].home IN
  /\ pool[a].state = "busy" /\ pool[a].lease = r /\ pool[a].until = run[r].started + LeaseSec
  /\ homeLock[a] = run[r].svc
Within(r) == UnderWay(r) /\ clock < run[r].started + LeaseSec
Held == \A r \in Run : Within(r) => Holds(r)

AgyInv == Processes /\ Rows /\ Records /\ Leased /\ (\A r \in Run : Placed(r)) /\ Held

----------------------------------------------------------------------------
(* What the helpers change.                                                *)

LEMMA LeastExists ==
  ASSUME NEW S \in SUBSET Nat, S # {}
  PROVE  Min(S) \in S
<1> DEFINE Less == OpToRel(<, Nat)
<1>1. IsWellFoundedOn(Less, Nat) BY NatLessThanWellFounded
<1>2. \A m, n \in Nat : m < n => <<m, n>> \in Less BY DEF OpToRel
<1> HIDE DEF Less
<1>3. PICK n \in S : \A m \in S : ~(<<m, n>> \in Less) BY <1>1, WFMin
<1>4. \A m \in S : ~(m < n) BY <1>2, <1>3
<1>5. \E x \in S : \A y \in S : x <= y BY <1>4
<1> QED BY <1>5 DEF Min

\* A record of the memory that changes in its life, its flag or its harvest keeps its place.
SamePlace(q) ==
  run'[q].home = run[q].home /\ run'[q].svc = run[q].svc /\ run'[q].started = run[q].started
Aside(r) == \A q \in Run \ {r} : run'[q] = run[q]

LEMMA LifeMoves ==
  ASSUME Records, NEW r \in Run, NEW l \in Life, run' = [run EXCEPT ![r].life = l]
  PROVE  /\ Records' /\ Aside(r) /\ SamePlace(r) /\ run'[r].life = l
         /\ run'[r].flag = run[r].flag /\ run'[r].harvested = run[r].harvested
<1>1. run[r] \in RunRecord BY DEF Records
<1> DEFINE row == [run[r] EXCEPT !.life = l]
<1>2. row \in RunRecord BY <1>1 DEF RunRecord
<1>3. /\ row.home = run[r].home /\ row.svc = run[r].svc /\ row.started = run[r].started
      /\ row.flag = run[r].flag /\ row.harvested = run[r].harvested /\ row.life = l
  BY <1>1 DEF RunRecord
<1>4. run' = [run EXCEPT ![r] = row] BY DEF Records
<1> HIDE DEF row
<1>5. run'[r] = row BY <1>4 DEF Records
<1> QED BY <1>2, <1>3, <1>4, <1>5 DEF Records, Aside, SamePlace

LEMMA HarvestMoves ==
  ASSUME Records, NEW r \in Run, NEW f \in Flag, NEW gone \in BOOLEAN, Harvest(r, f, gone)
  PROVE  /\ Records' /\ Aside(r) /\ SamePlace(r) /\ run'[r].life = run[r].life
         /\ run'[r].flag = f /\ run'[r].harvested = (run[r].harvested \/ gone)
<1>1. run[r] \in RunRecord BY DEF Records
<1> DEFINE h == run[r].harvested \/ gone
<1>h. h \in BOOLEAN BY Zenon
<1> DEFINE row == [run[r] EXCEPT !.flag = f, !.harvested = h]
<1>4. run' = [run EXCEPT ![r] = row] BY DEF Records, Harvest
<1> HIDE DEF h
<1>2. row \in RunRecord BY <1>1, <1>h DEF RunRecord
<1>3. /\ row.home = run[r].home /\ row.svc = run[r].svc /\ row.started = run[r].started
      /\ row.flag = f /\ row.harvested = h /\ row.life = run[r].life
  BY <1>1 DEF RunRecord
<1> HIDE DEF row
<1>5. run'[r] = row BY <1>4 DEF Records
<1>6. Records' /\ Aside(r) BY <1>2, <1>4 DEF Records, Aside
<1>7. SamePlace(r) /\ run'[r].life = run[r].life /\ run'[r].flag = f /\ run'[r].harvested = h
  BY <1>3, <1>5 DEF SamePlace
<1> QED BY <1>6, <1>7 DEF h

\* A row may be kept, or made free.
FreeRow(row) == row \in Row /\ row.state # "busy" /\ row.lease = NoRun
RowMoves(a) == pool'[a] = pool[a] \/ FreeRow(pool'[a])

LEMMA FreeIs == FreeRow(Available) /\ Available.state = "available"
  BY DEF FreeRow, Available, Row

\* What a row becomes by the class of a result: never busy, and a cooldown does not end.
LEMMA ForClassIs ==
  ASSUME NEW row \in Row, NEW c \in Class, clock \in Nat, row.state # "busy" => row.lease = NoRun
  PROVE  /\ FreeRow(ForClass(row, c))
         /\ row.state = "cooldown" => ForClass(row, c).state \in {"cooldown", "unavailable"}
<1>1. CoolSec \in Nat BY AgyAssumption
<1>2. CASE c = "quota"
  <2> DEFINE new == [state |-> "cooldown", until |-> clock + CoolSec, lease |-> NoRun]
  <2>1. ForClass(row, c) = new BY <1>2 DEF ForClass
  <2>2. new \in Row /\ new.state = "cooldown" /\ new.lease = NoRun BY <1>1 DEF Row
  <2> QED BY <2>1, <2>2 DEF FreeRow
<1>3. CASE c = "auth"
  <2> DEFINE new == [state |-> "unavailable", until |-> 0, lease |-> NoRun]
  <2>1. ForClass(row, c) = new BY <1>3 DEF ForClass
  <2>2. new \in Row /\ new.state = "unavailable" /\ new.lease = NoRun BY DEF Row
  <2> QED BY <2>1, <2>2 DEF FreeRow
<1>4. CASE c \notin {"quota", "auth"}
  <2>1. ForClass(row, c) = IF row.state = "busy" THEN Available ELSE row BY <1>4 DEF ForClass
  <2> QED BY <2>1, FreeIs DEF FreeRow
<1> QED BY <1>2, <1>3, <1>4

\* What a step may do to a run for its lease to be as before.
Stays(q) ==
  /\ run'[q].home = run[q].home /\ run'[q].svc = run[q].svc
  /\ ((run'[q].life = "free") <=> (run[q].life = "free"))
  /\ UnderWay(q)' => UnderWay(q) /\ run'[q].started = run[q].started
Untouched(q) ==
  Within(q) /\ UnderWay(q)' =>
    pool'[run[q].home] = pool[run[q].home] /\ homeLock'[run[q].home] = homeLock[run[q].home]

\* A run that keeps its place, and its row and lock while it needs them, keeps its lease.
LEMMA LeasesStay ==
  ASSUME AgyInv, Processes', Rows', Records', clock <= clock',
         \A q \in Run : Stays(q) /\ Untouched(q), \A a \in Account : RowMoves(a)
  PROVE  AgyInv'
<1>1. Leased'
  <2> SUFFICES ASSUME NEW a \in Account PROVE LeasedRow(a)' BY DEF Leased
  <2>1. CASE FreeRow(pool'[a]) BY <2>1 DEF FreeRow, LeasedRow
  <2>2. CASE pool'[a] = pool[a]
    <3>1. LeasedRow(a) BY DEF AgyInv, Leased
    <3>2. CASE pool[a].state # "busy" BY <2>2, <3>1, <3>2 DEF LeasedRow
    <3>3. CASE pool[a].state = "busy"
      <4>1. pool[a].lease \in Run /\ run[pool[a].lease].home = a /\ run[pool[a].lease].life # "free"
        BY <3>1, <3>3 DEF LeasedRow, LeaseOf
      <4>2. Stays(pool[a].lease) BY <4>1
      <4>3. run'[pool'[a].lease].home = a /\ run'[pool'[a].lease].life # "free"
        BY <2>2, <4>1, <4>2 DEF Stays
      <4> QED BY <2>2, <3>3, <4>1, <4>3 DEF LeasedRow, LeaseOf
    <3> QED BY <3>2, <3>3
  <2> QED BY <2>1, <2>2 DEF RowMoves
<1>2. ASSUME NEW q \in Run PROVE Placed(q)' BY DEF AgyInv, Placed, Stays
<1>3. Held'
  <2> SUFFICES ASSUME NEW q \in Run, Within(q)' PROVE Holds(q)' BY DEF Held
  <2>1. UnderWay(q)' /\ clock' < run'[q].started + LeaseSec BY DEF Within
  <2>2. UnderWay(q) /\ run'[q].started = run[q].started BY <2>1 DEF Stays
  <2>3. run[q].started \in Nat /\ clock \in Nat /\ clock' \in Nat /\ LeaseSec \in Nat
    BY AgyAssumption DEF AgyInv, Processes, Records, RunRecord
  <2>4. Within(q) BY <2>1, <2>2, <2>3 DEF Within
  <2>5. Holds(q) BY <2>4 DEF AgyInv, Held
  <2>6. run'[q].home = run[q].home /\ run'[q].svc = run[q].svc BY DEF Stays
  <2>7. pool'[run[q].home] = pool[run[q].home] /\ homeLock'[run[q].home] = homeLock[run[q].home]
    BY <2>1, <2>4 DEF Untouched
  <2> QED BY <2>2, <2>5, <2>6, <2>7 DEF Holds
<1> QED BY <1>1, <1>2, <1>3 DEF AgyInv

\* The row of a run within its lease is not one that a reservation frees.
LEMMA LeasedIsBusy ==
  ASSUME AgyInv, NEW q \in Run, Within(q)
  PROVE  /\ run[q].home \in Account /\ run[q].svc \in Service /\ Holds(q)
         /\ pool[run[q].home].state = "busy" /\ pool[run[q].home].lease = q
         /\ run[q].home \notin Reclaimed \cup Expired \cup Cooled
<1>1. run[q].life \in {"reserved", "spawned", "known"} /\ clock < run[q].started + LeaseSec
  BY DEF Within, UnderWay
<1>2. run[q].home \in Account /\ run[q].svc \in Service BY <1>1 DEF AgyInv, Placed
<1>3. Holds(q) BY DEF AgyInv, Held
<1>4. run[q].started \in Nat /\ clock \in Nat /\ LeaseSec \in Nat
  BY AgyAssumption DEF AgyInv, Processes, Records, RunRecord
<1>5. run[q].home \notin Reclaimed BY <1>1, <1>3 DEF Holds, Reclaimed, HolderGone, LeaseOf
<1>6. run[q].home \notin Expired BY <1>1, <1>3, <1>4 DEF Holds, Expired
<1>7. run[q].home \notin Cooled BY <1>3 DEF Holds, Cooled
<1> QED BY <1>2, <1>3, <1>5, <1>6, <1>7 DEF Holds

\* A step that leaves the pool alone.
LEMMA PoolAside ==
  ASSUME UNCHANGED <<pool, homeLock>>
  PROVE  (\A q \in Run : Untouched(q)) /\ \A a \in Account : RowMoves(a)
  BY DEF Untouched, RowMoves

LEMMA FinishMoves ==
  ASSUME AgyInv, NEW r \in Run, NEW c \in Class, run[r].life # "free", Finish(r, c),
         ~UnderWay(r)'
  PROVE  Rows' /\ (\A q \in Run : Untouched(q)) /\ \A a \in Account : RowMoves(a)
<1> DEFINE h == run[r].home
<1>1. h \in Account BY DEF AgyInv, Placed
<1>2. CASE UNCHANGED <<pool, homeLock>>
  BY <1>2, PoolAside DEF AgyInv, Rows
<1>3. CASE ~(pool[h].state = "busy" /\ ~Owns(r))
  <2>1. /\ pool' = [pool EXCEPT ![h] = ForClass(@, c)]
        /\ homeLock' = DropHomeLock(homeLock, h, run[r].svc)
    BY <1>3 DEF Finish
  <2>2. pool[h] \in Row /\ (pool[h].state # "busy" => pool[h].lease = NoRun) /\ clock \in Nat
    BY <1>1 DEF AgyInv, Rows, Processes, Leased, LeasedRow
  <2>3. FreeRow(ForClass(pool[h], c)) BY <2>2, ForClassIs
  <2>4. pool'[h] = ForClass(pool[h], c) /\ \A a \in Account \ {h} : pool'[a] = pool[a]
    BY <1>1, <2>1 DEF AgyInv, Rows
  <2>5. pool' \in [Account -> Row] BY <2>1, <2>3 DEF AgyInv, Rows, FreeRow
  <2>6. /\ homeLock' \in [Account -> Service \cup {NoService}]
        /\ \A a \in Account \ {h} : homeLock'[a] = homeLock[a]
    BY <2>1 DEF AgyInv, Rows, DropHomeLock
  <2>7. ASSUME NEW q \in Run PROVE Untouched(q)
    <3> SUFFICES ASSUME Within(q), UnderWay(q)', run[q].home = h PROVE FALSE
      BY <2>4, <2>6, LeasedIsBusy DEF Untouched
    <3>1. pool[h].state = "busy" /\ pool[h].lease = q BY LeasedIsBusy
    <3> QED BY <1>3, <3>1 DEF Owns
  <2> QED BY <2>3, <2>4, <2>5, <2>6, <2>7 DEF Rows, RowMoves
<1> QED BY <1>2, <1>3 DEF Finish

LEMMA ReleaseMoves ==
  ASSUME AgyInv, NEW R \in SUBSET Run, pool' = Released(pool, R), homeLock' = HomesLeft(R),
         \A r \in R : ~UnderWay(r)'
  PROVE  Rows' /\ (\A q \in Run : Untouched(q)) /\ \A a \in Account : RowMoves(a)
<1>1. ASSUME NEW a \in Account PROVE RowMoves(a) /\ pool'[a] \in Row
  BY FreeIs DEF AgyInv, Rows, Released, RowMoves, FreeRow
<1>2. Rows' BY <1>1 DEF AgyInv, Rows, Released, HomesLeft
<1>3. ASSUME NEW q \in Run PROVE Untouched(q)
  <2> SUFFICES ASSUME Within(q), UnderWay(q)'
               PROVE  pool'[run[q].home] = pool[run[q].home] /\ homeLock'[run[q].home] = homeLock[run[q].home]
    BY DEF Untouched
  <2>1. run[q].home \in Account /\ pool[run[q].home].lease = q /\ q \notin R /\ q # NoRun
    BY LeasedIsBusy, AgyAssumption
  <2>2. pool'[run[q].home] = pool[run[q].home] BY <2>1 DEF Released
  <2>3. homeLock'[run[q].home] = homeLock[run[q].home] BY <2>1 DEF HomesLeft
  <2> QED BY <2>2, <2>3
<1> QED BY <1>1, <1>2, <1>3

----------------------------------------------------------------------------
(* The steps.                                                              *)

LEMMA AgyInit_Inv == Init => AgyInv
<1> SUFFICES ASSUME Init PROVE AgyInv OBVIOUS
<1>1. Processes BY AgyAssumption DEF Init, Processes
<1>2. Rows BY FreeIs DEF Init, Rows, FreeRow
<1>3. Records BY DEF Init, Records, RunRecord, NewRun, Life, Flag
<1>4. Leased BY FreeIs DEF Init, Leased, LeasedRow, FreeRow
<1>5. \A r \in Run : run[r].life = "free" BY DEF Init, NewRun
<1>6. (\A r \in Run : Placed(r)) /\ Held BY <1>5 DEF Placed, Held, Within, UnderWay
<1> QED BY <1>1, <1>2, <1>3, <1>4, <1>6 DEF AgyInv

\* What a step leaves of the runs that it is not about.
LEMMA AsideStays ==
  ASSUME NEW r \in Run, Aside(r), NEW q \in Run \ {r}
  PROVE  Stays(q)
  BY DEF Aside, Stays, UnderWay

\* A step of a run that keeps its place, and does not come back under way.
LEMMA OwnStays ==
  ASSUME NEW r \in Run, Aside(r), SamePlace(r), run'[r].life # "free", run[r].life # "free",
         UnderWay(r)' => UnderWay(r)
  PROVE  \A q \in Run : Stays(q)
<1>1. Stays(r) BY DEF Stays, SamePlace
<1> QED BY <1>1, AsideStays

LEMMA SpawnStep ==
  ASSUME AgyInv, NEW r \in Run, NEW c \in Class,
         Spawn(r) \/ SpawnFails(r) \/ Record(r) \/ WorkerExits(r, c)
  PROVE  AgyInv'
<1>0. Records BY DEF AgyInv
<1>1. CASE Spawn(r)
  <2>1. Processes' BY <1>1 DEF AgyInv, Processes, Spawn
  <2>2. /\ Records' /\ Aside(r) /\ SamePlace(r) /\ run'[r].life = "spawned"
        /\ run'[r].flag = run[r].flag /\ run'[r].harvested = run[r].harvested
    BY <1>0, <1>1, LifeMoves DEF Spawn, Life
  <2>3. run[r].life = "reserved" BY <1>1 DEF Spawn
  <2>4. UnderWay(r)' => UnderWay(r) BY <2>2, <2>3 DEF UnderWay
  <2>5. \A q \in Run : Stays(q) BY <2>2, <2>3, <2>4, OwnStays
  <2>6. UNCHANGED <<pool, homeLock>> /\ clock' = clock BY <1>1 DEF Spawn
  <2>7. Rows' /\ clock <= clock' BY <2>6 DEF AgyInv, Rows, Processes
  <2> QED BY <2>1, <2>2, <2>5, <2>6, <2>7, PoolAside, LeasesStay
<1>2. CASE SpawnFails(r)
  <2>1. Processes' BY <1>2 DEF AgyInv, Processes, SpawnFails, Fault
  <2> DEFINE row == [run[r] EXCEPT !.life = "known", !.harvested = TRUE]
  <2>2. run' = [run EXCEPT ![r] = row] BY <1>2 DEF SpawnFails
  <2>3. run[r] \in RunRecord BY <1>0 DEF Records
  <2>4. row \in RunRecord BY <2>3 DEF RunRecord, Life
  <2>5. /\ row.home = run[r].home /\ row.svc = run[r].svc /\ row.started = run[r].started
        /\ row.life = "known" /\ row.harvested
    BY <2>3 DEF RunRecord
  <2> HIDE DEF row
  <2>6. Records' /\ Aside(r) /\ run'[r] = row BY <1>0, <2>2, <2>4 DEF Records, Aside
  <2>7. SamePlace(r) /\ run'[r].life = "known" /\ ~UnderWay(r)' /\ run[r].life # "free"
    BY <1>2, <2>5, <2>6 DEF SamePlace, UnderWay, SpawnFails
  <2>8. \A q \in Run : Stays(q) BY <2>6, <2>7, OwnStays
  <2>9. pool' = Released(pool, {r}) /\ homeLock' = HomesLeft({r}) /\ clock' = clock
    BY <1>2 DEF SpawnFails, Release
  <2>10. Rows' /\ (\A q \in Run : Untouched(q)) /\ \A a \in Account : RowMoves(a)
    BY <2>7, <2>9, ReleaseMoves
  <2>11. clock <= clock' BY <2>9 DEF AgyInv, Processes
  <2> QED BY <2>1, <2>6, <2>8, <2>10, <2>11, LeasesStay
<1>3. CASE Record(r)
  <2>1. Processes' BY <1>3 DEF AgyInv, Processes, Record
  <2>2. /\ Records' /\ Aside(r) /\ SamePlace(r) /\ run'[r].life = "known"
        /\ run'[r].flag = run[r].flag /\ run'[r].harvested = run[r].harvested
    BY <1>0, <1>3, LifeMoves DEF Record, Life
  <2>3. run[r].life = "spawned" BY <1>3 DEF Record
  <2>4. UnderWay(r)' => UnderWay(r) BY <2>2, <2>3 DEF UnderWay
  <2>5. \A q \in Run : Stays(q) BY <2>2, <2>3, <2>4, OwnStays
  <2>6. UNCHANGED <<pool, homeLock>> /\ clock' = clock BY <1>3 DEF Record
  <2>7. Rows' /\ clock <= clock' BY <2>6 DEF AgyInv, Rows, Processes
  <2> QED BY <2>1, <2>2, <2>5, <2>6, <2>7, PoolAside, LeasesStay
<1>4. CASE WorkerExits(r, c)
  <2>1. Processes' BY <1>4 DEF AgyInv, Processes, WorkerExits
  <2>2. UNCHANGED <<run, pool, homeLock, clock>> BY <1>4 DEF WorkerExits
  <2>3. \A q \in Run : Stays(q) BY <2>2 DEF Stays, UnderWay
  <2>4. Rows' /\ Records' /\ clock <= clock' BY <2>2 DEF AgyInv, Rows, Records, Processes
  <2> QED BY <2>1, <2>2, <2>3, <2>4, PoolAside, LeasesStay
<1> QED BY <1>1, <1>2, <1>3, <1>4

\* A harvest of a known run: it keeps its place and is not under way if it says so.
LEMMA HarvestStays ==
  ASSUME AgyInv, NEW r \in Run, NEW f \in Flag, NEW gone \in BOOLEAN, Harvest(r, f, gone),
         run[r].life = "known", f = run[r].flag \/ f # "none"
  PROVE  /\ Records' /\ (\A q \in Run : Stays(q)) /\ registry' \in [Service -> SUBSET Run]
         /\ (f # "none" \/ gone) => ~UnderWay(r)'
<1>1. Records BY DEF AgyInv
<1>2. /\ Records' /\ Aside(r) /\ SamePlace(r) /\ run'[r].life = run[r].life
      /\ run'[r].flag = f /\ run'[r].harvested = (run[r].harvested \/ gone)
  BY <1>1, HarvestMoves
<1>3. UnderWay(r)' => UnderWay(r) BY <1>2 DEF UnderWay
<1>4. \A q \in Run : Stays(q) BY <1>2, <1>3, OwnStays
<1>5. registry' \in [Service -> SUBSET Run] BY DEF AgyInv, Processes, Harvest
<1>6. (f # "none" \/ gone) => ~UnderWay(r)' BY <1>2 DEF UnderWay
<1> QED BY <1>2, <1>4, <1>5, <1>6

LEMMA ObserveStep ==
  ASSUME AgyInv, NEW r \in Run, NEW c \in Class, Observe(r, c)
  PROVE  AgyInv'
<1>1. run[r].life = "known" /\ run[r].flag \in Flag
  BY DEF Observe, Known, AgyInv, Records, RunRecord
<1>2. \/ Kill(r, c) /\ Harvest(r, "timed_out", TRUE)
      \/ KillFails /\ Harvest(r, "timed_out", FALSE)
      \/ Harvest(r, run[r].flag, TRUE) /\ UNCHANGED <<proc, out, faults>>
  BY DEF Observe
<1>3. UNCHANGED <<clock, svc, pool, homeLock, reaped>> BY DEF Observe
<1>4. Records' /\ (\A q \in Run : Stays(q)) /\ registry' \in [Service -> SUBSET Run]
  BY <1>1, <1>2, HarvestStays DEF Flag
<1>8. Kill(r, c) \/ KillFails \/ UNCHANGED <<proc, out, faults>> BY <1>2
<1>5. /\ proc' \in [Run -> {"none", "alive", "exited"}] /\ out' \in [Run -> Class] /\ faults' \in Nat
  BY <1>8 DEF Kill, KillFails, Fault, AgyInv, Processes
<1>6. Processes' BY <1>3, <1>4, <1>5 DEF AgyInv, Processes
<1>7. Rows' /\ clock <= clock' BY <1>3 DEF AgyInv, Rows, Processes
<1> QED BY <1>3, <1>4, <1>6, <1>7, PoolAside, LeasesStay

LEMMA CollectStep ==
  ASSUME AgyInv, NEW r \in Run, NEW c \in Class, Collect(r, c)
  PROVE  AgyInv'
<1>1. run[r].life = "known" /\ run[r].flag \in Flag /\ out[r] \in Class /\ "ok" \in Class
  BY AgyAssumption DEF Collect, Known, AgyInv, Records, RunRecord, Processes
<1>2. PICK f \in Flag, gone \in BOOLEAN, d \in Class :
        /\ Harvest(r, f, gone) /\ Finish(r, d) /\ (f = run[r].flag \/ f # "none")
        /\ f # "none" \/ gone
        /\ Kill(r, c) \/ KillFails \/ UNCHANGED <<proc, out, faults>>
  <2>1. CASE proc[r] = "alive" /\ run[r].flag # "cancelled"
    BY <1>1, <2>1 DEF Collect, Flag
  <2>2. CASE proc[r] # "alive"
    <3>1. Harvest(r, run[r].flag, TRUE) /\ UNCHANGED <<proc, out, faults>> BY <2>2 DEF Collect
    <3>2. Finish(r, out[r]) \/ Finish(r, "ok") BY <2>2 DEF Collect
    <3> QED BY <1>1, <3>1, <3>2
  <2>3. CASE proc[r] = "alive" /\ run[r].flag = "cancelled"
    <3>1. Harvest(r, run[r].flag, FALSE) /\ UNCHANGED <<proc, out, faults>> BY <2>3 DEF Collect
    <3>2. Finish(r, "ok") BY <2>3 DEF Collect
    <3> QED BY <1>1, <2>3, <3>1, <3>2
  <2> QED BY <2>1, <2>2, <2>3
<1>3. UNCHANGED <<clock, svc, reaped>> BY DEF Collect
<1>4. Records' /\ (\A q \in Run : Stays(q)) /\ registry' \in [Service -> SUBSET Run] /\ ~UnderWay(r)'
  BY <1>1, <1>2, HarvestStays
<1>5. Rows' /\ (\A q \in Run : Untouched(q)) /\ \A a \in Account : RowMoves(a)
  BY <1>1, <1>2, <1>4, FinishMoves
<1>6. /\ proc' \in [Run -> {"none", "alive", "exited"}] /\ out' \in [Run -> Class] /\ faults' \in Nat
  BY <1>2 DEF Kill, KillFails, Fault, AgyInv, Processes
<1>7. Processes' /\ clock <= clock' BY <1>3, <1>4, <1>6 DEF AgyInv, Processes
<1> QED BY <1>4, <1>5, <1>7, LeasesStay

LEMMA CancelStep ==
  ASSUME AgyInv, NEW r \in Run, NEW c \in Class, Cancel(r, c)
  PROVE  AgyInv'
<1>1. run[r].life = "known" /\ run[r].flag \in Flag
  BY DEF Cancel, Known, AgyInv, Records, RunRecord
<1>2. UNCHANGED <<clock, svc, reaped>> /\ clock <= clock' BY DEF Cancel, AgyInv, Processes
<1>3. CASE KillFails /\ UNCHANGED <<run, registry, pool, homeLock>>
  <2>1. Processes' BY <1>2, <1>3 DEF AgyInv, Processes, KillFails, Fault
  <2>2. Rows' /\ Records' BY <1>3 DEF AgyInv, Rows, Records
  <2>3. \A q \in Run : Stays(q) BY <1>3 DEF Stays, UnderWay
  <2> QED BY <1>2, <1>3, <2>1, <2>2, <2>3, PoolAside, LeasesStay
<1>4. ASSUME NEW f \in Flag, Harvest(r, f, TRUE), f = run[r].flag \/ f # "none", Release({r}),
             Kill(r, c) \/ UNCHANGED <<proc, out, faults>>
      PROVE  AgyInv'
  <2>1. Records' /\ (\A q \in Run : Stays(q)) /\ registry' \in [Service -> SUBSET Run] /\ ~UnderWay(r)'
    BY <1>1, <1>4, HarvestStays
  <2>2. Rows' /\ (\A q \in Run : Untouched(q)) /\ \A a \in Account : RowMoves(a)
    BY <1>4, <2>1, ReleaseMoves DEF Release
  <2>3. Processes' BY <1>2, <1>4, <2>1 DEF AgyInv, Processes, Kill
  <2> QED BY <1>2, <2>1, <2>2, <2>3, LeasesStay
<1>5. CASE proc[r] # "alive"
  <2>1. Harvest(r, run[r].flag, TRUE) /\ Release({r}) /\ UNCHANGED <<proc, out, faults>>
    BY <1>5 DEF Cancel
  <2> QED BY <1>1, <1>4, <2>1
<1>6. CASE Kill(r, c) /\ Harvest(r, "cancelled", TRUE) /\ Release({r})
  <2>1. "cancelled" \in Flag /\ "cancelled" # "none" BY DEF Flag
  <2> QED BY <1>4, <1>6, <2>1
<1> QED BY <1>3, <1>5, <1>6 DEF Cancel

\* A reservation: the rows that it frees, asks about or takes are not those of a run within
\* its lease, and the run that it starts has its row and its lock.
LEMMA ReserveStep ==
  ASSUME AgyInv, NEW s \in Service, NEW r \in Run, NEW down \in SUBSET Account, NEW c \in Class,
         Reserve(s, r, down, c)
  PROVE  AgyInv'
<1> DEFINE rows   == Loaded
           fit    == {a \in Account \ down : rows[a].state = "available" /\ Locks(s)[a] = NoService}
           chosen == Min(fit)
           asked  == {a \in down : rows[a].state = "available" /\ (fit = {} \/ a < chosen)}
           after  == [a \in Account |-> IF a \in asked THEN ForClass(rows[a], c) ELSE rows[a]]
           lease  == [state |-> "busy", until |-> clock + LeaseSec, lease |-> r]
<1>1. Records /\ Rows /\ clock \in Nat /\ LeaseSec \in Nat /\ LeaseSec >= 0 /\ run[r].life = "free"
  BY AgyAssumption DEF AgyInv, Processes, Reserve
<1>2. ASSUME NEW a \in Account
      PROVE  rows[a] \in Row /\ (rows[a].state # "busy" => rows[a].lease = NoRun)
             /\ (rows[a] = pool[a] \/ rows[a] = Available)
  BY <1>1, FreeIs DEF Loaded, AgyInv, Leased, LeasedRow, Rows, FreeRow
<1>3. ASSUME NEW a \in Account
      PROVE  (after[a] = pool[a] \/ FreeRow(after[a])) /\ after[a] \in Row
  <2>1. CASE a \in asked
    <3>1. FreeRow(ForClass(rows[a], c)) BY <1>1, <1>2, ForClassIs
    <3> QED BY <2>1, <3>1 DEF FreeRow
  <2>2. CASE a \notin asked
    <3>1. after[a] = rows[a] BY <2>2
    <3> HIDE DEF after, asked, rows
    <3> QED BY <1>2, <3>1, FreeIs DEF FreeRow
  <2> QED BY <2>1, <2>2
<1>4. ASSUME NEW q \in Run, Within(q)
      PROVE  LET a == run[q].home IN
             /\ a \in Account /\ rows[a].state = "busy" /\ after[a] = pool[a] /\ Locks(s)[a] = homeLock[a]
  <2> DEFINE a == run[q].home
  <2>1. a \in Account /\ pool[a].state = "busy" /\ a \notin Reclaimed \cup Expired \cup Cooled
    BY <1>4, LeasedIsBusy
  <2>2. rows[a] = pool[a] /\ Locks(s)[a] = homeLock[a] BY <2>1 DEF Loaded, Locks
  <2>3. a \notin asked BY <2>1, <2>2
  <2>4. after[a] = rows[a] BY <2>1, <2>3
  <2> QED BY <2>1, <2>2, <2>4
<1>5. Locks(s) \in [Account -> Service \cup {NoService}] BY <1>1 DEF Rows, Locks
<1>6. UNCHANGED <<clock, svc, proc, out, registry, reaped, faults>> /\ clock <= clock'
  BY <1>1 DEF Reserve
<1>7. Processes' BY <1>6 DEF AgyInv, Processes
<1>8. CASE fit = {}
  <2>1. /\ pool' = IF Reclaimed # {} THEN after ELSE pool
        /\ homeLock' = Locks(s) /\ UNCHANGED run
    BY <1>8 DEF Reserve
  <2> HIDE DEF after, asked, fit, rows
  <2>2. \A a \in Account : RowMoves(a) BY <1>3, <2>1 DEF RowMoves
  <2>3. after \in [Account -> Row] BY <1>3 DEF after
  <2>4. Rows' BY <1>1, <1>5, <2>1, <2>3 DEF Rows
  <2>5. \A q \in Run : Untouched(q) BY <1>4, <2>1 DEF Untouched
  <2>6. \A q \in Run : Stays(q) BY <2>1 DEF Stays, UnderWay
  <2>7. Records' BY <1>1, <2>1 DEF Records
  <2> QED BY <1>6, <1>7, <2>2, <2>4, <2>5, <2>6, <2>7, LeasesStay
<1>9. CASE fit # {}
  <2> DEFINE new == [NewRun EXCEPT !.life = "reserved", !.svc = s, !.home = chosen, !.started = clock]
  <2>1. /\ pool' = [after EXCEPT ![chosen] = lease]
        /\ homeLock' = [Locks(s) EXCEPT ![chosen] = s]
        /\ run' = [run EXCEPT ![r] = new]
    BY <1>9 DEF Reserve
  <2>2. fit \in SUBSET Nat BY AgyAssumption DEF Account
  <2>3. chosen \in fit BY <1>9, <2>2, LeastExists
  <2>4. chosen \in Account /\ rows[chosen].state = "available" BY <2>3
  <2>5. lease \in Row BY <1>1 DEF Row
  <2> HIDE DEF after, asked, fit, rows, chosen
  <2>6. after \in [Account -> Row] BY <1>3 DEF after
  <2>7. Rows' BY <1>5, <2>1, <2>4, <2>5, <2>6 DEF Rows
  <2>8. new \in RunRecord /\ new.life = "reserved" /\ new.svc = s /\ new.home = chosen
        /\ new.started = clock
    BY <1>1, <2>4 DEF NewRun, RunRecord, Life, Flag
  <2> HIDE DEF new
  <2>9. Records' /\ run'[r] = new /\ \A q \in Run \ {r} : run'[q] = run[q]
    BY <1>1, <2>1, <2>8 DEF Records
  <2>10. pool'[chosen] = lease /\ homeLock'[chosen] = s BY <1>5, <2>1, <2>4, <2>6
  <2>11. \A a \in Account \ {chosen} : pool'[a] = after[a] /\ homeLock'[a] = Locks(s)[a]
    BY <1>5, <2>1, <2>4, <2>6
  <2>12. Leased'
    <3> SUFFICES ASSUME NEW a \in Account PROVE LeasedRow(a)' BY DEF Leased
    <3>1. CASE a = chosen
      <4>1. pool'[a].state = "busy" /\ pool'[a].lease = r BY <2>10, <3>1
      <4>2. run'[r].home = a /\ run'[r].life # "free" BY <2>8, <2>9, <3>1
      <4> QED BY <4>1, <4>2 DEF LeasedRow, LeaseOf
    <3>2. CASE a # chosen /\ FreeRow(pool'[a]) BY <3>2 DEF FreeRow, LeasedRow
    <3>3. CASE a # chosen /\ pool'[a] = pool[a]
      <4>1. LeasedRow(a) BY DEF AgyInv, Leased
      <4>2. CASE pool[a].state # "busy" BY <3>3, <4>1, <4>2 DEF LeasedRow
      <4>3. CASE pool[a].state = "busy"
        <5>1. pool[a].lease \in Run /\ run[pool[a].lease].home = a /\ run[pool[a].lease].life # "free"
          BY <4>1, <4>3 DEF LeasedRow, LeaseOf
        <5>2. run'[pool[a].lease] = run[pool[a].lease] BY <1>1, <2>9, <5>1
        <5> QED BY <3>3, <4>3, <5>1, <5>2 DEF LeasedRow, LeaseOf
      <4> QED BY <4>2, <4>3
    <3> QED BY <1>3, <2>11, <3>1, <3>2, <3>3
  <2>13. ASSUME NEW q \in Run PROVE Placed(q)'
    <3>1. CASE q = r BY <2>4, <2>8, <2>9, <3>1 DEF Placed
    <3>2. CASE q # r BY <2>9, <3>2 DEF Placed, AgyInv
    <3> QED BY <3>1, <3>2
  <2>14. Held'
    <3> SUFFICES ASSUME NEW q \in Run, Within(q)' PROVE Holds(q)' BY DEF Held
    <3>1. CASE q = r
      <4>1. run'[q].home = chosen /\ run'[q].svc = s /\ run'[q].started = clock BY <2>8, <2>9, <3>1
      <4> QED BY <2>10, <3>1, <4>1 DEF Holds
    <3>2. CASE q # r
      <4>1. run'[q] = run[q] /\ clock' = clock BY <1>6, <2>9, <3>2
      <4>2. Within(q) BY <4>1 DEF Within, UnderWay
      <4>3. run[q].home \in Account /\ rows[run[q].home].state = "busy"
            /\ after[run[q].home] = pool[run[q].home] /\ Locks(s)[run[q].home] = homeLock[run[q].home]
        BY <1>4, <4>2
      <4>4. run[q].home # chosen BY <2>4, <4>3
      <4>5. pool'[run[q].home] = pool[run[q].home] /\ homeLock'[run[q].home] = homeLock[run[q].home]
        BY <2>11, <4>3, <4>4
      <4>6. Holds(q) BY <4>2 DEF AgyInv, Held
      <4> QED BY <4>1, <4>5, <4>6 DEF Holds
    <3> QED BY <3>1, <3>2
  <2> QED BY <1>7, <2>7, <2>9, <2>12, <2>13, <2>14 DEF AgyInv
<1> QED BY <1>8, <1>9

\* The end of a service: its runs are lost, and the locks of the others stay.
LEMMA GoneStays ==
  ASSUME AgyInv, NEW s \in Service, Gone(s)
  PROVE  /\ Records' /\ (\A q \in Run : Stays(q))
         /\ svc' \in [Service -> {"up", "starting", "down"}]
         /\ homeLock' \in [Account -> Service \cup {NoService}]
         /\ \A q \in Run : Within(q) /\ UnderWay(q)' =>
              q \notin OfService(s) /\ homeLock'[run[q].home] = homeLock[run[q].home]
<1>1. Records BY DEF AgyInv
<1>2. ASSUME NEW q \in Run, q \in OfService(s)
      PROVE  /\ run'[q] \in RunRecord /\ run'[q].life = "lost" /\ run'[q].svc = s
             /\ run'[q].home = run[q].home
  <2>1. run[q].home \in Account \cup {NoAccount} BY <1>1 DEF Records, RunRecord
  <2> DEFINE new == [NewRun EXCEPT !.life = "lost", !.svc = s, !.home = run[q].home]
  <2>2. run'[q] = new BY <1>2 DEF Gone
  <2>3. new \in RunRecord /\ new.life = "lost" /\ new.svc = s /\ new.home = run[q].home
    BY <2>1 DEF NewRun, RunRecord, Life, Flag
  <2> QED BY <2>2, <2>3
<1>3. ASSUME NEW q \in Run, q \notin OfService(s) PROVE run'[q] = run[q] BY <1>3 DEF Gone
<1>4. Records'
  <2>1. run' = [q \in Run |-> run'[q]] BY DEF Gone
  <2>2. \A q \in Run : run'[q] \in RunRecord BY <1>1, <1>2, <1>3 DEF Records
  <2> QED BY <2>1, <2>2 DEF Records
<1>5. ASSUME NEW q \in Run PROVE Stays(q)
  <2>1. CASE q \in OfService(s)
    <3>1. run[q].svc = s /\ run[q].life # "free" BY <2>1 DEF OfService
    <3>2. ~UnderWay(q)' BY <1>2, <2>1 DEF UnderWay
    <3> QED BY <1>2, <2>1, <3>1, <3>2 DEF Stays
  <2>2. CASE q \notin OfService(s) BY <1>3, <2>2 DEF Stays, UnderWay
  <2> QED BY <2>1, <2>2
<1>6. ASSUME NEW q \in Run, Within(q), UnderWay(q)'
      PROVE  q \notin OfService(s) /\ homeLock'[run[q].home] = homeLock[run[q].home]
  <2>1. q \notin OfService(s) BY <1>2, <1>6 DEF UnderWay
  <2>2. run[q].life \in {"reserved", "spawned", "known"} BY <1>6 DEF Within, UnderWay
  <2>3. run[q].svc # s BY <2>1, <2>2 DEF OfService
  <2>4. homeLock[run[q].home] = run[q].svc /\ run[q].home \in Account BY <1>6, LeasedIsBusy DEF Holds
  <2> QED BY <2>1, <2>3, <2>4 DEF Gone
<1>7. svc' \in [Service -> {"up", "starting", "down"}] BY DEF Gone, AgyInv, Processes
<1>8. homeLock' \in [Account -> Service \cup {NoService}] BY DEF Gone, AgyInv, Rows
<1> QED BY <1>4, <1>5, <1>6, <1>7, <1>8

LEMMA EndStep ==
  ASSUME AgyInv, NEW s \in Service, NEW stuck \in SUBSET Run, Close(s, stuck) \/ Crash(s)
  PROVE  AgyInv'
<1>1. Gone(s) /\ UNCHANGED <<clock, out>> BY DEF Close, Crash
<1>2. clock <= clock' /\ faults' \in Nat BY <1>1 DEF AgyInv, Processes, Close, Crash, Fault
<1>3. proc' \in [Run -> {"none", "alive", "exited"}] BY DEF AgyInv, Processes, Close, Crash
<1>4. registry' \in [Service -> SUBSET Run] BY DEF AgyInv, Processes, Close, Crash
<1>5. reaped' \in [Run -> {"none", "killed", "kill_failed", "already_exited", "stopped_at_shutdown"}]
  BY DEF AgyInv, Processes, Close, Crash
<1>6. Processes' BY <1>1, <1>2, <1>3, <1>4, <1>5, GoneStays DEF AgyInv, Processes
<1>7. ASSUME NEW a \in Account PROVE RowMoves(a) /\ pool'[a] \in Row
  BY FreeIs DEF AgyInv, Rows, Close, Crash, Released, RowMoves, FreeRow
<1>8. pool' \in [Account -> Row]
  <2>1. pool' = [a \in Account |-> pool'[a]] BY DEF AgyInv, Rows, Close, Crash, Released
  <2> QED BY <1>7, <2>1
<1>9. ASSUME NEW q \in Run PROVE Untouched(q)
  <2> SUFFICES ASSUME Within(q), UnderWay(q)'
               PROVE  pool'[run[q].home] = pool[run[q].home] /\ homeLock'[run[q].home] = homeLock[run[q].home]
    BY DEF Untouched
  <2>1. q \notin OfService(s) /\ homeLock'[run[q].home] = homeLock[run[q].home] BY <1>1, GoneStays
  <2>2. run[q].home \in Account /\ pool[run[q].home].lease = q /\ q \notin Live(s)
    BY <2>1, LeasedIsBusy DEF Live
  <2>3. pool'[run[q].home] = pool[run[q].home] BY <2>2 DEF Close, Crash, Released
  <2> QED BY <2>1, <2>3
<1>10. Rows' BY <1>1, <1>8, GoneStays DEF Rows
<1> QED BY <1>1, <1>2, <1>6, <1>7, <1>9, <1>10, GoneStays, LeasesStay

LEMMA StartStep ==
  ASSUME AgyInv, NEW s \in Service, NEW stuck \in SUBSET Run, Start(s, stuck) \/ ReclaimAtStart(s) \/ Tick
  PROVE  AgyInv'
<1>1. UNCHANGED <<homeLock, run, out>> BY DEF Start, ReclaimAtStart, Tick
<1>2. clock' \in Nat /\ clock <= clock' /\ faults' \in Nat
  BY DEF AgyInv, Processes, Start, ReclaimAtStart, Tick, Fault
<1>3. svc' \in [Service -> {"up", "starting", "down"}]
  BY DEF AgyInv, Processes, Start, ReclaimAtStart, Tick
<1>4. /\ proc' \in [Run -> {"none", "alive", "exited"}] /\ registry' \in [Service -> SUBSET Run]
  BY DEF AgyInv, Processes, Start, ReclaimAtStart, Tick
<1>5. reaped' \in [Run -> {"none", "killed", "kill_failed", "already_exited", "stopped_at_shutdown"}]
  BY DEF AgyInv, Processes, Start, ReclaimAtStart, Tick
<1>6. Processes' BY <1>1, <1>2, <1>3, <1>4, <1>5 DEF AgyInv, Processes
<1>7. ASSUME NEW a \in Account PROVE RowMoves(a) /\ pool'[a] \in Row
  BY FreeIs DEF AgyInv, Rows, Start, ReclaimAtStart, Tick, RowMoves, FreeRow
<1>8. pool' \in [Account -> Row]
  <2>1. pool' = [a \in Account |-> pool'[a]] BY DEF AgyInv, Rows, Start, ReclaimAtStart, Tick
  <2> QED BY <1>7, <2>1
<1>9. ASSUME NEW q \in Run PROVE Untouched(q)
  <2> SUFFICES ASSUME Within(q) PROVE pool'[run[q].home] = pool[run[q].home] BY <1>1 DEF Untouched
  <2>1. run[q].home \in Account /\ run[q].home \notin Reclaimed \cup Cooled BY LeasedIsBusy
  <2> QED BY <2>1 DEF Start, ReclaimAtStart, Tick
<1>10. Rows' /\ Records' BY <1>1, <1>8 DEF AgyInv, Rows, Records
<1>11. \A q \in Run : Stays(q) BY <1>1 DEF Stays, UnderWay
<1> QED BY <1>2, <1>6, <1>7, <1>9, <1>10, <1>11, LeasesStay

LEMMA AgyStep == AgyInv /\ [Next]_vars => AgyInv'
<1> SUFFICES ASSUME AgyInv, [Next]_vars PROVE AgyInv' OBVIOUS
<1>1. CASE UNCHANGED vars
  <2>1. UNCHANGED <<clock, svc, pool, homeLock, run, proc, out, registry, reaped, faults>>
    BY <1>1 DEF vars
  <2>2. Processes' /\ Rows' /\ Records' /\ clock <= clock' BY <2>1 DEF AgyInv, Processes, Rows, Records
  <2>3. \A q \in Run : Stays(q) BY <2>1 DEF Stays, UnderWay
  <2> QED BY <2>1, <2>2, <2>3, PoolAside, LeasesStay
<1>2. CASE Tick
  <2>1. CASE \E s \in Service : TRUE BY <1>2, <2>1, StartStep
  <2>2. CASE \A s \in Service : FALSE
    <3>1. UNCHANGED <<svc, pool, homeLock, run, proc, out, registry, reaped, faults>>
          /\ clock' \in Nat /\ clock <= clock'
      BY <1>2 DEF Tick, AgyInv, Processes
    <3>2. Processes' /\ Rows' /\ Records' BY <3>1 DEF AgyInv, Processes, Rows, Records
    <3>3. \A q \in Run : Stays(q) BY <3>1 DEF Stays, UnderWay
    <3> QED BY <3>1, <3>2, <3>3, PoolAside, LeasesStay
  <2> QED BY <2>1, <2>2
<1>3. ASSUME NEW s \in Service, NEW r \in Run, NEW down \in SUBSET Account, NEW c \in Class,
             Reserve(s, r, down, c)
      PROVE  AgyInv'
  BY <1>3, ReserveStep
<1>4. ASSUME NEW s \in Service, NEW stuck \in SUBSET Run,
             Close(s, stuck) \/ Start(s, stuck) \/ Crash(s) \/ ReclaimAtStart(s)
      PROVE  AgyInv'
  BY <1>4, EndStep, StartStep
<1>5. ASSUME NEW r \in Run, NEW c \in Class,
             \/ Spawn(r) \/ SpawnFails(r) \/ Record(r)
             \/ WorkerExits(r, c) \/ Observe(r, c) \/ Collect(r, c) \/ Cancel(r, c)
      PROVE  AgyInv'
  BY <1>5, SpawnStep, ObserveStep, CollectStep, CancelStep
<1>6. "ok" \in Class /\ {} \in SUBSET Run BY AgyAssumption
<1>7. CASE \E s \in Service :
       \/ \E r \in Run, down \in SUBSET Account, c \in Class \ {"ok"} : Reserve(s, r, down, c)
       \/ \E stuck \in SUBSET Run : Close(s, stuck) \/ Start(s, stuck)
       \/ Crash(s) \/ ReclaimAtStart(s)
  BY <1>3, <1>4, <1>6, <1>7
<1>8. CASE \E r \in Run :
       \/ Spawn(r) \/ SpawnFails(r) \/ Record(r)
       \/ \E c \in Class : WorkerExits(r, c) \/ Observe(r, c) \/ Collect(r, c) \/ Cancel(r, c)
  BY <1>5, <1>6, <1>8
<1> QED BY <1>1, <1>2, <1>7, <1>8 DEF Next

LEMMA AgyInvariant == Spec => []AgyInv
<1> QED BY AgyInit_Inv, AgyStep, PTL DEF Spec

\* antigravity_cli_v1.py with the pool and the registry: rows, records and registries stay
\* well formed, and a busy row names a run whose HOME it is.
THEOREM AgyTypeCorrect == Spec => []AgyTypeOK
<1>1. AgyInv => AgyTypeOK
  <2> SUFFICES ASSUME AgyInv PROVE AgyTypeOK OBVIOUS
  <2>1. \A a \in Account : IF pool[a].state = "busy" THEN pool[a].lease # NoRun /\ LeaseOf(a).home = a
                                                      ELSE pool[a].lease = NoRun
    BY AgyAssumption DEF AgyInv, Leased, LeasedRow
  <2> QED BY <2>1 DEF AgyInv, AgyTypeOK, Processes, Rows, Records, Row, RunRecord, Life, Flag
<1> QED BY <1>1, AgyInvariant, PTL

\* finish_account_lease, reclaim and dispatch: until its lease is over a run that is under way
\* has its account and the lock of its HOME, whatever other services and late results do.
THEOREM LeasesAreHeld == Spec => []LiveRunHasItsLease
<1>1. AgyInv => LiveRunHasItsLease
  <2> SUFFICES ASSUME AgyInv, NEW r \in Run, UnderWay(r), clock < run[r].started + LeaseSec
               PROVE  pool[run[r].home].lease = r /\ homeLock[run[r].home] = run[r].svc
    BY DEF LiveRunHasItsLease
  <2>1. Within(r) BY DEF Within
  <2>2. Holds(r) BY <2>1 DEF AgyInv, Held
  <2> QED BY <2>2 DEF Holds
<1> QED BY <1>1, AgyInvariant, PTL

\* apply_class_to_state: no step frees or leases an account before the end of its cooldown,
\* whatever results of earlier runs come in late.
THEOREM CooldownsHold == Spec => CooldownHolds
<1> DEFINE Cools(a) == pool[a].state = "cooldown" /\ clock < pool[a].until
           Steady(a) == pool'[a].state \notin {"available", "busy"}
<1>1. ASSUME AgyInv, Next, NEW a \in Account, Cools(a) PROVE Steady(a)
  <2>0. /\ pool[a] \in Row /\ clock \in Nat /\ pool[a].until \in Nat
        /\ \A b \in Account : pool[b] \in Row /\ (pool[b].state # "busy" => pool[b].lease = NoRun)
    BY <1>1 DEF AgyInv, Rows, Processes, Row, Leased, LeasedRow
  <2>1. a \notin Reclaimed \cup Expired \cup Cooled
    BY <1>1, <2>0 DEF Reclaimed, HolderGone, Expired, Cooled
  <2>2. CASE pool'[a] = pool[a] BY <1>1, <2>2
  <2>3. ASSUME NEW R, pool' = Released(pool, R) PROVE Steady(a)
    BY <1>1, <2>2, <2>3 DEF Released
  <2>4. ASSUME NEW r \in Run, NEW c \in Class, Finish(r, c) PROVE Steady(a)
    <3>1. CASE UNCHANGED pool BY <2>2, <3>1
    <3>2. CASE pool' = [pool EXCEPT ![run[r].home] = ForClass(@, c)] /\ run[r].home = a
      <4>1. pool'[a] = ForClass(pool[a], c) BY <1>1, <3>2 DEF AgyInv, Rows
      <4>2. ForClass(pool[a], c).state \in {"cooldown", "unavailable"} BY <1>1, <2>0, ForClassIs
      <4> QED BY <4>1, <4>2
    <3>3. CASE pool' = [pool EXCEPT ![run[r].home] = ForClass(@, c)] /\ run[r].home # a
      BY <1>1, <2>2, <3>3 DEF AgyInv, Rows
    <3> QED BY <2>4, <3>1, <3>2, <3>3 DEF Finish
  <2>5. ASSUME NEW s \in Service, NEW r \in Run, NEW down \in SUBSET Account, NEW c \in Class,
               Reserve(s, r, down, c)
        PROVE  Steady(a)
    <3> DEFINE fit    == {b \in Account \ down : Loaded[b].state = "available" /\ Locks(s)[b] = NoService}
               chosen == Min(fit)
               asked  == {b \in down : Loaded[b].state = "available" /\ (fit = {} \/ b < chosen)}
               after  == [b \in Account |-> IF b \in asked THEN ForClass(Loaded[b], c) ELSE Loaded[b]]
    <3>1. Loaded[a] = pool[a] BY <2>1 DEF Loaded
    <3>2. a \notin fit /\ a \notin asked BY <1>1, <3>1
    <3>3. after[a] = pool[a] BY <3>1, <3>2
    <3>4. CASE fit = {}
      <4>1. pool' = after \/ pool' = pool BY <2>5, <3>4 DEF Reserve
      <4> QED BY <2>2, <3>3, <4>1
    <3>5. CASE fit # {}
      <4>1. pool' = [after EXCEPT ![chosen] = [state |-> "busy", until |-> clock + LeaseSec, lease |-> r]]
        BY <2>5, <3>5 DEF Reserve
      <4>2. fit \in SUBSET Nat BY AgyAssumption DEF Account
      <4>3. chosen # a BY <3>2, <3>5, <4>2, LeastExists
      <4> HIDE DEF chosen, fit, asked
      <4>4. pool'[a] = after[a] BY <4>1, <4>3
      <4> QED BY <2>2, <3>3, <4>4
    <3> QED BY <3>4, <3>5
  <2>6. ASSUME NEW s \in Service, NEW stuck, Close(s, stuck) PROVE Steady(a)
    BY <2>3, <2>6 DEF Close
  <2>7. ASSUME NEW s \in Service, ReclaimAtStart(s) PROVE Steady(a)
    BY <2>1, <2>2, <2>7 DEF ReclaimAtStart
  <2>8. ASSUME NEW r \in Run, NEW c \in Class, Collect(r, c) PROVE Steady(a)
    <3>1. out[r] \in Class /\ "ok" \in Class BY <1>1, AgyAssumption DEF AgyInv, Processes
    <3>2. Finish(r, c) \/ Finish(r, "ok") \/ Finish(r, out[r]) BY <2>8 DEF Collect
    <3> QED BY <2>4, <3>1, <3>2
  <2>9. ASSUME NEW r \in Run, NEW c \in Class, Cancel(r, c) PROVE Steady(a)
    BY <2>2, <2>3, <2>9 DEF Cancel, Release
  <2>10. ASSUME NEW r \in Run, SpawnFails(r) PROVE Steady(a)
    BY <2>3, <2>10 DEF SpawnFails, Release
  <2>11. CASE UNCHANGED pool BY <2>2, <2>11
  <2> QED BY <1>1, <2>5, <2>6, <2>7, <2>8, <2>9, <2>10, <2>11
          DEF Next, Tick, Start, Crash, Spawn, Record, WorkerExits, Observe
<1>2. ASSUME AgyInv, [Next]_vars
      PROVE  [\A a \in Account : Cools(a) => Steady(a)]_vars
  BY <1>1, <1>2
<1> QED BY <1>2, AgyInvariant, PTL DEF Spec, CooldownHolds

=============================================================================
