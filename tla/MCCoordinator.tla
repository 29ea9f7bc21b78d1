--------------------------- MODULE MCCoordinator ---------------------------
(* Small instances of Coordinator for TLC. *)
EXTENDS Coordinator, TLC

CONSTANTS t1, t2, t3, t4, g1, g2, g3, r1, r2, r3, r4

\* Every task belongs to g1, or two to g1 and one to each other goal.
OneGoal      == [t \in Task |-> g1]
SplitGoals   == [t \in Task |-> IF t \in {t1, t2} THEN g1 ELSE IF t = t3 THEN g2 ELSE g3]

\* t2 waits for t1, and t3 for t2.
Chain        == [t \in Task |-> IF t = t2 THEN {t1} ELSE IF t = t3 THEN {t2} ELSE {}]
NoDependency == [t \in Task |-> {}]

\* Every task has a directory of its own, but t1 and t3 share one.
Shared       == [t \in Task |-> IF t = t3 THEN t1 ELSE t]

NoScope      == [g \in Goal |-> {}]

Symmetry == Permutations(Run) \cup Permutations(Claim) \cup Permutations(Decision)
\* Where no task depends on another and all are of one goal, they are alike too.
Alike    == Symmetry \cup Permutations(Task)

\* Runs are alike: with liveness, where symmetry is unsound, it is enough to use them in order.
RunOrder    == <<r1, r2, r3, r4>>
RunsInOrder == \A i \in 2..4 :
  RunOrder[i] \in Run /\ runs[RunOrder[i]].st # "unused" => runs[RunOrder[i - 1]].st # "unused"

\* A goal that is submitted late can do nothing before: all are submitted first.
SubmittedFirst ==
  (\E g \in Goal : ~Known(g)) => tick.pc = "idle" /\ \A g \in Goal : planning[g] = "none"
=============================================================================
