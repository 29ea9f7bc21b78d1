--------------------------- MODULE MCDurableLayer ---------------------------
(* Small instances of DurableLayer for TLC. *)
EXTENDS DurableLayer, TLC

CONSTANTS t1, t2, g1

\* One goal of two tasks, the second waiting for the first.
MCGoalOf    == [t \in Task |-> g1]
MCDependsOn == [t \in Task |-> IF t = t2 THEN {t1} ELSE {}]

\* A submitter whose authority covers every scope but one.
CONSTANTS beyond
MCAuthority == [g \in Goal |-> Scope \ {beyond}]

\* Without scopes to grant, a returned insufficient_auth acts as an escalation.
OneUpperKind == \A d \in Decision : decision[d].kind # "insufficient_auth"

Symmetry == Permutations(Run) \cup Permutations(Claim) \cup Permutations(Decision)
=============================================================================
