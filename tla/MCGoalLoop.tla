----------------------------- MODULE MCGoalLoop -----------------------------
(***************************************************************************)
(* Instances of GoalLoop: a producer and a consumer in one directory, and  *)
(* a job of another process that works for the same goal.                  *)
(***************************************************************************)
EXTENDS GoalLoop, TLC

CONSTANTS producer, consumer, solo, d1, d2

MCSlots == <<producer, consumer>>
MCDependsOn == (producer :> {}) @@ (consumer :> {producer}) @@ (solo :> {})
MCDirOf == (producer :> d1) @@ (consumer :> d1) @@ (solo :> d2)
MCLimits == [attempts |-> 3, reworks |-> 1, approvals |-> 2, wall |-> 4]
=============================================================================
