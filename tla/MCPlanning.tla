------------------------------ MODULE MCPlanning ------------------------------
(* Small instances of Planning, PlanRevision and Request for TLC. *)
EXTENDS GoalPlan

CONSTANTS loop, caller, c1, c2, p1, p2, k1, long, short

MCRow(key, deps, arts) == [key |-> key, deps |-> deps, artifacts |-> arts, done |-> arts]
Good == [id |-> TRUE, summary |-> TRUE, rows |-> <<MCRow(1, {}, {"a"}), MCRow(2, {1}, {"b"})>>]
\* A good plan, one for another request, and an object of a lead that failed.
Printed(draft) == [nonzero |-> FALSE, form |-> "object", draft |-> draft]
MCOutput == {Printed(Good), Printed([Good EXCEPT !.summary = FALSE]),
             [nonzero |-> TRUE, form |-> "none", draft |-> Good]}
MCWanted == {"b"}

Path(parts) == [drive |-> "", absolute |-> TRUE, parts |-> parts]
Safe == Path(<<"safe", "**">>)
\* Inside /safe, and out of it again.
Inside == Path(<<"safe", "sub", "**">>)
Escape == Path(<<"safe", "..", "out", "**">>)
MCContract == {Unlimited, [Unlimited EXCEPT !.budget = 2, !.allow = {Safe}]}

MCTask(status, n) == [status |-> status, assignee |-> "executor", attempt |-> n]
MCTasks(s1, s2) == [t \in {1, 2} |-> IF t = 1 THEN MCTask(s1, 0) ELSE MCTask(s2, 0)]
\* Task 1 started; task 1 dropped; both queued again, with ranges of the second task;
\* a tighter budget.
MCPlan == {[EmptyPlan EXCEPT !.tasks = MCTasks("running", "queued"), !.allow = [plan |-> {Inside}]],
           [EmptyPlan EXCEPT !.tasks = [t \in {2} |-> MCTask("queued", 0)]],
           [EmptyPlan EXCEPT !.tasks = MCTasks("queued", "queued"), !.taskAllow = {{Escape}}],
           [EmptyPlan EXCEPT !.tasks = MCTasks("failed", "queued"), !.budget = 1]}
MCAutonomy == {[Undeclared EXCEPT !.mode = "explicit_plan", !.plan = FALSE]}
MCSize == [c \in Content |-> IF c = long THEN 2 ELSE 1]
MCGrant == {[Unlimited EXCEPT !.budget = 1]}
===============================================================================
