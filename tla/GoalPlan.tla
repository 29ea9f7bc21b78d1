------------------------------- MODULE GoalPlan -------------------------------
(* The plans of a goal, from its first lead call to its last revision: Planning  *)
(* gives the goal its tasks; PlanRevision keeps, in the ownership file, what the *)
(* coordinators make of the plan of its charter; Request opens other goals of    *)
(* the service.  No part reads what another writes, so each is followed while    *)
(* the others rest.                                                             *)
EXTENDS Planning, PlanRevision, Request

CONSTANT CharterTask  \* the task of the goal's charter

gvars == <<pvars, rvars, qvars>>

\* Nothing of the planning is left.
Quiet == /\ goal.state = "running" /\ tick = [t \in Ticker |-> AtRest] /\ ~stopping
         /\ planning = NoCall /\ alive = {} /\ registry = {} /\ stops = 0

\* plan_from_mapped: the one task of the charter, not started.
FirstPlan ==
  [EmptyPlan EXCEPT !.tasks =
     [key \in {CharterTask} |-> [status |-> "queued", assignee |-> "executor", attempt |-> 0]]]

GoalInit == PlanInit /\ RevInit /\ RequestInit

Untouched == <<ownership, plan, proposals, autonomy, contract>> =
             <<[who |-> NoCoord, version |-> 0], EmptyPlan, [p \in Proposal |-> NoProposal],
               Undeclared, Unlimited>>

Unasked == client = Idle /\ opens = 0 /\ surprises = 0

Resting == Untouched /\ Unasked

GoalNext ==
  \/ Resting /\ PlanNext /\ UNCHANGED <<rvars, qvars>>
  \/ Quiet /\ Unasked /\ RevNext(FirstPlan) /\ UNCHANGED <<pvars, qvars>>
  \/ Quiet /\ Untouched /\ RequestNext /\ UNCHANGED <<pvars, rvars>>

GoalSpec == GoalInit /\ [][GoalNext]_gvars

\* The threads go on, the loop gets the lock some time, a service that is down is
\* started again.  Nobody promises that a lead ends.  A client polls again and again,
\* and so does the tick that asks a lead for its decision.
PlanFairness ==
  /\ \A t \in Ticker : WF_pvars(Resting /\ TickStep(t))
  /\ WF_pvars(Resting /\ \E k \in Call : CallStep(k))
  /\ SF_pvars(Resting /\ BeginTick(Loop))
  /\ WF_pvars(Resting /\ (StopPlanning \/ CancelEffected))
  /\ WF_pvars(Resting /\ (StopAllPlanning \/ Exit \/ Start))
  /\ WF_qvars(Quiet /\ Untouched /\ Poll)
  /\ WF_qvars(Quiet /\ Untouched /\ client.told # NoGoal /\ LeadTick(client.told))
GoalLiveSpec == GoalSpec /\ PlanFairness
=============================================================================
