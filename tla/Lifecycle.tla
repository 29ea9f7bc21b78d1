----------------------------- MODULE Lifecycle -----------------------------
(***************************************************************************)
(* The Task and Goal vocabularies of framework/lifecycle.py and the edges  *)
(* that assert_transition admits.  "absent" is not a word of the code: it  *)
(* marks a goal or a task that no snapshot in the store mentions yet.      *)
(***************************************************************************)

GoalState == {"queued", "running", "blocked", "cancel_requested",
              "completed", "failed", "cancelled"}

TaskState == {"queued", "running", "awaiting_decision", "review", "blocked",
              "cancel_requested", "unknown", "succeeded", "failed", "cancelled"}

TaskEdge ==
  [queued            |-> {"running", "cancelled", "blocked", "failed"},
   running           |-> {"awaiting_decision", "review", "succeeded", "failed",
                          "cancel_requested", "unknown", "blocked"},
   awaiting_decision |-> {"running", "queued", "blocked", "failed",
                          "cancel_requested", "unknown"},
   review            |-> {"succeeded", "failed", "running", "awaiting_decision"},
   blocked           |-> {"queued", "running", "cancelled", "failed"},
   cancel_requested  |-> {"cancelled", "unknown", "failed"},
   unknown           |-> {"running", "failed", "cancelled", "review"},
   succeeded         |-> {},
   failed            |-> {"queued"},
   cancelled         |-> {}]

GoalEdge ==
  [queued           |-> {"running", "blocked", "failed", "cancelled",
                         "completed", "cancel_requested"},
   running          |-> {"completed", "failed", "blocked", "cancelled",
                         "cancel_requested"},
   blocked          |-> {"queued", "running", "failed", "cancelled",
                         "cancel_requested"},
   cancel_requested |-> {"cancelled", "failed"},
   completed        |-> {},
   failed           |-> {"queued"},
   cancelled        |-> {}]

\* Every caller skips assert_transition when the state does not change.
TaskMay(src, dst) == src \in TaskState /\ (src = dst \/ dst \in TaskEdge[src])
GoalMay(src, dst) == src \in GoalState /\ (src = dst \/ dst \in GoalEdge[src])

TerminalGoal == {"completed", "failed", "cancelled"}
CancelClosed == {"cancel_requested", "cancelled"}

\* durable_api._IN_FLIGHT_TASK, and concurrency.IN_FLIGHT which adds one state.
TerminableTask == {"running", "awaiting_decision", "review"}
InFlight       == TerminableTask \cup {"cancel_requested"}
=============================================================================
