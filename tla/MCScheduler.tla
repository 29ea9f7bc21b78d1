---------------------------- MODULE MCScheduler -----------------------------
(* Small instances of Scheduler for TLC.                                      *)
EXTENDS Scheduler, TLC

CONSTANTS p1

\* The second job asks.
MCJobOf == [p \in Perm |-> 2]

\* Something gated; something outside the limits, which its charter does not let
\* the scheduler check; a listed secret, once or for ever; an eternal path that
\* the charter lists.
MCContents ==
  [p \in Perm |-> {{"gated"}, {"outside", "unchecked"}, {"secret", "listed"},
                   {"secret", "listed", "always"}, {"secret", "eternal", "listed"}}]
=============================================================================
