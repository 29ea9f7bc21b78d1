------------------------------- MODULE Delivery -------------------------------
(***************************************************************************)
(* What the outbox and the receiver promise together: a state never        *)
(* changes without its event, no event is lost, a receiver processes each  *)
(* event once, in any order and after any number of deliveries, and only   *)
(* an event that was processed is retired.                                 *)
(***************************************************************************)
EXTENDS Naturals, Sequences

CONSTANTS Entity, State, NoState

VARIABLES
  state,      \* of each entity, as the last reader of the store would see it
  log,        \* every event committed, in order
  processed,  \* the events the receiver has taken, in the order it took them
  retired     \* the events that are not sent again

Init ==
  /\ state = [e \in Entity |-> NoState]
  /\ log = << >>
  /\ processed = << >>
  /\ retired = {}

Commit(e, s) ==
  /\ state' = [state EXCEPT ![e] = s]
  /\ log' = Append(log, [ent |-> e, to |-> s])
  /\ UNCHANGED <<processed, retired>>

Taken == {processed[i] : i \in DOMAIN processed}
Consume(n) ==
  /\ n \notin Taken
  /\ processed' = Append(processed, n)
  /\ UNCHANGED <<state, log, retired>>

Retire(n) ==
  /\ n \in Taken \ retired
  /\ retired' = retired \cup {n}
  /\ UNCHANGED <<state, log, processed>>

Next == \/ \E e \in Entity, s \in State : Commit(e, s)
        \/ \E n \in DOMAIN log : Consume(n) \/ Retire(n)
Spec == Init /\ [][Next]_<<state, log, processed, retired>>
===============================================================================
