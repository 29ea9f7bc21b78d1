------------------------------ MODULE MCDesktop ------------------------------
(* Small instances of Desktop for TLC. *)
EXTENDS Desktop

CONSTANTS c1, c2

\* The last job belongs to the second controller, if there is one.
MCOwnerOf == [j \in Job |-> IF j = NJobs /\ c2 \in Controller THEN c2 ELSE c1]

\* A pinned input in its copy directory, and one with a pattern that leaves it.
PinnedRequest == [secret |-> FALSE, external |-> TRUE, file |-> "pin", patterns |-> {"copy"}]
MCRequest == {PinnedRequest, [PinnedRequest EXCEPT !.patterns = {"copy", "sibling"}]}
==============================================================================
