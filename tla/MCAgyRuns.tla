------------------------------ MODULE MCAgyRuns ------------------------------
(***************************************************************************)
(* Instances of AgyRuns.                                                   *)
(***************************************************************************)
EXTENDS AgyRuns, TLC

===============================================================================
