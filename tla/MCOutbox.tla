------------------------------- MODULE MCOutbox -------------------------------
(***************************************************************************)
(* Instances of Outbox: a process with a writer and a pump, and a process  *)
(* with a thread of its own.                                               *)
(***************************************************************************)
EXTENDS Outbox, TLC

CONSTANTS p1, p2, t1, t2, t3

MCProcOf == (t1 :> p1) @@ (t2 :> p1) @@ (t3 :> p2)
===============================================================================
