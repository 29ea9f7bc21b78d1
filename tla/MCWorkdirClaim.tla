---------------------------- MODULE MCWorkdirClaim ----------------------------
(***************************************************************************)
(* Instances of WorkdirClaim: two threads of one process that share a      *)
(* holder id, a third one beside them, and a thread of another process.    *)
(***************************************************************************)
EXTENDS WorkdirClaim, TLC

CONSTANTS p1, p2, d1, t1, t2, t3, t4, h1, h2, h3

MCProcOf   == (t1 :> p1) @@ (t2 :> p1) @@ (t3 :> p1) @@ (t4 :> p2)
MCHolderOf == (t1 :> h1) @@ (t2 :> h1) @@ (t3 :> h2) @@ (t4 :> h3)
===============================================================================
