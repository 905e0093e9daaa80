---------------------------- MODULE MCRequestGate ----------------------------
(* Model values for RequestGate: two connections to one process, one to     *)
(* another.                                                                  *)
EXTENDS RequestGate, TLC
CONSTANTS new, r1, r2, r3, p1, p2, a1, a2, a3
MCAt == (r1 :> p1) @@ (r2 :> p1) @@ (r3 :> p2)
=============================================================================
