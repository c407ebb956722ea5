----------------------------- MODULE MCChannel -----------------------------
(* Instances of Channel: frames of different lengths, one over the limit   *)
(* in the run with faults.                                                 *)
EXTENDS Channel

CONSTANTS f1, f2, f3

\* Payloads of no, of one and of two bytes
Lengths == [f \in Frame |-> CASE f = f1 -> 0 [] f = f2 -> 1 [] f = f3 -> 2]
=============================================================================
