-------------------------- MODULE MCClientRequests --------------------------
(* Instances of ClientRequests.                                            *)
EXTENDS ClientRequests, TLC

CONSTANTS t1, t2

\* t2 needs the result of t1.
Chain == t1 :> {} @@ t2 :> {t1}

Single == t1 :> {}
=============================================================================
