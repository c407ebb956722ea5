------------------------------ MODULE MCStore ------------------------------
(* Instances of Store: an epoch, and up to three committed attempts.       *)
EXTENDS Store, TLC

CONSTANTS kRecEpoch, e1, e2, a1, a2, a3

Tags == {kRecEpoch, kRecAttempt}
Entries == {e1, e2, a1, a2, a3}
CommittedEntries == {a1, a2, a3}

State(e, A) == (kRecEpoch :> {e}) @@ (kRecAttempt :> A)
NewState == State(e1, {})
States == {NewState} \union {State(e2, A): A \in {{a1}, {a1, a2}, {a1, a2, a3}}}

\* In units of two records, so that a file has up to three pieces.
Sizes == [s \in States |-> (Cardinality(records(s)) + 2) \div 2]
=============================================================================
