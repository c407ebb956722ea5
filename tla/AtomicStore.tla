---------------------------- MODULE AtomicStore ----------------------------
(***************************************************************************)
(* What the durable store promises its caller (store.h: "Versioned,        *)
(* integrity-checked, atomic (staging + rename) store"; README: "atomic    *)
(* store rewrites"): one value that a save replaces as a whole or not at   *)
(* all, whose success is reported only once the value is the new one, and  *)
(* which a crash of the process leaves alone.  It promises this for as     *)
(* long as the medium keeps what it was given.                             *)
(***************************************************************************)
CONSTANTS
  Value,    \* what can be stored
  Nothing   \* no value: an empty store, no save in progress

VARIABLES
  value,      \* the stored value, Nothing before the first save
  wanted,     \* the value being saved, or Nothing
  committed,  \* whether that save has taken effect
  answer,     \* the result of the last save: "none", "ok" or "failed"
  broken      \* whether the medium has lost or changed data

vars == <<value, wanted, committed, answer, broken>>

Init ==
  /\ value = Nothing /\ wanted = Nothing /\ committed = FALSE /\ answer = "none"
  /\ broken = FALSE

Begin(v) ==
  /\ wanted = Nothing
  /\ wanted' = v /\ committed' = FALSE /\ answer' = "none"
  /\ UNCHANGED value

Commit ==
  /\ wanted # Nothing /\ ~committed
  /\ value' = wanted /\ committed' = TRUE
  /\ UNCHANGED <<wanted, answer>>

Succeed ==
  /\ wanted # Nothing /\ committed
  /\ wanted' = Nothing /\ committed' = FALSE /\ answer' = "ok"
  /\ UNCHANGED value

Fail ==
  /\ wanted # Nothing /\ ~committed
  /\ wanted' = Nothing /\ answer' = "failed"
  /\ UNCHANGED <<value, committed>>

\* The caller dies, before or after its save took effect.
Crash ==
  /\ wanted' = Nothing /\ committed' = FALSE /\ answer' = "none"
  /\ UNCHANGED value

Keeps == (\E v \in Value: Begin(v)) \/ Commit \/ Succeed \/ Fail \/ Crash

\* Nothing is promised of the step that breaks the medium and of later ones.
Next == (Keeps /\ broken' = broken) \/ broken' = TRUE

Spec == Init /\ [][Next]_vars
=============================================================================
