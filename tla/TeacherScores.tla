---------------------------- MODULE TeacherScores ----------------------------
(***************************************************************************)
(* What streaming teacher log-probs promises to the trainer: one batch,    *)
(* which arrives complete, every row scored with the teacher's answer to   *)
(* that row's own sample, or not at all (the call raises).                 *)
(***************************************************************************)
EXTENDS Integers

CONSTANT Rows      \* the samples of the batch, numbered as they were submitted

VARIABLES
    outcome,       \* what the trainer has: "pending", "scored" or "failed"
    batch,         \* the sample in each row once the batch is there
    scores         \* the sample whose teacher scores each row was given

vars == <<outcome, batch, scores>>

Orders == {f \in [Rows -> Rows] : \A r \in Rows : \E k \in Rows : f[k] = r}

Init == outcome = "pending" /\ batch = <<>> /\ scores = <<>>

Deliver ==
    /\ outcome = "pending"
    /\ outcome' = "scored"
    /\ batch' \in Orders
    /\ scores' = batch'

Fail ==
    /\ outcome = "pending"
    /\ outcome' = "failed"
    /\ UNCHANGED <<batch, scores>>

Next == Deliver \/ Fail

Spec == Init /\ [][Next]_vars /\ WF_vars(Next)
=============================================================================
