---------------------------- MODULE StepPromise ----------------------------
(***************************************************************************)
(* What a workflow step with an unsafe side effect promises: the effect is *)
(* made once or not at all, and the outcome the run's history shows never  *)
(* lies about it.  A step whose outcome is unknown is the only one whose   *)
(* effect may still be on its way.                                         *)
(***************************************************************************)

VARIABLES
    outcome,  \* "open", or how the step ended
    made,     \* the provider made the effect
    run       \* "active", or how the run ended

vars == <<outcome, made, run>>

Outcomes == {"succeeded", "failed", "canceled", "timed_out", "outcome_unknown"}

Init == outcome = "open" /\ made = FALSE /\ run = "active"

(* The effect happens while the step is open, or once it was written off.  *)
Make ==
    /\ ~made
    /\ outcome \in {"open", "outcome_unknown"}
    /\ made' = TRUE
    /\ UNCHANGED <<outcome, run>>

(* A success was made, and a stop undid nothing; a failure may be either.  *)
Settle ==
    /\ outcome = "open"
    /\ outcome' \in Outcomes
    /\ outcome' = "succeeded" => made
    /\ outcome' \in {"canceled", "timed_out"} => ~made
    /\ UNCHANGED made

(* The run ends with the step settled, and is unknown exactly when the     *)
(* step is.                                                                *)
Finish ==
    /\ run = "active"
    /\ outcome' \in Outcomes
    /\ run' \in Outcomes
    /\ (run' = "outcome_unknown") <=> (outcome' = "outcome_unknown")

End == UNCHANGED outcome /\ Finish /\ UNCHANGED made

Next ==
    \/ Make
    \/ Settle /\ (UNCHANGED run \/ Finish)
    \/ End

Spec == Init /\ [][Next]_vars

=============================================================================
