---------------------------- MODULE ReceiveLoop -----------------------------
(***************************************************************************)
(* What run_source does with one received message: the verdict of decoding *)
(* and dispatching it, the failure policy, and the settlement they lead    *)
(* to.  The sources it runs on say what the settlements do.                *)
(***************************************************************************)
CONSTANT FailurePolicy

Policies == {"Retry", "DeadLetter", "Park", "LogAndAck", "Stop"}

ASSUME PolicyAssumption == FailurePolicy \in Policies

\* How decoding and dispatch end.  Unhandled: no handler for the name; Retain:
\* the error asks to keep the message and stop (should_retain_and_stop).
Verdicts == {"Ok", "Unhandled", "Retryable", "Permanent", "Undecodable", "Retain"}

resolve(verdict) ==
    IF verdict = "Retryable" \/ FailurePolicy = "Retry" THEN "Nack" ELSE FailurePolicy

\* Faulty variant: a message that must be retained is left to the policy.
SettlesRetained(verdict) ==
    IF verdict \in {"Ok", "Unhandled"} \/ resolve(verdict) = "LogAndAck" THEN "Ack"
    ELSE resolve(verdict)

\* Stop leaves the message as it is and ends the run with an error.
Settlement(verdict) ==
    IF verdict \in {"Ok", "Unhandled"} THEN "Ack"
    ELSE IF verdict = "Retain" THEN "NackAndStop"
    ELSE IF resolve(verdict) = "LogAndAck" THEN "Ack"
    ELSE resolve(verdict)

\* Settlements after which the source has done with the message.
Forward == {"Ack", "DeadLetter", "Park"}
=============================================================================
