------------------------------ MODULE MCOutbox ------------------------------
(* Outbox with two messages and two dispatchers that share one worker id. *)
EXTENDS Outbox, TLC

CONSTANTS d1, d2, w

MCMessages == {1, 2}
MCWorkerId == [d \in {d1, d2} |-> w]
\* The dispatchers share a worker id, so they are interchangeable.
MCSymmetry == Permutations({d1, d2})
=============================================================================
