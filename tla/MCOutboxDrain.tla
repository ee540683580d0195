--------------------------- MODULE MCOutboxDrain ----------------------------
(* The drain loop of one process, over two messages. *)
EXTENDS OutboxDrain

CONSTANTS d1, w

MCMessages == {1, 2}
MCWorkerId == [d \in {d1} |-> w]
=============================================================================
