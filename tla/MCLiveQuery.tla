---------------------------- MODULE MCLiveQuery -----------------------------
(* A small instance of LiveQuery for TLC.                                  *)
EXTENDS LiveQuery, TLC

CONSTANTS s1

Event(message, op) == [message |-> message, causation |-> "x", key |-> "k", op |-> op]

MCInputs == <<Event("a", "Put"), Event("b", "Skip"), Event("c", "Put")>>
=============================================================================
