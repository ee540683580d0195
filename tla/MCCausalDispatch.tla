--------------------------- MODULE MCCausalDispatch --------------------------
(* Small instances of causal command dispatch for TLC.                     *)
EXTENDS CausalDispatch, TLC

CONSTANTS c1, c2, i1, i2, d1, d2

MCCommands == {c1, c2}
MCInputs == {i1, i2}
MCDispatches == {d1, d2}

Asks(c, i) == [command |-> c, input |-> i]

\* A second dispatch of the same command, with the same input or with another, or
\* a dispatch of another command on the same stream.
MCRequests == {(d1 :> Asks(c1, i1)) @@ (d2 :> second) :
                  second \in {Asks(c1, i1), Asks(c1, i2), Asks(c2, i1)}}

MCInit == Init /\ req \in MCRequests
MCSpec == MCInit /\ [][Next]_vars /\ Fairness
=============================================================================
