--------------------------- MODULE CommandContract ---------------------------
(***************************************************************************)
(* What causal dispatch promises whoever sends a command: the command is   *)
(* decided at most once, and every answer is what was decided.             *)
(***************************************************************************)
CONSTANTS Commands, Outcome

VARIABLES
    decided, \* the outcomes of each command: none, or one
    told     \* the outcomes its clients were given

ContractInit ==
    /\ decided = [c \in Commands |-> {}]
    /\ told = [c \in Commands |-> {}]

\* A command is decided; whoever waits for it may learn so at once.
Decide(c, outcome) ==
    /\ decided[c] = {}
    /\ decided' = [decided EXCEPT ![c] = {outcome}]
    /\ told' \in {told, [told EXCEPT ![c] = @ \cup {outcome}]}

\* A client is given the outcome, however long ago it was decided.
TellAgain(c) ==
    /\ told' = [told EXCEPT ![c] = @ \cup decided[c]]
    /\ UNCHANGED decided

ContractNext ==
    \E c \in Commands : TellAgain(c) \/ \E outcome \in Outcome : Decide(c, outcome)

ContractSpec == ContractInit /\ [][ContractNext]_<<decided, told>>
=============================================================================
