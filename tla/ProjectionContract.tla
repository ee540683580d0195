------------------------- MODULE ProjectionContract -------------------------
(***************************************************************************)
(* What the projection protocol promises of one projector, whoever runs    *)
(* it: it takes each input of its source at most once and in order, it     *)
(* stops at an input that fails, and once it is reopened the first input   *)
(* it takes, or fails on, is that one.                                     *)
(***************************************************************************)
EXTENDS Integers, Sequences

CONSTANTS Projectors, Inputs

VARIABLES
    taken, \* the inputs each projector has taken, in order
    held   \* the input it stands at, if it does

Free == [at |-> "Free"]
Stopped(x) == [at |-> "Stopped", input |-> x]
Reopened(x) == [at |-> "Reopened", input |-> x]

Init ==
    /\ taken = [t \in Projectors |-> <<>>]
    /\ held = [t \in Projectors |-> Free]

\* Later in the same epoch, and under a name of its own.
After(x, y) ==
    /\ x.cursor.epoch = y.cursor.epoch
    /\ x.cursor.position > y.cursor.position
    /\ x.message # y.message

May(t, x) ==
    /\ held[t] \in {Free, Reopened(x)}
    /\ \A n \in 1..Len(taken[t]) : After(x, taken[t][n])

Take(t, x) ==
    /\ May(t, x)
    /\ taken' = [taken EXCEPT ![t] = Append(@, x)]
    /\ held' = [held EXCEPT ![t] = Free]

Fail(t, x) ==
    /\ May(t, x)
    /\ held' = [held EXCEPT ![t] = Stopped(x)]
    /\ UNCHANGED taken

Reopen(t) ==
    /\ held[t].at = "Stopped"
    /\ held' = [held EXCEPT ![t] = Reopened(held[t].input)]
    /\ UNCHANGED taken

Next == \E t \in Projectors : Reopen(t) \/ \E x \in Inputs : Take(t, x) \/ Fail(t, x)

Spec == Init /\ [][Next]_<<taken, held>>
=============================================================================
