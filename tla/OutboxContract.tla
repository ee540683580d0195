--------------------------- MODULE OutboxContract ---------------------------
(***************************************************************************)
(* What the outbox promises to its users, without claims, leases, workers  *)
(* or clocks: a committed message is owed to the transport; it may be      *)
(* delivered any number of times; the debt is discharged only after a      *)
(* delivery, or written off only after a publish failure; either verdict   *)
(* is final, although a straggling worker may still deliver a duplicate.   *)
(***************************************************************************)
EXTENDS Naturals

CONSTANT Messages

VARIABLES
    debt,       \* per message: not committed, owed, discharged, written off
    deliveries, \* per message: how often the transport accepted it
    errors      \* the messages a publish of which failed

contractVars == <<debt, deliveries, errors>>

ContractInit ==
    /\ debt = [m \in Messages |-> "uncommitted"]
    /\ deliveries = [m \in Messages |-> 0]
    /\ errors = {}

Owe(S) ==
    /\ \A m \in S : debt[m] = "uncommitted"
    /\ debt' = [m \in Messages |-> IF m \in S THEN "owed" ELSE debt[m]]
    /\ UNCHANGED <<deliveries, errors>>

\* Only committed messages reach the transport.
Attempt(m, accepted, error) ==
    /\ debt[m] # "uncommitted"
    /\ accepted \/ error
    /\ deliveries' = [deliveries EXCEPT ![m] = @ + (IF accepted THEN 1 ELSE 0)]
    /\ errors' = errors \cup (IF error THEN {m} ELSE {})
    /\ UNCHANGED debt

Discharge(m) ==
    /\ debt[m] = "owed" /\ deliveries[m] > 0
    /\ debt' = [debt EXCEPT ![m] = "discharged"]
    /\ UNCHANGED <<deliveries, errors>>

WriteOff(m) ==
    /\ debt[m] = "owed" /\ m \in errors
    /\ debt' = [debt EXCEPT ![m] = "written off"]
    /\ UNCHANGED <<deliveries, errors>>

ContractNext ==
    \/ \E S \in SUBSET Messages : Owe(S)
    \/ \E m \in Messages :
        \/ \E accepted, error \in BOOLEAN : Attempt(m, accepted, error)
        \/ Discharge(m)
        \/ WriteOff(m)

ContractSpec == ContractInit /\ [][ContractNext]_contractVars
=============================================================================
