------------------------------ MODULE LeaseLock -----------------------------
(***************************************************************************)
(* The lock of one stream: a gate for the tasks of a process, and behind   *)
(* it a lease in the database, which only the task that has passed the     *)
(* gate asks for.  The lease names its owner by a token made for the       *)
(* acquisition, and anyone may take it once it has expired.                *)
(*                                                                         *)
(* A row that has expired counts as no row: ACQUIRE_SQL overwrites the one *)
(* where it inserts the other, and sweep_expired deletes it.               *)
(***************************************************************************)
EXTENDS Naturals

CONSTANTS Processes, Streams

VARIABLES
    gate,   \* the gate of each process and stream is locked
    slot,   \* the token of the lease a process holds (LockShared.token)
    lease,  \* aggregate_locks: the owner of each row that has not expired
    late    \* releases that were sent and may still be carried out

locks == <<gate, slot, lease, late>>

NoToken == <<>>

LockInit ==
    /\ gate = [p \in Processes |-> [k \in Streams |-> FALSE]]
    /\ slot = [p \in Processes |-> [k \in Streams |-> NoToken]]
    /\ lease = [k \in Streams |-> NoToken]
    /\ late = {}

\* lease_lock, first half: the gate.
EnterGate(p, k) ==
    /\ ~gate[p][k]
    /\ gate' = [gate EXCEPT ![p][k] = TRUE]
    /\ UNCHANGED <<slot, lease, late>>

\* The condition of ACQUIRE_SQL.
Acquirable(k, token) == lease[k] \in {NoToken, token}

\* lease_lock, second half: an attempt that wins.
db_acquire(p, k, token) ==
    /\ Acquirable(k, token)
    /\ lease' = [lease EXCEPT ![k] = token]
    /\ slot' = [slot EXCEPT ![p][k] = token]
    /\ UNCHANGED <<gate, late>>

\* The attempt ends with an error, after the row was written or before: GateGuard
\* opens the gate again.
AcquireError(p, k, token) ==
    /\ gate' = [gate EXCEPT ![p][k] = FALSE]
    /\ \/ UNCHANGED lease
       \/ Acquirable(k, token) /\ lease' = [lease EXCEPT ![k] = token]
    /\ UNCHANGED <<slot, late>>

\* Faulty variant: whoever owns the lease loses it.
ReleasedUnscoped(k, token) == [lease EXCEPT ![k] = NoToken]

\* RELEASE_SQL.
Released(k, token) == [lease EXCEPT ![k] = IF @ = token THEN NoToken ELSE @]

\* lease_unlock, up to the release: it asks for no owner.  It takes whatever token the
\* process has stored, and deletes the row of that token.
lease_unlock(p, k) ==
    /\ slot' = [slot EXCEPT ![p][k] = NoToken]
    /\ lease' = Released(k, slot[p][k])
    /\ UNCHANGED <<gate, late>>

\* The statement fails, or its answer is lost: it may be carried out later.
UnlockError(p, k) ==
    /\ slot[p][k] # NoToken
    /\ slot' = [slot EXCEPT ![p][k] = NoToken]
    /\ late' = late \cup {[stream |-> k, token |-> slot[p][k]]}
    /\ UNCHANGED <<gate, lease>>

\* The end of lease_unlock: GateGuard opens the gate, whoever has passed it.
OpenGate(p, k) ==
    /\ gate' = [gate EXCEPT ![p][k] = FALSE]
    /\ UNCHANGED <<slot, lease, late>>

LateRelease(r) ==
    /\ r \in late
    /\ lease' = Released(r.stream, r.token)
    /\ late' = late \ {r}
    /\ UNCHANGED <<gate, slot>>

\* The clock of the database passes expires_at; leases are not renewed.
Expire(k) ==
    /\ lease[k] # NoToken
    /\ lease' = [lease EXCEPT ![k] = NoToken]
    /\ UNCHANGED <<gate, slot, late>>

\* A process that dies takes its gates and slots with it, and leaves its leases.
LockCrash(p) ==
    /\ gate' = [gate EXCEPT ![p] = [k \in Streams |-> FALSE]]
    /\ slot' = [slot EXCEPT ![p] = [k \in Streams |-> NoToken]]
    /\ UNCHANGED <<lease, late>>
=============================================================================
