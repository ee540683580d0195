---------------------------- MODULE CommandLedger ----------------------------
(***************************************************************************)
(* The durable command ledger: one record per command id.  The record      *)
(* fences the attempts to execute the command and keeps the outcome of the *)
(* attempt that completed, for replay to later requests.                   *)
(*                                                                         *)
(* Deadlines are countdowns of one clock, that of the backend storing the  *)
(* record (clock_timestamp() in PostgreSQL).  The four successful states   *)
(* (succeeded, succeeded_pending_projection, atomic, projection_failed)    *)
(* are one state, Succeeded: every operation of the ledger treats them     *)
(* alike.  The causation id is fixed by the first reservation and never    *)
(* changes, so the comparisons with it always succeed and are left out.    *)
(***************************************************************************)
EXTENDS Naturals

CONSTANTS
    Commands,   \* command ids, each with its service and principal partition
    Inputs,     \* command name, contract fingerprint and input hash
    Dispatches, \* requests; each brings its own fresh attempt token
    None,       \* SQL NULL
    Lease,      \* attempt_lease, in ticks
    Retention   \* replay_retention, in ticks

\* CommandReservation::new refuses a retention that does not exceed the lease.
ASSUME LedgerAssumption ==
    /\ None \notin Dispatches
    /\ Lease \in Nat \ {0}
    /\ Retention \in Nat
    /\ Lease < Retention

VARIABLE ledger \* the command_ledger table

States == {"Vacant", "InProgress", "RetryableUnknown", "Succeeded", "Rejected", "Expired"}

is_replayable(state) == state \in {"Succeeded", "Rejected"}

\* The outcome stored for replay is named by the dispatch that produced it.
Record == [state : States, input : Inputs \cup {None}, attempt : Nat,
           token : Dispatches \cup {None}, lease : 0..Lease,
           retention : 0..Retention, outcome : Dispatches \cup {None}]

\* The absence of a row.
Vacant == [state |-> "Vacant", input |-> None, attempt |-> 0, token |-> None,
           lease |-> 0, retention |-> 0, outcome |-> None]

LedgerInit == ledger = [c \in Commands |-> Vacant]

-----------------------------------------------------------------------------
(* What a reservation, a fence and a lookup make of a record.  An attempt  *)
(* is a record [command, input, token, number].                            *)

retention_due(r) == r.state # "Vacant" /\ r.retention = 0

\* Faulty variant: a finished command past its retention is run again.
ClassifyForgets(r, i) ==
    CASE r.state = "Vacant" -> "Initial"
      [] r.state = "Expired" -> "Expire"
      [] r.state \notin {"Vacant", "Expired"} /\ r.input # i -> "Conflict"
      [] r.state = "InProgress" /\ r.input = i /\ r.lease > 0 -> "InProgress"
      [] is_replayable(r.state) /\ r.input = i /\ r.retention > 0 -> "Replay"
      [] OTHER -> "Reclaim"

\* Faulty variant: the name, contract and input of the reservation are not
\* compared with those of the record.
ClassifyAnyInput(r, i) ==
    CASE r.state = "Vacant" -> "Initial"
      [] r.state = "Expired" \/ retention_due(r) -> "Expire"
      [] is_replayable(r.state) /\ r.retention > 0 -> "Replay"
      [] r.state = "InProgress" /\ r.retention > 0 /\ r.lease > 0 -> "InProgress"
      [] OTHER -> "Reclaim"

\* The first case that applies, in the order of the code's early returns.
classify_reservation(r, i) ==
    IF r.state = "Vacant" THEN "Initial"
    ELSE IF r.state = "Expired" \/ retention_due(r) THEN "Expire"
    ELSE IF r.input # i THEN "Conflict"
    ELSE IF r.state = "InProgress" /\ r.lease > 0 THEN "InProgress"
    ELSE IF is_replayable(r.state) THEN "Replay"
    ELSE "Reclaim"

matches_fence(a) ==
    LET r == ledger[a.command]
    IN  /\ r.state = "InProgress"
        /\ r.input = a.input
        /\ r.token = a.token
        /\ r.attempt = a.number

\* Faulty variant: a live lease is enough, whoever holds it.
LeaseIsLive(a) == ledger[a.command].state = "InProgress" /\ ledger[a.command].lease > 0

validate_live_attempt(a) == matches_fence(a) /\ ledger[a.command].lease > 0

matches_lookup_scope(a) ==
    LET r == ledger[a.command]
    IN  /\ r.input = a.input
        /\ r.attempt = a.number
        /\ r.token \in {None, a.token}

\* lookup_command in the scope of an attempt.
lookup(a) ==
    IF ~matches_lookup_scope(a) THEN "Unknown"
    ELSE IF retention_due(ledger[a.command]) THEN "Expired"
    ELSE ledger[a.command].state

-----------------------------------------------------------------------------
(* The transitions of a record.                                            *)

initial(p, i) ==
    [state |-> "InProgress", input |-> i, attempt |-> 1, token |-> p,
     lease |-> Lease, retention |-> Retention, outcome |-> None]

reclaim(r, p) ==
    [r EXCEPT !.state = "InProgress", !.attempt = @ + 1, !.token = p,
              !.lease = Lease, !.retention = Retention]

\* Faulty variant: compaction removes the row.
ExpireDeletes(r) == Vacant

expire(r) ==
    [r EXCEPT !.state = "Expired", !.token = None, !.lease = 0, !.outcome = None]

unknown(r) ==
    [r EXCEPT !.state = "RetryableUnknown", !.token = None, !.lease = 0]

\* The deadline is the retention from now, or, for a command with modelled
\* projections, the still live deadline minted with its metadata.
complete(r, state, p, deadline) ==
    [r EXCEPT !.state = state, !.token = None, !.lease = 0, !.outcome = p,
              !.retention = deadline]

-----------------------------------------------------------------------------
(* The operations that change the table.                                   *)

expire_if_due(c) ==
    ledger' = IF retention_due(ledger[c])
              THEN [ledger EXCEPT ![c] = expire(@)] ELSE ledger

\* Faulty variant: the update is not fenced by the attempt.
MarkUnfenced(a) == ledger' = [ledger EXCEPT ![a.command] = unknown(@)]

mark_retryable_unknown(a) ==
    ledger' = IF matches_fence(a)
              THEN [ledger EXCEPT ![a.command] = unknown(@)] ELSE ledger

\* compact_expired_commands with a limit of one row.
compact_expired(c) ==
    /\ retention_due(ledger[c])
    /\ ledger[c].state # "Expired"
    /\ ledger' = [ledger EXCEPT ![c] = expire(@)]

\* One unit of time passes.
Older(r) ==
    [r EXCEPT !.lease = IF @ > 0 THEN @ - 1 ELSE 0,
              !.retention = IF @ > 0 THEN @ - 1 ELSE 0]

Tick == ledger' = [c \in Commands |-> Older(ledger[c])]
=============================================================================
