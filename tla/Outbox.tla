------------------------------- MODULE Outbox -------------------------------
(***************************************************************************)
(* The transactional outbox: durable rows, the claim/settle store that     *)
(* every backend implements, and the dispatch passes that publish claimed  *)
(* rows to the transport and settle them.                                  *)
(*                                                                         *)
(* A dispatcher is one running pass of publish_and_settle: a polling drain *)
(* worker, an after-commit dispatch_ids, or a fallback publish hook.  Its  *)
(* worker id need not be unique: drain_worker_id() is "drain:<pid>", which *)
(* two containers share.                                                   *)
(*                                                                         *)
(* Time is one clock.  A row's lease is the number of ticks left before    *)
(* leased_until <= now, so no bound on time is needed.                     *)
(***************************************************************************)
EXTENDS Naturals, FiniteSets

CONSTANTS
    Messages,           \* message ids, numbered in claim order: (created_at, id)
    Dispatchers,        \* dispatch passes that may run concurrently
    WorkerIds,          \* values of worker_id
    NoWorker,           \* claimed_by IS NULL; holder of a row never claimed
    WorkerId,           \* the worker_id each dispatcher claims under
    Lease,              \* length of a claim lease, in ticks
    BatchSize,          \* rows of one dispatch_batch claim
    MaxAttempts,        \* max_attempts of the dispatcher
    PublishConcurrency, \* publish_concurrency of the dispatcher
    ClaimReturnsSorted, \* does a poll return its rows in claim order?
    MaxDisruptions      \* bound: crashes, and leases that outrun a live pass

ASSUME OutboxAssumption ==
    /\ Messages \subseteq Nat
    /\ IsFiniteSet(Dispatchers)
    /\ NoWorker \notin WorkerIds
    /\ WorkerId \in [Dispatchers -> WorkerIds]
    /\ Lease \in Nat \ {0}
    /\ BatchSize \in Nat \ {0}
    /\ MaxAttempts \in Nat
    /\ PublishConcurrency \in Nat \ {0}
    /\ ClaimReturnsSorted \in BOOLEAN
    /\ MaxDisruptions \in Nat

VARIABLES
    row,            \* the outbox_messages table
    pass,           \* local state of each dispatcher's publish_and_settle
    delivered,      \* history: how often the transport accepted the message
    refused,        \* history: the messages a publish of which returned an error
    holder,         \* history: the dispatcher of the row's latest claim
    disruptions     \* disruptions so far

vars == <<row, pass, delivered, refused, holder, disruptions>>

Statuses == {"Absent", "Pending", "InFlight", "Published", "Failed"}

Row == [status : Statuses, worker : WorkerIds \cup {NoWorker},
        lease : 0..Lease, attempts : Nat]

\* polled: the rows were claimed by a poll, and not by id or by their commit.
Pass == [polled : BOOLEAN, todo : SUBSET Messages, published : SUBSET Messages,
         failed : SUBSET Messages, attempt : [Messages -> Nat]]

NoPass == [polled |-> FALSE, todo |-> {}, published |-> {}, failed |-> {},
           attempt |-> [m \in Messages |-> 0]]

Idle(d) == pass[d] = NoPass

Init ==
    /\ row = [m \in Messages |-> [status |-> "Absent", worker |-> NoWorker,
                                  lease |-> 0, attempts |-> 0]]
    /\ pass = [d \in Dispatchers |-> NoPass]
    /\ delivered = [m \in Messages |-> 0]
    /\ refused = {}
    /\ holder = [m \in Messages |-> NoWorker]
    /\ disruptions = 0

-----------------------------------------------------------------------------
(* Row predicates and transitions (outbox/message.rs, store/api.rs).       *)

has_expired_lease_at(m) == row[m].status = "InFlight" /\ row[m].lease = 0

is_claimable_at(m) == row[m].status = "Pending" \/ has_expired_lease_at(m)

\* Faulty variant: the claim is recognised by its worker id alone.
ClaimWithoutAttempt(d, m) ==
    /\ row[m].status = "InFlight"
    /\ row[m].worker = WorkerId[d]
    /\ ~has_expired_lease_at(m)

\* The claim (d, m) still owns the row.
ensure_active_claim(d, m) ==
    /\ row[m].status = "InFlight"
    /\ row[m].worker = WorkerId[d]
    /\ row[m].attempts = pass[d].attempt[m]
    /\ ~has_expired_lease_at(m)

Settled(m, status) ==
    [row EXCEPT ![m].status = status, ![m].worker = NoWorker, ![m].lease = 0]

\* The oldest n rows of S.
Oldest(S, n) == {m \in S : Cardinality({k \in S : k < m}) < n}

\* Rows of S, a part of pass d, whose publish (or settle) may come next.  Of the
\* rows of a sorted poll the oldest PublishConcurrency are in flight.  A poll that
\* is not sorted may have put any of them first; a claim by id follows the order
\* of the ids, and the rows of a publish hook that in which they were staged.
Upcoming(d, S) ==
    IF pass[d].polled /\ ClaimReturnsSorted THEN Oldest(S, PublishConcurrency) ELSE S

-----------------------------------------------------------------------------
(* Producers.                                                              *)

\* A committed transaction inserts its outbox rows, still pending.
CommitPending(S) ==
    /\ \A m \in S : row[m].status = "Absent"
    /\ row' = [m \in Messages |-> IF m \in S
                                  THEN [row[m] EXCEPT !.status = "Pending"]
                                  ELSE row[m]]
    /\ UNCHANGED <<pass, delivered, refused, holder, disruptions>>

StartPass(d, S, polled, attempts) ==
    [pass EXCEPT ![d] = [polled |-> polled, todo |-> S, published |-> {}, failed |-> {},
        attempt |-> [m \in Messages |-> IF m \in S THEN attempts[m] ELSE 0]]]

\* Without a mailbox the commit inserts rows its publish hook already claimed;
\* part of the lease may have run out before the insert is visible.
CommitClaimed(d, S, left) ==
    /\ Idle(d)
    /\ \A m \in S : row[m].status = "Absent"
    /\ row' = [m \in Messages |-> IF m \in S
                THEN [status |-> "InFlight", worker |-> WorkerId[d],
                      lease |-> left, attempts |-> 1]
                ELSE row[m]]
    /\ pass' = StartPass(d, S, FALSE, [m \in Messages |-> 1])
    /\ holder' = [m \in Messages |-> IF m \in S THEN d ELSE holder[m]]
    /\ UNCHANGED <<delivered, refused, disruptions>>

-----------------------------------------------------------------------------
(* Claims.                                                                 *)

\* Faulty variant: reclaiming a row does not count as an attempt.
ClaimKeepsAttempts(d, S, polled) ==
    /\ Idle(d)
    /\ S # {}
    /\ row' = [m \in Messages |-> IF m \in S
                THEN [status |-> "InFlight", worker |-> WorkerId[d],
                      lease |-> Lease, attempts |-> row[m].attempts]
                ELSE row[m]]
    /\ pass' = StartPass(d, S, polled, [m \in Messages |-> row[m].attempts])
    /\ holder' = [m \in Messages |-> IF m \in S THEN d ELSE holder[m]]
    /\ UNCHANGED <<delivered, refused, disruptions>>

\* Dispatcher d claims exactly the rows S in one transaction.
claim(d, S, polled) ==
    /\ Idle(d)
    /\ S # {}
    /\ row' = [m \in Messages |-> IF m \in S
                THEN [status |-> "InFlight", worker |-> WorkerId[d],
                      lease |-> Lease, attempts |-> row[m].attempts + 1]
                ELSE row[m]]
    /\ pass' = StartPass(d, S, polled, [m \in Messages |-> row[m].attempts + 1])
    /\ holder' = [m \in Messages |-> IF m \in S THEN d ELSE holder[m]]
    /\ UNCHANGED <<delivered, refused, disruptions>>

Claimable == {m \in Messages : is_claimable_at(m)}

\* Polling: the oldest claimable rows.
dispatch_batch(d) == claim(d, Oldest(Claimable, BatchSize), TRUE)

\* After-commit dispatch of explicit ids; raced ids are skipped.
dispatch_ids(d, ids) == claim(d, Claimable \cap ids, FALSE)

-----------------------------------------------------------------------------
(* The publish phase of publish_and_settle.                                *)

PublishOk(d, m) ==
    /\ m \in Upcoming(d, pass[d].todo)
    /\ delivered' = [delivered EXCEPT ![m] = @ + 1]
    /\ pass' = [pass EXCEPT ![d].todo = @ \ {m}, ![d].published = @ \cup {m}]
    /\ UNCHANGED <<row, refused, holder, disruptions>>

\* Faulty variant: a failed publish is settled like a successful one.
PublishErrAsOk(d, m, accepted) ==
    /\ m \in Upcoming(d, pass[d].todo)
    /\ delivered' = [delivered EXCEPT ![m] = @ + (IF accepted THEN 1 ELSE 0)]
    /\ refused' = refused \cup {m}
    /\ pass' = [pass EXCEPT ![d].todo = @ \ {m}, ![d].published = @ \cup {m}]
    /\ UNCHANGED <<row, holder, disruptions>>

\* A publish error is ambiguous: the transport may have accepted the message.
PublishErr(d, m, accepted) ==
    /\ m \in Upcoming(d, pass[d].todo)
    /\ delivered' = [delivered EXCEPT ![m] = @ + (IF accepted THEN 1 ELSE 0)]
    /\ refused' = refused \cup {m}
    /\ pass' = [pass EXCEPT ![d].todo = @ \ {m}, ![d].failed = @ \cup {m}]
    /\ UNCHANGED <<row, holder, disruptions>>

-----------------------------------------------------------------------------
(* The settle phase: failures one by one, then the successes.  A claim that *)
(* no longer owns its row is a store error, which ends the pass and drops   *)
(* what it had left to settle.                                              *)

\* Faulty variant: the ceiling is compared with the next attempt.
FailureStatusEarly(d, m) ==
    IF pass[d].attempt[m] + 1 >= MaxAttempts THEN "Failed" ELSE "Pending"

FailureStatus(d, m) ==
    IF pass[d].attempt[m] >= MaxAttempts THEN "Failed" ELSE "Pending"

\* What is left of the pass when m is settled.
Without(d, m) ==
    LET failed == pass[d].failed \ {m}
        published == pass[d].published \ {m}
    IN  IF failed \cup published = {} THEN NoPass
        ELSE [pass[d] EXCEPT !.failed = failed, !.published = published, !.attempt[m] = 0]

record_failure(d, m) ==
    /\ pass[d].todo = {}
    /\ m \in Upcoming(d, pass[d].failed)
    /\ \/ /\ ensure_active_claim(d, m)
          /\ row' = Settled(m, FailureStatus(d, m))
          /\ pass' = [pass EXCEPT ![d] = Without(d, m)]
       \/ /\ ~ensure_active_claim(d, m)
          /\ pass' = [pass EXCEPT ![d] = NoPass]
          /\ UNCHANGED row
    /\ UNCHANGED <<delivered, refused, holder, disruptions>>

complete(d, m) ==
    /\ pass[d].todo = {}
    /\ pass[d].failed = {}
    /\ m \in Upcoming(d, pass[d].published)
    /\ \/ /\ ensure_active_claim(d, m)
          /\ row' = Settled(m, "Published")
          /\ pass' = [pass EXCEPT ![d] = Without(d, m)]
       \/ /\ ~ensure_active_claim(d, m)
          /\ pass' = [pass EXCEPT ![d] = NoPass]
          /\ UNCHANGED row
    /\ UNCHANGED <<delivered, refused, holder, disruptions>>

-----------------------------------------------------------------------------
(* The environment.                                                        *)

\* The process dies, or a storage error ends the claim or the pass: its local
\* state is gone, its claims stay in the table until their leases run out.
Abort(d) ==
    /\ disruptions < MaxDisruptions
    /\ disruptions' = disruptions + 1
    /\ pass' = [pass EXCEPT ![d] = NoPass]
    /\ UNCHANGED <<row, delivered, refused, holder>>

\* One tick of the clock.  A tick that expires a claim a pass still works on
\* means the pass outran its lease; such ticks count as disruptions.
OutrunsLease ==
    \E d \in Dispatchers, m \in Messages :
        ensure_active_claim(d, m) /\ row[m].lease = 1

Tick ==
    /\ \E m \in Messages : row[m].lease > 0
    /\ IF OutrunsLease
       THEN disruptions < MaxDisruptions /\ disruptions' = disruptions + 1
       ELSE UNCHANGED disruptions
    /\ row' = [m \in Messages |->
                [row[m] EXCEPT !.lease = IF @ > 0 THEN @ - 1 ELSE 0]]
    /\ UNCHANGED <<pass, delivered, refused, holder>>

-----------------------------------------------------------------------------
Publish(d) ==
    \E m \in Messages : \/ PublishOk(d, m)
                        \/ \E accepted \in BOOLEAN : PublishErr(d, m, accepted)

Settle(d) == \E m \in Messages : record_failure(d, m) \/ complete(d, m)

Dispatch(d) ==
    \/ dispatch_batch(d)
    \/ \E ids \in SUBSET Messages : dispatch_ids(d, ids)
    \/ Publish(d)
    \/ Settle(d)

Commit ==
    \E S \in SUBSET Messages \ {{}} :
        \/ CommitPending(S)
        \/ \E d \in Dispatchers, left \in 0..Lease : CommitClaimed(d, S, left)

Next ==
    \/ Commit
    \/ \E d \in Dispatchers : Dispatch(d) \/ Abort(d)
    \/ Tick

Spec == Init /\ [][Next]_vars

-----------------------------------------------------------------------------
\* Type invariant of the table, the passes and the history.
TypeOK ==
    /\ row \in [Messages -> Row]
    /\ pass \in [Dispatchers -> Pass]
    /\ delivered \in [Messages -> Nat]
    /\ refused \subseteq Messages
    /\ holder \in [Messages -> Dispatchers \cup {NoWorker}]
    /\ disruptions \in 0..MaxDisruptions

\* "A row is completed ONLY after the publish threshold": a row is Published
\* only when the transport accepted its message at least once, whatever
\* crashes, expired leases and reclaims lie between publish and complete.
PublishedWasDelivered ==
    \A m \in Messages : row[m].status = "Published" => delivered[m] > 0

\* A claim publishes its row at most once, so duplicates are bounded by the
\* number of claims (attempts), never by the number of passes that once held it.
OneDeliveryPerAttempt ==
    \A m \in Messages : delivered[m] <= row[m].attempts

\* record_failure parks a row as Failed only when some publish of it really
\* failed and the attempt ceiling was reached.
FailedOnlyAtCeiling ==
    \A m \in Messages :
        row[m].status = "Failed" => m \in refused /\ row[m].attempts >= MaxAttempts

Works(d, m) == m \in pass[d].todo \cup pass[d].published \cup pass[d].failed

\* Two passes never both own a row, even when they share a worker id: the
\* attempt number alone tells the newer claim from the superseded one.
ExclusiveClaim ==
    \A m \in Messages : \A d, e \in Dispatchers :
        /\ Works(d, m) /\ ensure_active_claim(d, m)
        /\ Works(e, m) /\ ensure_active_claim(e, m)
        => d = e

\* A row leaves InFlight only by a step of the dispatcher that claimed it last:
\* a stale pass never releases, fails or completes a row that was reclaimed.
SettledByItsHolder ==
    [][\A m \in Messages :
        row[m].status = "InFlight" /\ row'[m].status # "InFlight"
        => holder[m] \in Dispatchers /\ pass'[holder[m]] # pass[holder[m]]]_vars

\* Published and Failed rows are final: no late settle, retry or claim of a
\* stale pass touches them again.
TerminalRowsFrozen ==
    [][\A m \in Messages :
        row[m].status \in {"Published", "Failed"} => row'[m] = row[m]]_vars

\* "Defaults to `1`, which publishes strictly in claim (created-at) order": a pass
\* over the rows of one poll publishes none while an older one still waits.
PublishesInClaimOrder ==
    [][\A d \in Dispatchers : \A m \in pass[d].todo :
        pass[d].polled /\ m \notin pass'[d].todo
        => \A k \in pass'[d].todo : m < k]_vars

\* Every committed row is eventually published or failed: crashed claims are
\* reclaimed once their lease expires, and failures are retried to the ceiling.
EventuallySettled ==
    \A m \in Messages :
        row[m].status # "Absent" ~> row[m].status \in {"Published", "Failed"}
-----------------------------------------------------------------------------
(* The outbox implements its contract: claims and leases are hidden, a row *)
(* is a debt until it is Published (discharged) or Failed (written off).   *)

DebtOf(status) ==
    CASE status = "Absent" -> "uncommitted"
      [] status \in {"Pending", "InFlight"} -> "owed"
      [] status = "Published" -> "discharged"
      [] status = "Failed" -> "written off"

Contract == INSTANCE OutboxContract WITH
    debt <- [m \in Messages |-> DebtOf(row[m].status)],
    deliveries <- delivered,
    errors <- refused

\* The store, the dispatch passes and the crashes together do nothing that
\* at-least-once delivery with final verdicts does not allow.
ImplementsContract == Contract!ContractSpec
=============================================================================
