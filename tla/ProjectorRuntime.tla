-------------------------- MODULE ProjectorRuntime --------------------------
(***************************************************************************)
(* Replicas of a service that run its projectors over an ordered source:   *)
(* run_source, the projectors of a message one after the other, and for    *)
(* each of them the partition state, the disposition of the input, the     *)
(* handler over a snapshot, and the commit or the terminal failure.  Every *)
(* one of these is a transaction of its own.                               *)
(*                                                                         *)
(* The source is one of                                                    *)
(*   "Log"        the ordered log of the SQL buses: replicas share a       *)
(*                durable offset and read in order, ahead of it;           *)
(*   "Competing"  a JetStream durable: each message goes to one replica,   *)
(*                and to another when it is not acknowledged;              *)
(*   "Replay"     the in-memory bus: gap-free positions, and every         *)
(*                subscription starts with the first.                      *)
(***************************************************************************)
EXTENDS ProjectionStore, ReceiveLoop

CONSTANTS
    Workers,
    Sources,    \* records of a delivery and a feed, the sequence of its messages
    MaxFaults   \* bound on crashes, storage errors and retryable handler errors

\* Within an epoch the positions of a source rise.
ASSUME RuntimeAssumption ==
    /\ {s.delivery : s \in Sources} \subseteq {"Log", "Competing", "Replay"}
    /\ \A s \in Sources : \A n \in 1..Len(s.feed) :
          /\ s.feed[n].epoch \in Nat \ {0} /\ s.feed[n].position \in Nat
          /\ s.feed[n].projectors \in Seq(Projectors) /\ s.feed[n].projectors # <<>>
          /\ s.feed[n].key \in Keys
    /\ \A s \in Sources : \A a, b \in 1..Len(s.feed) :
          a < b /\ s.feed[a].epoch = s.feed[b].epoch => s.feed[a].position < s.feed[b].position
    /\ MaxFaults \in Nat

VARIABLES
    feed,      \* what was published; does not change
    delivery,  \* the kind of source; does not change
    offset,    \* what the group ("Log") or a subscription ("Replay") is past
    acked,     \* messages a JetStream durable is done with
    sent,      \* how far into the feed a JetStream durable has been
    worker,
    faults

source == <<feed, delivery, offset, acked, sent>>
vars == <<store, source, worker, faults>>

Feed == 1..Len(feed)

\* The projectors of a message, in the order they are dispatched.
Chain(n) == feed[n].projectors
Group == "group"

Idle == [at |-> "Stopped", message |-> 0, stage |-> 0, generation |-> 0,
         mutation |-> NoMutation, verdict |-> "Ok", ahead |-> 0]

Init ==
    /\ StoreInit
    /\ \E s \in Sources : feed = s.feed /\ delivery = s.delivery
    /\ offset = [x \in Workers \cup {Group} |-> 0]
    /\ acked = {} /\ sent = 0
    /\ worker = [w \in Workers |-> Idle]
    /\ faults = 0

-----------------------------------------------------------------------------
(* Receiving.                                                              *)

\* Which offset row a worker reads from.
OffsetOf(w) == IF delivery = "Replay" THEN w ELSE Group

\* The messages recv may hand out: past the offset, or the next one of the
\* read-ahead; of a durable, those not acknowledged, the first time in order.
Deliverable(w) ==
    IF delivery = "Competing"
    THEN {n \in Feed \ acked : n <= sent + 1}
    ELSE {n \in Feed : \/ n = offset[OffsetOf(w)] + 1
                       \/ worker[w].ahead > 0 /\ n = worker[w].ahead + 1}

Recv(w, n) ==
    /\ worker[w].at = "Recv"
    /\ n \in Deliverable(w)
    /\ worker' = [worker EXCEPT ![w] = [@ EXCEPT !.at = "State", !.message = n, !.stage = 1]]
    /\ sent' = IF delivery = "Competing" /\ n > sent THEN n ELSE sent
    /\ UNCHANGED <<store, feed, delivery, offset, acked, faults>>

Start(w) ==
    /\ worker[w].at = "Stopped"
    /\ worker' = [worker EXCEPT ![w].at = "Recv"]
    /\ offset' = IF delivery = "Replay" THEN [offset EXCEPT ![w] = 0] ELSE offset
    /\ UNCHANGED <<store, feed, delivery, acked, sent, faults>>

-----------------------------------------------------------------------------
(* Dispatching: RegisteredProjector::dispatch, for each projector.         *)

\* The projector that is at work.
Current(w) == Chain(worker[w].message)[worker[w].stage]

\* The trusted input of the message a worker holds.
Input(w) ==
    LET e == feed[worker[w].message]
    IN  [projector |-> Current(w), generation |-> worker[w].generation,
         cursor |-> [epoch |-> e.epoch, position |-> e.position], message |-> e.message,
         causation |-> e.causation, gapFree |-> delivery = "Replay"]

Goto(w, at) == worker' = [worker EXCEPT ![w].at = at]

EndDispatch(w, verdict) ==
    worker' = [worker EXCEPT ![w] = [@ EXCEPT !.at = "Settle", !.verdict = verdict,
                                              !.generation = 0, !.mutation = NoMutation]]

\* The projector is done with the message: on to the next one.
NextProjector(w) ==
    IF worker[w].stage = Len(Chain(worker[w].message)) THEN EndDispatch(w, "Ok")
    ELSE worker' = [worker EXCEPT ![w] = [@ EXCEPT !.at = "State",
                                                   !.stage = worker[w].stage + 1,
                                                   !.generation = 0, !.mutation = NoMutation]]

\* preflight_runtime_state.
ReadState(w) ==
    LET p == partition[Current(w)]
    IN  /\ worker[w].at = "State"
        /\ IF p.stopped # NoFailure \/ ~AllowedByRetry(Input(w))
           THEN EndDispatch(w, "Retain")
           ELSE worker' = [worker EXCEPT ![w] = [@ EXCEPT !.at = "Disposition",
                                                          !.generation = p.generation]]
        /\ UNCHANGED <<store, source, faults>>

\* projection_error_is_retryable, of the errors a verdict stands for.
RetryableErrors == {"GenerationFenced", "RecordRevisionConflict"}

CheckDisposition(w) ==
    LET v == Disposition(Input(w))
    IN  /\ worker[w].at = "Disposition"
        /\ \/ v = "New" /\ Goto(w, "Handle")
           \/ v \in {"Duplicate", "Stale"} /\ NextProjector(w)
           \/ v \in RetryableErrors /\ EndDispatch(w, "Retryable")
           \/ v \notin RetryableErrors \cup {"New", "Duplicate", "Stale"}
              /\ EndDispatch(w, "Retain")
        /\ UNCHANGED <<store, source, faults>>

\* What the handler of an event stages, with the snapshot of its row: put creates
\* or saves, delete deletes, revive recreates across a tombstone, and skip
\* stages nothing.
Staged(t, e) ==
    LET r == records[t][e.key]
        row == rows[t][e.key]
        written == IF row = NoRow THEN <<e.message>> ELSE Append(row, e.message)
    IN  IF e.op = "Skip" THEN NoMutation
        ELSE IF r = NoRecord
        THEN [key |-> e.key, kind |-> "Upsert", expected |-> Missing, row |-> written]
        ELSE IF r.tombstone
        THEN [key |-> e.key, kind |-> "Recreate", expected |-> Revision(r), row |-> written]
        ELSE [key |-> e.key, kind |-> IF e.op = "Delete" THEN "Delete" ELSE "Upsert",
              expected |-> Revision(r), row |-> IF e.op = "Delete" THEN NoRow ELSE written]

\* load and project fail closed on a tombstone.
FailsClosed(t, e) == records[t][e.key].tombstone /\ e.op \notin {"Revive", "Skip"}

\* NotFound is retryable: "usually an out-of-order delivery race".
NotFound(t, e) == records[t][e.key] = NoRecord /\ e.op = "Delete"

\* A release whose handler rejects an input is replaced before the last repair.
Handle(w) ==
    LET t == Current(w)
        e == feed[worker[w].message]
    IN  /\ worker[w].at = "Handle"
        /\ \/ /\ NotFound(t, e)
              /\ EndDispatch(w, "Retryable")
           \/ /\ ~FailsClosed(t, e) /\ ~NotFound(t, e)
              /\ worker' = [worker EXCEPT ![w] = [@ EXCEPT !.at = "Commit",
                                                           !.mutation = Staged(t, e)]]
           \/ /\ FailsClosed(t, e) \/ worker[w].generation < MaxGeneration
              /\ Goto(w, "Fail")
        /\ UNCHANGED <<store, source, faults>>

Commit(w) ==
    LET v == CommitVerdict(Input(w), worker[w].mutation)
    IN  /\ worker[w].at = "Commit"
        /\ commit_projection(Input(w), worker[w].mutation)
        /\ \/ v \in {"Applied", "Duplicate", "Stale"} /\ NextProjector(w)
           \/ v = "PartitionStopped" /\ EndDispatch(w, "Retain")
           \/ v \in RetryableErrors /\ EndDispatch(w, "Retryable")
           \/ v \notin RetryableErrors
                   \cup {"Applied", "Duplicate", "Stale", "PartitionStopped"}
              /\ Goto(w, "Fail")
        /\ UNCHANGED <<source, faults>>

\* record_terminal_failure.  An error that leaves no durable record halts the
\* delivery (ProjectionDeliveryHalted), unless it is retryable.
RecordFailure(w) ==
    /\ worker[w].at = "Fail"
    /\ record_projection_failure(Input(w))
    /\ IF FailureVerdict(Input(w)) \in RetryableErrors THEN EndDispatch(w, "Retryable")
       ELSE EndDispatch(w, "Retain")
    /\ UNCHANGED <<source, faults>>

-----------------------------------------------------------------------------
(* Settling, and faults.                                                   *)

\* advance_offset for the SQL log and for the in-memory cursors.
Forwards(w) ==
    LET n == worker[w].message
        o == OffsetOf(w)
    IN  IF delivery = "Competing"
        THEN acked' = acked \cup {n} /\ UNCHANGED offset
        ELSE /\ offset' = [offset EXCEPT ![o] = IF n > @ THEN n ELSE @]
             /\ UNCHANGED acked

Settle(w) ==
    LET s == Settlement(worker[w].verdict)
    IN  /\ worker[w].at = "Settle"
        /\ \/ /\ s \in Forward
              /\ Forwards(w)
              /\ worker' = [worker EXCEPT ![w] = [Idle EXCEPT !.at = "Recv",
                                                              !.ahead = worker[w].message]]
           \/ /\ s = "Nack"
              /\ worker' = [worker EXCEPT ![w] = [Idle EXCEPT !.at = "Recv"]]
              /\ UNCHANGED <<offset, acked>>
           \/ /\ s = "NackAndStop"
              /\ worker' = [worker EXCEPT ![w] = Idle]
              /\ UNCHANGED <<offset, acked>>
        /\ UNCHANGED <<store, feed, delivery, sent, faults>>

\* A database error in one of the transactions, or a handler that asks for a retry.
RetryableFault(w) ==
    /\ faults < MaxFaults
    /\ worker[w].at \in {"State", "Disposition", "Handle", "Commit", "Fail"}
    /\ EndDispatch(w, "Retryable")
    /\ faults' = faults + 1
    /\ UNCHANGED <<store, source>>

Crash(w) ==
    /\ faults < MaxFaults
    /\ worker[w].at # "Stopped"
    /\ worker' = [worker EXCEPT ![w] = Idle]
    /\ faults' = faults + 1
    /\ UNCHANGED <<store, source>>

Repair(t) ==
    /\ repair_projection(t)
    /\ UNCHANGED <<source, worker, faults>>

-----------------------------------------------------------------------------
Work(w) ==
    \/ Start(w)
    \/ \E n \in Feed : Recv(w, n)
    \/ ReadState(w)
    \/ CheckDisposition(w)
    \/ Handle(w)
    \/ Commit(w)
    \/ RecordFailure(w)
    \/ Settle(w)

Next ==
    \/ \E w \in Workers : Work(w) \/ RetryableFault(w) \/ Crash(w)
    \/ \E t \in Projectors : Repair(t)

Spec == Init /\ [][Next]_vars

\* Supervisors restart workers, transactions end, and operators repair.  Fairness
\* is assumed where something is said to happen in the end: over the SQL log.
FairSpec ==
    /\ Spec
    /\ \A w \in Workers : WF_vars(delivery = "Log" /\ Work(w))
    /\ \A t \in Projectors : WF_vars(delivery = "Log" /\ Repair(t))

-----------------------------------------------------------------------------
\* No projector applies a message twice: not when two replicas hold it at once,
\* not when a commit was not acknowledged, and not in the generation a repair
\* opens, which has receipts of its own.
AppliedOnce ==
    \A t \in Projectors : \A a, b \in 1..Len(applied[t]) :
        applied[t][a].message = applied[t][b].message => a = b

\* Nothing crosses a recorded failure: inputs after one that failed are applied
\* only when that one has been.
FailureIsNotCrossed ==
    \A t \in Projectors : \A f \in failures[t], b \in 1..Len(applied[t]) :
        /\ f.cursor.epoch = applied[t][b].cursor.epoch
        /\ f.cursor.position < applied[t][b].cursor.position
        => \E a \in 1..(b - 1) : SameInput(applied[t][a], f)

\* The event of an input.
EventOf(f, x) ==
    CHOOSE e \in {f[n] : n \in 1..Len(f)} :
        e.message = x.message /\ [epoch |-> e.epoch, position |-> e.position] = x.cursor

\* What an event makes of a row of key k and of the record beside it.
Replay(v, e, k) ==
    LET kind == IF v.record.tombstone THEN "Recreate"
                ELSE IF e.op = "Delete" THEN "Delete" ELSE "Upsert"
    IN  IF e.key # k \/ e.op = "Skip" THEN v
        ELSE [row |-> IF e.op = "Delete" THEN NoRow
                      ELSE IF v.row = NoRow THEN <<e.message>>
                      ELSE Append(v.row, e.message),
              record |-> next_record(v.record, [kind |-> kind, expected |-> Revision(v.record)])]

\* What inputs of a feed make of it, one after the other.
Replayed(f, inputs, k) ==
    LET after[n \in 0..Len(inputs)] ==
            IF n = 0 THEN [row |-> NoRow, record |-> NoRecord]
            ELSE Replay(after[n - 1], EventOf(f, inputs[n]), k)
    IN  after[Len(inputs)]

\* A row is what the applied inputs make of it, and so is its revision: a handler
\* that read its snapshot before another commit never overwrites what that commit
\* wrote.
NoLostUpdate ==
    \A t \in Projectors, k \in Keys :
        Replayed(feed, applied[t], k) = [row |-> rows[t][k], record |-> records[t][k]]

Projects(t, n) == \E s \in 1..Len(Chain(n)) : Chain(n)[s] = t

Applied(t, n) == \E a \in 1..Len(applied[t]) : applied[t][a].message = feed[n].message

\* A message is acknowledged only when every projector has applied it: "when the
\* adapter may acknowledge receipt.  Only after ... the handler's aggregate /
\* read-model / outbox writes committed".
AcknowledgedIsApplied ==
    \A t \in Projectors, n \in Feed :
        Projects(t, n) /\ (n \in acked \/ n <= offset[Group]) => Applied(t, n)

\* The replicas that read the SQL log in order keep that promise.
LogAcknowledgedIsApplied == delivery = "Log" => AcknowledgedIsApplied

\* A feed no projector can get through: positions that start again in another
\* epoch, or an id that was used before.
WellFormed ==
    \A a, b \in Feed : feed[a].epoch = feed[b].epoch /\ (feed[a].message = feed[b].message => a = b)

\* Over the SQL log every message reaches every projector, through failures,
\* repairs, crashes and restarts.
EventuallyApplied ==
    \A t \in Projectors :
        delivery = "Log" /\ WellFormed ~> \A n \in Feed : Projects(t, n) => Applied(t, n)

\* The inputs a source may carry.
Inputs ==
    UNION {{[cursor |-> [epoch |-> s.feed[n].epoch, position |-> s.feed[n].position],
             message |-> s.feed[n].message] : n \in 1..Len(s.feed)} : s \in Sources}

\* Where a projector stands, as the contract has it.
Held ==
    [t \in Projectors |->
        LET p == partition[t]
            Of(f) == [cursor |-> f.cursor, message |-> f.message]
        IN  IF p.stopped # NoFailure THEN [at |-> "Stopped", input |-> Of(p.stopped)]
            ELSE IF p.pending # NoFailure THEN [at |-> "Reopened", input |-> Of(p.pending)]
            ELSE [at |-> "Free"]]

Contract == INSTANCE ProjectionContract WITH taken <- applied, held <- Held

\* Replicas, redeliveries, faults and repairs together never do more than the
\* contract allows: every transaction that changes what a projector has applied
\* or where it stands is a step of it.
ImplementsContract == Contract!Spec
=============================================================================
