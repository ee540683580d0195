# TLA+ specifications of `distributed`

`distributed` is a Rust framework for event-sourced services: aggregates are
stored as event streams, commands are executed at most once under an id the
client chooses, events leave a service through a transactional outbox, travel
over a bus and are applied by projectors and handlers in other services, and
clients watch the rows that result.  What makes it correct is not in any one
function.  It is in what happens when a lease runs out while its holder still
works, when a `COMMIT` is sent and the answer never comes, when two replicas
share an offset, when a process dies between two steps.  These specifications
model those parts, check them with TLC on small instances, and prove the most
important properties with TLAPS for every size.

Paths below are relative to the repository; the core crate is under `src/`.

## The system and its parts

| part | state | operations | model |
|---|---|---|---|
| Outbox (`src/outbox`, `src/outbox_worker/store`, `outbox_dispatch.rs`) | table `outbox_messages`: status, worker, lease, attempts; the claims a pass holds in memory | insert with the commit, claim by batch or by id, publish, complete, release, fail | `Outbox`, `OutboxContract` |
| Drain loop (`src/outbox_worker/drain.rs`) | mailbox, wake permit, sleep, the ids being dispatched | try_submit, biased `select!`, coalesce, poll, back off, stop | `OutboxDrain` (composed with `Outbox`) |
| Command ledger (`src/command_ledger`) | table `command_ledger`: state, input, attempt, token, deadlines, receipt | reserve, reclaim, complete, mark unknown, look up, compact | `CommandLedger` |
| Causal dispatch (`src/microsvc/service/causal.rs`, `routes.rs`, `src/sqlx_repo/repo/commit.rs`) | the request in progress, its commit transaction, the stream version | reserve, load, decide, commit, resolve an ambiguous commit, status | `CausalDispatch` (over `CommandLedger`), `CommandContract` |
| Receive loop and failure policy (`src/bus/runner`, `failure_policy.rs`) | none of its own | verdict, policy, settlement | `ReceiveLoop` |
| SQL bus, ordered log (`src/bus/sql_bus_common.rs`, `postgres_bus.rs`, `sqlite_bus.rs`) | `bus_log`, `bus_log_identity`, `bus_offset`; read-ahead buffer of a subscriber | append, retry, subscribe, read, settle, reset | `SqlBusLog` |
| SQL bus, command queue (same files) | `bus_queue`: token and lease; read-ahead buffer of a listener | send, claim, settle by token, lease expiry | `SqlBusQueue` |
| Projection protocol store (`src/projection_protocol`, `src/sqlx_repo/projection_protocol`) | partitions, generations, input cursors, receipts, identities, failures, record revisions, observations, change log | disposition, commit, record a failure, repair, compact | `ProjectionStore`, `ProjectionContract` |
| Projector runtime (`src/microsvc/projector`, `service/routes.rs`) | replicas and the message each has in hand; offsets and acknowledgements of the source | preflight, disposition, handler, commit, failure, settle, restart | `ProjectorRuntime` (over `ProjectionStore` and `ReceiveLoop`) |
| Live queries (`src/graphql/subscribe.rs`, `protocol/`) | two broadcast channels, the task of each subscription, what each client was sent | announce, forward, wake, debounce, query, send, reconnect | `LiveQuery` (over `ProjectionStore`) |
| Locks (`src/lock`) | in-process gate, slot with a token, lease row | acquire, release, expire, late release | `LeaseLock` |
| Queued repository, snapshots, event store (`src/queued_repo`, `src/snapshot`, `src/sqlx_repo/repo`) | streams, snapshots, the tasks that load and commit | load one or several aggregates, commit, abort, causal commit | `QueuedRepository` (over `LeaseLock`) |
| Cell host, outbox source, consumer inbox, JavaScript replica | see "Not modelled" | | not modelled |
| Broker adapters, GraphQL compilation, projection and mutation expressions, macros, command-line tool, metrics | pure functions, generated code or other programs' state | | not modelled |

How they interact: a command arrives at causal dispatch, which commits events,
ledger receipt and outbox rows in one transaction; other writers load aggregates
through the queued repository, under locks, and append with the same version
check.  The commit hands the ids of its outbox rows to the drain loop of its
process; the drain loop claims rows, publishes them to the bus and settles them.
The bus delivers log entries to subscribed groups and queue rows to competing
listeners through the receive loop.  Projectors are such listeners: they apply
each entry to the rows they own under the projection protocol, and every commit
of theirs is announced to the live queries.  Every hand-over is at least once,
so every receiver has to recognise what it has seen.

### What is hard about it

- Claims outlive their leases: a pass, a listener, a lock holder or a command
  attempt keeps working on what somebody else has taken over, and may share its
  worker id with the other (`drain:<pid>` is the same in every container).
- Errors are ambiguous: a failed publish may have been delivered, a broken
  `COMMIT` may commit later, a release may be carried out when the lock has a
  new owner, a settlement may fail after the handler succeeded.
- Reads are old when they are used: rows are handed out long after they were
  claimed, snapshots are read before the lock is taken, a handler stages its
  write from rows another worker has changed since.
- Positions are taken in one order and committed in another.
- Replicas share one offset, one durable or one partition and settle the same
  entries.
- A projector that failed must go on with exactly the input it failed on,
  although its replicas are ahead and its source delivers what it likes.
- Hints and announcements are lossy and in memory, and compete with polling.
- Operators reset logs, restore one table without the others, and run two
  releases at once.

`PROJECT.json` lists these hazards one by one, with the line where each bites
and the properties that would show it going wrong.

## Modules

| module | role |
|---|---|
| `Outbox` | rows, claims, dispatch passes, crashes, clock |
| `OutboxContract` | what the outbox promises: at-least-once delivery with final verdicts |
| `OutboxDrain` | the drain loop as the process that takes the steps of `Outbox` |
| `CommandLedger` | the ledger row and its transitions, as operators on records |
| `CausalDispatch` | concurrent dispatches, their transactions, one stream |
| `CommandContract` | what dispatch promises: decided once, told only what was decided |
| `ReceiveLoop` | verdict, policy and settlement of one message |
| `SqlBusLog`, `SqlBusQueue` | the two tables of the SQL bus with publishers, subscribers, listeners |
| `ProjectionStore` | what one transaction of the projection store decides and writes |
| `ProjectionContract` | what the protocol promises of a projector: each input once, in order, never past a failure |
| `ProjectorRuntime` | replicas that drive the store from a source |
| `LiveQuery` | announcements, subscriptions and clients over the store's change log |
| `LeaseLock` | gate, slot and lease of a stream, as operators |
| `QueuedRepository` | tasks that load, commit and abort under those locks, with snapshots |
| `MC*` | small instances for TLC |
| `*Proofs` | theorems about the module they are named after |

Definitions keep the names of the functions they model (`claim`,
`classify_reservation`, `coalesce_hints`, `advance_offset`,
`commit_projection`...); `PROJECT.json` maps each to its lines.  A definition
introduced as a *faulty variant* is a plausible mistake in the definition that
follows it and is not used by the specification; it documents which mistake each
property excludes.

### Outbox

`row` is the table, `pass[d]` the local state of one `publish_and_settle`: rows
to publish, published, failed, the attempt number of each claim, and whether a poll
claimed them.
`delivered`, `refused` and `holder` are history.  A claim takes rows that are
pending or whose lease ran out and counts an attempt; `ensure_active_claim`
recognises a claim by worker id, attempt and live lease; failures are settled
one by one, then the successes; the first claim that is no longer active ends
the pass.  A lease is a countdown, so that time needs no bound.  `SKIP LOCKED`
needs no action of its own: a claim is one transaction, and skipping rows
another claim holds gives what claiming after it gives.  The deadline of a claim
made at commit time (`CommitClaimed`) may have partly run out before the insert
is visible.

A pass publishes its rows in the order in which it was given them, and that order
depends on where they come from (`Upcoming`).  A poll (`dispatch_batch`) of the
in-memory or the SQLite store returns them oldest first; with `ClaimReturnsSorted`
false, as on Postgres, it returns them in any order.  Explicit ids (`dispatch_ids`)
are in the caller's order on SQLite and in any order on Postgres, and the rows of a
publish hook, which are never claimed from the store, are in the order in which the
application staged them: for both the order is left open.

### Drain loop

`OutboxDrain` extends `Outbox` and replaces its scheduling: a claim happens only
where the loop is about to make one.  One poll of the biased `select!` looks for
a hint, then for the permit, then at the timer, in three steps, so that a hint
may arrive in between.  A sleep is zero, a poll interval or a backoff; one that
is not zero fires at any later time.  `Recycle` gives a settled message's number
to a new message, so that a small set of numbers stands for an endless supply.

### Command ledger and causal dispatch

The four successful states of the ledger are one here, because every operation
treats them alike; the causation id never changes after the first reservation.
A dispatch is a process with a program counter; its transaction (`tx`) is
separate and outlives it, so that a `COMMIT` can take effect after the
dispatcher lost its connection and resolved the outcome, or died.  A transaction
holds the lock of its ledger row from the preflight on; everything else that
touches the row waits for it.  The lease may run out at any time in between.

### SQL bus

`SqlBusLog`: an append locks the identity row and takes a position
(`AppendBegin`), then commits or aborts; Postgres leaves a gap when it aborts,
SQLite takes the position back.  `recv` verifies the epoch and reads the log in
two transactions (`Recv`, `log_read`).  `Reset` starts a new epoch at position
one.  A deployment may lose the tail of the log, or the identity row; the
documentation asks for the tables to be backed up as a unit, so never both.
Operators configure no epoch, the latest, or one never used.
`SqlBusQueue`: a random claim token is one that nobody holds for that row;
leases run out row by row at any time, and an overrun lease or a lost settlement
is counted as the excuse for handling a command again.

### Projection protocol and projector runtime

`ProjectionStore` has the tables as variables, for one topology and partition
per projector, and one operator per transaction.  The order of the checks is the
code's: identity, generation and stop, receipts, cursor, retry fence, and only
then the revision of the record.  A row is the sequence of the messages that
wrote it, so that a lost or repeated write shows.  A batch has at most one
mutation; ingress partitions are projectors like others.

`ProjectorRuntime` adds the replicas.  The partition state, the disposition, the
handler's snapshot, the commit and the failure record are transactions of their
own, and between any two of them another replica, a crash, a database error or a
repair may come.  A source is the SQL log (one offset for the group, replicas
read ahead of it), a JetStream durable (each message to one replica, again when
it is not acknowledged) or the in-memory bus (gap-free, from the beginning at
every subscription).  The feeds of the run have an input for two projectors, a
record that is deleted and recreated, an id that comes twice and an epoch that
starts again.  A handler may reject any input until the last generation, which
stands for the release that fixed it.

### Live queries

Commits are announced after they are visible, on a channel of the repository; a
forwarder carries announcements to the hub, and each subscription has its own
place in the hub's channel.  A receiver that falls behind is told that it lagged
before it gets what is left.  Rows, head and changes of a frame are one
snapshot, as in the code.  The coalescing loop, which does not wait, is one
step.  The client is modelled by what it was sent: rows, cursor, and the changes
since the frame that began its history.

### Locks, snapshots and the queued repository

The gate, the slot and the lease of `LeaseLock` are three things that fail
separately: an acquisition may write its row and report an error, a release may
be carried out later, a lease may expire at any time and is not renewed, a crash
empties gates and slots and leaves leases.  A release asks for no owner: it empties
the slot of the process, deletes the row of the token it found there, and opens the
gate in a second step.  A row that has expired counts as no
row, which is how `ACQUIRE_SQL` and `sweep_expired` treat it.

In `QueuedRepository` an event is the number of events its decision was based
on.  `get` reads the snapshot before the lock and the tail after it; `get_all`
locks in sorted order and reads streams and snapshots when it has the locks (in
one step: a snapshot that is newer than the stream is a miss).  A causal commit
appends without looking at the locks, as in the code.  `release` is the
`SNAPSHOT_VERSION` of each process.

An aggregate that is new is committed without a load (`Create`), as the tests of the
queued repository do, and `commit_batch` then releases a lock the task never took.
`lock.rs` promises that to release a lock one does not hold is a no-op.  It is not
when another task of the process has the lock: the gate opens and the lease of the
other is deleted.  The model records that the other was `robbed`, and `Exclusive`
says that this and an overrun lease are the only ways in which two tasks come to
hold one lock.  Not in the model: reads without a lock, `try_lock`, which no
repository calls, and batches that mix created aggregates with loaded ones.

## Runs

| run | instance | checks |
|---|---|---|
| `outbox` | 2 rows, 2 dispatchers with one worker id, lease 1, ceiling 2, 2 disruptions | a published row was delivered; deliveries within attempts; failed only at the ceiling; one owner per row; settled by its holder; implements `OutboxContract` |
| `outbox_unsorted` | the same, polls return rows unsorted (Postgres) | the rows of a poll are published in claim order **fails** |
| `outbox_drain` | 1 loop, 2 messages, mailbox 1, batch 1, 1 disruption, fair | a dropped hint is polled for; every row is settled; the composition implements `Outbox` |
| `outbox_drain_busy` | the same with endless messages (`Recycle`), no disruption | every pending row is claimed **fails** |
| `causal_dispatch` | 1 command with 2 inputs, or 2 commands on one stream; 2 dispatches, lease 2, retention 3, fair | at most once; answers agree; ledger and stream agree; receipts found; open transaction keeps its record; decided on the current state; records move forward; implements `CommandContract`; every dispatch ends |
| `sql_log` | 2 publishers (two envelopes share an id), 2 replicas, 2 positions, 2 epochs, several deployments, fair | a cursor names one message; nothing skipped; a nacked entry is re-read first; a confirmed message is logged once; offsets never go back; every entry is settled by its group |
| `sql_queue` | 2 rows, 2 listeners, batch 2, policy Stop, fair | one claim counts; handled once but for a cause; a leased claim stands; every command leaves the queue |
| `projection` | 2 replicas, 2 projectors, 8 sources, 2 generations, 1 fault, fair over the log | applied once; no failure crossed; no lost update; acknowledged after applied (log); every input applied (log); implements `ProjectionContract` |
| `projection_competing` | a JetStream durable shared by 2 replicas, no faults | acknowledged only after applied **fails** |
| `live_query` | 1 subscriber, 3 inputs, channels of 1, budget 2, retention 3, 2 connections, 1 failing query, fair | no change missed; changed rows are shown |
| `repository` | 3 tasks in 2 processes, 2 streams, equal or different releases, 1 stream that may be created, a snapshot after every second event, 1 round of each task, 1 fault, fair | events build on the last; one holder but for overrun leases and releases by others; every load gets its locks |
| `repository_rolling` | 1 task in each of 2 processes, 1 stream, different releases | an unusable snapshot is a miss **fails** |

What the passing runs show is in one sentence each in `PROJECT.json`
(`about`), and so is, for every property, a change to the code's model that
breaks it (`mutants`).

### Bounds

The bounds are the smallest that let the interesting cases happen.  Two
dispatchers, replicas or listeners are one stale holder and one successor; three
tasks in two processes are the smallest group with both a gate and a lease
between its members.  A lease of one tick is live or over.  Two disruptions
allow a crash and an overrun in one behaviour.  A batch of two is the smallest
with something in the buffer behind the current row, and two positions the
smallest in which one can be skipped.  Two epochs allow one reset, two
generations one repair.  A channel of one overflows at the second announcement;
a budget of two changes and a retention of three let a frame be too large and a
cursor too old.  Counters that would grow for ever (disruptions, faults,
positions, epochs, generations, rounds, excuses) are bounded in the guards of
the actions that raise them.  Deadlock checking is off except for the queue: the
other instances come to rest when their work is done and their bounds are used
up, and the log deliberately stops when its identity does not match (fail
closed).

### Fairness

`Outbox` itself states no fairness: who takes its steps, and when, is the business
of the loop that drives it.  `OutboxDrain` assumes that the runtime polls tasks that
are ready, that publish and settlement calls return, that timers fire and time
passes, and that disruptions are finite.  That is enough for every row to be settled
once no more hints arrive; while hints keep arriving it is not
(`outbox_drain_busy`).  `CausalDispatch` assumes that
handlers return and that the database ends every transaction.  The buses assume
that supervisors restart consumers and, with strong fairness, that no consumer is
killed and no handler fails for ever at the same point: crashes and failures may
recur without bound, but not at every single try.  Without that, a message whose
handler always fails is redelivered for ever, as it should be.  `ProjectorRuntime`
is fair over the SQL log alone, where `EventuallyApplied` is stated: replicas are
restarted, transactions end, and operators repair what has stopped.  `LiveQuery`
assumes that a committed transaction announces itself and that the engine's tasks
run; clients need not connect, and projectors need not commit.  `QueuedRepository`
assumes that tasks are scheduled and that leases run out; applications may abort or
commit, and need not start another load.

## Where the code differs from its documentation

1. `outbox_unsorted`: `outbox_dispatch.rs` says that a publish concurrency of 1
   "publishes strictly in claim (created-at) order".  The Postgres claim returns
   the rows of an `UPDATE ... RETURNING` in no particular order, and nothing sorts
   them (the bus sorts its own): two rows are committed, one poll claims both, and
   the younger one is published first.
2. `outbox_drain_busy`: polling is called "the crash/overflow net for pending
   rows"; a hint always wins over the timer and restarts it, so that a released
   row waits for a pause in the commits.
3. `projection_competing`: an input that is behind its projector's cursor is
   stale, and stale inputs are acknowledged.  Replicas that share a JetStream
   durable handle neighbouring messages at the same time, so that a message can
   become stale before it was ever applied; it is then lost to the projector,
   although acknowledgement is promised only after "the handler's aggregate /
   read-model / outbox writes committed".
4. `repository_rolling`: a snapshot of another schema version is documented as a
   miss after which "the aggregate is rebuilt from a full stream load".
   `load_from_store` takes the lock of the stream for the tail, keeps it, and asks
   for it again for the full load; the lock is not reentrant.

Smaller observations, which no run is about.  `max_attempts` is called "the
publish-failure ceiling" and is compared with the number of claims, so that a row
whose earlier claims crashed is failed by its first failed publish.  `LogAndAck` is
called "the only action that discards a failed message"; on the SQL queue dead-letter
and park delete the row too.  A load of several aggregates that fails half way
returns nothing to abort, and leaves the locks it took (`leaked` in
`QueuedRepository`).  `commit_batch` releases the lock of every stream it wrote,
loaded or not, and so frees the lock of another task of its process (`robbed`); the
version check then decides between the two.  Two handlers that create the same missing row stop the partition,
because `RecordAlreadyExists` is not retryable.  A message id that comes again at
another position, or a source whose epoch starts again, halts a projector without a
failure on record, so that there is nothing to repair.

## Proofs

Each proof module extends the specification, so that it speaks of the very
definitions TLC checks.  The layout is the same in all: lemmas about the
operators, `Init => Inv`, one lemma per action for `Inv /\ A => Inv'`, and short
theorems that combine them.

**`OutboxProofs`**, for any finite set of dispatchers, any set of messages, any
worker ids, lease, batch size, concurrency, ceiling and order of claims (assumption
`OutboxAssumption`): type correctness, `PublishedWasDelivered`,
`OneDeliveryPerAttempt`, `FailedOnlyAtCeiling`, `ExclusiveClaim`,
`SettledByItsHolder`, `TerminalRowsFrozen`, and that `Outbox` implements
`OutboxContract`.  None of the safety properties is inductive alone.  The
invariant adds `ClaimsBehindRow` (a pass's attempt numbers never exceed the
row's), `Fence` (only the latest claim has the row's number), `Budget` (what was
delivered, plus the passes that still will deliver, is within the attempts
counted; this needs the finiteness of the dispatchers), and `Evidence` (what a
pass will settle as published was delivered, as failed was refused).  From
`Fence` follows exclusiveness: two passes whose claims are both active both have
the row's attempt number, so both are its holder.

**`OutboxDrainProofs`**, for any mailbox, batch size and number of loops:
`OverflowIsPolled`, which is inductive with the types of the drain's variables, and
that the composition implements `Outbox`.  The second needs no invariant: every step
of a loop is a step of `Outbox` or leaves its variables alone.  Together with
`OutboxProofs` it carries every safety theorem of the outbox over to the loops.

**`CausalDispatchProofs`**, for all commands, inputs, dispatches, and all leases
shorter than the retention (`LedgerAssumption`, the condition
`CommandReservation::new` enforces): type correctness, `AtMostOnce`,
`AnswersAgree`, `CommittedReceiptFound`, `DecidedOnCurrentState`,
`OpenTransactionKeepsRecord`, `LedgerMatchesStream`, `RecordMovesForward`, and that
dispatch implements `CommandContract`.  The invariant says that attempt numbers
tell the holders of a command apart (`Numbers`, `Distinct`, `Tokens`), that an
open transaction keeps the record it checked, that an uncommitted append is alone
(`Appends`), and that the attempt that committed stays the record's latest and its
receipt stays until it expires (`Receipts`, `Recorded`).  At most once then needs
no argument about time: a second commit would need the record in progress, which
it can never be again.

**`SqlBusQueueProofs`**, for any finite sets of rows and listeners and any batch:
`OneClaimCounts`, `HandledOnce` and `LeasedClaimStands`.  `HandledOnce` is a budget:
what was handled, plus the listeners that may still handle a row on a claim that does
not count any more, plus one while the row is in the queue, is at most one more than
the excuses.

**`SqlBusLogProofs`**, for any publishers, consumers, groups, messages, deployments
and bounds (`LogAssumption`): type correctness, `CursorNamesOneMessage`,
`NothingSkipped`, `NackedIsReread`, `AckedIsLoggedOnce` and `OffsetNeverGoesBack`.
The invariant turns on when the log is intact, that is, its last entry is at the
high-water mark of its identity.  An append happens only then, alone under the lock
(`OneAppend`).  While the log is intact, whatever was read of the latest epoch, every
cursor given to a handler, every buffered row and every offset, is at or before the
last entry (`ReadIsBehind`, `OffsetIsBehind`), so that a new entry is after all of
them and cannot reuse a name.  A log that has lost its tail takes no entry before a
reset, which mints an epoch nothing has yet (`LatestEpoch`).  For the consumers,
every wanted entry before a row they have read ahead is settled or is itself among
what they read ahead, unless a nack has just dropped it (`InOrder`).

**`ProjectorRuntimeProofs`**, for any replicas, projectors, sources and number of
faults: `AppliedOnce`, `FailureIsNotCrossed`, `NoLostUpdate`,
`LogAcknowledgedIsApplied`, and that the runtime implements `ProjectionContract`.
`RuntimeAssumption` says of a source that its positions rise within an epoch.  For
the first two and the contract, the workers matter only for what they hand to the store, an
input of the feed.  The invariant says that the cursor of the active generation is
the last input applied (`CursorIsLast`), that the applied inputs are in order within
one epoch, that every failure on record is applied by now, or stops the partition, or
is what its repair waits for (`FailureStands`), and that a partition never stops and
waits at once.

`NoLostUpdate` adds `RowInv`: the mutation a worker has staged is what its handler
would stage now, or the record has moved past the revision the mutation names, and
then the store refuses it (`StagedIsFresh`).  The row a key should have is a recursive
function of the applied inputs; that one more input changes it by one step, and inputs
of other keys not at all, is shown by taking the least position at which it would fail.
`LogAcknowledgedIsApplied` adds `LogInv`: a worker is at most one message ahead of the
offset of its group, a projector that has applied a message has applied all before it
(`NothingPassedOver`), and a receipt stands only for what was applied.

**`LiveQueryProofs`**, for any inputs, subscribers, capacities, budgets and
retentions: `NoChangeMissed` and `ChangeIsOnItsWay`.  For the first, the change log holds every position from the
compaction watermark to the head; a subscription that is not about to send resumes
from the cursor its client has, and one that is has, in the frame, everything after
that cursor or a reset.  The second is the safety half of `EventuallyShown`: while a
subscription waits and its client has old rows, an announcement is still to be made or
is in a channel, or a channel will report that its receiver lags.
A full channel drops announcements and keeps the lag, a reader takes an announcement
only to query again, and the frame it then sends is either current or has another
announcement behind it.

**`QueuedRepositoryProofs`**, for any processes, tasks, streams, sets of loads and
releases: `Exclusive`, `EventsBuildOnTheLast` and `NoCircularWait`.  For the first,
the gate of a task that holds the lock, or waits for the lease behind the gate, is
locked unless the task was robbed (`GateIsLocked`), and of two such tasks of a process
one was robbed (`OneOwner`).  What a task holds and has not lost, the row and the slot
of its process have under a token of that task, which no release on its way names
(`LeaseIsItsHolders`), so that two processes cannot both have it.  That a late release
names no lock taken after it was sent is because no task asks for a stream under a
token it has had it under before (`TokensAreOld`, `NothingSpent`).  For the second, snapshots and
loaded entities have the state that belongs to their version; the locks play no part
in it, as the documentation says.  The third is the safety half of
`EveryLoadGetsItsLocks`: while all processes run one release, no tasks wait for each
other in a circle of any length, and none for a lock it holds itself.  A load waits for
a stream above all those it holds, so in a circle the task that waits for the lowest
stream would hold a lower one still.  The one step against the order is a read that
finds its snapshot unusable and asks for the same lock again; the invariant
(`OrderInv`) rules it out for one release, because every snapshot was saved by that
release and is not ahead of its stream.  No run checks `NoCircularWait` itself, nor
`ChangeIsOnItsWay`; the runs check the liveness that rests on them.

Every safety invariant, action property and refinement of the passing runs is a
theorem.  Only model-checked is liveness, for fairness and `ENABLED` are beyond the
prover: `EventuallySettled`, `EveryDispatchEnds`, `EventuallyForwarded`,
`EventuallyGone`, `EventuallyApplied`, `EventuallyShown` and `EveryLoadGetsItsLocks`.

`EveryLoadGetsItsLocks` is checked with one round of each task.  It shows that nobody
waits in a circle or for what a crash left behind; it does not show that the gate is
fair.  `InMemoryLock` wakes those who wait and lets them contend with whoever comes by,
so that a task may be overtaken without bound by tasks that load again and again.

## Not modelled

The map of `PROJECT.json` covers the state machines of the core crate; it is a small
part of the repository's lines, most of which are functions of data: expression
languages and compilers (projections, mutations, GraphQL, client code generation,
macros), codecs, SQL text, the command-line tool and the JavaScript packages.  These
have no interleavings for a model checker to explore and are better served by tests.

Payloads, codecs, metadata, tracing and metrics, which no modelled decision looks at.
The upgrade of a log written before stable ids existed.  Projections written in the
commit transaction of a command and the consistency tokens in a dispatch's answer.
Registration, ownership and retirement of projection models, which happen under locks
at start-up.  `LISTEN`/`NOTIFY` between processes, which feeds the same channel as
local commits.  Broker adapters (NATS beyond the durable of `ProjectorRuntime`,
RabbitMQ, Kafka, Knative, celld), whose state machines are those of the brokers.  The
consumer inbox: its receipt is one insert of a commit, and the wrapper that would run
a handler under it is a placeholder in `run_options.rs`.  The cell host and the
JavaScript replica, which have state machines of their own and would be the next to
model.  `PROJECT.json` lists every part with its reason.

## Running

    tlc -config Outbox.cfg MCOutbox
    tlapm OutboxProofs.tla

Every run takes less than three minutes on two cores.  The proof modules take a few
minutes each from nothing, `ProjectorRuntimeProofs` and `QueuedRepositoryProofs` about
a quarter of an hour.
