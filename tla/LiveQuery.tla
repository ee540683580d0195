----------------------------- MODULE LiveQuery ------------------------------
(***************************************************************************)
(* Live queries over a projection: commits announce the tables they wrote  *)
(* on a broadcast channel of the repository, a forwarder carries that to   *)
(* the hub of the GraphQL engine, and every subscription runs its query    *)
(* again when a table it reads is announced.  A frame is the rows together *)
(* with the changes since the frame before, or a reset where the change    *)
(* log no longer has them; a client that reconnects resumes from the       *)
(* cursor of the last frame it got.                                        *)
(*                                                                         *)
(* The channels hold a bounded number of announcements.  A receiver that   *)
(* falls behind loses the oldest and is told that it lagged.               *)
(***************************************************************************)
EXTENDS ProjectionStore

CONSTANTS
    Subscribers,
    Projector,   \* the projector of the table the query reads
    Inputs,      \* the inputs it gets, a sequence
    Capacity,    \* of the broadcast channels
    Budget,      \* MAX_PROTOCOL_EVIDENCE_ITEMS: changes one frame may carry
    MaxErrors,   \* bound on queries that fail
    MaxConnects  \* bound on connections of a subscriber

ASSUME LiveAssumption ==
    /\ Projector \in Projectors
    /\ {Capacity, Budget, MaxConnects} \subseteq Nat \ {0}
    /\ MaxErrors \in Nat

VARIABLES
    unannounced, \* announcements of transactions that have just committed
    repoChannel, \* what the forwarder has not received yet
    hubChannel,  \* what each subscription has not received yet
    live,        \* the task of each subscription
    client,      \* what each client has been sent
    errors, connects

channels == <<unannounced, repoChannel, hubChannel>>
vars == <<store, channels, live, client, errors, connects>>

\* Announcements: the table of the query, no table of the query (only the change
\* log), and every table, which is how a lag is passed on.
Announcements == {"Table", "Other", "All"}

Empty == [queue |-> <<>>, lagged |-> FALSE]

\* Resume positions; Absent: the subscription asked for none.
Absent == -1

NoFrame == [rows |-> <<>>, position |-> Absent, changes |-> {}, reset |-> FALSE]

Closed == [at |-> "Closed", resume |-> Absent, last |-> NoFrame, frame |-> NoFrame]

Init ==
    /\ StoreInit
    /\ unannounced = <<>>
    /\ repoChannel = Empty
    /\ hubChannel = [s \in Subscribers |-> Empty]
    /\ live = [s \in Subscribers |-> Closed]
    /\ client = [s \in Subscribers |->
                    [rows |-> <<>>, position |-> Absent, base |-> Absent, changes |-> {},
                     told |-> FALSE]]
    /\ errors = 0
    /\ connects = [s \in Subscribers |-> 0]

-----------------------------------------------------------------------------
(* The broadcast channels of tokio.                                        *)

\* send: the oldest announcement gives way.
Sent(channel, a) ==
    IF Len(channel.queue) < Capacity THEN [channel EXCEPT !.queue = Append(@, a)]
    ELSE [queue |-> Append(Tail(channel.queue), a), lagged |-> TRUE]

Ready(channel) == channel.lagged \/ channel.queue # <<>>

\* recv tells of a lag first, and then goes on with the oldest that is left.
Got(channel) == IF channel.lagged THEN "Lagged" ELSE Head(channel.queue)

Rest(channel) ==
    IF channel.lagged THEN [channel EXCEPT !.lagged = FALSE]
    ELSE [channel EXCEPT !.queue = Tail(@)]

-----------------------------------------------------------------------------
(* The projector, and the announcement of each commit.                     *)

Position == partition[Projector].head

\* The inputs come in order, and a new generation starts with the one that failed.
Processed == Len(applied[Projector])

Input ==
    [projector |-> Projector, generation |-> partition[Projector].generation,
     cursor |-> [epoch |-> 1, position |-> Processed + 1],
     message |-> Inputs[Processed + 1].message,
     causation |-> Inputs[Processed + 1].causation, gapFree |-> FALSE]

Mutation ==
    LET e == Inputs[Processed + 1]
        r == records[Projector][e.key]
    IN  IF e.op = "Skip" THEN NoMutation
        ELSE [key |-> e.key, kind |-> "Upsert", expected |-> Revision(r),
              row |-> Append(IF r = NoRecord THEN <<>> ELSE rows[Projector][e.key], e.message)]

Commit ==
    /\ Processed < Len(Inputs)
    /\ CommitVerdict(Input, Mutation) = "Applied"
    /\ commit_projection(Input, Mutation)
    /\ unannounced' = Append(unannounced, IF Mutation = NoMutation THEN "Other" ELSE "Table")
    /\ UNCHANGED <<repoChannel, hubChannel, live, client, errors, connects>>

RecordFailure ==
    /\ Processed < Len(Inputs)
    /\ partition[Projector].generation < MaxGeneration
    /\ FailureVerdict(Input) = "Records"
    /\ record_projection_failure(Input)
    /\ unannounced' = Append(unannounced, "Other")
    /\ UNCHANGED <<repoChannel, hubChannel, live, client, errors, connects>>

Repair ==
    /\ repair_projection(Projector)
    /\ UNCHANGED <<channels, live, client, errors, connects>>

Compact ==
    /\ \E through \in 1..Position : compact_projection_changes(Projector, through)
    /\ UNCHANGED <<channels, live, client, errors, connects>>

\* publish_read_model_change, once the transaction has committed.
Announce ==
    /\ unannounced # <<>>
    /\ repoChannel' = Sent(repoChannel, Head(unannounced))
    /\ unannounced' = Tail(unannounced)
    /\ UNCHANGED <<store, hubChannel, live, client, errors, connects>>

\* Faulty variant: a lag of the forwarder is not passed on.
ForwardsNoLag ==
    /\ Ready(repoChannel)
    /\ repoChannel' = Rest(repoChannel)
    /\ hubChannel' = [s \in Subscribers |->
                        IF live[s].at = "Closed" \/ repoChannel.lagged THEN hubChannel[s]
                        ELSE Sent(hubChannel[s], Got(repoChannel))]
    /\ UNCHANGED <<store, unannounced, live, client, errors, connects>>

\* spawn_forward_from: "Empty tables = all-dirty for subscribers."
Forward ==
    /\ Ready(repoChannel)
    /\ repoChannel' = Rest(repoChannel)
    /\ hubChannel' = [s \in Subscribers |->
                        IF live[s].at = "Closed" THEN hubChannel[s]
                        ELSE Sent(hubChannel[s], IF repoChannel.lagged THEN "All"
                                                 ELSE Got(repoChannel))]
    /\ UNCHANGED <<store, unannounced, live, client, errors, connects>>

-----------------------------------------------------------------------------
(* The query: rows, heads and changes are read in one snapshot.            *)

\* Faulty variant: a cursor the log was compacted past is taken for current.
ReadsPastCompaction(after) == [reset |-> FALSE, changes |-> {c \in changes[Projector] : c.position > after}]

\* read_projection_changes; after position zero, nothing may have been compacted.
read_projection_changes(after) ==
    LET p == partition[Projector]
        gone == IF after = 0 THEN p.compacted > 0 ELSE after > p.head \/ after < p.compacted
    IN  [reset |-> gone,
         changes |-> IF gone THEN {} ELSE {c \in changes[Projector] : c.position > after}]

\* wire_live_metadata and finish_protocol_query.
Frame(resume) ==
    LET read == IF resume \in {Absent, Position} THEN [reset |-> FALSE, changes |-> {}]
                ELSE read_projection_changes(resume)
        reset == read.reset \/ Cardinality(read.changes) > Budget
    IN  [rows |-> rows[Projector], position |-> Position, reset |-> reset,
         changes |-> IF reset THEN {} ELSE {c.position : c \in read.changes}]

-----------------------------------------------------------------------------
(* live_query_stream.                                                      *)

\* The client presents the cursor of its last frame, if it has one.  The task
\* subscribes to the hub before the first query runs.
Connect(s) ==
    /\ live[s].at = "Closed"
    /\ connects[s] < MaxConnects
    /\ connects' = [connects EXCEPT ![s] = @ + 1]
    /\ live' = [live EXCEPT ![s] = [Closed EXCEPT !.at = "Execute",
                                                  !.resume = client[s].position]]
    /\ hubChannel' = [hubChannel EXCEPT ![s] = Empty]
    /\ UNCHANGED <<store, unannounced, repoChannel, client, errors>>

\* recv and footprint_hits; then the task sleeps for the debounce time.
Wake(s) ==
    LET got == Got(hubChannel[s])
    IN  /\ live[s].at = "Wait"
        /\ Ready(hubChannel[s])
        /\ hubChannel' = [hubChannel EXCEPT ![s] = Rest(@)]
        /\ live' = IF got = "Other" THEN live ELSE [live EXCEPT ![s].at = "Debounce"]
        /\ UNCHANGED <<store, unannounced, repoChannel, client, errors, connects>>

\* The coalescing loop empties the channel, or stops at a lag.
Coalesce(s) ==
    /\ live[s].at = "Debounce"
    /\ hubChannel' = [hubChannel EXCEPT ![s] =
                        IF @.lagged THEN [@ EXCEPT !.lagged = FALSE] ELSE Empty]
    /\ live' = [live EXCEPT ![s].at = "Execute"]
    /\ UNCHANGED <<store, unannounced, repoChannel, client, errors, connects>>

\* execute_list.  A frame equal to the one before it is not sent.
Execute(s) ==
    LET f == Frame(live[s].resume)
    IN  /\ live[s].at = "Execute"
        /\ live' = [live EXCEPT ![s] =
                      [@ EXCEPT !.resume = f.position,
                                !.at = IF f = live[s].last THEN "Wait" ELSE "Send",
                                !.frame = IF f = live[s].last THEN NoFrame ELSE f]]
        /\ UNCHANGED <<store, channels, client, errors, connects>>

\* After an error in between, the task waits for the next change.
WaitsOn(s) == [live[s] EXCEPT !.at = "Wait"]

\* A first query that fails ends the subscription; later the task waits on.
ExecuteFails(s) ==
    /\ live[s].at = "Execute"
    /\ errors < MaxErrors
    /\ errors' = errors + 1
    /\ live' = [live EXCEPT ![s] = IF live[s].last = NoFrame THEN Closed
                                   ELSE WaitsOn(s)]
    /\ client' = [client EXCEPT ![s].told = TRUE]
    /\ UNCHANGED <<store, channels, connects>>

\* The client takes the frame: a first frame without a cursor and a reset start
\* its history of changes again.
Send(s) ==
    LET f == live[s].frame
        fresh == f.reset \/ client[s].position = Absent
    IN  /\ live[s].at = "Send"
        /\ live' = [live EXCEPT ![s] = [@ EXCEPT !.at = "Wait", !.last = f, !.frame = NoFrame]]
        /\ client' = [client EXCEPT ![s] =
                        [rows |-> f.rows, position |-> f.position, told |-> FALSE,
                         base |-> IF fresh THEN f.position ELSE @.base,
                         changes |-> IF fresh THEN {} ELSE @.changes \cup f.changes]]
        /\ UNCHANGED <<store, channels, errors, connects>>

Disconnect(s) ==
    /\ live[s].at # "Closed"
    /\ live' = [live EXCEPT ![s] = Closed]
    /\ UNCHANGED <<store, channels, client, errors, connects>>

-----------------------------------------------------------------------------
Task(s) == Wake(s) \/ Coalesce(s) \/ Execute(s) \/ Send(s)

Next ==
    \/ Commit \/ RecordFailure \/ Repair \/ Compact
    \/ Announce \/ Forward
    \/ \E s \in Subscribers : Connect(s) \/ Task(s) \/ ExecuteFails(s) \/ Disconnect(s)

\* A commit announces itself, and the tasks of the engine run.
FairSpec ==
    /\ Init /\ [][Next]_vars
    /\ WF_vars(Announce) /\ WF_vars(Forward)
    /\ \A s \in Subscribers : WF_vars(Task(s))

-----------------------------------------------------------------------------
\* From the frame that began its history, a client has been sent every change
\* up to its cursor and none after it: across frames that were not sent because
\* they were equal, queries that failed, reconnects and compactions.
NoChangeMissed ==
    \A s \in Subscribers :
        client[s].position # Absent =>
            client[s].changes = (client[s].base + 1)..client[s].position

\* A client whose rows are out of date is sent the new ones, or an error, or it
\* disconnects, however many announcements were lost on the way.
EventuallyShown ==
    \A s \in Subscribers :
        (live[s].at # "Closed" /\ client[s].rows # rows[Projector]) ~>
            (client[s].rows = rows[Projector] \/ client[s].told \/ live[s].at = "Closed")
=============================================================================
