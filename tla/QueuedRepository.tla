-------------------------- MODULE QueuedRepository --------------------------
(***************************************************************************)
(* Aggregates read and written through a QueuedRepository with snapshots:  *)
(* a load takes the lock of every stream it reads and keeps it, a commit   *)
(* checks the version of each stream, appends, saves a snapshot when one   *)
(* is due, and releases the locks; an error leaves them held until the     *)
(* application aborts.  An aggregate that is created is committed without  *)
(* a load, and its lock, which the task does not hold, is released all the *)
(* same.  Tasks of several processes do this at once, with the lease locks *)
(* of the SQL repositories.                                                *)
(*                                                                         *)
(* An event is the number of events its decision was based on.             *)
(***************************************************************************)
EXTENDS LeaseLock, Sequences, FiniteSets

CONSTANTS
    Tasks,
    ProcessOf,  \* the process each task runs in
    Loads,      \* the sets of streams each task may load
    Creates,    \* the streams each task may create
    Releases,   \* assignments of a SNAPSHOT_VERSION to each process
    Frequency,  \* events between snapshots
    MaxRounds,  \* bound on what a task starts: loads and creations
    MaxFaults   \* bound on crashes, errors and causal commits

ASSUME RepositoryAssumption ==
    /\ ProcessOf \in [Tasks -> Processes]
    /\ Streams \subseteq Nat /\ IsFiniteSet(Streams)
    /\ Loads \in [Tasks -> SUBSET ((SUBSET Streams) \ {{}})]
    /\ Creates \in [Tasks -> SUBSET Streams]
    /\ Releases \subseteq [Processes -> Nat]
    /\ Frequency \in Nat \ {0}

VARIABLES
    release,  \* the release of each process; does not change
    stream,   \* aggregate_events
    snapshot, \* aggregate_snapshots
    task,
    leaked,   \* locks that nobody will release
    faults

vars == <<locks, release, stream, snapshot, task, leaked, faults>>

NoSnapshot == [version |-> 0, state |-> 0, schema |-> 0]
Garbage == 99

\* wants: the streams to lock, in order, or the gate to open; cached: the snapshot
\* read before the lock; loaded: the version, state and snapshot version of each
\* entity; holds: what the task takes itself to hold; frees: the locks it is about to
\* release; overrun: of what it holds, the leases that expired meanwhile; robbed: what
\* another task of the process released meanwhile; rounds: how often
\* it started, or asked for a lock again.
Idle(rounds) ==
    [at |-> "Idle", wants |-> <<>>, cached |-> NoSnapshot, loaded |-> <<>>, holds |-> {},
     frees |-> {}, overrun |-> {}, robbed |-> {}, rounds |-> rounds]

Init ==
    /\ LockInit
    /\ release \in Releases
    /\ stream = [k \in Streams |-> <<>>]
    /\ snapshot = [k \in Streams |-> NoSnapshot]
    /\ task = [x \in Tasks |-> Idle(0)]
    /\ leaked = {}
    /\ faults = 0

Moves(x, changes) == task' = [task EXCEPT ![x] = changes]

Process(x) == ProcessOf[x]
Wanted(x) == Head(task[x].wants)

PassedTheGate(x, k) == k \in task[x].holds \/ (task[x].at = "Lease" /\ Wanted(x) = k)

\* x releases the lock of k: any other task of the process that has passed the gate
\* is robbed of it.
Robs(x, k, changes) ==
    task' = [y \in Tasks |->
        IF y = x THEN changes
        ELSE IF Process(y) = Process(x) /\ PassedTheGate(y, k)
             THEN [task[y] EXCEPT !.robbed = @ \cup {k}]
             ELSE task[y]]

-----------------------------------------------------------------------------
(* Loading.                                                                *)

\* Faulty variant: the streams are locked in the order they were asked for.
AnyOrder(streams) ==
    {s \in [1..Cardinality(streams) -> streams] : \A k \in streams : \E n \in DOMAIN s : s[n] = k}

\* lock_ids_in_order: sorted, without duplicates.
InOrder(streams) ==
    {s \in [1..Cardinality(streams) -> streams] :
        \A m, n \in DOMAIN s : m < n => s[m] < s[n]}

\* AggregateRepository::get with a snapshot policy reads the snapshot first.
GetSnapshot(x, k) ==
    /\ task[x].at = "Idle" /\ task[x].rounds < MaxRounds
    /\ {k} \in Loads[x]
    /\ Moves(x, [Idle(task[x].rounds + 1) EXCEPT !.at = "Gate", !.wants = <<k>>,
                                                 !.cached = snapshot[k]])
    /\ UNCHANGED <<locks, release, stream, snapshot, leaked, faults>>

\* get_all: get_streams, and the snapshots when it has the streams.
GetStreams(x, streams) ==
    /\ task[x].at = "Idle" /\ task[x].rounds < MaxRounds
    /\ Cardinality(streams) > 1
    /\ \E s \in InOrder(streams) :
           Moves(x, [Idle(task[x].rounds + 1) EXCEPT !.at = "Gate", !.wants = s])
    /\ UNCHANGED <<locks, release, stream, snapshot, leaked, faults>>

\* No two acquisitions of a lock have the same token.
mint_token(x) == <<x, task[x].rounds>>

Gate(x) ==
    /\ task[x].at = "Gate"
    /\ EnterGate(Process(x), Wanted(x))
    /\ Moves(x, [task[x] EXCEPT !.at = "Lease"])
    /\ UNCHANGED <<release, stream, snapshot, leaked, faults>>

\* An attempt that does not win is made again.
Acquire(x) ==
    LET rest == Tail(task[x].wants)
    IN  /\ task[x].at = "Lease"
        /\ db_acquire(Process(x), Wanted(x), mint_token(x))
        /\ Moves(x, [task[x] EXCEPT !.at = IF rest = <<>> THEN "Read" ELSE "Gate",
                                    !.wants = rest,
                                    !.holds = @ \cup {Wanted(x)}])
        /\ UNCHANGED <<release, stream, snapshot, leaked, faults>>

\* A database error, or max_wait is over: the load fails, and the locks it has
\* taken so far stay as they are.
LoadFails(x) ==
    /\ faults < MaxFaults
    /\ \/ /\ task[x].at \in {"Gate", "Read"}
          /\ Moves(x, Idle(task[x].rounds))
          /\ UNCHANGED locks
       \/ /\ task[x].at = "Lease"
          /\ AcquireError(Process(x), Wanted(x), mint_token(x))
          /\ Robs(x, Wanted(x), Idle(task[x].rounds))
    /\ leaked' = leaked \cup {<<Process(x), k>> : k \in task[x].holds}
    /\ faults' = faults + 1
    /\ UNCHANGED <<release, stream, snapshot>>

\* prepare_snapshot.
Usable(p, record, version) ==
    /\ record # NoSnapshot
    /\ record.schema = release[p]
    /\ record.version <= version

\* A payload of another schema decodes into something else.
Decoded(p, record) == IF record.schema = release[p] THEN record.state ELSE Garbage

\* hydrate_prepared_snapshot, or hydrate: the events after the snapshot, or all.
Entity(x, k, record) ==
    LET version == Len(stream[k])
        p == Process(x)
    IN  IF Usable(p, record, version)
        THEN [version |-> version, snapshot |-> record.version,
              state |-> Decoded(p, record) + (version - record.version)]
        ELSE [version |-> version, snapshot |-> 0, state |-> version]

\* load_from_store, from the stream tail on, and get_streams with hydrate_all: a
\* tail cannot stand for the stream, so without a usable snapshot get_stream
\* asks for the lock and loads it all.
Read(x) ==
    LET unusable == \E k \in task[x].holds :
                        /\ task[x].cached # NoSnapshot
                        /\ ~Usable(Process(x), task[x].cached, Len(stream[k]))
        record == [k \in task[x].holds |->
                      IF Cardinality(task[x].holds) = 1 THEN task[x].cached ELSE snapshot[k]]
    IN  /\ task[x].at = "Read"
        /\ IF unusable
           THEN \E k \in task[x].holds :
                    Moves(x, [task[x] EXCEPT !.at = "Gate", !.wants = <<k>>,
                                             !.cached = NoSnapshot, !.rounds = @ + 1])
           ELSE Moves(x, [task[x] EXCEPT !.at = "Work",
                             !.loaded = [k \in task[x].holds |-> Entity(x, k, record[k])]])
        /\ UNCHANGED <<locks, release, stream, snapshot, leaked, faults>>

\* An aggregate that is new: nothing is read, and no lock is taken.
Create(x, k) ==
    /\ task[x].at = "Idle" /\ task[x].rounds < MaxRounds
    /\ k \in Creates[x]
    /\ Moves(x, [Idle(task[x].rounds + 1) EXCEPT !.at = "Work",
                    !.loaded = [j \in {k} |-> [version |-> 0, snapshot |-> 0, state |-> 0]]])
    /\ UNCHANGED <<locks, release, stream, snapshot, leaked, faults>>

-----------------------------------------------------------------------------
(* Committing and aborting.                                                *)

\* Faulty variant: the streams are appended to as they are.
AlwaysCurrent(x) == TRUE

\* commit_sqlx_batch: the version of every stream, or ConcurrentWrite.
VersionsMatch(x) ==
    \A k \in DOMAIN task[x].loaded : Len(stream[k]) = task[x].loaded[k].version

Appended(x) ==
    [k \in Streams |-> IF k \in DOMAIN task[x].loaded
                       THEN Append(stream[k], task[x].loaded[k].state) ELSE stream[k]]

\* snapshot_record_if_due, and save_snapshot_in_tx.
Saved(x) ==
    [k \in Streams |->
        LET e == task[x].loaded[k]
        IN  IF k \in DOMAIN task[x].loaded /\ e.version + 1 - e.snapshot >= Frequency
            THEN [version |-> e.version + 1, state |-> e.state + 1,
                  schema |-> release[Process(x)]]
            ELSE snapshot[k]]

\* The locks of the streams are about to be released, one after the other.
Frees(x, streams) ==
    Moves(x, IF streams = {} THEN Idle(task[x].rounds)
             ELSE [task[x] EXCEPT !.at = "Unlock", !.frees = streams, !.loaded = <<>>,
                                  !.cached = NoSnapshot])

\* The application gives up: it aborts what it loaded, and perhaps what it created.
GivesUp(x) == \E streams \in {task[x].holds, DOMAIN task[x].loaded} : Frees(x, streams)

\* commit_batch releases the lock of every stream it has written, and none when it
\* fails.
Commit(x) ==
    /\ task[x].at = "Work"
    /\ IF VersionsMatch(x)
       THEN stream' = Appended(x) /\ snapshot' = Saved(x) /\ Frees(x, DOMAIN task[x].loaded)
       ELSE GivesUp(x) /\ UNCHANGED <<stream, snapshot>>
    /\ UNCHANGED <<locks, release, leaked, faults>>

\* commit_causal_batch neither takes the lock nor releases it.
CausalCommit(k) ==
    /\ faults < MaxFaults
    /\ stream' = [stream EXCEPT ![k] = Append(@, Len(@))]
    /\ faults' = faults + 1
    /\ UNCHANGED <<locks, release, snapshot, task, leaked>>

Abort(x) ==
    /\ task[x].at = "Work"
    /\ GivesUp(x)
    /\ UNCHANGED <<locks, release, stream, snapshot, leaked, faults>>

\* The task no longer holds the lock of k, if it did, and has its gate to open.
Unlocked(x, k) ==
    [task[x] EXCEPT !.at = "Open", !.wants = <<k>>, !.frees = @ \ {k}, !.holds = @ \ {k},
                    !.overrun = @ \ {k}, !.robbed = @ \ {k}]

\* unlock does not ask whether the task holds the lock.
Unlock(x, k) ==
    /\ task[x].at = "Unlock" /\ k \in task[x].frees
    /\ lease_unlock(Process(x), k)
    /\ Robs(x, k, Unlocked(x, k))
    /\ UNCHANGED <<release, stream, snapshot, leaked, faults>>

UnlockFails(x, k) ==
    /\ task[x].at = "Unlock" /\ k \in task[x].frees
    /\ faults < MaxFaults
    /\ UnlockError(Process(x), k)
    /\ Robs(x, k, Unlocked(x, k))
    /\ faults' = faults + 1
    /\ UNCHANGED <<release, stream, snapshot, leaked>>

Open(x) ==
    /\ task[x].at = "Open"
    /\ OpenGate(Process(x), Wanted(x))
    /\ Robs(x, Wanted(x), IF task[x].frees = {} THEN Idle(task[x].rounds)
                          ELSE [task[x] EXCEPT !.at = "Unlock", !.wants = <<>>])
    /\ UNCHANGED <<release, stream, snapshot, leaked, faults>>

-----------------------------------------------------------------------------
(* The clock, and crashes.                                                 *)

Overrun(k) ==
    /\ Expire(k)
    /\ task' = [x \in Tasks |-> IF k \in task[x].holds /\ slot[Process(x)][k] = lease[k]
                                THEN [task[x] EXCEPT !.overrun = @ \cup {k}] ELSE task[x]]
    /\ UNCHANGED <<release, stream, snapshot, leaked, faults>>

Late ==
    /\ \E r \in late : LateRelease(r)
    /\ UNCHANGED <<release, stream, snapshot, task, leaked, faults>>

Crash(p) ==
    /\ faults < MaxFaults
    /\ faults' = faults + 1
    /\ LockCrash(p)
    /\ task' = [x \in Tasks |-> IF Process(x) = p THEN Idle(task[x].rounds) ELSE task[x]]
    /\ leaked' = {l \in leaked : l[1] # p}
    /\ UNCHANGED <<release, stream, snapshot>>

-----------------------------------------------------------------------------
Step(x) == Gate(x) \/ Acquire(x) \/ Read(x) \/ Commit(x)
           \/ (\E k \in Streams : Unlock(x, k)) \/ Open(x)

Next ==
    \/ \E x \in Tasks :
          \/ \E k \in Streams : GetSnapshot(x, k) \/ Create(x, k)
          \/ \E streams \in Loads[x] : GetStreams(x, streams)
          \/ Step(x) \/ LoadFails(x) \/ Abort(x)
          \/ \E k \in Streams : UnlockFails(x, k)
    \/ \E k \in Streams : Overrun(k) \/ CausalCommit(k)
    \/ Late
    \/ \E p \in Processes : Crash(p)

Spec == Init /\ [][Next]_vars

\* Tasks are scheduled, and leases run out.
FairSpec ==
    /\ Spec
    /\ \A x \in Tasks : WF_vars(Step(x))
    /\ \A k \in Streams : WF_vars(Overrun(k))

-----------------------------------------------------------------------------
\* Every event was decided on the state the events before it make, whatever became
\* of the locks and whichever snapshot the aggregate was loaded from: "a stale
\* writer fails its optimistic commit rather than corrupting data".
EventsBuildOnTheLast == \A k \in Streams : \A n \in 1..Len(stream[k]) : stream[k][n] = n - 1

\* Two tasks hold a lock at once only when one of them lost it: its lease ran out
\* (then the other is of another process), or a task of its process released the lock
\* without holding it, which the commit of a created aggregate does.  No release that
\* comes late, and none sent from another process, takes a lock from its holder.
Exclusive ==
    \A x, y \in Tasks : \A k \in task[x].holds \cap task[y].holds :
        x # y => \/ k \in task[x].robbed \cup task[y].robbed
                 \/ /\ Process(x) # Process(y)
                    /\ k \in task[x].overrun \cup task[y].overrun

Waiting(x) == task[x].at \in {"Gate", "Lease"}

\* Every load gets its locks in the end: the processes and tasks do not wait for
\* each other in a circle, and what a crash leaves behind runs out.  It need not
\* where a load that failed half way has left its locks behind, or where releases
\* with different snapshots run together.
EveryLoadGetsItsLocks ==
    \A x \in Tasks :
        Waiting(x) ~> \/ ~Waiting(x)
                      \/ \E l \in leaked : l[1] = Process(x)
                      \/ \E p \in Processes : release[p] # release[Process(x)]

\* "Degrades gracefully on a cache miss: ... the aggregate is rebuilt from a full
\* stream load": a load goes on when a snapshot cannot be used.
UnusableSnapshotIsAMiss == \A x \in Tasks : Waiting(x) ~> ~Waiting(x)
=============================================================================
