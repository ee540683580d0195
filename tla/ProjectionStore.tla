-------------------------- MODULE ProjectionStore ---------------------------
(***************************************************************************)
(* The durable side of the projection protocol: what one transaction of    *)
(* the projection store decides and writes.  A projector (a topology, with *)
(* one partition of it) applies the inputs of an ordered source to the     *)
(* rows it owns; every commit also advances the input cursor, leaves a     *)
(* receipt, moves the revision of the record it wrote and appends to the   *)
(* change log of the partition, whose old end is compacted.                *)
(*                                                                         *)
(* A terminal failure stops the partition.  A repair opens a new           *)
(* generation, which inherits the cursors and may start only with the      *)
(* input that failed.                                                      *)
(***************************************************************************)
EXTENDS Integers, Sequences, FiniteSets

CONSTANTS
    Projectors,
    Keys,       \* primary keys of the model a projector owns
    Retention,  \* max_retained_changes
    MaxGeneration

Generations == 1..MaxGeneration

ASSUME StoreAssumption == Retention \in Nat \ {0} /\ MaxGeneration \in Nat \ {0}

VARIABLES
    partition,    \* projection_partitions
    cursors,      \* projection_input_cursors, by generation
    receipts,     \* projection_input_receipts, and the inbox rows beside them
    identities,   \* projection_input_identities
    failures,     \* projection_failures
    records,      \* projection_records
    rows,         \* the table: each row is the sequence of messages it shows
    observations, \* projection_observations
    changes,      \* projection_changes
    applied       \* history: the inputs applied, in the order of their commits

store == <<partition, cursors, receipts, identities, failures, records, rows,
           observations, changes, applied>>

NoCursor == [epoch |-> 0, position |-> 0]
NoFailure == [generation |-> 0, cursor |-> NoCursor, message |-> "none"]
NoRecord == [incarnation |-> 0, revision |-> 0, tombstone |-> FALSE]
NoRow == <<"none">>
Missing == [incarnation |-> 0, revision |-> 0]

StoreInit ==
    /\ partition = [t \in Projectors |->
                       [generation |-> 1, head |-> 0, compacted |-> 0,
                        stopped |-> NoFailure, pending |-> NoFailure]]
    /\ cursors = [t \in Projectors |-> [g \in Generations |-> NoCursor]]
    /\ receipts = [t \in Projectors |-> {}]
    /\ identities = [t \in Projectors |-> {}]
    /\ failures = [t \in Projectors |-> {}]
    /\ records = [t \in Projectors |-> [k \in Keys |-> NoRecord]]
    /\ rows = [t \in Projectors |-> [k \in Keys |-> NoRow]]
    /\ observations = [t \in Projectors |-> {}]
    /\ changes = [t \in Projectors |-> {}]
    /\ applied = [t \in Projectors |-> <<>>]

-----------------------------------------------------------------------------
(* Inputs.  A trusted input i has the fields projector, generation, cursor *)
(* (epoch and position in the source), message, causation and gapFree.     *)

Identity(i) == [cursor |-> i.cursor, message |-> i.message]

\* validate_input_identity: a cursor names one message, a message one cursor.
IdentityVerdict(i) ==
    LET known == identities[i.projector]
    IN  IF \E d \in known : d.cursor = i.cursor /\ d.message # i.message
        THEN "InputCorruption"
        ELSE IF \E d \in known : d.message = i.message /\ d.cursor # i.cursor
        THEN "MessageIdReuse"
        ELSE "Ok"

ensure_active_input(i) ==
    LET p == partition[i.projector]
    IN  IF p.generation # i.generation THEN "GenerationFenced"
        ELSE IF p.stopped # NoFailure THEN "PartitionStopped"
        ELSE "Ok"

Received(i, outcome) ==
    [generation |-> i.generation, cursor |-> i.cursor, message |-> i.message,
     outcome |-> outcome] \in receipts[i.projector]

\* Faulty variant: receipts alone tell a duplicate, and they are of one generation.
ClassifiesWithinGeneration(i) ==
    LET last == cursors[i.projector][i.generation]
    IN  IF Received(i, "applied") THEN "Duplicate"
        ELSE IF last = NoCursor \/ i.cursor.position = last.position THEN "New"
        ELSE IF last.epoch # i.cursor.epoch THEN "IncomparableInput"
        ELSE IF i.cursor.position < last.position THEN "Stale"
        ELSE "New"

\* classify_validated_input: against the receipts of the generation, then
\* against the cursor, which a repair copies from the generation before.
classify_input(i) ==
    LET last == cursors[i.projector][i.generation]
    IN  IF Received(i, "applied") THEN "Duplicate"
        ELSE IF Received(i, "failed") THEN "CorruptStorage"
        ELSE IF last = NoCursor THEN "New"
        ELSE IF last.epoch # i.cursor.epoch THEN "IncomparableInput"
        ELSE IF i.cursor.position < last.position THEN "Stale"
        ELSE IF i.cursor.position = last.position THEN "Duplicate"
        ELSE IF i.gapFree /\ i.cursor.position # last.position + 1
        THEN "IncomparableInput"
        ELSE "New"

SameInput(f, i) == f.cursor = i.cursor /\ f.message = i.message

\* Faulty variant: the fence of a repair is forgotten.
AllowsAnyInput(i) == TRUE

\* Faulty variant: the fence holds back the input that failed as well.
FencesEveryInput(i) == partition[i.projector].pending = NoFailure

\* ensure_pending_retry_input: a repaired generation starts with what failed.
AllowedByRetry(i) ==
    LET p == partition[i.projector].pending
    IN  p # NoFailure => SameInput(p, i)

\* projection_input_disposition, and the head of commit_projection: the checks
\* come in this order, whatever the batch holds.
Disposition(i) ==
    IF IdentityVerdict(i) # "Ok" THEN IdentityVerdict(i)
    ELSE IF ensure_active_input(i) # "Ok" THEN ensure_active_input(i)
    ELSE IF classify_input(i) # "New" THEN classify_input(i)
    ELSE IF ~AllowedByRetry(i) THEN "IncomparableInput"
    ELSE "New"

-----------------------------------------------------------------------------
(* Batches: at most one mutation, with the revision its handler read.      *)

NoMutation == [key |-> "none", kind |-> "None", expected |-> Missing, row |-> NoRow]

Revision(r) == [incarnation |-> r.incarnation, revision |-> r.revision]

\* Faulty variant: a writer does not have to name the revision it read.
OverwritesAnyRevision(r, m) ==
    IF r = NoRecord THEN "Ok"
    ELSE IF r.tombstone /\ m.kind # "Recreate" THEN "RecordTombstoned"
    ELSE "Ok"

\* next_record: what the mutation m may expect of the record r it meets.
RecordVerdict(r, m) ==
    IF m.expected = Missing
    THEN IF r = NoRecord THEN "Ok"
         ELSE IF r.tombstone THEN "RecordTombstoned"
         ELSE "RecordAlreadyExists"
    ELSE IF r = NoRecord THEN "RecordMissing"
    ELSE IF Revision(r) # m.expected THEN "RecordRevisionConflict"
    ELSE IF m.kind = "Recreate"
    THEN IF r.tombstone THEN "Ok" ELSE "RecreateRequiresTombstone"
    ELSE IF r.tombstone THEN "RecordTombstoned"
    ELSE "Ok"

next_record(r, m) ==
    IF m.expected = Missing THEN [incarnation |-> 1, revision |-> 1, tombstone |-> FALSE]
    ELSE IF m.kind = "Recreate"
    THEN [incarnation |-> r.incarnation + 1, revision |-> 1, tombstone |-> FALSE]
    ELSE [r EXCEPT !.revision = @ + 1, !.tombstone = m.kind = "Delete"]

MutationVerdict(i, m) ==
    LET r == records[i.projector][m.key]
        live == rows[i.projector][m.key] # NoRow
    IN  IF live /\ (r = NoRecord \/ r.tombstone) THEN "RecordAlreadyExists"
        ELSE IF ~live /\ r # NoRecord /\ ~r.tombstone THEN "RecordMissing"
        ELSE RecordVerdict(r, m)

\* Faulty variant: what the disposition found is not looked at again.
CommitsUnchecked(i, m) ==
    IF m = NoMutation THEN "Applied"
    ELSE IF MutationVerdict(i, m) # "Ok" THEN MutationVerdict(i, m)
    ELSE "Applied"

CommitVerdict(i, m) ==
    IF Disposition(i) # "New" THEN Disposition(i)
    ELSE IF m = NoMutation THEN "Applied"
    ELSE IF MutationVerdict(i, m) # "Ok" THEN MutationVerdict(i, m)
    ELSE "Applied"

-----------------------------------------------------------------------------
(* Writes.                                                                 *)

NextPosition(t) == partition[t].head + 1

\* retain_projection_change_suffix, for the change that is being appended.
Watermark(t) ==
    IF NextPosition(t) - Retention > partition[t].compacted THEN NextPosition(t) - Retention
    ELSE partition[t].compacted

\* allocate_change and insert_change.
AppendChange(t, kind, i, key) ==
    changes' = [changes EXCEPT ![t] =
                   {c \in @ \cup {[position |-> NextPosition(t), kind |-> kind,
                                   causation |-> i.causation, key |-> key]} :
                        c.position > Watermark(t)}]

\* "Causation observations are immutable earliest evidence."
Observe(i, m) ==
    LET t == i.projector
        seen == \E o \in observations[t] : o.causation = i.causation /\ o.key = m.key
    IN  observations' =
            [observations EXCEPT ![t] =
                IF m = NoMutation \/ seen THEN @
                ELSE @ \cup {[causation |-> i.causation, key |-> m.key,
                              change |-> NextPosition(t),
                              revision |-> Revision(next_record(records[t][m.key], m))]}]

ChangeKind(m) == IF m = NoMutation THEN "Checkpoint" ELSE m.kind

Applies(i, m) ==
    LET t == i.projector
    IN  /\ rows' = IF m = NoMutation THEN rows ELSE [rows EXCEPT ![t][m.key] = m.row]
        /\ records' = IF m = NoMutation THEN records
                      ELSE [records EXCEPT ![t][m.key] = next_record(@, m)]
        /\ AppendChange(t, ChangeKind(m), i, m.key)
        /\ Observe(i, m)
        /\ cursors' = [cursors EXCEPT ![t][i.generation] = i.cursor]
        /\ identities' = [identities EXCEPT ![t] = @ \cup {Identity(i)}]
        /\ receipts' = [receipts EXCEPT ![t] = @ \cup
                          {[generation |-> i.generation, cursor |-> i.cursor,
                            message |-> i.message, outcome |-> "applied"]}]
        /\ partition' = [partition EXCEPT ![t] =
                           [@ EXCEPT !.head = NextPosition(t), !.compacted = Watermark(t),
                                     !.pending = NoFailure]]
        /\ applied' = [applied EXCEPT ![t] = Append(@, Identity(i))]
        /\ UNCHANGED failures

commit_projection(i, m) ==
    IF CommitVerdict(i, m) = "Applied" THEN Applies(i, m) ELSE UNCHANGED store

Failure(i) == [generation |-> i.generation, cursor |-> i.cursor, message |-> i.message]

\* The failure id is a digest of the input and its generation.
FailureVerdict(i) ==
    LET p == partition[i.projector]
    IN  IF IdentityVerdict(i) # "Ok" THEN IdentityVerdict(i)
        ELSE IF p.generation # i.generation THEN "GenerationFenced"
        ELSE IF p.stopped = Failure(i) THEN "Recorded"
        ELSE IF p.stopped # NoFailure THEN "PartitionStopped"
        ELSE IF classify_input(i) \in {"Duplicate", "Stale"} THEN "InvalidBatch"
        ELSE IF classify_input(i) # "New" THEN classify_input(i)
        ELSE IF ~AllowedByRetry(i) THEN "IncomparableInput"
        ELSE "Records"

\* A failed input leaves a receipt and an identity, and the cursor where it was.
Stops(i) ==
    LET t == i.projector
    IN  /\ AppendChange(t, "Failure", i, "none")
        /\ failures' = [failures EXCEPT ![t] = @ \cup {Failure(i)}]
        /\ identities' = [identities EXCEPT ![t] = @ \cup {Identity(i)}]
        /\ receipts' = [receipts EXCEPT ![t] = @ \cup
                          {[generation |-> i.generation, cursor |-> i.cursor,
                            message |-> i.message, outcome |-> "failed"]}]
        /\ partition' = [partition EXCEPT ![t] =
                           [@ EXCEPT !.head = NextPosition(t), !.compacted = Watermark(t),
                                     !.pending = NoFailure, !.stopped = Failure(i)]]
        /\ UNCHANGED <<cursors, records, rows, observations, applied>>

record_projection_failure(i) ==
    IF FailureVerdict(i) = "Records" THEN Stops(i) ELSE UNCHANGED store

\* An operator repairs with the handle of the failure that stopped the partition.
repair_projection(t) ==
    LET old == partition[t].generation
    IN  /\ partition[t].stopped # NoFailure
        /\ old < MaxGeneration
        /\ cursors' = [cursors EXCEPT ![t][old + 1] = cursors[t][old]]
        /\ partition' = [partition EXCEPT ![t] =
                           [@ EXCEPT !.generation = old + 1, !.pending = partition[t].stopped,
                                     !.stopped = NoFailure]]
        /\ UNCHANGED <<receipts, identities, failures, records, rows, observations, changes,
                       applied>>

\* An operator compacts the change log through a position that is there.
compact_projection_changes(t, through) ==
    /\ through \in (partition[t].compacted + 1)..partition[t].head
    /\ changes' = [changes EXCEPT ![t] = {c \in @ : c.position > through}]
    /\ partition' = [partition EXCEPT ![t].compacted = through]
    /\ UNCHANGED <<cursors, receipts, identities, failures, records, rows, observations, applied>>
=============================================================================
