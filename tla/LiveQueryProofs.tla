-------------------------- MODULE LiveQueryProofs ---------------------------
(***************************************************************************)
(* Proofs that live queries miss no change and lose no wake-up, for any    *)
(* inputs, subscribers, channel capacities, budgets and retentions.        *)
(*                                                                         *)
(* The change log has the positions after the compaction watermark up to   *)
(* the head, all of them.  A subscription that is not about to send a      *)
(* frame resumes from the cursor its client has; one that is has, in the   *)
(* frame, everything after that cursor, or a reset.                        *)
(*                                                                         *)
(* While a client, or a frame that is about to be sent to it, has rows     *)
(* that are out of date, an announcement of the change is still to be made *)
(* or is in a channel, or a channel will tell its receiver that it lags.   *)
(***************************************************************************)
EXTENDS LiveQuery, TLAPS

Head0 == partition[Projector].head
Compacted == partition[Projector].compacted

\* The fields that are kept as they are have no type here.
PartitionFields(p) ==
    [generation : {p.generation}, head : Nat, compacted : Nat, stopped : {p.stopped},
     pending : {p.pending}]

\* The change log has every position after the watermark, up to the head.
LogOK ==
    /\ partition = [t \in Projectors |-> partition[t]]
    /\ partition[Projector] \in PartitionFields(partition[Projector])
    /\ changes = [t \in Projectors |-> changes[t]]
    /\ Compacted <= Head0
    /\ {c.position : c \in changes[Projector]} = (Compacted + 1)..Head0

FrameFields(r) == [rows : {r}, position : Nat \cup {Absent}, changes : SUBSET Nat, reset : BOOLEAN]
LiveFields(l, f) ==
    [at : {"Closed", "Wait", "Debounce", "Execute", "Send"}, resume : Nat \cup {Absent},
     last : FrameFields(l), frame : FrameFields(f)]
ClientFields(r) ==
    [rows : {r}, position : Nat \cup {Absent}, base : Nat \cup {Absent}, changes : SUBSET Nat,
     told : BOOLEAN]

\* What a client has, and that it is part of the change log.
ClientOK(k, head) ==
    /\ k \in ClientFields(k.rows)
    /\ k.position # Absent => /\ k.base \in Nat /\ k.base <= k.position /\ k.position <= head
                              /\ k.changes = (k.base + 1)..k.position

\* A frame that the client of cursor position takes up without a gap.
Continues(f, position, head) ==
    /\ f.position \in Nat /\ f.position <= head
    /\ position # Absent => /\ position <= f.position
                            /\ ~f.reset => f.changes = (position + 1)..f.position

LiveOK(l, position, head) ==
    /\ l \in LiveFields(l.last.rows, l.frame.rows)
    /\ l.at \in {"Wait", "Debounce", "Execute"} => l.resume = position
    /\ l.last.position # Absent => l.last.position = position
    /\ l.at = "Send" => l.resume = l.frame.position /\ Continues(l.frame, position, head)

Inv ==
    /\ LogOK
    /\ client = [s \in Subscribers |-> client[s]]
    /\ live = [s \in Subscribers |-> live[s]]
    /\ \A s \in Subscribers : /\ ClientOK(client[s], Head0)
                              /\ LiveOK(live[s], client[s].position, Head0)

-----------------------------------------------------------------------------
(* The change log.                                                         *)

\* Head and watermark are numbers.
LEMMA LogNumbers ==
    ASSUME LogOK
    PROVE  Head0 \in Nat /\ Compacted \in Nat
BY DEF LogOK, PartitionFields, Head0, Compacted

\* The row of the partition after a change to it, by its fields.
LEMMA PartitionMoves ==
    ASSUME LogOK, NEW p, NEW h \in Nat, NEW k \in Nat, p \in PartitionFields(p),
           p.head = h, p.compacted = k, partition' = [partition EXCEPT ![Projector] = p]
    PROVE  /\ partition' = [t \in Projectors |-> partition'[t]]
           /\ partition'[Projector] \in PartitionFields(partition'[Projector])
           /\ Head0' = h /\ Compacted' = k
<1>1. Projector \in Projectors
    BY LiveAssumption DEF LiveAssumption
<1>2. partition'[Projector] = p
    BY Zenon, <1>1 DEF LogOK
<1>3. partition' = [t \in Projectors |-> partition'[t]]
    BY Zenon, <1>1 DEF LogOK
<1> QED
    BY <1>2, <1>3 DEF Head0, Compacted

\* A change is appended, and the old end is compacted.
LEMMA AppendKeeps ==
    ASSUME LogOK, NEW kind, NEW i, NEW key, AppendChange(Projector, kind, i, key),
           NEW p, p \in PartitionFields(p), p.head = NextPosition(Projector),
           p.compacted = Watermark(Projector), partition' = [partition EXCEPT ![Projector] = p]
    PROVE  LogOK' /\ Head0' >= Head0
<1> DEFINE new == [position |-> NextPosition(Projector), kind |-> kind,
                   causation |-> i.causation, key |-> key]
           w == Watermark(Projector)
           h == NextPosition(Projector)
<1>1. Projector \in Projectors /\ Head0 \in Nat /\ Compacted \in Nat /\ Compacted <= Head0
    BY LiveAssumption, LogNumbers DEF LiveAssumption, LogOK
<1>2. /\ h \in Nat /\ h = Head0 + 1
      /\ w \in Nat /\ Compacted <= w /\ w <= Head0
    BY <1>1, StoreAssumption DEF StoreAssumption, NextPosition, Watermark, Head0, Compacted
<1>3. /\ partition' = [t \in Projectors |-> partition'[t]]
      /\ partition'[Projector] \in PartitionFields(partition'[Projector])
      /\ Head0' = h /\ Compacted' = w
    BY ZenonT(60), <1>2, PartitionMoves
<1>4. /\ changes'[Projector] = {c \in changes[Projector] \cup {new} : c.position > w}
      /\ changes' = [t \in Projectors |-> changes'[t]]
  <2>1. changes' = [changes EXCEPT ![Projector] = {c \in @ \cup {new} : c.position > w}]
      BY DEF AppendChange
  <2> HIDE DEF new, w
  <2> QED
      BY Zenon, <1>1, <2>1 DEF LogOK
<1>5. new.position = h
    OBVIOUS
<1> HIDE DEF new, w, h
<1>6. {c.position : c \in changes[Projector]} = (Compacted + 1)..Head0
    BY DEF LogOK
<1>7. {c.position : c \in changes'[Projector]} = (w + 1)..h
  <2>1. ASSUME NEW c \in changes'[Projector] PROVE c.position \in (w + 1)..h
    <3>1. c.position \in (Compacted + 1)..Head0 \/ c.position = h
        BY <1>4, <1>5, <1>6
    <3> QED
        BY <1>1, <1>2, <1>4, <3>1
  <2>2. ASSUME NEW x \in (w + 1)..h PROVE \E c \in changes'[Projector] : x = c.position
    <3>1. CASE x = h
        BY <1>2, <1>4, <1>5, <3>1
    <3>2. CASE x # h
      <4>1. x \in (Compacted + 1)..Head0
          BY <1>1, <1>2, <3>2
      <4>2. PICK c \in changes[Projector] : x = c.position
          BY <1>6, <4>1
      <4>3. c.position > w
          BY <1>2, <4>2
      <4> QED
          BY <1>4, <4>2, <4>3
    <3> QED
        BY <3>1, <3>2
  <2> QED
      BY <2>1, <2>2
<1>8. LogOK'
  <2>1. w <= h
      BY <1>1, <1>2
  <2> QED
      BY ZenonT(60), <1>3, <1>4, <1>7, <2>1 DEF LogOK
<1> QED
    BY <1>1, <1>2, <1>3, <1>8

\* A commit, and a failure put on record, append one change.
LEMMA CommitGrows ==
    ASSUME LogOK, Commit \/ RecordFailure
    PROVE  LogOK' /\ Head0' >= Head0
<1> DEFINE q == partition[Projector]
           w == Watermark(Projector)
           h == NextPosition(Projector)
<1>1. q \in PartitionFields(q) /\ h \in Nat /\ w \in Nat
  <2>1. Head0 \in Nat /\ Compacted \in Nat
      BY LogNumbers
  <2> QED
      BY <2>1, StoreAssumption DEF LogOK, StoreAssumption, NextPosition, Watermark, Head0, Compacted
<1>2. Input.projector = Projector
    BY DEF Input
<1>3. CASE Commit
  <2> DEFINE p == [q EXCEPT !.head = h, !.compacted = w, !.pending = NoFailure]
  <2>1. Applies(Input, Mutation)
      BY Zenon, <1>3 DEF Commit, commit_projection
  <2>2. /\ AppendChange(Projector, ChangeKind(Mutation), Input, Mutation.key)
        /\ partition' = [partition EXCEPT ![Projector] = p]
      BY Zenon, <1>2, <2>1 DEF Applies
  <2>3. p \in PartitionFields(p) /\ p.head = h /\ p.compacted = w
      BY ZenonT(60), <1>1 DEF PartitionFields
  <2> HIDE DEF p
  <2> QED
      BY ZenonT(60), <2>2, <2>3, AppendKeeps
<1>4. CASE RecordFailure
  <2> DEFINE f == Failure(Input)
             p == [q EXCEPT !.head = h, !.compacted = w, !.pending = NoFailure, !.stopped = f]
  <2>1. Stops(Input)
      BY Zenon, <1>4 DEF RecordFailure, record_projection_failure
  <2>2. /\ AppendChange(Projector, "Failure", Input, "none")
        /\ partition' = [partition EXCEPT ![Projector] = p]
      BY Zenon, <1>2, <2>1 DEF Stops
  <2> HIDE DEF f
  <2>3. p \in PartitionFields(p) /\ p.head = h /\ p.compacted = w
      BY ZenonT(60), <1>1 DEF PartitionFields
  <2> HIDE DEF p
  <2> QED
      BY ZenonT(60), <2>2, <2>3, AppendKeeps
<1> QED
    BY <1>3, <1>4

\* A repair leaves the change log alone; a compaction takes away its old end.
LEMMA OperatorKeepsLog ==
    ASSUME LogOK, Repair \/ Compact
    PROVE  LogOK' /\ Head0' >= Head0
<1> DEFINE q == partition[Projector]
<1>1. /\ q \in PartitionFields(q) /\ Head0 \in Nat /\ Compacted \in Nat
      /\ q.head = Head0 /\ q.compacted = Compacted /\ Projector \in Projectors
    BY LogNumbers, LiveAssumption DEF LogOK, Head0, Compacted, LiveAssumption
<1>2. CASE Repair
  <2> DEFINE p == [q EXCEPT !.generation = q.generation + 1, !.pending = q.stopped,
                            !.stopped = NoFailure]
  <2>1. partition' = [partition EXCEPT ![Projector] = p] /\ UNCHANGED changes
      BY Zenon, <1>2 DEF Repair, repair_projection
  <2>2. p \in PartitionFields(p) /\ p.head = Head0 /\ p.compacted = Compacted
      BY ZenonT(60), <1>1 DEF PartitionFields
  <2> HIDE DEF p
  <2>3. /\ partition' = [t \in Projectors |-> partition'[t]]
        /\ partition'[Projector] \in PartitionFields(partition'[Projector])
        /\ Head0' = Head0 /\ Compacted' = Compacted
      BY Zenon, <1>1, <2>1, <2>2, PartitionMoves
  <2> QED
      BY <1>1, <2>1, <2>3 DEF LogOK
<1>3. CASE Compact
  <2>1. PICK through \in 1..Position : compact_projection_changes(Projector, through)
      BY <1>3 DEF Compact
  <2> DEFINE p == [q EXCEPT !.compacted = through]
  <2>2. /\ through \in (Compacted + 1)..Head0 /\ through \in Nat
        /\ partition' = [partition EXCEPT ![Projector] = p]
        /\ changes' = [changes EXCEPT ![Projector] = {c \in @ : c.position > through}]
    <3>1. /\ through \in (Compacted + 1)..Head0
          /\ partition' = [partition EXCEPT ![Projector].compacted = through]
          /\ changes' = [changes EXCEPT ![Projector] = {c \in @ : c.position > through}]
        BY <2>1 DEF compact_projection_changes, Head0, Compacted
    <3>2. [partition EXCEPT ![Projector].compacted = through]
          = [partition EXCEPT ![Projector] = p]
        BY Zenon
    <3>3. through \in Nat
        BY <1>1, <3>1
    <3> QED
        BY Zenon, <3>1, <3>2, <3>3
  <2>3. p \in PartitionFields(p) /\ p.head = Head0 /\ p.compacted = through
      BY <1>1, <2>2 DEF PartitionFields
  <2> HIDE DEF p
  <2>4. /\ partition' = [t \in Projectors |-> partition'[t]]
        /\ partition'[Projector] \in PartitionFields(partition'[Projector])
        /\ Head0' = Head0 /\ Compacted' = through
      BY ZenonT(60), <1>1, <2>2, <2>3, PartitionMoves
  <2>5. /\ changes'[Projector] = {c \in changes[Projector] : c.position > through}
        /\ changes' = [t \in Projectors |-> changes'[t]]
      BY Zenon, <1>1, <2>2 DEF LogOK
  <2>6. {c.position : c \in changes[Projector]} = (Compacted + 1)..Head0
      BY DEF LogOK
  <2>7. {c.position : c \in changes'[Projector]} = (through + 1)..Head0
    <3>1. ASSUME NEW c \in changes'[Projector] PROVE c.position \in (through + 1)..Head0
      <4>1. c.position \in (Compacted + 1)..Head0 /\ c.position > through
          BY <2>5, <2>6
      <4> QED
          BY <1>1, <2>2, <4>1
    <3>2. ASSUME NEW x \in (through + 1)..Head0
          PROVE  \E c \in changes'[Projector] : x = c.position
      <4>1. x \in (Compacted + 1)..Head0 /\ x > through
          BY <1>1, <2>2
      <4>2. PICK c \in changes[Projector] : x = c.position
          BY <2>6, <4>1
      <4> QED
          BY <2>5, <4>1, <4>2
    <3> QED
        BY <3>1, <3>2
  <2> QED
      BY <1>1, <2>2, <2>4, <2>5, <2>7 DEF LogOK
<1> QED
    BY <1>2, <1>3

-----------------------------------------------------------------------------
(* Frames.                                                                 *)

\* A frame for a cursor the log knows carries on from it, or is a reset.
LEMMA FrameOK ==
    ASSUME LogOK, NEW r \in Nat \cup {Absent}, r # Absent => r <= Head0
    PROVE  /\ Frame(r) \in FrameFields(Frame(r).rows)
           /\ Frame(r).position = Head0 /\ Frame(r).position # Absent
           /\ Continues(Frame(r), r, Head0)
<1> DEFINE read == IF r \in {Absent, Position} THEN [reset |-> FALSE, changes |-> {}]
                   ELSE read_projection_changes(r)
           reset == read.reset \/ Cardinality(read.changes) > Budget
           frame == [rows |-> rows[Projector], position |-> Position, reset |-> reset,
                     changes |-> IF reset THEN {} ELSE {c.position : c \in read.changes}]
<1>1. Head0 \in Nat /\ Compacted \in Nat /\ Compacted <= Head0 /\ Position = Head0
    BY ZenonT(60), LogNumbers DEF LogOK, Position, Head0
<1>2. {c.position : c \in changes[Projector]} = (Compacted + 1)..Head0
    BY DEF LogOK
<1>3. read.reset \in BOOLEAN /\ (~read.reset /\ r # Absent =>
          {c.position : c \in read.changes} = (r + 1)..Head0)
  <2>1. CASE r \in {Absent, Position}
    <3>1. read.reset = FALSE /\ read.changes = {}
        BY <2>1
    <3>2. r # Absent => (r + 1)..Head0 = {}
        BY <1>1, <2>1
    <3> HIDE DEF read
    <3> QED
        BY Zenon, <3>1, <3>2
  <2>2. CASE r \notin {Absent, Position}
    <3> DEFINE gone == IF r = 0 THEN Compacted > 0 ELSE r > Head0 \/ r < Compacted
    <3>1. /\ read.reset = gone
          /\ ~gone => read.changes = {c \in changes[Projector] : c.position > r}
        BY <2>2 DEF read_projection_changes, Head0, Compacted
    <3>2. r \in Nat
        BY <2>2
    <3>3. ASSUME ~gone
          PROVE  {c.position : c \in read.changes} = (r + 1)..Head0
      <4>1. Compacted <= r
          BY <1>1, <3>2, <3>3
      <4>2. read.changes = {c \in changes[Projector] : c.position > r}
          BY <3>1, <3>3
      <4> HIDE DEF read
      <4>3. ASSUME NEW c \in read.changes PROVE c.position \in (r + 1)..Head0
        <5>1. c.position \in (Compacted + 1)..Head0 /\ c.position > r
            BY <1>2, <4>2
        <5> QED
            BY <1>1, <3>2, <5>1
      <4>4. ASSUME NEW x \in (r + 1)..Head0 PROVE \E c \in read.changes : x = c.position
        <5>1. x \in (Compacted + 1)..Head0 /\ x > r
            BY <1>1, <3>2, <4>1
        <5>2. PICK c \in changes[Projector] : x = c.position
            BY <1>2, <5>1
        <5> QED
            BY <4>2, <5>1, <5>2
      <4> QED
          BY <4>3, <4>4
    <3>4. gone \in BOOLEAN
      <4>1. (Compacted > 0) \in BOOLEAN /\ (r > Head0 \/ r < Compacted) \in BOOLEAN
          BY <1>1, <3>2
      <4> QED
          BY Zenon, <4>1
    <3> HIDE DEF read, gone
    <3> QED
        BY Zenon, <3>1, <3>3, <3>4
  <2> QED
      BY ZenonT(60), <2>1, <2>2
<1>4. Frame(r) = frame
    BY Zenon DEF Frame
<1>5. /\ frame.position = Head0 /\ frame.reset = reset
      /\ frame.changes = IF reset THEN {} ELSE {c.position : c \in read.changes}
      /\ frame.rows = rows[Projector]
      /\ frame = [rows |-> frame.rows, position |-> frame.position, reset |-> frame.reset,
                  changes |-> frame.changes]
    BY Zenon, <1>1
<1> HIDE DEF frame, read
<1>6. r # Absent /\ ~reset => frame.changes = (r + 1)..Head0
    BY <1>3, <1>5
<1>7. frame.changes \subseteq Nat
  <2>1. ASSUME NEW c \in changes[Projector] PROVE c.position \in Nat
    <3>1. c.position \in (Compacted + 1)..Head0
        BY <1>2
    <3> QED
        BY <1>1, <3>1
  <2>2. read.changes \subseteq changes[Projector]
      BY DEF read, read_projection_changes
  <2> QED
      BY <1>5, <2>1, <2>2
<1>8. reset \in BOOLEAN
    OBVIOUS
<1> HIDE DEF reset
<1>9. frame \in FrameFields(frame.rows)
    BY <1>1, <1>5, <1>7, <1>8 DEF FrameFields
<1>10. Continues(frame, r, Head0)
    BY <1>1, <1>5, <1>6 DEF Continues
<1>11. Head0 # Absent
    BY <1>1 DEF Absent
<1> QED
    BY <1>4, <1>5, <1>9, <1>10, <1>11

-----------------------------------------------------------------------------
(* The subscriptions.                                                      *)

\* Whatever the log grows by, what clients and tasks have of it stays right.
LEMMA LogGrows ==
    ASSUME Inv, LogOK', Head0' >= Head0, UNCHANGED <<live, client>>
    PROVE  Inv'
<1>1. Head0 \in Nat /\ Head0' \in Nat
  <2>1. LogOK' => Head0' \in Nat
      BY DEF LogOK, PartitionFields, Head0, Compacted
  <2> QED
      BY <2>1, LogNumbers DEF Inv
<1>2. ASSUME NEW s \in Subscribers
      PROVE  ClientOK(client[s], Head0') /\ LiveOK(live[s], client[s].position, Head0')
  <2>1. ClientOK(client[s], Head0) /\ LiveOK(live[s], client[s].position, Head0)
      BY DEF Inv
  <2>2. ClientOK(client[s], Head0')
    <3>1. client[s] \in ClientFields(client[s].rows)
        BY <2>1 DEF ClientOK
    <3>2. client[s].position \in Nat \cup {Absent}
        BY ZenonT(60), <3>1 DEF ClientFields
    <3> QED
        BY <1>1, <2>1, <3>2 DEF ClientOK, Absent
  <2>3. LiveOK(live[s], client[s].position, Head0')
      BY SMTT(60), <1>1, <2>1 DEF LiveOK, Continues
  <2> QED
      BY <2>2, <2>3
<1>3. \A s \in Subscribers : /\ ClientOK(client[s], Head0)'
                             /\ LiveOK(live[s], client[s].position, Head0)'
    BY <1>2
<1> QED
    BY <1>3 DEF Inv

\* One subscription moves, and the log does not.
LEMMA SubscriberMoves ==
    ASSUME Inv, NEW s \in Subscribers, NEW l, NEW k,
           live' = [live EXCEPT ![s] = l], client' = [client EXCEPT ![s] = k],
           ClientOK(k, Head0), LiveOK(l, k.position, Head0), UNCHANGED store
    PROVE  Inv'
<1>1. UNCHANGED <<partition, changes>>
    BY DEF store
<1>2. LogOK' /\ Head0' = Head0
    BY ZenonT(60), <1>1 DEF Inv, LogOK, Head0, Compacted
<1>3. /\ live' = [u \in Subscribers |-> live'[u]]
      /\ client' = [u \in Subscribers |-> client'[u]]
      /\ live'[s] = l /\ client'[s] = k
      /\ \A u \in Subscribers \ {s} : live'[u] = live[u] /\ client'[u] = client[u]
    BY Zenon DEF Inv
<1>4. ASSUME NEW u \in Subscribers
      PROVE  ClientOK(client'[u], Head0) /\ LiveOK(live'[u], client'[u].position, Head0)
  <2>1. CASE u = s
      BY Zenon, <1>3, <2>1
  <2>2. CASE u # s
      BY Zenon, <1>3, <2>2 DEF Inv
  <2> QED
      BY <2>1, <2>2
<1>5. \A u \in Subscribers : /\ ClientOK(client[u], Head0)'
                             /\ LiveOK(live[u], client[u].position, Head0)'
    BY <1>2, <1>4
<1> QED
    BY <1>2, <1>3, <1>5 DEF Inv

\* The task of a subscription moves; its client sees nothing of it.
LEMMA TaskMoves ==
    ASSUME Inv, NEW s \in Subscribers, NEW l, live' = [live EXCEPT ![s] = l],
           LiveOK(l, client[s].position, Head0), UNCHANGED <<store, client>>
    PROVE  Inv'
<1>1. ClientOK(client[s], Head0)
    BY DEF Inv
<1>2. client' = [client EXCEPT ![s] = client[s]]
    BY Zenon DEF Inv
<1> QED
    BY Zenon, <1>1, <1>2, SubscriberMoves

\* A subscription that is closed agrees with any client.
LEMMA ClosedOK ==
    ASSUME NEW position, NEW head
    PROVE  LiveOK(Closed, position, head)
<1>1. NoFrame \in FrameFields(<<>>) /\ NoFrame.rows = <<>> /\ NoFrame.position = Absent
    BY DEF NoFrame, FrameFields
<1>2. /\ Closed.at = "Closed" /\ Closed.resume = Absent
      /\ Closed.last = NoFrame /\ Closed.frame = NoFrame
      /\ Closed = [at |-> Closed.at, resume |-> Closed.resume, last |-> Closed.last,
                   frame |-> Closed.frame]
    BY DEF Closed
<1>3. Closed \in LiveFields(<<>>, <<>>)
    BY <1>1, <1>2 DEF LiveFields
<1> QED
    BY <1>1, <1>2, <1>3 DEF LiveOK

\* A task between frames goes from one of its places to another.
LEMMA PlaceMoves ==
    ASSUME Inv, NEW s \in Subscribers, live[s].at \in {"Wait", "Debounce", "Execute"},
           NEW a \in {"Wait", "Debounce", "Execute"}
    PROVE  LiveOK([live[s] EXCEPT !.at = a], client[s].position, Head0)
<1> DEFINE l == [live[s] EXCEPT !.at = a]
<1>1. LiveOK(live[s], client[s].position, Head0)
    BY DEF Inv
<1>2. live[s] \in LiveFields(live[s].last.rows, live[s].frame.rows)
    BY Zenon, <1>1 DEF LiveOK
<1>3. /\ l.at = a /\ l.resume = live[s].resume /\ l.last = live[s].last
      /\ l.frame = live[s].frame /\ l \in LiveFields(live[s].last.rows, live[s].frame.rows)
    BY <1>2 DEF LiveFields
<1> HIDE DEF l
<1>4. LiveOK(l, client[s].position, Head0)
    BY Zenon, <1>1, <1>3 DEF LiveOK
<1> QED
    BY <1>4 DEF l

\* The query runs: its frame carries on from the cursor of the client, and one that
\* is not sent leaves the cursor where it is.
LEMMA ExecuteKeeps ==
    ASSUME Inv, NEW s \in Subscribers, Execute(s)
    PROVE  Inv'
<1> DEFINE f == Frame(live[s].resume)
           same == f = live[s].last
           l == [live[s] EXCEPT !.resume = f.position, !.at = IF same THEN "Wait" ELSE "Send",
                                !.frame = IF same THEN NoFrame ELSE f]
<1>1. /\ live[s].at = "Execute" /\ live' = [live EXCEPT ![s] = l]
      /\ UNCHANGED <<store, client>>
    BY Zenon DEF Execute
<1>2. LogOK /\ ClientOK(client[s], Head0) /\ LiveOK(live[s], client[s].position, Head0)
    BY DEF Inv
<1>3. /\ live[s] \in LiveFields(live[s].last.rows, live[s].frame.rows)
      /\ live[s].resume = client[s].position
      /\ live[s].last.position # Absent => live[s].last.position = client[s].position
    BY <1>1, <1>2 DEF LiveOK
<1>4. /\ client[s].position \in Nat \cup {Absent}
      /\ client[s].position # Absent => client[s].position <= Head0
    BY ZenonT(60), <1>2 DEF ClientOK, ClientFields
<1>5. /\ f \in FrameFields(f.rows) /\ f.position \in Nat /\ f.position # Absent
      /\ Continues(f, client[s].position, Head0)
  <2>1. /\ f \in FrameFields(f.rows) /\ f.position # Absent
        /\ Continues(f, client[s].position, Head0)
      BY ZenonT(60), <1>2, <1>3, <1>4, FrameOK
  <2> QED
      BY Zenon, <2>1 DEF Continues
<1>6. NoFrame \in FrameFields(NoFrame.rows)
    BY Zenon DEF NoFrame, FrameFields
<1> HIDE DEF f
<1>7. CASE same
  <2>1. l = [live[s] EXCEPT !.resume = f.position, !.at = "Wait", !.frame = NoFrame]
      BY Zenon, <1>7
  <2>2. /\ l.at = "Wait" /\ l.resume = f.position /\ l.last = live[s].last
        /\ l \in LiveFields(live[s].last.rows, NoFrame.rows) /\ l.frame = NoFrame
      BY ZenonT(60), <1>3, <1>5, <1>6, <2>1 DEF LiveFields
  <2>3. f.position = client[s].position
      BY <1>3, <1>5, <1>7
  <2> HIDE DEF l
  <2>4. LiveOK(l, client[s].position, Head0)
      BY <1>3, <2>2, <2>3 DEF LiveOK
  <2> QED
      BY Zenon, <1>1, <2>4, TaskMoves
<1>8. CASE ~same
  <2>1. l = [live[s] EXCEPT !.resume = f.position, !.at = "Send", !.frame = f]
      BY Zenon, <1>8
  <2>2. /\ l.at = "Send" /\ l.resume = f.position /\ l.last = live[s].last
        /\ l \in LiveFields(live[s].last.rows, f.rows) /\ l.frame = f
      BY Zenon, <1>3, <1>5, <2>1 DEF LiveFields
  <2> HIDE DEF l
  <2>3. LiveOK(l, client[s].position, Head0)
      BY ZenonT(60), <1>3, <1>5, <2>2 DEF LiveOK
  <2> QED
      BY Zenon, <1>1, <2>3, TaskMoves
<1> QED
    BY <1>7, <1>8

\* The client takes the frame that was made for its cursor.
LEMMA SendKeeps ==
    ASSUME Inv, NEW s \in Subscribers, Send(s)
    PROVE  Inv'
<1> DEFINE f == live[s].frame
           fresh == f.reset \/ client[s].position = Absent
           l == [live[s] EXCEPT !.at = "Wait", !.last = f, !.frame = NoFrame]
           k == [rows |-> f.rows, position |-> f.position, told |-> FALSE,
                 base |-> IF fresh THEN f.position ELSE client[s].base,
                 changes |-> IF fresh THEN {} ELSE client[s].changes \cup f.changes]
<1>1. /\ live[s].at = "Send" /\ live' = [live EXCEPT ![s] = l]
      /\ client' = [client EXCEPT ![s] = k] /\ UNCHANGED store
    BY Zenon DEF Send
<1>2. LogOK /\ ClientOK(client[s], Head0) /\ LiveOK(live[s], client[s].position, Head0)
    BY DEF Inv
<1>3. /\ live[s] \in LiveFields(live[s].last.rows, f.rows)
      /\ Continues(f, client[s].position, Head0)
    BY <1>1, <1>2 DEF LiveOK
<1>4. /\ f \in FrameFields(f.rows) /\ f.reset \in BOOLEAN /\ f.changes \subseteq Nat
      /\ f.position \in Nat /\ f.position # Absent /\ f.position <= Head0
    BY <1>3 DEF LiveFields, FrameFields, Continues, Absent
<1>5. NoFrame \in FrameFields(NoFrame.rows)
    BY DEF NoFrame, FrameFields
<1>6. /\ l.at = "Wait" /\ l.last = f /\ l.frame = NoFrame /\ l.resume = live[s].resume
      /\ l \in LiveFields(f.rows, NoFrame.rows)
    BY Zenon, <1>3, <1>4, <1>5 DEF LiveFields
<1>7. live[s].resume = f.position
    BY <1>1, <1>2 DEF LiveOK
<1>8. /\ k.rows = f.rows /\ k.position = f.position /\ k.told = FALSE
      /\ k.base = (IF fresh THEN f.position ELSE client[s].base)
      /\ k.changes = (IF fresh THEN {} ELSE client[s].changes \cup f.changes)
      /\ k = [rows |-> k.rows, position |-> k.position, told |-> k.told, base |-> k.base,
              changes |-> k.changes]
    BY Zenon
<1> HIDE DEF l, f, k
<1>9. LiveOK(l, k.position, Head0)
    BY <1>4, <1>5, <1>6, <1>7, <1>8 DEF LiveOK
<1>10. /\ k.base \in Nat /\ k.base <= k.position /\ k.position <= Head0
       /\ k.changes = (k.base + 1)..k.position
  <2>1. CASE fresh
    <3>1. k.base = f.position /\ k.changes = {} /\ k.position = f.position
        BY Zenon, <1>8, <2>1
    <3> QED
        BY <1>4, <3>1
  <2>2. CASE ~fresh
    <3>1. /\ k.base = client[s].base /\ k.changes = client[s].changes \cup f.changes
          /\ k.position = f.position /\ ~f.reset /\ client[s].position # Absent
        BY Zenon, <1>8, <2>2
    <3>2. /\ client[s].base \in Nat /\ client[s].base <= client[s].position
          /\ client[s].changes = (client[s].base + 1)..client[s].position
          /\ client[s].position \in Nat
        BY <1>2, <3>1 DEF ClientOK, ClientFields
    <3>3. client[s].position <= f.position /\ f.changes = (client[s].position + 1)..f.position
        BY <1>3, <3>1 DEF Continues
    <3> HIDE DEF fresh
    <3> QED
        BY SMTT(60), <1>4, <3>1, <3>2, <3>3
  <2> QED
      BY <2>1, <2>2
<1>11. k.changes \subseteq Nat /\ k.told \in BOOLEAN
  <2>1. k.told \in BOOLEAN
      BY Zenon, <1>8
  <2>2. k.position \in Nat
      BY Zenon, <1>4, <1>8
  <2> HIDE DEF fresh
  <2> QED
      BY <1>10, <2>1, <2>2
<1>12. k \in ClientFields(k.rows)
    BY <1>4, <1>8, <1>10, <1>11 DEF ClientFields
<1>13. ClientOK(k, Head0)
    BY <1>10, <1>12 DEF ClientOK
<1> QED
    BY ZenonT(60), <1>1, <1>9, <1>13, SubscriberMoves

\* A query that fails ends the subscription, or leaves its cursor alone.
LEMMA ExecuteFailsKeeps ==
    ASSUME Inv, NEW s \in Subscribers, ExecuteFails(s)
    PROVE  Inv'
<1> DEFINE l == IF live[s].last = NoFrame THEN Closed ELSE [live[s] EXCEPT !.at = "Wait"]
           k == [client[s] EXCEPT !.told = TRUE]
<1>1. /\ live[s].at = "Execute" /\ live' = [live EXCEPT ![s] = l] /\ UNCHANGED store
      /\ client' = [client EXCEPT ![s] = k]
    BY Zenon DEF ExecuteFails, WaitsOn
<1>2. ClientOK(client[s], Head0) /\ client[s] \in ClientFields(client[s].rows)
    BY DEF Inv, ClientOK
<1>3. /\ k.rows = client[s].rows /\ k.position = client[s].position
      /\ k.base = client[s].base /\ k.changes = client[s].changes
      /\ k \in ClientFields(client[s].rows)
    BY Zenon, <1>2 DEF ClientFields
<1> HIDE DEF k
<1>4. ClientOK(k, Head0)
    BY <1>2, <1>3 DEF ClientOK
<1>5. LiveOK(l, k.position, Head0)
  <2>1. LiveOK([live[s] EXCEPT !.at = "Wait"], client[s].position, Head0)
      BY ZenonT(60), <1>1, PlaceMoves
  <2>2. LiveOK(Closed, client[s].position, Head0)
      BY ClosedOK
  <2> QED
      BY Zenon, <1>3, <2>1, <2>2
<1> HIDE DEF l
<1> QED
    BY Zenon, <1>1, <1>4, <1>5, SubscriberMoves

\* A client connects with its cursor.
LEMMA ConnectKeeps ==
    ASSUME Inv, NEW s \in Subscribers, Connect(s)
    PROVE  Inv'
<1> DEFINE l == [Closed EXCEPT !.at = "Execute", !.resume = client[s].position]
<1>1. live' = [live EXCEPT ![s] = l] /\ UNCHANGED <<store, client>>
    BY Zenon DEF Connect
<1>2. client[s].position \in Nat \cup {Absent}
    BY DEF Inv, ClientOK, ClientFields
<1>3. NoFrame \in FrameFields(<<>>) /\ NoFrame.rows = <<>> /\ NoFrame.position = Absent
    BY DEF NoFrame, FrameFields
<1>4. Closed \in LiveFields(<<>>, <<>>) /\ Closed.last = NoFrame /\ Closed.frame = NoFrame
    BY <1>3 DEF Closed, LiveFields, Absent
<1>5. /\ l.at = "Execute" /\ l.resume = client[s].position /\ l.last = NoFrame
      /\ l.frame = NoFrame /\ l \in LiveFields(<<>>, <<>>)
    BY Zenon, <1>2, <1>4 DEF LiveFields
<1> HIDE DEF l
<1>6. LiveOK(l, client[s].position, Head0)
    BY <1>3, <1>5 DEF LiveOK
<1> QED
    BY Zenon, <1>1, <1>6, TaskMoves

\* The task wakes up, and coalesces what it was told.
LEMMA WakeKeeps ==
    ASSUME Inv, NEW s \in Subscribers, Wake(s) \/ Coalesce(s) \/ Disconnect(s)
    PROVE  Inv'
<1>1. ASSUME NEW a \in {"Debounce", "Execute"}, live[s].at \in {"Wait", "Debounce"},
             live' = [live EXCEPT ![s].at = a], UNCHANGED <<store, client>>
      PROVE  Inv'
  <2>1. live' = [live EXCEPT ![s] = [live[s] EXCEPT !.at = a]]
      BY Zenon, <1>1
  <2>2. LiveOK([live[s] EXCEPT !.at = a], client[s].position, Head0)
      BY ZenonT(60), <1>1, PlaceMoves
  <2> QED
      BY Zenon, <1>1, <2>1, <2>2, TaskMoves
<1>2. CASE Wake(s)
  <2>1. /\ live[s].at = "Wait" /\ UNCHANGED <<store, client>>
        /\ live' = live \/ live' = [live EXCEPT ![s].at = "Debounce"]
      BY Zenon, <1>2 DEF Wake
  <2>2. CASE live' = live
    <3>1. UNCHANGED <<partition, changes>>
        BY <2>1 DEF store
    <3>2. LogOK' /\ Head0' = Head0
        BY ZenonT(60), <3>1 DEF Inv, LogOK, Head0, Compacted
    <3>3. Head0 \in Nat
        BY LogNumbers DEF Inv
    <3> QED
        BY <2>1, <2>2, <3>2, <3>3, LogGrows
  <2> QED
      BY <1>1, <2>1, <2>2
<1>3. CASE Coalesce(s)
  <2>1. /\ live[s].at = "Debounce" /\ UNCHANGED <<store, client>>
        /\ live' = [live EXCEPT ![s].at = "Execute"]
      BY Zenon, <1>3 DEF Coalesce
  <2> QED
      BY <1>1, <2>1
<1>4. CASE Disconnect(s)
  <2>1. live' = [live EXCEPT ![s] = Closed] /\ UNCHANGED <<store, client>>
      BY Zenon, <1>4 DEF Disconnect
  <2> QED
      BY Zenon, <2>1, ClosedOK, TaskMoves
<1> QED
    BY <1>2, <1>3, <1>4

-----------------------------------------------------------------------------
\* Nobody has been sent anything, and the log is empty.
LEMMA InvInit == Init => Inv
<1> SUFFICES ASSUME Init PROVE Inv
    OBVIOUS
<1> DEFINE p == [generation |-> 1, head |-> 0, compacted |-> 0, stopped |-> NoFailure,
                 pending |-> NoFailure]
           k == [rows |-> <<>>, position |-> Absent, base |-> Absent, changes |-> {},
                 told |-> FALSE]
<1>1. /\ partition = [t \in Projectors |-> p] /\ changes = [t \in Projectors |-> {}]
      /\ live = [s \in Subscribers |-> Closed] /\ client = [s \in Subscribers |-> k]
      /\ Projector \in Projectors
    BY Zenon, LiveAssumption DEF Init, StoreInit, LiveAssumption
<1>2. p \in PartitionFields(p) /\ p.head = 0 /\ p.compacted = 0
    BY DEF PartitionFields
<1>3. k \in ClientFields(k.rows) /\ k.position = Absent
    BY Zenon DEF ClientFields, Absent
<1> HIDE DEF p, k
<1>4. LogOK
  <2>1. partition[Projector] = p /\ changes[Projector] = {}
      BY <1>1
  <2>2. /\ partition = [t \in Projectors |-> partition[t]]
        /\ changes = [t \in Projectors |-> changes[t]]
      BY <1>1
  <2>3. Head0 = 0 /\ Compacted = 0
      BY <1>2, <2>1 DEF Head0, Compacted
  <2>4. {c.position : c \in changes[Projector]} = (Compacted + 1)..Head0
      BY <2>1, <2>3
  <2> QED
      BY <1>2, <2>1, <2>2, <2>3, <2>4 DEF LogOK
<1>5. ASSUME NEW s \in Subscribers
      PROVE  ClientOK(client[s], Head0) /\ LiveOK(live[s], client[s].position, Head0)
  <2>1. client[s] = k /\ live[s] = Closed
      BY <1>1
  <2>2. ClientOK(k, Head0)
      BY <1>3 DEF ClientOK
  <2> QED
      BY <2>1, <2>2, ClosedOK
<1>6. /\ client = [s \in Subscribers |-> client[s]]
      /\ live = [s \in Subscribers |-> live[s]]
    BY <1>1
<1> QED
    BY <1>4, <1>5, <1>6 DEF Inv

\* Every step keeps the log whole and the cursors in step with it.
LEMMA InvNext == Inv /\ [Next]_vars => Inv'
<1> SUFFICES ASSUME Inv, [Next]_vars PROVE Inv'
    OBVIOUS
<1>1. ASSUME UNCHANGED <<store, live, client>> PROVE Inv'
  <2>1. UNCHANGED <<partition, changes>>
      BY <1>1 DEF store
  <2>2. LogOK' /\ Head0' = Head0
      BY ZenonT(60), <2>1 DEF Inv, LogOK, Head0, Compacted
  <2>3. Head0 \in Nat
      BY LogNumbers DEF Inv
  <2> QED
      BY <1>1, <2>2, <2>3, LogGrows
<1>2. CASE Commit \/ RecordFailure
  <2>1. UNCHANGED <<live, client>>
      BY Zenon, <1>2 DEF Commit, RecordFailure
  <2> QED
      BY <1>2, <2>1, CommitGrows, LogGrows DEF Inv
<1>3. CASE Repair \/ Compact
  <2>1. UNCHANGED <<live, client>>
      BY Zenon, <1>3 DEF Repair, Compact
  <2> QED
      BY <1>3, <2>1, OperatorKeepsLog, LogGrows DEF Inv
<1>4. CASE Announce \/ Forward
    BY Zenon, <1>1, <1>4 DEF Announce, Forward
<1>5. CASE \E s \in Subscribers : Connect(s) \/ Task(s) \/ ExecuteFails(s) \/ Disconnect(s)
    BY <1>5, ConnectKeeps, WakeKeeps, ExecuteKeeps, SendKeeps, ExecuteFailsKeeps DEF Task
<1>6. CASE UNCHANGED vars
    BY Zenon, <1>1, <1>6 DEF vars
<1> QED
    BY Zenon, <1>2, <1>3, <1>4, <1>5, <1>6 DEF Next

\* NoChangeMissed, for any number of subscribers and inputs, any retention, budget
\* and channel capacity, and whatever the scheduling: what finish_protocol_query and
\* wire_live_metadata put into the frames of a client is the change log, without a
\* gap, from the frame that began its history to its cursor.
THEOREM NoChangeMissedHolds == FairSpec => []NoChangeMissed
<1>1. Inv => NoChangeMissed
    BY DEF Inv, ClientOK, NoChangeMissed
<1> QED
    BY <1>1, InvInit, InvNext, PTL DEF FairSpec

-----------------------------------------------------------------------------
(* No wake-up is lost.                                                     *)

\* Among these announcements is one of the table of the query.
Announces(queue) == \E i \in 1..Len(queue) : queue[i] # "Other"

\* A receiver of this channel will learn that the table may have changed.
Tells(channel) == channel.lagged \/ Announces(channel.queue)

OnItsWay(s) == Announces(unannounced) \/ Tells(repoChannel) \/ Tells(hubChannel[s])

\* The safety that EventuallyShown rests on: while a subscription waits and its
\* client has rows that are out of date, and no error to tell it so, an announcement
\* or a lag that will wake the subscription is on its way, however many announcements
\* were dropped.
ChangeIsOnItsWay ==
    \A s \in Subscribers :
        live[s].at = "Wait" /\ client[s].rows # rows[Projector] /\ ~client[s].told => OnItsWay(s)

Channels == [queue : Seq(Announcements), lagged : BOOLEAN]

ChannelTypes ==
    /\ unannounced \in Seq(Announcements)
    /\ repoChannel \in Channels
    /\ hubChannel \in [Subscribers -> Channels]

\* A task l, its client k and the rows r: what was sent last is what the client has,
\* and a frame that waits to be sent may be out of date as well.
Watched(l, k, r, coming) ==
    /\ l.last # NoFrame => l.last.rows = k.rows
    /\ l.at = "Wait" /\ k.rows # r /\ ~k.told => coming
    /\ l.at = "Send" /\ l.frame.rows # r => coming

WakeInv ==
    /\ ChannelTypes
    /\ \A s \in Subscribers : Watched(live[s], client[s], rows[Projector], OnItsWay(s))

\* What is appended is announced, and what was announced stays.
LEMMA AppendAnnounces ==
    ASSUME NEW q \in Seq(Announcements), NEW a \in Announcements
    PROVE  /\ Append(q, a) \in Seq(Announcements)
           /\ a # "Other" \/ Announces(q) => Announces(Append(q, a))
<1>1. /\ Append(q, a) \in Seq(Announcements) /\ Len(Append(q, a)) = Len(q) + 1
      /\ Append(q, a)[Len(q) + 1] = a /\ Len(q) \in Nat
      /\ \A i \in 1..Len(q) : Append(q, a)[i] = q[i]
    OBVIOUS
<1> DEFINE r == Append(q, a)
<1> HIDE DEF r
<1>2. CASE a # "Other"
  <2>1. Len(r) \in 1..Len(r) /\ r[Len(r)] = a
      BY <1>1 DEF r
  <2> QED
      BY Zenon, <1>1, <1>2, <2>1 DEF Announces, r
<1>3. CASE Announces(q)
  <2>1. PICK i \in 1..Len(q) : q[i] # "Other"
      BY Zenon, <1>3 DEF Announces
  <2>2. i \in 1..Len(r) /\ r[i] = q[i]
      BY <1>1 DEF r
  <2> QED
      BY Zenon, <1>1, <2>1, <2>2 DEF Announces, r
<1> QED
    BY Zenon, <1>1, <1>2, <1>3

\* Without its first, a queue announces what it did, unless that was the first.
LEMMA TailAnnounces ==
    ASSUME NEW q \in Seq(Announcements), q # <<>>
    PROVE  /\ Head(q) \in Announcements /\ Tail(q) \in Seq(Announcements)
           /\ Announces(q) => Head(q) # "Other" \/ Announces(Tail(q))
<1>1. /\ Head(q) \in Announcements /\ Tail(q) \in Seq(Announcements) /\ Head(q) = q[1]
      /\ Len(q) \in Nat /\ Len(Tail(q)) = Len(q) - 1
      /\ \A i \in 1..(Len(q) - 1) : Tail(q)[i] = q[i + 1]
    OBVIOUS
<1>2. ASSUME Announces(q), Head(q) = "Other" PROVE Announces(Tail(q))
  <2>1. PICK i \in 1..Len(q) : q[i] # "Other"
      BY Zenon, <1>2 DEF Announces
  <2>2. i # 1
      BY Zenon, <1>1, <1>2, <2>1
  <2>3. i - 1 \in 1..Len(Tail(q)) /\ Tail(q)[i - 1] = q[i]
      BY <1>1, <2>2
  <2> QED
      BY Zenon, <2>1, <2>3 DEF Announces
<1> QED
    BY Zenon, <1>1, <1>2

\* A channel is made of a queue and a lag.
LEMMA ChannelFields ==
    ASSUME NEW c \in Channels
    PROVE  /\ c.queue \in Seq(Announcements) /\ c.lagged \in BOOLEAN
           /\ \A q \in Seq(Announcements) : /\ [c EXCEPT !.queue = q] \in Channels
                                            /\ [c EXCEPT !.queue = q].queue = q
                                            /\ [c EXCEPT !.queue = q].lagged = c.lagged
           /\ [c EXCEPT !.lagged = FALSE] \in Channels
           /\ [c EXCEPT !.lagged = FALSE].queue = c.queue
           /\ ~[c EXCEPT !.lagged = FALSE].lagged
BY Zenon DEF Channels

\* A channel that is sent an announcement passes it on, or tells of a lag.
LEMMA SentTells ==
    ASSUME NEW c \in Channels, NEW a \in Announcements
    PROVE  /\ Sent(c, a) \in Channels
           /\ a # "Other" \/ Tells(c) => Tells(Sent(c, a))
<1>1. c.queue \in Seq(Announcements) /\ c.lagged \in BOOLEAN
    BY Zenon, ChannelFields
<1>2. CASE Len(c.queue) < Capacity
  <2> DEFINE q == Append(c.queue, a)
             d == [c EXCEPT !.queue = q]
  <2>1. q \in Seq(Announcements) /\ (a # "Other" \/ Announces(c.queue) => Announces(q))
      BY Zenon, <1>1, AppendAnnounces
  <2>2. Sent(c, a) = d
      BY Zenon, <1>2 DEF Sent
  <2> HIDE DEF q
  <2>3. d \in Channels /\ d.queue = q /\ d.lagged = c.lagged
      BY Zenon, <2>1, ChannelFields
  <2> HIDE DEF d
  <2> QED
      BY Zenon, <2>1, <2>2, <2>3 DEF Tells
<1>3. CASE ~(Len(c.queue) < Capacity)
  <2> DEFINE q == Append(Tail(c.queue), a)
             d == [queue |-> q, lagged |-> TRUE]
  <2>1. c.queue # <<>>
      BY <1>3, LiveAssumption DEF LiveAssumption
  <2>2. Tail(c.queue) \in Seq(Announcements)
      BY Zenon, <1>1, <2>1, TailAnnounces
  <2>3. q \in Seq(Announcements)
      BY Zenon, <2>2, AppendAnnounces
  <2>4. Sent(c, a) = d
      BY Zenon, <1>3 DEF Sent
  <2> HIDE DEF q
  <2>5. d \in Channels /\ d.lagged
      BY Zenon, <2>3 DEF Channels
  <2> HIDE DEF d
  <2> QED
      BY Zenon, <2>4, <2>5 DEF Tells
<1> QED
    BY Zenon, <1>2, <1>3

\* Who takes what a channel has next is told, or will be by what is left.
LEMMA RestTells ==
    ASSUME NEW c \in Channels, Ready(c)
    PROVE  /\ Rest(c) \in Channels
           /\ ~c.lagged => Got(c) \in Announcements
           /\ c.lagged => Got(c) = "Lagged"
           /\ Tells(c) => c.lagged \/ Got(c) # "Other" \/ Tells(Rest(c))
<1>1. c.queue \in Seq(Announcements) /\ c.lagged \in BOOLEAN
    BY Zenon, ChannelFields
<1>2. CASE c.lagged
  <2>1. Rest(c) = [c EXCEPT !.lagged = FALSE] /\ Got(c) = "Lagged"
      BY Zenon, <1>2 DEF Rest, Got
  <2>2. Rest(c) \in Channels
      BY Zenon, <2>1, ChannelFields
  <2> QED
      BY Zenon, <1>2, <2>1, <2>2
<1>3. CASE ~c.lagged
  <2> DEFINE q == Tail(c.queue)
             d == [c EXCEPT !.queue = q]
  <2>1. c.queue # <<>>
      BY Zenon, <1>3 DEF Ready
  <2>2. Rest(c) = d /\ Got(c) = Head(c.queue)
      BY Zenon, <1>3 DEF Rest, Got
  <2>3. /\ Head(c.queue) \in Announcements /\ q \in Seq(Announcements)
        /\ Announces(c.queue) => Head(c.queue) # "Other" \/ Announces(q)
      BY Zenon, <1>1, <2>1, TailAnnounces
  <2> HIDE DEF q
  <2>4. d \in Channels /\ d.queue = q
      BY Zenon, <2>3, ChannelFields
  <2> HIDE DEF d
  <2> QED
      BY Zenon, <1>3, <2>2, <2>3, <2>4 DEF Tells
<1> QED
    BY Zenon, <1>2, <1>3

\* A channel without anything in it.
LEMMA EmptyIsChannel == Empty \in Channels
<1>1. <<>> \in Seq(Announcements)
    OBVIOUS
<1> QED
    BY Zenon, <1>1 DEF Empty, Channels

-----------------------------------------------------------------------------
(* Steps that leave the tasks and the clients alone.                       *)

\* What was on its way still is, and the rows stay; or something new is.
LEMMA StillWatched ==
    ASSUME WakeInv, ChannelTypes', UNCHANGED <<live, client>>,
           \A s \in Subscribers :
               \/ OnItsWay(s)'
               \/ rows' = rows /\ (live[s].at # "Closed" /\ OnItsWay(s) => OnItsWay(s)')
    PROVE  WakeInv'
<1>1. ASSUME NEW s \in Subscribers
      PROVE  Watched(live[s], client[s], rows'[Projector], OnItsWay(s)')
  <2>1. Watched(live[s], client[s], rows[Projector], OnItsWay(s))
      BY Zenon DEF WakeInv
  <2> QED
      BY Zenon, <2>1 DEF Watched
<1> QED
    BY Zenon, <1>1 DEF WakeInv

\* A transaction that changes the rows has an announcement of the table to make.
LEMMA CommitAnnounces ==
    ASSUME WakeInv, Commit \/ RecordFailure
    PROVE  WakeInv'
<1>1. PICK a \in {"Table", "Other"} :
          /\ unannounced' = Append(unannounced, a)
          /\ a = "Table" \/ rows' = rows
          /\ UNCHANGED <<repoChannel, hubChannel, live, client>>
  <2>1. CASE Commit
    <3>1. Applies(Input, Mutation) /\ UNCHANGED <<repoChannel, hubChannel, live, client>>
        BY Zenon, <2>1 DEF Commit, commit_projection
    <3>2. unannounced' = Append(unannounced, IF Mutation = NoMutation THEN "Other" ELSE "Table")
        BY Zenon, <2>1 DEF Commit
    <3>3. Mutation = NoMutation => rows' = rows
        BY Zenon, <3>1 DEF Applies
    <3> QED
        BY Zenon, <3>1, <3>2, <3>3
  <2>2. CASE RecordFailure
    <3>1. Stops(Input) /\ UNCHANGED <<repoChannel, hubChannel, live, client>>
          /\ unannounced' = Append(unannounced, "Other")
        BY Zenon, <2>2 DEF RecordFailure, record_projection_failure
    <3>2. rows' = rows
        BY Zenon, <3>1 DEF Stops
    <3> QED
        BY Zenon, <3>1, <3>2
  <2> QED
      BY Zenon, <2>1, <2>2
<1>2. unannounced \in Seq(Announcements) /\ a \in Announcements
    BY Zenon DEF WakeInv, ChannelTypes, Announcements
<1>3. /\ unannounced' \in Seq(Announcements)
      /\ a # "Other" \/ Announces(unannounced) => Announces(unannounced')
    BY Zenon, <1>1, <1>2, AppendAnnounces
<1>4. ChannelTypes'
    BY Zenon, <1>1, <1>3 DEF WakeInv, ChannelTypes
<1>5. ASSUME NEW s \in Subscribers
      PROVE  OnItsWay(s)' \/ (rows' = rows /\ (OnItsWay(s) => OnItsWay(s)'))
  <2>1. OnItsWay(s)' <=> Announces(unannounced') \/ Tells(repoChannel) \/ Tells(hubChannel[s])
      BY Zenon, <1>1 DEF OnItsWay, Announces, Tells
  <2>2. "Table" # "Other"
      OBVIOUS
  <2> QED
      BY Zenon, <1>1, <1>3, <2>1, <2>2 DEF OnItsWay
<1> QED
    BY Zenon, <1>1, <1>4, <1>5, StillWatched

\* Announcements move on to the channel of the repository, and from there to the hub.
LEMMA AnnouncementsMove ==
    ASSUME WakeInv, Announce \/ Forward
    PROVE  WakeInv'
<1>1. /\ unannounced \in Seq(Announcements) /\ repoChannel \in Channels
      /\ hubChannel \in [Subscribers -> Channels]
    BY Zenon DEF WakeInv, ChannelTypes
<1>2. CASE Announce
  <2>1. /\ unannounced # <<>> /\ repoChannel' = Sent(repoChannel, Head(unannounced))
        /\ unannounced' = Tail(unannounced) /\ UNCHANGED <<store, hubChannel, live, client>>
      BY Zenon, <1>2 DEF Announce
  <2>2. /\ Head(unannounced) \in Announcements /\ unannounced' \in Seq(Announcements)
        /\ Announces(unannounced) => Head(unannounced) # "Other" \/ Announces(unannounced')
      BY Zenon, <1>1, <2>1, TailAnnounces
  <2>3. /\ repoChannel' \in Channels
        /\ Head(unannounced) # "Other" \/ Tells(repoChannel) => Tells(repoChannel')
      BY Zenon, <1>1, <2>1, <2>2, SentTells
  <2>4. ChannelTypes'
      BY Zenon, <1>1, <2>1, <2>2, <2>3 DEF ChannelTypes
  <2>5. rows' = rows
      BY Zenon, <2>1 DEF store
  <2>6. ASSUME NEW s \in Subscribers, OnItsWay(s) PROVE OnItsWay(s)'
    <3>1. OnItsWay(s)' <=> Announces(unannounced') \/ Tells(repoChannel') \/ Tells(hubChannel[s])
        BY Zenon, <2>1 DEF OnItsWay, Announces, Tells
    <3> QED
        BY Zenon, <2>2, <2>3, <2>6, <3>1 DEF OnItsWay
  <2> QED
      BY Zenon, <2>1, <2>4, <2>5, <2>6, StillWatched
<1>3. CASE Forward
  <2> DEFINE a == IF repoChannel.lagged THEN "All" ELSE Got(repoChannel)
  <2>1. /\ Ready(repoChannel) /\ repoChannel' = Rest(repoChannel)
        /\ hubChannel' = [s \in Subscribers |-> IF live[s].at = "Closed" THEN hubChannel[s]
                                                ELSE Sent(hubChannel[s], a)]
        /\ UNCHANGED <<store, unannounced, live, client>>
      BY Zenon, <1>3 DEF Forward
  <2>2. /\ repoChannel' \in Channels
        /\ ~repoChannel.lagged => Got(repoChannel) \in Announcements
        /\ Tells(repoChannel) => repoChannel.lagged \/ Got(repoChannel) # "Other"
                                 \/ Tells(repoChannel')
      BY Zenon, <1>1, <2>1, RestTells
  <2>3. a \in Announcements /\ (Tells(repoChannel) => a # "Other" \/ Tells(repoChannel'))
      BY Zenon, <2>2 DEF Announcements
  <2> HIDE DEF a
  <2>4. ASSUME NEW s \in Subscribers
        PROVE  /\ hubChannel'[s] \in Channels
               /\ live[s].at # "Closed" /\ (a # "Other" \/ Tells(hubChannel[s]))
                  => Tells(hubChannel'[s])
    <3>1. hubChannel[s] \in Channels
        BY Zenon, <1>1
    <3>2. /\ Sent(hubChannel[s], a) \in Channels
          /\ a # "Other" \/ Tells(hubChannel[s]) => Tells(Sent(hubChannel[s], a))
        BY Zenon, <2>3, <3>1, SentTells
    <3> QED
        BY Zenon, <2>1, <3>1, <3>2
  <2>5. ChannelTypes'
      BY Zenon, <1>1, <2>1, <2>2, <2>4 DEF ChannelTypes
  <2>6. rows' = rows
      BY Zenon, <2>1 DEF store
  <2>7. ASSUME NEW s \in Subscribers, live[s].at # "Closed", OnItsWay(s) PROVE OnItsWay(s)'
    <3>1. OnItsWay(s)' <=> Announces(unannounced) \/ Tells(repoChannel') \/ Tells(hubChannel'[s])
        BY Zenon, <2>1 DEF OnItsWay, Announces, Tells
    <3> QED
        BY Zenon, <2>3, <2>4, <2>7, <3>1 DEF OnItsWay
  <2> QED
      BY Zenon, <2>1, <2>5, <2>6, <2>7, StillWatched
<1> QED
    BY Zenon, <1>2, <1>3

-----------------------------------------------------------------------------
(* Steps of one subscription.                                              *)

\* What is on its way to a subscription whose channel is c.
ComingBy(c) == Announces(unannounced) \/ Tells(repoChannel) \/ Tells(c)

\* One task, its client and its channel move; the others are as they were.
LEMMA WatchedMoves ==
    ASSUME Inv, WakeInv, NEW s \in Subscribers, NEW l, NEW k, NEW c \in Channels,
           live' = [live EXCEPT ![s] = l], client' = [client EXCEPT ![s] = k],
           hubChannel' = [hubChannel EXCEPT ![s] = c],
           UNCHANGED <<store, unannounced, repoChannel>>,
           Watched(l, k, rows[Projector], ComingBy(c))
    PROVE  WakeInv'
<1>1. /\ live = [u \in Subscribers |-> live[u]] /\ client = [u \in Subscribers |-> client[u]]
      /\ ChannelTypes
    BY Zenon DEF Inv, WakeInv
<1>2. rows' = rows
    BY Zenon DEF store
<1>3. /\ live'[s] = l /\ client'[s] = k /\ hubChannel'[s] = c
      /\ \A u \in Subscribers \ {s} :
             live'[u] = live[u] /\ client'[u] = client[u] /\ hubChannel'[u] = hubChannel[u]
    BY Zenon, <1>1 DEF ChannelTypes
<1>4. ChannelTypes'
    BY Zenon, <1>1 DEF ChannelTypes
<1>5. \A u \in Subscribers : OnItsWay(u)' <=> ComingBy(hubChannel'[u])
    BY Zenon DEF OnItsWay, ComingBy, Announces, Tells
<1>6. ASSUME NEW u \in Subscribers
      PROVE  Watched(live'[u], client'[u], rows[Projector], OnItsWay(u)')
  <2>1. CASE u = s
      BY ZenonT(60), <1>3, <1>5, <2>1 DEF Watched
  <2>2. CASE u # s
    <3>1. OnItsWay(u)' <=> OnItsWay(u)
        BY Zenon, <1>3, <1>5, <2>2 DEF OnItsWay, ComingBy
    <3>2. Watched(live[u], client[u], rows[Projector], OnItsWay(u))
        BY Zenon DEF WakeInv
    <3> QED
        BY Zenon, <1>3, <2>2, <3>1, <3>2 DEF Watched
  <2> QED
      BY Zenon, <2>1, <2>2
<1> QED
    BY Zenon, <1>2, <1>4, <1>6 DEF WakeInv

\* A subscription is woken by what concerns it and sleeps through the rest.
LEMMA WakeWatches ==
    ASSUME Inv, WakeInv, NEW s \in Subscribers, Wake(s)
    PROVE  WakeInv'
<1> DEFINE c == hubChannel[s]
           l == IF Got(c) = "Other" THEN live[s] ELSE [live[s] EXCEPT !.at = "Debounce"]
<1>1. /\ live[s].at = "Wait" /\ Ready(c) /\ hubChannel' = [hubChannel EXCEPT ![s] = Rest(c)]
      /\ UNCHANGED <<store, unannounced, repoChannel, client>>
      /\ live' = IF Got(c) = "Other" THEN live ELSE [live EXCEPT ![s].at = "Debounce"]
    BY Zenon DEF Wake
<1>2. /\ live = [u \in Subscribers |-> live[u]] /\ client = [u \in Subscribers |-> client[u]]
      /\ c \in Channels
    BY Zenon DEF Inv, WakeInv, ChannelTypes
<1>3. /\ Rest(c) \in Channels /\ (c.lagged => Got(c) = "Lagged")
      /\ Tells(c) => c.lagged \/ Got(c) # "Other" \/ Tells(Rest(c))
    BY Zenon, <1>1, <1>2, RestTells
<1>4. live' = [live EXCEPT ![s] = l] /\ client' = [client EXCEPT ![s] = client[s]]
    BY Zenon, <1>1, <1>2
<1>5. Watched(live[s], client[s], rows[Projector], ComingBy(c))
    BY Zenon DEF WakeInv, OnItsWay, ComingBy
<1>6. Watched(l, client[s], rows[Projector], ComingBy(Rest(c)))
  <2>1. CASE Got(c) = "Other"
    <3>1. l = live[s] /\ "Lagged" # "Other"
        BY <2>1
    <3>2. ComingBy(c) => ComingBy(Rest(c))
        BY Zenon, <1>3, <2>1, <3>1 DEF ComingBy
    <3> QED
        BY Zenon, <1>5, <3>1, <3>2 DEF Watched
  <2>2. CASE Got(c) # "Other"
    <3>1. l = [live[s] EXCEPT !.at = "Debounce"]
        BY Zenon, <2>2
    <3>2. l.at = "Debounce" /\ l.last = live[s].last
      <4>1. live[s] \in LiveFields(live[s].last.rows, live[s].frame.rows)
          BY Zenon DEF Inv, LiveOK
      <4> QED
          BY ZenonT(60), <3>1, <4>1 DEF LiveFields
    <3>3. "Debounce" \notin {"Wait", "Send"}
        OBVIOUS
    <3> HIDE DEF l
    <3> QED
        BY Zenon, <1>5, <3>2, <3>3 DEF Watched
  <2> QED
      BY Zenon, <2>1, <2>2
<1> HIDE DEF c, l
<1> QED
    BY Zenon, <1>1, <1>3, <1>4, <1>6, WatchedMoves

\* What the coalescing loop takes from the channel is answered by the query it
\* goes on to; a subscription that has just connected, or ended, waits for nothing.
LEMMA OthersWatch ==
    ASSUME Inv, WakeInv, NEW s \in Subscribers, Coalesce(s) \/ Connect(s) \/ Disconnect(s)
    PROVE  WakeInv'
<1> DEFINE c == hubChannel[s]
<1>1. /\ live = [u \in Subscribers |-> live[u]] /\ client = [u \in Subscribers |-> client[u]]
      /\ c \in Channels /\ hubChannel = [hubChannel EXCEPT ![s] = c]
    BY Zenon DEF Inv, WakeInv, ChannelTypes
<1>2. Watched(live[s], client[s], rows[Projector], ComingBy(c))
    BY Zenon DEF WakeInv, OnItsWay, ComingBy
<1>3. client = [client EXCEPT ![s] = client[s]]
    BY Zenon, <1>1
<1>4. live[s] \in LiveFields(live[s].last.rows, live[s].frame.rows)
    BY Zenon DEF Inv, LiveOK
<1>5. Closed.at = "Closed" /\ Closed.last = NoFrame
    BY Zenon DEF Closed
<1>6. "Execute" \notin {"Wait", "Send"} /\ "Closed" \notin {"Wait", "Send"}
    OBVIOUS
<1>7. CASE Coalesce(s)
  <2> DEFINE l == [live[s] EXCEPT !.at = "Execute"]
             d == IF c.lagged THEN [c EXCEPT !.lagged = FALSE] ELSE Empty
  <2>1. /\ live' = [live EXCEPT ![s] = l] /\ hubChannel' = [hubChannel EXCEPT ![s] = d]
        /\ UNCHANGED <<store, unannounced, repoChannel, client>>
      BY Zenon, <1>7 DEF Coalesce
  <2>2. d \in Channels
      BY Zenon, <1>1, ChannelFields, EmptyIsChannel
  <2>3. l.at = "Execute" /\ l.last = live[s].last
      BY ZenonT(60), <1>4 DEF LiveFields
  <2> HIDE DEF l, d
  <2>4. Watched(l, client[s], rows[Projector], ComingBy(d))
      BY Zenon, <1>2, <1>6, <2>3 DEF Watched
  <2> QED
      BY Zenon, <1>3, <2>1, <2>2, <2>4, WatchedMoves
<1>8. CASE Connect(s)
  <2> DEFINE l == [Closed EXCEPT !.at = "Execute", !.resume = client[s].position]
  <2>1. /\ live' = [live EXCEPT ![s] = l] /\ hubChannel' = [hubChannel EXCEPT ![s] = Empty]
        /\ UNCHANGED <<store, unannounced, repoChannel, client>>
      BY Zenon, <1>8 DEF Connect
  <2>2. l.at = "Execute" /\ l.last = NoFrame
      BY Zenon DEF Closed
  <2> HIDE DEF l
  <2>3. Watched(l, client[s], rows[Projector], ComingBy(Empty))
      BY Zenon, <1>6, <2>2 DEF Watched
  <2> QED
      BY Zenon, <1>3, <2>1, <2>3, EmptyIsChannel, WatchedMoves
<1>9. CASE Disconnect(s)
  <2>1. live' = [live EXCEPT ![s] = Closed] /\ UNCHANGED <<store, channels, client>>
      BY Zenon, <1>9 DEF Disconnect
  <2>2. UNCHANGED <<unannounced, repoChannel, hubChannel>>
      BY Zenon, <2>1 DEF channels
  <2>3. Watched(Closed, client[s], rows[Projector], ComingBy(c))
      BY Zenon, <1>5, <1>6 DEF Watched
  <2> QED
      BY ZenonT(60), <1>1, <1>3, <2>1, <2>2, <2>3, WatchedMoves
<1> QED
    BY Zenon, <1>7, <1>8, <1>9

\* The query shows the rows as they are.  A frame that is not sent shows the rows the
\* client has; while one waits to be sent, nothing is taken from the channel.
LEMMA QueryWatches ==
    ASSUME Inv, WakeInv, NEW s \in Subscribers, Execute(s) \/ ExecuteFails(s) \/ Send(s)
    PROVE  WakeInv'
<1> DEFINE c == hubChannel[s]
<1>1. /\ live = [u \in Subscribers |-> live[u]] /\ client = [u \in Subscribers |-> client[u]]
      /\ c \in Channels /\ hubChannel = [hubChannel EXCEPT ![s] = c]
    BY Zenon DEF Inv, WakeInv, ChannelTypes
<1>2. Watched(live[s], client[s], rows[Projector], ComingBy(c))
    BY Zenon DEF WakeInv, OnItsWay, ComingBy
<1>3. live[s] \in LiveFields(live[s].last.rows, live[s].frame.rows)
    BY Zenon DEF Inv, LiveOK
<1>4. CASE Execute(s)
  <2> DEFINE f == Frame(live[s].resume)
             same == f = live[s].last
             l == [live[s] EXCEPT !.resume = f.position, !.at = IF same THEN "Wait" ELSE "Send",
                                  !.frame = IF same THEN NoFrame ELSE f]
  <2>1. /\ live' = [live EXCEPT ![s] = l] /\ UNCHANGED <<store, channels, client>>
        /\ live[s].at = "Execute"
      BY Zenon, <1>4 DEF Execute
  <2>2. UNCHANGED <<unannounced, repoChannel, hubChannel>>
      BY Zenon, <2>1 DEF channels
  <2>3. f.rows = rows[Projector] /\ f # NoFrame
    <3>1. f.rows = rows[Projector] /\ f.position = Position
        BY Zenon DEF Frame
    <3>2. Position \in Nat
        BY Zenon, LogNumbers DEF Inv, Position, Head0
    <3>3. Position # Absent
        BY <3>2 DEF Absent
    <3>4. NoFrame.position = Absent
        BY Zenon DEF NoFrame
    <3> QED
        BY Zenon, <3>1, <3>3, <3>4
  <2> HIDE DEF f
  <2>4. /\ l.last = live[s].last /\ l.at = (IF same THEN "Wait" ELSE "Send")
        /\ l.frame = (IF same THEN NoFrame ELSE f)
      BY ZenonT(60), <1>3 DEF LiveFields
  <2> HIDE DEF l
  <2>5. Watched(l, client[s], rows[Projector], ComingBy(c))
    <3>1. CASE same
      <4>1. l.at = "Wait" /\ client[s].rows = rows[Projector]
          BY Zenon, <1>2, <2>3, <2>4, <3>1 DEF Watched
      <4>2. l.at # "Send"
          BY <4>1
      <4> QED
          BY Zenon, <1>2, <2>4, <4>1, <4>2 DEF Watched
    <3>2. CASE ~same
      <4>1. l.at = "Send" /\ l.frame = f
          BY Zenon, <2>4, <3>2
      <4>2. l.at # "Wait"
          BY <4>1
      <4> QED
          BY Zenon, <1>2, <2>3, <2>4, <4>1, <4>2 DEF Watched
    <3> QED
        BY Zenon, <3>1, <3>2
  <2>6. client' = [client EXCEPT ![s] = client[s]] /\ hubChannel' = [hubChannel EXCEPT ![s] = c]
      BY Zenon, <1>1, <2>1, <2>2
  <2>7. c \in Channels
      BY Zenon, <1>1
  <2> HIDE DEF c, same
  <2> QED
      BY ZenonT(60), <2>1, <2>2, <2>5, <2>6, <2>7, WatchedMoves
<1>5. CASE ExecuteFails(s)
  <2> DEFINE l == IF live[s].last = NoFrame THEN Closed ELSE [live[s] EXCEPT !.at = "Wait"]
             k == [client[s] EXCEPT !.told = TRUE]
  <2>1. /\ live' = [live EXCEPT ![s] = l] /\ client' = [client EXCEPT ![s] = k]
        /\ UNCHANGED <<store, channels>>
      BY Zenon, <1>5 DEF ExecuteFails, WaitsOn
  <2>2. UNCHANGED <<unannounced, repoChannel, hubChannel>>
      BY Zenon, <2>1 DEF channels
  <2>3. k.told /\ k.rows = client[s].rows
    <3>1. client[s] \in ClientFields(client[s].rows)
        BY Zenon DEF Inv, ClientOK
    <3> QED
        BY Zenon, <3>1 DEF ClientFields
  <2> HIDE DEF k
  <2>4. l.at # "Send" /\ (l.last # NoFrame => l.last = live[s].last)
    <3>1. Closed.at # "Send" /\ Closed.last = NoFrame
        BY DEF Closed
    <3>2. [live[s] EXCEPT !.at = "Wait"].at # "Send"
        BY <1>3 DEF LiveFields
    <3>3. [live[s] EXCEPT !.at = "Wait"].last = live[s].last
        BY Zenon, <1>3 DEF LiveFields
    <3> QED
        BY Zenon, <3>1, <3>2, <3>3
  <2> HIDE DEF l
  <2>5. Watched(l, k, rows[Projector], ComingBy(c))
      BY Zenon, <1>2, <2>3, <2>4 DEF Watched
  <2> QED
      BY Zenon, <1>1, <2>1, <2>2, <2>5, WatchedMoves
<1>6. CASE Send(s)
  <2> DEFINE f == live[s].frame
             fresh == f.reset \/ client[s].position = Absent
             l == [live[s] EXCEPT !.at = "Wait", !.last = f, !.frame = NoFrame]
             k == [rows |-> f.rows, position |-> f.position, told |-> FALSE,
                   base |-> IF fresh THEN f.position ELSE client[s].base,
                   changes |-> IF fresh THEN {} ELSE client[s].changes \cup f.changes]
  <2>1. /\ live[s].at = "Send" /\ live' = [live EXCEPT ![s] = l]
        /\ client' = [client EXCEPT ![s] = k] /\ UNCHANGED <<store, channels>>
      BY Zenon, <1>6 DEF Send
  <2>2. UNCHANGED <<unannounced, repoChannel, hubChannel>>
      BY Zenon, <2>1 DEF channels
  <2>3. k.rows = f.rows
      BY Zenon
  <2>4. l.at = "Wait" /\ l.last = f
      BY ZenonT(60), <1>3 DEF LiveFields
  <2>5. l.at # "Send"
      BY <2>4
  <2> HIDE DEF k, l
  <2>6. Watched(l, k, rows[Projector], ComingBy(c))
      BY Zenon, <1>2, <2>1, <2>3, <2>4, <2>5 DEF Watched
  <2> QED
      BY Zenon, <1>1, <2>1, <2>2, <2>6, WatchedMoves
<1> QED
    BY Zenon, <1>4, <1>5, <1>6

\* At first nobody is subscribed.
LEMMA WakeInit == Init => WakeInv
<1> SUFFICES ASSUME Init PROVE WakeInv
    OBVIOUS
<1>1. /\ unannounced = <<>> /\ repoChannel = Empty
      /\ hubChannel = [s \in Subscribers |-> Empty] /\ live = [s \in Subscribers |-> Closed]
    BY Zenon DEF Init
<1>2. <<>> \in Seq(Announcements)
    OBVIOUS
<1>3. ChannelTypes
    BY Zenon, <1>1, <1>2, EmptyIsChannel DEF ChannelTypes
<1>4. Closed.at \notin {"Wait", "Send"} /\ Closed.last = NoFrame
    BY DEF Closed
<1>5. \A s \in Subscribers : Watched(live[s], client[s], rows[Projector], OnItsWay(s))
    BY Zenon, <1>1, <1>4 DEF Watched
<1> QED
    BY Zenon, <1>3, <1>5 DEF WakeInv

\* No step takes away the last announcement a waiting subscription needs.
LEMMA WakeNext == Inv /\ WakeInv /\ [Next]_vars => WakeInv'
<1> SUFFICES ASSUME Inv, WakeInv, [Next]_vars PROVE WakeInv'
    OBVIOUS
<1>1. ASSUME UNCHANGED <<rows, channels, live, client>> PROVE WakeInv'
  <2>1. UNCHANGED <<unannounced, repoChannel, hubChannel>>
      BY Zenon, <1>1 DEF channels
  <2>2. ChannelTypes'
      BY Zenon, <2>1 DEF WakeInv, ChannelTypes
  <2>3. \A s \in Subscribers : OnItsWay(s) => OnItsWay(s)'
      BY Zenon, <2>1 DEF OnItsWay, Announces, Tells
  <2> QED
      BY Zenon, <1>1, <2>2, <2>3, StillWatched
<1>2. CASE Repair \/ Compact
    BY Zenon, <1>1, <1>2
       DEF Repair, Compact, repair_projection, compact_projection_changes
<1>3. CASE UNCHANGED vars
    BY Zenon, <1>1, <1>3 DEF vars, store
<1>4. CASE \E s \in Subscribers : Connect(s) \/ Task(s) \/ ExecuteFails(s) \/ Disconnect(s)
    BY Zenon, <1>4, WakeWatches, OthersWatch, QueryWatches DEF Task
<1> QED
    BY Zenon, <1>2, <1>3, <1>4, CommitAnnounces, AnnouncementsMove DEF Next

\* No wake-up is lost between a commit and the subscriptions: publish_read_model_change,
\* the forwarder of the hub and the broadcast channels may drop announcements, of any
\* capacity, but not the news that there were some.
THEOREM NoWakeUpIsLost == FairSpec => []ChangeIsOnItsWay
<1>1. WakeInv => ChangeIsOnItsWay
    BY Zenon DEF WakeInv, Watched, ChangeIsOnItsWay
<1> QED
    BY <1>1, InvInit, InvNext, WakeInit, WakeNext, PTL DEF FairSpec
=============================================================================
