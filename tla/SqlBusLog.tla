----------------------------- MODULE SqlBusLog ------------------------------
(***************************************************************************)
(* The ordered log of the SQL buses (bus_log, bus_log_identity and         *)
(* bus_offset): concurrent idempotent appends, subscribers that read ahead *)
(* and settle through run_source, resets of the log, and the loss of one   *)
(* of the tables.                                                          *)
(*                                                                         *)
(* A position means something only together with the epoch of the log, and *)
(* the identity row carries both the epoch and the highest position ever   *)
(* committed in it.  Appends lock that row before they take a position;    *)
(* everything that reads positions takes a shared lock on it.              *)
(***************************************************************************)
EXTENDS ReceiveLoop, Integers, FiniteSets

CONSTANTS
    Messages,   \* envelopes
    StableId,   \* the message id of each envelope, or NoId
    NoId,
    NoMessage,
    Publishers,
    Consumers,  \* subscribed processes
    Groups,
    GroupOf,    \* the consumer group (the offset row) of each consumer
    Wanted,     \* the envelopes whose name a group subscribes to
    SourceBatch,
    Deployments, \* what is published, who consumes, and which table may be lost
    MaxSeq,     \* bound on positions
    MaxEpoch    \* bound on epochs

Positions == 1..MaxSeq
Epochs == 1..MaxEpoch
NoEpoch == 0

ASSUME LogAssumption ==
    /\ MaxSeq \in Nat /\ MaxEpoch \in Nat /\ SourceBatch \in Nat \ {0}
    /\ NoMessage \notin Messages
    /\ GroupOf \in [Consumers -> Groups]
    /\ \A g \in Groups : \E c \in Consumers :
           GroupOf[c] = g /\ \A d \in Deployments : c \in d.consumers
    /\ Wanted \in [Groups -> SUBSET Messages]
    /\ Deployments \subseteq [messages : SUBSET Messages, consumers : SUBSET Consumers,
                               lost : {"Tail", "Identity"}]

VARIABLES
    deployment, \* does not change
    log,       \* bus_log: the committed envelope at each position
    nextSeq,   \* the sequence behind bus_log.seq
    identity,  \* bus_log_identity; epoch NoEpoch: no row
    offset,    \* bus_offset; epoch NoEpoch: no row
    minted,    \* epochs used so far: UUIDs, and what operators configured
    tx,        \* the append transaction a publisher has open
    source,    \* the SqlLogSource of a consumer, and its place in run_source
    seen,      \* history: cursors given to handlers, with the envelope
    forwarded, \* history: entries settled forward, by group
    acked      \* history: envelopes whose publish was confirmed, since the last reset

tables == <<log, nextSeq, identity, offset, minted>>
history == <<seen, forwarded, acked>>
vars == <<deployment, tables, tx, source, history>>

NoTx == [seq |-> 0, message |-> NoMessage, locks |-> FALSE,
         identity |-> [epoch |-> NoEpoch, highWater |-> 0], installs |-> FALSE]

Row == [seq : Positions, message : Messages]
NoRow == [seq |-> 0, message |-> NoMessage]

Stopped == [at |-> "Stopped", epoch |-> NoEpoch, buffer |-> {}, nacked |-> FALSE,
            current |-> NoRow]

Init ==
    /\ deployment \in Deployments
    /\ log = [s \in Positions |-> NoMessage]
    /\ nextSeq = 1
    /\ identity = [epoch |-> NoEpoch, highWater |-> 0]
    /\ offset = [g \in Groups |-> [epoch |-> NoEpoch, seq |-> 0]]
    /\ minted = 0
    /\ tx = [p \in Publishers |-> NoTx]
    /\ source = [c \in Consumers |-> Stopped]
    /\ seen = {} /\ forwarded = {} /\ acked = {}

-----------------------------------------------------------------------------
Larger(a, b) == IF a >= b THEN a ELSE b

Taken == {s \in Positions : log[s] # NoMessage}

log_max == IF Taken = {} THEN 0 ELSE CHOOSE s \in Taken : \A t \in Taken : t <= s

\* Nobody holds the row lock on the identity.
Unlocked == \A p \in Publishers : ~tx[p].locks

NoOffsets == [g \in Groups |-> [epoch |-> NoEpoch, seq |-> 0]]

\* reconcile_log_identity: the identity a transaction finds or installs, and
\* whether it goes on.  expected = NoEpoch: no epoch is configured.
Reconciled(expected) ==
    LET inserted == identity.epoch = NoEpoch
        candidate == IF expected = NoEpoch THEN minted + 1 ELSE expected
    IN  [epoch |-> IF inserted THEN candidate ELSE identity.epoch, highWater |-> log_max]

Reconciles(expected) ==
    /\ identity.epoch = NoEpoch => (log_max = 0 \/ expected # NoEpoch)
    /\ identity.highWater <= log_max
    /\ expected # NoEpoch => Reconciled(expected).epoch = expected
    /\ Reconciled(expected).epoch \in Epochs

\* What operators configure: nothing, the latest epoch, or one never used.
Configured == {NoEpoch, minted, minted + 1}

\* prepare_log_epoch, and what it does to a log whose identity was lost.
Install(found) ==
    /\ identity' = found
    /\ minted' = Larger(minted, found.epoch)
    /\ offset' = IF identity.epoch = NoEpoch THEN NoOffsets ELSE offset

-----------------------------------------------------------------------------
(* Publishers: insert_log.                                                 *)

\* Entries that carry the same stable id.
SameId(m) ==
    {s \in Taken : StableId[m] # NoId /\ StableId[log[s]] = StableId[m]}

\* Faulty variant: the identity is read, but not locked for the transaction.
AppendUnlocked(p, m, expected) ==
    /\ tx[p] = NoTx
    /\ nextSeq \in Positions
    /\ Reconciles(expected)
    /\ nextSeq' = nextSeq + 1
    /\ tx' = [tx EXCEPT ![p] =
                  [seq |-> nextSeq, message |-> m, locks |-> FALSE,
                   identity |-> Reconciled(expected), installs |-> identity.epoch = NoEpoch]]
    /\ UNCHANGED <<deployment, log, identity, offset, minted, source, history>>

\* Lock and check the identity, and take a position.
AppendBegin(p, m, expected) ==
    /\ tx[p] = NoTx
    /\ Unlocked
    /\ nextSeq \in Positions
    /\ Reconciles(expected)
    /\ nextSeq' = nextSeq + 1
    /\ tx' = [tx EXCEPT ![p] =
                  [seq |-> nextSeq, message |-> m, locks |-> TRUE,
                   identity |-> Reconciled(expected), installs |-> identity.epoch = NoEpoch]]
    /\ UNCHANGED <<deployment, log, identity, offset, minted, source, history>>

\* validate_log_retry: an id that is there must name the same envelope.
ValidRetry(m) == \A s \in SameId(m) : log[s] = m

\* Faulty variant: a retry inserts a second entry.
CommitTwice(p) ==
    /\ tx[p] # NoTx
    /\ log' = [log EXCEPT ![tx[p].seq] = tx[p].message]
    /\ identity' = [tx[p].identity EXCEPT !.highWater = Larger(@, tx[p].seq)]
    /\ minted' = Larger(minted, identity'.epoch)
    /\ offset' = IF tx[p].installs THEN NoOffsets ELSE offset
    /\ acked' = acked \cup {tx[p].message}
    /\ tx' = [tx EXCEPT ![p] = NoTx]
    /\ UNCHANGED <<deployment, nextSeq, source, seen, forwarded>>

\* The entry is inserted unless its id is there already.
AppendCommit(p) ==
    /\ tx[p] # NoTx
    /\ ValidRetry(tx[p].message)
    /\ LET seq == IF SameId(tx[p].message) = {} THEN tx[p].seq
                  ELSE CHOOSE s \in SameId(tx[p].message) : TRUE
       IN  /\ log' = [log EXCEPT ![seq] = tx[p].message]
           /\ identity' = [tx[p].identity EXCEPT !.highWater = Larger(@, seq)]
    /\ minted' = Larger(minted, identity'.epoch)
    /\ offset' = IF tx[p].installs THEN NoOffsets ELSE offset
    /\ acked' = acked \cup {tx[p].message}
    /\ tx' = [tx EXCEPT ![p] = NoTx]
    /\ UNCHANGED <<deployment, nextSeq, source, seen, forwarded>>

\* An error, an invalid retry or a crash.  Postgres leaves a gap in the
\* sequence, SQLite takes the position back.
AppendAbort(p) ==
    /\ tx[p] # NoTx
    /\ nextSeq' \in {nextSeq, tx[p].seq}
    /\ tx' = [tx EXCEPT ![p] = NoTx]
    /\ UNCHANGED <<deployment, log, identity, offset, minted, source, history>>

-----------------------------------------------------------------------------
(* Subscribers: subscribe, SqlLogSource and SqlLogReceived.                *)

EndRun(c) == source' = [source EXCEPT ![c] = Stopped]

Subscribe(c, expected) ==
    /\ source[c] = Stopped
    /\ Unlocked
    /\ Reconciles(expected)
    /\ Install(Reconciled(expected))
    /\ source' = [source EXCEPT ![c] = [Stopped EXCEPT !.at = "Recv",
                                                       !.epoch = Reconciled(expected).epoch]]
    /\ UNCHANGED <<deployment, log, nextSeq, tx, history>>

\* Hand the first row over.
Deliver(c, rows) ==
    LET first == CHOOSE r \in rows : \A q \in rows : r.seq <= q.seq
    IN  /\ source' = [source EXCEPT ![c].at = "Handler", ![c].buffer = rows \ {first},
                                    ![c].nacked = TRUE, ![c].current = first]
        /\ seen' = seen \cup {[epoch |-> source[c].epoch, seq |-> first.seq,
                               message |-> first.message]}

\* Faulty variant: the read-ahead outlives a nack.
KeepsBuffer(c) == source[c].buffer

\* The read-ahead that is still good: none of it after a nack, when settled_seq
\* is behind what was delivered last.
Buffered(c) == IF source[c].nacked THEN {} ELSE source[c].buffer

\* recv starts with verify_log_epoch.
Recv(c) ==
    /\ source[c].at = "Recv"
    /\ Unlocked
    /\ \/ /\ identity.epoch = source[c].epoch
          /\ Buffered(c) # {}
          /\ Deliver(c, Buffered(c))
       \/ /\ identity.epoch = source[c].epoch
          /\ Buffered(c) = {}
          /\ source' = [source EXCEPT ![c].at = "Read", ![c].buffer = {}]
          /\ UNCHANGED seen
       \/ /\ identity.epoch # source[c].epoch
          /\ EndRun(c)
          /\ UNCHANGED seen
    /\ UNCHANGED <<deployment, tables, tx, forwarded, acked>>

\* Faulty variant: the offset is taken for the next position to read.
UnreadPastNext(c) ==
    LET o == offset[GroupOf[c]]
        past == IF o.epoch = source[c].epoch THEN o.seq ELSE 0
    IN  {[seq |-> s, message |-> log[s]] :
            s \in {t \in Taken : t > past + 1 /\ log[t] \in Wanted[GroupOf[c]]}}

\* The entries past the offset of the group, which counts in its epoch only.
Unread(c) ==
    LET o == offset[GroupOf[c]]
        past == IF o.epoch = source[c].epoch THEN o.seq ELSE 0
        next == {s \in Taken : s > past /\ log[s] \in Wanted[GroupOf[c]]}
    IN  {[seq |-> s, message |-> log[s]] :
            s \in {t \in next : Cardinality({u \in next : u < t}) < SourceBatch}}

\* Faulty variant: the epoch was checked when recv began.
ReadUnverified(c) ==
    /\ source[c].at = "Read"
    /\ Unlocked
    /\ Unread(c) # {}
    /\ Deliver(c, Unread(c))
    /\ UNCHANGED <<deployment, tables, tx, forwarded, acked>>

\* log_read.  An empty read polls again, or ends the run where no idle_poll is set.
log_read(c) ==
    /\ source[c].at = "Read"
    /\ Unlocked
    /\ \/ /\ identity.epoch = source[c].epoch
          /\ Unread(c) # {}
          /\ Deliver(c, Unread(c))
       \/ /\ identity.epoch # source[c].epoch \/ Unread(c) = {}
          /\ EndRun(c)
          /\ UNCHANGED seen
    /\ UNCHANGED <<deployment, tables, tx, forwarded, acked>>

\* Faulty variant: the offset takes the position of whoever settles last.
OverwritesOffset(c) ==
    offset' = [offset EXCEPT ![GroupOf[c]] =
                   [epoch |-> source[c].epoch, seq |-> source[c].current.seq]]

\* The upsert of advance_offset.
advance_offset(c) ==
    offset' = [offset EXCEPT ![GroupOf[c]] =
                   [epoch |-> source[c].epoch,
                    seq |-> IF @.epoch = source[c].epoch
                            THEN Larger(@.seq, source[c].current.seq)
                            ELSE source[c].current.seq]]

\* ack, dead_letter and park.  A database error after the upsert has committed
\* ends the run, and so does an epoch that has changed.
settle_forward(c) ==
    /\ Unlocked
    /\ \/ /\ identity.epoch = source[c].epoch
          /\ advance_offset(c)
          /\ forwarded' = forwarded \cup {[group |-> GroupOf[c], epoch |-> source[c].epoch,
                                           seq |-> source[c].current.seq]}
          /\ \/ source' = [source EXCEPT ![c].at = "Recv", ![c].current = NoRow,
                                         ![c].nacked = FALSE]
             \/ EndRun(c)
       \/ /\ identity.epoch # source[c].epoch
          /\ EndRun(c)
          /\ UNCHANGED <<deployment, offset, forwarded>>

Settle(c, verdict) ==
    /\ source[c].at = "Handler"
    /\ \/ Settlement(verdict) \in Forward /\ settle_forward(c)
       \/ /\ Settlement(verdict) = "Nack"
          /\ source' = [source EXCEPT ![c].at = "Recv", ![c].current = NoRow]
          /\ UNCHANGED <<deployment, offset, forwarded>>
       \/ /\ Settlement(verdict) \in {"NackAndStop", "Stop"}
          /\ EndRun(c)
          /\ UNCHANGED <<deployment, offset, forwarded>>
    /\ UNCHANGED <<deployment, log, nextSeq, identity, minted, tx, seen, acked>>

Crash(c) ==
    /\ source[c] # Stopped
    /\ EndRun(c)
    /\ UNCHANGED <<deployment, tables, tx, history>>

-----------------------------------------------------------------------------
(* Operators.                                                              *)

\* reset_ordered_log with the epoch that is there, and a new one.
Reset ==
    /\ Unlocked
    /\ identity.epoch # NoEpoch
    /\ minted + 1 \in Epochs
    /\ log' = [s \in Positions |-> NoMessage]
    /\ nextSeq' = 1
    /\ offset' = NoOffsets
    /\ identity' = [epoch |-> minted + 1, highWater |-> 0]
    /\ minted' = minted + 1
    /\ acked' = {}
    /\ UNCHANGED <<deployment, tx, source, seen, forwarded>>

\* bus_log is restored from an older backup, without the tables beside it.
LoseTail ==
    /\ deployment.lost = "Tail"
    /\ Unlocked
    /\ \E k \in Taken \cup {0} :
        /\ k < log_max
        /\ log' = [s \in Positions |-> IF s > k THEN NoMessage ELSE log[s]]
        /\ nextSeq' = k + 1
    /\ acked' = {}
    /\ UNCHANGED <<deployment, identity, offset, minted, tx, source, seen, forwarded>>

LoseIdentity ==
    /\ deployment.lost = "Identity"
    /\ Unlocked
    /\ identity.epoch # NoEpoch
    /\ identity' = [epoch |-> NoEpoch, highWater |-> 0]
    /\ UNCHANGED <<deployment, log, nextSeq, offset, minted, tx, source, history>>

-----------------------------------------------------------------------------
Publish(p) ==
    \/ \E m \in deployment.messages, e \in Configured : AppendBegin(p, m, e)
    \/ AppendCommit(p)
    \/ AppendAbort(p)

Consume(c) ==
    \/ \E e \in Configured : Subscribe(c, e)
    \/ Recv(c)
    \/ log_read(c)
    \/ \E v \in Verdicts : Settle(c, v)

Next ==
    \/ \E p \in Publishers : Publish(p)
    \/ \E c \in deployment.consumers : Consume(c) \/ Crash(c)
    \/ Reset \/ LoseTail \/ LoseIdentity

Spec == Init /\ [][Next]_vars

\* Fairness is stated of the logs that do not lose their tail.
Runs == deployment.lost # "Tail"

\* The consumer of a group that its supervisor always restarts.
Kept(g) == CHOOSE c \in Consumers : GroupOf[c] = g /\ \A d \in Deployments : c \in d.consumers

\* Transactions end, and one consumer of each group is not killed, and its handlers
\* do not fail, for ever at the same point.
FairSpec ==
    /\ Spec
    /\ \A p \in Publishers : WF_vars(Runs /\ (AppendCommit(p) \/ AppendAbort(p)))
    /\ \A g \in Groups :
        /\ SF_vars(Runs /\ Subscribe(Kept(g), NoEpoch))
        /\ SF_vars(Runs /\ Recv(Kept(g)))
        /\ SF_vars(Runs /\ log_read(Kept(g)))
        /\ SF_vars(Runs /\ Settle(Kept(g), "Ok"))

-----------------------------------------------------------------------------
\* Type invariant of the ordered log, its publishers and its subscribers.
TypeOK ==
    /\ log \in [Positions -> Messages \cup {NoMessage}]
    /\ nextSeq \in 1..(MaxSeq + 1)
    /\ identity \in [epoch : Epochs \cup {NoEpoch}, highWater : 0..MaxSeq]
    /\ offset \in [Groups -> [epoch : Epochs \cup {NoEpoch}, seq : 0..MaxSeq]]
    /\ minted \in 0..MaxEpoch
    /\ tx \in [Publishers -> {NoTx} \cup
                 [seq : Positions, message : Messages, locks : BOOLEAN,
                  identity : [epoch : Epochs, highWater : 0..MaxSeq], installs : BOOLEAN]]
    /\ source \in [Consumers ->
                     [at : {"Stopped", "Recv", "Read", "Handler"},
                      epoch : Epochs \cup {NoEpoch}, buffer : SUBSET Row,
                      nacked : BOOLEAN, current : Row \cup {NoRow}]]
    /\ seen \subseteq [epoch : Epochs, seq : Positions, message : Messages]
    /\ forwarded \subseteq [group : Groups, epoch : Epochs, seq : Positions]
    /\ acked \subseteq Messages

\* A cursor (epoch and position) that was given to a handler is never given out
\* again with another envelope: not after a reset that starts the positions
\* again, and not after entries the high-water mark remembers were lost.
CursorNamesOneMessage ==
    \A a \in seen, b \in seen :
        a.epoch = b.epoch /\ a.seq = b.seq => a.message = b.message

Done(g, s) == [group |-> g, epoch |-> identity.epoch, seq |-> s] \in forwarded

\* "Entries advance the offset in order": no entry a group wants is ever behind
\* the group's offset without having been settled, whichever transaction
\* committed first, and however the replicas of the group interleave.
NothingSkipped ==
    \A g \in Groups, s \in Taken :
        /\ offset[g].epoch = identity.epoch /\ identity.epoch # NoEpoch
        /\ s <= offset[g].seq
        /\ log[s] \in Wanted[g]
        => Done(g, s)

\* "A nacked entry is re-read before anything after it": while a handler works
\* on an entry of the current epoch, its group has settled all those before it.
NackedIsReread ==
    \A c \in Consumers :
        source[c].at = "Handler" /\ source[c].epoch = identity.epoch =>
            \A s \in Taken :
                s < source[c].current.seq /\ log[s] \in Wanted[GroupOf[c]] => Done(GroupOf[c], s)

\* However often a publish is retried, a confirmed message with a stable id is
\* in the log, once.
AckedIsLoggedOnce ==
    \A m \in acked : StableId[m] # NoId => \E s \in Taken : SameId(m) = {s} /\ log[s] = m

\* advance_offset is a monotonic upsert: within an epoch the offset of a group
\* does not go back when a slow replica settles an entry the others are past.
OffsetNeverGoesBack ==
    [][\A g \in Groups :
         offset'[g].epoch = offset[g].epoch => offset'[g].seq >= offset[g].seq]_vars

\* Every entry is settled by every group that wants it, if only one consumer of the
\* group keeps running, and unless the log is reset or loses its identity: without
\* it nobody reads, until the log is adopted again.
EventuallyForwarded ==
    \A g \in Groups, s \in Positions :
        (Runs /\ s \in Taken /\ log[s] \in Wanted[g]) ~>
            (s \notin Taken \/ Done(g, s) \/ identity.epoch = NoEpoch)
=============================================================================
