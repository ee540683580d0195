---------------------------- MODULE OutboxDrain -----------------------------
(***************************************************************************)
(* The drain loop that drives the outbox of a service: OutboxDrainRunner   *)
(* and the mailbox through which commits hand it the ids they inserted.    *)
(*                                                                         *)
(* Every dispatcher of Outbox is the drain loop of one process.  Its       *)
(* select! is biased: each time the task is polled it looks for a hint,    *)
(* then for a wake-up, then at its timer, and parks if none is ready.  The *)
(* length of a sleep only matters in being zero or not: the timer of a     *)
(* sleep that is not zero may fire at any later time.                      *)
(***************************************************************************)
EXTENDS Outbox, Sequences

CONSTANT Capacity  \* of the mailbox, in hints

ASSUME DrainAssumption == Capacity \in Nat \ {0}

VARIABLES
    mailbox,    \* hints not yet received: the ids of one commit each
    wake,       \* the permit of the Notify
    loop,       \* local state of run()
    overflowed  \* history: rows whose hint was dropped, until the next poll

drainVars == <<mailbox, wake, loop, overflowed>>
allVars == <<vars, drainVars>>

\* ids = {} asks for a poll (dispatch_batch); full: the claim filled the batch.
Loop == [at : {"Hint", "Wake", "Sleep", "Parked", "Claiming", "Pass"},
         due : BOOLEAN, sleep : {"Zero", "Poll", "Backoff"},
         ids : SUBSET Messages, full : BOOLEAN]

Started == [at |-> "Hint", due |-> TRUE, sleep |-> "Zero", ids |-> {}, full |-> FALSE]

DrainInit ==
    /\ Init
    /\ mailbox = [d \in Dispatchers |-> <<>>]
    /\ wake = [d \in Dispatchers |-> FALSE]
    /\ loop = [d \in Dispatchers |-> Started]
    /\ overflowed = [d \in Dispatchers |-> {}]

-----------------------------------------------------------------------------
(* The mailbox.                                                            *)

\* Faulty variant: a full mailbox drops the hint and says nothing.
DropsSilently(d, ids) ==
    \/ /\ Len(mailbox[d]) < Capacity
       /\ mailbox' = [mailbox EXCEPT ![d] = Append(@, ids)]
       /\ UNCHANGED <<wake, overflowed>>
    \/ /\ Len(mailbox[d]) = Capacity
       /\ overflowed' = [overflowed EXCEPT ![d] = @ \cup ids]
       /\ UNCHANGED <<mailbox, wake>>

try_submit(d, ids) ==
    \/ /\ Len(mailbox[d]) < Capacity
       /\ mailbox' = [mailbox EXCEPT ![d] = Append(@, ids)]
       /\ UNCHANGED <<wake, overflowed>>
    \/ /\ Len(mailbox[d]) = Capacity
       /\ wake' = [wake EXCEPT ![d] = TRUE]
       /\ overflowed' = [overflowed EXCEPT ![d] = @ \cup ids]
       /\ UNCHANGED mailbox

\* A commit in the process of drain d: insert the rows, then submit their ids.
CommitHinted(d, S) ==
    /\ CommitPending(S)
    /\ try_submit(d, S)
    /\ UNCHANGED loop

\* A commit of a process without a drain.
CommitElsewhere(S) == CommitPending(S) /\ UNCHANGED drainVars

-----------------------------------------------------------------------------
(* coalesce_hints: the first hint, then as many more as fit into a batch.  *)
(* The hint that fills the batch loses the ids that do not fit.            *)

Ids(hints, n) == UNION {hints[i] : i \in 1..n}

\* The first n hints fill a batch.
Fills(hints, n) == Cardinality(Ids(hints, n)) >= BatchSize

\* How many hints are taken out of the mailbox.
Received(hints) ==
    CHOOSE n \in 1..Len(hints) :
        /\ n = Len(hints) \/ Fills(hints, n)
        /\ \A k \in 1..(n - 1) : ~Fills(hints, k)

coalesce_hints(hints) ==
    LET n == Received(hints)
        before == Ids(hints, n - 1)
    IN  before \cup Oldest(hints[n] \ before, BatchSize - Cardinality(before))

-----------------------------------------------------------------------------
(* run(): one turn of the loop is select!, claim, pass.                    *)

At(d, point) == loop' = [loop EXCEPT ![d].at = point]

\* select! is entered: a new sleep starts.
Select(d, sleep) ==
    loop' = [loop EXCEPT ![d] = [Started EXCEPT !.due = (sleep = "Zero"), !.sleep = sleep]]

Poll(d) == loop' = [loop EXCEPT ![d].at = "Claiming", ![d].ids = {}]

next_hint(d) ==
    /\ loop[d].at = "Hint"
    /\ \/ /\ mailbox[d] # <<>>
          /\ loop' = [loop EXCEPT ![d].at = "Claiming", ![d].ids = coalesce_hints(mailbox[d])]
          /\ mailbox' = [mailbox EXCEPT ![d] =
                             SubSeq(@, Received(@) + 1, Len(@))]
       \/ mailbox[d] = <<>> /\ At(d, "Wake") /\ UNCHANGED mailbox
    /\ UNCHANGED <<vars, wake, overflowed>>

wake_notified(d) ==
    /\ loop[d].at = "Wake"
    /\ \/ wake[d] /\ Poll(d) /\ wake' = [wake EXCEPT ![d] = FALSE]
       \/ ~wake[d] /\ At(d, "Sleep") /\ UNCHANGED wake
    /\ UNCHANGED <<vars, mailbox, overflowed>>

Sleep(d) ==
    /\ loop[d].at = "Sleep"
    /\ IF loop[d].due THEN Poll(d) ELSE At(d, "Parked")
    /\ UNCHANGED <<vars, mailbox, wake, overflowed>>

\* Faulty variant: the timer does not wake the task.
UnparkByHint(d) ==
    /\ loop[d].at = "Parked"
    /\ mailbox[d] # <<>> \/ wake[d]
    /\ At(d, "Hint")
    /\ UNCHANGED <<vars, mailbox, wake, overflowed>>

\* The task is woken by whatever it waits for, and polls from the top again.
Unpark(d) ==
    /\ loop[d].at = "Parked"
    /\ mailbox[d] # <<>> \/ wake[d] \/ loop[d].due
    /\ At(d, "Hint")
    /\ UNCHANGED <<vars, mailbox, wake, overflowed>>

Fire(d) ==
    /\ loop[d].at \in {"Hint", "Wake", "Sleep", "Parked"}
    /\ ~loop[d].due
    /\ loop' = [loop EXCEPT ![d].due = TRUE]
    /\ UNCHANGED <<vars, mailbox, wake, overflowed>>

\* A dispatch succeeded: a poll that filled its batch is repeated at once.
Succeed(d) ==
    Select(d, IF loop[d].ids # {} THEN loop[d].sleep
              ELSE IF loop[d].full THEN "Zero" ELSE "Poll")

Fail(d) == Select(d, "Backoff")

\* Faulty variant: hinted ids are claimed without asking whether they may be.
ClaimHinted(d) ==
    LET found == IF loop[d].ids = {} THEN Oldest(Claimable, BatchSize) ELSE loop[d].ids
    IN  /\ loop[d].at = "Claiming"
        /\ \/ /\ claim(d, found, loop[d].ids = {})
              /\ loop' = [loop EXCEPT ![d].at = "Pass",
                                      ![d].full = (Cardinality(found) >= BatchSize)]
           \/ found = {} /\ Succeed(d) /\ UNCHANGED vars
        /\ overflowed' = [overflowed EXCEPT ![d] = IF loop[d].ids = {} THEN {} ELSE @]
        /\ UNCHANGED <<mailbox, wake>>

ClaimRows(d) ==
    LET found == IF loop[d].ids = {} THEN Oldest(Claimable, BatchSize)
                 ELSE Claimable \cap loop[d].ids
    IN  /\ loop[d].at = "Claiming"
        /\ \/ /\ claim(d, found, loop[d].ids = {})
              /\ loop' = [loop EXCEPT ![d].at = "Pass",
                                      ![d].full = (Cardinality(found) >= BatchSize)]
           \/ found = {} /\ Succeed(d) /\ UNCHANGED vars
        /\ overflowed' = [overflowed EXCEPT ![d] = IF loop[d].ids = {} THEN {} ELSE @]
        /\ UNCHANGED <<mailbox, wake>>

\* The claim fails in the store; whatever it was to claim waits for the backoff.
ClaimFails(d) ==
    /\ loop[d].at = "Claiming"
    /\ Abort(d)
    /\ Fail(d)
    /\ overflowed' = [overflowed EXCEPT ![d] = IF loop[d].ids = {} THEN {} ELSE @]
    /\ UNCHANGED <<mailbox, wake>>

RunPass(d) ==
    /\ loop[d].at = "Pass"
    /\ \/ Publish(d) /\ UNCHANGED loop
       \/ /\ Settle(d)
          /\ IF pass'[d] # NoPass THEN UNCHANGED loop
             ELSE IF row' # row THEN Succeed(d) ELSE Fail(d)
    /\ UNCHANGED <<mailbox, wake, overflowed>>

-----------------------------------------------------------------------------
(* The environment.                                                        *)

\* The process dies, or its handle is stopped, and is started again: mailbox
\* and permit are gone with it.
Restart(d) ==
    /\ Abort(d)
    /\ mailbox' = [mailbox EXCEPT ![d] = <<>>]
    /\ wake' = [wake EXCEPT ![d] = FALSE]
    /\ loop' = [loop EXCEPT ![d] = Started]
    /\ overflowed' = [overflowed EXCEPT ![d] = {}]

Time == Tick /\ UNCHANGED drainVars

\* The supply of messages is endless: the number of a settled message that
\* nothing refers to any more is used for a new one, the youngest of all.
Recycle(m) ==
    /\ row[m].status = "Published"
    /\ \A k \in Messages : k > m => row[k].status = "Absent"
    /\ \A d \in Dispatchers :
        /\ ~Works(d, m)
        /\ m \notin loop[d].ids
        /\ \A i \in DOMAIN mailbox[d] : m \notin mailbox[d][i]
    /\ row' = [row EXCEPT ![m] = [status |-> "Absent", worker |-> NoWorker,
                                  lease |-> 0, attempts |-> 0]]
    /\ delivered' = [delivered EXCEPT ![m] = 0]
    /\ refused' = refused \ {m}
    /\ holder' = [holder EXCEPT ![m] = NoWorker]
    /\ UNCHANGED <<pass, disruptions, drainVars>>

-----------------------------------------------------------------------------
Run(d) ==
    \/ next_hint(d) \/ wake_notified(d) \/ Sleep(d) \/ Unpark(d)
    \/ ClaimRows(d) \/ RunPass(d)

DrainNext ==
    \/ \E S \in SUBSET Messages \ {{}} :
        CommitElsewhere(S) \/ \E d \in Dispatchers : CommitHinted(d, S)
    \/ \E d \in Dispatchers : Run(d) \/ Fire(d) \/ ClaimFails(d) \/ Restart(d)
    \/ Time

DrainSpec == DrainInit /\ [][DrainNext]_allVars

\* The runtime polls every task that is ready, timers fire, time passes.
DrainFairSpec ==
    /\ DrainSpec
    /\ WF_allVars(Time)
    /\ \A d \in Dispatchers : WF_allVars(Run(d)) /\ WF_allVars(Fire(d))

\* The same with an endless supply of messages.
BusySpec ==
    /\ DrainInit /\ [][DrainNext \/ \E m \in Messages : Recycle(m)]_allVars
    /\ WF_allVars(Time)
    /\ \A d \in Dispatchers : WF_allVars(Run(d)) /\ WF_allVars(Fire(d))

-----------------------------------------------------------------------------
\* Type invariant of the mailboxes and the drain loops.
DrainTypeOK ==
    /\ mailbox \in [Dispatchers -> Seq(SUBSET Messages)]
    /\ wake \in [Dispatchers -> BOOLEAN]
    /\ loop \in [Dispatchers -> Loop]
    /\ overflowed \in [Dispatchers -> SUBSET Messages]

\* "If the channel is full or closed, wake the worker so dispatch_batch can
\* claim the pending rows": a row whose hint was dropped never waits for the
\* poll interval.  Until the next poll the permit is kept, through any number
\* of hints received in between, or the poll is already decided.
OverflowIsPolled ==
    \A d \in Dispatchers :
        overflowed[d] # {} =>
            wake[d] \/ (loop[d].at = "Claiming" /\ loop[d].ids = {})

\* All that drain loops do to the outbox, with hints, polls, failing claims and
\* restarts, is what the dispatchers of Outbox may do.
ImplementsOutbox == Spec

\* "Polling dispatch_batch is the crash/overflow net for pending rows": every
\* pending row is claimed in the end, also the rows without a hint.
PendingIsClaimed ==
    \A m \in Messages : row[m].status = "Pending" ~> row[m].status # "Pending"
=============================================================================
