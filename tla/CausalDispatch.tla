--------------------------- MODULE CausalDispatch ----------------------------
(***************************************************************************)
(* Causal command dispatch: requests that carry a command id run the       *)
(* command's handler at most once and replay its outcome afterwards.       *)
(*                                                                         *)
(* A dispatch reserves the command in the ledger, loads the aggregate,     *)
(* decides, and commits the decision in one SQL transaction that locks the *)
(* ledger row, checks the attempt, checks the stream version, appends the  *)
(* events and, last, completes the ledger row under the attempt's fence.   *)
(* The transaction outlives the dispatch: its COMMIT may be under way when *)
(* the process dies or the connection breaks.  All commands here write to  *)
(* one aggregate stream.                                                   *)
(***************************************************************************)
EXTENDS CommandLedger

VARIABLES
    req,       \* the command and input each dispatch asks for
    pc,        \* where the dispatch is
    number,    \* the attempt number its reservation acquired
    base,      \* the stream version its handler loaded
    tx,        \* the phase of its commit transaction
    decision,  \* the terminal state it asks the transaction for
    version,   \* committed length of the aggregate stream
    committed, \* dispatches whose events are in the stream
    rejected,  \* dispatches whose rejection was committed
    told       \* the outcomes clients were given

dispatchVars == <<req, pc, number, base, tx, decision>>
vars == <<ledger, dispatchVars, version, committed, rejected, told>>

Kinds == {"Succeeded", "Rejected"}

Phases == {"None", "Locked", "Sent"}

Points == {"Arrived", "Handling", "Committing", "Loading", "Resolving", "Marking",
           "Ended"}

\* The outcome of a command: of which input, and decided by which dispatch.
Outcome == [input : Inputs, kind : Kinds, by : Dispatches]

\* Type invariant of the ledger, the dispatches, their transactions and the stream.
TypeOK ==
    /\ ledger \in [Commands -> Record]
    /\ req \in [Dispatches -> [command : Commands, input : Inputs]]
    /\ pc \in [Dispatches -> Points]
    /\ number \in [Dispatches -> Nat]
    /\ base \in [Dispatches -> Nat \cup {None}]
    /\ tx \in [Dispatches -> Phases]
    /\ decision \in [Dispatches -> Kinds \cup {None}]
    /\ version \in Nat
    /\ committed \subseteq Dispatches
    /\ rejected \subseteq Dispatches
    /\ told \in [Commands -> SUBSET Outcome]

Init ==
    /\ LedgerInit
    /\ req \in [Dispatches -> [command : Commands, input : Inputs]]
    /\ pc = [p \in Dispatches |-> "Arrived"]
    /\ number = [p \in Dispatches |-> 0]
    /\ base = [p \in Dispatches |-> None]
    /\ tx = [p \in Dispatches |-> "None"]
    /\ decision = [p \in Dispatches |-> None]
    /\ version = 0
    /\ committed = {}
    /\ rejected = {}
    /\ told = [c \in Commands |-> {}]

-----------------------------------------------------------------------------

command(p) == req[p].command

\* The attempt a dispatch holds, and its fence.
attempt(p) == [command |-> command(p), input |-> req[p].input, token |-> p,
               number |-> number[p]]

\* A commit transaction holds the lock of the command's ledger row.
locked(c) == \E p \in Dispatches : tx[p] # "None" /\ command(p) = c

\* An uncommitted append to the stream: a second insert of the same sequence
\* number waits for it.
appending == \E p \in Dispatches : tx[p] = "Sent" /\ decision[p] = "Succeeded"

Goto(p, point) == pc' = [pc EXCEPT ![p] = point]

Tell(c, outcome) == told' = [told EXCEPT ![c] = @ \cup {outcome}]

\* replay_result: the stored outcome is the answer to the request.
Replay(p) ==
    Tell(command(p), [input |-> req[p].input, kind |-> ledger[command(p)].state,
                      by |-> ledger[command(p)].outcome])

-----------------------------------------------------------------------------
(* Reservation and handler.                                                *)

Acquire(p, record) ==
    /\ ledger' = [ledger EXCEPT ![command(p)] = record]
    /\ number' = [number EXCEPT ![p] = record.attempt]
    /\ Goto(p, "Handling")
    /\ UNCHANGED told

reserve_command(p) ==
    LET r == ledger[command(p)]
        found == classify_reservation(r, req[p].input)
    IN  /\ pc[p] = "Arrived"
        /\ ~locked(command(p))
        /\ \/ found = "Initial" /\ Acquire(p, initial(p, req[p].input))
           \/ found = "Reclaim" /\ Acquire(p, reclaim(r, p))
           \/ /\ found = "Replay"
              /\ Replay(p)
              /\ Goto(p, "Ended")
              /\ UNCHANGED <<ledger, number>>
           \/ /\ found = "Expire"
              /\ ledger' = [ledger EXCEPT ![command(p)] = expire(@)]
              /\ Goto(p, "Ended")
              /\ UNCHANGED <<number, told>>
           \/ /\ found \in {"InProgress", "Conflict"}
              /\ Goto(p, "Ended")
              /\ UNCHANGED <<ledger, number, told>>
        /\ UNCHANGED <<req, base, tx, decision, version, committed, rejected>>

\* The handler loads the aggregate into its workspace.
Load(p) ==
    /\ pc[p] = "Handling"
    /\ base[p] = None
    /\ base' = [base EXCEPT ![p] = version]
    /\ UNCHANGED <<ledger, req, pc, number, tx, decision, version, committed, rejected, told>>

\* The handler prepared a commit, or refused: by its guard, which runs before
\* anything is loaded, or with an error of the 4xx class.
Decide(p, kind) ==
    /\ pc[p] = "Handling"
    /\ kind = "Succeeded" => base[p] # None
    /\ decision' = [decision EXCEPT ![p] = kind]
    /\ Goto(p, "Committing")
    /\ UNCHANGED <<ledger, req, number, base, tx, version, committed, rejected, told>>

\* abandon_causal_attempt: the handler or the preparation of its commit failed.
Abandon(p) ==
    /\ pc[p] = "Handling"
    /\ ~locked(command(p))
    /\ mark_retryable_unknown(attempt(p))
    /\ Goto(p, IF matches_fence(attempt(p)) THEN "Ended" ELSE "Resolving")
    /\ UNCHANGED <<req, number, base, tx, decision, version, committed, rejected, told>>

-----------------------------------------------------------------------------
(* The commit transaction.                                                 *)

\* Faulty variant: the transaction starts without looking at the ledger row.
BeginUnchecked(p) ==
    /\ pc[p] = "Committing"
    /\ tx[p] = "None"
    /\ ~locked(command(p))
    /\ tx' = [tx EXCEPT ![p] = "Locked"]
    /\ UNCHANGED <<ledger, req, pc, number, base, decision, version, committed, rejected, told>>

\* preflight_command_completion_in_tx: lock the row, then check the attempt.
Begin(p) ==
    /\ pc[p] = "Committing"
    /\ tx[p] = "None"
    /\ ~locked(command(p))
    /\ \/ /\ validate_live_attempt(attempt(p))
          /\ tx' = [tx EXCEPT ![p] = "Locked"]
          /\ UNCHANGED pc
       \/ /\ ~validate_live_attempt(attempt(p))
          /\ Goto(p, "Resolving")
          /\ UNCHANGED tx
    /\ UNCHANGED <<ledger, req, number, base, decision, version, committed, rejected, told>>

\* Faulty variant: the expected version is not compared with the stream's.
AnyVersion(p) ==
    /\ decision[p] = "Succeeded" => ~appending
    /\ validate_live_attempt(attempt(p))

\* The stream still has the version the handler loaded, and the fenced update
\* of the ledger row finds the lease live.
WritesApply(p) ==
    /\ decision[p] = "Succeeded" => ~appending /\ base[p] = version
    /\ validate_live_attempt(attempt(p))

WritesRefused(p) ==
    \/ decision[p] = "Succeeded" /\ base[p] # version
    \/ ~validate_live_attempt(attempt(p))

\* commit_sqlx_batch up to COMMIT, which is sent; a refused write rolls back.
Write(p) ==
    /\ pc[p] = "Committing"
    /\ tx[p] = "Locked"
    /\ \/ /\ WritesApply(p)
          /\ tx' = [tx EXCEPT ![p] = "Sent"]
          /\ UNCHANGED pc
       \/ /\ WritesRefused(p)
          /\ tx' = [tx EXCEPT ![p] = "None"]
          /\ Goto(p, "Resolving")
    /\ UNCHANGED <<ledger, req, number, base, decision, version, committed, rejected, told>>

\* The database commits.  The dispatch learns of it only if it still waits, and
\* then answers a rejection without another lookup.
Commit(p, deadline) ==
    /\ tx[p] = "Sent"
    /\ tx' = [tx EXCEPT ![p] = "None"]
    /\ ledger' = [ledger EXCEPT ![command(p)] = complete(@, decision[p], p, deadline)]
    /\ \/ /\ decision[p] = "Succeeded"
          /\ version' = version + 1
          /\ committed' = committed \cup {p}
          /\ IF pc[p] = "Committing" THEN Goto(p, "Loading") ELSE UNCHANGED pc
          /\ UNCHANGED <<rejected, told>>
       \/ /\ decision[p] = "Rejected"
          /\ rejected' = rejected \cup {p}
          /\ IF pc[p] = "Committing"
             THEN /\ Goto(p, "Ended")
                  /\ Tell(command(p), [input |-> req[p].input, kind |-> "Rejected", by |-> p])
             ELSE UNCHANGED <<pc, told>>
          /\ UNCHANGED <<version, committed>>
    /\ UNCHANGED <<req, number, base, decision>>

\* Faulty variant: a dispatch whose transaction was rolled back commits again.
AbortRetries(p) ==
    /\ tx[p] # "None"
    /\ tx' = [tx EXCEPT ![p] = "None"]
    /\ UNCHANGED <<ledger, req, pc, number, base, decision, version, committed, rejected, told>>

\* The database rolls back: the connection or the server failed.
Abort(p) ==
    /\ tx[p] # "None"
    /\ tx' = [tx EXCEPT ![p] = "None"]
    /\ IF pc[p] = "Committing" THEN Goto(p, "Resolving") ELSE UNCHANGED pc
    /\ UNCHANGED <<ledger, req, number, base, decision, version, committed, rejected, told>>

\* The connection breaks while the database still works on the transaction.
LoseConnection(p) ==
    /\ pc[p] = "Committing"
    /\ tx[p] # "None"
    /\ Goto(p, "Resolving")
    /\ UNCHANGED <<ledger, req, number, base, tx, decision, version, committed, rejected, told>>

-----------------------------------------------------------------------------
(* After the commit.                                                       *)

\* load_committed_dispatch_result.
LoadCommitted(p) ==
    /\ pc[p] = "Loading"
    /\ ~locked(command(p))
    /\ expire_if_due(command(p))
    /\ Goto(p, "Ended")
    /\ IF is_replayable(lookup(attempt(p))) THEN Replay(p) ELSE UNCHANGED told
    /\ UNCHANGED <<req, number, base, tx, decision, version, committed, rejected>>

\* resolve_ambiguous_lookup: its lookup.
ResolveAmbiguous(p) ==
    /\ pc[p] = "Resolving"
    /\ ~locked(command(p))
    /\ IF matches_lookup_scope(attempt(p)) THEN expire_if_due(command(p)) ELSE UNCHANGED ledger
    /\ Goto(p, IF lookup(attempt(p)) = "InProgress" THEN "Marking" ELSE "Ended")
    /\ IF is_replayable(lookup(attempt(p))) THEN Replay(p) ELSE UNCHANGED told
    /\ UNCHANGED <<req, number, base, tx, decision, version, committed, rejected>>

\* ... and, for an attempt found in progress, giving it up.
MarkUnknown(p) ==
    /\ pc[p] = "Marking"
    /\ ~locked(command(p))
    /\ mark_retryable_unknown(attempt(p))
    /\ Goto(p, "Ended")
    /\ UNCHANGED <<req, number, base, tx, decision, version, committed, rejected, told>>

\* The dispatch ends without an outcome: the process died, the client went
\* away and the future was dropped, or a reserve, lookup or mark call failed
\* (before or after it took effect) and the answer is an internal error.
Stop(p) ==
    /\ pc[p] # "Ended"
    /\ Goto(p, "Ended")
    /\ UNCHANGED <<ledger, req, number, base, tx, decision, version, committed, rejected, told>>

-----------------------------------------------------------------------------
(* The rest of the system.                                                 *)

\* The status of a command, asked for by command name and contract.
Status(c) ==
    /\ ledger[c].state # "Vacant"
    /\ ~locked(c)
    /\ expire_if_due(c)
    /\ IF is_replayable(ledger[c].state) /\ ~retention_due(ledger[c])
       THEN Tell(c, [input |-> ledger[c].input, kind |-> ledger[c].state,
                     by |-> ledger[c].outcome])
       ELSE UNCHANGED told
    /\ UNCHANGED <<dispatchVars, version, committed, rejected>>

\* Compaction skips locked rows.
Compact(c) ==
    /\ ~locked(c)
    /\ compact_expired(c)
    /\ UNCHANGED <<dispatchVars, version, committed, rejected, told>>

Age ==
    /\ \E c \in Commands : ledger[c].retention > 0
    /\ Tick
    /\ UNCHANGED <<dispatchVars, version, committed, rejected, told>>

\* What the dispatch itself does next.
Proceed(p) ==
    \/ reserve_command(p)
    \/ Load(p)
    \/ \E kind \in Kinds : Decide(p, kind)
    \/ Abandon(p)
    \/ Begin(p)
    \/ Write(p)
    \/ LoadCommitted(p)
    \/ ResolveAmbiguous(p)
    \/ MarkUnknown(p)

\* What the database does with a transaction it was handed.
Conclude(p) == Abort(p) \/ \E deadline \in 1..Retention : Commit(p, deadline)

Next ==
    \/ \E p \in Dispatches : Proceed(p) \/ Conclude(p) \/ LoseConnection(p) \/ Stop(p)
    \/ \E c \in Commands : Compact(c) \/ Status(c)
    \/ Age

Spec == Init /\ [][Next]_vars

\* Handlers return, the database ends every transaction it was handed, and the
\* runtime polls every dispatch.
Fairness == \A p \in Dispatches : WF_vars(Proceed(p)) /\ WF_vars(Conclude(p))

FairSpec == Spec /\ Fairness

-----------------------------------------------------------------------------
(* Correctness.                                                            *)

\* What was committed for a command.
Outcomes(c) ==
    {o \in Outcome : /\ command(o.by) = c
                     /\ req[o.by].input = o.input
                     /\ \/ o.kind = "Succeeded" /\ o.by \in committed
                        \/ o.kind = "Rejected" /\ o.by \in rejected}

\* However often a command is sent, reclaimed after its lease ran out, or
\* resolved after a broken COMMIT, at most one of its attempts commits, and it
\* either appends its events or is rejected (complete_command_in_tx is the
\* last statement of the transaction and rolls everything else back).
AtMostOnce == \A c \in Commands : \A o1, o2 \in Outcomes(c) : o1 = o2

\* Every answer a client is ever given for a command, from the handler, from a
\* replay, from an ambiguous commit or from a status lookup, is the outcome
\* that was committed, and was asked for with the input that produced it.
AnswersAgree == \A c \in Commands : told[c] \subseteq Outcomes(c)

\* The ledger and the event stream tell the same story: a command is recorded
\* as succeeded or rejected exactly when that outcome was committed, until the
\* record expires; and an expired record never hides a later execution.
LedgerMatchesStream ==
    \A c \in Commands :
        /\ is_replayable(ledger[c].state) =>
               Outcomes(c) = {[input |-> ledger[c].input, kind |-> ledger[c].state,
                               by |-> ledger[c].outcome]}
        /\ ledger[c].state \in {"Vacant", "InProgress", "RetryableUnknown"} => Outcomes(c) = {}

\* A dispatch whose COMMIT was acknowledged finds its own receipt, or that it
\* expired: load_committed_dispatch_result never reports that the "committed
\* command has no exact durable replay receipt".
CommittedReceiptFound ==
    \A p \in Dispatches : pc[p] = "Loading" =>
        \/ lookup(attempt(p)) = "Expired"
        \/ lookup(attempt(p)) = "Succeeded" /\ ledger[command(p)].outcome = p

\* No lost update: the attempts in the stream were each decided on the state
\* their predecessor left, so no two of them loaded the same version, and none
\* a version that was not there (the expected-version check of the commit).
DecidedOnCurrentState ==
    /\ \A p \in committed : base[p] \in 0..(version - 1)
    /\ \A p, q \in committed : base[p] = base[q] => p = q

\* A record never forgets: a finished command can only expire, an expired one
\* stays so, and an attempt that lost the record never gets it back.
RecordMovesForward ==
    [][\A c \in Commands :
         /\ is_replayable(ledger[c].state) =>
                \/ ledger'[c].state = "Expired"
                \/ ledger'[c].state = ledger[c].state /\ ledger'[c].outcome = ledger[c].outcome
         /\ ledger[c].state = "Expired" => ledger'[c].state = "Expired"
         /\ ledger'[c].attempt >= ledger[c].attempt
         /\ ledger'[c].token \notin {None, ledger[c].token} =>
                ledger'[c].attempt > ledger[c].attempt]_vars

\* The row lock makes the lease check of the transaction's last statement good
\* until COMMIT: no reservation, lookup, mark or compaction takes the record
\* from a transaction the database still works on, even if its lease ran out.
OpenTransactionKeepsRecord ==
    \A p \in Dispatches : tx[p] # "None" => matches_fence(attempt(p))

\* Every dispatch ends: row locks are released, and neither a broken COMMIT
\* nor a lost attempt leaves its caller waiting.
EveryDispatchEnds == \A p \in Dispatches : <>(pc[p] = "Ended")

\* What dispatch promises its clients: CommandContract, in which a command is
\* decided once and only what was decided is told.
Contract == INSTANCE CommandContract WITH decided <- [c \in Commands |-> Outcomes(c)]

ImplementsContract == Contract!ContractSpec
=============================================================================
