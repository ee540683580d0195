------------------------ MODULE CausalDispatchProofs -------------------------
(***************************************************************************)
(* Proofs that causal dispatch decides a command at most once, tells only  *)
(* what was decided and loses no update, for every set of commands, inputs *)
(* and dispatches and every lease and retention.                           *)
(*                                                                         *)
(* The argument: attempt numbers tell apart the dispatches that acquired a *)
(* command; the ledger row names the latest of them; a transaction holds   *)
(* the row from its fence check to its end, so the row still names it when *)
(* it commits; and committing ends the row's life as anything but a        *)
(* receipt, so the attempt that committed stays the latest.                *)
(***************************************************************************)
EXTENDS CausalDispatch, TLAPS

\* Attempt numbers come from the record: a dispatch has one once it acquired
\* the command, with the record's input, and no two have the same.
Numbers ==
    \A p \in Dispatches :
        /\ pc[p] = "Arrived" => number[p] = 0
        /\ number[p] <= ledger[command(p)].attempt
        /\ number[p] > 0 => ledger[command(p)].input = req[p].input

Distinct ==
    \A p, q \in Dispatches :
        command(p) = command(q) /\ number[p] = number[q] /\ number[p] > 0 => p = q

\* The token of a record in progress is its latest attempt's.
Token(c) ==
    /\ ledger[c].state = "InProgress" <=> ledger[c].token # None
    /\ ledger[c].token # None =>
           /\ command(ledger[c].token) = c
           /\ number[ledger[c].token] = ledger[c].attempt
           /\ ledger[c].attempt > 0
    /\ ledger[c].state = "Vacant" => ledger[c].attempt = 0

Tokens == \A c \in Commands : Token(c)

\* A dispatch that commits, or whose transaction is open, has decided.
Transactions ==
    \A p \in Dispatches :
        /\ pc[p] = "Committing" => decision[p] \in Kinds
        /\ tx[p] # "None" => pc[p] \notin {"Arrived", "Handling"} /\ decision[p] \in Kinds

\* An uncommitted append is alone and extends the committed stream.
Appends ==
    \A p \in Dispatches : tx[p] = "Sent" /\ decision[p] = "Succeeded" =>
        /\ base[p] = version
        /\ \A q \in Dispatches : tx[q] = "Sent" /\ decision[q] = "Succeeded" => p = q

\* The attempt that was committed is the record's latest, and its receipt
\* stays until it expires.
Receipt(p, kind) ==
    /\ pc[p] \notin {"Arrived", "Handling"}
    /\ number[p] > 0
    /\ number[p] = ledger[command(p)].attempt
    /\ \/ ledger[command(p)].state = "Expired"
       \/ ledger[command(p)].state = kind /\ ledger[command(p)].outcome = p

Receipts ==
    /\ \A p \in committed : Receipt(p, "Succeeded")
    /\ \A p \in rejected : Receipt(p, "Rejected")
    /\ committed \cap rejected = {}

\* A receipt in the ledger is that of a committed attempt.
Stored(c) ==
    /\ ledger[c].state = "Succeeded" =>
           ledger[c].outcome \in committed /\ command(ledger[c].outcome) = c
    /\ ledger[c].state = "Rejected" =>
           ledger[c].outcome \in rejected /\ command(ledger[c].outcome) = c

Recorded == \A c \in Commands : Stored(c)

Acknowledged == \A p \in Dispatches : pc[p] = "Loading" => p \in committed

\* All of it but what clients were told.
Core ==
    /\ TypeOK
    /\ Numbers
    /\ Distinct
    /\ Tokens
    /\ OpenTransactionKeepsRecord
    /\ Transactions
    /\ Appends
    /\ Receipts
    /\ Recorded
    /\ Acknowledged
    /\ DecidedOnCurrentState

\* The inductive invariant.
Inv == Core /\ AnswersAgree

-----------------------------------------------------------------------------
(* The transitions of a record.                                            *)

\* The deadlines a transition writes are deadlines a record can hold.
LEMMA Deadlines ==
    /\ 0 \in 0..Lease /\ Lease \in 0..Lease
    /\ 0 \in 0..Retention /\ Retention \in 0..Retention
    /\ 1..Retention \subseteq 0..Retention
BY LedgerAssumption DEF LedgerAssumption

\* What CommandLedgerRecord::expire leaves of a record.
LEMMA ExpireFields ==
    ASSUME NEW r \in Record
    PROVE  /\ expire(r) \in Record
           /\ expire(r).state = "Expired"
           /\ expire(r).token = None
           /\ expire(r).attempt = r.attempt
           /\ expire(r).input = r.input
BY ZenonT(60), Deadlines DEF expire, Record, States

\* What mark_retryable_unknown leaves of a record.
LEMMA UnknownFields ==
    ASSUME NEW r \in Record
    PROVE  /\ unknown(r) \in Record
           /\ unknown(r).state = "RetryableUnknown"
           /\ unknown(r).token = None
           /\ unknown(r).attempt = r.attempt
           /\ unknown(r).input = r.input
BY ZenonT(60), Deadlines DEF unknown, Record, States

\* Time takes nothing from a record but its remaining lease and retention.
LEMMA OlderFields ==
    ASSUME NEW r \in Record
    PROVE  /\ Older(r) \in Record
           /\ Older(r).state = r.state
           /\ Older(r).token = r.token
           /\ Older(r).attempt = r.attempt
           /\ Older(r).input = r.input
           /\ Older(r).outcome = r.outcome
<1>1. /\ (IF r.lease > 0 THEN r.lease - 1 ELSE 0) \in 0..Lease
      /\ (IF r.retention > 0 THEN r.retention - 1 ELSE 0) \in 0..Retention
  BY LedgerAssumption DEF LedgerAssumption, Record
<1> QED
  BY ZenonT(60), <1>1 DEF Older, Record

\* The record a first reservation inserts.
LEMMA InitialFields ==
    ASSUME NEW p \in Dispatches, NEW i \in Inputs
    PROVE  /\ initial(p, i) \in Record
           /\ initial(p, i).state = "InProgress"
           /\ initial(p, i).token = p
           /\ initial(p, i).attempt = 1
           /\ initial(p, i).input = i
BY Deadlines DEF initial, Record, States

\* A reclaim raises the attempt number and hands the record to a new token.
LEMMA ReclaimFields ==
    ASSUME NEW r \in Record, NEW p \in Dispatches
    PROVE  /\ reclaim(r, p) \in Record
           /\ reclaim(r, p).state = "InProgress"
           /\ reclaim(r, p).token = p
           /\ reclaim(r, p).attempt = r.attempt + 1
           /\ reclaim(r, p).input = r.input
<1>1. r.attempt + 1 \in Nat
  BY DEF Record
<1> QED
  BY ZenonT(60), <1>1, Deadlines DEF reclaim, Record, States

\* A completion ends the attempt and stores its outcome.
LEMMA CompleteFields ==
    ASSUME NEW r \in Record, NEW p \in Dispatches, NEW kind \in Kinds,
           NEW deadline \in 1..Retention
    PROVE  /\ complete(r, kind, p, deadline) \in Record
           /\ complete(r, kind, p, deadline).state = kind
           /\ complete(r, kind, p, deadline).token = None
           /\ complete(r, kind, p, deadline).attempt = r.attempt
           /\ complete(r, kind, p, deadline).input = r.input
           /\ complete(r, kind, p, deadline).outcome = p
BY ZenonT(60), Deadlines DEF complete, Record, States, Kinds

-----------------------------------------------------------------------------
(* Steps in which the ledger only loses: records expire or are given up by *)
(* nobody's transaction, time passes, transactions end without effect.     *)

Fades(c) ==
    /\ ledger'[c].attempt = ledger[c].attempt
    /\ ledger'[c].input = ledger[c].input
    /\ \/ /\ ledger'[c].state = ledger[c].state
          /\ ledger'[c].token = ledger[c].token
          /\ ledger'[c].outcome = ledger[c].outcome
       \/ /\ ledger'[c].state = "Expired"
          /\ ledger'[c].token = None
          /\ ledger[c].state # "Vacant"
          /\ ~locked(c)
       \/ /\ ledger'[c].state = "RetryableUnknown"
          /\ ledger'[c].token = None
          /\ ledger[c].state = "InProgress"
          /\ ~locked(c)

FadingStep ==
    /\ ledger' \in [Commands -> Record]
    /\ \A c \in Commands : Fades(c)
    /\ pc' \in [Dispatches -> Points]
    /\ \A p \in Dispatches : pc'[p] = pc[p] \/ pc'[p] \in {"Ended", "Resolving", "Marking"}
    /\ tx' \in [Dispatches -> Phases]
    /\ \A p \in Dispatches : tx'[p] = tx[p] \/ tx'[p] = "None"
    /\ told' \in [Commands -> SUBSET Outcome]
    /\ UNCHANGED <<req, number, base, decision, version, committed, rejected>>

\* A step in which records only lose their tokens, and dispatches only give up,
\* keeps the invariant.
LEMMA FadingStepCore ==
    ASSUME Core, FadingStep
    PROVE  Core'
<1> USE DEF Core, FadingStep
<1>1. \A p \in Dispatches : command(p) \in Commands /\ command(p)' = command(p)
  BY DEF command, TypeOK
<1>2. TypeOK'
  BY DEF TypeOK
<1>3. Numbers'
  BY <1>1 DEF Numbers, Fades
<1>4. Distinct'
  BY <1>1 DEF Distinct
<1>5. Tokens'
  <2> SUFFICES ASSUME NEW c \in Commands
               PROVE  Token(c)'
    BY DEF Tokens
  <2>1. Fades(c) /\ ledger[c].token \in Dispatches \cup {None}
    BY ZenonT(60) DEF TypeOK, Record
  <2> QED
    BY <1>1, <2>1 DEF Tokens, Token, Fades, command
<1>6. OpenTransactionKeepsRecord'
  <2> SUFFICES ASSUME NEW p \in Dispatches, tx'[p] # "None"
               PROVE  matches_fence(attempt(p))'
    BY Zenon DEF OpenTransactionKeepsRecord
  <2>1. locked(command(p)) /\ matches_fence(attempt(p)) /\ Fades(command(p))
    BY <1>1 DEF locked, OpenTransactionKeepsRecord
  <2> QED
    BY Zenon, <1>1, <2>1 DEF Fades, matches_fence, attempt, command
<1>7. Transactions'
  BY DEF Transactions
<1>8. Appends'
  BY DEF Appends, TypeOK, Phases
<1>9. Receipts'
  <2>1. ASSUME NEW p \in Dispatches, NEW kind \in Kinds, Receipt(p, kind)
        PROVE  Receipt(p, kind)'
    BY <1>1, <2>1 DEF Receipt, Fades, Kinds
  <2> QED
    BY <2>1 DEF Receipts, Kinds, TypeOK
<1>10. Recorded'
  <2> SUFFICES ASSUME NEW c \in Commands
               PROVE  Stored(c)'
    BY DEF Recorded
  <2>1. Fades(c)
    OBVIOUS
  <2> QED
    BY <2>1 DEF Recorded, Stored, Fades, command
<1>11. Acknowledged'
  BY DEF Acknowledged
<1>12. DecidedOnCurrentState'
  BY DEF DecidedOnCurrentState
<1> QED
  BY <1>2, <1>3, <1>4, <1>5, <1>6, <1>7, <1>8, <1>9, <1>10, <1>11, <1>12

-----------------------------------------------------------------------------
(* Steps that gain: acquiring, loading, deciding, and the transaction.     *)

\* A request names a command and an input.
LEMMA CommandType ==
    ASSUME TypeOK, NEW p \in Dispatches
    PROVE  command(p) \in Commands /\ req[p].input \in Inputs
BY DEF TypeOK, command

\* A transaction that holds a row is the only one to hold it.
LEMMA OneHolder ==
    ASSUME Core, NEW p \in Dispatches, NEW q \in Dispatches,
           tx[p] # "None", tx[q] # "None", command(p) = command(q)
    PROVE  p = q
BY DEF Core, OpenTransactionKeepsRecord, matches_fence, attempt

\* The record an acquiring dispatch leaves behind.
Fresh(p, record) ==
    /\ record \in Record
    /\ record.state = "InProgress"
    /\ record.token = p
    /\ record.attempt = ledger[command(p)].attempt + 1
    /\ record.input = req[p].input
    /\ ledger[command(p)].attempt > 0 => record.input = ledger[command(p)].input
    /\ ledger[command(p)].state \in {"Vacant", "InProgress", "RetryableUnknown"}

\* A reservation that takes a free or lapsed record keeps the invariant.
LEMMA AcquireCore ==
    ASSUME Core, NEW p \in Dispatches, NEW record, Fresh(p, record),
           pc[p] = "Arrived", ~locked(command(p)),
           Acquire(p, record),
           UNCHANGED <<req, base, tx, decision, version, committed, rejected>>
    PROVE  Core'
<1> DEFINE c == command(p)
<1>1. /\ c \in Commands
      /\ ledger' = [ledger EXCEPT ![c] = record]
      /\ number' = [number EXCEPT ![p] = ledger[c].attempt + 1]
      /\ pc' = [pc EXCEPT ![p] = "Handling"]
      /\ told' = told
      /\ ledger[c].attempt \in Nat
  BY CommandType DEF Core, Acquire, Fresh, Goto, TypeOK, Record
<1>2. \A q \in Dispatches : command(q) \in Commands /\ command(q)' = command(q)
  BY CommandType DEF Core, command
<1>3. \A d \in Commands : d # c => ledger'[d] = ledger[d]
  BY <1>1 DEF Core, TypeOK
<1>4. ledger'[c] = record
  BY <1>1 DEF Core, TypeOK
<1>5. /\ number' \in [Dispatches -> Nat]
      /\ number'[p] = ledger[c].attempt + 1
      /\ \A q \in Dispatches : q # p => number'[q] = number[q]
  BY <1>1 DEF Core, TypeOK
<1>6. \A q \in Dispatches : q # p => pc'[q] = pc[q]
  BY <1>1 DEF Core, TypeOK
<1>7. pc'[p] = "Handling" /\ pc' \in [Dispatches -> Points]
  BY <1>1 DEF Core, TypeOK, Points
<1> HIDE DEF c
<1>8. TypeOK'
  BY <1>1, <1>5, <1>7 DEF Core, TypeOK, Fresh
<1>9. Numbers'
  <2> SUFFICES ASSUME NEW q \in Dispatches
               PROVE  /\ pc'[q] = "Arrived" => number'[q] = 0
                      /\ number'[q] <= ledger'[command(q)].attempt
                      /\ number'[q] > 0 => ledger'[command(q)].input = req[q].input
    BY <1>2 DEF Numbers
  <2>1. /\ pc[q] = "Arrived" => number[q] = 0
        /\ number[q] <= ledger[command(q)].attempt
        /\ number[q] > 0 => ledger[command(q)].input = req[q].input
        /\ number[q] \in Nat
    BY DEF Core, Numbers, TypeOK
  <2>2. CASE q = p
    BY <2>2, <1>4, <1>5, <1>7, <1>1 DEF Fresh, c
  <2>3. CASE q # p /\ command(q) = c
    BY <2>1, <2>3, <1>1, <1>4, <1>5, <1>6 DEF Fresh, c
  <2>4. CASE q # p /\ command(q) # c
    BY <2>1, <2>4, <1>2, <1>3, <1>5, <1>6
  <2> QED
    BY <2>2, <2>3, <2>4
<1>10. Distinct'
  <2> SUFFICES ASSUME NEW q \in Dispatches, NEW s \in Dispatches,
                      command(q) = command(s), number'[q] = number'[s], number'[q] > 0
               PROVE  q = s
    BY <1>2 DEF Distinct
  <2>1. /\ number[q] <= ledger[command(q)].attempt
        /\ number[s] <= ledger[command(s)].attempt
        /\ number[q] \in Nat /\ number[s] \in Nat
    BY DEF Core, Numbers, TypeOK
  <2>2. CASE q = p \/ s = p
    BY <2>1, <2>2, <1>1, <1>5 DEF c
  <2>3. CASE q # p /\ s # p
    BY <2>3, <1>5 DEF Core, Distinct
  <2> QED
    BY <2>2, <2>3
<1>11. Tokens'
  <2> SUFFICES ASSUME NEW d \in Commands
               PROVE  Token(d)'
    BY ZenonT(60) DEF Tokens
  <2>1. CASE d = c
    <3>1. p # None
      BY LedgerAssumption DEF LedgerAssumption
    <3> QED
      BY SMTT(60), <2>1, <3>1, <1>1, <1>2, <1>4, <1>5 DEF Token, Fresh, command, c
  <2>2. CASE d # c
    <3>1. Token(d) /\ ledger[d].token \in Dispatches \cup {None}
      BY SMTT(60) DEF Core, Tokens, TypeOK, Record
    <3>2. ledger[d].token # None => ledger[d].token # p
      BY ZenonT(60), <3>1, <2>2 DEF Token, c
    <3> QED
      BY <3>1, <3>2, <2>2, <1>2, <1>3, <1>5 DEF Token, command
  <2> QED
    BY <2>1, <2>2
<1>12. OpenTransactionKeepsRecord'
  <2> SUFFICES ASSUME NEW q \in Dispatches, tx[q] # "None"
               PROVE  matches_fence(attempt(q))'
    BY ZenonT(60) DEF OpenTransactionKeepsRecord
  <2>1. matches_fence(attempt(q)) /\ q # p /\ command(q) # c
    BY ZenonT(60) DEF Core, OpenTransactionKeepsRecord, locked, Transactions, c
  <2> QED
    BY Zenon, <2>1, <1>2, <1>3, <1>5 DEF matches_fence, attempt, command
<1>13. Transactions' /\ Appends' /\ DecidedOnCurrentState'
  BY Zenon, <1>6, <1>7 DEF Core, Transactions, Appends, DecidedOnCurrentState
<1>14. Receipts'
  <2>1. ASSUME NEW q \in Dispatches, NEW kind \in Kinds, Receipt(q, kind)
        PROVE  Receipt(q, kind)'
    <3>1. q # p /\ command(q) # c
      BY <2>1 DEF Receipt, Core, Fresh, Kinds, c
    <3> QED
      BY Zenon, <2>1, <3>1, <1>2, <1>3, <1>5, <1>6 DEF Receipt
  <2> QED
    BY <2>1 DEF Core, Receipts, Kinds, TypeOK
<1>15. Recorded'
  <2> SUFFICES ASSUME NEW d \in Commands
               PROVE  Stored(d)'
    BY DEF Recorded
  <2> QED
    BY ZenonT(60), <1>3, <1>4 DEF Core, Recorded, Stored, Fresh, command
<1>16. Acknowledged'
  BY <1>6, <1>7 DEF Core, Acknowledged
<1> QED
  BY <1>8, <1>9, <1>10, <1>11, <1>12, <1>13, <1>14, <1>15, <1>16 DEF Core

\* Loading the aggregate keeps the invariant.
LEMMA LoadCore ==
    ASSUME Core, NEW p \in Dispatches, Load(p)
    PROVE  Core'
<1> USE DEF Load
<1>1. base' \in [Dispatches -> Nat \cup {None}] /\ \A q \in Dispatches : q # p => base'[q] = base[q]
  BY DEF Core, TypeOK
<1>2. \A q \in committed : q # p
  BY DEF Core, Receipts, Receipt
<1>3. tx[p] = "None"
  BY ZenonT(60) DEF Core, Transactions
<1>4. TypeOK' /\ Numbers' /\ Distinct' /\ Transactions' /\ Receipts' /\ Acknowledged'
  BY ZenonT(60), <1>1 DEF Core, TypeOK, Numbers, Distinct, Transactions, Receipts, Receipt, Acknowledged, command
<1>5. Tokens' /\ Recorded'
  BY ZenonT(60) DEF Core, Tokens, Token, Recorded, Stored, command
<1>6. OpenTransactionKeepsRecord'
  BY Zenon DEF Core, OpenTransactionKeepsRecord, matches_fence, attempt, command
<1>7. Appends'
  BY <1>1, <1>3 DEF Core, Appends
<1>8. DecidedOnCurrentState'
  BY SMTT(60), <1>1, <1>2 DEF Core, DecidedOnCurrentState, TypeOK
<1> QED
  BY <1>4, <1>5, <1>6, <1>7, <1>8 DEF Core

\* The handler's decision keeps the invariant.
LEMMA DecideCore ==
    ASSUME Core, NEW p \in Dispatches, NEW kind \in Kinds, Decide(p, kind)
    PROVE  Core'
<1> USE DEF Decide
<1>1. /\ decision' \in [Dispatches -> Kinds \cup {None}]
      /\ \A q \in Dispatches : q # p => decision'[q] = decision[q]
  BY ZenonT(60) DEF Core, TypeOK
<1>2. /\ pc' \in [Dispatches -> Points]
      /\ pc'[p] = "Committing"
      /\ \A q \in Dispatches : q # p => pc'[q] = pc[q]
  BY ZenonT(60) DEF Core, TypeOK, Goto, Points
<1>3. tx[p] = "None"
  BY ZenonT(60) DEF Core, Transactions
<1>4. TypeOK' /\ Numbers' /\ Distinct'
  BY ZenonT(60), <1>1, <1>2 DEF Core, TypeOK, Numbers, Distinct, command
<1>5. Transactions' /\ Acknowledged'
  BY <1>1, <1>2, <1>3 DEF Core, Transactions, Acknowledged
<1>6. Receipts'
  BY ZenonT(60), <1>2 DEF Core, Receipts, Receipt, command, TypeOK
<1>7. Tokens' /\ Recorded'
  BY ZenonT(60) DEF Core, Tokens, Token, Recorded, Stored, command
<1>8. OpenTransactionKeepsRecord'
  BY Zenon DEF Core, OpenTransactionKeepsRecord, matches_fence, attempt, command
<1>9. Appends' /\ DecidedOnCurrentState'
  BY <1>1, <1>3 DEF Core, Appends, DecidedOnCurrentState
<1> QED
  BY <1>4, <1>5, <1>6, <1>7, <1>8, <1>9 DEF Core

\* A transaction advances: it takes the lock, or it has written and sends COMMIT.
LEMMA TransactionCore ==
    ASSUME Core, NEW p \in Dispatches, NEW phase \in {"Locked", "Sent"},
           pc[p] = "Committing",
           validate_live_attempt(attempt(p)),
           phase = "Sent" /\ decision[p] = "Succeeded" => base[p] = version /\ ~appending,
           tx' = [tx EXCEPT ![p] = phase],
           UNCHANGED <<ledger, req, pc, number, base, decision, version, committed, rejected, told>>
    PROVE  Core'
<1>1. /\ tx' \in [Dispatches -> Phases]
      /\ tx'[p] = phase
      /\ \A q \in Dispatches : q # p => tx'[q] = tx[q]
  BY Zenon DEF Core, TypeOK, Phases
<1>2. TypeOK' /\ Numbers' /\ Distinct' /\ Receipts' /\ Acknowledged' /\ DecidedOnCurrentState'
  <2>1. TypeOK'
    BY ZenonT(60), <1>1 DEF Core, TypeOK
  <2>2. Numbers' /\ Distinct'
    BY ZenonT(60) DEF Core, Numbers, Distinct, command
  <2>3. Receipts'
    BY Zenon DEF Core, Receipts, Receipt, command
  <2>4. Acknowledged' /\ DecidedOnCurrentState'
    BY SMTT(60) DEF Core, Acknowledged, DecidedOnCurrentState
  <2> QED
    BY SMTT(60), <2>1, <2>2, <2>3, <2>4
<1>3. Tokens' /\ Recorded'
  BY Zenon DEF Core, Tokens, Token, Recorded, Stored, command
<1>4. OpenTransactionKeepsRecord'
  BY ZenonT(60), <1>1 DEF Core, OpenTransactionKeepsRecord, validate_live_attempt, matches_fence, attempt, command
<1>5. Transactions'
  BY ZenonT(60), <1>1 DEF Core, Transactions
<1>6. Appends'
  BY SMTT(60), <1>1 DEF Core, Appends, appending
<1> QED
  BY <1>2, <1>3, <1>4, <1>5, <1>6 DEF Core

\* The COMMIT that completes a command keeps the invariant: it is the only
\* holder of the row, and the row still carries its token.
LEMMA CommitCore ==
    ASSUME Core, NEW p \in Dispatches, NEW deadline \in 1..Retention, Commit(p, deadline),
           told' \in [Commands -> SUBSET Outcome]
    PROVE  Core'
<1> DEFINE c == command(p)
           record == complete(ledger[c], decision[p], p, deadline)
<1>1. /\ tx[p] = "Sent" /\ decision[p] \in Kinds
      /\ matches_fence(attempt(p))
      /\ pc[p] \notin {"Arrived", "Handling"}
      /\ c \in Commands /\ ledger[c] \in Record
  BY ZenonT(60), CommandType
     DEF Core, Commit, Transactions, OpenTransactionKeepsRecord, TypeOK
<1>2. /\ record \in Record
      /\ record.state = decision[p]
      /\ record.token = None
      /\ record.attempt = ledger[c].attempt
      /\ record.input = ledger[c].input
      /\ record.outcome = p
  BY SMTT(60), <1>1, CompleteFields
<1>3. ledger' = [ledger EXCEPT ![c] = record]
  BY ZenonT(60) DEF Commit
<1> HIDE DEF record
<1>4. /\ ledger' \in [Commands -> Record]
      /\ ledger'[c] = record
      /\ \A d \in Commands : d # c => ledger'[d] = ledger[d]
  BY ZenonT(60), <1>1, <1>2, <1>3 DEF Core, TypeOK
<1>5. /\ tx' \in [Dispatches -> Phases]
      /\ tx'[p] = "None"
      /\ \A q \in Dispatches : q # p => tx'[q] = tx[q]
  BY Zenon DEF Core, TypeOK, Commit, Phases
<1>6. /\ pc' \in [Dispatches -> Points]
      /\ pc'[p] \notin {"Arrived", "Handling"}
      /\ pc'[p] = "Loading" => pc[p] = "Loading" \/ p \in committed'
      /\ pc'[p] = "Committing" => pc[p] = "Committing"
      /\ \A q \in Dispatches : q # p => pc'[q] = pc[q]
  BY ZenonT(60), <1>1 DEF Core, TypeOK, Commit, Goto, Points
<1>7. UNCHANGED <<req, number, base, decision>>
  BY DEF Commit
<1>8. \A q \in Dispatches : command(q) \in Commands /\ command(q)' = command(q)
  BY ZenonT(60), <1>7, CommandType DEF Core, command
<1>9. \/ decision[p] = "Succeeded" /\ version' = version + 1
             /\ committed' = committed \cup {p} /\ rejected' = rejected
      \/ decision[p] = "Rejected" /\ version' = version
             /\ rejected' = rejected \cup {p} /\ committed' = committed
  BY Zenon DEF Commit
<1>10. ledger[c].state = "InProgress" /\ number[p] = ledger[c].attempt /\ number[p] > 0
  BY Zenon, <1>1, LedgerAssumption
     DEF matches_fence, attempt, Core, Tokens, Token, LedgerAssumption, TypeOK, Record
<1>11. \A q \in committed \cup rejected : command(q) # c
  BY ZenonT(60), <1>10 DEF Core, Receipts, Receipt
<1>12. \A q \in Dispatches : q # p /\ tx[q] # "None" => command(q) # c
  BY ZenonT(60), <1>1, OneHolder
<1> HIDE DEF c
<1>13. TypeOK'
  <2>1. version' \in Nat
    BY <1>9 DEF Core, TypeOK
  <2>2. committed' \subseteq Dispatches /\ rejected' \subseteq Dispatches
    BY ZenonT(60), <1>9 DEF Core, TypeOK
  <2> QED
    BY ZenonT(60), <1>4, <1>5, <1>6, <1>7, <2>1, <2>2 DEF Core, TypeOK
<1>14. Numbers'
  <2> SUFFICES ASSUME NEW q \in Dispatches
               PROVE  /\ pc'[q] = "Arrived" => number[q] = 0
                      /\ number[q] <= ledger'[command(q)].attempt
                      /\ number[q] > 0 => ledger'[command(q)].input = req[q].input
    BY SMTT(60), <1>7, <1>8 DEF Numbers
  <2>1. command(q) \in Commands /\ (command(q) = c => ledger'[command(q)] = record)
            /\ (command(q) # c => ledger'[command(q)] = ledger[command(q)])
    BY <1>4, <1>8
  <2> QED
    BY SMTT(60), <2>1, <1>2, <1>6 DEF Core, Numbers
<1>15. Distinct'
  BY <1>7, <1>8 DEF Core, Distinct
<1>16. Tokens'
  <2> SUFFICES ASSUME NEW d \in Commands
               PROVE  Token(d)'
    BY DEF Tokens
  <2>1. CASE d = c
    <3>1. record.state \notin {"InProgress", "Vacant"}
      BY <1>1, <1>2 DEF Kinds
    <3> QED
      BY SMTT(60), <2>1, <3>1, <1>2, <1>4 DEF Token
  <2>2. CASE d # c
    BY <2>2, <1>4, <1>7 DEF Core, Tokens, Token, command
  <2> QED
    BY <2>1, <2>2
<1>17. OpenTransactionKeepsRecord'
  <2> SUFFICES ASSUME NEW q \in Dispatches, tx'[q] # "None"
               PROVE  matches_fence(attempt(q))'
    BY DEF OpenTransactionKeepsRecord
  <2>1. matches_fence(attempt(q)) /\ command(q) # c
    BY <1>5, <1>12 DEF Core, OpenTransactionKeepsRecord
  <2> QED
    BY ZenonT(60), <2>1, <1>4, <1>7, <1>8 DEF matches_fence, attempt, command
<1>18. Transactions'
  BY ZenonT(60), <1>5, <1>6, <1>7 DEF Core, Transactions
<1>19. Appends'
  BY Zenon, <1>1, <1>5, <1>7, <1>9 DEF Core, Appends
<1>20. Receipts'
  <2>1. ASSUME NEW q \in Dispatches, NEW kind \in Kinds, Receipt(q, kind), command(q) # c
        PROVE  Receipt(q, kind)'
    BY ZenonT(60), <2>1, <1>4, <1>6, <1>7, <1>8 DEF Receipt
  <2>2. ASSUME NEW kind \in Kinds, decision[p] = kind
        PROVE  Receipt(p, kind)'
    BY Zenon, <2>2, <1>2, <1>4, <1>6, <1>7, <1>8, <1>10 DEF Receipt, c
  <2>3. committed \subseteq Dispatches /\ rejected \subseteq Dispatches
    BY DEF Core, TypeOK
  <2>4. p \notin committed /\ p \notin rejected
    BY <1>11 DEF c
  <2>5. ASSUME NEW q \in committed'
        PROVE  Receipt(q, "Succeeded")'
    <3>1. CASE q \in committed
      BY <3>1, <2>1, <2>3, <1>11 DEF Core, Receipts, Kinds
    <3>2. CASE q \notin committed
      <4>1. q = p /\ decision[p] = "Succeeded"
        BY <3>2, <2>5, <1>9
      <4>2. Receipt(p, "Succeeded")'
        BY <4>1, <2>2 DEF Kinds
      <4> QED
        BY <4>1, <4>2
    <3> QED
      BY <3>1, <3>2
  <2>6. ASSUME NEW q \in rejected'
        PROVE  Receipt(q, "Rejected")'
    <3>1. CASE q \in rejected
      BY <3>1, <2>1, <2>3, <1>11 DEF Core, Receipts, Kinds
    <3>2. CASE q \notin rejected
      <4>1. q = p /\ decision[p] = "Rejected"
        BY <3>2, <2>6, <1>9
      <4>2. Receipt(p, "Rejected")'
        BY <4>1, <2>2 DEF Kinds
      <4> QED
        BY <4>1, <4>2
    <3> QED
      BY <3>1, <3>2
  <2>7. committed' \cap rejected' = {}
    BY ZenonT(60), <2>4, <1>9 DEF Core, Receipts
  <2> QED
    BY ZenonT(60), <2>5, <2>6, <2>7 DEF Receipts
<1>21. Recorded'
  <2> SUFFICES ASSUME NEW d \in Commands
               PROVE  Stored(d)'
    BY DEF Recorded
  <2>1. CASE d = c
    BY SMTT(60), <2>1, <1>2, <1>4, <1>7, <1>9 DEF Stored, command, c
  <2>2. CASE d # c
    BY SMTT(60), <2>2, <1>4, <1>7, <1>9 DEF Core, Recorded, Stored, command
  <2> QED
    BY <2>1, <2>2
<1>22. Acknowledged'
  BY <1>6, <1>9 DEF Core, Acknowledged
<1>23. DecidedOnCurrentState'
  <2>1. \A q \in committed : base[q] \in 0..(version - 1) /\ version \in Nat
    BY DEF Core, DecidedOnCurrentState, TypeOK
  <2>2. CASE decision[p] = "Succeeded"
    <3>1. base[p] = version
      BY ZenonT(60), <2>2, <1>1 DEF Core, Appends
    <3>2. \A q \in committed' : base'[q] \in 0..(version' - 1)
      BY SMTT(60), <2>1, <2>2, <3>1, <1>7, <1>9 DEF Core, TypeOK
    <3>3. \A q, s \in committed' : base'[q] = base'[s] => q = s
      BY <2>1, <2>2, <3>1, <1>7, <1>9 DEF Core, DecidedOnCurrentState
    <3> QED
      BY <3>2, <3>3 DEF DecidedOnCurrentState
  <2>3. CASE decision[p] = "Rejected"
    BY <2>3, <1>7, <1>9 DEF Core, DecidedOnCurrentState
  <2> QED
    BY <2>2, <2>3, <1>9
<1> QED
  BY <1>13, <1>14, <1>15, <1>16, <1>17, <1>18, <1>19, <1>20, <1>21, <1>22, <1>23 DEF Core

-----------------------------------------------------------------------------
(* What clients are told.                                                  *)

\* Committed outcomes are never taken back.
LEMMA OutcomesGrow ==
    ASSUME NEW c, UNCHANGED req, committed \subseteq committed', rejected \subseteq rejected'
    PROVE  Outcomes(c) \subseteq Outcomes(c)'
BY DEF Outcomes, command

\* A step that tells nobody leaves every answer right.
LEMMA NobodyTold ==
    ASSUME Inv, UNCHANGED <<req, told>>, committed \subseteq committed', rejected \subseteq rejected'
    PROVE  AnswersAgree' /\ told' \in [Commands -> SUBSET Outcome]
BY Zenon, OutcomesGrow DEF Inv, Core, TypeOK, AnswersAgree

\* Telling a client a committed outcome leaves every answer right.
LEMMA ToldRight ==
    ASSUME Inv, NEW c \in Commands, NEW outcome, Tell(c, outcome), outcome \in Outcomes(c)',
           UNCHANGED req, committed \subseteq committed', rejected \subseteq rejected'
    PROVE  AnswersAgree' /\ told' \in [Commands -> SUBSET Outcome]
<1>1. outcome \in Outcome
  BY DEF Outcomes
<1>2. /\ told' \in [Commands -> SUBSET Outcome]
      /\ told'[c] = told[c] \cup {outcome}
      /\ \A d \in Commands : d # c => told'[d] = told[d]
  BY <1>1 DEF Inv, Core, TypeOK, Tell
<1>3. ASSUME NEW d \in Commands
      PROVE  (told[d] \subseteq Outcomes(d))'
  <2>1. told[d] \subseteq Outcomes(d) /\ Outcomes(d) \subseteq Outcomes(d)'
    BY SMTT(60), OutcomesGrow DEF Inv, AnswersAgree
  <2>2. CASE d = c
    BY <2>1, <2>2, <1>2
  <2>3. CASE d # c
    BY ZenonT(60), <2>1, <2>3, <1>2
  <2> QED
    BY SMTT(60), <2>2, <2>3
<1> QED
  BY <1>2, <1>3 DEF AnswersAgree

\* The receipt in the ledger is a committed outcome.
LEMMA StoredOutcome ==
    ASSUME Core, NEW c \in Commands, is_replayable(ledger[c].state)
    PROVE  [input |-> ledger[c].input, kind |-> ledger[c].state, by |-> ledger[c].outcome]
               \in Outcomes(c)
<1> DEFINE p == ledger[c].outcome
<1>1. \/ ledger[c].state = "Succeeded" /\ p \in committed
      \/ ledger[c].state = "Rejected" /\ p \in rejected
  BY SMTT(60) DEF is_replayable, Core, Recorded, Stored
<1>2. p \in Dispatches /\ command(p) = c /\ number[p] > 0
  BY ZenonT(60), <1>1 DEF Core, Recorded, Stored, Receipts, Receipt, TypeOK
<1>3. ledger[c].input = req[p].input /\ req[p].input \in Inputs
  BY Zenon, <1>2, CommandType DEF Core, Numbers
<1> HIDE DEF p
<1> QED
  BY Zenon, <1>1, <1>2, <1>3 DEF Outcomes, Outcome, Kinds, p

\* Replaying the stored receipt tells a committed outcome.
LEMMA ReplayAgrees ==
    ASSUME Inv, NEW p \in Dispatches, NEW c \in Commands, command(p) = c, Replay(p),
           is_replayable(ledger[c].state),
           ledger[c].input = req[p].input,
           UNCHANGED <<req, committed, rejected>>
    PROVE  AnswersAgree' /\ told' \in [Commands -> SUBSET Outcome]
<1>1. PICK outcome : outcome = [input |-> ledger[c].input, kind |-> ledger[c].state,
                                by |-> ledger[c].outcome]
  BY ZenonT(60)
<1>2. outcome \in Outcomes(c)
  BY Zenon, <1>1, StoredOutcome DEF Inv
<1>3. outcome \in Outcomes(c)'
  BY Zenon, <1>2, OutcomesGrow
<1>4. Tell(c, outcome)
  BY SMTT(60), <1>1 DEF Replay, Tell
<1> QED
  BY <1>3, <1>4, ToldRight

-----------------------------------------------------------------------------
(* The steps that only lose.                                               *)

Fading ==
    /\ ledger' \in [Commands -> Record]
    /\ \A c \in Commands : Fades(c)

\* An unchanged ledger fades trivially.
LEMMA SameLedger ==
    ASSUME TypeOK, UNCHANGED ledger
    PROVE  Fading
BY DEF Fading, Fades, TypeOK

\* Expiring an unlocked record is fading.
LEMMA ExpiredLedger ==
    ASSUME TypeOK, NEW c \in Commands, ~locked(c), ledger[c].state # "Vacant",
           ledger' = [ledger EXCEPT ![c] = expire(@)]
    PROVE  Fading
<1> DEFINE record == expire(ledger[c])
<1>1. /\ record \in Record
      /\ record.state = "Expired"
      /\ record.token = None
      /\ record.attempt = ledger[c].attempt
      /\ record.input = ledger[c].input
  BY ExpireFields DEF TypeOK
<1>2. ledger' = [ledger EXCEPT ![c] = record]
  OBVIOUS
<1> HIDE DEF record
<1> QED
  BY <1>1, <1>2 DEF TypeOK, Fading, Fades

\* Expiry on lookup, if due, is fading.
LEMMA DueLedger ==
    ASSUME TypeOK, NEW c \in Commands, ~locked(c), expire_if_due(c)
    PROVE  Fading
BY ExpiredLedger, SameLedger DEF expire_if_due, retention_due

\* Marking an attempt retryable is fading, fenced or not.
LEMMA UnknownLedger ==
    ASSUME TypeOK, NEW p \in Dispatches, ~locked(command(p)), mark_retryable_unknown(attempt(p))
    PROVE  Fading
<1> DEFINE c == command(p)
           record == unknown(ledger[c])
<1>1. CASE ~matches_fence(attempt(p))
  BY <1>1, SameLedger DEF mark_retryable_unknown
<1>2. CASE matches_fence(attempt(p))
  <2>1. c \in Commands /\ ledger[c].state = "InProgress" /\ ledger[c] \in Record
    BY ZenonT(60), <1>2, CommandType DEF matches_fence, attempt, TypeOK
  <2>2. /\ record \in Record
        /\ record.state = "RetryableUnknown"
        /\ record.token = None
        /\ record.attempt = ledger[c].attempt
        /\ record.input = ledger[c].input
    BY ZenonT(60), <2>1, UnknownFields
  <2>3. ledger' = [ledger EXCEPT ![c] = record]
    BY Zenon, <1>2 DEF mark_retryable_unknown, attempt
  <2>4. ~locked(c)
    OBVIOUS
  <2> HIDE DEF record, c
  <2> QED
    BY ZenonT(60), <2>1, <2>2, <2>3, <2>4 DEF TypeOK, Fading, Fades
<1> QED
  BY <1>1, <1>2

\* The passing of time is fading.
LEMMA OlderLedger ==
    ASSUME TypeOK, Tick
    PROVE  Fading
<1>1. \A c \in Commands : ledger'[c] = Older(ledger[c]) /\ ledger[c] \in Record
  BY DEF Tick, TypeOK
<1>2. ledger' \in [Commands -> Record]
  BY <1>1, OlderFields DEF Tick
<1> QED
  BY <1>1, <1>2, OlderFields DEF Fading, Fades

\* A dispatch that ends, or falls back to resolving, holds nothing new.
LEMMA Leaves ==
    ASSUME TypeOK, NEW p \in Dispatches, NEW point \in {"Ended", "Resolving", "Marking"},
           Goto(p, point)
    PROVE  /\ pc' \in [Dispatches -> Points]
           /\ \A q \in Dispatches : pc'[q] = pc[q] \/ pc'[q] \in {"Ended", "Resolving", "Marking"}
BY ZenonT(60) DEF Goto, TypeOK, Points

\* Fading, whoever else gives up at the same time, keeps the invariant.
LEMMA Fade ==
    ASSUME Inv, Fading, AnswersAgree', told' \in [Commands -> SUBSET Outcome],
           pc' \in [Dispatches -> Points],
           \A q \in Dispatches : pc'[q] = pc[q] \/ pc'[q] \in {"Ended", "Resolving", "Marking"},
           tx' \in [Dispatches -> Phases],
           \A q \in Dispatches : tx'[q] = tx[q] \/ tx'[q] = "None",
           UNCHANGED <<req, number, base, decision, version, committed, rejected>>
    PROVE  Inv'
BY Zenon, FadingStepCore DEF Fading, FadingStep, Inv

-----------------------------------------------------------------------------
(* The inductive invariant.                                                *)

\* The invariant holds of an empty ledger and requests that just arrived.
LEMMA InitInv == Init => Inv
<1> SUFFICES ASSUME Init PROVE Inv
  OBVIOUS
<1>1. Vacant \in Record
  BY Deadlines DEF Vacant, Record, States
<1>2. \A c \in Commands : ledger[c] = Vacant
  BY ZenonT(60) DEF Init, LedgerInit
<1>3. TypeOK
  BY ZenonT(60), <1>1 DEF Init, LedgerInit, TypeOK, Points, Phases
<1>4. Numbers
  <2>1. \A p \in Dispatches : number[p] = 0
    BY DEF Init
  <2>2. \A p \in Dispatches : command(p) \in Commands /\ ledger[command(p)].attempt = 0
    BY SMTT(60), <1>2, <1>3, CommandType DEF Vacant
  <2> QED
    BY <2>1, <2>2 DEF Numbers
<1>5. Tokens /\ Recorded
  <2>1. \A c \in Commands : /\ ledger[c].state = "Vacant"
                            /\ ledger[c].token = None
                            /\ ledger[c].attempt = 0
    <3>1. Vacant.state = "Vacant" /\ Vacant.token = None /\ Vacant.attempt = 0
      BY DEF Vacant
    <3> QED
      BY ZenonT(60), <1>2, <3>1
  <2>2. Tokens
    BY Zenon, <2>1 DEF Tokens, Token
  <2>3. Recorded
    BY Zenon, <2>1 DEF Recorded, Stored
  <2> QED
    BY <2>2, <2>3
<1>6. Distinct /\ OpenTransactionKeepsRecord /\ Transactions /\ Appends
  <2>1. \A p \in Dispatches : number[p] = 0 /\ tx[p] = "None" /\ pc[p] = "Arrived"
    BY Zenon DEF Init
  <2>2. Distinct
    BY <2>1 DEF Distinct
  <2>3. OpenTransactionKeepsRecord /\ Appends
    BY <2>1 DEF OpenTransactionKeepsRecord, Appends
  <2>4. Transactions
    BY <2>1 DEF Transactions
  <2> QED
    BY Zenon, <2>2, <2>3, <2>4
<1>7. Receipts /\ Acknowledged /\ DecidedOnCurrentState
  BY DEF Init, Receipts, Acknowledged, DecidedOnCurrentState
<1>8. AnswersAgree
  BY ZenonT(60) DEF Init, AnswersAgree
<1> QED
  BY <1>3, <1>4, <1>5, <1>6, <1>7, <1>8 DEF Inv, Core

\* Every result of a reservation keeps the invariant.
LEMMA ReserveInv ==
    ASSUME Inv, NEW p \in Dispatches, reserve_command(p)
    PROVE  Inv'
<1>1. PICK c \in Commands : command(p) = c
  BY ZenonT(60), CommandType DEF Inv, Core
<1> DEFINE r == ledger[c]
           found == classify_reservation(r, req[p].input)
<1>2. /\ pc[p] = "Arrived" /\ ~locked(c) /\ TypeOK /\ r \in Record
      /\ UNCHANGED <<req, base, tx, decision, version, committed, rejected>>
  BY Zenon, <1>1 DEF reserve_command, Inv, Core, TypeOK
<1>3. tx' \in [Dispatches -> Phases] /\ \A q \in Dispatches : tx'[q] = tx[q] \/ tx'[q] = "None"
  BY <1>2 DEF TypeOK
<1>4. ASSUME NEW record, Acquire(p, record), Fresh(p, record)
      PROVE  Inv'
  BY ZenonT(60), <1>1, <1>2, <1>4, AcquireCore, NobodyTold DEF Inv, Acquire
<1>5. CASE found = "Initial" /\ Acquire(p, initial(p, req[p].input))
  <2>1. r.state = "Vacant" /\ req[p].input \in Inputs
    BY ZenonT(60), <1>2, <1>5, CommandType DEF classify_reservation
  <2>2. r.attempt = 0
    BY <2>1 DEF Inv, Core, Tokens, Token
  <2>3. PICK record : record = initial(p, req[p].input)
    BY SMTT(60)
  <2>4. Fresh(p, record)
    BY SMTT(60), <1>1, <2>1, <2>2, <2>3, InitialFields DEF Fresh
  <2> QED
    BY ZenonT(60), <1>4, <1>5, <2>3, <2>4 DEF Acquire
<1>6. CASE found = "Reclaim" /\ Acquire(p, reclaim(r, p))
  <2>1. r.state \in {"InProgress", "RetryableUnknown"} /\ r.input = req[p].input
    BY Zenon, <1>2, <1>6 DEF classify_reservation, is_replayable, Record, States
  <2>2. PICK record : record = reclaim(r, p)
    OBVIOUS
  <2>3. Fresh(p, record)
    BY ZenonT(60), <1>1, <1>2, <2>1, <2>2, ReclaimFields DEF Fresh
  <2> QED
    BY ZenonT(60), <1>4, <1>6, <2>2, <2>3 DEF Acquire
<1>7. CASE found = "Replay" /\ Replay(p) /\ Goto(p, "Ended") /\ UNCHANGED <<ledger, number>>
  <2>1. is_replayable(r.state) /\ r.input = req[p].input
    BY ZenonT(60), <1>7 DEF classify_reservation
  <2>2. AnswersAgree' /\ told' \in [Commands -> SUBSET Outcome]
    BY ZenonT(60), <1>1, <1>2, <1>7, <2>1, ReplayAgrees
  <2> QED
    BY ZenonT(60), <1>2, <1>3, <1>7, <2>2, SameLedger, Leaves, Fade
<1>8. CASE /\ found = "Expire"
           /\ ledger' = [ledger EXCEPT ![c] = expire(@)]
           /\ Goto(p, "Ended")
           /\ UNCHANGED <<number, told>>
  <2>1. r.state # "Vacant"
    BY ZenonT(60), <1>8 DEF classify_reservation
  <2>2. Fading
    BY ZenonT(60), <1>2, <1>8, <2>1, ExpiredLedger
  <2> QED
    BY ZenonT(60), <1>2, <1>3, <1>8, <2>2, NobodyTold, Leaves, Fade
<1>9. CASE Goto(p, "Ended") /\ UNCHANGED <<ledger, number, told>>
  BY <1>2, <1>3, <1>9, NobodyTold, SameLedger, Leaves, Fade
<1> QED
  BY ZenonT(60), <1>1, <1>5, <1>6, <1>7, <1>8, <1>9 DEF reserve_command

\* The transaction, before COMMIT takes effect.
LEMMA TransactionInv ==
    ASSUME Inv, NEW p \in Dispatches, Begin(p) \/ Write(p) \/ Abort(p) \/ LoseConnection(p)
    PROVE  Inv'
<1>1. TypeOK /\ UNCHANGED <<ledger, req, number, base, decision, version, committed, rejected, told>>
  BY SMTT(60) DEF Inv, Core, Begin, Write, Abort, LoseConnection
<1>2. AnswersAgree' /\ told' \in [Commands -> SUBSET Outcome]
  BY <1>1, NobodyTold
<1>3. ASSUME \/ tx' = tx
             \/ tx' = [tx EXCEPT ![p] = "None"],
             Goto(p, "Resolving") \/ pc' = pc
      PROVE  Inv'
  <2>1. tx' \in [Dispatches -> Phases] /\ \A q \in Dispatches : tx'[q] = tx[q] \/ tx'[q] = "None"
    BY SMTT(60), <1>1, <1>3 DEF TypeOK, Phases
  <2>2. /\ pc' \in [Dispatches -> Points]
        /\ \A q \in Dispatches : pc'[q] = pc[q] \/ pc'[q] \in {"Ended", "Resolving", "Marking"}
    BY ZenonT(60), <1>1, <1>3, Leaves DEF TypeOK
  <2> QED
    BY ZenonT(60), <1>1, <1>2, <2>1, <2>2, SameLedger, Fade
<1>4. ASSUME NEW phase \in {"Locked", "Sent"}, pc[p] = "Committing", pc' = pc,
             validate_live_attempt(attempt(p)),
             phase = "Sent" /\ decision[p] = "Succeeded" => base[p] = version /\ ~appending,
             tx' = [tx EXCEPT ![p] = phase]
      PROVE  Inv'
  BY ZenonT(60), <1>1, <1>2, <1>4, TransactionCore DEF Inv
<1>5. CASE Begin(p)
  BY ZenonT(60), <1>3, <1>4, <1>5 DEF Begin
<1>6. CASE Write(p)
  BY ZenonT(60), <1>3, <1>4, <1>6 DEF Write, WritesApply
<1>7. CASE Abort(p)
  BY <1>3, <1>7 DEF Abort
<1>8. CASE LoseConnection(p)
  BY <1>3, <1>8 DEF LoseConnection
<1> QED
  BY <1>5, <1>6, <1>7, <1>8

\* A commit, with or without the rejection told at once, keeps the invariant.
LEMMA CommitInv ==
    ASSUME Inv, NEW p \in Dispatches, NEW deadline \in 1..Retention, Commit(p, deadline)
    PROVE  Inv'
<1>1. UNCHANGED req /\ committed \subseteq committed' /\ rejected \subseteq rejected'
  BY ZenonT(60) DEF Commit
<1>2. PICK c \in Commands : command(p) = c
  BY CommandType DEF Inv, Core
<1>3. CASE UNCHANGED told
  BY <1>1, <1>3, NobodyTold, CommitCore DEF Inv
<1>4. CASE p \in rejected' /\ Tell(command(p), [input |-> req[p].input, kind |-> "Rejected", by |-> p])
  <2>1. PICK outcome : outcome = [input |-> req[p].input, kind |-> "Rejected", by |-> p]
    BY ZenonT(60)
  <2>2. outcome \in Outcomes(c)'
    BY SMTT(60), <1>1, <1>2, <1>4, <2>1, CommandType DEF Outcomes, Outcome, Kinds, command, Inv, Core
  <2> QED
    BY ZenonT(60), <1>1, <1>2, <1>4, <2>1, <2>2, ToldRight, CommitCore DEF Inv, Tell
<1> QED
  BY ZenonT(60), <1>3, <1>4 DEF Commit

\* What a dispatch does after its commit attempt keeps the invariant.
LEMMA AfterwardsInv ==
    ASSUME Inv, NEW p \in Dispatches,
           LoadCommitted(p) \/ ResolveAmbiguous(p) \/ MarkUnknown(p) \/ Abandon(p) \/ Stop(p)
    PROVE  Inv'
<1>1. PICK c \in Commands : command(p) = c
  BY ZenonT(60), CommandType DEF Inv, Core
<1>2. TypeOK /\ UNCHANGED <<req, number, base, tx, decision, version, committed, rejected>>
  BY Zenon DEF Inv, Core, LoadCommitted, ResolveAmbiguous, MarkUnknown, Abandon, Stop
<1>3. tx' \in [Dispatches -> Phases] /\ \A q \in Dispatches : tx'[q] = tx[q] \/ tx'[q] = "None"
  BY ZenonT(60), <1>2 DEF TypeOK
<1>4. PICK point \in {"Ended", "Resolving", "Marking"} : Goto(p, point)
  BY SMTT(60) DEF LoadCommitted, ResolveAmbiguous, MarkUnknown, Abandon, Stop
<1>5. ASSUME IF is_replayable(lookup(attempt(p))) THEN Replay(p) ELSE UNCHANGED told
      PROVE  AnswersAgree' /\ told' \in [Commands -> SUBSET Outcome]
  <2>1. CASE is_replayable(lookup(attempt(p)))
    <3>1. is_replayable(ledger[c].state) /\ ledger[c].input = req[p].input
      BY ZenonT(60), <1>1, <2>1 DEF lookup, matches_lookup_scope, attempt, is_replayable
    <3> QED
      BY ZenonT(60), <1>1, <1>2, <1>5, <2>1, <3>1, ReplayAgrees
  <2>2. CASE ~is_replayable(lookup(attempt(p)))
    BY <1>2, <1>5, <2>2, NobodyTold
  <2> QED
    BY <2>1, <2>2
<1>6. CASE LoadCommitted(p)
  <2>1. Fading
    BY SMTT(60), <1>1, <1>2, <1>6, DueLedger DEF LoadCommitted
  <2>2. AnswersAgree' /\ told' \in [Commands -> SUBSET Outcome]
    BY Zenon, <1>5, <1>6 DEF LoadCommitted
  <2> QED
    BY SMTT(60), <1>2, <1>3, <1>4, <2>1, <2>2, Leaves, Fade
<1>7. CASE ResolveAmbiguous(p)
  <2>1. Fading
    BY Zenon, <1>1, <1>2, <1>7, DueLedger, SameLedger DEF ResolveAmbiguous
  <2>2. AnswersAgree' /\ told' \in [Commands -> SUBSET Outcome]
    BY SMTT(60), <1>5, <1>7 DEF ResolveAmbiguous
  <2> QED
    BY <1>2, <1>3, <1>4, <2>1, <2>2, Leaves, Fade
<1>8. CASE MarkUnknown(p) \/ Abandon(p)
  <2>1. Fading
    BY SMTT(60), <1>2, <1>8, UnknownLedger DEF MarkUnknown, Abandon
  <2>2. AnswersAgree' /\ told' \in [Commands -> SUBSET Outcome]
    BY SMTT(60), <1>2, <1>8, NobodyTold DEF MarkUnknown, Abandon
  <2> QED
    BY <1>2, <1>3, <1>4, <2>1, <2>2, Leaves, Fade
<1>9. CASE Stop(p)
  <2>1. Fading
    BY <1>2, <1>9, SameLedger DEF Stop
  <2>2. AnswersAgree' /\ told' \in [Commands -> SUBSET Outcome]
    BY <1>2, <1>9, NobodyTold DEF Stop
  <2> QED
    BY <1>2, <1>3, <1>4, <2>1, <2>2, Leaves, Fade
<1> QED
  BY <1>6, <1>7, <1>8, <1>9

\* The clock, compaction and status lookups.
LEMMA SurroundingsInv ==
    ASSUME Inv, Age \/ \E c \in Commands : Compact(c) \/ Status(c)
    PROVE  Inv'
<1>1. /\ TypeOK
      /\ UNCHANGED <<req, pc, number, base, tx, decision, version, committed, rejected>>
  BY ZenonT(60) DEF Inv, Core, Age, Compact, Status, dispatchVars
<1>2. ASSUME Fading, AnswersAgree', told' \in [Commands -> SUBSET Outcome]
      PROVE  Inv'
  BY <1>1, <1>2, Fade DEF TypeOK
<1>3. CASE Age
  BY ZenonT(60), <1>1, <1>2, <1>3, OlderLedger, NobodyTold DEF Age
<1>4. ASSUME NEW c \in Commands, Compact(c)
      PROVE  Inv'
  BY ZenonT(60), <1>1, <1>2, <1>4, ExpiredLedger, NobodyTold DEF Compact, compact_expired, retention_due
<1>5. ASSUME NEW c \in Commands, Status(c)
      PROVE  Inv'
  <2>1. Fading
    BY ZenonT(60), <1>1, <1>5, DueLedger DEF Status
  <2>2. AnswersAgree' /\ told' \in [Commands -> SUBSET Outcome]
    <3>1. CASE UNCHANGED told
      BY <1>1, <3>1, NobodyTold
    <3>2. CASE /\ is_replayable(ledger[c].state)
               /\ Tell(c, [input |-> ledger[c].input, kind |-> ledger[c].state,
                           by |-> ledger[c].outcome])
      <4>1. PICK outcome : outcome = [input |-> ledger[c].input, kind |-> ledger[c].state,
                                      by |-> ledger[c].outcome]
        BY ZenonT(60)
      <4>2. outcome \in Outcomes(c)
        BY <3>2, <4>1, StoredOutcome DEF Inv
      <4>3. outcome \in Outcomes(c)'
        BY <1>1, <4>2, OutcomesGrow
      <4> QED
        BY ZenonT(60), <1>1, <3>2, <4>1, <4>3, ToldRight DEF Tell
    <3> QED
      BY ZenonT(60), <1>5, <3>1, <3>2 DEF Status
  <2> QED
    BY <1>2, <2>1, <2>2
<1> QED
  BY <1>3, <1>4, <1>5

\* Every step keeps the invariant.
LEMMA NextInv == Inv /\ [Next]_vars => Inv'
<1> SUFFICES ASSUME Inv, [Next]_vars PROVE Inv'
  OBVIOUS
<1>1. ASSUME NEW p \in Dispatches, Proceed(p)
      PROVE  Inv'
  <2>1. CASE reserve_command(p)
    BY <2>1, ReserveInv
  <2>2. CASE Load(p)
    BY ZenonT(60), <2>2, LoadCore, NobodyTold DEF Load, Inv
  <2>3. CASE \E kind \in Kinds : Decide(p, kind)
    BY ZenonT(60), <2>3, DecideCore, NobodyTold DEF Decide, Inv
  <2>4. CASE Begin(p) \/ Write(p)
    BY <2>4, TransactionInv
  <2>5. CASE Abandon(p) \/ LoadCommitted(p) \/ ResolveAmbiguous(p) \/ MarkUnknown(p)
    BY <2>5, AfterwardsInv
  <2> QED
    BY <1>1, <2>1, <2>2, <2>3, <2>4, <2>5 DEF Proceed
<1>2. ASSUME NEW p \in Dispatches, Conclude(p) \/ LoseConnection(p) \/ Stop(p)
      PROVE  Inv'
  BY <1>2, TransactionInv, CommitInv, AfterwardsInv DEF Conclude
<1>3. CASE Age \/ \E c \in Commands : Compact(c) \/ Status(c)
  BY ZenonT(60), <1>3, SurroundingsInv
<1>4. CASE UNCHANGED vars
  <2>1. /\ TypeOK
        /\ UNCHANGED <<ledger, req, pc, number, base, tx, decision, version, committed, rejected, told>>
    BY <1>4 DEF Inv, Core, vars, dispatchVars
  <2> QED
    BY Zenon, <2>1, SameLedger, NobodyTold, Fade DEF TypeOK
<1> QED
  BY <1>1, <1>2, <1>3, <1>4 DEF Next

-----------------------------------------------------------------------------
(* What the invariant says.                                                *)

\* The inductive invariant: tokens, attempts, locks, receipts and answers of
\* dispatch fit together in every reachable state.
THEOREM Invariance == Spec => []Inv
<1> QED
  BY InitInv, NextInv, PTL DEF Spec

\* All state keeps its type, whatever interleaving of dispatches, transactions
\* and compaction produced it.
THEOREM DispatchTypeCorrect == Spec => []TypeOK
<1>1. Inv => TypeOK
  BY DEF Inv, Core
<1> QED
  BY <1>1, Invariance, PTL

\* Of all the attempts at a command, at most one ever commits anything.
THEOREM AtMostOnceHolds == Spec => []AtMostOnce
<1>1. Inv => AtMostOnce
  <2> SUFFICES ASSUME Inv, NEW c \in Commands, NEW o1 \in Outcomes(c), NEW o2 \in Outcomes(c)
               PROVE  o1 = o2
    BY DEF AtMostOnce
  <2>1. /\ o1 \in Outcome /\ o2 \in Outcome
        /\ o1.by \in committed \cup rejected /\ o2.by \in committed \cup rejected
        /\ command(o1.by) = c /\ command(o2.by) = c
        /\ o1.input = req[o1.by].input /\ o2.input = req[o2.by].input
        /\ \/ o1.kind = "Succeeded" /\ o1.by \in committed
           \/ o1.kind = "Rejected" /\ o1.by \in rejected
        /\ \/ o2.kind = "Succeeded" /\ o2.by \in committed
           \/ o2.kind = "Rejected" /\ o2.by \in rejected
    BY ZenonT(60) DEF Outcomes
  <2>2. /\ o1.by \in Dispatches /\ o2.by \in Dispatches
        /\ number[o1.by] = ledger[c].attempt /\ number[o2.by] = ledger[c].attempt
        /\ number[o1.by] > 0
    <3>1. o1.by \in Dispatches /\ o2.by \in Dispatches
      BY <2>1 DEF Outcome
    <3>2. \A p \in committed \cup rejected :
              number[p] > 0 /\ number[p] = ledger[command(p)].attempt
      BY ZenonT(60) DEF Inv, Core, Receipts, Receipt
    <3> QED
      BY ZenonT(60), <2>1, <3>1, <3>2
  <2>3. o1.by = o2.by
    BY Zenon, <2>1, <2>2 DEF Inv, Core, Distinct
  <2>4. o1.kind = o2.kind
    BY ZenonT(60), <2>1, <2>3 DEF Inv, Core, Receipts
  <2>5. /\ o1 = [input |-> o1.input, kind |-> o1.kind, by |-> o1.by]
        /\ o2 = [input |-> o2.input, kind |-> o2.kind, by |-> o2.by]
    BY <2>1 DEF Outcome
  <2> QED
    BY Zenon, <2>1, <2>3, <2>4, <2>5
<1> QED
  BY <1>1, Invariance, PTL

\* Clients are only ever told the committed outcome of their own request.
THEOREM AnswersAgreeHolds == Spec => []AnswersAgree
<1>1. Inv => AnswersAgree
  BY DEF Inv
<1> QED
  BY <1>1, Invariance, PTL

\* A dispatch whose COMMIT was acknowledged always finds its receipt.
THEOREM CommittedReceiptFoundHolds == Spec => []CommittedReceiptFound
<1>1. Inv => CommittedReceiptFound
  <2> SUFFICES ASSUME Inv, NEW p \in Dispatches, pc[p] = "Loading"
               PROVE  \/ lookup(attempt(p)) = "Expired"
                      \/ lookup(attempt(p)) = "Succeeded" /\ ledger[command(p)].outcome = p
    BY DEF CommittedReceiptFound
  <2> DEFINE c == command(p)
  <2>1. c \in Commands /\ p \in committed
    BY ZenonT(60), CommandType DEF Inv, Core, Acknowledged
  <2>2. /\ number[p] > 0 /\ number[p] = ledger[c].attempt
        /\ \/ ledger[c].state = "Expired"
           \/ ledger[c].state = "Succeeded" /\ ledger[c].outcome = p
    BY ZenonT(60), <2>1 DEF Inv, Core, Receipts, Receipt
  <2>3. ledger[c].input = req[p].input /\ ledger[c].token = None
    BY ZenonT(60), <2>1, <2>2 DEF Inv, Core, Numbers, Tokens, Token
  <2>4. matches_lookup_scope(attempt(p))
    BY Zenon, <2>2, <2>3 DEF matches_lookup_scope, attempt
  <2>5. attempt(p).command = c
    BY SMTT(60) DEF attempt
  <2>6. lookup(attempt(p)) = IF retention_due(ledger[c]) THEN "Expired" ELSE ledger[c].state
    BY <2>4, <2>5 DEF lookup
  <2> QED
    BY ZenonT(60), <2>2, <2>6
<1> QED
  BY <1>1, Invariance, PTL

\* No command of the stream was decided on a version another one replaced.
THEOREM DecidedOnCurrentStateHolds == Spec => []DecidedOnCurrentState
<1>1. Inv => DecidedOnCurrentState
  BY DEF Inv, Core
<1> QED
  BY <1>1, Invariance, PTL

\* Nothing takes the ledger record from an open transaction.
THEOREM OpenTransactionKeepsRecordHolds == Spec => []OpenTransactionKeepsRecord
<1>1. Inv => OpenTransactionKeepsRecord
  BY DEF Inv, Core
<1> QED
  BY <1>1, Invariance, PTL

\* The ledger records exactly what was committed, until the record expires.
THEOREM LedgerMatchesStreamHolds == Spec => []LedgerMatchesStream
<1>1. Inv /\ AtMostOnce => LedgerMatchesStream
  <2> SUFFICES ASSUME Inv, AtMostOnce, NEW c \in Commands
               PROVE  /\ is_replayable(ledger[c].state) =>
                             Outcomes(c) = {[input |-> ledger[c].input, kind |-> ledger[c].state,
                                             by |-> ledger[c].outcome]}
                      /\ ledger[c].state \in {"Vacant", "InProgress", "RetryableUnknown"} =>
                             Outcomes(c) = {}
    BY ZenonT(60) DEF LedgerMatchesStream
  <2>1. ASSUME is_replayable(ledger[c].state)
        PROVE  Outcomes(c) = {[input |-> ledger[c].input, kind |-> ledger[c].state,
                               by |-> ledger[c].outcome]}
    <3>1. PICK o : o = [input |-> ledger[c].input, kind |-> ledger[c].state,
                        by |-> ledger[c].outcome]
      BY ZenonT(60)
    <3>2. o \in Outcomes(c)
      BY ZenonT(60), <2>1, <3>1, StoredOutcome DEF Inv
    <3> QED
      BY <3>1, <3>2 DEF AtMostOnce
  <2>2. ASSUME NEW o \in Outcomes(c)
        PROVE  ledger[c].state \notin {"Vacant", "InProgress", "RetryableUnknown"}
    <3>1. o.by \in committed \cup rejected /\ command(o.by) = c
      BY SMTT(60) DEF Outcomes
    <3> QED
      BY Zenon, <3>1 DEF Inv, Core, Receipts, Receipt
  <2> QED
    BY Zenon, <2>1, <2>2
<1> QED
  BY <1>1, Invariance, AtMostOnceHolds, PTL

-----------------------------------------------------------------------------
(* How a record may change.                                                *)

Forward(c) ==
    /\ is_replayable(ledger[c].state) =>
           \/ ledger'[c].state = "Expired"
           \/ ledger'[c].state = ledger[c].state /\ ledger'[c].outcome = ledger[c].outcome
    /\ ledger[c].state = "Expired" => ledger'[c].state = "Expired"
    /\ ledger'[c].attempt >= ledger[c].attempt
    /\ ledger'[c].token \notin {None, ledger[c].token} => ledger'[c].attempt > ledger[c].attempt

\* A fading record moves forward.
LEMMA FadingForward ==
    ASSUME TypeOK, Fading, NEW c \in Commands
    PROVE  Forward(c)
<1>1. Fades(c) /\ ledger[c].attempt \in Nat
  BY DEF Fading, TypeOK, Record
<1> QED
  BY SMTT(60), <1>1 DEF Fades, Forward, is_replayable

\* Every step moves every record forward.
LEMMA StepForward ==
    ASSUME Inv, Next, NEW c \in Commands
    PROVE  Forward(c)
<1>1. TypeOK /\ ledger[c] \in Record /\ ledger[c].attempt \in Nat
  BY Zenon DEF Inv, Core, TypeOK, Record
<1>2. ASSUME Fading
      PROVE  Forward(c)
  BY Zenon, <1>1, <1>2, FadingForward
<1>3. ASSUME NEW p \in Dispatches, reserve_command(p)
      PROVE  Forward(c)
  <2> DEFINE d == command(p)
             found == classify_reservation(ledger[d], req[p].input)
  <2>1. d \in Commands /\ ledger[d] \in Record /\ ~locked(d)
    BY ZenonT(60), <1>1, <1>3, CommandType DEF TypeOK, reserve_command
  <2>2. ASSUME NEW record, ledger' = [ledger EXCEPT ![d] = record],
               record.attempt = ledger[d].attempt + 1,
               ledger[d].state \notin {"Succeeded", "Rejected", "Expired"}
        PROVE  Forward(c)
    <3>1. CASE c = d
      <4>1. ledger'[c] = record
        BY <1>1, <2>2, <3>1 DEF TypeOK
      <4>2. ledger[c].attempt \in Nat /\ ledger'[c].attempt = ledger[c].attempt + 1
        BY <1>1, <2>2, <3>1, <4>1
      <4> QED
        BY SMTT(60), <2>2, <3>1, <4>2 DEF Forward, is_replayable
    <3>2. CASE c # d
      BY SMTT(60), <1>1, <2>1, <2>2, <3>2 DEF Forward, is_replayable, TypeOK
    <3> QED
      BY ZenonT(60), <3>1, <3>2
  <2>3. CASE found = "Initial" /\ Acquire(p, initial(p, req[p].input))
    <3>1. ledger[d].state = "Vacant" /\ ledger[d].attempt = 0
      BY ZenonT(60), <2>1, <2>3 DEF classify_reservation, Inv, Core, Tokens, Token
    <3>2. initial(p, req[p].input).attempt = 1
      BY DEF initial
    <3>3. PICK record : record = initial(p, req[p].input)
      OBVIOUS
    <3>4. /\ ledger' = [ledger EXCEPT ![d] = record]
          /\ record.attempt = ledger[d].attempt + 1
          /\ ledger[d].state \notin {"Succeeded", "Rejected", "Expired"}
      BY SMTT(60), <2>3, <3>1, <3>2, <3>3 DEF Acquire
    <3> QED
      BY ZenonT(60), <2>2, <3>4
  <2>4. CASE found = "Reclaim" /\ Acquire(p, reclaim(ledger[d], p))
    <3>1. ledger[d].state \notin {"Succeeded", "Rejected", "Expired"}
      BY ZenonT(60), <2>4 DEF classify_reservation, is_replayable
    <3>2. PICK record : record = reclaim(ledger[d], p)
      BY SMTT(60)
    <3>3. record.attempt = ledger[d].attempt + 1
      BY Zenon, <2>1, <3>2, ReclaimFields
    <3> QED
      BY ZenonT(60), <2>2, <2>4, <3>1, <3>2, <3>3 DEF Acquire
  <2>5. CASE found = "Expire" /\ ledger' = [ledger EXCEPT ![d] = expire(@)]
    <3>1. ledger[d].state # "Vacant"
      BY ZenonT(60), <2>5 DEF classify_reservation
    <3> QED
      BY ZenonT(60), <1>1, <1>2, <2>1, <2>5, <3>1, ExpiredLedger
  <2>6. CASE UNCHANGED ledger
    BY SMTT(60), <1>1, <1>2, <2>6, SameLedger
  <2> QED
    BY ZenonT(60), <1>3, <2>3, <2>4, <2>5, <2>6 DEF reserve_command
<1>4. ASSUME NEW p \in Dispatches, NEW deadline \in 1..Retention, Commit(p, deadline)
      PROVE  Forward(c)
  <2> DEFINE d == command(p)
             record == complete(ledger[d], decision[p], p, deadline)
  <2>1. /\ d \in Commands /\ ledger[d] \in Record
        /\ ledger[d].state = "InProgress" /\ decision[p] \in Kinds
    BY ZenonT(60), <1>1, <1>4, CommandType
       DEF TypeOK, Commit, Inv, Core, OpenTransactionKeepsRecord, Transactions, matches_fence, attempt
  <2>2. record.attempt = ledger[d].attempt /\ record.token = None
    BY SMTT(60), <2>1, CompleteFields
  <2>3. ledger' = [ledger EXCEPT ![d] = record]
    BY ZenonT(60), <1>4 DEF Commit
  <2> HIDE DEF record
  <2>4. CASE c = d
    BY SMTT(60), <1>1, <2>1, <2>2, <2>3, <2>4 DEF Forward, is_replayable, TypeOK
  <2>5. CASE c # d
    BY SMTT(60), <1>1, <2>1, <2>3, <2>5 DEF Forward, is_replayable, TypeOK
  <2> QED
    BY <2>4, <2>5
<1>5. ASSUME NEW p \in Dispatches, UNCHANGED ledger
      PROVE  Forward(c)
  BY <1>1, <1>2, <1>5, SameLedger
<1>6. ASSUME NEW p \in Dispatches,
             Abandon(p) \/ LoadCommitted(p) \/ ResolveAmbiguous(p) \/ MarkUnknown(p)
      PROVE  Forward(c)
  BY ZenonT(60), <1>1, <1>2, <1>6, CommandType, DueLedger, UnknownLedger, SameLedger
     DEF Abandon, LoadCommitted, ResolveAmbiguous, MarkUnknown
<1>7. ASSUME NEW p \in Dispatches,
             \/ Load(p) \/ Begin(p) \/ Write(p) \/ Abort(p) \/ LoseConnection(p) \/ Stop(p)
             \/ \E kind \in Kinds : Decide(p, kind)
      PROVE  Forward(c)
  BY ZenonT(60), <1>5, <1>7 DEF Load, Begin, Write, Abort, LoseConnection, Stop, Decide
<1>8. CASE Age \/ \E d \in Commands : Compact(d) \/ Status(d)
  BY ZenonT(60), <1>1, <1>2, <1>8, OlderLedger, ExpiredLedger, DueLedger
     DEF Age, Compact, compact_expired, retention_due, Status
<1> QED
  BY ZenonT(60), <1>3, <1>4, <1>6, <1>7, <1>8 DEF Next, Proceed, Conclude

\* A finished command only ever expires, and attempts never go back.
THEOREM RecordMovesForwardHolds == Spec => RecordMovesForward
<1>1. Inv /\ [Next]_vars =>
        [\A c \in Commands :
           /\ is_replayable(ledger[c].state) =>
                  \/ ledger'[c].state = "Expired"
                  \/ ledger'[c].state = ledger[c].state /\ ledger'[c].outcome = ledger[c].outcome
           /\ ledger[c].state = "Expired" => ledger'[c].state = "Expired"
           /\ ledger'[c].attempt >= ledger[c].attempt
           /\ ledger'[c].token \notin {None, ledger[c].token} =>
                  ledger'[c].attempt > ledger[c].attempt]_vars
  BY ZenonT(60), StepForward DEF Forward
<1> QED
  BY <1>1, Invariance, PTL DEF Spec, RecordMovesForward

-----------------------------------------------------------------------------
(* Causal dispatch implements CommandContract.                             *)

\* A step decides nothing, and tells nobody, or what was decided before.
Repeats ==
    /\ UNCHANGED <<req, committed, rejected>>
    /\ \/ UNCHANGED told
       \/ \E c \in Commands : \E o \in Outcomes(c) : Tell(c, o)

\* A replay repeats what was decided.
LEMMA ReplayRepeats ==
    ASSUME Inv, NEW p \in Dispatches, Replay(p), is_replayable(ledger[command(p)].state),
           ledger[command(p)].input = req[p].input, UNCHANGED <<req, committed, rejected>>
    PROVE  Repeats
<1>1. PICK c \in Commands : command(p) = c
  BY ZenonT(60), CommandType DEF Inv, Core
<1>2. [input |-> ledger[c].input, kind |-> ledger[c].state, by |-> ledger[c].outcome] \in Outcomes(c)
  BY ZenonT(60), <1>1, StoredOutcome DEF Inv
<1> QED
  BY ZenonT(60), <1>1, <1>2 DEF Replay, Repeats

\* Every step but a commit decides nothing and repeats what was decided.
LEMMA StepRepeats ==
    ASSUME Inv, Next
    PROVE  Repeats \/ \E p \in Dispatches : \E deadline \in 1..Retention : Commit(p, deadline)
<1>1. ASSUME UNCHANGED <<req, committed, rejected, told>>
      PROVE  Repeats
  BY <1>1 DEF Repeats
<1>2. ASSUME NEW p \in Dispatches, reserve_command(p)
      PROVE  Repeats
  <2>1. UNCHANGED <<req, committed, rejected>>
    BY ZenonT(60), <1>2 DEF reserve_command
  <2>2. CASE classify_reservation(ledger[command(p)], req[p].input) = "Replay" /\ Replay(p)
    <3>1. is_replayable(ledger[command(p)].state) /\ ledger[command(p)].input = req[p].input
      BY Zenon, <2>2 DEF classify_reservation
    <3> QED
      BY ZenonT(60), <2>1, <2>2, <3>1, ReplayRepeats
  <2>3. CASE UNCHANGED told
    BY <1>1, <2>1, <2>3
  <2> QED
    BY ZenonT(60), <1>2, <2>2, <2>3 DEF reserve_command, Acquire
<1>3. ASSUME NEW p \in Dispatches, LoadCommitted(p) \/ ResolveAmbiguous(p)
      PROVE  Repeats
  <2>1. UNCHANGED <<req, committed, rejected>>
    BY Zenon, <1>3 DEF LoadCommitted, ResolveAmbiguous
  <2>2. CASE is_replayable(lookup(attempt(p))) /\ Replay(p)
    <3>1. is_replayable(ledger[command(p)].state) /\ ledger[command(p)].input = req[p].input
      BY ZenonT(60), <2>2 DEF lookup, matches_lookup_scope, attempt, is_replayable
    <3> QED
      BY Zenon, <2>1, <2>2, <3>1, ReplayRepeats
  <2>3. CASE UNCHANGED told
    BY <1>1, <2>1, <2>3
  <2> QED
    BY Zenon, <1>3, <2>2, <2>3 DEF LoadCommitted, ResolveAmbiguous
<1>4. ASSUME NEW c \in Commands, Status(c)
      PROVE  Repeats
  <2>1. UNCHANGED <<req, committed, rejected>>
    BY Zenon, <1>4 DEF Status, dispatchVars
  <2>2. CASE /\ is_replayable(ledger[c].state)
             /\ Tell(c, [input |-> ledger[c].input, kind |-> ledger[c].state,
                         by |-> ledger[c].outcome])
    BY ZenonT(60), <2>1, <2>2, StoredOutcome DEF Repeats, Inv
  <2>3. CASE UNCHANGED told
    BY <1>1, <2>1, <2>3
  <2> QED
    BY ZenonT(60), <1>4, <2>2, <2>3 DEF Status
<1>5. ASSUME NEW p \in Dispatches,
             \/ Load(p) \/ Abandon(p) \/ Begin(p) \/ Write(p) \/ MarkUnknown(p) \/ Abort(p)
             \/ LoseConnection(p) \/ Stop(p) \/ \E kind \in Kinds : Decide(p, kind)
      PROVE  Repeats
  BY ZenonT(60), <1>1, <1>5 DEF Load, Abandon, Begin, Write, MarkUnknown, Abort, LoseConnection, Stop, Decide
<1>6. CASE Age \/ \E c \in Commands : Compact(c)
  BY Zenon, <1>1, <1>6 DEF Age, Compact, dispatchVars
<1> QED
  BY <1>2, <1>3, <1>4, <1>5, <1>6 DEF Next, Proceed, Conclude

\* A step that only repeats is a step, or a stutter, of the contract.
LEMMA RepeatsContract ==
    ASSUME Inv, AtMostOnce, Repeats
    PROVE  [Contract!ContractNext]_<<[c \in Commands |-> Outcomes(c)], told>>
<1>1. \A c \in Commands : Outcomes(c)' = Outcomes(c)
  BY ZenonT(60) DEF Repeats, Outcomes, command
<1>2. CASE UNCHANGED told
  BY <1>1, <1>2
<1>3. ASSUME NEW c \in Commands, NEW o \in Outcomes(c), Tell(c, o)
      PROVE  Contract!ContractNext
  <2>1. Outcomes(c) = {o}
    BY DEF AtMostOnce
  <2>2. told' = [told EXCEPT ![c] = @ \cup Outcomes(c)]
    BY <1>3, <2>1 DEF Tell
  <2>3. Contract!TellAgain(c)
    BY <1>1, <2>2 DEF Contract!TellAgain
  <2> QED
    BY <2>3 DEF Contract!ContractNext
<1> QED
  BY <1>2, <1>3 DEF Repeats

\* A commit is the step in which the contract decides the command.
LEMMA CommitContract ==
    ASSUME Inv, Inv', AtMostOnce', NEW p \in Dispatches, NEW deadline \in 1..Retention,
           Commit(p, deadline)
    PROVE  Contract!ContractNext
<1>1. PICK c \in Commands : command(p) = c
  BY CommandType DEF Inv, Core
<1>2. PICK o : o = [input |-> req[p].input, kind |-> decision[p], by |-> p]
  BY ZenonT(60)
<1>3. /\ UNCHANGED req /\ decision[p] \in Kinds
      /\ ledger[c].state = "InProgress"
      /\ \/ decision[p] = "Succeeded" /\ committed' = committed \cup {p} /\ rejected' = rejected
                 /\ told' = told
         \/ decision[p] = "Rejected" /\ rejected' = rejected \cup {p} /\ committed' = committed
                 /\ (told' = told \/ Tell(c, o))
  BY ZenonT(60), <1>1, <1>2 DEF Commit, Inv, Core, OpenTransactionKeepsRecord, Transactions,
                    matches_fence, attempt
<1>4. Outcomes(c) = {}
  <2>1. \A q \in committed : Receipt(q, "Succeeded")
    BY DEF Inv, Core, Receipts
  <2>2. \A q \in rejected : Receipt(q, "Rejected")
    BY ZenonT(60) DEF Inv, Core, Receipts
  <2>3. ASSUME NEW q, command(q) = c
        PROVE  q \notin committed /\ q \notin rejected
    BY Zenon, <1>3, <2>1, <2>2, <2>3 DEF Receipt
  <2> QED
    BY <2>3 DEF Outcomes
<1>5. o \in Outcome /\ o.by = p /\ o.kind = decision[p] /\ o.input = req[p].input
  BY ZenonT(60), <1>2, <1>3, CommandType DEF Outcome, Inv, Core
<1>6. o \in Outcomes(c)'
  BY ZenonT(60), <1>1, <1>3, <1>5 DEF Outcomes, command
<1>7. Outcomes(c)' = {o}
  BY <1>6 DEF AtMostOnce
<1>8. ASSUME NEW d \in Commands, d # c
      PROVE  Outcomes(d)' = Outcomes(d)
  BY ZenonT(60), <1>1, <1>3, <1>8 DEF Outcomes, command
<1>9. [d \in Commands |-> Outcomes(d)]' = [[d \in Commands |-> Outcomes(d)] EXCEPT ![c] = {o}]
  BY ZenonT(60), <1>7, <1>8
<1>10. told' \in {told, [told EXCEPT ![c] = @ \cup {o}]}
  BY ZenonT(60), <1>3 DEF Tell
<1>11. Contract!Decide(c, o)
  BY <1>4, <1>9, <1>10 DEF Contract!Decide
<1> QED
  BY <1>5, <1>11 DEF Contract!ContractNext

\* Dispatch with all its attempts, leases and ambiguous commits looks to its
\* clients like a system that decides each command once and repeats the answer.
THEOREM DispatchImplementsContract == Spec => ImplementsContract
<1>1. Init => Contract!ContractInit
  BY DEF Init, Contract!ContractInit, Outcomes
<1>2. Inv /\ Inv' /\ AtMostOnce /\ AtMostOnce' /\ [Next]_vars
        => [Contract!ContractNext]_<<[c \in Commands |-> Outcomes(c)], told>>
  <2> SUFFICES ASSUME Inv, Inv', AtMostOnce, AtMostOnce', [Next]_vars
               PROVE  [Contract!ContractNext]_<<[c \in Commands |-> Outcomes(c)], told>>
    OBVIOUS
  <2>1. CASE Next
    BY <2>1, StepRepeats, RepeatsContract, CommitContract
  <2>2. CASE UNCHANGED vars
    <3>1. Repeats
      BY <2>2 DEF vars, dispatchVars, Repeats
    <3> QED
      BY <3>1, RepeatsContract
  <2> QED
    BY <2>1, <2>2
<1> QED
  BY <1>1, <1>2, Invariance, AtMostOnceHolds, PTL DEF Spec, ImplementsContract, Contract!ContractSpec
=============================================================================
