\* Two dispatches on one stream: of one command, with the same input or with
\* another, or of two commands.
SPECIFICATION MCSpec
CONSTANTS
    c1 = c1
    c2 = c2
    i1 = i1
    i2 = i2
    d1 = d1
    d2 = d2
    None = None
    Commands <- MCCommands
    Inputs <- MCInputs
    Dispatches <- MCDispatches
    Lease = 2
    Retention = 3
INVARIANT AtMostOnce
INVARIANT AnswersAgree
INVARIANT LedgerMatchesStream
INVARIANT CommittedReceiptFound
INVARIANT OpenTransactionKeepsRecord
INVARIANT DecidedOnCurrentState
PROPERTY ImplementsContract
PROPERTY RecordMovesForward
PROPERTY EveryDispatchEnds
CHECK_DEADLOCK FALSE
