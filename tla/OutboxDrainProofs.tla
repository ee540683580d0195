------------------------- MODULE OutboxDrainProofs --------------------------
(***************************************************************************)
(* Proofs about the drain loop, for any mailbox, batch size and number of  *)
(* processes, each with its loop.  OverflowIsPolled is inductive together  *)
(* with the type of the drain's variables; that the loops do to the outbox *)
(* only what Outbox allows needs no invariant at all.                      *)
(***************************************************************************)
EXTENDS OutboxDrain, WellFoundedInduction, TLAPS

Inv == DrainTypeOK /\ OverflowIsPolled

Points == {"Hint", "Wake", "Sleep", "Parked", "Claiming", "Pass"}

-----------------------------------------------------------------------------
(* The mailbox.                                                            *)

\* Every set of natural numbers that is not empty has a least element.
LEMMA Least ==
    ASSUME NEW S \in SUBSET Nat, S # {}
    PROVE  \E n \in S : \A m \in S : n <= m
<1> DEFINE R == OpToRel(<, Nat)
<1>1. IsWellFoundedOn(R, Nat)
    BY Zenon, NatLessThanWellFounded
<1>2. \A m, n \in Nat : m < n => <<m, n>> \in R
    BY DEF OpToRel
<1> HIDE DEF R
<1>3. \E n \in S : \A m \in S : ~(<<m, n>> \in R)
    BY Zenon, <1>1, WFMin
<1>4. PICK n \in S : \A m \in S : ~(<<m, n>> \in R)
    BY <1>3
<1>5. \A m \in S : ~(m < n)
    BY Zenon, <1>2, <1>4
<1>6. \A m \in S : n <= m
    BY <1>5
<1> QED
    BY <1>6

\* coalesce_hints takes at least one hint, and no more than there are.
LEMMA ReceivesSome ==
    ASSUME NEW hints \in Seq(SUBSET Messages), hints # <<>>
    PROVE  Received(hints) \in 1..Len(hints)
<1> DEFINE S == {n \in 1..Len(hints) : n = Len(hints) \/ Fills(hints, n)}
<1>1. Len(hints) \in S
    BY DEF S
<1>2. PICK n \in S : \A m \in S : n <= m
  <2>1. S \in SUBSET Nat /\ S # {}
      BY <1>1
  <2> HIDE DEF S
  <2> QED
      BY <2>1, Least
<1>3. \A k \in 1..(n - 1) : ~Fills(hints, k)
    BY <1>2
<1>4. \E r \in 1..Len(hints) : /\ r = Len(hints) \/ Fills(hints, r)
                               /\ \A k \in 1..(r - 1) : ~Fills(hints, k)
    BY <1>2, <1>3
<1> QED
    BY <1>4 DEF Received

\* What it takes are ids of messages.
LEMMA CoalescesMessages ==
    ASSUME NEW hints \in Seq(SUBSET Messages), hints # <<>>
    PROVE  coalesce_hints(hints) \subseteq Messages
<1>1. Received(hints) \in 1..Len(hints)
    BY ReceivesSome
<1>2. \A i \in 1..Len(hints) : hints[i] \subseteq Messages
    OBVIOUS
<1>3. Ids(hints, Received(hints) - 1) \subseteq Messages
    BY <1>1, <1>2 DEF Ids
<1> QED
    BY <1>1, <1>2, <1>3 DEF coalesce_hints, Oldest

\* What is left is a mailbox again.
LEMMA RestOfMailbox ==
    ASSUME NEW hints \in Seq(SUBSET Messages), hints # <<>>
    PROVE  SubSeq(hints, Received(hints) + 1, Len(hints)) \in Seq(SUBSET Messages)
BY ReceivesSome

-----------------------------------------------------------------------------
(* What the pieces of a turn do to the state of the loop.                  *)

\* The loop of d has moved, the others have not.
Moved(d, point) ==
    /\ loop' \in [Dispatchers -> Loop]
    /\ loop'[d].at = point
    /\ \A e \in Dispatchers \ {d} : loop'[e] = loop[e]

\* At moves the program counter of one loop and nothing else.
LEMMA AtMoves ==
    ASSUME DrainTypeOK, NEW d \in Dispatchers, NEW point \in Points, At(d, point)
    PROVE  Moved(d, point)
BY ZenonT(60) DEF DrainTypeOK, At, Moved, Loop, Points

\* So does the step to a claim, which also names the ids.
LEMMA ClaimMoves ==
    ASSUME DrainTypeOK, NEW d \in Dispatchers, NEW ids \in SUBSET Messages,
           loop' = [loop EXCEPT ![d].at = "Claiming", ![d].ids = ids]
    PROVE  Moved(d, "Claiming") /\ loop'[d].ids = ids
BY ZenonT(60) DEF DrainTypeOK, Moved, Loop

\* So does the step from a claim to its pass.
LEMMA PassMoves ==
    ASSUME DrainTypeOK, NEW d \in Dispatchers, NEW full \in BOOLEAN,
           loop' = [loop EXCEPT ![d].at = "Pass", ![d].full = full]
    PROVE  Moved(d, "Pass")
<1>1. loop[d] \in Loop
    BY DEF DrainTypeOK
<1>2. /\ [loop[d] EXCEPT !.at = "Pass", !.full = full] \in Loop
      /\ [loop[d] EXCEPT !.at = "Pass", !.full = full].at = "Pass"
    BY Zenon, <1>1 DEF Loop
<1>3. loop' = [loop EXCEPT ![d] = [loop[d] EXCEPT !.at = "Pass", !.full = full]]
    BY Zenon
<1> QED
    BY <1>2, <1>3 DEF DrainTypeOK, Moved

\* A poll is a claim without ids.
LEMMA PollMoves ==
    ASSUME DrainTypeOK, NEW d \in Dispatchers, Poll(d)
    PROVE  Moved(d, "Claiming") /\ loop'[d].ids = {}
BY ZenonT(60) DEF DrainTypeOK, Poll, Moved, Loop

\* The step back to select! goes to its first branch.
LEMMA SelectMoves ==
    ASSUME DrainTypeOK, NEW d \in Dispatchers, NEW sleep \in {"Zero", "Poll", "Backoff"},
           Select(d, sleep)
    PROVE  Moved(d, "Hint")
BY Zenon DEF DrainTypeOK, Select, Started, Moved, Loop

\* A move that drops no hint and uses no permit keeps the invariant.
LEMMA MoveKeeps ==
    ASSUME Inv, NEW d \in Dispatchers, NEW point, Moved(d, point),
           UNCHANGED <<wake, overflowed>>, mailbox' \in [Dispatchers -> Seq(SUBSET Messages)],
           loop[d].at # "Claiming" \/ loop[d].ids # {}
    PROVE  Inv'
<1>1. DrainTypeOK'
    BY DEF Inv, DrainTypeOK, Moved
<1>2. OverflowIsPolled'
    BY Zenon DEF Inv, OverflowIsPolled, Moved
<1> QED
    BY <1>1, <1>2 DEF Inv

-----------------------------------------------------------------------------
(* The invariant.                                                          *)

\* No loop has dropped a hint when it starts.
LEMMA InvInit == DrainInit => Inv
BY DEF DrainInit, Inv, DrainTypeOK, OverflowIsPolled, Started, Loop

\* Submitting a hint, or waking the loop where it does not fit.
LEMMA SubmitKeeps ==
    ASSUME Inv, NEW d \in Dispatchers, NEW ids \in SUBSET Messages,
           try_submit(d, ids), UNCHANGED loop
    PROVE  Inv'
<1>1. CASE Len(mailbox[d]) < Capacity
  <2>1. mailbox' = [mailbox EXCEPT ![d] = Append(@, ids)] /\ UNCHANGED <<wake, overflowed>>
      BY <1>1, DrainAssumption DEF try_submit, Inv, DrainTypeOK, DrainAssumption
  <2>2. DrainTypeOK'
      BY <2>1 DEF Inv, DrainTypeOK
  <2> QED
      BY <2>1, <2>2 DEF Inv, OverflowIsPolled
<1>2. CASE ~(Len(mailbox[d]) < Capacity)
  <2>1. /\ wake' = [wake EXCEPT ![d] = TRUE]
        /\ overflowed' = [overflowed EXCEPT ![d] = @ \cup ids]
        /\ UNCHANGED mailbox
      BY <1>2 DEF try_submit
  <2>2. DrainTypeOK'
      BY <2>1 DEF Inv, DrainTypeOK
  <2>3. /\ wake'[d] = TRUE
        /\ \A e \in Dispatchers \ {d} : wake'[e] = wake[e] /\ overflowed'[e] = overflowed[e]
      BY <2>1 DEF Inv, DrainTypeOK
  <2>4. OverflowIsPolled'
      BY Zenon, <2>3 DEF Inv, OverflowIsPolled
  <2> QED
      BY <2>2, <2>4 DEF Inv
<1> QED
    BY <1>1, <1>2

\* Taking a hint keeps the permit that stands for those dropped.
LEMMA HintKeeps == ASSUME Inv, NEW d \in Dispatchers, next_hint(d) PROVE Inv'
<1>1. CASE mailbox[d] # <<>>
  <2>1. coalesce_hints(mailbox[d]) \subseteq Messages
      BY <1>1, CoalescesMessages DEF Inv, DrainTypeOK
  <2>2. SubSeq(mailbox[d], Received(mailbox[d]) + 1, Len(mailbox[d])) \in Seq(SUBSET Messages)
      BY <1>1, RestOfMailbox DEF Inv, DrainTypeOK
  <2>3. /\ loop' = [loop EXCEPT ![d].at = "Claiming", ![d].ids = coalesce_hints(mailbox[d])]
        /\ mailbox' = [mailbox EXCEPT ![d] =
                           SubSeq(mailbox[d], Received(mailbox[d]) + 1, Len(mailbox[d]))]
        /\ loop[d].at = "Hint" /\ UNCHANGED <<wake, overflowed>>
      BY <1>1 DEF next_hint
  <2>4. Moved(d, "Claiming")
      BY Zenon, <2>1, <2>3, ClaimMoves DEF Inv
  <2>5. mailbox' \in [Dispatchers -> Seq(SUBSET Messages)]
      BY <2>2, <2>3 DEF Inv, DrainTypeOK
  <2> QED
      BY Zenon, <2>3, <2>4, <2>5, MoveKeeps
<1>2. CASE mailbox[d] = <<>>
  <2>1. At(d, "Wake") /\ loop[d].at = "Hint" /\ UNCHANGED <<mailbox, wake, overflowed>>
      BY <1>2 DEF next_hint
  <2>2. mailbox' \in [Dispatchers -> Seq(SUBSET Messages)]
      BY <2>1 DEF Inv, DrainTypeOK
  <2> QED
      BY <2>1, <2>2, AtMoves, MoveKeeps DEF Inv, Points
<1> QED
    BY <1>1, <1>2

\* Using the permit up leads to a poll.
LEMMA WakeKeeps == ASSUME Inv, NEW d \in Dispatchers, wake_notified(d) PROVE Inv'
<1>1. UNCHANGED <<mailbox, overflowed>> /\ loop[d].at = "Wake"
    BY DEF wake_notified
<1>2. mailbox' \in [Dispatchers -> Seq(SUBSET Messages)]
    BY <1>1 DEF Inv, DrainTypeOK
<1>3. CASE At(d, "Sleep") /\ UNCHANGED wake
    BY <1>1, <1>2, <1>3, AtMoves, MoveKeeps DEF Inv, Points
<1>4. CASE Poll(d) /\ wake' = [wake EXCEPT ![d] = FALSE]
  <2>1. Moved(d, "Claiming") /\ loop'[d].ids = {}
      BY <1>4, PollMoves DEF Inv
  <2>2. DrainTypeOK'
      BY Zenon, <1>1, <1>2, <1>4, <2>1 DEF Inv, DrainTypeOK, Moved
  <2>3. \A e \in Dispatchers \ {d} : wake'[e] = wake[e]
      BY <1>4 DEF Inv, DrainTypeOK
  <2>4. OverflowIsPolled'
      BY Zenon, <1>1, <2>1, <2>3 DEF Inv, OverflowIsPolled, Moved
  <2> QED
      BY <2>2, <2>4 DEF Inv
<1> QED
    BY <1>3, <1>4 DEF wake_notified

\* A loop goes to sleep only without a permit.
LEMMA SleepKeeps == ASSUME Inv, NEW d \in Dispatchers, Sleep(d) PROVE Inv'
<1>1. UNCHANGED <<mailbox, wake, overflowed>> /\ loop[d].at = "Sleep"
    BY DEF Sleep
<1>2. mailbox' \in [Dispatchers -> Seq(SUBSET Messages)]
    BY <1>1 DEF Inv, DrainTypeOK
<1>3. CASE At(d, "Parked")
    BY <1>1, <1>2, <1>3, AtMoves, MoveKeeps DEF Inv, Points
<1>4. CASE Poll(d)
    BY <1>1, <1>2, <1>4, PollMoves, MoveKeeps DEF Inv
<1> QED
    BY <1>3, <1>4 DEF Sleep

\* A sleeping loop is woken by a hint or by the permit.
LEMMA ParkKeeps == ASSUME Inv, NEW d \in Dispatchers, Unpark(d) PROVE Inv'
<1>1. UNCHANGED <<mailbox, wake, overflowed>> /\ loop[d].at = "Parked" /\ At(d, "Hint")
    BY DEF Unpark
<1>2. mailbox' \in [Dispatchers -> Seq(SUBSET Messages)]
    BY <1>1 DEF Inv, DrainTypeOK
<1> QED
    BY <1>1, <1>2, AtMoves, MoveKeeps DEF Inv, Points

\* The timer leads to a poll.
LEMMA FireKeeps == ASSUME Inv, NEW d \in Dispatchers, Fire(d) PROVE Inv'
<1>1. UNCHANGED <<mailbox, wake, overflowed>> /\ loop[d].at # "Claiming"
    BY DEF Fire
<1>2. mailbox' \in [Dispatchers -> Seq(SUBSET Messages)]
    BY <1>1 DEF Inv, DrainTypeOK
<1>3. Moved(d, loop[d].at)
    BY ZenonT(60) DEF Fire, Inv, DrainTypeOK, Loop, Moved
<1> QED
    BY <1>1, <1>2, <1>3, MoveKeeps

\* A turn ends: whatever was dropped meanwhile has left its permit.
LEMMA TurnEnds ==
    ASSUME Inv, NEW d \in Dispatchers, NEW point, Moved(d, point), UNCHANGED <<mailbox, wake>>,
           overflowed' = [overflowed EXCEPT ![d] = IF loop[d].ids = {} THEN {} ELSE @]
    PROVE  Inv'
<1>1. DrainTypeOK'
    BY DEF Inv, DrainTypeOK, Moved
<1>2. /\ \A e \in Dispatchers \ {d} : overflowed'[e] = overflowed[e]
      /\ loop[d].ids = {} => overflowed'[d] = {}
      /\ loop[d].ids # {} => overflowed'[d] = overflowed[d]
    BY DEF Inv, DrainTypeOK
<1>3. OverflowIsPolled'
    BY Zenon, <1>2 DEF Inv, OverflowIsPolled, Moved
<1> QED
    BY <1>1, <1>3 DEF Inv

\* A poll answers for the hints dropped before it.
LEMMA ClaimKeeps == ASSUME Inv, NEW d \in Dispatchers, ClaimRows(d) PROVE Inv'
<1>1. /\ UNCHANGED <<mailbox, wake>>
      /\ overflowed' = [overflowed EXCEPT ![d] = IF loop[d].ids = {} THEN {} ELSE @]
    BY DEF ClaimRows
<1>2. loop[d].sleep \in {"Zero", "Poll", "Backoff"}
    BY DEF Inv, DrainTypeOK, Loop
<1>3. CASE Succeed(d)
    BY <1>1, <1>2, <1>3, SelectMoves, TurnEnds DEF Succeed, Inv
<1>4. ASSUME NEW full \in BOOLEAN, loop' = [loop EXCEPT ![d].at = "Pass", ![d].full = full]
      PROVE  Inv'
  <2>1. Moved(d, "Pass")
      BY Zenon, <1>4, PassMoves DEF Inv
  <2> QED
      BY <1>1, <2>1, TurnEnds
<1>5. ASSUME NEW n, loop' = [loop EXCEPT ![d].at = "Pass", ![d].full = (n >= BatchSize)]
      PROVE  Inv'
  <2>1. (n >= BatchSize) \in BOOLEAN
      OBVIOUS
  <2> QED
      BY Zenon, <1>4, <1>5, <2>1
<1> QED
  <2> DEFINE found == IF loop[d].ids = {} THEN Oldest(Claimable, BatchSize)
                      ELSE Claimable \cap loop[d].ids
  <2>1. \/ Succeed(d)
        \/ loop' = [loop EXCEPT ![d].at = "Pass",
                                ![d].full = (Cardinality(found) >= BatchSize)]
      BY Zenon DEF ClaimRows
  <2> QED
      BY <1>3, <1>5, <2>1

\* A claim that fails leaves the permit as it is.
LEMMA FailKeeps == ASSUME Inv, NEW d \in Dispatchers, ClaimFails(d) PROVE Inv'
BY SelectMoves, TurnEnds DEF ClaimFails, Fail, Inv

\* The pass of a claim leaves mailbox and permit alone.
LEMMA PassKeeps == ASSUME Inv, NEW d \in Dispatchers, RunPass(d) PROVE Inv'
<1>1. loop[d].sleep \in {"Zero", "Poll", "Backoff"}
    BY DEF Inv, DrainTypeOK, Loop
<1>2. loop[d].at = "Pass" /\ UNCHANGED <<mailbox, wake, overflowed>>
    BY DEF RunPass
<1>3. mailbox' \in [Dispatchers -> Seq(SUBSET Messages)]
    BY <1>2 DEF Inv, DrainTypeOK
<1>4. CASE UNCHANGED loop
    BY <1>2, <1>4 DEF Inv, DrainTypeOK, OverflowIsPolled
<1>5. CASE Succeed(d) \/ Fail(d)
  <2>1. Moved(d, "Hint")
      BY <1>1, <1>5, SelectMoves DEF Succeed, Fail, Inv
  <2> QED
      BY <1>2, <1>3, <2>1, MoveKeeps
<1> QED
    BY <1>4, <1>5 DEF RunPass

\* A restart forgets the mailbox and polls first.
LEMMA RestartKeeps == ASSUME Inv, NEW d \in Dispatchers, Restart(d) PROVE Inv'
BY DEF Restart, Started, Inv, DrainTypeOK, OverflowIsPolled, Loop

\* Every step keeps the invariant.
LEMMA InvNext == Inv /\ [DrainNext]_allVars => Inv'
<1> SUFFICES ASSUME Inv, [DrainNext]_allVars PROVE Inv'
    OBVIOUS
<1>1. ASSUME NEW S \in SUBSET Messages, CommitElsewhere(S) PROVE Inv'
    BY <1>1 DEF CommitElsewhere, drainVars, Inv, DrainTypeOK, OverflowIsPolled
<1>2. ASSUME NEW S \in SUBSET Messages, NEW d \in Dispatchers, CommitHinted(d, S) PROVE Inv'
    BY <1>2, SubmitKeeps DEF CommitHinted
<1>3. ASSUME NEW d \in Dispatchers, Run(d) PROVE Inv'
    BY <1>3, HintKeeps, WakeKeeps, SleepKeeps, ParkKeeps, ClaimKeeps, PassKeeps DEF Run
<1>4. ASSUME NEW d \in Dispatchers, Fire(d) \/ ClaimFails(d) \/ Restart(d) PROVE Inv'
    BY <1>4, FireKeeps, FailKeeps, RestartKeeps
<1>5. ASSUME Time \/ UNCHANGED allVars PROVE Inv'
    BY <1>5 DEF Time, allVars, drainVars, Inv, DrainTypeOK, OverflowIsPolled
<1> QED
    BY <1>1, <1>2, <1>3, <1>4, <1>5 DEF DrainNext

\* However many hints a full mailbox drops, and whatever the loop does in between,
\* the next poll is decided or its permit is kept (drain.rs, try_submit and run).
THEOREM OverflowIsPolledHolds == DrainSpec => []OverflowIsPolled
<1>1. Inv => OverflowIsPolled
    BY DEF Inv
<1> QED
    BY <1>1, InvInit, InvNext, PTL DEF DrainSpec

-----------------------------------------------------------------------------
(* The drain loops implement the dispatchers of the outbox.                *)

\* A claim of a drain loop, by hint or by poll, is one of the claims of Outbox.
LEMMA ClaimDispatches ==
    ASSUME NEW d \in Dispatchers, ClaimRows(d)
    PROVE  Dispatch(d) \/ UNCHANGED vars
<1>1. CASE loop[d].ids = {}
  <2>1. (loop[d].ids = {}) = TRUE
      BY <1>1
  <2> QED
      BY Zenon, <1>1, <2>1 DEF ClaimRows, Dispatch, dispatch_batch
<1>2. CASE loop[d].ids # {}
  <2>1. Claimable \cap loop[d].ids = Claimable \cap (loop[d].ids \cap Messages)
      BY DEF Claimable
  <2>2. loop[d].ids \cap Messages \in SUBSET Messages
      OBVIOUS
  <2>3. claim(d, Claimable \cap loop[d].ids, FALSE) \/ UNCHANGED vars
    <3>1. (loop[d].ids = {}) = FALSE
        BY <1>2
    <3> QED
        BY Zenon, <1>2, <3>1 DEF ClaimRows
  <2>4. claim(d, Claimable \cap loop[d].ids, FALSE) => dispatch_ids(d, loop[d].ids \cap Messages)
      BY Zenon, <2>1 DEF dispatch_ids
  <2> QED
      BY Zenon, <2>2, <2>3, <2>4 DEF Dispatch
<1> QED
    BY <1>1, <1>2

\* A step of the loop is one of the outbox, or does not touch it.
LEMMA DrainStepsAreOutboxSteps == [DrainNext]_allVars => [Next]_vars
<1> SUFFICES ASSUME [DrainNext]_allVars PROVE Next \/ UNCHANGED vars
    OBVIOUS
<1>1. ASSUME NEW S \in SUBSET Messages \ {{}},
             CommitElsewhere(S) \/ \E d \in Dispatchers : CommitHinted(d, S)
      PROVE  Next
  <2>1. CommitPending(S)
      BY <1>1 DEF CommitElsewhere, CommitHinted
  <2> QED
      BY <2>1 DEF Next, Commit
<1>2. ASSUME NEW d \in Dispatchers, Run(d) PROVE Next \/ UNCHANGED vars
  <2>1. CASE next_hint(d) \/ wake_notified(d) \/ Sleep(d) \/ Unpark(d)
      BY <2>1 DEF next_hint, wake_notified, Sleep, Unpark
  <2>2. CASE ClaimRows(d)
      BY <2>2, ClaimDispatches DEF Next
  <2>3. CASE RunPass(d)
      BY <2>3 DEF RunPass, Next, Dispatch
  <2> QED
      BY <1>2, <2>1, <2>2, <2>3 DEF Run
<1>3. ASSUME NEW d \in Dispatchers, Fire(d) PROVE UNCHANGED vars
    BY <1>3 DEF Fire
<1>4. ASSUME NEW d \in Dispatchers, ClaimFails(d) \/ Restart(d) PROVE Next
    BY <1>4 DEF ClaimFails, Restart, Next
<1>5. ASSUME Time PROVE Next
    BY <1>5 DEF Time, Next
<1>6. ASSUME UNCHANGED allVars PROVE UNCHANGED vars
    BY <1>6 DEF allVars
<1> QED
    BY <1>1, <1>2, <1>3, <1>4, <1>5, <1>6 DEF DrainNext

\* Hints, polls, failing claims and restarts of the drain loops do to the rows and
\* the passes only what the dispatchers of Outbox may do, so that all that is
\* proved of Outbox holds of a service with drain loops.
THEOREM DrainImplementsOutbox == DrainSpec => ImplementsOutbox
<1>1. DrainInit => Init
    BY DEF DrainInit
<1> QED
    BY <1>1, DrainStepsAreOutboxSteps, PTL DEF DrainSpec, ImplementsOutbox, Spec
=============================================================================
